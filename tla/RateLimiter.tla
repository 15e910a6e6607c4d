---------------------------- MODULE RateLimiter ----------------------------
(***************************************************************************)
(* The rate limit of one client address and one class of routes: requests  *)
(* at several API processes, counted in the memory of each process or by   *)
(* a script in the Redis they share.                                       *)
(*                                                                         *)
(* Time is relative: an age is the time since something happened, by the   *)
(* clock that the code compares it with.  Memory stores share nothing, so  *)
(* one process stands for all that have one.                               *)
(***************************************************************************)
EXTENDS Integers

CONSTANTS
    Processes,   \* API processes
    Requests,    \* bound: requests in progress at the same time
    Stores,      \* the stores to check, of "memory" and "redis"
    Limit,       \* LoginPerMinute, RefreshPerMinute or APIPerMinute
    Second,      \* ticks per second
    Window,      \* time.Minute, in ticks
    MaxDelay,    \* bound: ticks from the clock reading to the mutex, and from
                 \* the script in Redis to the return of its call
    Resends,     \* bound: times the client sends the script of a request again
    Step,        \* bound: ticks by which a clock is set
    MaxFaults    \* bound: restarts, and settings of a clock

ASSUME RateLimiterAssumption ==
    /\ Processes # {}
    /\ Stores \subseteq {"memory", "redis"}
    /\ Limit \in Nat \ {0}
    /\ Second \in Nat \ {0}
    /\ Window \in Nat \ {0} /\ Window % Second = 0
    /\ MaxDelay \in Nat /\ MaxDelay < Window
    /\ Resends \in Nat /\ Step \in Nat /\ MaxFaults \in Nat

VARIABLES
    store,     \* chosen at the start, never changed
    bucket,    \* bucket[p]; the one of Shared is the key in Redis
    request,   \* request[r] is in Middleware
    granted,   \* history: how often the store answered up to Limit, per window
    opened,    \* history: true time since the window was opened
    told,      \* history: what is left of the shortest Retry-After of the window
    watched,   \* history: true time since an observer began to watch
    passed,    \* history: requests that passed while it watches
    faults     \* history: the faults so far

vars == <<store, bucket, request, granted, opened, told, watched, passed, faults>>

Shared == CHOOSE p \in Processes : TRUE

InMemory == store = "memory"

Serving == IF InMemory THEN {Shared} ELSE Processes

BucketOf(p) == IF InMemory THEN p ELSE Shared

\* Ages from here on make no difference: the window is over, and stays over
\* when a clock is set back.
Old == Window + MaxDelay + Step * MaxFaults

\* The least time a window is open, and the time an observer watches.
Span == Window - MaxDelay

NoBucket == [used |-> 0, age |-> 0]

NotTold == -1

Idle == [pc |-> "idle"]

TypeOK ==
    /\ store \in Stores
    /\ bucket \in [Processes -> [used : 0 .. Limit + 1,
                                 age  : -(Step * MaxFaults) .. Old]]
    /\ \A r \in Requests :
        /\ request[r].pc \in {"idle", "counting", "sent", "reply"}
        /\ request[r].pc # "idle" =>
            /\ request[r].at \in Serving
            /\ request[r].age \in 0 .. MaxDelay
    /\ granted \in [Processes -> 0 .. Limit]
    /\ opened \in [Processes -> 0 .. Span]
    /\ told \in [Processes -> NotTold .. Old + Second]
    /\ watched \in 0 .. Span
    /\ passed \in Nat
    /\ faults \in 0 .. MaxFaults

-----------------------------------------------------------------------------
UpTo(bound, n) == IF n < bound THEN n + 1 ELSE bound

AtLeast(bound, n) == IF n < bound THEN bound ELSE n

Init ==
    /\ store \in Stores
    /\ bucket = [p \in Processes |-> NoBucket]
    /\ request = [r \in Requests |-> Idle]
    /\ granted = [p \in Processes |-> 0]
    /\ opened = [p \in Processes |-> Span]
    /\ told = [p \in Processes |-> NotTold]
    /\ watched = Span
    /\ passed = 0
    /\ faults = 0

\* Middleware, up to the reading of the clock, or the sending of the script.
Ask(r, p) ==
    /\ request[r].pc = "idle"
    /\ request' = [request EXCEPT ![r] =
          [pc |-> IF InMemory THEN "counting" ELSE "sent", at |-> p, age |-> 0,
           used |-> 0, resends |-> IF InMemory THEN 0 ELSE Resends]]
    /\ UNCHANGED <<store, bucket, granted, opened, told, watched, passed, faults>>

\* The window of `b` is over for one who read the clock `reading` ticks ago.
LapsedEarly(b, reading) ==  \* faulty: off by one
    bucket[b].used = 0 \/ bucket[b].age - reading >= Window - 1

Lapsed(b, reading) == bucket[b].used = 0 \/ bucket[b].age - reading >= Window

\* The bucket when a request has been counted.  Counts above Limit + 1 make no
\* difference.
Counted(b, reading) ==
    IF Lapsed(b, reading)
    THEN [used |-> 1, age |-> reading]
    ELSE [bucket[b] EXCEPT !.used = UpTo(Limit + 1, @)]

\* What is left of the window of `item`.  Memory gives a second at least; the
\* TTL of Redis is rounded to the nearest second.
ElapsedTTL(item, reading) ==  \* faulty: the time that is over, not what is left
    AtLeast(Second, item.age - reading)

TTL(item, reading) ==
    LET left == Window - (item.age - reading)
    IN  IF InMemory THEN AtLeast(Second, left)
        ELSE ((2 * left + Second) \div (2 * Second)) * Second

\* Retry-After, in whole seconds and at least one, given in ticks.
RetryAfter(ttl) == AtLeast(1, (ttl + Second - 1) \div Second) * Second

PassesOnLimit(count) == count <= Limit + 1  \* faulty: off by one

Passes(count) == count <= Limit

\* A request is counted in `b`: what the store does, in memory under the mutex
\* and in Redis in one script, and what the properties remember of it.
Count(b, reading) ==
    LET item   == Counted(b, reading)
        lapsed == Lapsed(b, reading)
        wait   == RetryAfter(TTL(item, reading))
    IN  /\ bucket' = [bucket EXCEPT ![b] = item]
        /\ opened' = [opened EXCEPT ![b] = IF lapsed THEN 0 ELSE @]
        /\ granted' = [granted EXCEPT ![b] =
               IF lapsed THEN 1 ELSE IF Passes(item.used) THEN @ + 1 ELSE @]
        /\ told' = [told EXCEPT ![b] =
               IF lapsed THEN NotTold
               ELSE IF ~Passes(item.used) /\ (@ = NotTold \/ wait < @) THEN wait
               ELSE @]

\* Middleware calls the next handler, or not.
Answer(r, pass) ==
    /\ request' = [request EXCEPT ![r] = Idle]
    /\ passed' = IF pass /\ watched < Span THEN passed + 1 ELSE passed

\* memoryCounterStore.Increment has the mutex.
IncrementInMemory(r) ==
    /\ request[r].pc = "counting"
    /\ LET b == BucketOf(request[r].at)
       IN  /\ Count(b, request[r].age)
           /\ Answer(r, Passes(Counted(b, request[r].age).used))
    /\ UNCHANGED <<store, watched, faults>>

\* Redis runs the script, on its own clock.
RunScript(r) ==
    /\ request[r].pc = "sent"
    /\ LET b == BucketOf(request[r].at)
       IN  /\ Count(b, 0)
           /\ request' = [request EXCEPT ![r].pc = "reply",
                                         ![r].used = Counted(b, 0).used]
    /\ UNCHANGED <<store, watched, passed, faults>>

Receive(r) ==
    /\ request[r].pc = "reply"
    /\ Answer(r, Passes(request[r].used))
    /\ UNCHANGED <<store, bucket, granted, opened, told, watched, faults>>

\* The reply is lost, and the client of Redis sends the script again: the
\* request is counted once more.
Resend(r) ==
    /\ request[r].pc = "reply"
    /\ request[r].resends > 0
    /\ request' = [request EXCEPT ![r].pc = "sent", ![r].age = 0,
                                  ![r].used = 0, ![r].resends = @ - 1]
    /\ UNCHANGED <<store, bucket, granted, opened, told, watched, passed, faults>>

OnErrorOpen == TRUE  \* faulty: without Redis requests pass

OnError == FALSE

\* Redis cannot be reached, before or after it ran the script: 503.
Unavailable(r) ==
    /\ request[r].pc \in {"sent", "reply"}
    /\ Answer(r, OnError)
    /\ UNCHANGED <<store, bucket, granted, opened, told, watched, faults>>

-----------------------------------------------------------------------------
\* Nobody is kept from the mutex, or from the reply, for longer.
Tick ==
    /\ \A r \in Requests :
        request[r].pc \in {"counting", "reply"} => request[r].age < MaxDelay
    /\ bucket' = [p \in Processes |->
          IF bucket[p].used = 0 THEN NoBucket
          ELSE [bucket[p] EXCEPT !.age = UpTo(Old, @)]]
    /\ request' = [r \in Requests |->
          IF request[r].pc \in {"counting", "reply"}
          THEN [request[r] EXCEPT !.age = @ + 1] ELSE request[r]]
    /\ opened' = [p \in Processes |-> UpTo(Span, opened[p])]
    /\ told' = [p \in Processes |-> IF told[p] > 0 THEN told[p] - 1 ELSE told[p]]
    /\ watched' = UpTo(Span, watched)
    /\ UNCHANGED <<store, granted, passed, faults>>

\* An observer begins to watch, at any time.
Watch ==
    /\ watched = Span
    /\ watched' = 0
    /\ passed' = 0
    /\ UNCHANGED <<store, bucket, request, granted, opened, told, faults>>

\* The fault ends the window of `p`, as far as the promise is concerned.
Fault(p) ==
    /\ faults < MaxFaults
    /\ faults' = faults + 1
    /\ opened' = [opened EXCEPT ![p] = Span]

\* The store starts again with nothing: the process, or Redis, for which
\* nothing is configured to persist.
Restart(p) ==
    /\ p = BucketOf(p)
    /\ Fault(p)
    /\ bucket' = [bucket EXCEPT ![p] = NoBucket]
    /\ told' = [told EXCEPT ![p] = NotTold]
    /\ request' = [r \in Requests |->
          IF InMemory /\ request[r].pc # "idle" /\ request[r].at = p
          THEN Idle ELSE request[r]]
    /\ UNCHANGED <<store, granted, watched, passed>>

\* The wall clock of a process is set.  UTC() drops the monotonic reading, so
\* the store goes by the wall clock.  Setting it back prolongs the window that
\* is open, and what clients were told of it holds no longer.  It is not set
\* while a request is on its way from the clock to the mutex.
SetClock(p, step) ==
    /\ InMemory /\ p \in Serving
    /\ bucket[p].used > 0
    /\ \A r \in Requests : request[r].pc = "idle"
    /\ Fault(p)
    /\ bucket' = [bucket EXCEPT ![p].age =
          IF @ + step > Old THEN Old ELSE @ + step]
    /\ told' = [told EXCEPT ![p] = IF step < 0 THEN NotTold ELSE @]
    /\ UNCHANGED <<store, request, granted, watched, passed>>

Next ==
    \/ \E r \in Requests :
        \/ \E p \in Serving : Ask(r, p)
        \/ IncrementInMemory(r)
        \/ RunScript(r) \/ Receive(r) \/ Resend(r) \/ Unavailable(r)
    \/ \E p \in Serving :
        \/ Restart(p)
        \/ SetClock(p, Step) \/ SetClock(p, -Step)
    \/ Tick
    \/ Watch

Spec == Init /\ [][Next]_vars

-----------------------------------------------------------------------------
\* While one watches for a window less MaxDelay, no more than two windows' worth
\* of requests pass, and with Redis that is so for all processes together: late
\* goroutines and replies, repeated scripts and an unreachable Redis let nobody
\* through beside the count.  Each fault costs a window at most.
BurstIsBounded == passed <= (2 + faults) * Limit

\* Whoever is refused and waits as long as Retry-After says finds the window
\* over, with Redis but for the half second that TTL may have rounded away: no
\* clock reading that was late at the mutex makes it promise too much, and no
\* refused request prolongs the window for the others.
RetryAfterIsHonest ==
    \A p \in Processes :
        told[p] = 0 =>
            Window - bucket[p].age <= IF InMemory THEN 0 ELSE (Second - 1) \div 2

Promise == INSTANCE FixedWindow WITH
    Counters <- Processes, MinLength <- Span, open <- opened

\* Both stores implement the fixed window, each request that the store counts
\* up to the limit being a grant, also when its answer is lost.
ImplementsFixedWindow == Promise!Spec
=============================================================================
