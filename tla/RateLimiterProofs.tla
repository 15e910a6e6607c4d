-------------------------- MODULE RateLimiterProofs --------------------------
(***************************************************************************)
(* Proofs about RateLimiter, for every number of processes and requests,   *)
(* every limit, window and delay, and every number of faults.              *)
(*                                                                         *)
(* That it implements FixedWindow: a bucket counts at least what it        *)
(* grants, so a window never grants more than Limit; and the age of a      *)
(* window, by the reading of whoever opened it, is ahead of the true one   *)
(* by MaxDelay at most, so a window that is over by anybody's clock has    *)
(* been open for Span.                                                     *)
(*                                                                         *)
(* That Retry-After is enough: what is rounded on the way to the header,   *)
(* and what clocks and faults do to the window until it has passed.        *)
(*                                                                         *)
(* That bursts are bounded: what passes while one watches was granted by   *)
(* the present window, the one before it, or one that a fault cut short.   *)
(***************************************************************************)
EXTENDS RateLimiter, FiniteSetTheorems, TLAPS

Busy == [pc : {"counting", "sent", "reply"}, at : Serving, age : Nat,
         used : Nat, resends : Nat]

Types ==
    /\ store \in Stores
    /\ bucket \in [Processes -> [used : Nat, age : Int]]
    /\ request \in [Requests -> {Idle} \union Busy]
    /\ granted \in [Processes -> 0 .. Limit]
    /\ opened \in [Processes -> 0 .. Span]

ReadingsAreRecent ==
    \A r \in Requests : request[r].pc = "counting" => request[r].age <= MaxDelay

GrantsAreCounted ==
    \A p \in Processes : bucket[p].used > 0 => granted[p] <= bucket[p].used

AgeIsAlmostTrue ==
    \A p \in Processes :
        \/ opened[p] = Span
        \/ bucket[p].used > 0 /\ bucket[p].age <= opened[p] + MaxDelay

WindowInv ==
    Types /\ ReadingsAreRecent /\ GrantsAreCounted /\ AgeIsAlmostTrue

-----------------------------------------------------------------------------
\* The constants, as the steps below need them.
LEMMA Constants ==
    /\ Shared \in Processes
    /\ Serving \subseteq Processes
    /\ \A p \in Serving : BucketOf(p) \in Processes
    /\ Limit \in Nat \ {0} /\ Window \in Nat \ {0}
    /\ MaxDelay \in Nat /\ MaxDelay < Window
    /\ Span \in Nat \ {0} /\ Span = Window - MaxDelay
    /\ Resends \in Nat /\ Step \in Nat
    /\ Old \in Nat
<1>1. Shared \in Processes
  BY RateLimiterAssumption DEF Shared
<1>2. Step * MaxFaults \in Nat
  <2>1. Step \in Nat /\ MaxFaults \in Nat
    BY RateLimiterAssumption
  <2>2. QED
    BY <2>1, SMT
<1>3. Limit \in Nat \ {0} /\ Window \in Nat \ {0} /\ MaxDelay \in Nat
      /\ MaxDelay < Window /\ Resends \in Nat /\ Step \in Nat
  BY RateLimiterAssumption
<1>4. Old \in Nat
  BY <1>2, <1>3 DEF Old
<1>5. QED
  BY <1>1, <1>3, <1>4 DEF Serving, BucketOf, Span

\* What counting a request in a bucket does to the invariant and to the promise,
\* if the clock was read at most MaxDelay ago.
LEMMA CountEffect ==
    ASSUME WindowInv, NEW b \in Processes, NEW reading \in 0 .. MaxDelay,
           Count(b, reading), UNCHANGED faults
    PROVE  /\ bucket' \in [Processes -> [used : Nat, age : Int]]
           /\ granted' \in [Processes -> 0 .. Limit]
           /\ opened' \in [Processes -> 0 .. Span]
           /\ GrantsAreCounted'
           /\ AgeIsAlmostTrue'
           /\ \/ Promise!Grant(b)
              \/ Promise!Roll(b)
              \/ UNCHANGED <<granted, opened, faults>>
           /\ Counted(b, reading).used \in Nat
<1> DEFINE item == Counted(b, reading)
           lapsed == Lapsed(b, reading)
<1>1. /\ bucket' = [bucket EXCEPT ![b] = item]
      /\ opened' = [opened EXCEPT ![b] = IF lapsed THEN 0 ELSE @]
      /\ granted' = [granted EXCEPT ![b] =
             IF lapsed THEN 1 ELSE IF item.used <= Limit THEN @ + 1 ELSE @]
  BY DEF Count, Passes
<1>2. /\ bucket[b] \in [used : Nat, age : Int]
      /\ granted[b] \in 0 .. Limit
      /\ opened[b] \in 0 .. Span
      /\ bucket[b].used > 0 => granted[b] <= bucket[b].used
      /\ opened[b] = Span \/ (bucket[b].used > 0 /\ bucket[b].age <= opened[b] + MaxDelay)
  BY DEF WindowInv, Types, GrantsAreCounted, AgeIsAlmostTrue
<1>3. CASE lapsed
  <2>1. item = [used |-> 1, age |-> reading]
    BY <1>3 DEF Counted
  <2>2. opened[b] = Span
    BY <1>2, <1>3, Constants DEF Lapsed
  <2>3. /\ bucket' = [bucket EXCEPT ![b] = item]
        /\ opened' = [opened EXCEPT ![b] = 0]
        /\ granted' = [granted EXCEPT ![b] = 1]
    BY <1>1, <1>3
  <2>4. Promise!Roll(b)
    BY <2>2, <2>3, Constants DEF Promise!Roll
  <2>5. QED
    BY <2>1, <2>3, <2>4, Constants
    DEF WindowInv, Types, GrantsAreCounted, AgeIsAlmostTrue
<1>4. CASE ~lapsed
  <2>1. /\ item \in [used : Nat, age : Int]
        /\ item.age = bucket[b].age
        /\ item.used > 0
        /\ item.used = IF bucket[b].used < Limit + 1 THEN bucket[b].used + 1 ELSE Limit + 1
    BY <1>2, <1>4, Constants DEF Counted, UpTo
  <2>2. opened' = opened
    BY <1>1, <1>4 DEF WindowInv, Types
  <2>3. bucket[b].used > 0
    BY <1>2, <1>4 DEF Lapsed
  <2>4. CASE item.used <= Limit
    <3>1. granted' = [granted EXCEPT ![b] = granted[b] + 1]
      BY <1>1, <1>4, <2>4
    <3>2. granted[b] + 1 <= item.used /\ granted[b] < Limit
      BY <1>2, <2>1, <2>3, <2>4, Constants
    <3>3. Promise!Grant(b)
      BY <2>2, <3>1, <3>2 DEF Promise!Grant
    <3>4. QED
      BY <1>1, <1>2, <2>1, <2>2, <3>1, <3>2, <3>3, Constants
      DEF WindowInv, Types, GrantsAreCounted, AgeIsAlmostTrue
  <2>5. CASE ~(item.used <= Limit)
    <3>1. granted' = granted
      BY <1>1, <1>4, <2>5 DEF WindowInv, Types
    <3>2. granted[b] <= item.used
      BY <1>2, <2>1, <2>5, Constants
    <3>3. QED
      BY <1>1, <1>2, <2>1, <2>2, <3>1, <3>2, Constants
      DEF WindowInv, Types, GrantsAreCounted, AgeIsAlmostTrue
  <2>6. QED
    BY <2>4, <2>5
<1>5. QED
  BY <1>3, <1>4

-----------------------------------------------------------------------------
LEMMA InitEstablishes == Init => WindowInv /\ Promise!Init
<1> SUFFICES ASSUME Init PROVE WindowInv /\ Promise!Init
  OBVIOUS
<1>1. WindowInv
  <2>1. bucket \in [Processes -> [used : Nat, age : Int]]
    BY DEF Init, NoBucket
  <2>2. QED
    BY <2>1, Constants
    DEF Init, WindowInv, Types, ReadingsAreRecent, GrantsAreCounted,
        AgeIsAlmostTrue, Idle
<1>2. Promise!Init
  BY DEF Init, Promise!Init
<1>3. QED
  BY <1>1, <1>2

\* What only moves a request on changes nothing that the promise is about.
LEMMA RequestEffect ==
    ASSUME WindowInv, NEW r \in Requests, NEW next \in {Idle} \union Busy,
           request' = [request EXCEPT ![r] = next],
           next.pc = "counting" => next.age <= MaxDelay,
           store' = store
    PROVE  /\ store' \in Stores
           /\ request' \in [Requests -> {Idle} \union Busy']
           /\ ReadingsAreRecent'
<1>1. Busy' = Busy
  BY DEF Busy, Serving, InMemory
<1>2. request' \in [Requests -> {Idle} \union Busy]
  BY DEF WindowInv, Types
<1>3. \A q \in Requests : request'[q] = IF q = r THEN next ELSE request[q]
  BY DEF WindowInv, Types
<1>4. ReadingsAreRecent'
  BY <1>3 DEF WindowInv, ReadingsAreRecent
<1>5. QED
  BY <1>1, <1>2, <1>4 DEF WindowInv, Types

\* A request that is on its way has what Busy says.
LEMMA BusyRequest ==
    ASSUME WindowInv, NEW r \in Requests, request[r].pc # "idle"
    PROVE  /\ request[r] \in Busy
           /\ BucketOf(request[r].at) \in Processes
<1>1. request[r] \in Busy
  BY DEF WindowInv, Types, Idle
<1>2. request[r].at \in Serving
  BY <1>1 DEF Busy
<1>3. QED
  BY <1>1, <1>2, Constants

-----------------------------------------------------------------------------
\* The steps of a request.
LEMMA RequestStep ==
    ASSUME WindowInv, NEW r \in Requests,
           \/ \E p \in Serving : Ask(r, p)
           \/ IncrementInMemory(r)
           \/ RunScript(r) \/ Receive(r) \/ Resend(r) \/ Unavailable(r)
    PROVE  WindowInv' /\ [Promise!Next]_(Promise!vars)
<1> DEFINE Quiet == UNCHANGED <<store, bucket, granted, opened, faults>>
           Moves(next) == request' = [request EXCEPT ![r] = next]
\* It moves on and counts nothing.
<1>1. ASSUME Quiet, NEW next \in {Idle} \union Busy, Moves(next),
             next.pc = "counting" => next.age <= MaxDelay
      PROVE  WindowInv' /\ [Promise!Next]_(Promise!vars)
  <2>1. /\ store' \in Stores
        /\ request' \in [Requests -> {Idle} \union Busy']
        /\ ReadingsAreRecent'
    BY <1>1, RequestEffect
  <2>2. QED
    BY <1>1, <2>1
    DEF WindowInv, Types, GrantsAreCounted, AgeIsAlmostTrue, Promise!vars
\* It is counted in a bucket.
<1>2. ASSUME NEW b \in Processes, NEW reading \in 0 .. MaxDelay,
             Count(b, reading), UNCHANGED <<store, faults>>,
             NEW next \in {Idle} \union Busy, Moves(next),
             next.pc # "counting"
      PROVE  WindowInv' /\ [Promise!Next]_(Promise!vars)
  <2>1. /\ store' \in Stores
        /\ request' \in [Requests -> {Idle} \union Busy']
        /\ ReadingsAreRecent'
    BY <1>2, RequestEffect
  <2>2. /\ bucket' \in [Processes -> [used : Nat, age : Int]]
        /\ granted' \in [Processes -> 0 .. Limit]
        /\ opened' \in [Processes -> 0 .. Span]
        /\ GrantsAreCounted'
        /\ AgeIsAlmostTrue'
        /\ \/ Promise!Grant(b)
           \/ Promise!Roll(b)
           \/ UNCHANGED <<granted, opened, faults>>
    BY <1>2, CountEffect
  <2>3. [Promise!Next]_(Promise!vars)
    BY <2>2 DEF Promise!Next, Promise!vars
  <2>4. QED
    BY <2>1, <2>2, <2>3 DEF WindowInv, Types
<1>3. ASSUME NEW p \in Serving, Ask(r, p)
      PROVE  WindowInv' /\ [Promise!Next]_(Promise!vars)
  <2> DEFINE next == [pc |-> IF InMemory THEN "counting" ELSE "sent", at |-> p,
                      age |-> 0, used |-> 0,
                      resends |-> IF InMemory THEN 0 ELSE Resends]
  <2>1. Moves(next) /\ Quiet
    BY <1>3 DEF Ask
  <2>2. next \in Busy /\ next.age = 0
    BY Constants DEF Busy
  <2>3. 0 <= MaxDelay
    BY Constants
  <2> HIDE DEF next
  <2>4. QED
    BY <1>1, <2>1, <2>2, <2>3
<1>4. CASE IncrementInMemory(r)
  <2>1. request[r] \in Busy /\ BucketOf(request[r].at) \in Processes
    BY <1>4, BusyRequest DEF IncrementInMemory
  <2>2. request[r].age \in 0 .. MaxDelay
    BY <1>4, <2>1, Constants DEF IncrementInMemory, WindowInv, ReadingsAreRecent, Busy
  <2>3. Count(BucketOf(request[r].at), request[r].age)
    BY <1>4 DEF IncrementInMemory
  <2>4. Moves(Idle) /\ UNCHANGED <<store, faults>>
    BY <1>4 DEF IncrementInMemory, Answer
  <2>5. Idle.pc # "counting"
    BY DEF Idle
  <2>6. QED
    BY <1>2, <2>1, <2>2, <2>3, <2>4, <2>5
<1>5. CASE RunScript(r)
  <2> DEFINE b == BucketOf(request[r].at)
             next == [request[r] EXCEPT !.pc = "reply", !.used = Counted(b, 0).used]
  <2>1. request[r] \in Busy /\ b \in Processes
    BY <1>5, BusyRequest DEF RunScript
  <2>2. Count(b, 0) /\ UNCHANGED <<store, faults>> /\ 0 \in 0 .. MaxDelay
    BY <1>5, Constants DEF RunScript
  <2>3. Counted(b, 0).used \in Nat
    <3> HIDE DEF b
    <3>1. QED
      BY <2>1, <2>2, CountEffect
  <2>4. Moves(next)
    <3>1. request' = [request EXCEPT ![r].pc = "reply",
                                     ![r].used = Counted(b, 0).used]
      BY <1>5 DEF RunScript
    <3> HIDE DEF b
    <3>2. request \in [Requests -> {Idle} \union Busy]
      BY DEF WindowInv, Types
    <3>3. QED
      BY <2>1, <3>1, <3>2 DEF Busy
  <2>5. next \in Busy /\ next.pc # "counting"
    <3> HIDE DEF b
    <3>1. QED
      BY <2>1, <2>3 DEF Busy
  <2> HIDE DEF b, next
  <2>6. QED
    BY <1>2, <2>1, <2>2, <2>4, <2>5
<1>6. CASE Receive(r)
  BY <1>1, <1>6 DEF Receive, Answer, Idle
<1>7. CASE Resend(r)
  <2> DEFINE next == [request[r] EXCEPT !.pc = "sent", !.age = 0, !.used = 0,
                                        !.resends = request[r].resends - 1]
  <2>1. request[r] \in Busy
    BY <1>7, BusyRequest DEF Resend
  <2>2. request \in [Requests -> {Idle} \union Busy]
    BY DEF WindowInv, Types
  <2>3. Moves(next) /\ Quiet
    BY <1>7, <2>1, <2>2 DEF Resend, Busy
  <2>4. request[r].resends - 1 \in Nat
    BY <1>7, <2>1 DEF Resend, Busy
  <2>5. ASSUME NEW q \in Busy, NEW n \in Nat
        PROVE  /\ [q EXCEPT !.pc = "sent", !.age = 0, !.used = 0, !.resends = n] \in Busy
               /\ [q EXCEPT !.pc = "sent", !.age = 0, !.used = 0, !.resends = n].pc = "sent"
    BY DEF Busy
  <2>6. next \in Busy /\ next.pc # "counting"
    BY <2>1, <2>4, <2>5
  <2> HIDE DEF next
  <2>7. QED
    BY <1>1, <2>3, <2>6
<1>8. CASE Unavailable(r)
  BY <1>1, <1>8 DEF Unavailable, Answer, Idle
<1>9. QED
  BY <1>3, <1>4, <1>5, <1>6, <1>7, <1>8

-----------------------------------------------------------------------------
LEMMA TickStep ==
    ASSUME WindowInv, Tick
    PROVE  WindowInv' /\ [Promise!Next]_(Promise!vars)
<1>1. Promise!Tick
  <2>1. opened' = [p \in Processes |->
                      IF opened[p] < Span THEN opened[p] + 1 ELSE Span]
    BY DEF Tick, UpTo
  <2>2. QED
    BY <2>1 DEF Tick, Promise!Tick
<1>2. ASSUME NEW p \in Processes
      PROVE  /\ bucket'[p] \in [used : Nat, age : Int]
             /\ bucket'[p].used = bucket[p].used
             /\ bucket[p].used > 0 => bucket'[p].age <= bucket[p].age + 1
  <2>1. bucket[p] \in [used : Nat, age : Int]
    BY DEF WindowInv, Types
  <2>2. CASE bucket[p].used = 0
    <3>1. bucket'[p] = NoBucket
      BY <2>2 DEF Tick
    <3>2. QED
      BY <2>1, <2>2, <3>1 DEF NoBucket
  <2>3. CASE bucket[p].used # 0
    <3> DEFINE age == IF bucket[p].age < Old THEN bucket[p].age + 1 ELSE Old
    <3>1. bucket'[p] = [bucket[p] EXCEPT !.age = age]
      BY <2>3 DEF Tick, UpTo
    <3>2. age \in Int /\ age <= bucket[p].age + 1
      BY <2>1, Constants
    <3> HIDE DEF age
    <3>3. QED
      BY <2>1, <2>3, <3>1, <3>2
  <2>4. QED
    BY <2>2, <2>3
<1>3. bucket' \in [Processes -> [used : Nat, age : Int]]
  <2>1. bucket' = [p \in Processes |-> bucket'[p]]
    BY DEF Tick
  <2>2. QED
    BY <1>2, <2>1
<1>4. ASSUME NEW r \in Requests
      PROVE  /\ request'[r] \in {Idle} \union Busy
             /\ request'[r].pc = "counting" => request'[r].age <= MaxDelay
  <2>1. request[r] \in {Idle} \union Busy
    BY DEF WindowInv, Types
  <2>2. CASE request[r].pc \in {"counting", "reply"}
    <3>1. request[r] \in Busy /\ request[r].age < MaxDelay
      BY <2>1, <2>2 DEF Tick, Idle
    <3>2. request'[r] = [request[r] EXCEPT !.age = @ + 1]
      BY <2>2 DEF Tick
    <3>3. QED
      BY <3>1, <3>2, Constants DEF Busy
  <2>3. CASE request[r].pc \notin {"counting", "reply"}
    BY <2>1, <2>3 DEF Tick
  <2>4. QED
    BY <2>2, <2>3
<1>5. request' \in [Requests -> {Idle} \union Busy']
  <2>1. Busy' = Busy
    BY DEF Tick, Busy, Serving, InMemory
  <2>2. request' = [r \in Requests |-> request'[r]]
    BY DEF Tick
  <2>3. QED
    BY <1>4, <2>1, <2>2
<1>6. opened' \in [Processes -> 0 .. Span]
  BY Constants DEF Tick, UpTo, WindowInv, Types
<1>7. GrantsAreCounted'
  BY <1>2 DEF Tick, WindowInv, GrantsAreCounted
<1>8. AgeIsAlmostTrue'
  <2> SUFFICES ASSUME NEW p \in Processes
               PROVE  \/ opened'[p] = Span
                      \/ /\ bucket'[p].used > 0
                         /\ bucket'[p].age <= opened'[p] + MaxDelay
    BY Constants DEF AgeIsAlmostTrue
  <2>1. opened[p] \in 0 .. Span
    BY DEF WindowInv, Types
  <2>2. opened'[p] = IF opened[p] < Span THEN opened[p] + 1 ELSE Span
    BY DEF Tick, UpTo
  <2>3. CASE opened[p] = Span
    BY <2>1, <2>2, <2>3, Constants
  <2>4. CASE opened[p] # Span
    <3>1. bucket[p].used > 0 /\ bucket[p].age <= opened[p] + MaxDelay
      BY <2>4 DEF WindowInv, AgeIsAlmostTrue
    <3>2. opened'[p] = opened[p] + 1
      BY <2>1, <2>2, <2>4, Constants
    <3>3. bucket[p].age \in Int /\ bucket'[p].age \in Int
      BY <1>2 DEF WindowInv, Types
    <3>4. QED
      BY <1>2, <2>1, <3>1, <3>2, <3>3, Constants
  <2>5. QED
    BY <2>3, <2>4
<1>9. QED
  BY <1>1, <1>3, <1>4, <1>5, <1>6, <1>7, <1>8
  DEF Tick, WindowInv, Types, ReadingsAreRecent, Promise!Next

\* A restart or another time of day ends the window, as the promise sees it.
LEMMA FaultStep ==
    ASSUME WindowInv, NEW p \in Serving,
           \/ Restart(p)
           \/ \E step \in {Step, -Step} : SetClock(p, step)
    PROVE  WindowInv' /\ [Promise!Next]_(Promise!vars)
<1>1. p \in Processes
  BY Constants
<1>2. /\ UNCHANGED <<store, granted>>
      /\ faults' = faults + 1
      /\ opened' = [opened EXCEPT ![p] = Span]
  BY DEF Restart, SetClock, Fault
<1>3. Promise!Fault(p)
  BY <1>2 DEF Promise!Fault
<1>4. request' \in [Requests -> {Idle} \union Busy] /\ ReadingsAreRecent'
  <2>1. CASE Restart(p)
    <3>1. request' = [r \in Requests |->
              IF InMemory /\ request[r].pc # "idle" /\ request[r].at = p
              THEN Idle ELSE request[r]]
      BY <2>1 DEF Restart
    <3>2. \A r \in Requests : request'[r] \in {Idle, request[r]}
      BY <3>1
    <3>3. request \in [Requests -> {Idle} \union Busy]
      BY DEF WindowInv, Types
    <3>4. request' \in [Requests -> {Idle} \union Busy]
      BY <3>1, <3>3
    <3>5. QED
      BY <3>2, <3>4 DEF WindowInv, ReadingsAreRecent, Idle
  <2>2. CASE \E step \in {Step, -Step} : SetClock(p, step)
    <3>1. request' = request
      BY <2>2 DEF SetClock
    <3>2. QED
      BY <3>1 DEF WindowInv, Types, ReadingsAreRecent
  <2>3. QED
    BY <2>1, <2>2
<1>5. /\ bucket' \in [Processes -> [used : Nat, age : Int]]
      /\ \A q \in Processes : q # p => bucket'[q] = bucket[q]
      /\ bucket'[p].used \in {0, bucket[p].used}
  <2>1. bucket \in [Processes -> [used : Nat, age : Int]]
    BY DEF WindowInv, Types
  <2>2. CASE Restart(p)
    <3>1. bucket' = [bucket EXCEPT ![p] = [used |-> 0, age |-> 0]]
      BY <2>2 DEF Restart, NoBucket
    <3>2. QED
      BY <1>1, <2>1, <3>1
  <2>3. ASSUME NEW step \in {Step, -Step}, SetClock(p, step)
        PROVE  /\ bucket' \in [Processes -> [used : Nat, age : Int]]
               /\ \A q \in Processes : q # p => bucket'[q] = bucket[q]
               /\ bucket'[p].used \in {0, bucket[p].used}
    <3> DEFINE age == IF bucket[p].age + step > Old THEN Old
                      ELSE bucket[p].age + step
    <3>1. bucket' = [bucket EXCEPT ![p].age = age]
      BY <2>3 DEF SetClock
    <3>2. age \in Int
      BY <1>1, <2>1, Constants
    <3> HIDE DEF age
    <3>3. QED
      BY <1>1, <2>1, <3>1, <3>2
  <2>4. QED
    BY <2>2, <2>3
<1>6. opened' \in [Processes -> 0 .. Span]
  BY <1>1, <1>2, Constants DEF WindowInv, Types
<1>7. GrantsAreCounted'
  BY <1>1, <1>2, <1>5, Constants DEF WindowInv, Types, GrantsAreCounted
<1>8. AgeIsAlmostTrue'
  BY <1>1, <1>2, <1>5, Constants DEF WindowInv, Types, AgeIsAlmostTrue
<1>9. Busy' = Busy
  BY <1>2 DEF Busy, Serving, InMemory
<1>10. QED
  BY <1>1, <1>2, <1>3, <1>4, <1>5, <1>6, <1>7, <1>8, <1>9
  DEF WindowInv, Types, Promise!Next

-----------------------------------------------------------------------------
LEMMA StepPreserves ==
    ASSUME WindowInv, [Next]_vars
    PROVE  WindowInv' /\ [Promise!Next]_(Promise!vars)
<1>1. ASSUME NEW r \in Requests,
             \/ \E p \in Serving : Ask(r, p)
             \/ IncrementInMemory(r)
             \/ RunScript(r) \/ Receive(r) \/ Resend(r) \/ Unavailable(r)
      PROVE  WindowInv' /\ [Promise!Next]_(Promise!vars)
  BY <1>1, RequestStep
<1>2. ASSUME NEW p \in Serving,
             \/ Restart(p)
             \/ SetClock(p, Step) \/ SetClock(p, -Step)
      PROVE  WindowInv' /\ [Promise!Next]_(Promise!vars)
  BY <1>2, FaultStep
<1>3. CASE Tick
  BY <1>3, TickStep
<1>4. CASE Watch \/ UNCHANGED vars
  <2>1. UNCHANGED <<store, bucket, request, granted, opened, faults>>
    BY <1>4 DEF Watch, vars
  <2>2. Busy' = Busy
    BY <2>1 DEF Busy, Serving, InMemory
  <2>3. QED
    BY <2>1, <2>2 DEF WindowInv, Types, ReadingsAreRecent, GrantsAreCounted,
                      AgeIsAlmostTrue, Promise!vars
<1>5. QED
  BY <1>1, <1>2, <1>3, <1>4 DEF Next

\* The counters in memory and in Redis implement the fixed window: late clock
\* readings, repeated scripts and lost answers never make a window grant more
\* than its limit, and but for a fault none ends before its time.
THEOREM CountersImplementFixedWindow == Spec => ImplementsFixedWindow
<1>1. Spec => []WindowInv
  BY InitEstablishes, StepPreserves, PTL DEF Spec
<1>2. Init => Promise!Init
  BY InitEstablishes
<1>3. WindowInv /\ [Next]_vars => [Promise!Next]_(Promise!vars)
  BY StepPreserves
<1>4. QED
  BY <1>1, <1>2, <1>3, PTL DEF Spec, ImplementsFixedWindow, Promise!Spec

-----------------------------------------------------------------------------
(* Arithmetic.                                                              *)

\* Quotients are rounded down.
LEMMA Quotient ==
    ASSUME NEW a \in Int, NEW b \in Nat \ {0}
    PROVE  /\ a \div b \in Int
           /\ b * (a \div b) <= a
           /\ a < b * (a \div b) + b
OBVIOUS

\* Products grow with their factors.
LEMMA Products ==
    ASSUME NEW a \in Nat, NEW c \in Int, NEW d \in Int
    PROVE  /\ a * c \in Int /\ c * a = a * c
           /\ c \in Nat => a * c \in Nat
           /\ a * (c + 1) = a * c + a
           /\ (2 + c) * a = a * c + 2 * a
           /\ (2 * a) * c = 2 * (a * c)
           /\ c <= d => a * c <= a * d
<1>1. c <= d => a * c <= a * d
  OBVIOUS
<1>2. a * c \in Int /\ c * a = a * c
  OBVIOUS
<1>3. c \in Nat => a * c \in Nat
  OBVIOUS
<1>4. a * (c + 1) = a * c + a /\ (2 + c) * a = a * c + 2 * a
  OBVIOUS
<1>5. (2 * a) * c = 2 * (a * c)
  OBVIOUS
<1> QED
  BY <1>1, <1>2, <1>3, <1>4, <1>5

\* A multiple is what is left of it with a remainder.
LEMMA OneQuotient ==
    ASSUME NEW b \in Nat \ {0}, NEW q \in Int, NEW k \in Int, NEW r \in 0 .. b - 1,
           b * k <= b * q + r, b * q + r < b * k + b
    PROVE  k = q
<1>1. /\ b * (q + 1) = b * q + b /\ b * (k + 1) = b * k + b
      /\ q + 1 <= k => b * (q + 1) <= b * k
      /\ k + 1 <= q => b * (k + 1) <= b * q
      /\ b * q \in Int /\ b * k \in Int
  <2>1. b \in Nat /\ q + 1 \in Int /\ k + 1 \in Int
    OBVIOUS
  <2> QED
    BY <2>1, Products
<1> QED
  BY <1>1

-----------------------------------------------------------------------------
(* Retry-After.                                                             *)

\* Rounded up to the next second, and to one at least.
LEMMA RoundedUp ==
    ASSUME NEW ttl \in Int
    PROVE  /\ RetryAfter(ttl) \in Nat
           /\ ttl <= RetryAfter(ttl)
           /\ RetryAfter(ttl) = Second \/ RetryAfter(ttl) < ttl + Second
           /\ \A q \in Int : ttl = q * Second => RetryAfter(ttl) \in {Second, ttl}
<1>1. Second \in Nat \ {0}
  BY RateLimiterAssumption
<1> DEFINE n == (ttl + Second - 1) \div Second
<1>2. /\ n \in Int
      /\ Second * n <= ttl + Second - 1
      /\ ttl + Second - 1 < Second * n + Second
  BY <1>1, Quotient
<1>3. ASSUME NEW q \in Int, ttl = q * Second
      PROVE  n = q
  <2>1. q * Second = Second * q /\ ttl + Second - 1 = Second * q + (Second - 1)
    BY <1>1, <1>3, Products
  <2>2. Second - 1 \in 0 .. Second - 1
    BY <1>1
  <2> HIDE DEF n
  <2> QED
    BY <1>1, <1>2, <2>1, <2>2, OneQuotient
<1>4. RetryAfter(ttl) = (IF n < 1 THEN 1 ELSE n) * Second
  BY DEF RetryAfter, AtLeast
<1> HIDE DEF n
<1>5. n * Second = Second * n /\ Second * n \in Int /\ (n \in Nat => Second * n \in Nat)
  BY <1>1, <1>2, Products
<1>6. CASE n < 1
  <2>1. RetryAfter(ttl) = Second
    BY <1>1, <1>4, <1>6
  <2>2. Second * n <= Second * 0 /\ Second * 0 = 0
    BY <1>1, <1>2, <1>6, Products
  <2> QED
    BY <1>1, <1>2, <1>5, <2>1, <2>2
<1>7. CASE ~ (n < 1)
  <2>1. RetryAfter(ttl) = Second * n
    BY <1>4, <1>5, <1>7
  <2>2. \A q \in Int : ttl = q * Second => RetryAfter(ttl) = ttl
    BY <1>3, <1>5, <2>1
  <2>3. RetryAfter(ttl) \in Nat
    BY <1>2, <1>5, <1>7, <2>1
  <2>4. ttl <= Second * n /\ Second * n < ttl + Second
    BY <1>1, <1>2, <1>5
  <2> QED
    BY <2>1, <2>2, <2>3, <2>4
<1> QED
  BY <1>6, <1>7

\* Redis may round half a second away.
Rounding == IF InMemory THEN 0 ELSE (Second - 1) \div 2

\* Whoever is refused is told to wait for what is left of the window, and not
\* for longer than a second more.
LEMMA WaitIsEnough ==
    ASSUME NEW item \in [used : Nat, age : Int], NEW reading \in Nat,
           NEW bound \in Nat, Window - (item.age - reading) <= bound
    PROVE  /\ RetryAfter(TTL(item, reading)) \in 0 .. bound + Second
           /\ Window - item.age <= RetryAfter(TTL(item, reading)) + Rounding
<1> DEFINE left == Window - (item.age - reading)
           ttl == TTL(item, reading)
           wait == RetryAfter(ttl)
<1>1. Second \in Nat \ {0} /\ Window \in Nat
  BY RateLimiterAssumption
<1>2. /\ left \in Int /\ left <= bound
      /\ Window - item.age \in Int /\ Window - item.age <= left
  BY <1>1
<1>3. CASE InMemory
  <2>1. ttl = IF left < Second THEN Second ELSE left
    BY <1>3 DEF TTL, AtLeast
  <2> HIDE DEF left, ttl
  <2>2. ttl \in Int /\ left <= ttl
    BY <1>1, <1>2, <2>1
  <2>3. /\ wait \in Nat /\ ttl <= wait
        /\ wait = Second \/ wait < ttl + Second
        /\ ttl = 1 * Second => wait \in {Second, ttl}
    BY <2>2, RoundedUp
  <2> HIDE DEF wait
  <2>4. wait <= bound + Second
    BY <1>1, <1>2, <2>1, <2>2, <2>3
  <2>5. Window - item.age <= wait + 0
    BY <1>2, <2>2, <2>3
  <2> QED
    BY <1>1, <1>3, <2>3, <2>4, <2>5 DEF Rounding, ttl, wait
<1>4. CASE ~ InMemory
  <2> DEFINE q == (2 * left + Second) \div (2 * Second)
             h == (Second - 1) \div 2
  <2>1. ttl = q * Second
    BY <1>4 DEF TTL
  <2> HIDE DEF left, ttl
  <2>2. /\ q \in Int
        /\ (2 * Second) * q <= 2 * left + Second
        /\ 2 * left + Second < (2 * Second) * q + 2 * Second
    <3>1. 2 * left + Second \in Int /\ 2 * Second \in Nat \ {0}
      BY <1>1, <1>2
    <3> QED
      BY <3>1, Quotient
  <2>3. h \in Int /\ 2 * h <= Second - 1 /\ Second - 1 < 2 * h + 2
    BY <1>1
  <2> HIDE DEF q, h
  <2>4. ttl \in Int /\ ttl = Second * q /\ (2 * Second) * q = 2 * ttl
    BY <1>1, <2>1, <2>2, Products
  <2>5. wait \in Nat /\ ttl <= wait /\ wait \in {Second, ttl}
    BY <2>1, <2>2, <2>4, RoundedUp
  <2> HIDE DEF wait
  <2>6. wait <= bound + Second
    BY <1>1, <1>2, <2>2, <2>4, <2>5
  <2>7. left - ttl <= h
    BY <1>1, <1>2, <2>2, <2>3, <2>4
  <2>8. Window - item.age <= wait + h
    BY <1>2, <2>3, <2>4, <2>5, <2>7
  <2> QED
    BY <1>1, <1>4, <2>5, <2>6, <2>8 DEF Rounding, ttl, wait, h
<1> QED
  BY <1>3, <1>4

-----------------------------------------------------------------------------
(* The types, and what clients were told.                                   *)

\* A request has read its clock, or has its reply, for MaxDelay at most; only
\* Redis has requests on the way.
RequestsBelong ==
    \A r \in Requests :
        /\ request[r].pc # "idle" => request[r].age \in 0 .. MaxDelay
        /\ request[r].pc = "sent" => request[r].age = 0
        /\ request[r].pc = "counting" => InMemory
        /\ request[r].pc \in {"sent", "reply"} => ~ InMemory

\* A clock that was set back makes a window younger, by Step for each time.
Ranges ==
    /\ \A p \in Processes :
        /\ bucket[p].used <= Limit + 1
        /\ - (Step * faults) <= bucket[p].age
        /\ bucket[p].age <= Old
    /\ told \in [Processes -> NotTold .. Old + Second]
    /\ watched \in 0 .. Span
    /\ passed \in Nat
    /\ faults \in 0 .. MaxFaults

\* As long as a client waits, the window that refused it is open and lasts no
\* longer than its wait.
PromisesHold ==
    \A p \in Processes :
        told[p] # NotTold =>
            /\ bucket[p].used > 0
            /\ Window - bucket[p].age <= told[p] + Rounding

\* The numbers of the invariant.
LEMMA Numbers ==
    ASSUME WindowInv, Ranges
    PROVE  /\ Window \in Nat /\ MaxDelay \in Nat /\ Old \in Nat /\ Span \in Nat
           /\ Limit \in Nat /\ Second \in Nat /\ Step \in Nat /\ MaxFaults \in Nat
           /\ faults \in Nat /\ Step * faults \in Nat
           /\ Window + Step * faults + MaxDelay <= Old
           /\ Rounding \in Nat
           /\ \A p \in Processes :
                bucket[p].used \in Nat /\ bucket[p].age \in Int /\ told[p] \in Int
<1>1. /\ Window \in Nat /\ MaxDelay \in Nat /\ Limit \in Nat /\ Second \in Nat \ {0}
      /\ Step \in Nat /\ MaxFaults \in Nat
  BY RateLimiterAssumption
<1>2. faults \in Nat /\ faults <= MaxFaults
  BY <1>1 DEF Ranges
<1>3. /\ Step * faults \in Nat /\ Step * MaxFaults \in Nat
      /\ Step * faults <= Step * MaxFaults
  BY <1>1, <1>2, Products
<1>4. Window + Step * faults + MaxDelay <= Old
  BY <1>1, <1>3 DEF Old
<1>5. Rounding \in Nat
  <2>1. (Second - 1) \div 2 \in Nat
    BY <1>1
  <2> QED
    BY <2>1 DEF Rounding
<1>6. ASSUME NEW p \in Processes
      PROVE  bucket[p].used \in Nat /\ bucket[p].age \in Int /\ told[p] \in Int
  <2>1. bucket[p] \in [used : Nat, age : Int]
    BY DEF WindowInv, Types
  <2>2. told[p] \in NotTold .. Old + Second
    BY DEF Ranges
  <2> QED
    BY <2>1, <2>2
<1> QED
  BY <1>1, <1>2, <1>3, <1>4, <1>5, <1>6, Constants

\* A store that counts keeps the promises, and makes one if it refuses.
LEMMA CountKeepsPromises ==
    ASSUME WindowInv, Ranges, PromisesHold,
           NEW b \in Processes, NEW reading \in 0 .. MaxDelay, Count(b, reading),
           UNCHANGED <<store, watched, faults>>, passed' \in {passed, passed + 1}
    PROVE  Ranges' /\ PromisesHold'
<1> DEFINE item == Counted(b, reading)
           wait == RetryAfter(TTL(item, reading))
<1>1. /\ bucket' = [bucket EXCEPT ![b] = item]
      /\ told' = [told EXCEPT ![b] =
             IF Lapsed(b, reading) THEN NotTold
             ELSE IF ~ Passes(item.used) /\ (@ = NotTold \/ wait < @) THEN wait
             ELSE @]
  BY DEF Count
<1>2. /\ bucket \in [Processes -> [used : Nat, age : Int]]
      /\ told \in [Processes -> NotTold .. Old + Second]
      /\ reading \in Nat /\ reading <= MaxDelay
  BY Constants DEF WindowInv, Types, Ranges
<1>3. Rounding' = Rounding
  BY DEF Rounding, InMemory
<1>4. /\ watched' \in 0 .. Span /\ passed' \in Nat /\ faults' \in 0 .. MaxFaults
  BY DEF Ranges
<1>5. /\ item \in [used : Nat, age : Int] /\ item.used > 0 /\ item.used <= Limit + 1
      /\ - (Step * faults) <= item.age /\ item.age <= Old
      /\ ~ Lapsed(b, reading) => item.age = bucket[b].age /\ bucket[b].used > 0
  <2>1. CASE Lapsed(b, reading)
    <3>1. item = [used |-> 1, age |-> reading]
      BY <2>1 DEF Counted
    <3> HIDE DEF item
    <3>2. item.used = 1 /\ item.age = reading /\ item \in [used : Nat, age : Int]
      BY <1>2, <3>1
    <3> QED
      BY <1>2, <2>1, <3>2, Numbers
  <2>2. CASE ~ Lapsed(b, reading)
    <3>1. item = [bucket[b] EXCEPT !.used = UpTo(Limit + 1, bucket[b].used)]
      BY <2>2 DEF Counted
    <3>2. bucket[b].used \in Nat /\ bucket[b].used > 0 /\ bucket[b].used <= Limit + 1
      BY <1>2, <2>2 DEF Lapsed, Ranges
    <3>3. /\ UpTo(Limit + 1, bucket[b].used) \in Nat \ {0}
          /\ UpTo(Limit + 1, bucket[b].used) <= Limit + 1
      BY <3>2, Constants DEF UpTo
    <3> HIDE DEF item
    <3>4. /\ item.used = UpTo(Limit + 1, bucket[b].used) /\ item.age = bucket[b].age
          /\ item \in [used : Nat, age : Int]
      BY <1>2, <3>1, <3>3
    <3> QED
      BY <3>2, <3>3, <3>4 DEF Ranges
  <2> QED
    BY <2>1, <2>2
<1>6. /\ wait \in 0 .. Old + Second
      /\ Window - item.age <= wait + Rounding
  <2>1. Window - (item.age - reading) <= Old
    <3> HIDE DEF item
    <3> QED
      BY <1>2, <1>5, Numbers
  <2>2. Old \in Nat
    BY Constants
  <2> HIDE DEF item
  <2> QED
    BY <1>2, <1>5, <2>1, <2>2, WaitIsEnough
<1> HIDE DEF item, wait
<1>7. /\ bucket'[b] = item
      /\ \A p \in Processes : p # b => bucket'[p] = bucket[p] /\ told'[p] = told[p]
  BY <1>1, <1>2
<1>8. /\ told'[b] \in {NotTold, wait, told[b]}
      /\ told'[b] = told[b] => told'[b] = NotTold \/ ~ Lapsed(b, reading)
  BY <1>1, <1>2
<1>9. told' \in [Processes -> NotTold .. Old + Second]
  <2>1. wait \in NotTold .. Old + Second /\ NotTold \in NotTold .. Old + Second
    <3>1. Old + Second \in Nat
      BY Numbers
    <3> QED
      BY <1>6, <3>1 DEF NotTold
  <2> QED
    BY <1>1, <1>2, <1>8, <2>1
<1>10. ASSUME NEW p \in Processes
       PROVE  /\ bucket'[p].used <= Limit + 1
              /\ - (Step * faults') <= bucket'[p].age
              /\ bucket'[p].age <= Old
              /\ told'[p] # NotTold =>
                     /\ bucket'[p].used > 0
                     /\ Window - bucket'[p].age <= told'[p] + Rounding
  <2>1. CASE p # b
    BY <1>7, <2>1 DEF Ranges, PromisesHold
  <2>2. CASE p = b
    <3>1. CASE told'[b] = wait
      BY <1>5, <1>6, <1>7, <2>2, <3>1
    <3>2. CASE told'[b] = NotTold
      BY <1>5, <1>7, <2>2, <3>2
    <3>3. CASE told'[b] = told[b]
      <4>1. told[b] # NotTold => item.age = bucket[b].age
        BY <1>5, <1>8, <3>3
      <4> QED
        BY <1>5, <1>7, <2>2, <3>3, <4>1 DEF PromisesHold
    <3> QED
      BY <1>8, <3>1, <3>2, <3>3
  <2> QED
    BY <2>1, <2>2
<1> QED
  BY <1>3, <1>4, <1>9, <1>10 DEF Ranges, PromisesHold

\* Time passes for the window and for the client alike.
LEMMA TickKeepsPromises ==
    ASSUME WindowInv, Ranges, PromisesHold, Tick
    PROVE  Ranges' /\ PromisesHold'
<1>1. Rounding' = Rounding
  BY DEF Tick, Rounding, InMemory
<1>2. ASSUME NEW p \in Processes
      PROVE  /\ bucket'[p].used = bucket[p].used
             /\ - (Step * faults) <= bucket'[p].age
             /\ bucket'[p].age <= Old
             /\ bucket'[p].age \in Int
             /\ bucket[p].used > 0 => Window <= bucket'[p].age \/ bucket'[p].age = bucket[p].age + 1
  <2>1. /\ bucket[p] \in [used : Nat, age : Int]
        /\ - (Step * faults) <= bucket[p].age /\ bucket[p].age <= Old
    BY DEF WindowInv, Types, Ranges
  <2>2. CASE bucket[p].used = 0
    <3>1. bucket'[p] = [used |-> 0, age |-> 0]
      BY <2>2 DEF Tick, NoBucket
    <3> QED
      BY <2>2, <3>1, Numbers
  <2>3. CASE bucket[p].used # 0
    <3>1. bucket'[p] = [bucket[p] EXCEPT !.age = UpTo(Old, bucket[p].age)]
      BY <2>3 DEF Tick
    <3>2. bucket'[p].used = bucket[p].used /\ bucket'[p].age = UpTo(Old, bucket[p].age)
      BY <2>1, <3>1
    <3> QED
      BY <2>1, <3>2, Numbers DEF UpTo
  <2> QED
    BY <2>2, <2>3
<1>3. ASSUME NEW p \in Processes
      PROVE  /\ told'[p] \in NotTold .. Old + Second
             /\ told'[p] # NotTold =>
                    /\ bucket'[p].used > 0
                    /\ Window - bucket'[p].age <= told'[p] + Rounding
  <2>1. /\ told'[p] = IF told[p] > 0 THEN told[p] - 1 ELSE told[p]
        /\ told[p] \in NotTold .. Old + Second
    BY DEF Tick, Ranges
  <2>2. told'[p] \in NotTold .. Old + Second
    BY <2>1, Numbers DEF NotTold
  <2>3. ASSUME told'[p] # NotTold
        PROVE  /\ bucket'[p].used > 0
               /\ Window - bucket'[p].age <= told'[p] + Rounding
    <3>1. told[p] # NotTold
      BY <2>1, <2>3 DEF NotTold
    <3>2. bucket[p].used > 0 /\ Window - bucket[p].age <= told[p] + Rounding
      BY <3>1 DEF PromisesHold
    <3>3. told'[p] \in Nat /\ told[p] \in Nat
          /\ (told'[p] = told[p] - 1 \/ told'[p] = told[p])
      BY <2>1, <2>2, <2>3, <3>1, Numbers DEF NotTold
    <3>4. CASE Window <= bucket'[p].age
      BY <1>2, <3>2, <3>3, <3>4, Numbers
    <3>5. CASE bucket'[p].age = bucket[p].age + 1
      BY <1>2, <3>2, <3>3, <3>5, Numbers
    <3> QED
      BY <1>2, <3>2, <3>4, <3>5
  <2> QED
    BY <2>2, <2>3
<1>4. told' \in [Processes -> NotTold .. Old + Second]
  <2>1. told' = [p \in Processes |-> told'[p]]
    BY DEF Tick
  <2> QED
    BY <1>3, <2>1
<1>5. watched' \in 0 .. Span
  BY Numbers DEF Ranges, Tick, UpTo
<1>6. passed' \in Nat /\ faults' = faults /\ faults' \in 0 .. MaxFaults
  BY DEF Ranges, Tick
<1> QED
  BY <1>1, <1>2, <1>3, <1>4, <1>5, <1>6 DEF Ranges, PromisesHold

\* A restart and a clock set back end the promises; one set forward helps them.
LEMMA FaultKeepsPromises ==
    ASSUME WindowInv, Ranges, PromisesHold, NEW p \in Serving,
           \/ Restart(p)
           \/ \E step \in {Step, - Step} : SetClock(p, step)
    PROVE  Ranges' /\ PromisesHold'
<1>1. p \in Processes
  BY Constants
<1>2. /\ UNCHANGED <<store, watched, passed>>
      /\ faults < MaxFaults /\ faults' = faults + 1
  BY DEF Restart, SetClock, Fault
<1>3. /\ faults' \in 0 .. MaxFaults
      /\ Step * faults' = Step * faults + Step
  <2>1. faults \in Int /\ Step * (faults + 1) = Step * faults + Step
    BY Numbers, Products
  <2> QED
    BY <1>2, <2>1, Numbers
<1>4. Rounding' = Rounding
  BY <1>2 DEF Rounding, InMemory
<1>5. /\ bucket \in [Processes -> [used : Nat, age : Int]]
      /\ told \in [Processes -> NotTold .. Old + Second]
      /\ NotTold \in NotTold .. Old + Second
  <2>1. NotTold \in NotTold .. Old + Second
    BY Numbers DEF NotTold
  <2> QED
    BY <2>1 DEF WindowInv, Types, Ranges
<1>6. ASSUME NEW q \in Processes, q # p
      PROVE  bucket'[q] = bucket[q] /\ told'[q] = told[q]
  BY <1>1, <1>5, <1>6 DEF Restart, SetClock
<1>7. /\ told' \in [Processes -> NotTold .. Old + Second]
      /\ bucket'[p].used <= Limit + 1
      /\ - (Step * faults') <= bucket'[p].age /\ bucket'[p].age <= Old
      /\ told'[p] # NotTold =>
             /\ bucket'[p].used > 0
             /\ Window - bucket'[p].age <= told'[p] + Rounding
  <2>1. CASE Restart(p)
    <3>1. /\ bucket' = [bucket EXCEPT ![p] = [used |-> 0, age |-> 0]]
          /\ told' = [told EXCEPT ![p] = NotTold]
      BY <2>1 DEF Restart, NoBucket
    <3>2. /\ bucket'[p].used = 0 /\ bucket'[p].age = 0 /\ told'[p] = NotTold
          /\ told' \in [Processes -> NotTold .. Old + Second]
      BY <1>1, <1>5, <3>1
    <3> QED
      BY <1>3, <3>2, Numbers
  <2>2. ASSUME NEW step \in {Step, - Step}, SetClock(p, step)
        PROVE  /\ told' \in [Processes -> NotTold .. Old + Second]
               /\ bucket'[p].used <= Limit + 1
               /\ - (Step * faults') <= bucket'[p].age /\ bucket'[p].age <= Old
               /\ told'[p] # NotTold =>
                      /\ bucket'[p].used > 0
                      /\ Window - bucket'[p].age <= told'[p] + Rounding
    <3> DEFINE age == IF bucket[p].age + step > Old THEN Old ELSE bucket[p].age + step
    <3>1. /\ bucket' = [bucket EXCEPT ![p].age = age]
          /\ told' = [told EXCEPT ![p] = IF step < 0 THEN NotTold ELSE @]
          /\ bucket[p].used > 0
      BY <2>2 DEF SetClock
    <3>2. step \in Int /\ (step < 0 => - Step <= step) /\ - Step <= step
      BY Numbers
    <3>3. /\ age \in Int /\ - (Step * faults') <= age /\ age <= Old
          /\ step >= 0 => Window <= age \/ bucket[p].age <= age
      <4>1. bucket[p].age \in Int /\ - (Step * faults) <= bucket[p].age
        BY <1>1, Numbers DEF Ranges
      <4> QED
        BY <1>3, <3>2, <4>1, Numbers
    <3> HIDE DEF age
    <3>4. /\ bucket'[p].used = bucket[p].used /\ bucket'[p].age = age
          /\ told'[p] = IF step < 0 THEN NotTold ELSE told[p]
          /\ told' \in [Processes -> NotTold .. Old + Second]
      BY <1>1, <1>5, <3>1
    <3>5. bucket[p].used <= Limit + 1
      BY <1>1 DEF Ranges
    <3>6. ASSUME told'[p] # NotTold
          PROVE  Window - bucket'[p].age <= told'[p] + Rounding
      <4>1. ~ (step < 0) /\ told'[p] = told[p]
        BY <3>4, <3>6
      <4>2. Window - bucket[p].age <= told[p] + Rounding
        BY <1>1, <3>6, <4>1 DEF PromisesHold
      <4>3. told[p] \in Nat /\ bucket[p].age \in Int
        <5>1. told[p] \in NotTold .. Old + Second
          BY <1>1, <1>5
        <5> QED
          BY <1>1, <3>6, <4>1, <5>1, Numbers DEF NotTold
      <4>4. Window <= age \/ bucket[p].age <= age
        BY <3>2, <3>3, <4>1
      <4>5. Window - age <= told[p] + Rounding
        BY <3>3, <4>2, <4>3, <4>4, Numbers
      <4> QED
        BY <3>4, <4>1, <4>5
    <3> QED
      BY <3>1, <3>3, <3>4, <3>5, <3>6
  <2> QED
    BY <2>1, <2>2
<1> QED
  BY <1>2, <1>3, <1>4, <1>6, <1>7, Numbers DEF Ranges, PromisesHold

\* A step that leaves the counters alone leaves what was told alone.
LEMMA QuietKeepsPromises ==
    ASSUME Ranges, PromisesHold, UNCHANGED <<store, bucket, told, faults>>,
           watched' \in 0 .. Span, passed' \in Nat
    PROVE  Ranges' /\ PromisesHold'
<1>1. Rounding' = Rounding
  BY DEF Rounding, InMemory
<1> QED
  BY <1>1 DEF Ranges, PromisesHold

\* Requests belong where they are: one moves on,
LEMMA MoveKeepsBelonging ==
    ASSUME WindowInv, RequestsBelong, NEW r \in Requests, NEW next,
           request' = [request EXCEPT ![r] = next], store' = store,
           next.pc # "idle" => next.age \in 0 .. MaxDelay,
           next.pc = "sent" => next.age = 0,
           next.pc = "counting" => InMemory,
           next.pc \in {"sent", "reply"} => ~ InMemory
    PROVE  RequestsBelong'
<1>1. InMemory' = InMemory
  BY DEF InMemory
<1>2. \A q \in Requests : request'[q] = IF q = r THEN next ELSE request[q]
  BY DEF WindowInv, Types
<1>3. ASSUME NEW q \in Requests
      PROVE  /\ request'[q].pc # "idle" => request'[q].age \in 0 .. MaxDelay
             /\ request'[q].pc = "sent" => request'[q].age = 0
             /\ request'[q].pc = "counting" => InMemory
             /\ request'[q].pc \in {"sent", "reply"} => ~ InMemory
  <2>1. CASE q = r
    BY <1>2, <2>1
  <2>2. CASE q # r
    BY <1>2, <2>2 DEF RequestsBelong
  <2> QED
    BY <2>1, <2>2
<1> QED
  BY <1>1, <1>3 DEF RequestsBelong

\* or time passes, or its process is gone.
LEMMA StepKeepsBelonging ==
    ASSUME WindowInv, RequestsBelong, [Next]_vars
    PROVE  RequestsBelong'
<1>1. store' = store /\ InMemory' = InMemory
  BY DEF Next, Ask, IncrementInMemory, RunScript, Receive, Resend, Unavailable,
         Restart, SetClock, Tick, Watch, vars, InMemory
<1>2. request \in [Requests -> {Idle} \union Busy] /\ MaxDelay \in Nat
  BY Constants DEF WindowInv, Types
<1>3. ASSUME NEW r \in Requests, NEW p \in Serving, Ask(r, p)
      PROVE  RequestsBelong'
  <2> DEFINE next == [pc |-> IF InMemory THEN "counting" ELSE "sent", at |-> p,
                      age |-> 0, used |-> 0,
                      resends |-> IF InMemory THEN 0 ELSE Resends]
  <2>1. request' = [request EXCEPT ![r] = next]
    BY <1>3 DEF Ask
  <2>2. /\ next.pc = IF InMemory THEN "counting" ELSE "sent"
        /\ next.age = 0
    OBVIOUS
  <2> HIDE DEF next
  <2>3. 0 \in 0 .. MaxDelay
    BY <1>2
  <2> QED
    BY <1>1, <2>1, <2>2, <2>3, MoveKeepsBelonging
<1>4. ASSUME NEW r \in Requests, request' = [request EXCEPT ![r] = Idle]
      PROVE  RequestsBelong'
  BY <1>1, <1>4, MoveKeepsBelonging DEF Idle
<1>5. ASSUME NEW r \in Requests, RunScript(r)
      PROVE  RequestsBelong'
  <2> DEFINE used == Counted(BucketOf(request[r].at), 0).used
             next == [request[r] EXCEPT !.pc = "reply", !.used = used]
  <2>1. request[r].pc = "sent"
    BY <1>5 DEF RunScript
  <2>2. request[r] \in Busy
    BY <1>2, <2>1 DEF Idle
  <2>3. request' = [request EXCEPT ![r].pc = "reply", ![r].used = used]
    BY <1>5 DEF RunScript
  <2> HIDE DEF used
  <2>4. request' = [request EXCEPT ![r] = next]
    BY <1>2, <2>2, <2>3 DEF Busy
  <2>5. next.pc = "reply" /\ next.age = request[r].age
    BY <2>2 DEF Busy
  <2> HIDE DEF next
  <2>6. ~ InMemory /\ request[r].age \in 0 .. MaxDelay
    BY <2>1 DEF RequestsBelong
  <2> QED
    BY <1>1, <2>4, <2>5, <2>6, MoveKeepsBelonging
<1>6. ASSUME NEW r \in Requests, Resend(r)
      PROVE  RequestsBelong'
  <2> DEFINE next == [request[r] EXCEPT !.pc = "sent", !.age = 0, !.used = 0,
                                        !.resends = request[r].resends - 1]
  <2>1. request[r].pc = "reply"
    BY <1>6 DEF Resend
  <2>2. request[r] \in Busy
    BY <1>2, <2>1 DEF Idle
  <2>3. request' = [request EXCEPT ![r] = next]
    BY <1>2, <1>6, <2>2 DEF Resend, Busy
  <2>4. next.pc = "sent" /\ next.age = 0
    BY <2>2 DEF Busy
  <2> HIDE DEF next
  <2>5. ~ InMemory /\ 0 \in 0 .. MaxDelay
    BY <1>2, <2>1 DEF RequestsBelong
  <2> QED
    BY <1>1, <2>3, <2>4, <2>5, MoveKeepsBelonging
<1>7. CASE Tick
  <2>1. ASSUME NEW r \in Requests
        PROVE  /\ request'[r].pc # "idle" => request'[r].age \in 0 .. MaxDelay
               /\ request'[r].pc = "sent" => request'[r].age = 0
               /\ request'[r].pc = "counting" => InMemory
               /\ request'[r].pc \in {"sent", "reply"} => ~ InMemory
    <3>1. CASE request[r].pc \in {"counting", "reply"}
      <4>1. request[r] \in Busy
        BY <1>2, <3>1 DEF Idle
      <4>2. request'[r] = [request[r] EXCEPT !.age = request[r].age + 1]
        BY <1>7, <3>1 DEF Tick
      <4>3. request'[r].pc = request[r].pc /\ request'[r].age = request[r].age + 1
        BY <4>1, <4>2 DEF Busy
      <4>4. request[r].age \in 0 .. MaxDelay /\ request[r].age < MaxDelay
        BY <1>7, <3>1 DEF Tick, RequestsBelong
      <4>5. request'[r].age \in 0 .. MaxDelay
        BY <1>2, <4>3, <4>4
      <4> QED
        BY <3>1, <4>3, <4>5 DEF RequestsBelong
    <3>2. CASE request[r].pc \notin {"counting", "reply"}
      <4>1. request'[r] = request[r]
        BY <1>7, <3>2 DEF Tick
      <4> QED
        BY <4>1 DEF RequestsBelong
    <3> QED
      BY <3>1, <3>2
  <2> QED
    BY <1>1, <2>1 DEF RequestsBelong
<1>8. ASSUME NEW p \in Serving, Restart(p)
      PROVE  RequestsBelong'
  <2>1. \A r \in Requests : request'[r] \in {Idle, request[r]}
    BY <1>8 DEF Restart
  <2>2. Idle.pc = "idle"
    BY DEF Idle
  <2> QED
    BY <1>1, <2>1, <2>2 DEF RequestsBelong
<1>9. ASSUME request' = request
      PROVE  RequestsBelong'
  BY <1>1, <1>9 DEF RequestsBelong
<1>10. CASE \E r \in Requests : IncrementInMemory(r) \/ Receive(r) \/ Unavailable(r)
  BY <1>4, <1>10 DEF IncrementInMemory, Receive, Unavailable, Answer
<1>11. CASE Watch \/ UNCHANGED vars \/ \E p \in Serving : SetClock(p, Step) \/ SetClock(p, - Step)
  BY <1>9, <1>11 DEF Watch, vars, SetClock
<1> QED
  BY <1>3, <1>5, <1>6, <1>7, <1>8, <1>10, <1>11 DEF Next

\* Every step keeps the promises.
LEMMA StepKeepsPromises ==
    ASSUME WindowInv, Ranges, PromisesHold, RequestsBelong, [Next]_vars
    PROVE  Ranges' /\ PromisesHold'
<1>1. /\ watched \in 0 .. Span /\ passed \in Nat /\ 0 \in 0 .. Span
      /\ 0 \in 0 .. MaxDelay /\ passed + 1 \in Nat
  BY Constants DEF Ranges
<1>2. ASSUME NEW r \in Requests, IncrementInMemory(r)
      PROVE  Ranges' /\ PromisesHold'
  <2>1. request[r].pc = "counting"
    BY <1>2 DEF IncrementInMemory
  <2>2. request[r].age \in 0 .. MaxDelay
    BY <2>1 DEF RequestsBelong
  <2>3. BucketOf(request[r].at) \in Processes
    BY <2>1, BusyRequest
  <2>4. /\ Count(BucketOf(request[r].at), request[r].age)
        /\ UNCHANGED <<store, watched, faults>>
        /\ passed' \in {passed, passed + 1}
    BY <1>2 DEF IncrementInMemory, Answer
  <2> QED
    BY <2>2, <2>3, <2>4, CountKeepsPromises
<1>3. ASSUME NEW r \in Requests, RunScript(r)
      PROVE  Ranges' /\ PromisesHold'
  <2>1. request[r].pc = "sent"
    BY <1>3 DEF RunScript
  <2>2. BucketOf(request[r].at) \in Processes
    BY <2>1, BusyRequest
  <2>3. Count(BucketOf(request[r].at), 0) /\ UNCHANGED <<store, watched, passed, faults>>
    BY <1>3 DEF RunScript
  <2> QED
    BY <1>1, <2>2, <2>3, CountKeepsPromises
<1>4. ASSUME NEW r \in Requests, NEW p \in Serving,
             Ask(r, p) \/ Receive(r) \/ Resend(r) \/ Unavailable(r)
      PROVE  Ranges' /\ PromisesHold'
  <2>1. /\ UNCHANGED <<store, bucket, told, faults, watched>>
        /\ passed' \in {passed, passed + 1}
    BY <1>4 DEF Ask, Receive, Resend, Unavailable, Answer
  <2> QED
    BY <1>1, <2>1, QuietKeepsPromises
<1>5. ASSUME NEW p \in Serving, Restart(p) \/ SetClock(p, Step) \/ SetClock(p, - Step)
      PROVE  Ranges' /\ PromisesHold'
  BY <1>5, FaultKeepsPromises
<1>6. CASE Watch \/ UNCHANGED vars
  <2>1. /\ UNCHANGED <<store, bucket, told, faults>>
        /\ watched' \in {0, watched} /\ passed' \in {0, passed}
    BY <1>6 DEF Watch, vars
  <2> QED
    BY <1>1, <2>1, QuietKeepsPromises
<1>7. \E p \in Serving : TRUE
  BY RateLimiterAssumption, Constants DEF Serving
<1> QED
  BY <1>2, <1>3, <1>4, <1>5, <1>6, <1>7, TickKeepsPromises DEF Next

-----------------------------------------------------------------------------
(* Bursts.                                                                  *)

\* What faults may have let through.
Charge == faults * Limit

\* Requests that Redis has granted and that have not heard of it, and those of
\* them that were granted after the tick that opened the window.
Pending == {r \in Requests : request[r].pc = "reply" /\ Passes(request[r].used)}

Within == {r \in Pending : request[r].age < bucket[Shared].age}

\* In memory a request passes with its grant: while one watches there is one
\* window before the present one, or none if that was open already.
MemoryCounts ==
    InMemory /\ watched < Span =>
        passed <= Charge + granted[Shared]
                    + (IF opened[Shared] > watched THEN 0 ELSE Limit)

\* The window of Redis was open before any request that is counted was granted.
Closed(since) ==
    bucket[Shared].used = 0 \/ bucket[Shared].age > since + MaxDelay

\* With Redis a request may pass as late as MaxDelay after its grant, so that
\* much of the time before counts too.
RedisCounts ==
    ~ InMemory =>
        /\ bucket[Shared].used > 0 => Cardinality(Within) <= granted[Shared]
        /\ Cardinality(Pending)
             <= Charge + granted[Shared]
                  + (IF bucket[Shared].used = 0 THEN 0 ELSE Limit)
        /\ watched < Span =>
            passed + Cardinality(Pending)
              <= Charge + granted[Shared] + (IF Closed(watched) THEN 0 ELSE Limit)

BurstInv == IsFiniteSet(Pending) /\ MemoryCounts /\ RedisCounts /\ BurstIsBounded

\* The numbers of the counts.
LEMMA Amounts ==
    ASSUME WindowInv, Ranges
    PROVE  /\ Charge \in Nat /\ Limit \in Nat \ {0}
           /\ (2 + faults) * Limit = Charge + 2 * Limit
           /\ (faults + 1) * Limit = Charge + Limit
           /\ granted[Shared] \in Nat /\ granted[Shared] <= Limit
           /\ opened[Shared] \in Nat /\ opened[Shared] <= Span
           /\ bucket[Shared].used \in Nat /\ bucket[Shared].age \in Int
           /\ watched \in Nat /\ watched <= Span /\ passed \in Nat
           /\ Span \in Nat \ {0} /\ MaxDelay \in Nat /\ Window = Span + MaxDelay
<1>1. Limit \in Nat \ {0} /\ faults \in Nat /\ faults \in Int
  BY RateLimiterAssumption, Numbers
<1>2. /\ Limit * faults \in Nat /\ faults * Limit = Limit * faults
      /\ (2 + faults) * Limit = Limit * faults + 2 * Limit
      /\ Limit * (faults + 1) = Limit * faults + Limit
  BY <1>1, Products
<1>3. (faults + 1) * Limit = Limit * (faults + 1)
  BY <1>1, Products
<1>4. granted[Shared] \in 0 .. Limit /\ opened[Shared] \in 0 .. Span
  BY Constants DEF WindowInv, Types
<1>5. Span \in Nat \ {0} /\ MaxDelay \in Nat /\ Window = Span + MaxDelay
  BY Constants
<1>6. watched \in Nat /\ watched <= Span /\ passed \in Nat
  BY <1>5 DEF Ranges
<1> QED
  BY <1>1, <1>2, <1>3, <1>4, <1>5, <1>6, Constants, Numbers DEF Charge

\* What a store does to its window: it opens one that has been open for Span, or
\* grants one more, or none.
LEMMA CountOutcome ==
    ASSUME WindowInv, NEW b \in Processes, NEW reading \in 0 .. MaxDelay,
           Count(b, reading)
    PROVE  \/ /\ opened[b] = Span
              /\ bucket[b].used = 0 \/ bucket[b].age - reading >= Window
              /\ opened'[b] = 0 /\ granted'[b] = 1
              /\ bucket'[b].used = 1 /\ bucket'[b].age = reading
              /\ Passes(Counted(b, reading).used)
           \/ /\ opened'[b] = opened[b]
              /\ bucket[b].used > 0 /\ bucket'[b].used > 0
              /\ bucket'[b].age = bucket[b].age
              /\ granted'[b] = granted[b]
                   + (IF Passes(Counted(b, reading).used) THEN 1 ELSE 0)
<1> DEFINE item == Counted(b, reading)
<1>1. /\ bucket' = [bucket EXCEPT ![b] = item]
      /\ opened' = [opened EXCEPT ![b] = IF Lapsed(b, reading) THEN 0 ELSE opened[b]]
      /\ granted' = [granted EXCEPT ![b] =
             IF Lapsed(b, reading) THEN 1
             ELSE IF Passes(item.used) THEN granted[b] + 1 ELSE granted[b]]
  BY DEF Count
<1>2. /\ bucket \in [Processes -> [used : Nat, age : Int]]
      /\ granted \in [Processes -> 0 .. Limit]
      /\ opened \in [Processes -> 0 .. Span]
      /\ opened[b] = Span \/ (bucket[b].used > 0 /\ bucket[b].age <= opened[b] + MaxDelay)
  BY DEF WindowInv, Types, AgeIsAlmostTrue
<1>3. CASE Lapsed(b, reading)
  <2>1. item = [used |-> 1, age |-> reading]
    BY <1>3 DEF Counted
  <2> HIDE DEF item
  <2>2. item.used = 1 /\ item.age = reading
    BY <2>1
  <2>3. opened[b] = Span
    <3>1. /\ opened[b] \in 0 .. Span /\ bucket[b].age \in Int
          /\ bucket[b].used \in Nat
          /\ opened[b] \in Int /\ opened[b] <= Span
      BY <1>2, Constants
    <3>2. reading \in Nat /\ Span \in Int /\ Span = Window - MaxDelay
          /\ Window \in Int /\ MaxDelay \in Int
      BY Constants
    <3>3. CASE bucket[b].used = 0
      BY <1>2, <3>3
    <3>4. CASE bucket[b].age - reading >= Window
      BY <1>2, <3>1, <3>2, <3>4
    <3> QED
      BY <1>3, <3>3, <3>4 DEF Lapsed
  <2>4. opened'[b] = 0 /\ granted'[b] = 1 /\ bucket'[b] = item
    BY <1>1, <1>2, <1>3
  <2>5. Passes(item.used)
    BY <2>2, Constants DEF Passes
  <2> QED
    BY <1>3, <2>2, <2>3, <2>4, <2>5 DEF Lapsed, item
<1>4. CASE ~ Lapsed(b, reading)
  <2>1. item = [bucket[b] EXCEPT !.used = UpTo(Limit + 1, bucket[b].used)]
    BY <1>4 DEF Counted
  <2>2. bucket[b].used \in Nat /\ bucket[b].used > 0
    BY <1>2, <1>4 DEF Lapsed
  <2>3. UpTo(Limit + 1, bucket[b].used) > 0
    BY <2>2, Constants DEF UpTo
  <2> HIDE DEF item
  <2>4. item.used > 0 /\ item.age = bucket[b].age
    BY <1>2, <2>1, <2>3
  <2>5. /\ bucket'[b] = item /\ opened'[b] = opened[b]
        /\ granted'[b] = IF Passes(item.used) THEN granted[b] + 1 ELSE granted[b]
    BY <1>1, <1>2, <1>4
  <2>6. granted'[b] = granted[b] + (IF Passes(item.used) THEN 1 ELSE 0)
    <3>1. granted[b] \in Nat
      BY <1>2, Constants
    <3> QED
      BY <2>5, <3>1
  <2> QED
    BY <2>2, <2>4, <2>5, <2>6 DEF item
<1> QED
  BY <1>3, <1>4

\* The requests that wait for a reply, when one of them moves on.
LEMMA PendingMoves ==
    ASSUME WindowInv, IsFiniteSet(Pending), NEW r \in Requests,
           NEW next \in {Idle} \union Busy,
           request' = [request EXCEPT ![r] = next]
    PROVE  /\ Pending' = IF next.pc = "reply" /\ Passes(next.used)
                         THEN Pending \union {r} ELSE Pending \ {r}
           /\ IsFiniteSet(Pending')
           /\ Cardinality(Pending') \in Nat
           /\ Cardinality(Pending') = Cardinality(Pending)
                - (IF r \in Pending THEN 1 ELSE 0)
                + (IF next.pc = "reply" /\ Passes(next.used) THEN 1 ELSE 0)
<1>1. \A q \in Requests : request'[q] = IF q = r THEN next ELSE request[q]
  BY DEF WindowInv, Types
<1>2. Pending' = {q \in Requests : request'[q].pc = "reply" /\ Passes(request'[q].used)}
  BY DEF Pending, Passes
<1>3. Pending' = IF next.pc = "reply" /\ Passes(next.used)
                 THEN Pending \union {r} ELSE Pending \ {r}
  BY <1>1, <1>2 DEF Pending
<1>4. Cardinality(Pending) \in Nat
  BY FS_CardinalityType
<1>5. CASE next.pc = "reply" /\ Passes(next.used)
  <2>1. /\ Pending' = Pending \union {r} /\ IsFiniteSet(Pending')
        /\ Cardinality(Pending') = IF r \in Pending THEN Cardinality(Pending)
                                   ELSE Cardinality(Pending) + 1
    BY <1>3, <1>5, FS_AddElement
  <2> QED
    BY <1>3, <1>4, <1>5, <2>1
<1>6. CASE ~ (next.pc = "reply" /\ Passes(next.used))
  <2>1. /\ Pending' = Pending \ {r} /\ IsFiniteSet(Pending')
        /\ Cardinality(Pending') = IF r \in Pending THEN Cardinality(Pending) - 1
                                   ELSE Cardinality(Pending)
    BY <1>3, <1>6, FS_RemoveElement
  <2>2. Cardinality(Pending') \in Nat
    BY <2>1, FS_CardinalityType
  <2> QED
    BY <1>3, <1>4, <1>6, <2>1, <2>2
<1> QED
  BY <1>5, <1>6

\* Who is idle waits for nothing; in memory nobody does.
LEMMA NobodyWaits ==
    ASSUME RequestsBelong, InMemory
    PROVE  Pending = {}
BY DEF RequestsBelong, Pending

\* A request that is counted in memory passes as its window grants it.
LEMMA IncrementKeepsCounts ==
    ASSUME WindowInv, Ranges, RequestsBelong, BurstInv,
           NEW r \in Requests, IncrementInMemory(r)
    PROVE  MemoryCounts' /\ InMemory'
<1>1. request[r].pc = "counting" /\ InMemory
  BY DEF IncrementInMemory, RequestsBelong
<1>2. BucketOf(request[r].at) = Shared /\ request[r].age \in 0 .. MaxDelay
  <2>1. request[r] \in Busy
    BY <1>1, BusyRequest
  <2>2. request[r].at \in {Shared}
    BY <1>1, <2>1 DEF Busy, Serving
  <2> QED
    BY <1>1, <2>2 DEF BucketOf, RequestsBelong
<1> DEFINE pass == Passes(Counted(Shared, request[r].age).used)
<1>3. /\ Count(Shared, request[r].age)
      /\ passed' = IF pass /\ watched < Span THEN passed + 1 ELSE passed
      /\ UNCHANGED <<store, watched, faults>>
  BY <1>2 DEF IncrementInMemory, Answer
<1>4. InMemory' /\ Charge' = Charge
  BY <1>1, <1>3 DEF InMemory, Charge
<1>5. \/ /\ opened[Shared] = Span
         /\ opened'[Shared] = 0 /\ granted'[Shared] = 1 /\ pass
      \/ /\ opened'[Shared] = opened[Shared]
         /\ granted'[Shared] = granted[Shared] + (IF pass THEN 1 ELSE 0)
  BY <1>2, <1>3, Constants, CountOutcome
<1> HIDE DEF pass
<1>6. ASSUME watched < Span
      PROVE  passed' <= Charge + granted'[Shared]
                          + (IF opened'[Shared] > watched THEN 0 ELSE Limit)
  <2>1. passed <= Charge + granted[Shared]
                    + (IF opened[Shared] > watched THEN 0 ELSE Limit)
    BY <1>1, <1>6 DEF BurstInv, MemoryCounts
  <2> QED
    BY <1>3, <1>5, <1>6, <2>1, Amounts
<1> QED
  BY <1>3, <1>4, <1>6 DEF MemoryCounts

\* Redis counts and grants: the reply is still to come.
LEMMA ScriptKeepsCounts ==
    ASSUME WindowInv, Ranges, RequestsBelong, RequestsBelong', BurstInv,
           NEW r \in Requests, RunScript(r)
    PROVE  RedisCounts' /\ IsFiniteSet(Pending')
<1>1. request[r].pc = "sent" /\ ~ InMemory
  BY DEF RunScript, RequestsBelong
<1>2. request[r] \in Busy /\ BucketOf(request[r].at) = Shared /\ request[r].age = 0
  BY <1>1, BusyRequest DEF BucketOf, RequestsBelong
<1> DEFINE used == Counted(Shared, 0).used
           next == [request[r] EXCEPT !.pc = "reply", !.used = used]
           pass == Passes(used)
<1>3. /\ Count(Shared, 0)
      /\ request' = [request EXCEPT ![r].pc = "reply", ![r].used = used]
      /\ UNCHANGED <<store, watched, passed, faults>>
  BY <1>2 DEF RunScript
<1>4. 0 \in 0 .. MaxDelay /\ Shared \in Processes
  BY Constants
<1>5. used \in Nat
  BY <1>3, <1>4, CountEffect
<1>6. \/ /\ bucket[Shared].used = 0 \/ bucket[Shared].age - 0 >= Window
         /\ granted'[Shared] = 1
         /\ bucket'[Shared].used = 1 /\ bucket'[Shared].age = 0
         /\ pass
      \/ /\ bucket[Shared].used > 0 /\ bucket'[Shared].used > 0
         /\ bucket'[Shared].age = bucket[Shared].age
         /\ granted'[Shared] = granted[Shared] + (IF pass THEN 1 ELSE 0)
  BY <1>3, <1>4, CountOutcome
<1> HIDE DEF used
<1>7. /\ request' = [request EXCEPT ![r] = next]
      /\ next \in Busy /\ next.pc = "reply" /\ next.used = used /\ next.age = 0
  BY <1>2, <1>3, <1>5 DEF Busy, WindowInv, Types
<1> HIDE DEF next, pass
<1>8. r \notin Pending
  BY <1>1 DEF Pending
<1>9. /\ Pending' = IF pass THEN Pending \union {r} ELSE Pending
      /\ IsFiniteSet(Pending')
      /\ Cardinality(Pending') \in Nat /\ Cardinality(Pending) \in Nat
      /\ Cardinality(Pending') = Cardinality(Pending) + (IF pass THEN 1 ELSE 0)
  <2>1. next.pc = "reply" /\ Passes(next.used) <=> pass
    BY <1>7 DEF pass
  <2>2. Cardinality(Pending) \in Nat
    BY FS_CardinalityType DEF BurstInv
  <2>3. /\ Pending' = IF next.pc = "reply" /\ Passes(next.used)
                     THEN Pending \union {r} ELSE Pending \ {r}
        /\ IsFiniteSet(Pending')
        /\ Cardinality(Pending') \in Nat
        /\ Cardinality(Pending') = Cardinality(Pending)
             - (IF r \in Pending THEN 1 ELSE 0)
             + (IF next.pc = "reply" /\ Passes(next.used) THEN 1 ELSE 0)
    <3>1. IsFiniteSet(Pending) /\ next \in {Idle} \union Busy
      BY <1>7 DEF BurstInv
    <3> QED
      BY <1>7, <3>1, PendingMoves
  <2>4. Pending' = IF pass THEN Pending \union {r} ELSE Pending
    BY <1>8, <2>1, <2>3
  <2>5. Cardinality(Pending')
          = Cardinality(Pending) - 0 + (IF pass THEN 1 ELSE 0)
    BY <1>8, <2>1, <2>3
  <2> QED
    BY <2>2, <2>3, <2>4, <2>5
<1>10. \A q \in Requests : request'[q].age = request[q].age
  BY <1>2, <1>7 DEF WindowInv, Types
<1>11. Charge' = Charge /\ Shared' = Shared
  BY <1>3 DEF Charge, Shared
<1>12. /\ IsFiniteSet(Within) /\ Cardinality(Within) \in Nat
       /\ Cardinality(Within) <= Cardinality(Pending)
  <2>1. Within \in SUBSET Pending
    BY DEF Within
  <2> QED
    BY <2>1, FS_Subset, FS_CardinalityType DEF BurstInv
\* A window is opened.
<1>13. CASE /\ bucket[Shared].used = 0 \/ bucket[Shared].age >= Window
            /\ granted'[Shared] = 1
            /\ bucket'[Shared].used = 1 /\ bucket'[Shared].age = 0
            /\ pass
  <2>1. Within' = {}
    <3>1. \A q \in Requests : request'[q].pc = "reply" => ~ (request'[q].age < 0)
      <4>1. \A q \in Requests : request'[q].pc = "reply" => request'[q].age \in 0 .. MaxDelay
        BY DEF RequestsBelong
      <4> QED
        BY <4>1, Amounts
    <3>2. Within' = {q \in Pending' : request'[q].age < 0}
      BY <1>11, <1>13 DEF Within
    <3>3. \A q \in Pending' : q \in Requests /\ request'[q].pc = "reply"
      BY DEF Pending
    <3> QED
      BY <3>1, <3>2, <3>3
  <2>2. Cardinality(Pending) <= Charge + Limit
    <3>1. CASE bucket[Shared].used = 0
      BY <1>1, <1>9, <3>1, Amounts DEF BurstInv, RedisCounts
    <3>2. CASE bucket[Shared].used # 0
      <4>1. Within = Pending
        <5>1. \A q \in Pending : request[q].age \in 0 .. MaxDelay
          BY DEF Pending, RequestsBelong
        <5> QED
          BY <1>13, <3>2, <5>1, Amounts DEF Within
      <4>2. Cardinality(Within) <= granted[Shared]
        BY <1>1, <3>2, Amounts DEF BurstInv, RedisCounts
      <4> QED
        BY <1>9, <4>1, <4>2, Amounts
    <3> QED
      BY <3>1, <3>2
  <2>3. ASSUME watched < Span
        PROVE  passed + Cardinality(Pending) <= Charge + Limit
    <3>1. Closed(watched)
      BY <1>13, <2>3, Amounts DEF Closed
    <3>2. passed + Cardinality(Pending) <= Charge + granted[Shared] + 0
      BY <1>1, <2>3, <3>1 DEF BurstInv, RedisCounts
    <3> QED
      BY <1>9, <3>2, Amounts
  <2>4. ~ Closed(watched)'
    BY <1>3, <1>11, <1>13, Amounts DEF Closed
  <2>5. Cardinality(Within') = 0
    BY <2>1, FS_EmptySet
  <2>6. ~ InMemory => Cardinality(Within') <= granted'[Shared]
    BY <1>13, <2>5
  <2>7. Cardinality(Pending') <= Charge + granted'[Shared] + Limit
    BY <1>9, <1>13, <2>2, Amounts
  <2>8. watched < Span =>
          passed + Cardinality(Pending') <= Charge + granted'[Shared] + Limit
    BY <1>9, <1>13, <2>3, Amounts
  <2> QED
    BY <1>3, <1>9, <1>11, <1>13, <2>4, <2>5, <2>7, <2>8 DEF RedisCounts
\* One is open, and grants one request more, or none.
<1>14. CASE /\ bucket[Shared].used > 0 /\ bucket'[Shared].used > 0
            /\ bucket'[Shared].age = bucket[Shared].age
            /\ granted'[Shared] = granted[Shared] + (IF pass THEN 1 ELSE 0)
  <2>1. Cardinality(Within') <= Cardinality(Within) + (IF pass THEN 1 ELSE 0)
    <3>1. Within' \subseteq IF pass THEN Within \union {r} ELSE Within
      BY <1>9, <1>10, <1>11, <1>14 DEF Within, Pending
    <3>2. /\ IsFiniteSet(Within \union {r})
          /\ Cardinality(Within \union {r}) <= Cardinality(Within) + 1
      <4>1. /\ IsFiniteSet(Within \union {r})
            /\ Cardinality(Within \union {r})
                 = IF r \in Within THEN Cardinality(Within) ELSE Cardinality(Within) + 1
        BY <1>12, FS_AddElement
      <4> QED
        BY <1>12, <4>1
    <3>3. CASE pass
      <4>1. Cardinality(Within') <= Cardinality(Within \union {r})
        BY <3>1, <3>2, <3>3, FS_Subset
      <4>2. /\ Cardinality(Within') \in Nat
            /\ Cardinality(Within \union {r}) \in Nat
        BY <3>1, <3>2, <3>3, FS_Subset, FS_CardinalityType
      <4> QED
        BY <1>12, <3>2, <3>3, <4>1, <4>2
    <3>4. CASE ~ pass
      <4>1. Cardinality(Within') <= Cardinality(Within)
        BY <1>12, <3>1, <3>4, FS_Subset
      <4> QED
        BY <1>12, <3>4, <4>1
    <3> QED
      BY <3>3, <3>4
  <2>2. Cardinality(Within) <= granted[Shared]
    BY <1>1, <1>14 DEF BurstInv, RedisCounts
  <2>3. IsFiniteSet(Within') /\ Cardinality(Within') \in Nat
    <3>1. Within' \in SUBSET Pending'
      BY DEF Within
    <3> QED
      BY <1>9, <3>1, FS_Subset, FS_CardinalityType
  <2>4. Cardinality(Within') <= granted'[Shared]
    BY <1>12, <1>14, <2>1, <2>2, <2>3, Amounts
  <2>5. Cardinality(Pending') <= Charge + granted'[Shared] + Limit
    <3>1. Cardinality(Pending) <= Charge + granted[Shared] + Limit
      BY <1>1, <1>14, Amounts DEF BurstInv, RedisCounts
    <3> QED
      BY <1>9, <1>14, <3>1, Amounts
  <2>6. Closed(watched)' <=> Closed(watched)
    BY <1>3, <1>11, <1>14, Amounts DEF Closed
  <2>7. ASSUME watched < Span
        PROVE  passed + Cardinality(Pending')
                 <= Charge + granted'[Shared] + (IF Closed(watched) THEN 0 ELSE Limit)
    <3>1. passed + Cardinality(Pending)
            <= Charge + granted[Shared] + (IF Closed(watched) THEN 0 ELSE Limit)
      BY <1>1, <2>7 DEF BurstInv, RedisCounts
    <3> QED
      BY <1>9, <1>14, <3>1, Amounts
  <2> QED
    BY <1>3, <1>9, <1>11, <1>14, <2>4, <2>5, <2>6, <2>7, Amounts DEF RedisCounts
<1> QED
  BY <1>4, <1>6, <1>9, <1>13, <1>14, Amounts

\* The counts of Redis hold as long as nobody waits beside those who did and the
\* window grants what it did.
LEMMA FewerWait ==
    ASSUME WindowInv, Ranges, BurstInv, ~ InMemory,
           Pending' \subseteq Pending, Within' \subseteq Within,
           UNCHANGED <<store, granted, faults>>,
           bucket'[Shared].used = bucket[Shared].used,
           watched' < Span =>
               /\ watched < Span /\ (Closed(watched)' => Closed(watched))
               /\ passed' \in Nat
               /\ passed' + Cardinality(Pending') <= passed + Cardinality(Pending)
    PROVE  RedisCounts' /\ IsFiniteSet(Pending')
<1>1. /\ IsFiniteSet(Pending) /\ Cardinality(Pending) \in Nat
      /\ IsFiniteSet(Within) /\ Cardinality(Within) \in Nat
  <2>1. Within \in SUBSET Pending
    BY DEF Within
  <2> QED
    BY <2>1, FS_Subset, FS_CardinalityType DEF BurstInv
<1>2. /\ IsFiniteSet(Pending') /\ Cardinality(Pending') \in Nat
      /\ IsFiniteSet(Within') /\ Cardinality(Within') \in Nat
      /\ Cardinality(Pending') <= Cardinality(Pending)
      /\ Cardinality(Within') <= Cardinality(Within)
  BY <1>1, FS_Subset, FS_CardinalityType
<1>3. Charge' = Charge
  BY DEF Charge
<1>4. bucket'[Shared].used > 0 => Cardinality(Within') <= granted'[Shared]
  BY <1>1, <1>2, Amounts DEF BurstInv, RedisCounts
<1>5. Cardinality(Pending') <= Charge + granted'[Shared]
         + (IF bucket'[Shared].used = 0 THEN 0 ELSE Limit)
  BY <1>1, <1>2, Amounts DEF BurstInv, RedisCounts
<1>6. ASSUME watched' < Span
      PROVE  passed' + Cardinality(Pending')
               <= Charge + granted'[Shared] + (IF Closed(watched)' THEN 0 ELSE Limit)
  <2>1. passed + Cardinality(Pending)
          <= Charge + granted[Shared] + (IF Closed(watched) THEN 0 ELSE Limit)
    BY <1>6 DEF BurstInv, RedisCounts
  <2>2. CASE Closed(watched)'
    BY <1>1, <1>2, <1>6, <2>1, <2>2, Amounts
  <2>3. CASE ~ Closed(watched)'
    BY <1>1, <1>2, <1>6, <2>1, <2>3, Amounts
  <2> QED
    BY <2>2, <2>3
<1> QED
  BY <1>2, <1>3, <1>4, <1>5, <1>6 DEF RedisCounts

\* A request asks, or hears of its grant, or does not, or asks again.
LEMMA MoveKeepsCounts ==
    ASSUME WindowInv, Ranges, RequestsBelong, BurstInv, NEW r \in Requests,
           NEW next \in {Idle} \union Busy, next.pc # "reply",
           request' = [request EXCEPT ![r] = next],
           UNCHANGED <<store, bucket, granted, opened, watched, faults>>,
           \/ passed' = passed
           \/ r \in Pending /\ passed' = passed + 1
    PROVE  MemoryCounts' /\ RedisCounts' /\ IsFiniteSet(Pending')
<1>1. /\ Pending' = Pending \ {r}
      /\ IsFiniteSet(Pending')
      /\ Cardinality(Pending') \in Nat
      /\ Cardinality(Pending') = Cardinality(Pending) - (IF r \in Pending THEN 1 ELSE 0) + 0
  BY PendingMoves DEF BurstInv
<1>2. Cardinality(Pending) \in Nat
  BY FS_CardinalityType DEF BurstInv
<1>3. Within' \subseteq Within
  <2>1. \A q \in Requests : q # r => request'[q] = request[q]
    BY DEF WindowInv, Types
  <2>2. \A q \in Pending' : q \in Pending /\ request'[q] = request[q]
    BY <1>1, <2>1 DEF Pending
  <2> QED
    BY <2>2 DEF Within
<1>4. InMemory' = InMemory /\ Charge' = Charge
  BY DEF InMemory, Charge
<1>5. CASE InMemory
  <2>1. passed' = passed
    BY <1>5, NobodyWaits
  <2> QED
    BY <1>1, <1>4, <1>5, <2>1 DEF BurstInv, MemoryCounts, RedisCounts
<1>6. CASE ~ InMemory
  <2>1. passed' \in Nat /\ passed' + Cardinality(Pending') <= passed + Cardinality(Pending)
    BY <1>1, <1>2, Amounts
  <2>2. Closed(watched)' => Closed(watched)
    BY DEF Closed
  <2>3. RedisCounts' /\ IsFiniteSet(Pending')
    BY <1>1, <1>3, <1>6, <2>1, <2>2, FewerWait
  <2> QED
    BY <1>4, <1>6, <2>3 DEF MemoryCounts
<1> QED
  BY <1>5, <1>6

\* Time passes for the window, for the requests and for who watches.
LEMMA TickKeepsCounts ==
    ASSUME WindowInv, Ranges, RequestsBelong, BurstInv, Tick
    PROVE  MemoryCounts' /\ RedisCounts' /\ IsFiniteSet(Pending')
<1>1. /\ UNCHANGED <<store, granted, passed, faults>>
      /\ opened'[Shared] = UpTo(Span, opened[Shared])
      /\ watched' = UpTo(Span, watched)
  BY Constants DEF Tick
<1>2. InMemory' = InMemory /\ Charge' = Charge
  BY <1>1 DEF InMemory, Charge
<1>3. watched' < Span => watched < Span /\ watched' = watched + 1
  BY <1>1, Amounts DEF UpTo
<1>4. ASSUME NEW q \in Requests
      PROVE  /\ request'[q].pc = request[q].pc
             /\ request[q].pc = "reply" =>
                  /\ request'[q].used = request[q].used
                  /\ request'[q].age = request[q].age + 1
  <2>1. CASE request[q].pc \in {"counting", "reply"}
    <3>1. request[q] \in Busy
      BY <2>1 DEF WindowInv, Types, Idle
    <3>2. request'[q] = [request[q] EXCEPT !.age = request[q].age + 1]
      BY <2>1 DEF Tick
    <3> QED
      BY <3>1, <3>2 DEF Busy
  <2>2. CASE request[q].pc \notin {"counting", "reply"}
    <3>1. request'[q] = request[q]
      BY <2>2 DEF Tick
    <3> QED
      BY <2>2, <3>1
  <2> QED
    BY <2>1, <2>2
<1>5. Pending' = Pending
  BY <1>4 DEF Pending, Passes
<1>6. /\ bucket'[Shared].used = bucket[Shared].used
      /\ bucket[Shared].used > 0 => bucket'[Shared].age \in Int
                                    /\ bucket'[Shared].age <= bucket[Shared].age + 1
  <2>1. bucket[Shared] \in [used : Nat, age : Int] /\ Shared \in Processes
    BY Constants DEF WindowInv, Types
  <2>2. CASE bucket[Shared].used = 0
    <3>1. bucket'[Shared] = [used |-> 0, age |-> 0]
      BY <2>1, <2>2 DEF Tick, NoBucket
    <3> QED
      BY <2>2, <3>1
  <2>3. CASE bucket[Shared].used # 0
    <3>1. bucket'[Shared] = [bucket[Shared] EXCEPT !.age = UpTo(Old, bucket[Shared].age)]
      BY <2>1, <2>3 DEF Tick
    <3>2. /\ bucket'[Shared].used = bucket[Shared].used
          /\ bucket'[Shared].age = UpTo(Old, bucket[Shared].age)
      BY <2>1, <3>1
    <3> QED
      BY <2>1, <3>2, Numbers DEF UpTo
  <2> QED
    BY <2>2, <2>3
<1>7. CASE InMemory
  <2>1. watched' < Span /\ opened[Shared] > watched => opened'[Shared] > watched'
    BY <1>1, <1>3, Amounts DEF UpTo
  <2>2. ASSUME watched' < Span
        PROVE  passed <= Charge + granted[Shared]
                           + (IF opened'[Shared] > watched' THEN 0 ELSE Limit)
    <3>1. passed <= Charge + granted[Shared]
                      + (IF opened[Shared] > watched THEN 0 ELSE Limit)
      BY <1>3, <1>7, <2>2 DEF BurstInv, MemoryCounts
    <3> HIDE DEF UpTo
    <3>2. CASE opened[Shared] > watched
      BY <2>1, <2>2, <3>1, <3>2, Amounts
    <3>3. CASE ~ (opened[Shared] > watched)
      <4>1. ~ (opened'[Shared] > watched')
        BY <1>1, <1>3, <2>2, <3>3, Amounts DEF UpTo
      <4> QED
        BY <3>1, <3>3, <4>1
    <3> QED
      BY <3>2, <3>3
  <2> QED
    BY <1>1, <1>2, <1>5, <1>7, <2>2 DEF BurstInv, MemoryCounts, RedisCounts
<1>8. CASE ~ InMemory
  <2>1. bucket[Shared].used = 0 \/ Within' \subseteq Within
    <3> SUFFICES ASSUME bucket[Shared].used # 0, NEW q \in Within'
                 PROVE  q \in Within
      OBVIOUS
    <3>1. q \in Pending /\ request'[q].age < bucket'[Shared].age
      BY <1>5 DEF Within, Shared
    <3>2. /\ request[q].pc = "reply" /\ request[q].age \in 0 .. MaxDelay
          /\ request'[q].age = request[q].age + 1
      BY <1>4, <3>1 DEF Pending, RequestsBelong
    <3>3. request[q].age \in Int
      BY <3>2, Amounts
    <3>4. request[q].age < bucket[Shared].age
      BY <1>6, <3>1, <3>2, <3>3, Amounts
    <3> QED
      BY <3>1, <3>4 DEF Within
  <2>2. watched' < Span /\ Closed(watched)' => Closed(watched)
    <3>1. Shared' = Shared
      BY DEF Shared
    <3> QED
      BY <1>3, <1>6, <3>1, Amounts DEF Closed
  <2>3. CASE bucket[Shared].used # 0
    <3>1. /\ passed' \in Nat
          /\ passed' + Cardinality(Pending') <= passed + Cardinality(Pending)
      <4>1. Cardinality(Pending) \in Nat
        BY FS_CardinalityType DEF BurstInv
      <4>2. passed' = passed /\ Cardinality(Pending') = Cardinality(Pending)
        BY <1>1, <1>5
      <4> QED
        BY <4>1, <4>2, Amounts
    <3>2. Pending' \subseteq Pending /\ Within' \subseteq Within
      BY <1>5, <2>1, <2>3
    <3>3. RedisCounts' /\ IsFiniteSet(Pending')
      BY <1>1, <1>3, <1>6, <1>8, <2>2, <3>1, <3>2, FewerWait
    <3> QED
      BY <1>2, <1>8, <3>3 DEF MemoryCounts
  <2>4. CASE bucket[Shared].used = 0
    <3>1. ~ (bucket'[Shared].used > 0) /\ Closed(watched) /\ Closed(watched)'
      BY <1>6, <2>4 DEF Closed, Shared
    <3> QED
      BY <1>1, <1>2, <1>3, <1>5, <1>6, <1>8, <2>4, <3>1 DEF BurstInv, RedisCounts, MemoryCounts
  <2> QED
    BY <2>3, <2>4
<1> QED
  BY <1>7, <1>8

\* Who begins to watch has counted nothing: what is still to pass was granted by
\* the present window, or by the one before if the present one is young.
LEMMA WatchKeepsCounts ==
    ASSUME WindowInv, Ranges, RequestsBelong, BurstInv, Watch
    PROVE  MemoryCounts' /\ RedisCounts' /\ IsFiniteSet(Pending')
<1>1. /\ watched' = 0 /\ passed' = 0
      /\ UNCHANGED <<store, bucket, request, granted, opened, faults>>
  BY DEF Watch
<1>2. /\ InMemory' = InMemory /\ Charge' = Charge /\ Shared' = Shared
      /\ Pending' = Pending /\ Within' = Within
  BY <1>1 DEF InMemory, Charge, Shared, Pending, Within, Passes
<1>3. /\ IsFiniteSet(Pending) /\ Cardinality(Pending) \in Nat
      /\ Closed(watched)' <=> Closed(0)
  BY <1>1, <1>2, FS_CardinalityType DEF BurstInv, Closed
<1>4. MemoryCounts'
  BY <1>1, <1>2, Amounts DEF MemoryCounts
<1>5. ASSUME ~ InMemory
      PROVE  Cardinality(Pending)
               <= Charge + granted[Shared] + (IF Closed(0) THEN 0 ELSE Limit)
  <2>1. Cardinality(Pending) <= Charge + granted[Shared]
                                  + (IF bucket[Shared].used = 0 THEN 0 ELSE Limit)
    BY <1>5 DEF BurstInv, RedisCounts
  <2>2. CASE bucket[Shared].used = 0 \/ ~ Closed(0)
    BY <2>1, <2>2 DEF Closed
  <2>3. CASE bucket[Shared].used # 0 /\ Closed(0)
    <3>1. bucket[Shared].used > 0 /\ bucket[Shared].age > MaxDelay
      BY <2>3, Amounts DEF Closed
    <3>2. Within = Pending
      <4>1. \A q \in Pending : request[q].age \in 0 .. MaxDelay
        BY DEF Pending, RequestsBelong
      <4> QED
        BY <3>1, <4>1, Amounts DEF Within
    <3>3. Cardinality(Pending) <= granted[Shared]
      BY <1>5, <3>1, <3>2 DEF BurstInv, RedisCounts
    <3>4. Cardinality(Pending) <= Charge + granted[Shared] + 0
      BY <1>3, <3>3, Amounts
    <3> QED
      BY <2>3, <3>4
  <2> QED
    BY <2>2, <2>3
<1>6. ~ InMemory => 0 + Cardinality(Pending)
                      <= Charge + granted[Shared] + (IF Closed(0) THEN 0 ELSE Limit)
  BY <1>3, <1>5
<1>7. RedisCounts'
  BY <1>1, <1>2, <1>3, <1>6 DEF BurstInv, RedisCounts
<1> QED
  BY <1>2, <1>3, <1>4, <1>7

\* A fault costs a window: what the present one grants is charged to it.
LEMMA FaultKeepsCounts ==
    ASSUME WindowInv, Ranges, RequestsBelong, RequestsBelong', BurstInv,
           NEW p \in Serving,
           \/ Restart(p)
           \/ \E step \in {Step, - Step} : SetClock(p, step)
    PROVE  MemoryCounts' /\ RedisCounts' /\ IsFiniteSet(Pending')
<1>1. /\ UNCHANGED <<store, granted, watched, passed>>
      /\ faults' = faults + 1
      /\ opened' = [opened EXCEPT ![p] = Span]
  BY DEF Restart, SetClock, Fault
<1>2. InMemory' = InMemory /\ Charge' = Charge + Limit /\ Shared' = Shared
  BY <1>1, Amounts DEF InMemory, Charge, Shared
<1>3. IsFiniteSet(Pending) /\ Cardinality(Pending) \in Nat
  BY FS_CardinalityType DEF BurstInv
<1>4. CASE InMemory
  <2>1. p = Shared /\ opened'[Shared] = Span
    BY <1>1, <1>4, Constants DEF Serving, WindowInv, Types
  <2>2. Pending' = {}
    BY <1>2, <1>4 DEF RequestsBelong, Pending
  <2>3. ASSUME watched < Span
        PROVE  passed <= Charge' + granted[Shared]
                           + (IF opened'[Shared] > watched THEN 0 ELSE Limit)
    <3>1. passed <= Charge + granted[Shared]
                      + (IF opened[Shared] > watched THEN 0 ELSE Limit)
      BY <1>4, <2>3 DEF BurstInv, MemoryCounts
    <3> QED
      BY <1>2, <2>1, <2>3, <3>1, Amounts
  <2> QED
    BY <1>1, <1>2, <1>4, <2>2, <2>3, FS_EmptySet DEF MemoryCounts, RedisCounts
<1>5. CASE ~ InMemory
  <2>1. Restart(p) /\ p = Shared
    BY <1>5 DEF SetClock, Restart, BucketOf
  <2>2. request' = request
    BY <1>5, <2>1 DEF Restart, WindowInv, Types
  <2>3. bucket'[Shared].used = 0
    BY <2>1, Constants DEF Restart, NoBucket, WindowInv, Types
  <2>4. Pending' = Pending /\ Closed(watched)'
    BY <1>2, <2>2, <2>3 DEF Pending, Passes, Closed
  <2>5. Cardinality(Pending) <= Charge' + granted[Shared] + 0
    <3>1. Cardinality(Pending) <= Charge + granted[Shared]
                                    + (IF bucket[Shared].used = 0 THEN 0 ELSE Limit)
      BY <1>5 DEF BurstInv, RedisCounts
    <3> QED
      BY <1>2, <1>3, <3>1, Amounts
  <2>6. ASSUME watched < Span
        PROVE  passed + Cardinality(Pending) <= Charge' + granted[Shared] + 0
    <3>1. passed + Cardinality(Pending)
            <= Charge + granted[Shared] + (IF Closed(watched) THEN 0 ELSE Limit)
      BY <1>5, <2>6 DEF BurstInv, RedisCounts
    <3> QED
      BY <1>2, <1>3, <3>1, Amounts
  <2> QED
    BY <1>1, <1>2, <1>3, <1>5, <2>3, <2>4, <2>5, <2>6 DEF MemoryCounts, RedisCounts
<1> QED
  BY <1>4, <1>5

\* Every step keeps the counts.
LEMMA StepKeepsCounts ==
    ASSUME WindowInv, Ranges, RequestsBelong, RequestsBelong', BurstInv, [Next]_vars
    PROVE  MemoryCounts' /\ RedisCounts' /\ IsFiniteSet(Pending')
<1> DEFINE Kept == MemoryCounts' /\ RedisCounts' /\ IsFiniteSet(Pending')
<1>1. ASSUME NEW r \in Requests, NEW p \in Serving, Ask(r, p)
      PROVE  Kept
  <2> DEFINE next == [pc |-> IF InMemory THEN "counting" ELSE "sent", at |-> p,
                      age |-> 0, used |-> 0,
                      resends |-> IF InMemory THEN 0 ELSE Resends]
  <2>1. /\ request' = [request EXCEPT ![r] = next]
        /\ UNCHANGED <<store, bucket, granted, opened, watched, passed, faults>>
    BY <1>1 DEF Ask
  <2>2. next \in Busy /\ next.pc # "reply"
    BY Constants DEF Busy
  <2> HIDE DEF next
  <2> QED
    BY <2>1, <2>2, MoveKeepsCounts
<1>2. ASSUME NEW r \in Requests, IncrementInMemory(r)
      PROVE  Kept
  <2>1. MemoryCounts' /\ InMemory'
    BY <1>2, IncrementKeepsCounts
  <2>2. Pending' = {}
    BY <2>1 DEF RequestsBelong, Pending
  <2> QED
    BY <2>1, <2>2, FS_EmptySet DEF RedisCounts
<1>3. ASSUME NEW r \in Requests, RunScript(r)
      PROVE  Kept
  <2>1. RedisCounts' /\ IsFiniteSet(Pending')
    BY <1>3, ScriptKeepsCounts
  <2>2. ~ InMemory'
    BY <1>3 DEF RunScript, RequestsBelong, InMemory
  <2> QED
    BY <2>1, <2>2 DEF MemoryCounts
<1>4. ASSUME NEW r \in Requests, Receive(r) \/ Unavailable(r)
      PROVE  Kept
  <2>1. /\ request' = [request EXCEPT ![r] = Idle] /\ Idle.pc # "reply"
        /\ UNCHANGED <<store, bucket, granted, opened, watched, faults>>
        /\ \/ passed' = passed
           \/ r \in Pending /\ passed' = passed + 1
    BY <1>4 DEF Receive, Unavailable, Answer, OnError, Idle, Pending
  <2> QED
    BY <2>1, MoveKeepsCounts
<1>5. ASSUME NEW r \in Requests, Resend(r)
      PROVE  Kept
  <2> DEFINE next == [request[r] EXCEPT !.pc = "sent", !.age = 0, !.used = 0,
                                        !.resends = request[r].resends - 1]
  <2>1. request[r] \in Busy
    BY <1>5, BusyRequest DEF Resend
  <2>2. /\ request' = [request EXCEPT ![r] = next]
        /\ UNCHANGED <<store, bucket, granted, opened, watched, passed, faults>>
    BY <1>5, <2>1 DEF Resend, Busy, WindowInv, Types
  <2>3. request[r].resends - 1 \in Nat
    BY <1>5, <2>1 DEF Resend, Busy
  <2>4. ASSUME NEW q \in Busy, NEW n \in Nat
        PROVE  /\ [q EXCEPT !.pc = "sent", !.age = 0, !.used = 0, !.resends = n] \in Busy
               /\ [q EXCEPT !.pc = "sent", !.age = 0, !.used = 0, !.resends = n].pc = "sent"
    BY DEF Busy
  <2>5. next \in Busy /\ next.pc # "reply"
    BY <2>1, <2>3, <2>4
  <2> HIDE DEF next
  <2> QED
    BY <2>2, <2>5, MoveKeepsCounts
<1>6. ASSUME NEW p \in Serving, Restart(p) \/ SetClock(p, Step) \/ SetClock(p, - Step)
      PROVE  Kept
  BY <1>6, FaultKeepsCounts
<1>7. ASSUME Tick PROVE Kept
  BY <1>7, TickKeepsCounts
<1>8. ASSUME Watch PROVE Kept
  BY <1>8, WatchKeepsCounts
<1>9. ASSUME UNCHANGED vars PROVE Kept
  BY <1>9 DEF vars, BurstInv, MemoryCounts, RedisCounts, InMemory, Charge, Shared,
              Pending, Within, Passes, Closed
<1> HIDE DEF Kept
<1>10. Kept
  BY <1>1, <1>2, <1>3, <1>4, <1>5, <1>6, <1>7, <1>8, <1>9 DEF Next
<1> QED
  BY <1>10 DEF Kept

\* Nothing passes when nobody watches, and what passes while one does is counted.
LEMMA StepKeepsBursts ==
    ASSUME WindowInv, WindowInv', Ranges, Ranges', RequestsBelong, RequestsBelong',
           BurstInv, [Next]_vars
    PROVE  BurstInv'
<1>1. MemoryCounts' /\ RedisCounts' /\ IsFiniteSet(Pending')
  BY StepKeepsCounts
<1>2. faults' \in {faults, faults + 1}
  BY DEF Next, Ask, IncrementInMemory, RunScript, Receive, Resend, Unavailable,
         Restart, SetClock, Fault, Tick, Watch, vars
<1>3. watched' < Span \/ passed' = passed
  <2>1. ASSUME NEW r \in Requests, IncrementInMemory(r) \/ Receive(r) \/ Unavailable(r)
        PROVE  watched' = watched /\ (watched < Span \/ passed' = passed)
    BY <2>1 DEF IncrementInMemory, Receive, Unavailable, Answer
  <2>2. CASE Watch
    BY <2>2, Amounts DEF Watch
  <2>3. CASE passed' = passed
    BY <2>3
  <2> QED
    BY <2>1, <2>2, <2>3
    DEF Next, Ask, RunScript, Resend, Restart, SetClock, Tick, vars
<1>4. /\ Charge \in Nat /\ (2 + faults) * Limit = Charge + 2 * Limit
      /\ Charge' \in Nat /\ Charge <= Charge'
      /\ (2 + faults') * Limit = Charge' + 2 * Limit
      /\ Limit \in Nat
  <2>1. faults \in Int /\ faults' \in Int /\ Limit \in Nat
    BY Constants DEF Ranges
  <2>2. /\ (2 + faults') * Limit = Limit * faults' + 2 * Limit
        /\ faults' * Limit = Limit * faults'
    BY <2>1, Products
  <2>3. Charge' \in {Charge, Charge + Limit}
    BY <1>2, Amounts DEF Charge
  <2>4. Charge' \in Nat /\ Charge <= Charge'
    BY <2>1, <2>3, Amounts
  <2> QED
    BY <2>1, <2>2, <2>4, Amounts DEF Charge
<1>5. /\ granted'[Shared] \in Nat /\ granted'[Shared] <= Limit /\ passed' \in Nat
      /\ Shared' = Shared /\ Span' = Span
  BY Constants DEF WindowInv, Types, Ranges, Shared, Span
<1>6. passed' <= Charge' + 2 * Limit
  <2> DEFINE c == Charge
             d == Charge'
  <2>0. c \in Nat /\ d \in Nat /\ c <= d /\ Limit \in Nat
    BY <1>4
  <2>1. CASE ~ (watched' < Span)
    <3>1. passed' = passed /\ passed <= c + 2 * Limit
      BY <1>3, <1>4, <2>1 DEF BurstInv, BurstIsBounded
    <3> HIDE DEF c, d
    <3>2. passed' <= d + 2 * Limit
      BY <1>5, <2>0, <3>1
    <3> QED
      BY <3>2 DEF d
  <2>2. CASE watched' < Span /\ InMemory'
    <3>1. \/ passed' <= d + granted'[Shared] + 0
          \/ passed' <= d + granted'[Shared] + Limit
      BY <1>1, <1>5, <2>2 DEF MemoryCounts
    <3> HIDE DEF c, d
    <3>2. passed' <= d + 2 * Limit
      BY <1>5, <2>0, <3>1
    <3> QED
      BY <3>2 DEF d
  <2>3. CASE watched' < Span /\ ~ InMemory'
    <3>1. \/ passed' + Cardinality(Pending') <= d + granted'[Shared] + 0
          \/ passed' + Cardinality(Pending') <= d + granted'[Shared] + Limit
      BY <1>1, <1>5, <2>3 DEF RedisCounts
    <3>2. Cardinality(Pending') \in Nat
      BY <1>1, FS_CardinalityType
    <3> HIDE DEF c, d
    <3>3. passed' <= d + 2 * Limit
      BY <1>5, <2>0, <3>1, <3>2
    <3> QED
      BY <3>3 DEF d
  <2> QED
    BY <2>1, <2>2, <2>3
<1>7. passed' <= (2 + faults') * Limit
  BY <1>4, <1>6
<1> QED
  BY <1>1, <1>7 DEF BurstInv, BurstIsBounded

-----------------------------------------------------------------------------
(* The theorems.                                                            *)

IInv ==
    WindowInv /\ RequestsBelong /\ Ranges /\ PromisesHold /\ BurstInv

\* At the start nothing is counted, told or on its way.
LEMMA InitIInv == Init => IInv
<1> SUFFICES ASSUME Init PROVE IInv
  OBVIOUS
<1>1. WindowInv
  BY InitEstablishes
<1>2. RequestsBelong
  BY DEF Init, Idle, RequestsBelong
<1>3. /\ Limit \in Nat \ {0} /\ Second \in Nat /\ Step \in Nat /\ MaxFaults \in Nat
      /\ Old \in Nat /\ Span \in Nat \ {0}
  BY Constants, RateLimiterAssumption
<1>4. faults = 0 /\ Step * faults = 0 /\ Charge = 0 /\ (2 + faults) * Limit = 2 * Limit
  BY <1>3 DEF Init, Charge
<1>5. Ranges
  <2>1. NotTold \in NotTold .. Old + Second
    BY <1>3 DEF NotTold
  <2> QED
    BY <1>3, <1>4, <2>1 DEF Init, NoBucket, Ranges
<1>6. PromisesHold
  BY DEF Init, PromisesHold
<1>7. BurstInv
  <2>1. Pending = {} /\ IsFiniteSet(Pending) /\ Cardinality(Pending) = 0
    <3>1. Pending = {}
      BY DEF Init, Idle, Pending
    <3> QED
      BY <3>1, FS_EmptySet
  <2>2. bucket[Shared].used = 0 /\ granted[Shared] = 0 /\ passed = 0 /\ watched = Span
    BY Constants DEF Init, NoBucket
  <2>3. MemoryCounts /\ RedisCounts
    BY <1>3, <1>4, <2>1, <2>2 DEF MemoryCounts, RedisCounts
  <2> QED
    BY <1>3, <1>4, <2>1, <2>2, <2>3 DEF BurstInv, BurstIsBounded
<1> QED
  BY <1>1, <1>2, <1>5, <1>6, <1>7 DEF IInv

\* The inductive invariant holds.
LEMMA Invariance == Spec => []IInv
<1>1. IInv /\ [Next]_vars => IInv'
  <2> SUFFICES ASSUME IInv, [Next]_vars PROVE IInv'
    OBVIOUS
  <2>1. WindowInv' /\ RequestsBelong'
    BY StepPreserves, StepKeepsBelonging DEF IInv
  <2>2. Ranges' /\ PromisesHold'
    BY StepKeepsPromises DEF IInv
  <2>3. BurstInv'
    BY <2>1, <2>2, StepKeepsBursts DEF IInv
  <2> QED
    BY <2>1, <2>2, <2>3 DEF IInv
<1> QED
  BY InitIInv, <1>1, PTL DEF Spec

\* Counts, ages, requests and histories have their types: among them, that a
\* window is never younger than the clock settings have made it, and that no
\* client is told to wait for more than a window and what comes on top of it.
THEOREM TypeCorrect == Spec => []TypeOK
<1>1. IInv => TypeOK
  <2> SUFFICES ASSUME IInv PROVE TypeOK
    OBVIOUS
  <2>1. bucket \in [Processes -> [used : 0 .. Limit + 1,
                                  age  : -(Step * MaxFaults) .. Old]]
    <3>1. bucket \in [Processes -> [used : Nat, age : Int]]
      BY DEF IInv, WindowInv, Types
    <3>2. ASSUME NEW p \in Processes
          PROVE  /\ bucket[p].used \in 0 .. Limit + 1
                 /\ bucket[p].age \in -(Step * MaxFaults) .. Old
      <4>1. /\ bucket[p].used \in Nat /\ bucket[p].used <= Limit + 1
            /\ bucket[p].age \in Int /\ bucket[p].age <= Old
            /\ - (Step * faults) <= bucket[p].age
        BY <3>1 DEF IInv, Ranges
      <4>2. Limit \in Nat /\ Old \in Nat /\ Step * faults \in Int
        BY Numbers DEF IInv
      <4>3. Step * MaxFaults \in Int /\ Step * faults <= Step * MaxFaults
        <5>1. Step \in Nat /\ faults \in Int /\ MaxFaults \in Int /\ faults <= MaxFaults
          BY Numbers DEF IInv, Ranges
        <5> QED
          BY <5>1, Products
      <4> DEFINE low == Step * faults
                 least == Step * MaxFaults
      <4> HIDE DEF low, least
      <4>4. bucket[p].used \in 0 .. Limit + 1
        BY <4>1, <4>2
      <4>5. - least <= bucket[p].age
        BY <4>1, <4>2, <4>3 DEF low, least
      <4>6. bucket[p].age \in - least .. Old
        BY <4>1, <4>2, <4>3, <4>5 DEF least
      <4> QED
        BY <4>4, <4>6 DEF least
    <3> DEFINE Small == 0 .. Limit + 1
               Ages == -(Step * MaxFaults) .. Old
    <3>3. \A p \in Processes : bucket[p].used \in Small /\ bucket[p].age \in Ages
      BY <3>2
    <3> HIDE DEF Small, Ages
    <3>4. bucket \in [Processes -> [used : Small, age : Ages]]
      BY <3>1, <3>3
    <3> QED
      BY <3>4 DEF Small, Ages
  <2>2. ASSUME NEW r \in Requests
        PROVE  /\ request[r].pc \in {"idle", "counting", "sent", "reply"}
               /\ request[r].pc # "idle" =>
                    request[r].at \in Serving /\ request[r].age \in 0 .. MaxDelay
    <3>1. request[r] \in {Idle} \union Busy
      BY DEF IInv, WindowInv, Types
    <3> QED
      BY <3>1 DEF IInv, RequestsBelong, Idle, Busy
  <2> QED
    BY <2>1, <2>2 DEF IInv, WindowInv, Types, Ranges, TypeOK
<1> QED
  BY <1>1, Invariance, PTL

\* In a window less MaxDelay at most two windows' worth of requests pass, and one
\* more for each fault: late goroutines and replies, repeated scripts and an
\* unreachable Redis let nobody through beside the count.
THEOREM BurstsAreBounded == Spec => []BurstIsBounded
<1>1. IInv => BurstIsBounded
  BY DEF IInv, BurstInv
<1> QED
  BY <1>1, Invariance, PTL

\* Whoever is refused and waits as long as Retry-After says finds the window
\* over, but for the half second that the TTL of Redis may have rounded away.
THEOREM RetryAfterHolds == Spec => []RetryAfterIsHonest
<1>1. IInv => RetryAfterIsHonest
  <2> SUFFICES ASSUME IInv, NEW p \in Processes, told[p] = 0
               PROVE  Window - bucket[p].age <= Rounding
    BY DEF RetryAfterIsHonest, Rounding
  <2>1. told[p] # NotTold
    BY DEF NotTold
  <2>2. Window - bucket[p].age <= 0 + Rounding /\ Rounding \in Nat
    BY <2>1, Numbers DEF IInv, PromisesHold
  <2> QED
    BY <2>2
<1> QED
  BY <1>1, Invariance, PTL
=============================================================================
