---------------------- MODULE PublisherConfirmsProofs ----------------------
(***************************************************************************)
(* Proofs about PublisherConfirms, for any events, any capacity of the Go  *)
(* channel and any number of deliveries.  The books of the confirmations   *)
(* carry them: as long as the connection lives, those that are due are as  *)
(* many as the messages nobody waits for and the Publish in progress, so   *)
(* before the first of these there is none but that of the event Publish   *)
(* waits for; and after an abandoned Publish there is no other.            *)
(***************************************************************************)
EXTENDS PublisherConfirms, FiniteSetTheorems, SequenceTheorems, TLAPS

-----------------------------------------------------------------------------
(* Counting the confirmations among the frames of a connection.             *)

\* The frames hold finitely many.
LEMMA FinitelyMany ==
    ASSUME NEW S, NEW s \in Seq(S)
    PROVE  /\ IsFiniteSet(Confirmations(s))
           /\ Cardinality(Confirmations(s)) \in Nat
<1>1. Len(s) \in Nat
  BY LenProperties
<1>2. IsFiniteSet(1 .. Len(s))
  BY <1>1, FS_Interval
<1>3. IsFiniteSet(Confirmations(s))
  BY <1>2, FS_Subset DEF Confirmations
<1> QED
  BY <1>3, FS_CardinalityType

\* A frame that comes in is one confirmation more, if it is one.
LEMMA CountAppend ==
    ASSUME NEW S, NEW s \in Seq(S), NEW x \in S
    PROVE  Cardinality(Confirmations(Append(s, x)))
             = Cardinality(Confirmations(s))
                 + (IF x.kind = "confirmation" THEN 1 ELSE 0)
<1> DEFINE t == Append(s, x)
           n == Len(s)
<1>1. /\ t \in Seq(S) /\ n \in Nat /\ Len(t) = n + 1
      /\ \A i \in 1 .. n : t[i] = s[i]
      /\ t[n + 1] = x
  BY AppendProperties, LenProperties
<1> HIDE DEF t, n
<1>2. Confirmations(s) = {i \in 1 .. n : s[i].kind = "confirmation"}
  BY DEF Confirmations, n
<1>3. Confirmations(t) = {i \in 1 .. n + 1 : t[i].kind = "confirmation"}
  BY <1>1 DEF Confirmations
<1>4. n + 1 \notin Confirmations(s)
  BY <1>1, <1>2
<1>5. Confirmations(t) = IF x.kind = "confirmation"
                         THEN Confirmations(s) \union {n + 1}
                         ELSE Confirmations(s)
  BY <1>1, <1>2, <1>3
<1>6. /\ IsFiniteSet(Confirmations(s))
      /\ Cardinality(Confirmations(s)) \in Nat
  BY FinitelyMany
<1>7. Cardinality(Confirmations(s) \union {n + 1})
        = Cardinality(Confirmations(s)) + 1
  BY <1>4, <1>6, FS_AddElement
<1>8. CASE x.kind = "confirmation"
  BY <1>5, <1>7, <1>8 DEF t
<1>9. CASE x.kind # "confirmation"
  BY <1>5, <1>6, <1>9 DEF t
<1> QED
  BY <1>8, <1>9

\* A frame that is read is one less.
LEMMA CountTail ==
    ASSUME NEW S, NEW s \in Seq(S), s # <<>>
    PROVE  Cardinality(Confirmations(Tail(s)))
             = Cardinality(Confirmations(s))
                 - (IF Head(s).kind = "confirmation" THEN 1 ELSE 0)
<1> DEFINE t == Tail(s)
           n == Len(s)
<1>1. /\ t \in Seq(S) /\ n \in Nat \ {0} /\ Len(t) = n - 1
      /\ \A i \in 1 .. n - 1 : t[i] = s[i + 1]
      /\ Head(s) = s[1]
  BY HeadTailProperties, LenProperties, EmptySeq
<1> HIDE DEF t, n
<1> DEFINE rest == Confirmations(s) \ {1}
           f == [i \in rest |-> i - 1]
<1>2. Confirmations(s) = {i \in 1 .. n : s[i].kind = "confirmation"}
  BY DEF Confirmations, n
<1>3. Confirmations(t) = {i \in 1 .. n - 1 : s[i + 1].kind = "confirmation"}
  BY <1>1 DEF Confirmations
<1>4. /\ IsFiniteSet(rest)
      /\ Cardinality(rest) = Cardinality(Confirmations(s))
            - (IF Head(s).kind = "confirmation" THEN 1 ELSE 0)
  <2>1. 1 \in Confirmations(s) <=> Head(s).kind = "confirmation"
    BY <1>1, <1>2
  <2> QED
    BY <2>1, FinitelyMany, FS_RemoveElement
<1>5. f \in Bijection(rest, Confirmations(t))
  <2>1. ASSUME NEW i \in rest
        PROVE  f[i] = i - 1 /\ f[i] \in Confirmations(t) /\ i \in Int
    BY <1>1, <1>2, <1>3
  <2>2. f \in [rest -> Confirmations(t)]
    BY <2>1
  <2>3. \A i, j \in rest : f[i] = f[j] => i = j
    BY <2>1
  <2>4. ASSUME NEW j \in Confirmations(t)
        PROVE  \E i \in rest : f[i] = j
    <3>1. j + 1 \in rest /\ (j + 1) - 1 = j
      BY <1>1, <1>2, <1>3
    <3> QED
      BY <2>1, <3>1
  <2> QED
    BY <2>2, <2>3, <2>4 DEF Bijection, Injection, Surjection, IsInjective
<1>6. Cardinality(Confirmations(t)) = Cardinality(rest)
  BY <1>4, <1>5, FS_Bijection DEF ExistsBijection
<1> QED
  BY <1>4, <1>6 DEF t

-----------------------------------------------------------------------------
(* The inductive invariant.                                                 *)

Message == Events \union {Retry}

Frame == Confirmation \union {Delivery}

Due == Unawaited + (IF waiting = Nothing THEN 0 ELSE 1)

\* The books are exact while the connection lives, and what it leaves behind is
\* no more than that.
BooksAreKept ==
    /\ Outstanding <= Due
    /\ open => Outstanding = Due
    /\ ~ open => outbound = <<>> /\ inbound = <<>>

Tells(confirmation, event, taken) ==
    /\ confirmation.of = event
    /\ confirmation.ack => event \in taken

\* Until something is sent that nobody waits for, everything that is due belongs
\* to the event Publish waits for, and an ack of it says that the broker has it.
InStep ==
    Unawaited = 0 =>
        /\ \A i \in 1 .. Len(outbound) : outbound[i] = waiting
        /\ \A i \in Confirmations(inbound) : Tells(inbound[i], waiting, accepted)
        /\ \A i \in 1 .. Len(confirms) : Tells(confirms[i], waiting, accepted)

\* A Publish can be abandoned only when it is the last one.
AbandonedIsLast ==
    /\ waiting # Nothing => ctx # "cancelled"
    /\ abandoned # 0 => ctx = "spent" /\ waiting = Nothing

Truthful == republished = 0 => published \subseteq accepted

IInv == TypeOK /\ BooksAreKept /\ InStep /\ AbandonedIsLast /\ Truthful

-----------------------------------------------------------------------------
\* What the variables are, as the steps below need it.
LEMMA Shapes ==
    ASSUME TypeOK
    PROVE  /\ outbound \in Seq(Message) /\ Len(outbound) \in Nat
           /\ inbound \in Seq(Frame) /\ Len(inbound) \in Nat
           /\ confirms \in Seq(Confirmation) /\ Len(confirms) \in Nat
           /\ IsFiniteSet(Confirmations(inbound))
           /\ Cardinality(Confirmations(inbound)) \in Nat
           /\ republished \in Nat /\ abandoned \in Nat
           /\ Unawaited \in Nat
           /\ Due \in Nat
           /\ Outstanding \in Nat
<1>1. /\ outbound \in Seq(Message) /\ inbound \in Seq(Frame)
      /\ confirms \in Seq(Confirmation)
      /\ republished \in Nat /\ abandoned \in Nat /\ Unawaited \in Nat
  BY DEF TypeOK, Message, Frame, Unawaited
<1>2. /\ Len(outbound) \in Nat /\ Len(inbound) \in Nat /\ Len(confirms) \in Nat
      /\ IsFiniteSet(Confirmations(inbound))
      /\ Cardinality(Confirmations(inbound)) \in Nat
  BY <1>1, LenProperties, FinitelyMany
<1> QED
  BY <1>1, <1>2 DEF Due, Outstanding

\* The part of it that is arithmetic.
LEMMA Counts ==
    ASSUME TypeOK
    PROVE  /\ Len(outbound) \in Nat /\ Len(confirms) \in Nat
           /\ Cardinality(Confirmations(inbound)) \in Nat
           /\ republished \in Nat /\ abandoned \in Nat /\ Unawaited \in Nat
  BY Shapes

\* A sequence without elements is the empty one.
LEMMA NoElements ==
    ASSUME NEW S, NEW s \in Seq(S), Len(s) = 0
    PROVE  s = <<>>
BY EmptySeq

\* Where nothing is due, nothing is there.
LEMMA NothingIsDue ==
    ASSUME IInv, Due = 0
    PROVE  /\ outbound = <<>> /\ confirms = <<>>
           /\ Confirmations(inbound) = {}
           /\ Unawaited = 0 /\ waiting = Nothing
<1>1. Outstanding = 0
  BY Shapes DEF IInv, BooksAreKept
<1>2. /\ Len(outbound) = 0 /\ Len(confirms) = 0
      /\ Cardinality(Confirmations(inbound)) = 0
  BY <1>1, Shapes DEF Outstanding, IInv
<1>3. outbound = <<>> /\ confirms = <<>>
  BY <1>2, Shapes, NoElements DEF IInv
<1>4. Confirmations(inbound) = {}
  BY <1>2, Shapes, FS_EmptySet DEF IInv
<1>5. Unawaited = 0 /\ waiting = Nothing
  BY Shapes DEF IInv, Due
<1> QED
  BY <1>3, <1>4, <1>5

\* With an open connection, no sequences and nobody waiting, the books are right.
LEMMA InitIInv == Init => IInv
<1> SUFFICES ASSUME Init PROVE IInv
  OBVIOUS
<1>1. Confirmations(<<>>) = {} /\ Len(<<>>) = 0
  BY DEF Confirmations
<1>2. TypeOK
  BY <1>1, EmptySeq, ConfirmsAssumption DEF Init, TypeOK
<1>3. Outstanding = 0 /\ Due = 0
  BY <1>1, FS_EmptySet DEF Init, Outstanding, Due, Unawaited
<1>4. BooksAreKept
  BY <1>3 DEF Init, BooksAreKept
<1>5. InStep
  BY <1>1 DEF Init, InStep
<1>6. AbandonedIsLast /\ Truthful
  BY DEF Init, AbandonedIsLast, Truthful
<1> QED
  BY <1>2, <1>4, <1>5, <1>6 DEF IInv

-----------------------------------------------------------------------------
\* Publish sends: one confirmation more is due.
LEMMA PublishSendKeeps ==
    ASSUME IInv, NEW e \in Events, PublishSend(e)
    PROVE  IInv'
<1>1. TypeOK /\ BooksAreKept /\ InStep /\ AbandonedIsLast /\ Truthful
  BY DEF IInv
<1>2. /\ open /\ waiting = Nothing /\ waiting' = e /\ e # Nothing
      /\ UNCHANGED <<inbound, confirms, buffer, open, undelivered, accepted,
                     published, republished, abandoned>>
      /\ ctx # "spent" /\ ctx' = IF ctx = "live" THEN "live" ELSE "spent"
  BY ConfirmsAssumption DEF PublishSend, Nothing
<1>3. /\ outbound' \in Seq(Message) /\ Len(outbound') = Len(outbound) + 1
      /\ \A i \in 1 .. Len(outbound) : outbound'[i] = outbound[i]
      /\ outbound'[Len(outbound) + 1] = e
  BY <1>1, Shapes, AppendProperties DEF PublishSend, Sent, Message
<1>4. TypeOK'
  BY <1>1, <1>2, <1>3 DEF TypeOK, Message
<1>5. Outstanding' = Outstanding + 1 /\ Due' = Due + 1
  <2>1. Outstanding' = Outstanding + 1
    BY <1>1, <1>2, <1>3, Counts DEF Outstanding
  <2>2. Due = Unawaited + 0 /\ Due' = Unawaited + 1
    BY <1>2 DEF Due, Unawaited
  <2> QED
    BY <1>1, <2>1, <2>2, Shapes
<1>6. BooksAreKept'
  BY <1>1, <1>2, <1>5, Shapes DEF BooksAreKept
<1>7. InStep'
  <2> SUFFICES ASSUME Unawaited = 0 PROVE InStep'
    BY <1>2 DEF InStep, Unawaited
  <2>1. Due = 0
    BY <1>2 DEF Due, Unawaited
  <2>2. outbound = <<>> /\ confirms = <<>> /\ Confirmations(inbound) = {}
    BY <2>1, NothingIsDue
  <2>3. Len(outbound) = 0 /\ Len(confirms) = 0
    BY <2>2
  <2>4. \A i \in 1 .. Len(outbound') : outbound'[i] = waiting'
    BY <1>2, <1>3, <2>3
  <2> QED
    BY <1>1, <1>2, <2>2, <2>3, <2>4 DEF InStep
<1>8. AbandonedIsLast' /\ Truthful'
  BY <1>1, <1>2 DEF AbandonedIsLast, Truthful
<1> QED
  BY <1>4, <1>6, <1>7, <1>8 DEF IInv

\* Publish takes a confirmation: before the first retry it is the only one there
\* is, and its own.
LEMMA PublishReceiveKeeps ==
    ASSUME IInv, PublishReceive
    PROVE  IInv'
<1>1. TypeOK /\ BooksAreKept /\ InStep /\ AbandonedIsLast /\ Truthful
  BY DEF IInv
<1>2. /\ waiting # Nothing /\ waiting' = Nothing /\ confirms # <<>>
      /\ published' = IF Head(confirms).ack THEN published \union {waiting}
                                            ELSE published
      /\ UNCHANGED <<outbound, inbound, buffer, open, undelivered, ctx, accepted,
                     republished, abandoned>>
  BY DEF PublishReceive, Succeeds
<1>3. /\ confirms' \in Seq(Confirmation) /\ Len(confirms') = Len(confirms) - 1
      /\ Head(confirms) = confirms[1] /\ 1 \in 1 .. Len(confirms)
  BY <1>1, <1>2, Shapes, HeadTailProperties, EmptySeq DEF PublishReceive
<1>4. TypeOK'
  <2>1. waiting \in Events /\ Len(confirms') <= ConfirmsCapacity
    BY <1>1, <1>2, <1>3, Shapes, ConfirmsAssumption DEF TypeOK
  <2> QED
    BY <1>1, <1>2, <1>3, <2>1 DEF TypeOK
<1>5. Outstanding' = Outstanding - 1 /\ Due' = Due - 1
  <2>1. Outstanding' = Len(outbound) + Cardinality(Confirmations(inbound))
                         + Len(confirms')
    BY <1>2 DEF Outstanding
  <2>2. Outstanding' = Outstanding - 1
    BY <1>1, <1>3, <2>1, Counts DEF Outstanding
  <2>3. Due = Unawaited + 1 /\ Due' = Unawaited + 0
    BY <1>2 DEF Due, Unawaited
  <2> QED
    BY <1>1, <2>2, <2>3, Shapes
<1>6. BooksAreKept'
  BY <1>1, <1>2, <1>5, Shapes DEF BooksAreKept
<1>7. ASSUME Unawaited = 0
      PROVE  /\ Len(outbound) = 0 /\ Len(confirms') = 0
             /\ Confirmations(inbound) = {}
  <2>1. Due' = 0
    BY <1>2, <1>7 DEF Due, Unawaited
  <2>2. Outstanding' <= 0
    BY <1>6, <2>1 DEF BooksAreKept
  <2>3. Len(outbound) + Cardinality(Confirmations(inbound)) + Len(confirms') <= 0
    BY <1>2, <2>2 DEF Outstanding
  <2>4. Len(confirms') \in Nat
    BY <1>3, LenProperties
  <2>5. /\ Len(outbound) = 0 /\ Len(confirms') = 0
        /\ Cardinality(Confirmations(inbound)) = 0
    BY <1>1, <2>3, <2>4, Shapes
  <2> QED
    BY <1>1, <2>5, Shapes, FS_EmptySet
<1>8. InStep'
  BY <1>2, <1>7 DEF InStep, Unawaited
<1>9. Truthful'
  <2> SUFFICES ASSUME republished = 0 PROVE published' \subseteq accepted
    BY <1>2 DEF Truthful
  <2>1. Unawaited = 0
    BY <1>1, <1>2 DEF AbandonedIsLast, Unawaited
  <2> QED
    BY <1>1, <1>2, <1>3, <2>1 DEF InStep, Tells, Truthful
<1>10. AbandonedIsLast'
  BY <1>1, <1>2 DEF AbandonedIsLast
<1> QED
  BY <1>4, <1>6, <1>8, <1>9, <1>10 DEF IInv

\* The connection is gone, and with it everything that was due.
LEMMA PublishReceiveClosedKeeps ==
    ASSUME IInv, PublishReceiveClosed
    PROVE  IInv'
<1>1. TypeOK /\ BooksAreKept /\ InStep /\ AbandonedIsLast /\ Truthful
  BY DEF IInv
<1>2. /\ ~ open /\ confirms = <<>> /\ waiting' = Nothing
      /\ UNCHANGED <<outbound, inbound, confirms, buffer, open, undelivered, ctx,
                     accepted, published, republished, abandoned>>
  BY DEF PublishReceiveClosed
<1>3. outbound = <<>> /\ inbound = <<>>
  BY <1>1, <1>2 DEF BooksAreKept
<1>4. Len(outbound) = 0 /\ Len(confirms) = 0 /\ Confirmations(inbound) = {}
  BY <1>2, <1>3 DEF Confirmations
<1>5. TypeOK'
  BY <1>1, <1>2 DEF TypeOK
<1>6. Outstanding' = 0
  BY <1>2, <1>4, FS_EmptySet DEF Outstanding
<1>7. Due' \in Nat
  <2>1. Due' = Unawaited + 0 /\ Unawaited \in Nat
    BY <1>1, <1>2, Shapes DEF Due, Unawaited
  <2> QED
    BY <2>1
<1>8. BooksAreKept'
  BY <1>2, <1>3, <1>6, <1>7 DEF BooksAreKept
<1>9. InStep'
  BY <1>1, <1>2, <1>4 DEF InStep
<1>10. AbandonedIsLast' /\ Truthful'
  BY <1>1, <1>2 DEF AbandonedIsLast, Truthful
<1> QED
  BY <1>5, <1>8, <1>9, <1>10 DEF IInv

\* The last Publish goes, and its confirmation is one nobody waits for.
LEMMA PublishAbandonKeeps ==
    ASSUME IInv, PublishAbandon
    PROVE  IInv'
<1>1. TypeOK /\ BooksAreKept /\ AbandonedIsLast /\ Truthful
  BY DEF IInv
<1>2. /\ waiting # Nothing /\ waiting' = Nothing /\ ctx # "live"
      /\ abandoned' = abandoned + 1
      /\ UNCHANGED <<outbound, inbound, confirms, buffer, open, undelivered, ctx,
                     accepted, published, republished>>
  BY DEF PublishAbandon
<1>3. TypeOK'
  BY <1>1, <1>2 DEF TypeOK
<1>4. Outstanding' = Outstanding /\ Due' = Due
  <2>1. Outstanding' = Outstanding
    BY <1>2 DEF Outstanding
  <2>2. Due = Unawaited + 1 /\ Due' = Unawaited' + 0
    BY <1>2 DEF Due
  <2>3. Unawaited' = Unawaited + 1 /\ Unawaited \in Nat
    BY <1>1, <1>2, Shapes DEF Unawaited
  <2> QED
    BY <2>1, <2>2, <2>3
<1>5. BooksAreKept'
  BY <1>1, <1>2, <1>4 DEF BooksAreKept
<1>6. Unawaited' # 0
  BY <1>1, <1>2, Shapes DEF Unawaited
<1>7. AbandonedIsLast' /\ Truthful'
  BY <1>1, <1>2 DEF AbandonedIsLast, Truthful, TypeOK
<1> QED
  BY <1>3, <1>5, <1>6, <1>7 DEF IInv, InStep

\* A retry or a dead letter is sent: the channel is out of step from here on.
LEMMA RepublishKeeps ==
    ASSUME IInv, Republish
    PROVE  IInv'
<1>1. TypeOK /\ BooksAreKept /\ AbandonedIsLast
  BY DEF IInv
<1>2. /\ open /\ buffer' \in Nat /\ republished' = republished + 1
      /\ UNCHANGED <<inbound, confirms, waiting, open, undelivered, ctx, accepted,
                     published, abandoned>>
  BY <1>1 DEF Republish, TypeOK
<1>3. outbound' \in Seq(Message) /\ Len(outbound') = Len(outbound) + 1
  BY <1>1, Shapes, AppendProperties DEF Republish, Sent, Message
<1>4. TypeOK'
  BY <1>1, <1>2, <1>3 DEF TypeOK, Message
<1>5. Outstanding' = Outstanding + 1 /\ Due' = Due + 1
  <2>1. Outstanding' = Len(outbound') + Cardinality(Confirmations(inbound))
                         + Len(confirms)
    BY <1>2 DEF Outstanding
  <2>2. Outstanding' = Outstanding + 1
    BY <1>1, <1>3, <2>1, Counts DEF Outstanding
  <2>3. Unawaited' = Unawaited + 1
    BY <1>1, <1>2, Shapes DEF Unawaited
  <2>4. Due' = Unawaited' + (IF waiting = Nothing THEN 0 ELSE 1)
    BY <1>2 DEF Due
  <2>5. Due' = Due + 1
    BY <1>1, <2>3, <2>4, Shapes DEF Due, Unawaited
  <2> QED
    BY <2>2, <2>5
<1>6. BooksAreKept'
  BY <1>1, <1>2, <1>5, Shapes DEF BooksAreKept
<1>7. republished' # 0 /\ Unawaited' # 0
  BY <1>1, <1>2, Shapes DEF Unawaited
<1>8. AbandonedIsLast'
  BY <1>1, <1>2 DEF AbandonedIsLast
<1> QED
  BY <1>4, <1>6, <1>7, <1>8 DEF IInv, InStep, Truthful

\* The broker turns a message into a confirmation of it.
LEMMA BrokerHandleKeeps ==
    ASSUME IInv, NEW ack \in BOOLEAN, BrokerHandle(ack)
    PROVE  IInv'
<1> DEFINE frame == [kind |-> "confirmation", of |-> Head(outbound), ack |-> ack]
<1>1. TypeOK /\ BooksAreKept /\ InStep /\ AbandonedIsLast /\ Truthful
  BY DEF IInv
<1>2. /\ outbound # <<>> /\ outbound' = Tail(outbound)
      /\ inbound' = Append(inbound, frame)
      /\ accepted' = IF ack /\ Head(outbound) # Retry
                     THEN accepted \union {Head(outbound)} ELSE accepted
      /\ UNCHANGED <<confirms, waiting, buffer, open, undelivered, ctx, published,
                     republished, abandoned>>
  BY DEF BrokerHandle
<1>3. /\ outbound' \in Seq(Message) /\ Len(outbound') = Len(outbound) - 1
      /\ \A i \in 1 .. Len(outbound') : outbound'[i] = outbound[i + 1]
      /\ Head(outbound) = outbound[1] /\ 1 \in 1 .. Len(outbound)
      /\ Head(outbound) \in Message
  BY <1>1, <1>2, Shapes, HeadTailProperties, EmptySeq
<1>4. /\ frame \in Frame /\ frame.kind = "confirmation"
      /\ frame.of = Head(outbound) /\ frame.ack = ack
  BY <1>3 DEF Frame, Confirmation, Message
<1> HIDE DEF frame
<1>5. /\ inbound' \in Seq(Frame) /\ Len(inbound') = Len(inbound) + 1
      /\ \A i \in 1 .. Len(inbound) : inbound'[i] = inbound[i]
      /\ inbound'[Len(inbound) + 1] = frame
  BY <1>1, <1>2, <1>4, Shapes, AppendProperties
<1>6. TypeOK'
  BY <1>1, <1>2, <1>3, <1>5 DEF TypeOK, Message, Frame
<1>7. Cardinality(Confirmations(inbound')) = Cardinality(Confirmations(inbound)) + 1
  BY <1>1, <1>2, <1>4, Shapes, CountAppend
<1>8. Outstanding' = Outstanding /\ Due' = Due
  <2>1. Outstanding' = Len(outbound') + Cardinality(Confirmations(inbound'))
                         + Len(confirms)
    BY <1>2 DEF Outstanding
  <2>2. Outstanding' = Outstanding
    BY <1>1, <1>3, <1>7, <2>1, Counts DEF Outstanding
  <2>3. Due' = Due
    BY <1>2 DEF Due, Unawaited
  <2> QED
    BY <2>2, <2>3
<1>9. BooksAreKept'
  BY <1>1, <1>2, <1>8 DEF BooksAreKept
<1>10. InStep'
  <2> SUFFICES ASSUME Unawaited = 0 PROVE InStep'
    BY <1>2 DEF InStep, Unawaited
  <2>1. Head(outbound) = waiting
    BY <1>1, <1>3 DEF InStep
  <2>2. waiting \in Events /\ waiting # Retry
    <3>1. Due # 0
      <4>1. ASSUME Due = 0 PROVE FALSE
        BY <1>2, <4>1, NothingIsDue
      <4> QED
        BY <4>1
    <3>2. waiting # Nothing
      BY <3>1 DEF Due, Unawaited
    <3> QED
      BY <1>1, <3>2, ConfirmsAssumption DEF TypeOK
  <2>3. accepted \subseteq accepted' /\ (ack => waiting \in accepted')
    BY <1>2, <2>1, <2>2
  <2>4. \A i \in 1 .. Len(outbound') : outbound'[i] = waiting'
    BY <1>1, <1>2, <1>3, Shapes DEF InStep
  <2>5. ASSUME NEW i \in Confirmations(inbound')
        PROVE  Tells(inbound'[i], waiting', accepted')
    <3>1. i \in 1 .. Len(inbound) + 1 /\ inbound'[i].kind = "confirmation"
      BY <1>5 DEF Confirmations
    <3>2. CASE i = Len(inbound) + 1
      BY <1>2, <1>4, <1>5, <2>1, <2>3, <3>2 DEF Tells
    <3>3. CASE i # Len(inbound) + 1
      <4>1. i \in 1 .. Len(inbound)
        BY <1>1, <3>1, <3>3, Shapes
      <4>2. i \in Confirmations(inbound) /\ inbound'[i] = inbound[i]
        BY <1>5, <3>1, <4>1 DEF Confirmations
      <4> QED
        BY <1>1, <1>2, <2>3, <4>2 DEF InStep, Tells
    <3> QED
      BY <3>2, <3>3
  <2>6. \A i \in 1 .. Len(confirms') : Tells(confirms'[i], waiting', accepted')
    BY <1>1, <1>2, <2>3 DEF InStep, Tells
  <2> QED
    BY <2>4, <2>5, <2>6 DEF InStep
<1>11. AbandonedIsLast' /\ Truthful'
  BY <1>1, <1>2 DEF AbandonedIsLast, Truthful
<1> QED
  BY <1>6, <1>9, <1>10, <1>11 DEF IInv

\* A delivery comes in beside the confirmations.
LEMMA BrokerDeliverKeeps ==
    ASSUME IInv, BrokerDeliver
    PROVE  IInv'
<1>1. TypeOK /\ BooksAreKept /\ InStep /\ AbandonedIsLast /\ Truthful
  BY DEF IInv
<1>2. /\ open /\ undelivered' \in 0 .. MaxDeliveries
      /\ UNCHANGED <<outbound, confirms, waiting, buffer, open, ctx, accepted,
                     published, republished, abandoned>>
  BY <1>1, ConfirmsAssumption DEF BrokerDeliver, TypeOK
<1>3. Delivery \in Frame /\ Delivery.kind = "delivery"
  BY DEF Frame, Delivery
<1>4. /\ inbound' \in Seq(Frame) /\ Len(inbound') = Len(inbound) + 1
      /\ \A i \in 1 .. Len(inbound) : inbound'[i] = inbound[i]
      /\ inbound'[Len(inbound) + 1] = Delivery
  BY <1>1, <1>3, Shapes, AppendProperties DEF BrokerDeliver
<1>5. TypeOK'
  BY <1>1, <1>2, <1>4 DEF TypeOK, Frame
<1>6. Cardinality(Confirmations(inbound')) = Cardinality(Confirmations(inbound))
  <2>1. inbound' = Append(inbound, Delivery)
    BY DEF BrokerDeliver
  <2>2. Cardinality(Confirmations(Append(inbound, Delivery)))
          = Cardinality(Confirmations(inbound))
              + (IF Delivery.kind = "confirmation" THEN 1 ELSE 0)
    BY <1>1, <1>3, Shapes, CountAppend
  <2>3. Delivery.kind # "confirmation" /\ Cardinality(Confirmations(inbound)) \in Nat
    BY <1>1, <1>3, Counts
  <2> QED
    BY <2>1, <2>2, <2>3
<1>7. Outstanding' = Outstanding /\ Due' = Due
  <2>1. Outstanding' = Len(outbound) + Cardinality(Confirmations(inbound'))
                         + Len(confirms)
    BY <1>2 DEF Outstanding
  <2>2. Outstanding' = Outstanding
    BY <1>6, <2>1 DEF Outstanding
  <2>3. Due' = Due
    BY <1>2 DEF Due, Unawaited
  <2> QED
    BY <2>2, <2>3
<1>8. BooksAreKept'
  BY <1>1, <1>2, <1>7 DEF BooksAreKept
<1>9. ASSUME NEW i \in Confirmations(inbound')
      PROVE  i \in Confirmations(inbound) /\ inbound'[i] = inbound[i]
  <2>1. i \in 1 .. Len(inbound) + 1 /\ inbound'[i].kind = "confirmation"
    BY <1>4 DEF Confirmations
  <2>2. i # Len(inbound) + 1
    BY <1>3, <1>4, <2>1
  <2>3. i \in 1 .. Len(inbound)
    BY <1>1, <2>1, <2>2, Shapes
  <2> QED
    BY <1>4, <2>1, <2>3 DEF Confirmations
<1>10. InStep'
  BY <1>1, <1>2, <1>9 DEF InStep, Tells, Unawaited
<1>11. AbandonedIsLast' /\ Truthful'
  BY <1>1, <1>2 DEF AbandonedIsLast, Truthful
<1> QED
  BY <1>5, <1>8, <1>10, <1>11 DEF IInv

\* The reader moves a confirmation on, or hands out a delivery.
LEMMA ReadFrameKeeps ==
    ASSUME IInv, ReadFrame
    PROVE  IInv'
<1>1. TypeOK /\ BooksAreKept /\ InStep /\ AbandonedIsLast /\ Truthful
  BY DEF IInv
<1>2. /\ inbound # <<>> /\ inbound' = Tail(inbound)
      /\ UNCHANGED <<outbound, waiting, open, undelivered, ctx, accepted, published,
                     republished, abandoned>>
  BY DEF ReadFrame
<1>3. /\ inbound' \in Seq(Frame) /\ Len(inbound') = Len(inbound) - 1
      /\ \A i \in 1 .. Len(inbound') : inbound'[i] = inbound[i + 1]
      /\ Head(inbound) = inbound[1] /\ 1 \in 1 .. Len(inbound)
      /\ Head(inbound) \in Frame
  BY <1>1, <1>2, Shapes, HeadTailProperties, EmptySeq
<1>4. Cardinality(Confirmations(inbound'))
        = Cardinality(Confirmations(inbound))
            - (IF Head(inbound).kind = "confirmation" THEN 1 ELSE 0)
  BY <1>1, <1>2, Shapes, CountTail
<1>5. open
  BY <1>1, <1>2 DEF BooksAreKept, TypeOK
<1>6. ASSUME NEW i \in Confirmations(inbound')
      PROVE  i + 1 \in Confirmations(inbound) /\ inbound'[i] = inbound[i + 1]
  <2>1. i \in 1 .. Len(inbound) - 1 /\ inbound'[i].kind = "confirmation"
    BY <1>3 DEF Confirmations
  <2>2. inbound'[i] = inbound[i + 1] /\ i + 1 \in 1 .. Len(inbound)
    BY <1>1, <1>3, <2>1, Shapes
  <2> QED
    BY <2>1, <2>2 DEF Confirmations
<1>9. AbandonedIsLast' /\ Truthful'
  BY <1>1, <1>2 DEF AbandonedIsLast, Truthful
<1>7. CASE Head(inbound).kind = "delivery"
  <2>1. buffer' = buffer + 1 /\ confirms' = confirms
    BY <1>7 DEF ReadFrame
  <2>2. TypeOK'
    BY <1>1, <1>2, <1>3, <2>1 DEF TypeOK, Frame
  <2>3. Outstanding' = Outstanding /\ Due' = Due
    <3>1. Outstanding' = Len(outbound) + Cardinality(Confirmations(inbound'))
                           + Len(confirms)
      BY <1>2, <2>1 DEF Outstanding
    <3>2. Cardinality(Confirmations(inbound')) = Cardinality(Confirmations(inbound)) - 0
      BY <1>4, <1>7
    <3>3. Outstanding' = Outstanding
      BY <1>1, <3>1, <3>2, Counts DEF Outstanding
    <3>4. Due' = Due
      BY <1>2 DEF Due, Unawaited
    <3> QED
      BY <3>3, <3>4
  <2>4. BooksAreKept'
    BY <1>1, <1>2, <1>5, <2>3 DEF BooksAreKept
  <2>5. InStep'
    BY <1>1, <1>2, <1>6, <2>1 DEF InStep, Tells, Unawaited
  <2> QED
    BY <1>9, <2>2, <2>4, <2>5 DEF IInv
<1>8. CASE Head(inbound).kind # "delivery"
  <2>1. HasRoom /\ confirms' = Append(confirms, Head(inbound)) /\ buffer' = buffer
    BY <1>8 DEF ReadFrame
  <2>2. Head(inbound) \in Confirmation /\ Head(inbound).kind = "confirmation"
    BY <1>3, <1>8 DEF Frame, Delivery, Confirmation
  <2>3. /\ confirms' \in Seq(Confirmation) /\ Len(confirms') = Len(confirms) + 1
        /\ \A i \in 1 .. Len(confirms) : confirms'[i] = confirms[i]
        /\ confirms'[Len(confirms) + 1] = Head(inbound)
    BY <1>1, <2>1, <2>2, Shapes, AppendProperties
  <2>4. Len(confirms') <= ConfirmsCapacity
    BY <1>1, <2>1, <2>3, Shapes, ConfirmsAssumption DEF HasRoom
  <2>5. TypeOK'
    BY <1>1, <1>2, <1>3, <2>1, <2>3, <2>4 DEF TypeOK, Frame
  <2>6. Outstanding' = Outstanding /\ Due' = Due
    <3>1. Outstanding' = Len(outbound) + Cardinality(Confirmations(inbound'))
                           + Len(confirms')
      BY <1>2 DEF Outstanding
    <3>2. Cardinality(Confirmations(inbound')) = Cardinality(Confirmations(inbound)) - 1
      BY <1>4, <2>2
    <3>3. Len(confirms') = Len(confirms) + 1
      BY <2>3
    <3>4. Outstanding' = Outstanding
      BY <1>1, <3>1, <3>2, <3>3, Counts DEF Outstanding
    <3>5. Due' = Due
      BY <1>2 DEF Due, Unawaited
    <3> QED
      BY <3>4, <3>5
  <2>7. BooksAreKept'
    BY <1>1, <1>2, <1>5, <2>6 DEF BooksAreKept
  <2>8. InStep'
    <3> SUFFICES ASSUME Unawaited = 0 PROVE InStep'
      BY <1>2 DEF InStep, Unawaited
    <3>1. 1 \in Confirmations(inbound) /\ Tells(Head(inbound), waiting, accepted)
      BY <1>1, <1>3, <2>2 DEF Confirmations, InStep
    <3>2. ASSUME NEW i \in 1 .. Len(confirms')
          PROVE  Tells(confirms'[i], waiting', accepted')
      <4>1. i = Len(confirms) + 1 \/ i \in 1 .. Len(confirms)
        BY <1>1, <2>3, Shapes
      <4> QED
        BY <1>1, <1>2, <2>3, <3>1, <4>1 DEF InStep, Tells
    <3> QED
      BY <1>1, <1>2, <1>6, <3>2 DEF InStep, Tells
  <2> QED
    BY <1>9, <2>5, <2>7, <2>8 DEF IInv
<1> QED
  BY <1>7, <1>8

\* What is lost is no longer due, and what was read before may still be taken.
LEMMA LoseConnectionKeeps ==
    ASSUME IInv, LoseConnection
    PROVE  IInv'
<1>1. TypeOK /\ BooksAreKept /\ InStep /\ AbandonedIsLast /\ Truthful
  BY DEF IInv
<1>2. /\ ~ open' /\ outbound' = <<>> /\ inbound' = <<>>
      /\ UNCHANGED <<confirms, waiting, buffer, undelivered, ctx, accepted,
                     published, republished, abandoned>>
  BY DEF LoseConnection
<1>3. Len(outbound') = 0 /\ Confirmations(inbound') = {}
  BY <1>2 DEF Confirmations
<1>4. TypeOK'
  BY <1>1, <1>2, EmptySeq DEF TypeOK, LoseConnection
<1>5. Outstanding' = Len(confirms) /\ Len(confirms) <= Outstanding /\ Due' = Due
  <2>1. Outstanding' = 0 + 0 + Len(confirms)
    BY <1>2, <1>3, FS_EmptySet DEF Outstanding
  <2>2. Due' = Due
    BY <1>2 DEF Due, Unawaited
  <2> QED
    BY <1>1, <2>1, <2>2, Counts DEF Outstanding
<1>6. BooksAreKept'
  BY <1>1, <1>2, <1>5, Shapes DEF BooksAreKept
<1>7. InStep'
  BY <1>1, <1>2, <1>3 DEF InStep, Tells, Unawaited
<1>8. AbandonedIsLast' /\ Truthful'
  BY <1>1, <1>2 DEF AbandonedIsLast, Truthful
<1> QED
  BY <1>4, <1>6, <1>7, <1>8 DEF IInv

-----------------------------------------------------------------------------
\* The inductive invariant holds.
LEMMA Invariance == Spec => []IInv
<1>1. IInv /\ [Next]_vars => IInv'
  <2> SUFFICES ASSUME IInv, [Next]_vars PROVE IInv'
    OBVIOUS
  <2>1. CASE Process
    <3>1. /\ buffer' \in Nat
          /\ UNCHANGED <<outbound, inbound, confirms, waiting, open, undelivered,
                         ctx, accepted, published, republished, abandoned>>
      BY <2>1 DEF Process, IInv, TypeOK
    <3> QED
      BY <3>1 DEF IInv, TypeOK, BooksAreKept, Outstanding, Due,
         Unawaited, InStep, Tells, AbandonedIsLast, Truthful
  <2>2. CASE Cancel
    <3>1. /\ ctx' = IF waiting = Nothing THEN "cancelled" ELSE "spent"
          /\ ctx = "live"
          /\ UNCHANGED <<outbound, inbound, confirms, waiting, buffer, open,
                         undelivered, accepted, published, republished, abandoned>>
      BY <2>2 DEF Cancel
    <3> QED
      BY <3>1 DEF IInv, TypeOK, BooksAreKept, Outstanding, Due,
         Unawaited, InStep, Tells, AbandonedIsLast, Truthful
  <2>3. CASE UNCHANGED vars
    BY <2>3 DEF vars, IInv, TypeOK, BooksAreKept, Outstanding, Due,
       Unawaited, InStep, Tells, AbandonedIsLast, Truthful
  <2> QED
    BY <2>1, <2>2, <2>3, PublishSendKeeps, PublishReceiveKeeps,
       PublishReceiveClosedKeeps, PublishAbandonKeeps, RepublishKeeps,
       BrokerHandleKeeps, BrokerDeliverKeeps, ReadFrameKeeps,
       LoseConnectionKeeps DEF Next
<1> QED
  BY InitIInv, <1>1, PTL DEF Spec

\* Queues, frames and histories have their types, and b.confirms its capacity.
THEOREM TypeCorrect == Spec => []TypeOK
<1>1. IInv => TypeOK
  BY DEF IInv
<1> QED
  BY <1>1, Invariance, PTL

\* Each retry, each dead letter and the Publish abandoned at shutdown leave the
\* channel one confirmation behind for the life of the connection, and nothing
\* else does; and until the first retry or dead letter Publish returns nil for
\* accepted events only.
THEOREM BehindByEachUnawaited == Spec => []BehindByUnawaited
<1>1. IInv => BehindByUnawaited
  BY Shapes DEF IInv, BooksAreKept, Truthful, Due, BehindByUnawaited
<1> QED
  BY <1>1, Invariance, PTL
=============================================================================
