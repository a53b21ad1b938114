------------------------ MODULE BlockingQueue_proofs ------------------------
(***************************************************************************)
(* With one consumer, any number of producers and pushes, and no spurious  *)
(* wake-up, the blocking queue is a first-in first-out channel, its calls  *)
(* never touch an empty queue, and no consumer sleeps beside an element.   *)
(***************************************************************************)
EXTENDS BlockingQueue, TLAPS

\* The condition under which the queue is used in Mercury.
OneConsumer == \E c : Consumers = {c}
Usage == OneConsumer /\ ~Spurious

\* Who holds the mutex is between its lock and its unlock, and nobody else is.
MutexHeld ==
    /\ \A p \in Producers : pc[p] \in {"idle", "signal"} /\ (pc[p] = "signal" <=> mutex = p)
    /\ \A c \in Consumers : pc[c] # "signal" /\ (pc[c] = "read" <=> mutex = c)

\* A consumer that is in a wait sleeps or has been signalled.
WaitSet ==
    /\ waiting \cap signalled = {}
    /\ \A c \in Consumers : pc[c] = "wait" <=> c \in waiting \cup signalled

\* What has been promised an element, by a signal or a look, will find it.
Promised ==
    \A c \in Consumers : c \in signalled \/ pc[c] = "read" => queue # <<>>

BQInv ==
    /\ TypeOK
    /\ MutexHeld
    /\ WaitSet
    /\ Promised
    /\ HandedOnce
    /\ NoLostWakeup
    /\ NeverOnEmpty

(***************************************************************************)
(* push() appends behind what a consumer has read or was promised.         *)
(***************************************************************************)
LEMMA PushInv ==
    ASSUME Usage, BQInv, NEW p \in Producers, Push(p)
    PROVE  BQInv'
<1> USE DEF BQInv
<1>1. /\ pc[p] = "idle" /\ mutex = Free /\ mutex' = p
      /\ sent \in Nat /\ sent' = sent + 1 /\ queue' = Append(queue, sent + 1)
      /\ pc' = [pc EXCEPT ![p] = "signal"]
      /\ UNCHANGED <<waiting, signalled, call, got, last, undefined>>
  BY DEF Push, TypeOK
<1>2. p # Free /\ p \notin Consumers /\ Free \notin Producers \cup Consumers
  BY BQAssumption
<1>3. /\ queue \in Seq(Nat) /\ queue' \in Seq(Nat) /\ queue' # <<>>
      /\ Len(queue') = Len(queue) + 1
      /\ queue # <<>> => Head(queue') = Head(queue)
  BY <1>1 DEF TypeOK
<1>4. /\ \A c \in Consumers : pc'[c] = pc[c]
      /\ \A q \in Producers : pc'[q] = IF q = p THEN "signal" ELSE pc[q]
  BY <1>1, <1>2 DEF TypeOK
<1>5. TypeOK'
  BY <1>1, <1>3 DEF TypeOK
<1>6. MutexHeld'
  BY <1>1, <1>2, <1>4 DEF MutexHeld
<1>7. WaitSet' /\ Promised' /\ NeverOnEmpty'
  BY <1>1, <1>3, <1>4 DEF WaitSet, Promised, NeverOnEmpty
<1>8. HandedOnce'
  BY <1>1, <1>3, <1>4 DEF HandedOnce, Holding
<1>9. NoLostWakeup'
  <2> SUFFICES ASSUME waiting # {}
               PROVE  Len(queue') = 1
    BY <1>1, <1>4 DEF NoLostWakeup
  <2>1. queue = <<>>
    BY <1>1, <1>2 DEF NoLostWakeup, MutexHeld
  <2> QED
    BY <1>3, <2>1
<1> QED
  BY <1>5, <1>6, <1>7, <1>8, <1>9

(***************************************************************************)
(* The signal of the push that made the queue non-empty reaches whoever    *)
(* waits.                                                                  *)
(***************************************************************************)
LEMMA SignalInv ==
    ASSUME Usage, BQInv, NEW p \in Producers, SignalIfFirst(p)
    PROVE  BQInv'
<1> USE DEF BQInv
<1>1. /\ pc[p] = "signal" /\ mutex = p /\ mutex' = Free
      /\ pc' = [pc EXCEPT ![p] = "idle"]
      /\ UNCHANGED <<queue, call, got, sent, last, undefined>>
  BY DEF SignalIfFirst, MutexHeld
<1>2. p # Free /\ p \notin Consumers /\ Free \notin Producers \cup Consumers
  BY BQAssumption
<1>3. /\ \A c \in Consumers : pc'[c] = pc[c]
      /\ \A q \in Producers : pc'[q] = IF q = p THEN "idle" ELSE pc[q]
  BY <1>1, <1>2 DEF TypeOK
<1>4. \/ UNCHANGED <<waiting, signalled>> /\ (Len(queue) = 1 => waiting = {})
      \/ /\ Len(queue) = 1
         /\ \E c \in waiting : waiting' = waiting \ {c} /\ signalled' = signalled \cup {c}
  BY DEF SignalIfFirst, Signal
<1>5. TypeOK'
  BY <1>1, <1>4 DEF TypeOK
<1>6. MutexHeld'
  BY <1>1, <1>2, <1>3 DEF MutexHeld
<1>7. WaitSet'
  BY <1>3, <1>4 DEF WaitSet
<1>8. Promised'
  <2>1. Len(queue) = 1 => queue # <<>>
    <3>1. Len(<<>>) = 0
      OBVIOUS
    <3> QED
      BY <3>1
  <2> QED
    BY <1>1, <1>3, <1>4, <2>1 DEF Promised
<1>9. HandedOnce' /\ NeverOnEmpty'
  BY <1>1, <1>3 DEF HandedOnce, Holding, NeverOnEmpty
<1>10. NoLostWakeup'
  <2>1. waiting' = {} \/ (waiting' = waiting /\ Len(queue) # 1)
    <3>1. CASE UNCHANGED <<waiting, signalled>> /\ (Len(queue) = 1 => waiting = {})
      BY <3>1
    <3>2. CASE \E c \in waiting : waiting' = waiting \ {c}
      <4> PICK c \in waiting : waiting' = waiting \ {c}
        BY <3>2
      <4>1. \A d \in waiting : d = c
        BY DEF Usage, OneConsumer, TypeOK
      <4> QED
        BY <4>1
    <3> QED
      BY <1>4, <3>1, <3>2
  <2> QED
    BY <1>1, <2>1 DEF NoLostWakeup
<1> QED
  BY <1>5, <1>6, <1>7, <1>8, <1>9, <1>10

(***************************************************************************)
(* The front functions.                                                    *)
(***************************************************************************)
LEMMA FrontInv ==
    ASSUME Usage, BQInv, NEW c \in Consumers,
           (\E f \in Calls : Wait(c, f) \/ Find(c, f)) \/ WakeUp(c) \/ TimeOut(c) \/ Read(c)
    PROVE  BQInv'
<1> USE DEF BQInv
<1>1. c # Free /\ c \notin Producers /\ Free \notin Producers \cup Consumers /\ Consumers = {c}
  BY BQAssumption DEF Usage, OneConsumer
<1>2. ASSUME NEW f \in Calls, Wait(c, f)
      PROVE  BQInv'
  <2>1. \A q \in Producers : pc'[q] = pc[q]
    BY <1>1, <1>2 DEF Wait, TypeOK
  <2>2. pc'[c] = "wait" /\ pc[c] = "idle" /\ TypeOK'
    BY <1>2 DEF Wait, TypeOK
  <2> QED
    BY <1>1, <1>2, <2>1, <2>2
    DEF Wait, MutexHeld, WaitSet, Promised, HandedOnce, Holding, NoLostWakeup, NeverOnEmpty
<1>3. ASSUME NEW f \in Calls, Find(c, f)
      PROVE  BQInv'
  <2>1. \A q \in Producers : pc'[q] = pc[q]
    BY <1>1, <1>3 DEF Find, TypeOK
  <2>2. pc'[c] = "read" /\ pc[c] = "idle" /\ TypeOK'
    BY <1>3 DEF Find, TypeOK
  <2> QED
    BY <1>1, <1>3, <2>1, <2>2
    DEF Find, MutexHeld, WaitSet, Promised, HandedOnce, Holding, NoLostWakeup, NeverOnEmpty
<1>4. CASE WakeUp(c)
  <2>1. \A q \in Producers : pc'[q] = pc[q]
    BY <1>1, <1>4 DEF WakeUp, TypeOK
  <2>2. pc'[c] = "read" /\ pc[c] = "wait" /\ c \in signalled /\ TypeOK'
    BY <1>4 DEF WakeUp, TypeOK, Usage, WaitSet
  <2> QED
    BY <1>1, <1>4, <2>1, <2>2
    DEF WakeUp, MutexHeld, WaitSet, Promised, HandedOnce, Holding, NoLostWakeup, NeverOnEmpty
<1>5. CASE TimeOut(c)
  <2>1. \A q \in Producers : pc'[q] = pc[q]
    BY <1>1, <1>5 DEF TimeOut, TypeOK
  <2>2. pc'[c] = "idle" /\ pc[c] = "wait" /\ TypeOK'
    BY <1>5 DEF TimeOut, TypeOK, WaitSet
  <2> QED
    BY <1>1, <1>5, <2>1, <2>2
    DEF TimeOut, MutexHeld, WaitSet, Promised, HandedOnce, Holding, NoLostWakeup, NeverOnEmpty
<1>6. CASE Read(c)
  <2>1. \A q \in Producers : pc'[q] = pc[q]
    BY <1>1, <1>6 DEF Read, TypeOK
  <2>2. /\ pc'[c] = "pop" /\ pc[c] = "read" /\ queue # <<>> /\ ~undefined'
        /\ got'[c] = Head(queue) /\ TypeOK'
    BY <1>6 DEF Read, TypeOK, Promised, NeverOnEmpty
  <2> QED
    BY <1>1, <1>6, <2>1, <2>2
    DEF Read, MutexHeld, WaitSet, Promised, HandedOnce, Holding, NoLostWakeup, NeverOnEmpty
<1> QED
  BY <1>2, <1>3, <1>4, <1>5, <1>6

(***************************************************************************)
(* pop(), with the mutex free or not.                                      *)
(***************************************************************************)
LEMMA PopInv ==
    ASSUME Usage, BQInv, NEW c \in Consumers, TouchMutex(c) \/ Pop(c)
    PROVE  BQInv'
<1> USE DEF BQInv
<1>1. c # Free /\ c \notin Producers /\ Free \notin Producers \cup Consumers /\ Consumers = {c}
  BY BQAssumption DEF Usage, OneConsumer
<1>2. CASE TouchMutex(c)
  <2>1. \A q \in Producers : pc'[q] = pc[q]
    BY <1>1, <1>2 DEF TouchMutex, TypeOK
  <2>2. pc'[c] = "popping" /\ pc[c] = "pop" /\ TypeOK'
    BY <1>2 DEF TouchMutex, TypeOK
  <2> QED
    BY <1>1, <1>2, <2>1, <2>2
    DEF TouchMutex, MutexHeld, WaitSet, Promised, HandedOnce, Holding, NoLostWakeup, NeverOnEmpty
<1>3. CASE Pop(c)
  <2>1. \A q \in Producers : pc'[q] = pc[q]
    BY <1>1, <1>3 DEF Pop, TypeOK
  <2>2. pc'[c] = "idle" /\ pc[c] = "popping" /\ queue # <<>> /\ ~undefined'
    BY <1>3 DEF Pop, TypeOK, HandedOnce, Holding, NeverOnEmpty
  <2>3. waiting = {} /\ signalled = {}
    <3>1. \A d \in Consumers : d \notin waiting /\ d \notin signalled
      BY <1>1, <2>2 DEF WaitSet
    <3> QED
      BY <3>1 DEF TypeOK
  <2>4. queue' = Tail(queue) /\ queue' \in Seq(Nat) /\ TypeOK'
    <3>1. queue' = Tail(queue) /\ undefined' = undefined
      BY <1>3, <2>2 DEF Pop
    <3>2. Tail(queue) \in Seq(Nat)
      BY <2>2 DEF TypeOK
    <3> QED
      BY <1>3, <3>1, <3>2 DEF Pop, TypeOK
  <2> QED
    BY <1>1, <1>3, <2>1, <2>2, <2>3, <2>4
    DEF Pop, MutexHeld, WaitSet, Promised, HandedOnce, Holding, NoLostWakeup, NeverOnEmpty
<1> QED
  BY <1>2, <1>3

(***************************************************************************)
(* The strengthening is inductive.                                         *)
(***************************************************************************)
THEOREM BQInductive ==
    ASSUME Usage
    PROVE  Spec => []BQInv
<1>1. Init => BQInv
  <2> SUFFICES ASSUME Init
               PROVE  BQInv
    OBVIOUS
  <2>1. queue \in Seq(Nat) /\ \A t \in Producers \cup Consumers : pc[t] = "idle"
    BY DEF Init
  <2>2. TypeOK
    BY <2>1 DEF Init, TypeOK, Calls
  <2> QED
    BY <2>1, <2>2, BQAssumption
    DEF Init, BQInv, MutexHeld, WaitSet, Promised, HandedOnce, Holding, NoLostWakeup,
        NeverOnEmpty
<1>2. BQInv /\ [Next]_vars => BQInv'
  <2> SUFFICES ASSUME BQInv, [Next]_vars
               PROVE  BQInv'
    OBVIOUS
  <2>1. CASE \E p \in Producers : Produce(p)
    BY <2>1, PushInv, SignalInv DEF Produce
  <2>2. CASE \E c \in Consumers : Consume(c)
    BY <2>2, FrontInv, PopInv DEF Consume
  <2>3. CASE UNCHANGED vars
    BY <2>3
    DEF vars, BQInv, TypeOK, MutexHeld, WaitSet, Promised, HandedOnce, Holding, NoLostWakeup,
        NeverOnEmpty
  <2> QED
    BY <2>1, <2>2, <2>3 DEF Next
<1> QED
  BY <1>1, <1>2, PTL DEF Spec

(***************************************************************************)
(* Each call takes the queue as the call before it left it: what pop()     *)
(* removes is what front() returned.                                       *)
(***************************************************************************)
THEOREM BQHandedOnce ==
    ASSUME Usage
    PROVE  Spec => []HandedOnce
<1>1. BQInv => HandedOnce
  BY DEF BQInv
<1> QED
  BY <1>1, BQInductive, PTL

(***************************************************************************)
(* Signalling only when the size is one is enough for one consumer.        *)
(***************************************************************************)
THEOREM BQNoLostWakeup ==
    ASSUME Usage
    PROVE  Spec => []NoLostWakeup
<1>1. BQInv => NoLostWakeup
  BY DEF BQInv
<1> QED
  BY <1>1, BQInductive, PTL

(***************************************************************************)
(* No undefined behaviour: front() and pop() find an element.              *)
(***************************************************************************)
THEOREM BQNeverOnEmpty ==
    ASSUME Usage
    PROVE  Spec => []NeverOnEmpty
<1>1. BQInv => NeverOnEmpty
  BY DEF BQInv
<1> QED
  BY <1>1, BQInductive, PTL

(***************************************************************************)
(* The variables keep their types, with as many producers and elements as  *)
(* there may be.                                                           *)
(***************************************************************************)
THEOREM BQTypeCorrect ==
    ASSUME Usage
    PROVE  Spec => []TypeOK
<1>1. BQInv => TypeOK
  BY DEF BQInv
<1> QED
  BY <1>1, BQInductive, PTL

(***************************************************************************)
(* BlockingQueue implements Channel: a push is a Send, a pop is a Deliver, *)
(* and every other step of the monitor stutters.                           *)
(***************************************************************************)
THEOREM BQImplementsChannel ==
    ASSUME Usage
    PROVE  Spec => FifoChannel
<1>1. Init => Chan!Init
  BY DEF Init, Chan!Init
<1>2. BQInv /\ BQInv' /\ [Next]_vars => [Chan!Next]_(Chan!chanVars)
  <2> SUFFICES ASSUME BQInv, [Next]_vars
               PROVE  [Chan!Next]_(Chan!chanVars)
    OBVIOUS
  <2> USE DEF Chan!Next, Chan!chanVars
  <2>1. ASSUME NEW p \in Producers, Push(p)
        PROVE  Chan!Send
    BY <2>1 DEF Push, Chan!Send
  <2>2. ASSUME NEW p \in Producers, SignalIfFirst(p)
        PROVE  UNCHANGED Chan!chanVars
    BY <2>2 DEF SignalIfFirst
  <2>3. ASSUME NEW c \in Consumers,
               \/ \E f \in Calls : Wait(c, f) \/ Find(c, f)
               \/ WakeUp(c) \/ TimeOut(c) \/ Read(c) \/ TouchMutex(c)
        PROVE  UNCHANGED Chan!chanVars
    BY <2>3 DEF Wait, Find, WakeUp, TimeOut, Read, TouchMutex
  <2>4. ASSUME NEW c \in Consumers, Pop(c)
        PROVE  Chan!Deliver
    BY <2>4 DEF Pop, Chan!Deliver, BQInv, HandedOnce, Holding
  <2>5. CASE UNCHANGED vars
    BY <2>5 DEF vars
  <2> QED
    BY <2>1, <2>2, <2>3, <2>4, <2>5 DEF Next, Produce, Consume
<1> QED
  BY <1>1, <1>2, BQInductive, PTL DEF Spec, FifoChannel, Chan!Spec
=============================================================================
