--------------------------- MODULE BlockingQueue ---------------------------
(***************************************************************************)
(* containers::BlockingQueue (include/containers/BlockingQueue.hpp): the   *)
(* monitor every thread of Mercury is fed through - the commands of a      *)
(* state machine, the requests of a scheduler, the requests of AsyncCurl.  *)
(*                                                                         *)
(* A thread that reads the queue calls one of the front functions and then *)
(* pop().  push() and the front functions hold m_mutex from their first to *)
(* their last statement.  pop() does not: its ScopedLock is a temporary,   *)
(* destroyed at the end of the statement that creates it, so the element   *)
(* is removed with the mutex free.  The waits are guarded by an `if', not  *)
(* a `while': a thread that leaves the wait reads the front of the queue   *)
(* without looking at it again.                                            *)
(*                                                                         *)
(* The n-th element pushed is the number n.  Touching the front of an      *)
(* empty std::queue is undefined behaviour: the model notes it in          *)
(* `undefined' and goes no further.                                        *)
(***************************************************************************)
EXTENDS Naturals, Sequences

CONSTANTS
    Producers,  \* threads that call push
    Consumers,  \* threads that call front and pop
    MaxPush,    \* bound: how many elements are pushed in all
    Spurious    \* may pthread_cond_wait return without a signal?

Free == "free"      \* nobody holds m_mutex

ASSUME BQAssumption ==
    /\ MaxPush \in Nat
    /\ Spurious \in BOOLEAN
    /\ Producers \cap Consumers = {}
    /\ Free \notin Producers \cup Consumers

\* front() and front_ref() differ in when the caller copies the element,
\* which shows only if another consumer pops it meanwhile; both are "front".
Calls == {"front", "front_timed", "emptyFront"}

VARIABLES
    queue,      \* m_queue
    mutex,      \* the thread that holds m_mutex, or Free
    waiting,    \* consumers blocked on m_condition
    signalled,  \* consumers woken up that still need the mutex
    pc,         \* where each thread is
    call,       \* the front function each consumer is in
    got,        \* the element each consumer has read
    sent,       \* how many elements were pushed
    last,       \* the element handed over last
    undefined   \* a call has touched an empty queue

vars == <<queue, mutex, waiting, signalled, pc, call, got, sent, last, undefined>>

Init ==
    /\ queue = <<>>
    /\ mutex = Free
    /\ waiting = {} /\ signalled = {}
    /\ pc = [t \in Producers \cup Consumers |-> "idle"]
    /\ call = [c \in Consumers |-> "front"]
    /\ got = [c \in Consumers |-> 0]
    /\ sent = 0 /\ last = 0
    /\ undefined = FALSE
-----------------------------------------------------------------------------
(***************************************************************************)
(* Mistaken variants of the operations below, each a bug one could make in *)
(* this class.  No specification uses them; PROJECT.json names the property *)
(* that must fail when one takes the place of the operation it is named    *)
(* after.                                                                  *)
(***************************************************************************)

\* The first-in last-out order the comment of the class announces.
Push_LastInFirstOut(p) ==
    /\ pc[p] = "idle" /\ mutex = Free /\ sent < MaxPush
    /\ mutex' = p
    /\ sent' = sent + 1
    /\ queue' = <<sent + 1>> \o queue
    /\ pc' = [pc EXCEPT ![p] = "signal"]
    /\ UNCHANGED <<waiting, signalled, call, got, last, undefined>>

\* The size is compared with what it was before the push.
SignalIfFirst_OffByOne(p) ==
    /\ pc[p] = "signal"
    /\ IF Len(queue) = 0
       THEN \E c \in waiting : waiting' = waiting \ {c} /\ signalled' = signalled \cup {c}
       ELSE UNCHANGED <<waiting, signalled>>
    /\ mutex' = Free
    /\ pc' = [pc EXCEPT ![p] = "idle"]
    /\ UNCHANGED <<queue, call, got, sent, last, undefined>>

\* A thread that does not wait is taken for a waiter.
Signal_AnyThread ==
    \E t \in DOMAIN pc : waiting' = waiting \ {t} /\ signalled' = signalled \cup {t}

\* The result of timedwait is not looked at.
TimeOut_Unnoticed(c) ==
    /\ c \in waiting /\ call[c] = "front_timed" /\ mutex = Free
    /\ waiting' = waiting \ {c}
    /\ mutex' = c
    /\ pc' = [pc EXCEPT ![c] = "read"]
    /\ UNCHANGED <<queue, signalled, call, got, sent, last, undefined>>

\* front() is taken to remove the element: pop() is not called.
Pop_Forgotten(c) ==
    /\ pc[c] = "popping"
    /\ last' = got[c]
    /\ pc' = [pc EXCEPT ![c] = "idle"]
    /\ UNCHANGED <<queue, mutex, waiting, signalled, call, got, sent, undefined>>
-----------------------------------------------------------------------------
(* push() *)

\* Lock, and m_queue.push(val).
Push(p) ==
    /\ pc[p] = "idle" /\ mutex = Free /\ sent < MaxPush
    /\ mutex' = p
    /\ sent' = sent + 1
    /\ queue' = Append(queue, sent + 1)
    /\ pc' = [pc EXCEPT ![p] = "signal"]
    /\ UNCHANGED <<waiting, signalled, call, got, last, undefined>>

\* pthread_cond_signal wakes one waiter if there is one.
Signal ==
    IF waiting = {}
    THEN UNCHANGED <<waiting, signalled>>
    ELSE \E c \in waiting : /\ waiting' = waiting \ {c}
                            /\ signalled' = signalled \cup {c}

\* if( m_queue.size() == 1 ) signal, and unlock.
SignalIfFirst(p) ==
    /\ pc[p] = "signal"
    /\ IF Len(queue) = 1 THEN Signal ELSE UNCHANGED <<waiting, signalled>>
    /\ mutex' = Free
    /\ pc' = [pc EXCEPT ![p] = "idle"]
    /\ UNCHANGED <<queue, call, got, sent, last, undefined>>
-----------------------------------------------------------------------------
(* front(), front_ref(), front_timed(), emptyFront() *)

\* Lock, find the queue empty and block: the wait releases the mutex.
Wait(c, f) ==
    /\ pc[c] = "idle" /\ mutex = Free
    /\ queue = <<>>
    /\ waiting' = waiting \cup {c}
    /\ pc' = [pc EXCEPT ![c] = "wait"]
    /\ call' = [call EXCEPT ![c] = f]
    /\ UNCHANGED <<queue, mutex, signalled, got, sent, last, undefined>>

\* Lock and find an element.  emptyFront() returns false there: no step.
Find(c, f) ==
    /\ pc[c] = "idle" /\ mutex = Free
    /\ queue # <<>> /\ f # "emptyFront"
    /\ mutex' = c
    /\ pc' = [pc EXCEPT ![c] = "read"]
    /\ call' = [call EXCEPT ![c] = f]
    /\ UNCHANGED <<queue, waiting, signalled, got, sent, last, undefined>>

\* The wait returns, with the mutex, after a signal or spuriously.
WakeUp(c) ==
    /\ mutex = Free
    /\ c \in signalled \/ (Spurious /\ c \in waiting)
    /\ signalled' = signalled \ {c} /\ waiting' = waiting \ {c}
    /\ mutex' = c
    /\ pc' = [pc EXCEPT ![c] = "read"]
    /\ UNCHANGED <<queue, call, got, sent, last, undefined>>

\* timedwait returns ETIMEDOUT, with the mutex, whatever the queue holds by
\* then; front_timed() returns false.
TimeOut(c) ==
    /\ c \in waiting /\ call[c] = "front_timed" /\ mutex = Free
    /\ waiting' = waiting \ {c}
    /\ pc' = [pc EXCEPT ![c] = "idle"]
    /\ UNCHANGED <<queue, mutex, signalled, call, got, sent, last, undefined>>

\* m_queue.front(), and unlock.
Read(c) ==
    /\ pc[c] = "read"
    /\ mutex' = Free
    /\ IF queue = <<>>
       THEN undefined' = TRUE /\ UNCHANGED got
       ELSE got' = [got EXCEPT ![c] = Head(queue)] /\ UNCHANGED undefined
    /\ pc' = [pc EXCEPT ![c] = "pop"]
    /\ UNCHANGED <<queue, waiting, signalled, call, sent, last>>
-----------------------------------------------------------------------------
(* pop() *)

\* The temporary ScopedLock takes the mutex and gives it back.
TouchMutex(c) ==
    /\ pc[c] = "pop" /\ mutex = Free
    /\ pc' = [pc EXCEPT ![c] = "popping"]
    /\ UNCHANGED <<queue, mutex, waiting, signalled, call, got, sent, last, undefined>>

\* m_queue.pop(), whoever holds the mutex.  The consumer goes on with what
\* it read.
Pop(c) ==
    /\ pc[c] = "popping"
    /\ IF queue = <<>>
       THEN undefined' = TRUE /\ UNCHANGED queue
       ELSE queue' = Tail(queue) /\ UNCHANGED undefined
    /\ last' = got[c]
    /\ pc' = [pc EXCEPT ![c] = "idle"]
    /\ UNCHANGED <<mutex, waiting, signalled, call, got, sent>>
-----------------------------------------------------------------------------
Produce(p) == Push(p) \/ SignalIfFirst(p)

Consume(c) ==
    \/ \E f \in Calls : Wait(c, f) \/ Find(c, f)
    \/ WakeUp(c) \/ TimeOut(c) \/ Read(c) \/ TouchMutex(c) \/ Pop(c)

Next ==
    /\ ~undefined
    /\ \/ \E p \in Producers : Produce(p)
       \/ \E c \in Consumers : Consume(c)

Spec == Init /\ [][Next]_vars

(***************************************************************************)
(* Every thread that can run does run: a push under way completes, and a   *)
(* consumer keeps calling.  The consumer looks at the queue again and      *)
(* again - between two pushes the mutex is free - but a timed wait may time *)
(* out each time round, hence strong fairness for the steps that need the  *)
(* mutex.  Nothing makes anybody push.                                     *)
(***************************************************************************)
Fairness ==
    /\ \A p \in Producers : WF_vars(~undefined /\ SignalIfFirst(p))
    /\ \A c \in Consumers :
        /\ SF_vars(~undefined /\ \E f \in Calls : Find(c, f))
        /\ SF_vars(~undefined /\ WakeUp(c))
        /\ SF_vars(~undefined /\ TouchMutex(c))
        /\ WF_vars(~undefined /\ (Read(c) \/ Pop(c)))

FairSpec == Spec /\ Fairness
-----------------------------------------------------------------------------
TypeOK ==
    /\ queue \in Seq(Nat)
    /\ mutex \in Producers \cup Consumers \cup {Free}
    /\ waiting \subseteq Consumers /\ signalled \subseteq Consumers
    /\ pc \in [Producers \cup Consumers -> {"idle", "signal", "wait", "read", "pop", "popping"}]
    /\ call \in [Consumers -> Calls]
    /\ got \in [Consumers -> Nat]
    /\ sent \in Nat /\ last \in Nat
    /\ undefined \in BOOLEAN

\* A consumer between its front and the end of its pop.
Holding(c) == pc[c] \in {"pop", "popping"}

(***************************************************************************)
(* No element is handed to two consumers, and what pop() removes is what   *)
(* front() returned: front and pop are two calls, and the second one takes *)
(* no lock.                                                                *)
(***************************************************************************)
HandedOnce ==
    \A c \in Consumers : Holding(c) =>
        /\ queue # <<>> /\ got[c] = Head(queue)
        /\ \A d \in Consumers \ {c} : Holding(d) => got[d] # got[c]

(***************************************************************************)
(* push() signals only when the queue becomes non-empty, so a consumer that *)
(* sleeps while the queue holds something would sleep for ever.  That never *)
(* happens: the only such state is the one between the two statements of    *)
(* the push that will wake it.                                              *)
(***************************************************************************)
NoLostWakeup ==
    (waiting # {} /\ queue # <<>>) =>
        \E p \in Producers : pc[p] = "signal" /\ Len(queue) = 1

(***************************************************************************)
(* No call reads or pops an empty queue, although the wait is not repeated *)
(* and pop() checks nothing.                                               *)
(***************************************************************************)
NeverOnEmpty == ~undefined

(***************************************************************************)
(* Whatever is pushed is handed over in the end.                           *)
(***************************************************************************)
AllDelivered == \A n \in 1..MaxPush : (sent >= n) ~> (last >= n)

(***************************************************************************)
(* With one consumer the queue is a first-in first-out channel.            *)
(***************************************************************************)
Chan == INSTANCE Channel WITH chan <- queue, sent <- sent, last <- last
FifoChannel == Chan!Spec
=============================================================================
