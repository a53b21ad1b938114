----------------------------- MODULE Scheduler -----------------------------
(***************************************************************************)
(* os::Scheduler (src/os/Scheduler.cpp) with many entries: a thread that   *)
(* takes requests from a queue and runs what has come due in its heap.     *)
(* (Module StateMachine has the scheduler of a process whose only entry is *)
(* its timer; cancel(), which no other part calls, is there.)              *)
(*                                                                         *)
(* Time is the clock `now'.  The thread that calls schedule() says how far *)
(* ahead; the moment is fixed when the request is taken from the queue.    *)
(***************************************************************************)
EXTENDS PriorityQueue

VARIABLES
    now,            \* the clock
    requests,       \* m_request_queue
    heap,           \* m_queue: records of to_run and when
    empty_stop,     \* m_empty_stop
    sched           \* where the scheduler's thread is

schedulerVars == <<requests, heap, empty_stop, sched>>

Continue == [typ |-> "CONTINUE"]
Exit == [typ |-> "EXIT"]
Entry(r, when) == [to_run |-> r, when |-> when]
Schedule(r, when) == [typ |-> "SCHEDULE", entry |-> Entry(r, when)]

SchedulerInit ==
    /\ requests = <<>> /\ heap = <<>>
    /\ empty_stop = FALSE /\ sched = "loop"

Request(req) == requests' = Append(requests, req)

(***************************************************************************)
(* Mistaken variants of the operations below; see module BlockingQueue.    *)
(***************************************************************************)

\* The time is kept as it was given: relative.
Handle_Relative(req) ==
    /\ heap' = IF req.typ = "SCHEDULE" THEN Push(heap, req.entry) ELSE heap
    /\ sched' = IF req.typ = "EXIT" THEN "done" ELSE "loop"

\* The test of the loop.
LoopTest ==
    /\ sched = "loop"
    /\ sched' = IF empty_stop /\ heap = <<>> /\ requests = <<>> THEN "done" ELSE "wait"
    /\ UNCHANGED <<requests, heap, empty_stop>>

\* What becomes of a request.
Handle(req) ==
    /\ heap' = IF req.typ = "SCHEDULE"
               THEN Push(heap, Entry(req.entry.to_run, now + req.entry.when)) ELSE heap
    /\ sched' = IF req.typ = "EXIT" THEN "done" ELSE "loop"

\* front(), or front_timed() within the time to the first entry; and pop().
TakeRequest ==
    /\ sched = "wait" /\ requests # <<>>
    /\ requests' = Tail(requests)
    /\ Handle(Head(requests))
    /\ UNCHANGED empty_stop

\* front_timed() has timed out: the first entry is to be run.
Due == sched = "wait" /\ heap # <<>> /\ heap[1].when <= now

\* to_run->run() has returned.
JobDone ==
    /\ heap' = Pop(heap)
    /\ sched' = "loop"
    /\ UNCHANGED <<requests, empty_stop>>

\* Has the thread something to do now?
SchedulerBusy == sched = "loop" \/ (sched = "wait" /\ requests # <<>>) \/ Due

SchedulerTypeOK ==
    /\ now \in Nat
    /\ \A i \in DOMAIN requests : requests[i].typ \in {"CONTINUE", "EXIT", "SCHEDULE"}
    /\ \A i \in DOMAIN heap : DOMAIN heap[i] = {"to_run", "when"} /\ heap[i].when \in Nat
    /\ empty_stop \in BOOLEAN
    /\ sched \in {"loop", "wait", "done", "threw"}

(***************************************************************************)
(* What the scheduler runs next is what is due first: sifting in an array  *)
(* with a stale slot behind its end, equal deadlines included, keeps the   *)
(* least entry in front.                                                   *)
(***************************************************************************)
FrontIsLeast == \A i \in DOMAIN heap : heap[1].when <= heap[i].when
=============================================================================
