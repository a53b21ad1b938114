---------------------------- MODULE StateMachine ----------------------------
(***************************************************************************)
(* StateMachine<Stim, Internal, State> (include/proc/StateMachine.hpp)     *)
(* with the os::Scheduler that holds its only timer (src/os/Scheduler.cpp). *)
(*                                                                         *)
(* Two threads.  The state machine's thread takes commands from a queue,   *)
(* looks the stimulus up in the table of edges and calls the function of   *)
(* the edge, which may arm the timer.  The scheduler's thread takes        *)
(* requests from a queue of its own and, when an entry of its heap is due, *)
(* runs TimeoutSend::run, which sends the stimulus the timer holds.  Both  *)
(* threads write m_timer and no lock protects it, so the statements of one *)
(* interleave with those of the other.                                     *)
(*                                                                         *)
(* The two queues are BlockingQueues with one consumer each: what they do  *)
(* is what module Channel says.  Time is abstracted: an entry of the heap  *)
(* is due at any moment after it was pushed.  m_timer is the only Runnable *)
(* scheduled here, so the heap is the number of its entries.               *)
(***************************************************************************)
EXTENDS Naturals, Sequences

CONSTANTS
    State,      \* State_T
    Stim,       \* Stim_T
    Effect,     \* what the function of an edge does besides arming the timer
    Initial,    \* the state the constructor is given
    Edges       \* the table setEdge fills in, with what each function may do

NoStim == "NoStim"
Exit == "Exit"      \* the command of stop(), not a stimulus

(***************************************************************************)
(* An edge: in state `from' the stimulus `on' calls a function that has    *)
(* the effect `does', then calls setTimeoutStim with `arm' unless that is  *)
(* NoStim, and returns the state `to'.  Two edges with the same state and  *)
(* stimulus are two ways the one function can go.                          *)
(***************************************************************************)
ASSUME SMAssumption ==
    /\ NoStim \notin Stim /\ Exit \notin Stim
    /\ Initial \in State
    /\ Edges \subseteq [from : State, on : Stim, does : Effect,
                        arm : Stim \cup {NoStim}, to : State]

VARIABLES
    commands,   \* m_command_queue
    current,    \* m_current_state
    phase,      \* where the state machine's thread is
    stim,       \* the stimulus process_stim was called with
    edge,       \* the edge whose timer is being armed
    to_send,    \* m_timer.to_send
    engaged,    \* m_timer.engaged
    requests,   \* Scheduler::m_request_queue
    scheduled,  \* Scheduler::m_queue: how many entries it has
    sched       \* where the scheduler's thread is

machineVars == <<commands, current, phase, stim, edge>>
timerVars == <<to_send, engaged>>
schedulerVars == <<requests, scheduled, sched>>
smVars == <<machineVars, timerVars, schedulerVars>>

NoEdge == [from |-> Initial, on |-> NoStim, does |-> "none", arm |-> NoStim, to |-> Initial]

SMInit(first) ==
    /\ commands = first
    /\ current = Initial
    /\ phase = "wait" /\ stim = NoStim /\ edge = NoEdge
    /\ to_send = NoStim /\ engaged = FALSE
    /\ requests = <<>> /\ scheduled = 0 /\ sched = "look"

\* sendStimulus and stop, called by any thread.
SendCommand(c) == commands' = Append(commands, c)
-----------------------------------------------------------------------------
(***************************************************************************)
(* Mistaken variants of the operations below; see module BlockingQueue.    *)
(***************************************************************************)

\* schedule_timeout relies on the clearTimeout before it.
CallAndCancel_NoCancel(e) ==
    /\ phase = "call" /\ e \in Edges /\ e.from = current /\ e.on = stim /\ e.arm # NoStim
    /\ phase' = "store" /\ edge' = e
    /\ UNCHANGED <<current, stim, timerVars, schedulerVars>>

\* The cancellation comes last.
Schedule_ThenCancel ==
    /\ phase = "schedule"
    /\ requests' = requests \o <<"schedule", "cancel">>
    /\ current' = edge.to
    /\ phase' = "wait" /\ stim' = NoStim /\ edge' = NoEdge
    /\ UNCHANGED <<commands, timerVars, scheduled, sched>>
-----------------------------------------------------------------------------
(* The state machine's thread *)

Candidates(s, on) == {e \in Edges : e.from = s /\ e.on = on}

\* run(): front, pop, and the lookup of process_stim.  A stimulus without
\* an edge is dropped and the timer stays as it is.
TakeStim ==
    /\ phase = "wait" /\ commands # <<>> /\ Head(commands) # Exit
    /\ commands' = Tail(commands)
    /\ IF Candidates(current, Head(commands)) = {}
       THEN UNCHANGED <<phase, stim>>
       ELSE phase' = "clear" /\ stim' = Head(commands)
    /\ UNCHANGED <<current, edge, timerVars, schedulerVars>>

TakeExit ==
    /\ phase = "wait" /\ commands # <<>> /\ Head(commands) = Exit
    /\ commands' = Tail(commands)
    /\ phase' = "done"
    /\ UNCHANGED <<current, stim, edge, timerVars, schedulerVars>>

\* clearTimeout(): only an engaged timer is cancelled.
ClearTimeout ==
    /\ phase = "clear"
    /\ requests' = IF engaged THEN Append(requests, "cancel") ELSE requests
    /\ phase' = "call"
    /\ UNCHANGED <<commands, current, stim, edge, timerVars, scheduled, sched>>

Chosen(e) == phase = "call" /\ e \in Candidates(current, stim)

\* The function of the edge, when it does not touch the timer, and
\* transitionState.
Call(e) ==
    /\ Chosen(e) /\ e.arm = NoStim
    /\ current' = e.to
    /\ phase' = "wait" /\ stim' = NoStim
    /\ UNCHANGED <<edge, timerVars, schedulerVars>>

\* The function up to the first statement of schedule_timeout, which cancels
\* whether the timer is engaged or not.
CallAndCancel(e) ==
    /\ Chosen(e) /\ e.arm # NoStim
    /\ requests' = Append(requests, "cancel")
    /\ phase' = "store" /\ edge' = e
    /\ UNCHANGED <<current, stim, timerVars, scheduled, sched>>

\* m_timer.to_send = to_send
StoreStim ==
    /\ phase = "store"
    /\ to_send' = edge.arm
    /\ phase' = "engage"
    /\ UNCHANGED <<commands, current, stim, edge, engaged, schedulerVars>>

\* m_timer.engaged = true
Engage ==
    /\ phase = "engage"
    /\ engaged' = TRUE
    /\ phase' = "schedule"
    /\ UNCHANGED <<commands, current, stim, edge, to_send, schedulerVars>>

\* m_scheduler.schedule(&m_timer, timeout), and transitionState.
Schedule ==
    /\ phase = "schedule"
    /\ requests' = Append(requests, "schedule")
    /\ current' = edge.to
    /\ phase' = "wait" /\ stim' = NoStim /\ edge' = NoEdge
    /\ UNCHANGED <<commands, timerVars, scheduled, sched>>

\* m_scheduler.stop(), from within the function of an edge.
StopScheduler ==
    /\ phase = "call"
    /\ requests' = Append(requests, "exit")
    /\ UNCHANGED <<machineVars, timerVars, scheduled, sched>>
-----------------------------------------------------------------------------
(* The scheduler's thread *)

\* front_timed finds the request queue empty and waits for the entry.
SchedulerWait ==
    /\ sched = "look" /\ requests = <<>> /\ scheduled > 0
    /\ sched' = "waiting"
    /\ UNCHANGED <<machineVars, timerVars, requests, scheduled>>

\* A request is there, before the wait or during it.
SchedulerRequest ==
    /\ sched \in {"look", "waiting"} /\ requests # <<>>
    /\ requests' = Tail(requests)
    /\ sched' = IF Head(requests) = "exit" THEN "done" ELSE "look"
    /\ scheduled' = CASE Head(requests) = "schedule" -> scheduled + 1
                      [] Head(requests) = "cancel" /\ scheduled > 0 -> scheduled - 1
                      [] OTHER -> scheduled
    /\ UNCHANGED <<machineVars, timerVars>>

\* The wait times out.  A request that arrives between the time-out and the
\* return of timedwait stays in the queue: front_timed returns false.
SchedulerTimeout ==
    /\ sched = "waiting"
    /\ sched' = "fire"
    /\ UNCHANGED <<machineVars, timerVars, requests, scheduled>>

\* TimeoutSend::run: engaged = false ...
Disengage ==
    /\ sched = "fire"
    /\ engaged' = FALSE
    /\ sched' = "send"
    /\ UNCHANGED <<machineVars, to_send, requests, scheduled>>

\* ... sendStimulus(to_send), and back in the scheduler m_queue.pop().
SendTimeout ==
    /\ sched = "send"
    /\ SendCommand(to_send)
    /\ scheduled' = scheduled - 1
    /\ sched' = "look"
    /\ UNCHANGED <<current, phase, stim, edge, timerVars, requests>>
-----------------------------------------------------------------------------
Scheduler ==
    \/ SchedulerWait \/ SchedulerRequest \/ SchedulerTimeout
    \/ Disengage \/ SendTimeout

Machine ==
    \/ TakeStim \/ TakeExit \/ ClearTimeout \/ StoreStim \/ Engage \/ Schedule
    \/ StopScheduler
    \/ \E e \in Edges : (Call(e) \/ CallAndCancel(e)) /\ UNCHANGED commands

\* Other threads send what they like.
Environment ==
    /\ \E c \in Stim \cup {Exit} : SendCommand(c)
    /\ UNCHANGED <<current, phase, stim, edge, timerVars, schedulerVars>>

SMNext == Scheduler \/ Machine \/ Environment

SMSpec == SMInit(<<>>) /\ [][SMNext]_smVars
-----------------------------------------------------------------------------
SMTypeOK ==
    /\ commands \in Seq(Stim \cup {Exit})
    /\ current \in State
    /\ phase \in {"wait", "clear", "call", "store", "engage", "schedule", "done"}
    /\ stim \in Stim \cup {NoStim}
    /\ edge \in Edges \cup {NoEdge}
    /\ phase \in {"store", "engage", "schedule"} => edge \in Edges /\ edge.arm \in Stim
    /\ to_send \in Stim \cup {NoStim}
    /\ engaged \in BOOLEAN
    /\ requests \in Seq({"cancel", "schedule", "exit"})
    /\ scheduled \in Nat
    /\ sched \in {"look", "waiting", "fire", "send", "done"}

(***************************************************************************)
(* The scheduler never holds two entries of the timer.  clearTimeout skips *)
(* the cancellation when a late TimeoutSend::run has just reset `engaged'  *)
(* behind the back of the thread that had set it; only the unconditional   *)
(* cancellation of schedule_timeout then keeps the entry of the previous   *)
(* state from firing next to the new one.                                  *)
(***************************************************************************)
AtMostOneTimer == scheduled <= 1
=============================================================================
