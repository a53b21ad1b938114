------------------------ MODULE StateMachine_proofs ------------------------
(***************************************************************************)
(* For every table of edges, and whatever other threads send, a state      *)
(* machine and its scheduler never hold two entries of the one timer.      *)
(***************************************************************************)
EXTENDS StateMachine, TLAPS

(***************************************************************************)
(* The request to schedule an entry follows one to cancel directly, as     *)
(* long as both are in the queue; when the cancellation has been taken the *)
(* heap is empty.                                                          *)
(***************************************************************************)
ScheduleFollowsCancel ==
    \A i \in 1..Len(requests) : requests[i] = "schedule" =>
        IF i = 1 THEN scheduled = 0 ELSE requests[i - 1] = "cancel"

\* The same while schedule_timeout is between its two requests.
BetweenCancelAndSchedule ==
    phase \in {"store", "engage", "schedule"} =>
        IF requests = <<>> THEN scheduled = 0 ELSE requests[Len(requests)] = "cancel"

\* The scheduler waits for an entry, or runs it, only while it is there.
FiresWhatIsScheduled == sched \in {"waiting", "fire", "send"} => scheduled > 0

\* The timer has a stimulus from the first request to schedule it on.
ArmedHasStim ==
    to_send \in Stim \/ /\ scheduled = 0
                        /\ \A i \in 1..Len(requests) : requests[i] # "schedule"
                        /\ phase \notin {"engage", "schedule"}

SMInv ==
    /\ SMTypeOK
    /\ AtMostOneTimer
    /\ ScheduleFollowsCancel
    /\ BetweenCancelAndSchedule
    /\ FiresWhatIsScheduled
    /\ ArmedHasStim

(***************************************************************************)
(* The invariant holds when the machine has been constructed, whatever     *)
(* commands wait for it.                                                   *)
(***************************************************************************)
LEMMA SMInitInv ==
    ASSUME NEW first \in Seq(Stim \cup {Exit}), SMInit(first)
    PROVE  SMInv
<1>1. SMTypeOK
  <2>1. requests \in Seq({"cancel", "schedule", "exit"})
    BY DEF SMInit
  <2> QED
    BY <2>1, SMAssumption DEF SMInit, SMTypeOK
<1>2. \A i \in 1..Len(requests) : FALSE
  BY DEF SMInit
<1> QED
  BY <1>1, <1>2
  DEF SMInit, SMInv, AtMostOneTimer, ScheduleFollowsCancel,
      BetweenCancelAndSchedule, FiresWhatIsScheduled, ArmedHasStim

(***************************************************************************)
(* Sending a command, by any thread, touches nothing else.                 *)
(***************************************************************************)
LEMMA SendCommandInv ==
    ASSUME SMInv, NEW c \in Stim \cup {Exit}, SendCommand(c),
           UNCHANGED <<current, phase, stim, edge, timerVars, schedulerVars>>
    PROVE  SMInv'
BY DEF SMInv, SMTypeOK, AtMostOneTimer, ScheduleFollowsCancel, BetweenCancelAndSchedule,
       FiresWhatIsScheduled, ArmedHasStim, SendCommand, timerVars, schedulerVars

(***************************************************************************)
(* A request appended by the thread of the machine keeps the order of the  *)
(* requests when it is not one to schedule.                                *)
(***************************************************************************)
LEMMA AppendOther ==
    ASSUME SMInv, NEW r \in {"cancel", "exit"}, requests' = Append(requests, r),
           UNCHANGED <<scheduled, to_send, sched>>
    PROVE  /\ requests' \in Seq({"cancel", "schedule", "exit"})
           /\ requests' # <<>> /\ requests'[Len(requests')] = r
           /\ ScheduleFollowsCancel'
           /\ \A i \in 1..Len(requests) : requests'[i] = requests[i]
           /\ (\A i \in 1..Len(requests) : requests[i] # "schedule")
                => \A i \in 1..Len(requests') : requests'[i] # "schedule"
<1>1. requests \in Seq({"cancel", "schedule", "exit"})
  BY DEF SMInv, SMTypeOK
<1>2. /\ requests' \in Seq({"cancel", "schedule", "exit"})
      /\ Len(requests') = Len(requests) + 1
      /\ requests'[Len(requests')] = r
      /\ \A i \in 1..Len(requests) : requests'[i] = requests[i]
  BY <1>1
<1>3. ScheduleFollowsCancel'
  <2> SUFFICES ASSUME NEW i \in 1..Len(requests'), requests'[i] = "schedule"
               PROVE  IF i = 1 THEN scheduled' = 0 ELSE requests'[i - 1] = "cancel"
    BY DEF ScheduleFollowsCancel
  <2>1. i \in 1..Len(requests) /\ requests[i] = "schedule"
    BY <1>1, <1>2
  <2>2. i # 1 => requests'[i - 1] = requests[i - 1]
    BY <1>1, <1>2, <2>1
  <2> QED
    BY <2>1, <2>2 DEF SMInv, ScheduleFollowsCancel
<1> QED
  BY <1>1, <1>2, <1>3

(***************************************************************************)
(* A request taken by the scheduler's thread.                              *)
(***************************************************************************)
LEMMA SchedulerRequestInv ==
    ASSUME SMInv, SchedulerRequest
    PROVE  SMInv'
<1> DEFINE r == Head(requests)
<1>1. /\ requests \in Seq({"cancel", "schedule", "exit"}) /\ requests # <<>>
      /\ r \in {"cancel", "schedule", "exit"} /\ r = requests[1]
      /\ requests' \in Seq({"cancel", "schedule", "exit"})
      /\ Len(requests) \in Nat \ {0}
      /\ Len(requests') = Len(requests) - 1
      /\ \A i \in 1..Len(requests') : requests'[i] = requests[i + 1]
  BY DEF SMInv, SMTypeOK, SchedulerRequest
<1>2. scheduled \in {0, 1}
  BY DEF SMInv, SMTypeOK, AtMostOneTimer
<1>3. /\ scheduled' = IF r = "schedule" THEN 1 ELSE IF r = "cancel" THEN 0 ELSE scheduled
      /\ sched' \in {"done", "look"}
  <2>1. r = "schedule" => scheduled = 0
    BY <1>1 DEF SMInv, ScheduleFollowsCancel
  <2> QED
    BY <1>1, <1>2, <2>1 DEF SchedulerRequest
<1>4. SMTypeOK'
  BY <1>1, <1>2, <1>3 DEF SMInv, SMTypeOK, SchedulerRequest, machineVars, timerVars
<1>5. ScheduleFollowsCancel'
  <2> SUFFICES ASSUME NEW i \in 1..Len(requests'), requests'[i] = "schedule"
               PROVE  IF i = 1 THEN scheduled' = 0 ELSE requests'[i - 1] = "cancel"
    BY DEF ScheduleFollowsCancel
  <2>1. /\ i + 1 \in 1..Len(requests) /\ i + 1 # 1 /\ (i + 1) - 1 = i
        /\ requests[i + 1] = "schedule"
    BY <1>1
  <2>2. requests[i] = "cancel"
    BY <2>1 DEF SMInv, ScheduleFollowsCancel
  <2>3. CASE i = 1
    BY <1>1, <1>3, <2>2, <2>3
  <2>4. CASE i # 1
    <3>1. i - 1 \in 1..Len(requests') /\ (i - 1) + 1 = i
      BY <1>1, <2>4
    <3> QED
      BY <1>1, <2>2, <2>4, <3>1
  <2> QED
    BY <2>3, <2>4
<1>6. BetweenCancelAndSchedule'
  <2> SUFFICES ASSUME phase \in {"store", "engage", "schedule"}
               PROVE  IF requests' = <<>> THEN scheduled' = 0
                      ELSE requests'[Len(requests')] = "cancel"
    BY DEF BetweenCancelAndSchedule, SchedulerRequest, machineVars
  <2>1. requests[Len(requests)] = "cancel"
    BY <1>1 DEF SMInv, BetweenCancelAndSchedule
  <2>2. CASE requests' = <<>>
    <3>1. Len(requests) = 1
      BY <1>1, <2>2
    <3>2. r = "cancel"
      BY <1>1, <2>1, <3>1
    <3>3. scheduled' = 0
      BY <1>3, <3>2
    <3> QED
      BY <2>2, <3>3
  <2>3. CASE requests' # <<>>
    <3>1. Len(requests') \in 1..Len(requests') /\ Len(requests') + 1 = Len(requests)
      BY <1>1, <2>3
    <3> QED
      BY <1>1, <2>1, <2>3, <3>1
  <2> QED
    BY <2>2, <2>3
<1>7. ArmedHasStim'
  <2>1. CASE to_send \in Stim
    BY <2>1 DEF ArmedHasStim, SchedulerRequest, timerVars
  <2>2. CASE to_send \notin Stim
    <3>1. /\ scheduled = 0 /\ phase \notin {"engage", "schedule"}
          /\ \A i \in 1..Len(requests) : requests[i] # "schedule"
      BY <2>2 DEF SMInv, ArmedHasStim
    <3>2. scheduled' = 0 /\ \A i \in 1..Len(requests') : requests'[i] # "schedule"
      BY <1>1, <1>3, <3>1
    <3> QED
      BY <3>1, <3>2 DEF ArmedHasStim, SchedulerRequest, machineVars
  <2> QED
    BY <2>1, <2>2
<1> QED
  BY <1>2, <1>3, <1>4, <1>5, <1>6, <1>7 DEF SMInv, AtMostOneTimer, FiresWhatIsScheduled

(***************************************************************************)
(* Every step of the scheduler's thread.                                   *)
(***************************************************************************)
LEMMA SchedulerInv ==
    ASSUME SMInv, Scheduler
    PROVE  SMInv'
<1> USE DEF SMInv, AtMostOneTimer, machineVars, timerVars
<1>1. CASE SchedulerWait
  BY <1>1 DEF SchedulerWait, SMTypeOK, ScheduleFollowsCancel, BetweenCancelAndSchedule,
              FiresWhatIsScheduled, ArmedHasStim
<1>2. CASE SchedulerRequest
  BY <1>2, SchedulerRequestInv
<1>3. CASE SchedulerTimeout
  BY <1>3 DEF SchedulerTimeout, SMTypeOK, ScheduleFollowsCancel, BetweenCancelAndSchedule,
              FiresWhatIsScheduled, ArmedHasStim
<1>4. CASE Disengage
  BY <1>4 DEF Disengage, SMTypeOK, ScheduleFollowsCancel, BetweenCancelAndSchedule,
              FiresWhatIsScheduled, ArmedHasStim
<1>5. CASE SendTimeout
  <2>1. scheduled = 1 /\ scheduled' = 0 /\ sched' = "look"
    BY <1>5 DEF SendTimeout, SMTypeOK, FiresWhatIsScheduled
  <2>2. to_send \in Stim
    BY <2>1 DEF ArmedHasStim
  <2>3. SMTypeOK'
    BY <1>5, <2>1, <2>2 DEF SendTimeout, SendCommand, SMTypeOK
  <2> QED
    BY <1>5, <2>1, <2>2, <2>3
    DEF SendTimeout, ScheduleFollowsCancel, BetweenCancelAndSchedule,
        FiresWhatIsScheduled, ArmedHasStim
<1> QED
  BY <1>1, <1>2, <1>3, <1>4, <1>5 DEF Scheduler

(***************************************************************************)
(* Every step of the machine's own thread: those of the framework, which   *)
(* leave all but the machine as it is, ...                                 *)
(***************************************************************************)
LEMMA FrameworkInv ==
    ASSUME SMInv, TakeStim \/ TakeExit \/ ClearTimeout \/ StoreStim \/ Engage \/ Schedule
    PROVE  SMInv'
<1> USE DEF SMInv, AtMostOneTimer, timerVars, schedulerVars
<1>1. CASE TakeStim
  <2>1. /\ Head(commands) \in Stim /\ commands' \in Seq(Stim \cup {Exit})
        /\ phase' \in {phase, "clear"} /\ stim' \in {stim, Head(commands)}
        /\ phase = "wait"
    BY <1>1 DEF TakeStim, SMTypeOK
  <2> QED
    BY <1>1, <2>1
    DEF TakeStim, SMTypeOK, ScheduleFollowsCancel, BetweenCancelAndSchedule,
        FiresWhatIsScheduled, ArmedHasStim
<1>2. CASE TakeExit
  BY <1>2 DEF TakeExit, SMTypeOK, ScheduleFollowsCancel, BetweenCancelAndSchedule,
              FiresWhatIsScheduled, ArmedHasStim
<1>3. CASE ClearTimeout
  <2>1. CASE engaged
    <3>1. requests' = Append(requests, "cancel") /\ UNCHANGED <<scheduled, to_send, sched>>
      BY <1>3, <2>1 DEF ClearTimeout
    <3> QED
      BY <1>3, <3>1, AppendOther
      DEF ClearTimeout, SMTypeOK, BetweenCancelAndSchedule, FiresWhatIsScheduled, ArmedHasStim
  <2>2. CASE ~engaged
    BY <1>3, <2>2
    DEF ClearTimeout, SMTypeOK, ScheduleFollowsCancel, BetweenCancelAndSchedule,
        FiresWhatIsScheduled, ArmedHasStim
  <2> QED
    BY <2>1, <2>2
<1>4. CASE StoreStim
  BY <1>4 DEF StoreStim, SMTypeOK, ScheduleFollowsCancel, BetweenCancelAndSchedule,
              FiresWhatIsScheduled, ArmedHasStim
<1>5. CASE Engage
  BY <1>5 DEF Engage, SMTypeOK, ScheduleFollowsCancel, BetweenCancelAndSchedule,
              FiresWhatIsScheduled, ArmedHasStim
<1>6. CASE Schedule
  <2>1. /\ requests \in Seq({"cancel", "schedule", "exit"})
        /\ requests' \in Seq({"cancel", "schedule", "exit"})
        /\ Len(requests') = Len(requests) + 1
        /\ \A i \in 1..Len(requests) : requests'[i] = requests[i]
    BY <1>6 DEF Schedule, SMTypeOK
  <2>2. edge.to \in State
    BY <1>6, SMAssumption DEF Schedule, SMTypeOK
  <2>3. SMTypeOK'
    BY <1>6, <2>1, <2>2 DEF Schedule, SMTypeOK
  <2>4. ScheduleFollowsCancel'
    <3> SUFFICES ASSUME NEW i \in 1..Len(requests'), requests'[i] = "schedule"
                 PROVE  IF i = 1 THEN scheduled' = 0 ELSE requests'[i - 1] = "cancel"
      BY DEF ScheduleFollowsCancel
    <3>1. CASE i \in 1..Len(requests)
      <4>1. requests[i] = "schedule" /\ (i # 1 => requests'[i - 1] = requests[i - 1])
        BY <2>1, <3>1
      <4> QED
        BY <1>6, <3>1, <4>1 DEF Schedule, ScheduleFollowsCancel
    <3>2. CASE i \notin 1..Len(requests)
      <4>1. i = Len(requests) + 1
        BY <2>1, <3>2
      <4>2. CASE requests = <<>>
        BY <1>6, <4>1, <4>2 DEF Schedule, BetweenCancelAndSchedule
      <4>3. CASE requests # <<>>
        <5>1. /\ i # 1 /\ i - 1 = Len(requests) /\ Len(requests) \in 1..Len(requests)
          BY <2>1, <4>1, <4>3
        <5>2. requests'[i - 1] = requests[Len(requests)]
          BY <2>1, <5>1
        <5> QED
          BY <1>6, <4>3, <5>1, <5>2 DEF Schedule, BetweenCancelAndSchedule
      <4> QED
        BY <4>2, <4>3
    <3> QED
      BY <3>1, <3>2
  <2> QED
    BY <1>6, <2>3, <2>4
    DEF Schedule, BetweenCancelAndSchedule, FiresWhatIsScheduled, ArmedHasStim
<1> QED
  BY <1>1, <1>2, <1>3, <1>4, <1>5, <1>6

(***************************************************************************)
(* ... the call of an edge, ...                                            *)
(***************************************************************************)
LEMMA CallInv ==
    ASSUME SMInv, NEW e \in Edges, Call(e) \/ CallAndCancel(e), UNCHANGED commands
    PROVE  SMInv'
<1>1. e.to \in State /\ e.arm \in Stim \cup {NoStim}
  BY SMAssumption
<1>2. CASE Call(e)
  BY <1>1, <1>2
  DEF SMInv, Call, Chosen, timerVars, schedulerVars, SMTypeOK, AtMostOneTimer,
      ScheduleFollowsCancel, BetweenCancelAndSchedule, FiresWhatIsScheduled, ArmedHasStim
<1>3. CASE CallAndCancel(e)
  <2>1. requests' = Append(requests, "cancel") /\ UNCHANGED <<scheduled, to_send, sched>>
    BY <1>3 DEF CallAndCancel, timerVars
  <2>2. e.arm \in Stim
    BY <1>1, <1>3 DEF CallAndCancel
  <2> QED
    BY <1>3, <2>1, <2>2, AppendOther
    DEF SMInv, CallAndCancel, timerVars, SMTypeOK, AtMostOneTimer, BetweenCancelAndSchedule,
        FiresWhatIsScheduled, ArmedHasStim
<1> QED
  BY <1>2, <1>3

(***************************************************************************)
(* ... and the end of the scheduler.                                       *)
(***************************************************************************)
LEMMA StopSchedulerInv ==
    ASSUME SMInv, StopScheduler
    PROVE  SMInv'
<1>1. requests' = Append(requests, "exit") /\ UNCHANGED <<scheduled, to_send, sched>>
  BY DEF StopScheduler, timerVars
<1> QED
  BY <1>1, AppendOther
  DEF SMInv, StopScheduler, machineVars, timerVars, SMTypeOK, AtMostOneTimer,
      BetweenCancelAndSchedule, FiresWhatIsScheduled, ArmedHasStim

(***************************************************************************)
(* Nothing else changes the invariant.                                     *)
(***************************************************************************)
LEMMA SMStutterInv ==
    ASSUME SMInv, UNCHANGED smVars
    PROVE  SMInv'
BY DEF SMInv, smVars, machineVars, timerVars, schedulerVars, SMTypeOK, AtMostOneTimer,
       ScheduleFollowsCancel, BetweenCancelAndSchedule, FiresWhatIsScheduled, ArmedHasStim

(***************************************************************************)
(* The strengthening is inductive for a state machine and its scheduler.   *)
(***************************************************************************)
THEOREM SMInductive == SMSpec => []SMInv
<1>1. SMInit(<<>>) => SMInv
  <2>1. <<>> \in Seq(Stim \cup {Exit})
    OBVIOUS
  <2> QED
    BY <2>1, SMInitInv
<1>2. SMInv /\ [SMNext]_smVars => SMInv'
  <2> SUFFICES ASSUME SMInv, [SMNext]_smVars
               PROVE  SMInv'
    OBVIOUS
  <2>1. CASE Scheduler
    BY <2>1, SchedulerInv
  <2>2. CASE Machine
    <3>1. CASE TakeStim \/ TakeExit \/ ClearTimeout \/ StoreStim \/ Engage \/ Schedule
      BY <3>1, FrameworkInv
    <3>2. CASE StopScheduler
      BY <3>2, StopSchedulerInv
    <3>3. CASE \E e \in Edges : (Call(e) \/ CallAndCancel(e)) /\ UNCHANGED commands
      BY <3>3, CallInv
    <3> QED
      BY <2>2, <3>1, <3>2, <3>3 DEF Machine
  <2>3. CASE Environment
    BY <2>3, SendCommandInv DEF Environment
  <2>4. CASE UNCHANGED smVars
    BY <2>4, SMStutterInv
  <2> QED
    BY <2>1, <2>2, <2>3, <2>4 DEF SMNext
<1> QED
  BY <1>1, <1>2, PTL DEF SMSpec

(***************************************************************************)
(* The variables of a state machine and its scheduler keep their types.    *)
(***************************************************************************)
THEOREM SMTypeCorrect == SMSpec => []SMTypeOK
BY SMInductive, PTL DEF SMInv

(***************************************************************************)
(* The heap of the scheduler never holds the timer twice                   *)
(* (StateMachine::schedule_timeout, Scheduler::run).                       *)
(***************************************************************************)
THEOREM SMAtMostOneTimer == SMSpec => []AtMostOneTimer
BY SMInductive, PTL DEF SMInv
=============================================================================
