--------------------------- MODULE DnsTest_proofs ---------------------------
(***************************************************************************)
(* Whatever the server and the network do, the DNS test gives every name   *)
(* one verdict, in order, and reports once: it implements module Survey.   *)
(***************************************************************************)
EXTENDS DnsTest, StateMachine_proofs

\* No second BEGIN_TEST can come: nobody sends one and the timer holds none.
NoBegin ==
    /\ \A i \in 1..Len(commands) : commands[i] # "BEGIN_TEST"
    /\ to_send \in {NoStim, "TIMEOUT"}

\* Until BEGIN_TEST has been processed nothing else happens.
Before ==
    /\ waiting = 0 /\ ~testing_invalid /\ valid = <<>> /\ invalid = <<>> /\ ~reported
    /\ current = "IDLE" /\ to_send = NoStim /\ ~engaged
    /\ requests = <<>> /\ scheduled = 0 /\ sched = "look" /\ asked = 0
    /\ \/ phase = "wait" /\ commands = <<"BEGIN_TEST">>
       \/ phase \in {"clear", "call"} /\ stim = "BEGIN_TEST" /\ commands = <<>>

Arming == phase \in {"store", "engage", "schedule"}

\* Each name has a verdict, or is in the queue, or is the one asked for.
EveryNameOnce ==
    /\ waiting \in Nat
    /\ IF testing_invalid
       THEN Len(valid) = Valid /\ Len(invalid) + 1 + waiting = Invalid
       ELSE Len(valid) + 1 + waiting = Valid /\ invalid = <<>>

Asking ==
    /\ current = "PACKET_SENT" \/ Arming
    /\ Arming => edge.to = "PACKET_SENT" /\ edge.arm = "TIMEOUT"
    /\ NoBegin /\ EveryNameOnce /\ ~reported

\* Nothing in the queue means anything to a machine that is idle again.
Done == current = "IDLE" /\ phase = "wait" /\ NoBegin

SurveyTypeOK ==
    /\ waiting \in 0..(Valid + Invalid) /\ testing_invalid \in BOOLEAN
    /\ valid \in Seq(Verdicts) /\ invalid \in Seq(Verdicts)
    /\ reported \in BOOLEAN
    /\ asked \in Nat /\ datagrams \in 0..MaxDatagrams

DnsInv ==
    /\ SMInv /\ SurveyTypeOK
    /\ Before \/ Asking \/ Done \/ phase = "done"

(***************************************************************************)
(* What the table holds: which edges begin, go on and report.              *)
(***************************************************************************)
LEMMA EdgeKinds ==
    ASSUME NEW e \in Edges
    PROVE  /\ e.does \in {"begin", "ask", "report"}
           /\ e.does = "begin" => /\ e.from = "IDLE" /\ e.on = "BEGIN_TEST"
                                  /\ e.arm = "TIMEOUT" /\ e.to = "PACKET_SENT"
           /\ e.does = "ask" => /\ e.from = "PACKET_SENT" /\ e.on \in {"PACKET_RECEIEVED", "TIMEOUT"}
                                /\ e.arm = "TIMEOUT" /\ e.to = "PACKET_SENT"
           /\ e.does = "report" => /\ e.from = "PACKET_SENT" /\ e.on \in {"PACKET_RECEIEVED", "TIMEOUT"}
                                   /\ e.arm = NoStim /\ e.to = "IDLE"
<1>1. e \in Table
  BY DnsAssumption
<1> QED
  BY <1>1 DEF Table, MakeEdge

(***************************************************************************)
(* An idle machine has an edge for BEGIN_TEST only.                        *)
(***************************************************************************)
LEMMA IdleCandidates ==
    ASSUME NEW s \in Stim, s # "BEGIN_TEST"
    PROVE  Candidates("IDLE", s) = {}
BY EdgeKinds DEF Candidates

(***************************************************************************)
(* The state machine and its scheduler keep their invariant in the test.   *)
(***************************************************************************)
LEMMA DnsTimerStep ==
    ASSUME SMInv, Next \/ UNCHANGED vars
    PROVE  SMInv'
<1>1. CASE Framework
  BY <1>1, FrameworkInv DEF Framework
<1>2. ASSUME NEW e \in Edges, SendDns(e)
      PROVE  SMInv'
  BY <1>2, CallInv DEF SendDns
<1>3. ASSUME NEW e \in Edges, Throw(e)
      PROVE  SMInv'
  BY <1>3 DEF Throw, Chosen, timerVars, schedulerVars, SMInv, SMTypeOK, AtMostOneTimer,
              ScheduleFollowsCancel, BetweenCancelAndSchedule, FiresWhatIsScheduled, ArmedHasStim
<1>4. ASSUME NEW e \in Edges, SendResults(e)
      PROVE  SMInv'
  BY <1>4, CallInv DEF SendResults
<1>5. CASE SchedulerThread
  BY <1>5, SchedulerInv DEF SchedulerThread
<1>6. CASE Observe
  <2>1. "PACKET_RECEIEVED" \in Stim
    BY DnsAssumption DEF Stims
  <2> QED
    BY <1>6, <2>1, SendCommandInv DEF Observe
<1>7. CASE UNCHANGED vars
  BY <1>7, SMStutterInv DEF vars
<1> QED
  BY <1>1, <1>2, <1>3, <1>4, <1>5, <1>6, <1>7 DEF Next, MachineThread

(***************************************************************************)
(* A command that is not BEGIN_TEST does not bring one.                    *)
(***************************************************************************)
LEMMA SendNoBegin ==
    ASSUME SMInv, NoBegin, NEW c, c # "BEGIN_TEST", SendCommand(c), UNCHANGED to_send
    PROVE  NoBegin'
<1>1. commands \in Seq(Stim \cup {Exit})
  BY DEF SMInv, SMTypeOK
<1> QED
  BY <1>1 DEF NoBegin, SendCommand

(***************************************************************************)
(* An edge that is called while the test is under way asks or reports, one *)
(* that is called before begins.                                           *)
(***************************************************************************)
LEMMA CalledEdge ==
    ASSUME SMInv, Before \/ Asking \/ Done \/ phase = "done", NEW e \in Edges, Chosen(e)
    PROVE  /\ e.does \in {"begin", "ask", "report"}
           /\ e.does = "begin" => Before
           /\ e.does \in {"ask", "report"} => Asking /\ stim \in {"PACKET_RECEIEVED", "TIMEOUT"}
<1>1. phase = "call" /\ e.from = current /\ e.on = stim
  BY DEF Chosen, Candidates
<1>2. CASE Before
  BY <1>1, <1>2, EdgeKinds DEF Before
<1>3. CASE Asking
  BY <1>1, <1>3, EdgeKinds DEF Asking, Arming
<1> QED
  BY <1>1, <1>2, <1>3 DEF Done

(***************************************************************************)
(* What beginning and going on make of the verdicts.                       *)
(***************************************************************************)
LEMMA SurveyAdvances ==
    ASSUME SMInv, SurveyTypeOK, Before \/ Asking \/ Done \/ phase = "done",
           NEW e \in Edges, Chosen(e), Survey(e), UNCHANGED reported
    PROVE  /\ EveryNameOnce' /\ ~reported
           /\ waiting' \in 0..(Valid + Invalid) /\ testing_invalid' \in BOOLEAN
           /\ valid' \in Seq(Verdicts) /\ invalid' \in Seq(Verdicts)
           /\ [SurveySpec!Next]_(SurveySpec!surveyVars)
<1>1. Valid \in Nat \ {0} /\ Invalid \in Nat \ {0}
  BY DnsAssumption
<1>2. CASE e.does = "begin"
  <2>1. Before /\ Begin
    BY <1>2, CalledEdge DEF Survey
  <2>2. /\ waiting' = Valid - 1 /\ testing_invalid' = FALSE
        /\ valid' = <<>> /\ invalid' = <<>> /\ valid = <<>> /\ invalid = <<>> /\ ~reported
    BY <1>1, <2>1 DEF Before, Begin
  <2>3. EveryNameOnce'
    <3>1. Len(valid') = 0
      BY <2>2
    <3> QED
      BY <1>1, <2>2, <3>1 DEF EveryNameOnce
  <2>4. waiting' \in 0..(Valid + Invalid) /\ valid' \in Seq(Verdicts) /\ invalid' \in Seq(Verdicts)
    BY <1>1, <2>2
  <2> QED
    BY <2>2, <2>3, <2>4 DEF SurveySpec!surveyVars
<1>3. CASE e.does # "begin"
  <2>1. /\ Asking /\ stim \in {"PACKET_RECEIEVED", "TIMEOUT"} /\ Judge /\ MoveAlong
    BY <1>3, CalledEdge DEF Survey
  <2>2. Verdict \in {"answered", "lost"}
    BY DEF Verdict
  <2>3. EveryNameOnce /\ ~reported
    BY <2>1 DEF Asking
  <2>4. CASE testing_invalid
    <3>1. /\ waiting > 0 /\ waiting' = waiting - 1 /\ testing_invalid' = testing_invalid
          /\ valid' = valid /\ invalid' = Append(invalid, Verdict)
          /\ Len(valid) = Valid /\ Len(invalid) + 1 + waiting = Invalid
      BY <2>1, <2>3, <2>4 DEF Judge, MoveAlong, EveryNameOnce
    <3>2. invalid' \in Seq(Verdicts) /\ Len(invalid') = Len(invalid) + 1 /\ Len(invalid) \in Nat
      BY <2>2, <3>1 DEF SurveyTypeOK, Verdicts
    <3>3. SurveySpec!JudgeInvalid(Verdict)
      BY <1>1, <2>3, <3>1, <3>2 DEF SurveySpec!JudgeInvalid, SurveyTypeOK
    <3> QED
      BY <1>1, <2>2, <2>3, <2>4, <3>1, <3>2, <3>3
      DEF EveryNameOnce, SurveyTypeOK, SurveySpec!Next, SurveySpec!Verdict
  <2>5. CASE ~testing_invalid
    <3>1. /\ valid' = Append(valid, Verdict) /\ invalid' = invalid /\ invalid = <<>>
          /\ Len(valid) + 1 + waiting = Valid
      BY <2>1, <2>3, <2>5 DEF Judge, EveryNameOnce
    <3>2. valid' \in Seq(Verdicts) /\ Len(valid') = Len(valid) + 1 /\ Len(valid) \in Nat
      BY <2>2, <3>1 DEF SurveyTypeOK, Verdicts
    <3>3. waiting \in Nat /\ Len(valid) < Valid
      BY <1>1, <2>3, <3>1, <3>2 DEF EveryNameOnce
    <3>4. SurveySpec!JudgeValid(Verdict)
      BY <3>1, <3>3 DEF SurveySpec!JudgeValid
    <3>5. EveryNameOnce' /\ waiting' \in 0..(Valid + Invalid) /\ testing_invalid' \in BOOLEAN
      <4>1. CASE waiting > 0 /\ waiting' = waiting - 1 /\ testing_invalid' = testing_invalid
        BY <1>1, <2>5, <3>1, <3>2, <3>3, <4>1 DEF EveryNameOnce, SurveyTypeOK
      <4>2. CASE waiting = 0 /\ waiting' = Invalid - 1 /\ testing_invalid' = TRUE
        <5>1. Len(valid') = Valid /\ Len(invalid') = 0
          BY <1>1, <3>1, <3>2, <4>2
        <5> QED
          BY <1>1, <4>2, <5>1 DEF EveryNameOnce
      <4> QED
        BY <2>1, <4>1, <4>2 DEF MoveAlong
    <3> QED
      BY <2>2, <2>3, <3>1, <3>2, <3>4, <3>5
      DEF SurveyTypeOK, SurveySpec!Next, SurveySpec!Verdict
  <2> QED
    BY <2>4, <2>5 DEF SurveyTypeOK
<1> QED
  BY <1>2, <1>3

(***************************************************************************)
(* The stages follow one another: one step per action.                     *)
(***************************************************************************)
LEMMA StageStep ==
    ASSUME SMInv, SurveyTypeOK, Before \/ Asking \/ Done \/ phase = "done",
           Next \/ UNCHANGED vars
    PROVE  /\ SurveyTypeOK' /\ (Before \/ Asking \/ Done \/ phase = "done")'
           /\ [SurveySpec!Next]_(SurveySpec!surveyVars)
<1> USE DEF timerVars, schedulerVars, machineVars
<1>1. CASE Framework
  <2>1. SurveyTypeOK' /\ UNCHANGED <<surveyVars, asked, datagrams>>
    BY <1>1 DEF Framework, SurveyTypeOK, surveyVars
  <2>2. UNCHANGED SurveySpec!surveyVars
    BY <2>1 DEF SurveySpec!surveyVars, surveyVars
  <2>3. CASE phase = "done"
    BY <1>1, <2>3 DEF Framework, TakeStim, ClearTimeout, StoreStim, Engage, Schedule
  <2>4. CASE TakeStim
    <3>1. /\ commands \in Seq(Stim \cup {Exit}) /\ Len(commands) > 0
          /\ Head(commands) = commands[1] /\ Head(commands) \in Stim
          /\ commands' = Tail(commands) /\ Len(commands') = Len(commands) - 1
          /\ \A i \in 1..Len(commands') : commands'[i] = commands[i + 1]
          /\ phase = "wait" /\ UNCHANGED <<current, edge, to_send, engaged, requests, scheduled, sched>>
      BY <2>4 DEF TakeStim, SMInv, SMTypeOK
    <3>2. CASE Before
      <4>1. Head(commands) = "BEGIN_TEST" /\ commands' = <<>>
        BY <3>1, <3>2 DEF Before
      <4>2. Candidates("IDLE", "BEGIN_TEST") # {}
        <5>1. MakeEdge("IDLE", "BEGIN_TEST", "begin", "TIMEOUT", "PACKET_SENT") \in Edges
          BY DnsAssumption DEF Table
        <5> QED
          BY <5>1 DEF Candidates, MakeEdge
      <4> QED
        BY <2>1, <2>2, <2>4, <3>1, <3>2, <4>1, <4>2 DEF TakeStim, Before, surveyVars
    <3>3. CASE Asking
      <4>1. NoBegin'
        BY <3>1, <3>3 DEF Asking, NoBegin
      <4>2. ~Arming /\ ~Arming'
        BY <2>4, <3>1 DEF TakeStim, Arming
      <4> QED
        BY <2>1, <2>2, <3>1, <3>3, <4>1, <4>2 DEF Asking, EveryNameOnce, surveyVars
    <3>4. CASE Done
      <4>1. NoBegin' /\ Head(commands) # "BEGIN_TEST"
        BY <3>1, <3>4 DEF Done, NoBegin
      <4>2. Candidates(current, Head(commands)) = {}
        BY <3>1, <3>4, <4>1, IdleCandidates DEF Done
      <4> QED
        BY <2>1, <2>2, <2>4, <3>1, <3>4, <4>1, <4>2 DEF TakeStim, Done
    <3> QED
      BY <3>1, <3>2, <3>3, <3>4
  <2>5. CASE ClearTimeout
    BY <2>1, <2>2, <2>5
    DEF ClearTimeout, Before, Asking, Done, NoBegin, Arming, EveryNameOnce, surveyVars
  <2>6. CASE StoreStim
    BY <2>1, <2>2, <2>6
    DEF StoreStim, Before, Asking, Done, NoBegin, Arming, EveryNameOnce, surveyVars
  <2>7. CASE Engage
    BY <2>1, <2>2, <2>7
    DEF Engage, Before, Asking, Done, NoBegin, Arming, EveryNameOnce, surveyVars
  <2>8. CASE Schedule
    BY <2>1, <2>2, <2>8
    DEF Schedule, Before, Asking, Done, NoBegin, Arming, EveryNameOnce, surveyVars
  <2> QED
    BY <1>1, <2>4, <2>5, <2>6, <2>7, <2>8 DEF Framework
<1>2. ASSUME NEW e \in Edges, SendDns(e)
      PROVE  /\ SurveyTypeOK' /\ (Before \/ Asking \/ Done \/ phase = "done")'
             /\ [SurveySpec!Next]_(SurveySpec!surveyVars)
  <2>1. Chosen(e) /\ Survey(e) /\ UNCHANGED <<reported, commands, datagrams>> /\ asked' = asked + 1
    BY <1>2 DEF SendDns, CallAndCancel
  <2>2. /\ EveryNameOnce' /\ ~reported
        /\ waiting' \in 0..(Valid + Invalid) /\ testing_invalid' \in BOOLEAN
        /\ valid' \in Seq(Verdicts) /\ invalid' \in Seq(Verdicts)
        /\ [SurveySpec!Next]_(SurveySpec!surveyVars)
    BY <2>1, SurveyAdvances
  <2>3. phase' = "store" /\ edge' = e /\ UNCHANGED to_send /\ phase = "call"
    BY <1>2 DEF SendDns, CallAndCancel, Chosen
  <2>4. e.to = "PACKET_SENT" /\ e.arm = "TIMEOUT"
    BY <2>1, EdgeKinds DEF Survey
  <2>5. NoBegin
    BY <2>3 DEF Before, Asking, Done, NoBegin
  <2>6. NoBegin'
    BY <2>1, <2>3, <2>5 DEF NoBegin
  <2> QED
    BY <2>1, <2>2, <2>3, <2>4, <2>6 DEF Asking, Arming, SurveyTypeOK
<1>3. ASSUME NEW e \in Edges, Throw(e)
      PROVE  /\ SurveyTypeOK' /\ (Before \/ Asking \/ Done \/ phase = "done")'
             /\ [SurveySpec!Next]_(SurveySpec!surveyVars)
  <2>1. Chosen(e) /\ UNCHANGED <<reported, asked, datagrams>> /\ phase' = "done"
    BY <1>3 DEF Throw
  <2>2. CASE Survey(e)
    BY <2>1, <2>2, SurveyAdvances DEF SurveyTypeOK
  <2>3. CASE UNCHANGED <<waiting, testing_invalid, valid, invalid>>
    BY <2>1, <2>3 DEF SurveyTypeOK, SurveySpec!surveyVars
  <2> QED
    BY <1>3, <2>2, <2>3 DEF Throw
<1>4. ASSUME NEW e \in Edges, SendResults(e)
      PROVE  /\ SurveyTypeOK' /\ (Before \/ Asking \/ Done \/ phase = "done")'
             /\ [SurveySpec!Next]_(SurveySpec!surveyVars)
  <2>1. /\ Chosen(e) /\ e.does = "report" /\ waiting = 0 /\ testing_invalid
        /\ current' = e.to /\ phase' = "wait" /\ Judge /\ reported' = TRUE
        /\ UNCHANGED <<commands, to_send, waiting, testing_invalid, asked, datagrams>>
    BY <1>4 DEF SendResults, Call
  <2>2. Asking /\ e.to = "IDLE"
    BY <2>1, CalledEdge, EdgeKinds
  <2>3. Verdict \in {"answered", "lost"}
    BY DEF Verdict
  <2>4. /\ valid' = valid /\ invalid' = Append(invalid, Verdict)
        /\ Len(valid) = Valid /\ Len(invalid) + 1 = Invalid
    <3>1. invalid \in Seq(Verdicts)
      BY DEF SurveyTypeOK
    <3> QED
      BY <2>1, <2>2, <3>1, DnsAssumption DEF Judge, Asking, EveryNameOnce
  <2>5. invalid' \in Seq(Verdicts) /\ Len(invalid) \in Nat
    BY <2>3, <2>4 DEF SurveyTypeOK, Verdicts
  <2>6. SurveySpec!JudgeInvalid(Verdict)
    <3>1. Len(invalid) < Invalid
      BY <2>4, <2>5, DnsAssumption
    <3>2. reported' = (Len(invalid) + 1 = Invalid)
      BY <2>1, <2>4, Zenon
    <3> QED
      BY <2>1, <2>4, <3>1, <3>2, Zenon DEF SurveySpec!JudgeInvalid
  <2>7. SurveySpec!Next
    BY <2>3, <2>6 DEF SurveySpec!Next, SurveySpec!Verdict
  <2>8. Done'
    BY <2>1, <2>2 DEF Asking, Done, NoBegin
  <2> QED
    BY <2>1, <2>4, <2>5, <2>7, <2>8 DEF SurveyTypeOK
<1>5. CASE SchedulerThread
  <2>1. SurveyTypeOK' /\ UNCHANGED <<surveyVars, asked, datagrams>> /\ Scheduler
    BY <1>5 DEF SchedulerThread, SurveyTypeOK, surveyVars
  <2>2. UNCHANGED SurveySpec!surveyVars
    BY <2>1 DEF SurveySpec!surveyVars, surveyVars
  <2>3. UNCHANGED <<current, phase, stim, edge, to_send>>
    BY <2>1 DEF Scheduler, SchedulerWait, SchedulerRequest, SchedulerTimeout, Disengage, SendTimeout
  <2>4. ~Before
    BY <2>1 DEF Before, Scheduler, SchedulerWait, SchedulerRequest, SchedulerTimeout, Disengage,
                SendTimeout
  <2>5. NoBegin => NoBegin'
    <3>1. CASE SendTimeout
      <4>1. to_send \in Stim
        BY <3>1 DEF SendTimeout, SMInv, FiresWhatIsScheduled, ArmedHasStim
      <4>2. NoStim # "BEGIN_TEST"
        BY DEF NoStim
      <4> QED
        BY <2>3, <3>1, <4>2, SendNoBegin DEF SendTimeout, NoBegin
    <3>2. CASE ~SendTimeout
      BY <2>1, <2>3, <3>2
      DEF Scheduler, SchedulerWait, SchedulerRequest, SchedulerTimeout, Disengage, NoBegin
    <3> QED
      BY <3>1, <3>2
  <2> QED
    BY <2>1, <2>2, <2>3, <2>4, <2>5 DEF Asking, Done, Arming, EveryNameOnce, surveyVars
<1>6. CASE Observe
  <2>1. /\ SendCommand("PACKET_RECEIEVED") /\ asked > 0
        /\ UNCHANGED <<current, phase, stim, edge, to_send, surveyVars, asked>>
        /\ datagrams < MaxDatagrams /\ datagrams' = datagrams + 1
    BY <1>6 DEF Observe
  <2>2. SurveyTypeOK' /\ UNCHANGED SurveySpec!surveyVars
    BY <2>1, DnsAssumption DEF SurveyTypeOK, surveyVars, SurveySpec!surveyVars
  <2>3. ~Before
    BY <2>1 DEF Before
  <2>4. NoBegin => NoBegin'
    BY <2>1, SendNoBegin
  <2> QED
    BY <2>1, <2>2, <2>3, <2>4 DEF Asking, Done, Arming, EveryNameOnce, surveyVars
<1>7. CASE UNCHANGED vars
  BY <1>7 DEF vars, smVars, surveyVars, SurveySpec!surveyVars, SurveyTypeOK, Before, Asking, Done,
              NoBegin, Arming, EveryNameOnce
<1> QED
  BY <1>1, <1>2, <1>3, <1>4, <1>5, <1>6, <1>7 DEF Next, MachineThread

(***************************************************************************)
(* The stages, the types and the invariant of the timer are inductive.     *)
(***************************************************************************)
THEOREM DnsInductive == Spec => []DnsInv
<1>1. Init => DnsInv
  <2> SUFFICES ASSUME Init
               PROVE  DnsInv
    OBVIOUS
  <2>1. <<"BEGIN_TEST">> \in Seq(Stim \cup {Exit})
    BY DnsAssumption DEF Stims
  <2>2. SMInv
    BY <2>1, SMInitInv DEF Init
  <2>3. Before
    BY DnsAssumption DEF Init, SMInit, Before
  <2>4. SurveyTypeOK
    <3>1. 0 \in 0..(Valid + Invalid) /\ 0 \in 0..MaxDatagrams
      BY DnsAssumption
    <3>2. <<>> \in Seq(Verdicts)
      OBVIOUS
    <3> QED
      BY <3>1, <3>2 DEF Init, SurveyTypeOK
  <2> QED
    BY <2>2, <2>3, <2>4 DEF DnsInv
<1>2. DnsInv /\ [Next]_vars => DnsInv'
  BY DnsTimerStep, StageStep DEF DnsInv
<1> QED
  BY <1>1, <1>2, PTL DEF Spec

(***************************************************************************)
(* Type correctness of the DNS test.                                       *)
(***************************************************************************)
THEOREM DnsTypeCorrect == Spec => []TypeOK
<1>1. DnsInv => TypeOK
  BY DEF DnsInv, SMInv, SurveyTypeOK, TypeOK
<1> QED
  BY <1>1, DnsInductive, PTL

(***************************************************************************)
(* For any number of names, the DNS test of dns/Test.cpp is a survey:      *)
(* every name gets one verdict and the report is made once, at the end.    *)
(***************************************************************************)
THEOREM DnsImplementsSurvey == Spec => ImplementsSurvey
<1>1. Init => SurveySpec!Init
  BY DEF Init, SurveySpec!Init
<1>2. DnsInv /\ [Next]_vars => [SurveySpec!Next]_(SurveySpec!surveyVars)
  BY StageStep DEF DnsInv
<1> QED
  BY <1>1, <1>2, DnsInductive, PTL DEF Spec, ImplementsSurvey, SurveySpec!Spec
=============================================================================
