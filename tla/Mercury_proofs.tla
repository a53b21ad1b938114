--------------------------- MODULE Mercury_proofs ---------------------------
(***************************************************************************)
(* The test of a router keeps the types of its variables and, whatever its *)
(* threads, its tests and the controller do, at most one timer; the        *)
(* buffers of AsyncCurl are not shared, and the controller sees no more    *)
(* than RouterTest allows.                                                 *)
(***************************************************************************)
EXTENDS Mercury, StateMachine_proofs

\* The part of the type invariant that is not StateMachine's.
OwnTypeOK ==
    /\ curlQueue \in Seq(Requests \cup {Quit})
    /\ curl \in Requests \cup {Idle, Quit}
    /\ arrived \in {"no", "accepted", "refused"}
    /\ dns \in {"idle", "running", "posted", "done", "failed"}
    /\ throughput \in {"idle", "running", "probesFailed", "done", "failed"}
    /\ stopping \in {"no", "scheduler", "told", "joined"}
    /\ record \in {"wait", "running", "finished", NoState}
    /\ results \subseteq {"dns", "throughput"}
    /\ exitCode \in {"none", "ok", "gaveUp", "timedOut", "exception", "killed"}

(***************************************************************************)
(* The stimuli the threads of Mercury send are stimuli of its machine.     *)
(***************************************************************************)
LEMMA StimuliKnown ==
    {"START", "GOOD_REQUEST", "BAD_REQUEST", "DNS_TEST_FINISHED", "THROUGHPUT_FINISHED"}
        \subseteq Stim
BY MercuryAssumption DEF Stims

(***************************************************************************)
(* Every step of Mercury is one of the state machine and its scheduler, or *)
(* sends a command, or leaves both alone.                                  *)
(***************************************************************************)
LEMMA MercuryTimerStep ==
    ASSUME SMInv, Next \/ UNCHANGED vars
    PROVE  SMInv'
<1> USE DEF curlVars, testVars, controllerVars
<1>1. CASE Framework
  BY <1>1, FrameworkInv DEF Framework
<1>2. CASE \E e \in Edges : CallEdge(e)
  BY <1>2, CallInv DEF CallEdge
<1>3. CASE \E e \in Edges : ExitEdge(e)
  BY <1>3, SMStutterInv DEF ExitEdge
<1>4. CASE \E e \in Edges : TellScheduler(e)
  BY <1>4, StopSchedulerInv DEF TellScheduler
<1>5. CASE TellOthers
  BY <1>5, SendCommandInv DEF TellOthers
<1>6. CASE \E e \in Edges : Join(e)
  BY <1>6, CallInv DEF Join
<1>7. CASE MachineExit
  BY <1>7, FrameworkInv DEF MachineExit
<1>8. CASE SchedulerThread
  BY <1>8, SchedulerInv DEF SchedulerThread
<1>9. CASE CurlThread
  <2>1. CASE CurlTake
    BY <2>1, SMStutterInv DEF CurlTake
  <2>2. CASE CurlAnswer
    BY <2>2, StimuliKnown, SendCommandInv DEF CurlAnswer
  <2>3. CASE FailureReported
    BY <2>3, SMStutterInv DEF FailureReported
  <2> QED
    BY <1>9, <2>1, <2>2, <2>3 DEF CurlThread
<1>10. CASE Tests
  <2>1. CASE DnsPost
    BY <2>1, SMStutterInv DEF DnsPost
  <2>2. CASE DnsFinish
    BY <2>2, StimuliKnown, SendCommandInv DEF DnsFinish
  <2>3. CASE DnsThrow
    BY <2>3, SMStutterInv DEF DnsThrow
  <2>4. CASE ThroughputFinish
    BY <2>4, StimuliKnown, SendCommandInv DEF ThroughputFinish
  <2>5. CASE ThroughputThrow
    BY <2>5, SMStutterInv DEF ThroughputThrow
  <2> QED
    BY <1>10, <2>1, <2>2, <2>3, <2>4, <2>5 DEF Tests
<1>11. CASE MainExit \/ ParentKill
  BY <1>11, SMStutterInv DEF MainExit, ParentKill
<1>12. CASE Accept \/ Refuse
  BY <1>12, SMStutterInv DEF Accept, Saved, Refuse
<1>13. CASE UNCHANGED vars
  BY <1>13, SMStutterInv DEF vars
<1> QED
  BY <1>1, <1>2, <1>3, <1>4, <1>5, <1>6, <1>7, <1>8, <1>9, <1>10, <1>11, <1>12, <1>13
  DEF Next, Process, StateMachineThread

(***************************************************************************)
(* The variables of Mercury's own keep their types.                        *)
(***************************************************************************)
LEMMA OwnTypeStep ==
    ASSUME OwnTypeOK, Next \/ UNCHANGED vars
    PROVE  OwnTypeOK'
<1> USE DEF OwnTypeOK, curlVars, testVars, controllerVars, Requests, Idle, Quit
<1>1. CASE Framework
  BY <1>1 DEF Framework
<1>2. CASE \E e \in Edges : CallEdge(e)
  BY <1>2 DEF CallEdge, Post
<1>3. CASE \E e \in Edges : ExitEdge(e)
  BY <1>3 DEF ExitEdge
<1>4. CASE \E e \in Edges : TellScheduler(e)
  BY <1>4 DEF TellScheduler
<1>5. CASE TellOthers
  BY <1>5 DEF TellOthers
<1>6. CASE \E e \in Edges : Join(e)
  BY <1>6 DEF Join
<1>7. CASE MachineExit
  BY <1>7 DEF MachineExit
<1>8. CASE SchedulerThread
  BY <1>8 DEF SchedulerThread
<1>9. CASE CurlThread
  <2>1. CASE CurlTake
    <3>1. Head(curlQueue) \in Requests \cup {Quit} /\ curlQueue' \in Seq(Requests \cup {Quit})
      BY <2>1 DEF CurlTake
    <3> QED
      BY <2>1, <3>1 DEF CurlTake
  <2>2. CASE CurlAnswer
    BY <2>2 DEF CurlAnswer
  <2>3. CASE FailureReported
    BY <2>3 DEF FailureReported
  <2> QED
    BY <1>9, <2>1, <2>2, <2>3 DEF CurlThread
<1>10. CASE Tests
  <2>1. CASE DnsPost
    BY <2>1 DEF DnsPost, Post
  <2>2. CASE DnsFinish
    BY <2>2 DEF DnsFinish
  <2>3. CASE DnsThrow
    BY <2>3 DEF DnsThrow, Post
  <2>4. CASE ThroughputFinish
    BY <2>4 DEF ThroughputFinish
  <2>5. CASE ThroughputThrow
    BY <2>5 DEF ThroughputThrow, Post
  <2> QED
    BY <1>10, <2>1, <2>2, <2>3, <2>4, <2>5 DEF Tests
<1>11. CASE MainExit \/ ParentKill
  <2>1. /\ UNCHANGED <<curlQueue, curl, arrived, dns, throughput, stopping, record, results>>
        /\ exitCode' \in {"ok", "killed"}
    BY <1>11 DEF MainExit, ParentKill
  <2> QED
    BY <2>1
<1>12. CASE Accept
  BY <1>12 DEF Accept, Saved
<1>13. CASE Refuse
  BY <1>13 DEF Refuse
<1>14. CASE UNCHANGED vars
  BY <1>14 DEF vars
<1> QED
  BY <1>1, <1>2, <1>3, <1>4, <1>5, <1>6, <1>7, <1>8, <1>9, <1>10, <1>11, <1>12, <1>13, <1>14
  DEF Next, Process, StateMachineThread

(***************************************************************************)
(* Both invariants together are inductive for Mercury.                     *)
(***************************************************************************)
THEOREM MercuryInductive == Spec => [](SMInv /\ OwnTypeOK)
<1>1. Init => SMInv /\ OwnTypeOK
  <2> SUFFICES ASSUME Init
               PROVE  SMInv /\ OwnTypeOK
    OBVIOUS
  <2>1. <<"START">> \in Seq(Stim \cup {Exit})
    BY StimuliKnown
  <2>2. SMInv
    BY <2>1, SMInitInv DEF Init
  <2>3. curlQueue \in Seq(Requests \cup {Quit})
    BY DEF Init
  <2> QED
    BY <2>2, <2>3 DEF Init, OwnTypeOK
<1>2. SMInv /\ OwnTypeOK /\ [Next]_vars => (SMInv /\ OwnTypeOK)'
  BY MercuryTimerStep, OwnTypeStep
<1> QED
  BY <1>1, <1>2, PTL DEF Spec

(***************************************************************************)
(* Type correctness of a test of a router, state machine and scheduler     *)
(* included.                                                               *)
(***************************************************************************)
THEOREM MercuryTypeCorrect == Spec => []TypeOK
<1>1. SMInv /\ OwnTypeOK => TypeOK
  BY DEF SMInv, OwnTypeOK, TypeOK
<1> QED
  BY <1>1, MercuryInductive, PTL

(***************************************************************************)
(* Mercury's scheduler never holds the time-out of two states.             *)
(***************************************************************************)
THEOREM MercuryAtMostOneTimer == Spec => []AtMostOneTimer
<1>1. SMInv => AtMostOneTimer
  BY DEF SMInv
<1> QED
  BY <1>1, MercuryInductive, PTL
-----------------------------------------------------------------------------
(* The buffers, and the refinement. *)

\* What a queue holds, whatever the order.
Elems(s) == {s[i] : i \in 1..Len(s)}

\* At most one element of s is in K.
OnceIn(s, K) == \A i, j \in 1..Len(s) : s[i] \in K /\ s[j] \in K => i = j

\* Each a in s comes before every element of K.
Precedes(a, s, K) == \A i, j \in 1..Len(s) : s[i] = a /\ s[j] \in K => i < j

Sharers == {"get_config", "running", "finished"}
Measuring == {"running", "probesFailed"}

\* The stimuli that make the machine's thread ask for a request or start a
\* test, and the one that stands for an answer.
Carriers == {"START", "GOOD_REQUEST", "BAD_REQUEST", "THROUGHPUT_FINISHED"}

\* The stimulus the machine's thread is about to act upon.
InHand == IF phase \in {"clear", "call"} THEN {stim} ELSE {}
Known == Elems(commands) \cup InHand

Arming == {"store", "engage", "schedule"}
\* The state the machine is in, or is about to enter.
Place == IF phase \in Arming THEN edge.to ELSE current

\* The timer sends time-outs only.
TimerStims == {NoStim, "TIMEOUT_STIM", "WAIT_TIMEOUT"}
TimerSends == to_send \in TimerStims

(***************************************************************************)
(* One token goes round: a stimulus asks for a request, the request is     *)
(* queued, then performed, its answer is a stimulus, which starts a test,  *)
(* which ends in a request or a stimulus.                                  *)
(***************************************************************************)
OneToken ==
    /\ OnceIn(commands, Carriers)
    /\ OnceIn(curlQueue, Sharers)
    /\ Elems(commands) \cap Carriers # {} =>
           InHand \cap Carriers = {} /\ Elems(curlQueue) \cap Sharers = {}
           /\ curl \notin Sharers /\ dns # "running" /\ throughput \notin Measuring
    /\ InHand \cap Carriers # {} =>
           Elems(curlQueue) \cap Sharers = {} /\ curl \notin Sharers
           /\ dns # "running" /\ throughput \notin Measuring
    /\ Elems(curlQueue) \cap Sharers # {} =>
           curl \notin Sharers /\ dns # "running" /\ throughput \notin Measuring
    /\ curl \in Sharers => dns # "running" /\ throughput \notin Measuring
    /\ dns = "running" => throughput \notin Measuring

\* How far the machine can be, by the tests that were started.
Stages ==
    /\ Place = "REQUEST_MADE" => dns = "idle" /\ throughput = "idle"
    /\ Place \in {"DNS_TEST_RUNNING", "POSTING_DNS_RESULTS"} => dns # "idle" /\ throughput = "idle"
    /\ Place \in {"THROUGHPUT_RUNNING", "POSTING_THROUGHPUT_RESULTS"} => throughput # "idle"
    /\ throughput # "idle" => dns # "idle"

\* Still running for the controller, unless the failure was reported.
Open == record = "running" \/ curl = "failure"

Pending(r) == r \in Elems(curlQueue) \/ (curl = r /\ arrived = "no")

\* What an accepted request has made of the record.
Answered ==
    /\ dns = "idle" => record = "running" /\ results = {}
    /\ dns # "idle" /\ throughput = "idle" => record = "running" /\ results = {"dns"}
    /\ throughput # "idle" => record = "finished"

(***************************************************************************)
(* What the record of the controller is, by where the token is.            *)
(***************************************************************************)
Expected ==
    /\ "START" \in Known \/ Pending("get_config") =>
           record = "wait" /\ results = {} /\ dns = "idle" /\ throughput = "idle"
    /\ dns = "running" => Open /\ results = {} /\ throughput = "idle"
    /\ Pending("running") => Open /\ results = {} /\ dns # "idle" /\ throughput = "idle"
    /\ throughput \in Measuring \/ "THROUGHPUT_FINISHED" \in Known \/ Pending("finished") =>
           Open /\ results = {"dns"} /\ throughput # "idle"
    /\ "GOOD_REQUEST" \in Known \/ (curl \in Sharers /\ arrived = "accepted") => Answered

(***************************************************************************)
(* A failure is the last request to be performed.                          *)
(***************************************************************************)
FailureIsLast ==
    /\ curl = "failure" /\ arrived = "no" => record = "running"
    /\ "failure" \in Elems(curlQueue) => Open /\ curl \notin Sharers
    /\ Precedes("failure", curlQueue, Sharers)
    /\ curl = "failure" \/ "failure" \in Elems(curlQueue) => "GOOD_REQUEST" \notin Known

StopsFinished == stopping # "no" => record = "finished"

TokenInv ==
    /\ TimerSends /\ OneToken /\ Stages /\ Expected /\ FailureIsLast /\ StopsFinished
-----------------------------------------------------------------------------
(***************************************************************************)
(* What the edges of setup_state_machine have in common.                   *)
(***************************************************************************)
LEMMA EdgeFacts ==
    ASSUME NEW e \in Edges
    PROVE  /\ e.arm \in TimerStims
           /\ e.does = "none" =>
                  \/ e.to \in {"IDLE", "TIMEOUT"}
                  \/ e.from = "DNS_TEST_RUNNING" /\ e.to = "POSTING_DNS_RESULTS"
           /\ e.does = "getConfig" => e.on = "START" /\ e.to = "REQUEST_MADE"
           /\ e.does = "startDns" =>
                  e.from = "REQUEST_MADE" /\ e.on = "GOOD_REQUEST" /\ e.to = "DNS_TEST_RUNNING"
           /\ e.does = "startThroughput" =>
                  e.from = "POSTING_DNS_RESULTS" /\ e.on = "GOOD_REQUEST"
                  /\ e.to = "THROUGHPUT_RUNNING"
           /\ e.does = "postThroughput" =>
                  e.from = "THROUGHPUT_RUNNING" /\ e.on = "THROUGHPUT_FINISHED"
                  /\ e.to = "POSTING_THROUGHPUT_RESULTS"
           /\ e.does = "stop" =>
                  e.from = "POSTING_THROUGHPUT_RESULTS" /\ e.on = "GOOD_REQUEST" /\ e.to = "IDLE"
BY MercuryAssumption DEF Table, MakeEdge, TimerStims, NoStim

(***************************************************************************)
(* A push to a queue.                                                      *)
(***************************************************************************)
LEMMA AppendElems ==
    ASSUME NEW S, NEW s \in Seq(S), NEW x \in S, NEW K, NEW a
    PROVE  /\ Elems(Append(s, x)) = Elems(s) \cup {x}
           /\ OnceIn(s, K) /\ (x \notin K \/ Elems(s) \cap K = {}) => OnceIn(Append(s, x), K)
           /\ Precedes(a, s, K) /\ a \notin K /\ (x # a \/ Elems(s) \cap K = {})
                  => Precedes(a, Append(s, x), K)
<1> DEFINE t == Append(s, x)
<1>1. /\ Len(t) = Len(s) + 1 /\ Len(s) \in Nat /\ t[Len(t)] = x
      /\ \A i \in 1..Len(s) : i \in 1..Len(t) /\ t[i] = s[i]
      /\ \A i \in 1..Len(t) : i \in 1..Len(s) \/ i = Len(t)
  OBVIOUS
<1> HIDE DEF t
<1>2. Elems(t) = Elems(s) \cup {x}
  <2>1. Len(t) \in 1..Len(t)
    BY <1>1
  <2> QED
    BY <1>1, <2>1 DEF Elems
<1>3. OnceIn(s, K) /\ (x \notin K \/ Elems(s) \cap K = {}) => OnceIn(t, K)
  BY <1>1 DEF OnceIn, Elems
<1>4. Precedes(a, s, K) /\ a \notin K /\ (x # a \/ Elems(s) \cap K = {}) => Precedes(a, t, K)
  BY <1>1 DEF Precedes, Elems
<1> QED
  BY <1>2, <1>3, <1>4 DEF t

(***************************************************************************)
(* A pop.                                                                  *)
(***************************************************************************)
LEMMA TailElems ==
    ASSUME NEW S, NEW s \in Seq(S), s # <<>>, NEW K, NEW a
    PROVE  /\ Elems(Tail(s)) \subseteq Elems(s) /\ Head(s) \in Elems(s)
           /\ Elems(s) \subseteq Elems(Tail(s)) \cup {Head(s)}
           /\ OnceIn(s, K) => OnceIn(Tail(s), K)
           /\ OnceIn(s, K) /\ Head(s) \in K => Elems(Tail(s)) \cap K = {}
           /\ Precedes(a, s, K) => Precedes(a, Tail(s), K)
           /\ Precedes(a, s, K) /\ Head(s) \in K => a \notin Elems(s)
<1> DEFINE t == Tail(s)
<1>1. /\ Len(s) \in Nat /\ Len(t) = Len(s) - 1 /\ 1 \in 1..Len(s) /\ Head(s) = s[1]
      /\ \A i \in 1..Len(t) : i + 1 \in 2..Len(s) /\ t[i] = s[i + 1]
      /\ \A i \in 1..Len(s) : i = 1 \/ (i - 1 \in 1..Len(t) /\ t[i - 1] = s[i])
  OBVIOUS
<1> HIDE DEF t
<1>2. Elems(t) \subseteq Elems(s) /\ Head(s) \in Elems(s)
  BY <1>1 DEF Elems
<1>3. Elems(s) \subseteq Elems(t) \cup {Head(s)}
  BY <1>1 DEF Elems
<1>4. OnceIn(s, K) => OnceIn(t, K)
  BY <1>1 DEF OnceIn
<1>5. OnceIn(s, K) /\ Head(s) \in K => Elems(t) \cap K = {}
  BY <1>1 DEF OnceIn, Elems
<1>6. Precedes(a, s, K) => Precedes(a, t, K)
  BY <1>1 DEF Precedes
<1>7. Precedes(a, s, K) /\ Head(s) \in K => a \notin Elems(s)
  BY <1>1 DEF Precedes, Elems
<1> QED
  BY <1>2, <1>3, <1>4, <1>5, <1>6, <1>7 DEF t
-----------------------------------------------------------------------------
(***************************************************************************)
(* Steps that do no more than take stimuli, or send time-outs: the token   *)
(* stays where it is, or is lost.                                          *)
(***************************************************************************)
LEMMA StimuliMove ==
    ASSUME TokenInv,
           UNCHANGED <<curlQueue, curl, arrived, dns, throughput, record, results, stopping>>,
           TimerSends', Stages',
           OnceIn(commands, Carriers)',
           Elems(commands)' \cap Carriers # {} => InHand' \cap Carriers = {},
           Known' \cap Carriers \subseteq Known
    PROVE  TokenInv'
<1> USE DEF TokenInv
<1>1. OneToken'
  BY DEF OneToken, Known
<1>2. Expected'
  <2>1. \A c \in {"START", "THROUGHPUT_FINISHED", "GOOD_REQUEST"} : c \in Known' => c \in Known
    BY DEF Carriers
  <2> QED
    BY <2>1 DEF Expected, Pending, Open, Answered
<1>3. FailureIsLast'
  <2>1. "GOOD_REQUEST" \in Known' => "GOOD_REQUEST" \in Known
    BY DEF Carriers
  <2> QED
    BY <2>1 DEF FailureIsLast, Open
<1>4. StopsFinished'
  BY DEF StopsFinished
<1> QED
  BY <1>1, <1>2, <1>3, <1>4

(***************************************************************************)
(* The statements of the framework.                                        *)
(***************************************************************************)
LEMMA FrameworkToken ==
    ASSUME TokenInv, SMTypeOK, Framework \/ MachineExit
    PROVE  TokenInv'
<1> USE DEF curlVars, testVars, controllerVars, timerVars, schedulerVars
<1>1. CASE TakeStim
  <2>1. commands \in Seq(Stim \cup {Exit}) /\ commands # <<>>
    BY <1>1 DEF TakeStim, SMTypeOK
  <2>2. commands' = Tail(commands) /\ phase = "wait"
        /\ (phase' = "wait" \/ (phase' = "clear" /\ stim' = Head(commands)))
    BY <1>1 DEF TakeStim
  <2>3. /\ Elems(commands') \subseteq Elems(commands) /\ Head(commands) \in Elems(commands)
        /\ OnceIn(commands', Carriers)
        /\ Head(commands) \in Carriers => Elems(commands') \cap Carriers = {}
    BY <2>1, <2>2, TailElems DEF TokenInv, OneToken
  <2>4. InHand' = {} \/ InHand' = {Head(commands)}
    BY <2>2 DEF InHand
  <2>5. Stages'
    BY <1>1, <2>2 DEF TokenInv, Stages, Place, Arming, TakeStim, Framework, MachineExit
  <2> QED
    BY <1>1, <2>3, <2>4, <2>5, StimuliMove
    DEF TakeStim, Framework, MachineExit, TokenInv, TimerSends, Known
<1>2. CASE TakeExit
  <2>1. commands \in Seq(Stim \cup {Exit}) /\ commands # <<>>
    BY <1>2 DEF TakeExit, SMTypeOK
  <2>2. /\ Elems(commands') \subseteq Elems(commands)
        /\ OnceIn(commands', Carriers)
    BY <1>2, <2>1, TailElems DEF TokenInv, OneToken, TakeExit
  <2>3. InHand' = {}
    BY <1>2 DEF InHand, TakeExit
  <2>4. Stages'
    BY <1>2 DEF TokenInv, Stages, Place, Arming, TakeExit, Framework, MachineExit
  <2> QED
    BY <1>2, <2>2, <2>3, <2>4, StimuliMove
    DEF TakeExit, Framework, MachineExit, TokenInv, TimerSends, Known
<1>3. CASE ClearTimeout \/ StoreStim \/ Engage \/ Schedule
  <2>1. UNCHANGED <<commands, curlQueue, curl, arrived, dns, throughput, record, results, stopping>>
    BY <1>3 DEF Framework, MachineExit, ClearTimeout, StoreStim, Engage, Schedule
  <2>2. InHand' \subseteq InHand
    BY <1>3 DEF InHand, ClearTimeout, StoreStim, Engage, Schedule
  <2>3. Stages'
    <3>1. Place' = Place
      BY <1>3 DEF Place, Arming, ClearTimeout, StoreStim, Engage, Schedule
    <3> QED
      BY <2>1, <3>1 DEF TokenInv, Stages
  <2>4. TimerSends'
    <3>1. CASE StoreStim
      <4>1. edge \in Edges
        BY <3>1 DEF StoreStim, SMTypeOK
      <4> QED
        BY <3>1, <4>1, EdgeFacts DEF StoreStim, TimerSends
    <3> QED
      BY <1>3, <3>1 DEF ClearTimeout, Engage, Schedule, TokenInv, TimerSends
  <2> QED
    BY <2>1, <2>2, <2>3, <2>4, StimuliMove DEF TokenInv, OneToken, Known
<1> QED
  BY <1>1, <1>2, <1>3 DEF Framework, MachineExit

(***************************************************************************)
(* The scheduler sends time-outs only.                                     *)
(***************************************************************************)
LEMMA SchedulerToken ==
    ASSUME TokenInv, SMTypeOK, SchedulerThread
    PROVE  TokenInv'
<1> USE DEF curlVars, testVars, controllerVars, timerVars, schedulerVars, machineVars
<1>1. UNCHANGED <<curlQueue, curl, arrived, dns, throughput, record, results, stopping>>
  BY DEF SchedulerThread
<1>2. UNCHANGED <<current, phase, stim, edge, to_send>>
  BY DEF SchedulerThread, Scheduler, SchedulerWait, SchedulerRequest, SchedulerTimeout,
         Disengage, SendTimeout
<1>3. InHand' = InHand /\ Stages' /\ TimerSends'
  BY <1>1, <1>2 DEF InHand, Stages, Place, TimerSends, TokenInv
<1>4. CASE UNCHANGED commands
  BY <1>1, <1>3, <1>4, StimuliMove DEF TokenInv, OneToken, Known
<1>5. CASE commands' = Append(commands, to_send)
  <2>1. commands \in Seq(Stim \cup {Exit, NoStim}) /\ to_send \in Stim \cup {Exit, NoStim}
    BY DEF SMTypeOK
  <2>2. to_send \notin Carriers
    BY DEF TokenInv, TimerSends, TimerStims, Carriers, NoStim
  <2>3. Elems(commands') = Elems(commands) \cup {to_send} /\ OnceIn(commands', Carriers)
    BY <1>5, <2>1, <2>2, AppendElems DEF TokenInv, OneToken
  <2> QED
    BY <1>1, <1>3, <2>2, <2>3, StimuliMove DEF TokenInv, OneToken, Known
<1> QED
  BY <1>4, <1>5
  DEF SchedulerThread, Scheduler, SchedulerWait, SchedulerRequest, SchedulerTimeout,
      Disengage, SendTimeout, SendCommand
(***************************************************************************)
(* The functions of the edges.                                             *)
(***************************************************************************)
LEMMA CallToken ==
    ASSUME TokenInv, SMTypeOK, OwnTypeOK, NEW e \in Edges, CallEdge(e)
    PROVE  TokenInv'
<1>1. /\ phase = "call" /\ e.on = stim /\ e.from = current
      /\ UNCHANGED <<commands, curl, arrived, stopping, record, results, to_send>>
  BY DEF CallEdge, Call, CallAndCancel, Chosen, Candidates, controllerVars, timerVars
<1>2. Place = current /\ Place' = e.to /\ InHand = {stim} /\ InHand' = {}
  BY <1>1 DEF Place, InHand, Arming, CallEdge, Call, CallAndCancel
<1>3. TimerSends' /\ StopsFinished'
  BY <1>1 DEF TokenInv, TimerSends, StopsFinished
<1>4. CASE e.does = "none"
  <2>1. UNCHANGED <<curlQueue, dns, throughput>>
    BY <1>4 DEF CallEdge
  <2>2. Stages'
    BY <1>1, <1>2, <1>4, <2>1, EdgeFacts DEF TokenInv, Stages
  <2> QED
    BY <1>1, <1>2, <1>3, <2>1, <2>2, StimuliMove DEF TokenInv, OneToken, Known
<1>5. CASE e.does = "getConfig"
  <2>1. UNCHANGED <<dns, throughput>> /\ curlQueue' = Append(curlQueue, "get_config")
    BY <1>5 DEF CallEdge, Post
  <2>2. stim = "START" /\ e.to = "REQUEST_MADE"
    BY <1>1, <1>5, EdgeFacts
  <2>3. /\ Elems(commands) \cap Carriers = {} /\ Elems(curlQueue) \cap Sharers = {}
        /\ curl \notin Sharers /\ dns # "running" /\ throughput \notin Measuring
    BY <1>2, <2>2 DEF TokenInv, OneToken, Carriers
  <2>4. /\ record = "wait" /\ results = {} /\ dns = "idle" /\ throughput = "idle"
    BY <1>2, <2>2 DEF TokenInv, Expected, Known
  <2>5. /\ Elems(curlQueue') = Elems(curlQueue) \cup {"get_config"}
        /\ OnceIn(curlQueue', Sharers) /\ Precedes("failure", curlQueue', Sharers)
    BY <2>1, <2>3, AppendElems
    DEF TokenInv, OneToken, FailureIsLast, OwnTypeOK, Requests, Sharers
  <2>6. Known' \subseteq Elems(commands)
    BY <1>1, <1>2 DEF Known
  <2>7. OneToken' /\ Stages'
    BY <1>1, <1>2, <2>1, <2>2, <2>3, <2>4, <2>5 DEF TokenInv, OneToken, Stages
  <2>8. Expected'
    BY <1>1, <2>1, <2>3, <2>4, <2>5, <2>6
    DEF Expected, Pending, Open, Carriers, Sharers, Measuring
  <2>9. FailureIsLast'
    BY <1>1, <2>1, <2>3, <2>5, <2>6, <1>2 DEF TokenInv, FailureIsLast, Open, Known
  <2> QED
    BY <1>3, <2>7, <2>8, <2>9 DEF TokenInv
<1>6. CASE e.does = "startDns"
  <2>1. UNCHANGED <<curlQueue, throughput>> /\ dns' = "running"
    BY <1>6 DEF CallEdge
  <2>2. stim = "GOOD_REQUEST" /\ current = "REQUEST_MADE" /\ e.to = "DNS_TEST_RUNNING"
    BY <1>1, <1>6, EdgeFacts
  <2>3. /\ Elems(commands) \cap Carriers = {} /\ Elems(curlQueue) \cap Sharers = {}
        /\ curl \notin Sharers /\ dns # "running" /\ throughput \notin Measuring
    BY <1>2, <2>2 DEF TokenInv, OneToken, Carriers
  <2>4. /\ dns = "idle" /\ throughput = "idle" /\ record = "running" /\ results = {}
    BY <1>2, <2>2 DEF TokenInv, Stages, Expected, Answered, Known
  <2>5. Known' \subseteq Elems(commands)
    BY <1>1, <1>2 DEF Known
  <2>6. OneToken' /\ Stages'
    BY <1>1, <1>2, <2>1, <2>2, <2>3, <2>4 DEF TokenInv, OneToken, Stages, Measuring
  <2>7. Expected'
    BY <1>1, <2>1, <2>3, <2>4, <2>5
    DEF Expected, Pending, Open, Carriers, Sharers, Measuring
  <2>8. FailureIsLast'
    BY <1>1, <1>2, <2>1, <2>5 DEF TokenInv, FailureIsLast, Open, Known
  <2> QED
    BY <1>3, <2>6, <2>7, <2>8 DEF TokenInv
<1>7. CASE e.does = "startThroughput"
  <2>1. UNCHANGED <<curlQueue, dns>> /\ throughput' = "running"
    BY <1>7 DEF CallEdge
  <2>2. stim = "GOOD_REQUEST" /\ current = "POSTING_DNS_RESULTS" /\ e.to = "THROUGHPUT_RUNNING"
    BY <1>1, <1>7, EdgeFacts
  <2>3. /\ Elems(commands) \cap Carriers = {} /\ Elems(curlQueue) \cap Sharers = {}
        /\ curl \notin Sharers /\ dns # "running" /\ throughput \notin Measuring
    BY <1>2, <2>2 DEF TokenInv, OneToken, Carriers
  <2>4. /\ dns # "idle" /\ throughput = "idle" /\ record = "running" /\ results = {"dns"}
    BY <1>2, <2>2 DEF TokenInv, Stages, Expected, Answered, Known
  <2>5. Known' \subseteq Elems(commands)
    BY <1>1, <1>2 DEF Known
  <2>6. OneToken' /\ Stages'
    BY <1>1, <1>2, <2>1, <2>2, <2>3, <2>4 DEF TokenInv, OneToken, Stages, Measuring
  <2>7. Expected'
    BY <1>1, <2>1, <2>3, <2>4, <2>5
    DEF Expected, Pending, Open, Carriers, Sharers, Measuring
  <2>8. FailureIsLast'
    BY <1>1, <1>2, <2>1, <2>5 DEF TokenInv, FailureIsLast, Open, Known
  <2> QED
    BY <1>3, <2>6, <2>7, <2>8 DEF TokenInv
<1>8. CASE e.does = "postThroughput"
  <2>1. UNCHANGED <<dns, throughput>> /\ curlQueue' = Append(curlQueue, "finished")
    BY <1>8 DEF CallEdge, Post
  <2>2. stim = "THROUGHPUT_FINISHED" /\ e.to = "POSTING_THROUGHPUT_RESULTS"
    BY <1>1, <1>8, EdgeFacts
  <2>3. /\ Elems(commands) \cap Carriers = {} /\ Elems(curlQueue) \cap Sharers = {}
        /\ curl \notin Sharers /\ dns # "running" /\ throughput \notin Measuring
    BY <1>2, <2>2 DEF TokenInv, OneToken, Carriers
  <2>4. /\ Open /\ results = {"dns"} /\ throughput # "idle"
    BY <1>2, <2>2 DEF TokenInv, Expected, Known
  <2>5. /\ Elems(curlQueue') = Elems(curlQueue) \cup {"finished"}
        /\ OnceIn(curlQueue', Sharers) /\ Precedes("failure", curlQueue', Sharers)
    BY <2>1, <2>3, AppendElems
    DEF TokenInv, OneToken, FailureIsLast, OwnTypeOK, Requests, Sharers
  <2>6. Known' \subseteq Elems(commands)
    BY <1>1, <1>2 DEF Known
  <2>7. OneToken' /\ Stages'
    BY <1>1, <1>2, <2>1, <2>2, <2>3, <2>4, <2>5 DEF TokenInv, OneToken, Stages
  <2>8. Expected'
    BY <1>1, <2>1, <2>3, <2>4, <2>5, <2>6
    DEF Expected, Pending, Open, Carriers, Sharers, Measuring
  <2>9. FailureIsLast'
    BY <1>1, <1>2, <2>1, <2>3, <2>5, <2>6 DEF TokenInv, FailureIsLast, Open, Known
  <2> QED
    BY <1>3, <2>7, <2>8, <2>9 DEF TokenInv
<1> QED
  BY <1>4, <1>5, <1>6, <1>7, <1>8 DEF CallEdge

(***************************************************************************)
(* stop(): the record is finished when it is called, and stays so.         *)
(***************************************************************************)
LEMMA TeardownToken ==
    ASSUME TokenInv, SMTypeOK, OwnTypeOK,
           TellOthers \/ (\E e \in Edges : TellScheduler(e) \/ Join(e))
    PROVE  TokenInv'
<1> USE DEF curlVars, testVars, controllerVars, timerVars, schedulerVars, machineVars
<1>1. CASE TellOthers
  <2>1. commands' = Append(commands, Exit) /\ curlQueue' = Append(curlQueue, Quit)
    BY <1>1 DEF TellOthers, SendCommand
  <2>2. commands \in Seq(Stim \cup {Exit}) /\ Exit \notin Carriers
        /\ Quit \notin Sharers /\ Quit # "failure"
    BY DEF SMTypeOK, Carriers, Exit, Quit, Sharers
  <2>3. Elems(commands') = Elems(commands) \cup {Exit} /\ OnceIn(commands', Carriers)
    <3>1. OnceIn(commands, Carriers) /\ Exit \in Stim \cup {Exit}
      BY DEF TokenInv, OneToken
    <3> QED
      BY <2>1, <2>2, <3>1, AppendElems
  <2>4. /\ Elems(curlQueue') = Elems(curlQueue) \cup {Quit}
        /\ OnceIn(curlQueue', Sharers) /\ Precedes("failure", curlQueue', Sharers)
    <3>1. "failure" \notin Sharers /\ curlQueue \in Seq(Requests \cup {Quit})
      BY DEF Sharers, OwnTypeOK
    <3> QED
      BY <2>1, <2>2, <3>1, AppendElems DEF TokenInv, OneToken, FailureIsLast
  <2>5. UNCHANGED <<curl, arrived, dns, throughput, record, results, to_send, InHand, Place>>
        /\ stopping # "no"
    BY <1>1 DEF TellOthers, InHand, Place
  <2>6. TimerSends' /\ Stages' /\ StopsFinished'
    BY <2>5 DEF TokenInv, TimerSends, Stages, StopsFinished
  <2>7. OneToken'
    BY <2>2, <2>3, <2>4, <2>5 DEF TokenInv, OneToken
  <2>8. Expected' /\ FailureIsLast'
    <3>1. \A c \in Carriers : c \in Known' <=> c \in Known
      BY <2>2, <2>3, <2>5 DEF Known
    <3>2. \A r \in Sharers \cup {"failure"} : r \in Elems(curlQueue)' <=> r \in Elems(curlQueue)
      BY <2>2, <2>4
    <3> QED
      BY <2>4, <2>5, <3>1, <3>2
      DEF TokenInv, Expected, FailureIsLast, Pending, Open, Answered, Carriers, Sharers
  <2> QED
    BY <2>6, <2>7, <2>8 DEF TokenInv
<1>2. ASSUME NEW e \in Edges, TellScheduler(e)
      PROVE  TokenInv'
  <2>1. UNCHANGED <<commands, current, phase, stim, edge, to_send, curlQueue, curl, arrived,
                    dns, throughput, record, results>>
    BY <1>2 DEF TellScheduler, StopScheduler
  <2>2. phase = "call" /\ stim = "GOOD_REQUEST" /\ current = "POSTING_THROUGHPUT_RESULTS"
    BY <1>2, EdgeFacts DEF TellScheduler, Chosen, Candidates
  <2>3. record = "finished"
    BY <2>2 DEF TokenInv, Stages, Expected, Answered, Known, InHand, Place, Arming
  <2> QED
    BY <2>1, <2>3
    DEF TokenInv, TimerSends, OneToken, Stages, Expected, FailureIsLast, StopsFinished,
        InHand, Known, Place, Pending, Open, Answered
<1>3. ASSUME NEW e \in Edges, Join(e)
      PROVE  TokenInv'
  <2>1. /\ UNCHANGED <<commands, to_send, curlQueue, curl, arrived, dns, throughput,
                       record, results>>
        /\ phase' = "wait" /\ current' = e.to /\ e.to = "IDLE" /\ stopping # "no"
    BY <1>3, EdgeFacts DEF Join, Call
  <2>2. Place' = "IDLE" /\ InHand' = {}
    BY <2>1 DEF Place, InHand, Arming
  <2> QED
    BY <2>1, <2>2
    DEF TokenInv, TimerSends, OneToken, Stages, Expected, FailureIsLast, StopsFinished,
        Known, Pending, Open, Answered
<1> QED
  BY <1>1, <1>2, <1>3
(***************************************************************************)
(* AsyncCurl's thread.                                                     *)
(***************************************************************************)
LEMMA CurlToken ==
    ASSUME TokenInv, SMTypeOK, OwnTypeOK, CurlThread
    PROVE  TokenInv'
<1> USE DEF curlVars, testVars, controllerVars, timerVars, schedulerVars, machineVars, smVars
<1>1. CASE CurlTake
  <2>1. /\ curl = Idle /\ curlQueue # <<>> /\ curl' = Head(curlQueue)
        /\ curlQueue' = Tail(curlQueue) /\ arrived' = "no"
        /\ UNCHANGED <<commands, to_send, InHand, Place, dns, throughput, record, results,
                       stopping>>
    BY <1>1 DEF CurlTake, InHand, Place
  <2>2. curlQueue \in Seq(Requests \cup {Quit}) /\ Idle \notin Sharers /\ Idle # "failure"
    BY DEF OwnTypeOK, Idle, Sharers
  <2>3. /\ Elems(curlQueue') \subseteq Elems(curlQueue) /\ curl' \in Elems(curlQueue)
        /\ OnceIn(curlQueue', Sharers)
        /\ curl' \in Sharers => Elems(curlQueue') \cap Sharers = {}
        /\ Precedes("failure", curlQueue', Sharers)
        /\ curl' \in Sharers => "failure" \notin Elems(curlQueue)
    <3>1. OnceIn(curlQueue, Sharers) /\ Precedes("failure", curlQueue, Sharers)
      BY DEF TokenInv, OneToken, FailureIsLast
    <3> QED
      BY <2>1, <2>2, <3>1, TailElems
  <2>4. TimerSends' /\ Stages' /\ StopsFinished'
    BY <2>1 DEF TokenInv, TimerSends, Stages, StopsFinished
  <2>5. OneToken'
    BY <2>1, <2>3 DEF TokenInv, OneToken
  <2>6. FailureIsLast'
    BY <2>1, <2>2, <2>3 DEF TokenInv, FailureIsLast, Open, Known
  <2>7. Expected'
    <3>1. \A r : Pending(r)' => Pending(r)
      BY <2>1, <2>3 DEF Pending
    <3>2. Open => Open'
      BY <2>1, <2>2 DEF Open
    <3> QED
      BY <2>1, <3>1, <3>2 DEF TokenInv, Expected, Known, Answered
  <2> QED
    BY <2>4, <2>5, <2>6, <2>7 DEF TokenInv
<1>2. CASE CurlAnswer
  <2>1. PICK c \in {"GOOD_REQUEST", "BAD_REQUEST"} :
            commands' = Append(commands, c) /\ (c = "GOOD_REQUEST" => arrived = "accepted")
    BY <1>2 DEF CurlAnswer, SendCommand
  <2>2. /\ curl \in Sharers /\ curl' = Idle
        /\ UNCHANGED <<to_send, InHand, Place, curlQueue, arrived, dns, throughput, record,
                       results, stopping>>
    BY <1>2 DEF CurlAnswer, InHand, Place, Requests, Sharers
  <2>3. /\ Elems(commands) \cap Carriers = {} /\ InHand \cap Carriers = {}
        /\ Elems(curlQueue) \cap Sharers = {} /\ dns # "running" /\ throughput \notin Measuring
    BY <2>2 DEF TokenInv, OneToken
  <2>4. Elems(commands') = Elems(commands) \cup {c} /\ OnceIn(commands', Carriers)
    <3>1. commands \in Seq(Stim \cup {Exit}) /\ c \in Stim \cup {Exit}
      BY StimuliKnown DEF SMTypeOK
    <3>2. OnceIn(commands, Carriers)
      BY DEF TokenInv, OneToken
    <3> QED
      BY <2>1, <2>3, <3>1, <3>2, AppendElems
  <2>5. Idle \notin Sharers /\ Idle # "failure" /\ curl # "failure" /\ c \in Carriers
    BY <2>2 DEF Idle, Sharers, Carriers
  <2>6. TimerSends' /\ Stages' /\ StopsFinished'
    BY <2>2 DEF TokenInv, TimerSends, Stages, StopsFinished
  <2>7. OneToken'
    BY <2>2, <2>3, <2>4, <2>5 DEF TokenInv, OneToken
  <2>8. "failure" \notin Elems(curlQueue)
    BY <2>2 DEF TokenInv, FailureIsLast
  <2>9. FailureIsLast'
    BY <2>2, <2>5, <2>8 DEF TokenInv, FailureIsLast
  <2>10. Expected'
    <3>1. \A x \in Carriers : x \in Known' <=> x = c
      BY <2>2, <2>3, <2>4, <2>5 DEF Known
    <3>2. \A r \in Sharers : ~Pending(r)'
      BY <2>2, <2>3, <2>5 DEF Pending
    <3>3. c = "GOOD_REQUEST" => Answered'
      BY <2>1, <2>2 DEF TokenInv, Expected, Answered
    <3>4. c \notin {"START", "THROUGHPUT_FINISHED"}
      BY <2>1
    <3> QED
      BY <2>2, <2>3, <2>5, <3>1, <3>2, <3>3, <3>4 DEF Expected, Carriers, Sharers
  <2> QED
    BY <2>6, <2>7, <2>9, <2>10 DEF TokenInv
<1>3. CASE FailureReported
  BY <1>3
  DEF FailureReported, TokenInv, TimerSends, OneToken, Stages, Expected, FailureIsLast,
      StopsFinished, InHand, Known, Place, Pending, Open, Answered
<1> QED
  BY <1>1, <1>2, <1>3 DEF CurlThread

(***************************************************************************)
(* The controller.                                                         *)
(***************************************************************************)
LEMMA ControllerToken ==
    ASSUME TokenInv, Accept \/ Refuse
    PROVE  TokenInv'
<1> USE DEF testVars, controllerVars, smVars, machineVars, timerVars, schedulerVars
<1>1. /\ curl \in Sharers \cup {"failure"} /\ arrived = "no" /\ arrived' # "no"
      /\ UNCHANGED <<commands, to_send, InHand, Place, curlQueue, curl, dns, throughput,
                     stopping>>
  BY DEF Accept, Saved, Refuse, Requests, Sharers, InHand, Place
<1>2. TimerSends' /\ Stages' /\ OneToken'
  BY <1>1 DEF TokenInv, TimerSends, Stages, OneToken
<1>3. CASE Refuse
  BY <1>1, <1>2, <1>3
  DEF Refuse, TokenInv, Expected, FailureIsLast, StopsFinished, Known, Pending, Open, Answered
<1>4. CASE Accept /\ curl = "failure"
  <2>1. record = "running" /\ record' = NoState /\ results' = results /\ arrived' = "accepted"
    BY <1>1, <1>4 DEF Accept, Saved, TokenInv, FailureIsLast
  <2>2. "GOOD_REQUEST" \notin Known /\ stopping = "no"
    BY <1>4, <2>1 DEF TokenInv, FailureIsLast, StopsFinished
  <2>3. Expected'
    BY <1>1, <1>4, <2>1, <2>2 DEF TokenInv, Expected, Known, Pending, Open, Sharers
  <2> QED
    BY <1>1, <1>2, <1>4, <2>1, <2>2, <2>3
    DEF TokenInv, FailureIsLast, StopsFinished, Known, Open
<1>5. CASE Accept /\ curl \in Sharers
  <2>1. /\ Elems(commands) \cap Carriers = {} /\ InHand \cap Carriers = {}
        /\ Elems(curlQueue) \cap Sharers = {} /\ dns # "running" /\ throughput \notin Measuring
    BY <1>5 DEF TokenInv, OneToken
  <2>2. arrived' = "accepted" /\ curl # "failure" /\ "failure" \notin Elems(curlQueue)
    BY <1>5 DEF Accept, Saved, TokenInv, FailureIsLast, Sharers
  <2>3. record # "finished" /\ Answered'
    <3>1. CASE curl = "get_config"
      <4>1. record = "wait" /\ results = {} /\ dns = "idle" /\ throughput = "idle"
        BY <1>1, <3>1 DEF TokenInv, Expected, Stages, Pending, Open
      <4>2. record' = "running" /\ results' = {}
        BY <1>5, <3>1, <4>1 DEF Accept, Saved
      <4> QED
        BY <1>1, <4>1, <4>2 DEF Answered
    <3>2. CASE curl = "running"
      <4>1. record = "running" /\ results = {} /\ dns # "idle" /\ throughput = "idle"
        BY <1>1, <3>2 DEF TokenInv, Expected, Stages, Pending, Open
      <4>2. record' = "running" /\ results' = {"dns"}
        BY <1>5, <3>2, <4>1 DEF Accept, Saved
      <4> QED
        BY <1>1, <4>1, <4>2 DEF Answered
    <3>3. CASE curl = "finished"
      <4>1. record = "running" /\ throughput # "idle" /\ dns # "idle"
        BY <1>1, <3>3 DEF TokenInv, Expected, Stages, Pending, Open
      <4>2. record' = "finished"
        BY <1>5, <3>3, <4>1 DEF Accept, Saved
      <4> QED
        BY <1>1, <4>1, <4>2 DEF Answered
    <3> QED
      BY <1>5, <3>1, <3>2, <3>3 DEF Sharers
  <2>4. stopping = "no"
    BY <2>3 DEF TokenInv, StopsFinished
  <2>5. Expected'
    <3>1. Known' = Known /\ \A x \in Carriers : x \notin Known
      BY <1>1, <2>1 DEF Known
    <3>2. \A r \in Sharers : ~Pending(r)'
      BY <1>1, <2>1 DEF Pending
    <3> QED
      BY <1>1, <2>1, <2>3, <3>1, <3>2 DEF Expected, Carriers, Sharers
  <2> QED
    BY <1>1, <1>2, <2>1, <2>2, <2>4, <2>5 DEF TokenInv, FailureIsLast, StopsFinished
<1> QED
  BY <1>1, <1>3, <1>4, <1>5
(***************************************************************************)
(* The two tests.                                                          *)
(***************************************************************************)
LEMMA TestsToken ==
    ASSUME TokenInv, SMTypeOK, OwnTypeOK, Tests
    PROVE  TokenInv'
<1> USE DEF curlVars, testVars, controllerVars, timerVars, schedulerVars, machineVars, smVars
<1>1. UNCHANGED <<to_send, InHand, Place, curl, arrived, record, results, stopping>>
  BY DEF Tests, DnsPost, DnsFinish, DnsThrow, ThroughputFinish, ThroughputThrow, InHand, Place
<1>2. TimerSends' /\ StopsFinished'
  BY <1>1 DEF TokenInv, TimerSends, StopsFinished
<1>3. "failure" \notin Sharers /\ curlQueue \in Seq(Requests \cup {Quit})
      /\ commands \in Seq(Stim \cup {Exit})
  BY DEF Sharers, OwnTypeOK, SMTypeOK
<1>4. dns = "running" \/ throughput \in Measuring =>
          /\ Elems(commands) \cap Carriers = {} /\ InHand \cap Carriers = {}
          /\ Elems(curlQueue) \cap Sharers = {} /\ curl \notin Sharers /\ Open
  BY DEF TokenInv, OneToken, Expected
<1>5. \A x \in Carriers : dns = "running" \/ throughput \in Measuring => x \notin Known
  BY <1>4 DEF Known
<1>6. ASSUME dns = "running" \/ throughput \in Measuring, Post("failure"), UNCHANGED commands,
             dns' # dns => dns = "running" /\ dns' = "failed",
             throughput' \in {throughput, "failed", "probesFailed"},
             throughput' # throughput => throughput \in Measuring
      PROVE  TokenInv'
  <2>1. /\ Elems(curlQueue') = Elems(curlQueue) \cup {"failure"}
        /\ OnceIn(curlQueue', Sharers) /\ Precedes("failure", curlQueue', Sharers)
    BY <1>3, <1>4, <1>6, AppendElems DEF TokenInv, OneToken, FailureIsLast, Post, Requests
  <2>2. OneToken' /\ Stages'
    BY <1>1, <1>3, <1>4, <1>6, <2>1 DEF TokenInv, OneToken, Stages, Measuring
  <2>3. FailureIsLast'
    BY <1>1, <1>4, <1>5, <1>6, <2>1 DEF TokenInv, FailureIsLast, Open, Known, Carriers
  <2>4. Expected'
    <3>1. Known' = Known
      BY <1>1, <1>6 DEF Known
    <3>2. \A r \in Sharers : ~Pending(r)'
      BY <1>1, <1>3, <1>4, <1>6, <2>1 DEF Pending
    <3>3. dns' = "running" => dns = "running" /\ throughput' = throughput
      BY <1>6 DEF TokenInv, OneToken
    <3>4. throughput' \in Measuring => throughput \in Measuring
      BY <1>6 DEF Measuring
    <3> QED
      BY <1>1, <1>4, <1>5, <1>6, <3>1, <3>2, <3>3, <3>4
      DEF TokenInv, Expected, Open, Carriers, Sharers, Measuring
  <2> QED
    BY <1>2, <2>2, <2>3, <2>4 DEF TokenInv
<1>7. CASE DnsPost
  <2>1. dns = "running" /\ dns' = "posted" /\ UNCHANGED <<commands, throughput>>
        /\ curlQueue' = Append(curlQueue, "running")
    BY <1>7 DEF DnsPost, Post
  <2>2. throughput = "idle" /\ results = {} /\ throughput \notin Measuring
    BY <2>1 DEF TokenInv, Expected, Measuring
  <2>3. /\ Elems(curlQueue') = Elems(curlQueue) \cup {"running"}
        /\ OnceIn(curlQueue', Sharers) /\ Precedes("failure", curlQueue', Sharers)
    BY <1>3, <1>4, <2>1, AppendElems DEF TokenInv, OneToken, FailureIsLast, Requests
  <2>4. OneToken' /\ Stages'
    BY <1>1, <1>4, <2>1, <2>2, <2>3 DEF TokenInv, OneToken, Stages
  <2>5. Known' = Known
    BY <1>1, <2>1 DEF Known
  <2>6. FailureIsLast'
    BY <1>1, <1>4, <2>1, <2>3, <2>5 DEF TokenInv, FailureIsLast, Open
  <2>7. Expected'
    <3>1. ~Pending("get_config")' /\ ~Pending("finished")'
      BY <1>1, <1>4, <2>1, <2>3 DEF Pending, Sharers
    <3> QED
      BY <1>1, <1>4, <1>5, <2>1, <2>2, <2>5, <3>1 DEF Expected, Open, Carriers, Sharers
  <2> QED
    BY <1>2, <2>4, <2>6, <2>7 DEF TokenInv
<1>8. CASE DnsFinish
  <2>1. dns = "posted" /\ dns' = "done" /\ UNCHANGED <<curlQueue, throughput>>
        /\ commands' = Append(commands, "DNS_TEST_FINISHED")
    BY <1>8 DEF DnsFinish, SendCommand
  <2>2. "DNS_TEST_FINISHED" \in Stim \cup {Exit} /\ "DNS_TEST_FINISHED" \notin Carriers
        /\ OnceIn(commands, Carriers)
    BY StimuliKnown DEF Carriers, TokenInv, OneToken
  <2>3. Elems(commands') = Elems(commands) \cup {"DNS_TEST_FINISHED"}
        /\ OnceIn(commands', Carriers)
    BY <1>3, <2>1, <2>2, AppendElems
  <2>4. OneToken' /\ Stages'
    BY <1>1, <2>1, <2>2, <2>3 DEF TokenInv, OneToken, Stages
  <2>5. \A x \in Carriers : x \in Known' <=> x \in Known
    BY <1>1, <2>2, <2>3 DEF Known
  <2>6. FailureIsLast' /\ Expected'
    BY <1>1, <2>1, <2>5
    DEF TokenInv, FailureIsLast, Expected, Open, Pending, Answered, Carriers
  <2> QED
    BY <1>2, <2>4, <2>6 DEF TokenInv
<1>9. CASE ThroughputFinish
  <2>1. throughput \in Measuring /\ throughput' = "done" /\ UNCHANGED <<curlQueue, dns>>
        /\ commands' = Append(commands, "THROUGHPUT_FINISHED")
    BY <1>9 DEF ThroughputFinish, SendCommand, Measuring
  <2>2. "THROUGHPUT_FINISHED" \in Stim \cup {Exit} /\ "THROUGHPUT_FINISHED" \in Carriers
        /\ OnceIn(commands, Carriers)
    BY StimuliKnown DEF Carriers, TokenInv, OneToken
  <2>3. Elems(commands') = Elems(commands) \cup {"THROUGHPUT_FINISHED"}
        /\ OnceIn(commands', Carriers)
    BY <1>3, <1>4, <2>1, <2>2, AppendElems
  <2>4. dns # "running" /\ results = {"dns"} /\ throughput # "idle"
        /\ "done" \notin Measuring
    BY <2>1 DEF TokenInv, OneToken, Expected, Measuring
  <2>5. OneToken' /\ Stages'
    BY <1>1, <1>4, <2>1, <2>3, <2>4 DEF TokenInv, OneToken, Stages
  <2>6. \A x \in Carriers : x \in Known' <=> x = "THROUGHPUT_FINISHED"
    BY <1>1, <1>5, <2>1, <2>2, <2>3 DEF Known
  <2>7. FailureIsLast' /\ Expected'
    BY <1>1, <1>4, <2>1, <2>4, <2>6
    DEF TokenInv, FailureIsLast, Expected, Open, Pending, Carriers, Sharers
  <2> QED
    BY <1>2, <2>5, <2>7 DEF TokenInv
<1>10. CASE DnsThrow
  BY <1>6, <1>10 DEF DnsThrow
<1>11. CASE ThroughputThrow
  <2>1. throughput \in Measuring
    BY <1>11 DEF ThroughputThrow, Measuring
  <2> QED
    BY <1>6, <1>11, <2>1 DEF ThroughputThrow
<1> QED
  BY <1>7, <1>8, <1>9, <1>10, <1>11 DEF Tests
(***************************************************************************)
(* The token's way round is inductive for Mercury.                         *)
(***************************************************************************)
LEMMA TokenStep ==
    ASSUME TokenInv, SMTypeOK, OwnTypeOK, Next \/ UNCHANGED vars
    PROVE  TokenInv'
<1>1. CASE ParentKill \/ MainExit \/ UNCHANGED vars \/ \E e \in Edges : ExitEdge(e)
  BY <1>1
  DEF ParentKill, MainExit, ExitEdge, vars, smVars, machineVars, timerVars, schedulerVars,
      curlVars, testVars, controllerVars, TokenInv, TimerSends, OneToken, Stages, Expected,
      FailureIsLast, StopsFinished, InHand, Known, Place, Pending, Open, Answered
<1> QED
  BY <1>1, FrameworkToken, SchedulerToken, CallToken, TeardownToken, CurlToken, TestsToken,
     ControllerToken
  DEF Next, Process, StateMachineThread

LEMMA TokenInit ==
    ASSUME Init
    PROVE  TokenInv
<1>1. /\ commands = <<"START">> /\ current = "IDLE" /\ phase = "wait" /\ to_send = NoStim
      /\ curlQueue = <<>> /\ curl = Idle /\ arrived = "no" /\ dns = "idle"
      /\ throughput = "idle" /\ stopping = "no" /\ record = "wait" /\ results = {}
  BY MercuryAssumption DEF Init, SMInit
<1>2. Elems(commands) = {"START"} /\ Elems(curlQueue) = {} /\ InHand = {} /\ Place = "IDLE"
  BY <1>1 DEF Elems, InHand, Place, Arming
<1>3. OnceIn(commands, Carriers) /\ OnceIn(curlQueue, Sharers)
      /\ Precedes("failure", curlQueue, Sharers)
  BY <1>1 DEF OnceIn, Precedes
<1> QED
  BY <1>1, <1>2, <1>3
  DEF TokenInv, TimerSends, TimerStims, OneToken, Stages, Expected, FailureIsLast,
      StopsFinished, Known, Pending, Carriers, Sharers, Measuring, Idle

(***************************************************************************)
(* All the invariants of Mercury together.                                 *)
(***************************************************************************)
THEOREM MercuryToken == Spec => [](SMInv /\ OwnTypeOK /\ TokenInv)
<1>1. SMInv => SMTypeOK
  BY DEF SMInv
<1>2. SMInv /\ OwnTypeOK /\ TokenInv /\ [Next]_vars => TokenInv'
  BY <1>1, TokenStep
<1>3. Init => TokenInv
  BY TokenInit
<1> QED
  BY <1>2, <1>3, MercuryInductive, PTL DEF Spec

(***************************************************************************)
(* No request is made while another one may still use the two buffers of   *)
(* AsyncCurl, nor while the answer of one is looked at, although three     *)
(* threads make requests without a lock.                                   *)
(***************************************************************************)
THEOREM MercuryBuffersNotShared == Spec => []BuffersNotShared
<1>1. OwnTypeOK /\ TokenInv => BuffersNotShared
  <2> SUFFICES ASSUME OwnTypeOK, TokenInv
               PROVE  BuffersNotShared
    OBVIOUS
  <2>1. \A r : Sharing(r) <=> r \in Sharers
    BY DEF Sharing, Requests, Sharers
  <2>2. \A i, j \in 1..Len(curlQueue) : Sharing(curlQueue[i]) /\ Sharing(curlQueue[j]) => i = j
    BY <2>1 DEF TokenInv, OneToken, OnceIn
  <2>3. (\E i \in 1..Len(curlQueue) : Sharing(curlQueue[i])) => Elems(curlQueue) \cap Sharers # {}
    BY <2>1 DEF Elems
  <2>4. phase = "call" /\ stim \in {"GOOD_REQUEST", "BAD_REQUEST"} => InHand \cap Carriers # {}
    BY DEF InHand, Carriers
  <2> QED
    BY <2>1, <2>2, <2>3, <2>4 DEF BuffersNotShared, TokenInv, OneToken
<1> QED
  BY <1>1, MercuryToken, PTL

(***************************************************************************)
(* To the controller a test of a router is what RouterTest says, whatever  *)
(* the interleaving of its threads, its time-outs and its failures.        *)
(***************************************************************************)
THEOREM MercuryImplementsRouterTest == Spec => ImplementsRouterTest
<1>1. Init => Abstract!Init
  BY DEF Init, Abstract!Init
<1>2. TokenInv /\ [Next]_vars => [Abstract!Next]_(Abstract!testVars)
  <2> SUFFICES ASSUME TokenInv, [Next]_vars
               PROVE  Abstract!Next \/ UNCHANGED <<record, results, exitCode>>
    BY DEF Abstract!testVars
  <2>1. CASE Accept
    <3>1. CASE curl = "get_config"
      BY <2>1, <3>1
      DEF Accept, Saved, TokenInv, Expected, Pending, Abstract!Next, Abstract!FetchConfig
    <3>2. CASE curl = "running"
      <4>1. record = "running" /\ results = {}
        BY <2>1, <3>2 DEF Accept, Saved, TokenInv, Expected, Pending, Open
      <4>2. record' = "running" /\ results' = {"dns"} /\ exitCode' = exitCode
        BY <2>1, <3>2, <4>1 DEF Accept, Saved
      <4> QED
        BY <4>1, <4>2 DEF Abstract!Next, Abstract!SaveDns
    <3>3. CASE curl = "finished"
      <4>1. record = "running" /\ results = {"dns"}
        BY <2>1, <3>3 DEF Accept, Saved, TokenInv, Expected, Pending, Open
      <4>2. record' = "finished" /\ results' = {"dns", "throughput"} /\ exitCode' = exitCode
        BY <2>1, <3>3, <4>1 DEF Accept, Saved
      <4> QED
        BY <4>1, <4>2 DEF Abstract!Next, Abstract!SaveThroughput
    <3>4. CASE curl = "failure"
      <4>1. record = "running"
        BY <2>1, <3>4 DEF Accept, Saved, TokenInv, FailureIsLast
      <4>2. record' = NoState /\ results' = results /\ exitCode' = exitCode
        BY <2>1, <3>4 DEF Accept, Saved
      <4> QED
        BY <4>1, <4>2 DEF Abstract!Next, Abstract!SaveFailure, NoState, Abstract!NoState
    <3> QED
      BY <2>1, <3>1, <3>2, <3>3, <3>4 DEF Accept, Saved, Requests
  <2>2. CASE exitCode = "none" /\ (ParentKill \/ FailureReported \/ \E e \in Edges : ExitEdge(e))
    BY <2>2
    DEF ParentKill, FailureReported, ExitEdge, controllerVars, Abstract!Next, Abstract!End
  <2>3. CASE exitCode = "none" /\ MainExit
    BY <2>3
    DEF MainExit, TokenInv, StopsFinished, controllerVars, Abstract!Next, Abstract!End
  <2>4. CASE UNCHANGED <<record, results, exitCode>>
    BY <2>4
  <2> QED
    BY <2>1, <2>2, <2>3, <2>4
    DEF Next, Process, StateMachineThread, Framework, TellOthers, MachineExit, CallEdge,
        TellScheduler, Join, SchedulerThread, CurlThread, CurlTake, CurlAnswer, Tests, DnsPost,
        DnsFinish, DnsThrow, ThroughputFinish, ThroughputThrow, Refuse, vars, controllerVars
<1> QED
  BY <1>1, <1>2, MercuryToken, PTL DEF Spec, ImplementsRouterTest, Abstract!Spec
=============================================================================
