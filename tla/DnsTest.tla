------------------------------ MODULE DnsTest ------------------------------
(***************************************************************************)
(* The DNS test of a router (src/mercury/dns/Test.cpp): a state machine of *)
(* its own that asks a server for one name after the other, the valid      *)
(* names first, and notes for each how long the answer took, or that none  *)
(* came in time.                                                           *)
(*                                                                         *)
(* The thread of the file collection reads each datagram the server sends  *)
(* and turns it into a stimulus.  It looks at no identifier: a datagram    *)
(* that is late, or comes twice, is taken for the answer to the name asked *)
(* for by then.  packets_sent, which allows for several packets a name, is *)
(* compared with 1 and left out.                                           *)
(***************************************************************************)
EXTENDS StateMachine

CONSTANTS
    Valid,          \* how many valid names the configuration has
    Invalid,        \* how many invalid names it has
    MaxDatagrams    \* bound: how many datagrams the server sends in all

States == {"IDLE", "PACKET_SENT"}

Stims == {"BEGIN_TEST", "PACKET_RECEIEVED", "STOP_TEST", "TIMEOUT"}

Effects == {"begin", "ask", "report"}

MakeEdge(from, on, does, arm, to) ==
    [from |-> from, on |-> on, does |-> does, arm |-> arm, to |-> to]

\* The edges the constructor sets; move_along goes two ways.
Table == {
    MakeEdge("IDLE", "BEGIN_TEST", "begin", "TIMEOUT", "PACKET_SENT"),
    MakeEdge("PACKET_SENT", "PACKET_RECEIEVED", "ask", "TIMEOUT", "PACKET_SENT"),
    MakeEdge("PACKET_SENT", "PACKET_RECEIEVED", "report", NoStim, "IDLE"),
    MakeEdge("PACKET_SENT", "TIMEOUT", "ask", "TIMEOUT", "PACKET_SENT"),
    MakeEdge("PACKET_SENT", "TIMEOUT", "report", NoStim, "IDLE") }

\* The controller sends ten names of each kind (zeus/models/config.py): an
\* empty list of valid names would end the test before it begins, and
\* move_along takes the front of the invalid ones without a look.
ASSUME DnsAssumption ==
    /\ State = States /\ Stim = Stims /\ Effect = Effects
    /\ Initial = "IDLE" /\ Edges = Table
    /\ Valid \in Nat \ {0} /\ Invalid \in Nat \ {0}
    /\ MaxDatagrams \in Nat

VARIABLES
    waiting,            \* m_waiting_to_resolve: how many names it holds
    testing_invalid,    \* m_testing_invalid
    valid,              \* m_valid_latency_times: answered or lost
    invalid,            \* m_invalid_latency_times
    reported,           \* has onTestComplete been called?
    asked,              \* how many queries were sent
    datagrams           \* how many datagrams have been read

surveyVars == <<waiting, testing_invalid, valid, invalid, reported>>
vars == <<smVars, surveyVars, asked, datagrams>>

\* startTest
Init ==
    /\ SMInit(<<"BEGIN_TEST">>)
    /\ waiting = 0 /\ testing_invalid = FALSE
    /\ valid = <<>> /\ invalid = <<>>
    /\ reported = FALSE
    /\ asked = 0 /\ datagrams = 0
-----------------------------------------------------------------------------
Verdict == IF stim = "TIMEOUT" THEN "lost" ELSE "answered"

(***************************************************************************)
(* Mistaken variants of the operations below; see module BlockingQueue.    *)
(***************************************************************************)

\* onTimeout forgets its push_back(-1).
Judge_OnlyAnswers ==
    /\ valid' = IF testing_invalid \/ stim = "TIMEOUT" THEN valid ELSE Append(valid, Verdict)
    /\ invalid' = IF testing_invalid /\ stim # "TIMEOUT" THEN Append(invalid, Verdict) ELSE invalid

\* The queue is taken to hold another name.
MoveAlong_NoLook == waiting' = waiting - 1 /\ UNCHANGED testing_invalid

-----------------------------------------------------------------------------
\* The steps of StateMachine that run no function of ours.
Framework ==
    /\ TakeStim \/ ClearTimeout \/ StoreStim \/ Engage \/ Schedule
    /\ UNCHANGED <<surveyVars, asked, datagrams>>

\* enqueue_request_vector, and the first name.
Begin ==
    /\ waiting' = waiting + Valid - 1
    /\ testing_invalid' = FALSE
    /\ valid' = <<>> /\ invalid' = <<>>

\* m_latency_times->push_back
Judge ==
    /\ valid' = IF testing_invalid THEN valid ELSE Append(valid, Verdict)
    /\ invalid' = IF testing_invalid THEN Append(invalid, Verdict) ELSE invalid

\* move_along: the next name, of the same kind or the first of the other.
MoveAlong ==
    \/ waiting > 0 /\ waiting' = waiting - 1 /\ UNCHANGED testing_invalid
    \/ waiting = 0 /\ ~testing_invalid /\ waiting' = Invalid - 1 /\ testing_invalid' = TRUE

\* onBeginTest, onPacketReceieved and onTimeout up to send_dns.
Survey(e) ==
    \/ e.does = "begin" /\ Begin
    \/ e.does = "ask" /\ Judge /\ MoveAlong

\* send_dns relies on the server: no timer.
SendDns_NoTimer(e) ==
    /\ Survey(e) /\ Chosen(e)
    /\ phase' = "wait" /\ stim' = NoStim /\ current' = e.to
    /\ asked' = asked + 1
    /\ UNCHANGED <<commands, edge, timerVars, schedulerVars, reported, datagrams>>

\* send_dns, up to setTimeoutStim.
SendDns(e) ==
    /\ Survey(e) /\ CallAndCancel(e)
    /\ asked' = asked + 1
    /\ UNCHANGED <<commands, reported, datagrams>>

\* bind throws, before the survey begins, or sendTo, after the step it was
\* to make: the exception ends the thread of the machine.
Throw(e) ==
    /\ Chosen(e)
    /\ \/ e.does = "begin" /\ UNCHANGED <<waiting, testing_invalid, valid, invalid>>
       \/ Survey(e)
    /\ phase' = "done"
    /\ UNCHANGED <<commands, current, stim, edge, timerVars, schedulerVars, reported, asked,
                   datagrams>>

\* send_results: every name has its verdict.
SendResults(e) ==
    /\ e.does = "report" /\ waiting = 0 /\ testing_invalid
    /\ Call(e) /\ Judge
    /\ reported' = TRUE
    /\ UNCHANGED <<commands, waiting, testing_invalid, asked, datagrams>>

MachineThread ==
    \/ Framework
    \/ \E e \in Edges : SendDns(e) \/ Throw(e) \/ SendResults(e)

SchedulerThread ==
    /\ Scheduler
    /\ UNCHANGED <<surveyVars, asked, datagrams>>

\* observe(): a datagram of the server, however late, and perhaps for the
\* second time.
Observe ==
    /\ asked > 0 /\ datagrams < MaxDatagrams
    /\ SendCommand("PACKET_RECEIEVED")
    /\ datagrams' = datagrams + 1
    /\ UNCHANGED <<current, phase, stim, edge, timerVars, schedulerVars, surveyVars, asked>>

Next == MachineThread \/ SchedulerThread \/ Observe

Spec == Init /\ [][Next]_vars

\* The two threads run and a timer comes due; the server owes us nothing.
FairSpec == Spec /\ WF_vars(MachineThread) /\ WF_vars(SchedulerThread)
-----------------------------------------------------------------------------
Verdicts == {"answered", "lost"}

TypeOK ==
    /\ SMTypeOK
    /\ waiting \in 0..(Valid + Invalid) /\ testing_invalid \in BOOLEAN
    /\ valid \in Seq(Verdicts) /\ invalid \in Seq(Verdicts)
    /\ reported \in BOOLEAN
    /\ asked \in Nat /\ datagrams \in 0..MaxDatagrams

(***************************************************************************)
(* Whatever is lost, late or doubled, and although a time-out and the      *)
(* answer it gave up on can both reach the machine: every name gets one    *)
(* verdict, in order, and the report is made once, with all of them.       *)
(***************************************************************************)
SurveySpec == INSTANCE Survey
ImplementsSurvey == SurveySpec!Spec

(***************************************************************************)
(* A server that never answers does not hold the test: unless a system     *)
(* call throws it reports, on the strength of its one timer alone.         *)
(***************************************************************************)
TestReports == <>(reported \/ phase = "done")
=============================================================================
