------------------------------ MODULE Mercury ------------------------------
(***************************************************************************)
(* One test of a router: the process main.cpp forks when a controller asks *)
(* for a test (src/mercury/private/Mercury.hpp, Mercury_StateMachine.hpp,  *)
(* src/curl/AsyncCurl.cpp), up to its exit.                                *)
(*                                                                         *)
(* Threads: the state machine's and the scheduler's (module StateMachine), *)
(* AsyncCurl's, which performs one HTTP request at a time and calls back   *)
(* with the answer, and the threads of the DNS and the throughput test,    *)
(* which report when they are done.  Their common currency is the stimulus: *)
(* each of them calls sendStimulus.                                        *)
(*                                                                         *)
(* The controller (src/zeus/rest_api/router.py) is here for what it makes  *)
(* of a request.  A request may take for ever: AsyncCurl sets no time-out. *)
(* The parent process may kill the test at any moment.                     *)
(***************************************************************************)
EXTENDS StateMachine

States == {"IDLE", "REQUEST_MADE", "TIMEOUT", "DNS_TEST_RUNNING",
           "POSTING_DNS_RESULTS", "THROUGHPUT_RUNNING", "POSTING_THROUGHPUT_RESULTS"}

Stims == {"START", "BAD_REQUEST", "GOOD_REQUEST", "WAIT_TIMEOUT",
          "DNS_TEST_FINISHED", "THROUGHPUT_FINISHED", "TIMEOUT_STIM"}

Effects == {"none", "getConfig", "startDns", "startThroughput", "postThroughput",
            "exit1", "exit3", "stop"}

MakeEdge(from, on, does, arm, to) ==
    [from |-> from, on |-> on, does |-> does, arm |-> arm, to |-> to]

\* setup_state_machine() and the functions it names.  onGoodRequest goes
\* three ways: the answer does not parse, it says failure, it is a
\* configuration.  The first is also the way of a failure without a
\* "config", which parseMercuryTestConfig looks up in any case.
Table == {
    MakeEdge("IDLE", "START", "getConfig", "TIMEOUT_STIM", "REQUEST_MADE"),
    MakeEdge("REQUEST_MADE", "GOOD_REQUEST", "none", NoStim, "IDLE"),
    MakeEdge("REQUEST_MADE", "GOOD_REQUEST", "none", "WAIT_TIMEOUT", "TIMEOUT"),
    MakeEdge("REQUEST_MADE", "GOOD_REQUEST", "startDns", NoStim, "DNS_TEST_RUNNING"),
    MakeEdge("REQUEST_MADE", "BAD_REQUEST", "none", "WAIT_TIMEOUT", "TIMEOUT"),
    MakeEdge("REQUEST_MADE", "TIMEOUT_STIM", "exit3", NoStim, "REQUEST_MADE"),
    MakeEdge("TIMEOUT", "WAIT_TIMEOUT", "exit1", NoStim, "IDLE"),
    MakeEdge("DNS_TEST_RUNNING", "DNS_TEST_FINISHED", "none", "TIMEOUT_STIM", "POSTING_DNS_RESULTS"),
    MakeEdge("POSTING_DNS_RESULTS", "TIMEOUT_STIM", "exit3", NoStim, "POSTING_DNS_RESULTS"),
    MakeEdge("POSTING_DNS_RESULTS", "GOOD_REQUEST", "startThroughput", "TIMEOUT_STIM", "THROUGHPUT_RUNNING"),
    MakeEdge("POSTING_DNS_RESULTS", "BAD_REQUEST", "none", "WAIT_TIMEOUT", "TIMEOUT"),
    MakeEdge("THROUGHPUT_RUNNING", "THROUGHPUT_FINISHED", "postThroughput", "TIMEOUT_STIM",
             "POSTING_THROUGHPUT_RESULTS"),
    MakeEdge("THROUGHPUT_RUNNING", "TIMEOUT_STIM", "exit3", NoStim, "THROUGHPUT_RUNNING"),
    MakeEdge("POSTING_THROUGHPUT_RESULTS", "TIMEOUT_STIM", "exit3", NoStim, "POSTING_THROUGHPUT_RESULTS"),
    MakeEdge("POSTING_THROUGHPUT_RESULTS", "GOOD_REQUEST", "stop", NoStim, "IDLE"),
    MakeEdge("POSTING_THROUGHPUT_RESULTS", "BAD_REQUEST", "none", "WAIT_TIMEOUT", "TIMEOUT") }

ASSUME MercuryAssumption ==
    /\ State = States /\ Stim = Stims /\ Effect = Effects
    /\ Initial = "IDLE" /\ Edges = Table

VARIABLES
    curlQueue,  \* AsyncCurl::requests
    curl,       \* the request AsyncCurl performs
    arrived,    \* did it reach the controller, and was it accepted?
    dns,        \* the DNS test
    throughput, \* the throughput test
    stopping,   \* how far Process::stop() is
    record,     \* the controller's TestResult.state
    results,    \* the results the controller has saved
    exitCode    \* how the process ended, "none" while it runs

curlVars == <<curlQueue, curl, arrived>>
testVars == <<dns, throughput>>
controllerVars == <<record, results>>
vars == <<smVars, curlVars, testVars, stopping, controllerVars, exitCode>>

Requests == {"get_config", "running", "finished", "failure"}
Idle == "idle"
Quit == "quit"      \* the NULL that stop() pushes

\* run(): sendStimulus(START) once the threads are there.
Init ==
    /\ SMInit(<<"START">>)
    /\ curlQueue = <<>> /\ curl = Idle /\ arrived = "no"
    /\ dns = "idle" /\ throughput = "idle"
    /\ stopping = "no"
    /\ record = "wait" /\ results = {}
    /\ exitCode = "none"
-----------------------------------------------------------------------------
(***************************************************************************)
(* Mistaken variants of the operations below; see module BlockingQueue.    *)
(***************************************************************************)

\* The NULL is not pushed: AsyncCurl::stop() does nothing.
TellOthers_NoQuit ==
    /\ stopping = "scheduler"
    /\ SendCommand(Exit)
    /\ stopping' = "told"
    /\ UNCHANGED <<current, phase, stim, edge, timerVars, schedulerVars, curlVars,
                   testVars, controllerVars, exitCode>>

\* The status of the answer is not looked at.
CurlAnswer_AnyStatus ==
    /\ curl \in Requests \ {"failure"}
    /\ \/ arrived # "no" /\ SendCommand("GOOD_REQUEST")
       \/ SendCommand("BAD_REQUEST")
    /\ curl' = Idle
    /\ UNCHANGED <<current, phase, stim, edge, timerVars, schedulerVars, curlQueue, arrived,
                   testVars, stopping, controllerVars, exitCode>>

\* Each half of the DNS test posts what it has measured.
DnsPost_EachHalf ==
    /\ dns = "running"
    /\ curlQueue' = Append(curlQueue, "running")
    /\ dns' \in {"running", "posted"}
    /\ UNCHANGED <<smVars, curl, arrived, throughput, stopping, controllerVars, exitCode>>

\* get_config does not set the state.
Accept_NotRunning ==
    /\ curl \in Requests /\ arrived = "no"
    /\ arrived' = "accepted"
    /\ record' = curl
    /\ UNCHANGED <<smVars, curlQueue, curl, testVars, stopping, results, exitCode>>
-----------------------------------------------------------------------------
(* The state machine's thread *)

\* The steps of StateMachine that run no function of ours.
Framework ==
    /\ TakeStim \/ ClearTimeout \/ StoreStim \/ Engage \/ Schedule
    /\ UNCHANGED <<curlVars, testVars, stopping, controllerVars, exitCode>>

Post(r) == curlQueue' = Append(curlQueue, r)

\* onStart, onGoodRequest, onBadRequest, onDnsComplete, onDnsResultsPosted,
\* onThroughputTestFinished: what they set going, before they arm the timer.
CallEdge(e) ==
    /\ e.does \in {"none", "getConfig", "startDns", "startThroughput", "postThroughput"}
    /\ Call(e) \/ CallAndCancel(e)
    /\ CASE e.does = "getConfig" -> Post("get_config")
         [] e.does = "postThroughput" -> Post("finished")
         [] OTHER -> UNCHANGED curlQueue
    /\ dns' = IF e.does = "startDns" THEN "running" ELSE dns
    /\ throughput' = IF e.does = "startThroughput" THEN "running" ELSE throughput
    /\ UNCHANGED <<commands, curl, arrived, stopping, controllerVars, exitCode>>

\* onTimeout and onWaitTimeoutComplete call exit().
ExitEdge(e) ==
    /\ Chosen(e) /\ e.does \in {"exit1", "exit3"}
    /\ exitCode' = IF e.does = "exit1" THEN "gaveUp" ELSE "timedOut"
    /\ UNCHANGED <<smVars, curlVars, testVars, stopping, controllerVars>>

\* onThroughputResultsPosted calls Process::stop(): every thread of the
\* process is told to stop, ...
TellScheduler(e) ==
    /\ Chosen(e) /\ e.does = "stop" /\ stopping = "no"
    /\ StopScheduler
    /\ stopping' = "scheduler"
    /\ UNCHANGED <<curlVars, testVars, controllerVars, exitCode>>

TellOthers ==
    /\ stopping = "scheduler"
    /\ SendCommand(Exit)
    /\ curlQueue' = Append(curlQueue, Quit)
    /\ stopping' = "told"
    /\ UNCHANGED <<current, phase, stim, edge, timerVars, schedulerVars, curl, arrived,
                   testVars, controllerVars, exitCode>>

\* ... and joined; the thread of the state machine, which runs this, cannot
\* join itself and goes on.  Then m_wait_mutex is unlocked.
Join(e) ==
    /\ e.does = "stop" /\ stopping = "told"
    /\ sched = "done" /\ curl = Quit
    /\ Call(e)
    /\ stopping' = "joined"
    /\ UNCHANGED <<commands, curlVars, testVars, controllerVars, exitCode>>

\* The main thread was in waitForExit(); start_child calls exit(0).
MainExit ==
    /\ stopping = "joined"
    /\ exitCode' = "ok"
    /\ UNCHANGED <<smVars, curlVars, testVars, stopping, controllerVars>>

\* The loop of the state machine ends with the EXIT of stop().
MachineExit ==
    /\ TakeExit
    /\ UNCHANGED <<curlVars, testVars, stopping, controllerVars, exitCode>>

StateMachineThread ==
    \/ Framework \/ TellOthers \/ MachineExit
    \/ \E e \in Edges : CallEdge(e) \/ ExitEdge(e) \/ TellScheduler(e) \/ Join(e)

SchedulerThread ==
    /\ Scheduler
    /\ UNCHANGED <<curlVars, testVars, stopping, controllerVars, exitCode>>
-----------------------------------------------------------------------------
(* AsyncCurl::run *)

\* front, pop, and curl_easy_perform begins; or the NULL ends the loop.
CurlTake ==
    /\ curl = Idle /\ curlQueue # <<>>
    /\ curl' = Head(curlQueue)
    /\ curlQueue' = Tail(curlQueue)
    /\ arrived' = "no"
    /\ UNCHANGED <<smVars, testVars, stopping, controllerVars, exitCode>>

\* Mercury::onOK with status 200, or any other status, or onException.  The
\* controller answers 200 when it has accepted the request (and to the edit of
\* a record deleted in the middle of it: deletion is not modelled here).
CurlAnswer ==
    /\ curl \in Requests \ {"failure"}
    /\ \/ arrived = "accepted" /\ SendCommand("GOOD_REQUEST")
       \/ SendCommand("BAD_REQUEST")
    /\ curl' = Idle
    /\ UNCHANGED <<current, phase, stim, edge, timerVars, schedulerVars, curlQueue, arrived,
                   testVars, stopping, controllerVars, exitCode>>

\* CurlExceptionHandler::onOK and onException: exit(127) either way.
FailureReported ==
    /\ curl = "failure"
    /\ exitCode' = "exception"
    /\ UNCHANGED <<smVars, curlVars, testVars, stopping, controllerVars>>
-----------------------------------------------------------------------------
(* The tests *)

\* onTestComplete(dns::TestResults) posts the results first ...
DnsPost ==
    /\ dns = "running"
    /\ Post("running")
    /\ dns' = "posted"
    /\ UNCHANGED <<smVars, curl, arrived, throughput, stopping, controllerVars, exitCode>>

\* ... and then sends the stimulus.
DnsFinish ==
    /\ dns = "posted"
    /\ SendCommand("DNS_TEST_FINISHED")
    /\ dns' = "done"
    /\ UNCHANGED <<current, phase, stim, edge, timerVars, schedulerVars, curlVars,
                   throughput, stopping, controllerVars, exitCode>>

\* onTestComplete(throughput::TestResults).  A test whose probes have failed
\* goes on to its report.
ThroughputFinish ==
    /\ throughput \in {"running", "probesFailed"}
    /\ SendCommand("THROUGHPUT_FINISHED")
    /\ throughput' = "done"
    /\ UNCHANGED <<current, phase, stim, edge, timerVars, schedulerVars, curlVars,
                   dns, stopping, controllerVars, exitCode>>

\* An exception ends the thread of a test: bind, sendTo or connect throws,
\* and CurlExceptionHandler::onException posts the failure.
DnsThrow ==
    /\ dns = "running"
    /\ dns' = "failed"
    /\ Post("failure")
    /\ UNCHANGED <<smVars, curl, arrived, throughput, stopping, controllerVars, exitCode>>

\* sendTo of a probe throws in the thread of the test's scheduler, not in that
\* of run(), which does not hear of it.
ThroughputThrow ==
    /\ \/ throughput \in {"running", "probesFailed"} /\ throughput' = "failed"
       \/ throughput = "running" /\ throughput' = "probesFailed"
    /\ Post("failure")
    /\ UNCHANGED <<smVars, curl, arrived, dns, stopping, controllerVars, exitCode>>
-----------------------------------------------------------------------------
(* The controller, and the parent process *)

\* A failure is reported as "failure", which is not one of STATES: MySQL saves
\* the empty string, or in its strict mode an error (Refuse).
NoState == ""
Saved(state) == IF state = "failure" THEN NoState ELSE state

\* router.py: get_config makes the record running; edit saves the state and
\* the results of the data.  The request arrives even when the process that
\* made it has ended meanwhile.
Accept ==
    /\ curl \in Requests /\ arrived = "no"
    /\ arrived' = "accepted"
    /\ record' = IF curl = "get_config" THEN "running" ELSE Saved(curl)
    /\ results' = results \cup (IF curl = "running" THEN {"dns"}
                                ELSE IF curl = "finished" THEN {"throughput"} ELSE {})
    /\ UNCHANGED <<smVars, curlQueue, curl, testVars, stopping, exitCode>>

\* Any other answer: 401 from requires_router_token, 500 from an exception.
Refuse ==
    /\ curl \in Requests /\ arrived = "no"
    /\ arrived' = "refused"
    /\ UNCHANGED <<smVars, curlQueue, curl, testVars, stopping, controllerVars, exitCode>>

\* SIGTERM or SIGKILL from main.cpp, 300 seconds after the fork.
ParentKill ==
    /\ exitCode' = "killed"
    /\ UNCHANGED <<smVars, curlVars, testVars, stopping, controllerVars>>
-----------------------------------------------------------------------------
CurlThread == CurlTake \/ CurlAnswer \/ FailureReported

Tests == DnsPost \/ DnsFinish \/ DnsThrow \/ ThroughputFinish \/ ThroughputThrow

Process ==
    /\ exitCode = "none"
    /\ StateMachineThread \/ SchedulerThread \/ CurlThread \/ Tests \/ MainExit \/ ParentKill

Next == Process \/ Accept \/ Refuse

Spec == Init /\ [][Next]_vars

(***************************************************************************)
(* The threads of the process run, and a timer that is scheduled is due    *)
(* some day.  Nothing obliges the controller to answer, a test to finish   *)
(* or the parent to kill.                                                  *)
(***************************************************************************)
Fairness ==
    /\ WF_vars(exitCode = "none" /\ StateMachineThread)
    /\ WF_vars(exitCode = "none" /\ SchedulerThread)
    /\ WF_vars(exitCode = "none" /\ CurlTake)
    /\ WF_vars(exitCode = "none" /\ MainExit)

FairSpec == Spec /\ Fairness
-----------------------------------------------------------------------------
TypeOK ==
    /\ SMTypeOK
    /\ curlQueue \in Seq(Requests \cup {Quit})
    /\ curl \in Requests \cup {Idle, Quit}
    /\ arrived \in {"no", "accepted", "refused"}
    /\ dns \in {"idle", "running", "posted", "done", "failed"}
    /\ throughput \in {"idle", "running", "probesFailed", "done", "failed"}
    /\ stopping \in {"no", "scheduler", "told", "joined"}
    /\ record \in {"wait", "running", "finished", NoState}
    /\ results \subseteq {"dns", "throughput"}
    /\ exitCode \in {"none", "ok", "gaveUp", "timedOut", "exception", "killed"}

(***************************************************************************)
(* Seen from the controller, whatever the interleaving of the threads, the *)
(* time-outs and the lost answers: the throughput results never reach a    *)
(* record without DNS results, nothing follows the final report, and the   *)
(* process ends with exit(0) only for a record that is finished.  No step  *)
(* makes the record "failed": a test that times out or throws leaves it    *)
(* running, or without a state.                                            *)
(***************************************************************************)
Abstract == INSTANCE RouterTest
ImplementsRouterTest == Abstract!Spec

(***************************************************************************)
(* libcurl reads the body of a request while it performs it, out of the    *)
(* one m_post_fields the next request is written to, and the answer goes   *)
(* to the one m_response that onGoodRequest and onBadRequest read: no      *)
(* request is made while another is not answered, nor is one under way     *)
(* while those two run.  Three threads make requests and no lock is held.  *)
(***************************************************************************)
Sharing(r) == r \in Requests \ {"failure"}
BuffersNotShared ==
    LET queued == {i \in 1..Len(curlQueue) : Sharing(curlQueue[i])}
    IN  /\ \A i, j \in queued : i = j
        /\ Sharing(curl) => queued = {}
        /\ phase = "call" /\ stim \in {"GOOD_REQUEST", "BAD_REQUEST"} =>
               queued = {} /\ ~Sharing(curl)

\* The states whose function arms the timer before it returns.
Timed == {"REQUEST_MADE", "TIMEOUT", "POSTING_DNS_RESULTS", "THROUGHPUT_RUNNING",
          "POSTING_THROUGHPUT_RESULTS"}

(***************************************************************************)
(* A controller that never answers and a test that never finishes do not   *)
(* hold the process: each state that waits for them is left, because its   *)
(* timer cannot be lost, whatever became of the timers before it.          *)
(***************************************************************************)
TimedStatesEnd ==
    \A s \in Timed : current = s ~> (current # s \/ exitCode # "none" \/ stopping # "no")

(***************************************************************************)
(* stop() is called on the thread of the state machine, which is one of    *)
(* the threads it waits for, while AsyncCurl is still in the callback that *)
(* led here: the teardown comes to its end all the same.                   *)
(***************************************************************************)
TeardownEnds == stopping # "no" ~> exitCode # "none"

(***************************************************************************)
(* "This will be cleared if another stim comes first" (StateMachine.hpp,   *)
(* line 75): a time-out the machine acts upon was not overtaken by another *)
(* stimulus, so no newer timer is engaged when it is taken.                *)
(***************************************************************************)
StaleTimeoutCleared ==
    [][TakeStim /\ phase' = "clear" /\ Head(commands) \in {"TIMEOUT_STIM", "WAIT_TIMEOUT"}
        => ~engaged]_vars
=============================================================================
