------------------------------- MODULE Hermes -------------------------------
(***************************************************************************)
(* The test of a phone (src/hermes/Android): the main thread with its      *)
(* screens, the thread of the Communication service and the thread of the  *)
(* TestService pass messages to each other, and all of them read and write *)
(* the one TestState.                                                      *)
(*                                                                         *)
(* The TestService is made when the results screen opens and destroyed     *)
(* when it closes, unless a test is on.  To destroy it the main thread     *)
(* puts a QUIT at the end of the tester's queue and waits for its thread:  *)
(* what is queued before it is still handled.                              *)
(*                                                                         *)
(* The Communication service is stopped when no activity needs it any      *)
(* more.  That is counted, and MainActivity is counted twice when it       *)
(* starts and once when it stops: its onResume calls super.onStart().      *)
(*                                                                         *)
(* A broadcast reaches those who are registered when it is sent and still  *)
(* are when it is delivered.  The connection to the service of the own     *)
(* process is taken to come before the next input of the user and before   *)
(* the next broadcast, and the stop of a screen that was left before the   *)
(* next is left.  What the tests measure is left out.                      *)
(***************************************************************************)
EXTENDS Naturals, Sequences

CONSTANTS
    MaxOpenings,    \* bound: how often the results screen is started
    MaxActivities   \* bound: the application is left below this count only

ASSUME HermesAssumption == MaxOpenings \in Nat /\ MaxActivities \in Nat

VARIABLES
    state,          \* TestState.state; the three kinds of tests are "TESTING"
    screen,         \* what is shown; "covered" and "home" are other screens,
                    \* above the results and above the main screen
    destroying,     \* does the main thread wait in TestService.onDestroy?
    settings,       \* is a SettingsActivity yet to be stopped?
    activities,     \* ActivitesThatNeedService
    service,        \* which TestService: how many there have been
    looper,         \* the message queue of the tester
    timeouts,       \* the STATE_TIMEOUTs that are not due yet
    tester,         \* what the tester's thread does
    listening,      \* is the Communication service there?
    comm,           \* the message queue of the Communication service
    broadcasts,     \* "TestCompleted" intents on their way
    openings,       \* how often the results screen was opened
    runs,           \* how many tests the controller has given settings for
    reported        \* the tests reported to the controller

screenVars == <<screen, destroying, settings, activities>>
testerVars == <<looper, timeouts, tester>>
commVars == <<listening, comm, runs, reported>>
hermesVars == <<state, screenVars, service, testerVars, commVars, broadcasts, openings>>

Null == 0           \* no settings, or results that are not valid
Dead == [at |-> "dead"]
Waiting == [at |-> "waiting"]

Message(what, obj) == [what |-> what, obj |-> obj]
Broadcast(results, heard, shown) == [results |-> results, heard |-> heard, shown |-> shown]
-----------------------------------------------------------------------------
(***************************************************************************)
(* Mistaken variants of the operations below; see module BlockingQueue.    *)
(***************************************************************************)

\* The time-out of the state is not asked for.
StartTest_NoTimeout(queue) ==
    /\ state' = "PREPARING"
    /\ comm' = Append(queue, Message("REQUEST_TEST", service'))
    /\ UNCHANGED timeouts

\* A time-out that is late takes up the test again.
Timeout_Resumes(st) == IF st = "PREPARING" THEN "IDLE" ELSE "TESTING"


\* The results are reported without a look whether they are valid.
Heard_NotValid(b) == b.heard

\* The tester is not told to quit.
OnDestroy_NoQuit == destroying' = TRUE /\ UNCHANGED looper
-----------------------------------------------------------------------------
\* MainActivity starts: its onStart and its onResume each raise the count.
MainStarted(count) == count + 2

HermesInit ==
    /\ state = "IDLE" /\ screen = "main" /\ service = 0
    /\ destroying = FALSE /\ settings = FALSE /\ activities = MainStarted(0)
    /\ looper = <<>> /\ timeouts = 0 /\ tester = Dead
    /\ listening = TRUE /\ comm = <<>> /\ broadcasts = <<>>
    /\ openings = 0 /\ runs = 0 /\ reported = {}
-----------------------------------------------------------------------------
(* The main thread *)

\* TestService.startTest: setState arms the time-out.
StartTest(queue) ==
    /\ state' = "PREPARING"
    /\ timeouts' = timeouts + 1
    /\ comm' = Append(queue, Message("REQUEST_TEST", service'))

\* checkStatus: the other states only choose what is shown.
CheckStatus(queue) ==
    IF state = "IDLE" THEN StartTest(queue) ELSE comm' = queue /\ UNCHANGED <<state, timeouts>>

\* HermesActivity.onStart starts the Communication service and binds to it;
\* if it was stopped, its thread has been waited for.
BindCommunication == listening' = TRUE /\ (~listening => comm = <<>>)

\* HermesActivity.onStop: is the Communication service to be stopped?
Unneeded(count) == count = 0 /\ state \in {"IDLE", "COMPLETED"}

\* ResultsActivity.onStart, on top of the main screen, which stops then, or
\* coming back; onCreate of the TestService unless it has survived the last
\* visit; onServiceConnected.
OpenResults ==
    /\ ~destroying /\ screen \in {"main", "covered"} /\ openings < MaxOpenings
    /\ screen' = "results" /\ openings' = openings + 1
    /\ activities' = activities + (IF screen = "covered" THEN 1 ELSE 0)
    /\ BindCommunication
    /\ IF tester = Dead
       THEN service' = service + 1 /\ tester' = Waiting
       ELSE UNCHANGED <<service, tester>>
    /\ CheckStatus(comm)
    /\ UNCHANGED <<destroying, settings, looper, runs, reported, broadcasts>>

\* onBackPressed; the activity is stopped later.
BackPressed ==
    /\ ~destroying /\ ~settings
    /\ screen = "results" /\ screen' = "leaving"
    /\ state' = IF state = "COMPLETED" THEN "IDLE" ELSE state
    /\ UNCHANGED <<destroying, settings, activities, service, testerVars, commVars,
                   broadcasts, openings>>

\* TestService.onDestroy
OnDestroy == destroying' = TRUE /\ looper' = Append(looper, Message("QUIT", Null))

\* What is on its way reaches the Communication service if that is still
\* there, and does not reach the results screen.
Undelivered ==
    broadcasts' = [i \in DOMAIN broadcasts |->
                      Broadcast(broadcasts[i].results, broadcasts[i].heard /\ listening', FALSE)]

\* onStop of the results: the main screen is back, or another one covers them.
OnStop ==
    /\ ~destroying /\ ~settings /\ screen \in {"results", "leaving"}
    /\ \/ /\ screen = "leaving" /\ screen' = "main"
          /\ activities' = MainStarted(activities) - 1
          /\ UNCHANGED settings
       \/ /\ screen = "results" /\ screen' = "covered"
          /\ activities' = activities - 1
          /\ settings' \in BOOLEAN
    /\ listening' = (listening /\ ~Unneeded(activities'))
    /\ IF state \in {"IDLE", "COMPLETED"} THEN OnDestroy ELSE UNCHANGED <<destroying, looper>>
    /\ Undelivered
    /\ UNCHANGED <<state, service, timeouts, tester, comm, runs, reported, openings>>

\* testThread.join() returns.
Destroyed ==
    /\ destroying /\ tester = Dead
    /\ destroying' = FALSE
    /\ UNCHANGED <<state, screen, settings, activities, service, testerVars, commVars,
                   broadcasts, openings>>

\* SettingsActivity.onStop, which comes after onStart of the screen below,
\* sets the state without a look at it.
StopSettings ==
    /\ ~destroying /\ settings /\ settings' = FALSE
    /\ state' = "IDLE"
    /\ UNCHANGED <<screen, destroying, activities, service, testerVars, commVars,
                   broadcasts, openings>>

\* The main screen stops, for the settings or because the application is left.
Leave ==
    /\ ~destroying /\ ~settings /\ screen = "main" /\ activities < MaxActivities
    /\ screen' = "home" /\ activities' = activities - 1
    /\ settings' \in BOOLEAN
    /\ listening' = (listening /\ ~Unneeded(activities'))
    /\ Undelivered
    /\ UNCHANGED <<state, destroying, service, testerVars, comm, runs, reported, openings>>

\* The main screen is back.
Return ==
    /\ ~destroying /\ screen = "home" /\ screen' = "main"
    /\ activities' = MainStarted(activities)
    /\ BindCommunication
    /\ UNCHANGED <<state, destroying, settings, service, testerVars, comm, runs, reported,
                   broadcasts, openings>>

\* Communication's receiver takes valid results.
Heard(b) == b.heard /\ b.results # Null

\* A broadcast: Communication has the results reported.  The screen takes
\* the results or, if they are not valid, resets the state.
Receive ==
    /\ broadcasts # <<>> /\ ~destroying
    /\ broadcasts' = Tail(broadcasts)
    /\ UNCHANGED <<screenVars, service, looper, tester, listening, runs, reported, openings>>
    /\ LET b == Head(broadcasts)
           queue == IF Heard(b) THEN Append(comm, Message("REPORT_TEST", b.results)) ELSE comm
       IN  \/ ~b.shown /\ comm' = queue /\ UNCHANGED <<state, timeouts>>
           \/ b.shown /\ b.results = Null /\ comm' = queue /\ state' = "IDLE" /\ UNCHANGED timeouts
           \/ b.shown /\ b.results # Null /\ CheckStatus(queue)

MainThread == Receive \/ Destroyed
User == OpenResults \/ BackPressed \/ OnStop \/ StopSettings \/ Leave \/ Return
-----------------------------------------------------------------------------
(* The thread of the TestService *)

Upcoming(what) == tester = Waiting /\ looper # <<>> /\ Head(looper).what = what

\* START_TEST: the tests begin, or the results are those of an error.
HandleStart ==
    /\ Upcoming("START_TEST")
    /\ looper' = Tail(looper)
    /\ IF Head(looper).obj = Null
       THEN state' = "COMPLETED" /\ tester' = [at |-> "completed", results |-> Null]
       ELSE state' = "TESTING" /\ tester' = [at |-> "testing", run |-> Head(looper).obj, stage |-> 0]
    /\ UNCHANGED <<screenVars, service, timeouts, commVars, broadcasts, openings>>

\* runTests sets the state at each of its three stages, whatever it is.
Stage ==
    /\ tester.at = "testing" /\ tester.stage < 3
    /\ tester' = [tester EXCEPT !.stage = @ + 1]
    /\ state' = "TESTING"
    /\ UNCHANGED <<screenVars, service, looper, timeouts, commVars, broadcasts, openings>>

\* The results are valid unless a socket could not be opened.
Finish ==
    /\ tester.at = "testing" /\ tester.stage = 3
    /\ \E results \in {Null, tester.run} : tester' = [at |-> "completed", results |-> results]
    /\ state' = "COMPLETED"
    /\ UNCHANGED <<screenVars, service, looper, timeouts, commVars, broadcasts, openings>>

SendBroadcast ==
    /\ tester.at = "completed"
    /\ tester' = Waiting
    /\ broadcasts' = Append(broadcasts, Broadcast(tester.results, listening,
                                                   screen \in {"results", "leaving"}))
    /\ UNCHANGED <<state, screenVars, service, looper, timeouts, commVars, openings>>

\* TestState.timeout
Timeout(st) == IF st = "PREPARING" THEN "IDLE" ELSE st

HandleTimeout ==
    /\ Upcoming("STATE_TIMEOUT")
    /\ looper' = Tail(looper)
    /\ state' = Timeout(state)
    /\ UNCHANGED <<screenVars, service, timeouts, tester, commVars, broadcasts, openings>>

\* The looper is left with all it still has.
HandleQuit ==
    /\ Upcoming("QUIT")
    /\ looper' = <<>> /\ timeouts' = 0 /\ tester' = Dead
    /\ UNCHANGED <<state, screenVars, service, commVars, broadcasts, openings>>

Tester == HandleStart \/ Stage \/ Finish \/ SendBroadcast \/ HandleTimeout \/ HandleQuit

\* 20 seconds have passed since a STATE_TIMEOUT was sent.
TimeoutDue ==
    /\ timeouts > 0 /\ timeouts' = timeouts - 1
    /\ looper' = Append(looper, Message("STATE_TIMEOUT", Null))
    /\ UNCHANGED <<state, screenVars, service, tester, commVars, broadcasts, openings>>
-----------------------------------------------------------------------------
(* The thread of the Communication service *)

\* serverStartTest: settings, an error - or, after an exception, nothing -
\* for the service that asked, if it is still there.
HandleRequest ==
    /\ comm # <<>> /\ Head(comm).what = "REQUEST_TEST"
    /\ comm' = Tail(comm)
    /\ \E obj \in {runs + 1, Null} :
          /\ runs' = IF obj = Null THEN runs ELSE runs + 1
          /\ \/ /\ Head(comm).obj = service /\ tester # Dead
                /\ looper' = Append(looper, Message("START_TEST", obj))
             \/ /\ obj = Null \/ Head(comm).obj # service \/ tester = Dead
                /\ UNCHANGED looper
    /\ UNCHANGED <<state, screenVars, service, timeouts, tester, listening, reported, broadcasts, openings>>

\* reportTest: the results are posted; a failure is only logged.
HandleReport ==
    /\ comm # <<>> /\ Head(comm).what = "REPORT_TEST"
    /\ comm' = Tail(comm)
    /\ reported' = reported \cup {Head(comm).obj}
    /\ UNCHANGED <<state, screenVars, service, testerVars, listening, runs, broadcasts, openings>>

Comm == HandleRequest \/ HandleReport
-----------------------------------------------------------------------------
HermesNext == MainThread \/ User \/ Tester \/ TimeoutDue \/ Comm

HermesSpec == HermesInit /\ [][HermesNext]_hermesVars

\* The three threads run and the clock does not stop; the user may do
\* nothing.  A request over HTTP ends by its time limits of 8 seconds.
HermesFairSpec ==
    /\ HermesSpec
    /\ WF_hermesVars(MainThread) /\ WF_hermesVars(Tester)
    /\ WF_hermesVars(TimeoutDue) /\ WF_hermesVars(Comm)
-----------------------------------------------------------------------------
HermesTypeOK ==
    /\ state \in {"IDLE", "PREPARING", "TESTING", "COMPLETED"}
    /\ screen \in {"main", "results", "leaving", "covered", "home"}
    /\ destroying \in BOOLEAN /\ settings \in BOOLEAN /\ activities \in Nat
    /\ service \in Nat /\ openings \in 0..MaxOpenings /\ runs \in Nat
    /\ timeouts \in Nat /\ listening \in BOOLEAN
    /\ looper \in Seq([what : {"START_TEST", "STATE_TIMEOUT", "QUIT"}, obj : Nat])
    /\ tester \in {Dead, Waiting} \cup [at : {"testing"}, run : Nat \ {Null}, stage : 0..3]
                  \cup [at : {"completed"}, results : Nat]
    /\ comm \in Seq([what : {"REQUEST_TEST"}, obj : Nat]
                    \cup [what : {"REPORT_TEST"}, obj : Nat \ {Null}])
    /\ broadcasts \in Seq([results : Nat, heard : BOOLEAN, shown : BOOLEAN])
    /\ reported \subseteq Nat \ {Null}

(***************************************************************************)
(* Who reads that a test is on can rely on its end: the state is TESTING   *)
(* only while the tester's thread is in runTests, which will set it to     *)
(* COMPLETED - whichever of the main thread, the time-outs of earlier      *)
(* preparations and a second test behind the first set it in between.      *)
(***************************************************************************)
TestingIsOn == state = "TESTING" => tester.at = "testing"

(***************************************************************************)
(* A preparation ends although the Communication service sends nothing     *)
(* after an exception, the tester may be busy, and the screen that asked   *)
(* may be gone: its time-out reaches a tester that is there.               *)
(***************************************************************************)
PreparationEnds == state = "PREPARING" ~> state # "PREPARING"


(***************************************************************************)
(* The main thread, which waits for the tester's thread to destroy the     *)
(* service, is not kept waiting for ever.                                  *)
(***************************************************************************)
DestructionEnds == destroying ~> ~destroying
=============================================================================
