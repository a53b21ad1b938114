----------------------------- MODULE Supervisor -----------------------------
(***************************************************************************)
(* The process of main.cpp: it forks two helpers, the logger of stderr and *)
(* the monitor, then serves one controller after the other.  A good        *)
(* handshake makes it fork a test, which it waits for, terminates, kills   *)
(* and reaps.  It learns of the end of a process by SIGCHLD, whose handler *)
(* signals a condition without taking its mutex: the signal is lost when   *)
(* the parent is not blocked on the condition at that moment, and it does  *)
(* not say which process has ended.                                        *)
(*                                                                         *)
(* Time is abstracted: a timed wait may time out at any moment.            *)
(***************************************************************************)
EXTENDS FiniteSets

CONSTANTS
    Tests,      \* bound: the tests there are to fork
    Helpers,    \* the logger and the monitor
    Faults      \* what may go wrong, a subset of AllFaults

AllFaults == {
    "forkFails",    \* fork() returns -1
    "lingers",      \* a killed process outlives the parent's return to accept()
    "helperDies" }  \* the logger or the monitor crashes

Nobody == "nobody"
Failed == "failed"  \* the pid -1

ASSUME SupervisorAssumption ==
    /\ Faults \subseteq AllFaults
    /\ Tests \cap Helpers = {}
    /\ {Nobody, Failed} \cap (Tests \cup Helpers) = {}

VARIABLES
    phase,      \* where the parent is in its loop
    child,      \* what start_child returned
    status,     \* each process: unborn, running, a zombie, or reaped
    signalled,  \* the processes that were sent SIGTERM
    killed      \* the processes that were sent SIGKILL

vars == <<phase, child, status, signalled, killed>>

Processes == Tests \cup Helpers
Running == {p \in Processes : status[p] = "running"}

Init ==
    /\ phase = "accept" /\ child = Nobody
    /\ status = [p \in Processes |-> IF p \in Helpers THEN "running" ELSE "unborn"]
    /\ signalled = {} /\ killed = {}
-----------------------------------------------------------------------------
Go(from, to) == phase = from /\ phase' = to

(***************************************************************************)
(* Mistaken variants of the operations below; see module BlockingQueue.    *)
(***************************************************************************)

\* The pid -1 is taken for that of a process.
Target_AnyPid == {child}

\* One timed wait only.
Terminate_ThenReap ==
    /\ Go("wait", "reap")
    /\ signalled' = signalled \cup ({child} \cap Running)
    /\ UNCHANGED <<child, status, killed>>

\* A second time-out is given up on.
Kill_Forgotten == Go("waitAgain", "reap") /\ UNCHANGED <<child, status, signalled, killed>>

\* SIGTERM once more.
Kill_Sigterm ==
    /\ Go("waitAgain", "terminated")
    /\ signalled' = signalled \cup ({child} \cap Running)
    /\ UNCHANGED <<child, status, killed>>
-----------------------------------------------------------------------------
(* The parent *)

Accept == Go("accept", "read") /\ UNCHANGED <<child, status, signalled, killed>>

\* 64 bytes with the magic cookie: the mutex is locked.  Bound: Tests.
GoodCookie ==
    /\ Go("read", "fork")
    /\ \E t \in Tests : status[t] = "unborn"
    /\ UNCHANGED <<child, status, signalled, killed>>

\* Anything else, and sleep(5).
BadCookie == Go("read", "penalty") /\ UNCHANGED <<child, status, signalled, killed>>

PenaltyOver == Go("penalty", "accept") /\ UNCHANGED <<child, status, signalled, killed>>

\* What has been told to end, and ends by the next fork unless it may linger.
Doomed == killed \cup (signalled \cap Helpers)

\* start_child()
Fork(t) ==
    /\ Go("fork", "forked")
    /\ status[t] = "unborn"
    /\ "lingers" \notin Faults => Doomed \cap Running = {}
    /\ child' = t
    /\ status' = [status EXCEPT ![t] = "running"]
    /\ UNCHANGED <<signalled, killed>>

ForkFails ==
    /\ "forkFails" \in Faults
    /\ Go("fork", "forked")
    /\ child' = Failed
    /\ UNCHANGED <<status, signalled, killed>>

\* timedwait blocks, for 300 seconds.
Wait == Go("forked", "wait") /\ UNCHANGED <<child, status, signalled, killed>>

\* kill(child, ...): the pid -1 stands for every process there is.
Target == IF child = Failed THEN Running ELSE {child} \cap Running

Terminate ==
    /\ Go("wait", "terminated")
    /\ signalled' = signalled \cup Target
    /\ UNCHANGED <<child, status, killed>>

\* timedwait blocks, for 10 seconds.
WaitAgain == Go("terminated", "waitAgain") /\ UNCHANGED <<child, status, signalled, killed>>

Kill ==
    /\ Go("waitAgain", "reap")
    /\ killed' = killed \cup Target
    /\ UNCHANGED <<child, status, signalled>>

\* waitpid(child, WNOHANG), and back to accept().  The pid -1 stands for any
\* child.
Reap ==
    /\ Go("reap", "accept")
    /\ LET zombies == {p \in Processes : status[p] = "zombie" /\ child \in {p, Failed}}
       IN  IF zombies = {}
           THEN UNCHANGED status
           ELSE \E p \in zombies : status' = [status EXCEPT ![p] = "reaped"]
    /\ child' = Nobody
    /\ UNCHANGED <<signalled, killed>>

Parent ==
    \/ Accept \/ GoodCookie \/ BadCookie \/ PenaltyOver
    \/ (\E t \in Tests : Fork(t)) \/ ForkFails
    \/ Wait \/ Terminate \/ WaitAgain \/ Kill \/ Reap
-----------------------------------------------------------------------------
(* The other processes *)

\* A process ends, and sigchld_hdlr signals g_cond.  The parent that is woken
\* up goes on to waitpid, whichever process it was.
Die(p) ==
    /\ status[p] = "running"
    /\ p \in Helpers => p \in Doomed \/ "helperDies" \in Faults
    /\ status' = [status EXCEPT ![p] = "zombie"]
    /\ phase' = IF phase \in {"wait", "waitAgain"} THEN "reap" ELSE phase
    /\ UNCHANGED <<child, signalled, killed>>

Next == Parent \/ \E p \in Processes : Die(p)

Spec == Init /\ [][Next]_vars

(***************************************************************************)
(* The parent runs, and a wait that nothing ends times out.  It reads what *)
(* a controller sends only if the controller sends it: no fairness there.  *)
(* A test may hang, even when it has been sent SIGTERM; SIGKILL it cannot  *)
(* survive for ever.                                                       *)
(***************************************************************************)
Fairness ==
    /\ WF_vars(PenaltyOver) /\ WF_vars(Wait) /\ WF_vars(Terminate)
    /\ WF_vars(WaitAgain) /\ WF_vars(Kill) /\ WF_vars(Reap)
    /\ WF_vars(\E p \in killed : Die(p))

FairSpec == Spec /\ Fairness
-----------------------------------------------------------------------------
TypeOK ==
    /\ phase \in {"accept", "read", "penalty", "fork", "forked", "wait", "terminated",
                  "waitAgain", "reap"}
    /\ child \in Tests \cup {Nobody, Failed}
    /\ status \in [Processes -> {"unborn", "running", "zombie", "reaped"}]
    /\ signalled \subseteq Processes
    /\ killed \subseteq Processes

(***************************************************************************)
(* Two tests never run side by side: they would share the line to the      *)
(* monitor and disturb each other's measurements.  Nothing but the waiting *)
(* of the parent sees to that, and a wake-up does not say whom it is for.  *)
(***************************************************************************)
OneTestAtATime == \A s, t \in Tests \cap Running : s = t

(***************************************************************************)
(* A lost SIGCHLD costs time and nothing else: only a test that would not  *)
(* end before SIGKILL is left as a zombie when the parent has moved on.    *)
(***************************************************************************)
OnlyKilledStayZombies ==
    \A t \in Tests \ {child} : status[t] = "zombie" => t \in killed

(***************************************************************************)
(* A test that hangs is ended, and the parent listens again: no order of   *)
(* time-outs, signals and deaths leaves a test alone or holds the parent.  *)
(***************************************************************************)
EveryTestEnds ==
    \A t \in Tests : /\ status[t] = "running" ~> status[t] # "running"
                    /\ child = t ~> phase = "accept"

(***************************************************************************)
(* "The child is taking too long to return kill it" (main.cpp, lines       *)
(* 159-160): what the parent signals is the test it has forked.            *)
(***************************************************************************)
OnlyTheChildIsKilled == (signalled \cup killed) \cap Helpers = {}
=============================================================================
