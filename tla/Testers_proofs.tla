--------------------------- MODULE Testers_proofs ---------------------------
(***************************************************************************)
(* The two parts that run one test at a time for somebody else: the parent *)
(* process on the router (module Supervisor) and the tester on the phone   *)
(* (module Hermes).                                                        *)
(*                                                                         *)
(* As long as what the parent kills is dead by its next fork and the       *)
(* helpers do not crash, any number of tests run one after the other, and  *)
(* the parent reaps each of them that does not need SIGKILL.  fork() may   *)
(* fail.                                                                   *)
(*                                                                         *)
(* The phone keeps its types, and the state TESTING means what it says,    *)
(* for every number of openings of the screen.                             *)
(***************************************************************************)
EXTENDS Supervisor, Hermes, SequenceTheorems, TLAPS

-----------------------------------------------------------------------------
(***************************************************************************)
(* The parent process on the router.                                       *)
(***************************************************************************)
\* The phases in which start_child has returned.
Busy == phase \in {"forked", "wait", "terminated", "waitAgain", "reap"}

ChildWhileBusy == child # Nobody <=> Busy

\* A test the parent does not wait for is one it has killed.
StraysAreKilled == \A t \in Tests \cap Running : t = child \/ t \in killed

\* While it waits for a test, no other process can end and wake the parent.
WokenByTheChild ==
    phase \in {"forked", "wait", "terminated", "waitAgain"} /\ child \in Tests =>
        /\ Tests \cap Running \subseteq {child}
        /\ Doomed \cap Helpers \cap Running = {}

\* The wait for a test ends with its death or with SIGKILL.
EndedOrKilled ==
    phase = "reap" /\ child \in Tests /\ status[child] = "running" => child \in killed

SupervisorInv ==
    /\ TypeOK
    /\ ChildWhileBusy
    /\ StraysAreKilled
    /\ WokenByTheChild
    /\ EndedOrKilled
    /\ OneTestAtATime
    /\ OnlyKilledStayZombies

(***************************************************************************)
(* The parent's steps that change nothing but its place.                   *)
(***************************************************************************)
LEMMA MoveInv ==
    ASSUME SupervisorInv,
           \/ Accept \/ GoodCookie \/ BadCookie \/ PenaltyOver \/ Wait \/ WaitAgain
    PROVE  SupervisorInv'
<1>1. /\ UNCHANGED <<child, status, signalled, killed>>
      /\ \/ phase \in {"accept", "read", "penalty"} /\ phase' \in {"accept", "read", "penalty", "fork"}
         \/ phase = "forked" /\ phase' = "wait"
         \/ phase = "terminated" /\ phase' = "waitAgain"
  BY DEF Accept, GoodCookie, BadCookie, PenaltyOver, Wait, WaitAgain, Go
<1> QED
  BY <1>1
  DEF SupervisorInv, TypeOK, ChildWhileBusy, Busy, StraysAreKilled, WokenByTheChild,
      EndedOrKilled, OneTestAtATime, OnlyKilledStayZombies, Running, Doomed

(***************************************************************************)
(* start_child() forks a test when none is running, or fails.              *)
(***************************************************************************)
LEMMA ForkInv ==
    ASSUME Faults \subseteq {"forkFails"}, SupervisorInv, NEW t \in Tests, Fork(t)
    PROVE  SupervisorInv'
<1> USE DEF SupervisorInv
<1>1. /\ phase = "fork" /\ phase' = "forked" /\ child' = t
      /\ status' = [status EXCEPT ![t] = "running"] /\ status[t] = "unborn"
      /\ Doomed \cap Running = {} /\ UNCHANGED <<signalled, killed>>
  BY DEF Fork, Go
<1>2. child = Nobody
  BY <1>1 DEF ChildWhileBusy, Busy
<1>3. t # Nobody /\ t \in Processes /\ t \notin Helpers
  BY SupervisorAssumption DEF Processes
<1>4. Tests \cap Running = {}
  BY <1>1, <1>2, SupervisorAssumption DEF StraysAreKilled, Doomed, Running
<1>5. Running' = Running \cup {t}
  BY <1>1, <1>3 DEF Running, TypeOK
<1>6. TypeOK'
  BY <1>1, <1>3 DEF TypeOK
<1>7. ChildWhileBusy'
  BY <1>1, <1>3 DEF ChildWhileBusy, Busy
<1>8. StraysAreKilled' /\ OneTestAtATime' /\ EndedOrKilled'
  BY <1>1, <1>4, <1>5 DEF StraysAreKilled, OneTestAtATime, EndedOrKilled
<1>9. WokenByTheChild'
  BY <1>1, <1>3, <1>4, <1>5 DEF WokenByTheChild, Doomed
<1>10. OnlyKilledStayZombies'
  <2> SUFFICES ASSUME NEW u \in Tests, u # t, status'[u] = "zombie"
               PROVE  u \in killed'
    BY <1>1 DEF OnlyKilledStayZombies
  <2>1. u # child /\ status[u] = "zombie"
    BY <1>1, <1>2, <1>3, SupervisorAssumption DEF TypeOK, Processes
  <2> QED
    BY <1>1, <2>1 DEF OnlyKilledStayZombies
<1> QED
  BY <1>6, <1>7, <1>8, <1>9, <1>10

(***************************************************************************)
(* fork() fails: the parent goes on with the pid -1.                       *)
(***************************************************************************)
LEMMA ForkFailsInv ==
    ASSUME SupervisorInv, ForkFails
    PROVE  SupervisorInv'
<1>1. /\ phase = "fork" /\ phase' = "forked" /\ child' = Failed
      /\ child = Nobody /\ Failed # Nobody /\ Failed \notin Tests
      /\ UNCHANGED <<status, signalled, killed>>
  BY SupervisorAssumption
  DEF ForkFails, Go, SupervisorInv, ChildWhileBusy, Busy, Failed, Nobody
<1>2. Nobody \notin Tests
  BY SupervisorAssumption
<1> QED
  BY <1>1, <1>2
  DEF SupervisorInv, TypeOK, ChildWhileBusy, Busy, StraysAreKilled, WokenByTheChild,
      EndedOrKilled, OneTestAtATime, OnlyKilledStayZombies, Running

(***************************************************************************)
(* SIGTERM and SIGKILL reach the child, or every process when there is none. *)
(***************************************************************************)
LEMMA SignalInv ==
    ASSUME SupervisorInv, Terminate \/ Kill
    PROVE  SupervisorInv'
<1> USE DEF SupervisorInv
<1>1. Target \subseteq Running /\ (child # Failed => Target = {child} \cap Running)
  BY DEF Target
<1>2. Running \subseteq Processes /\ Failed \notin Tests
  BY SupervisorAssumption DEF Running
<1>3. CASE Terminate
  <2>1. /\ phase = "wait" /\ phase' = "terminated"
        /\ signalled' = signalled \cup Target /\ UNCHANGED <<child, status, killed>>
    BY <1>3 DEF Terminate, Go
  <2>2. TypeOK'
    BY <1>1, <1>2, <2>1 DEF TypeOK
  <2>3. WokenByTheChild'
    BY <1>1, <1>2, <2>1, SupervisorAssumption DEF WokenByTheChild, Doomed, Running
  <2> QED
    BY <2>1, <2>2, <2>3
    DEF ChildWhileBusy, Busy, StraysAreKilled, EndedOrKilled, OneTestAtATime,
        OnlyKilledStayZombies, Running
<1>4. CASE Kill
  <2>1. /\ phase = "waitAgain" /\ phase' = "reap"
        /\ killed' = killed \cup Target /\ UNCHANGED <<child, status, signalled>>
    BY <1>4 DEF Kill, Go
  <2>2. TypeOK'
    BY <1>1, <1>2, <2>1 DEF TypeOK
  <2>3. EndedOrKilled'
    BY <1>1, <1>2, <2>1 DEF EndedOrKilled, Running, Processes
  <2> QED
    BY <2>1, <2>2, <2>3
    DEF ChildWhileBusy, Busy, StraysAreKilled, WokenByTheChild, OneTestAtATime,
        OnlyKilledStayZombies, Running
<1> QED
  BY <1>3, <1>4

(***************************************************************************)
(* waitpid() takes a child that is dead; the parent forgets it either way. *)
(***************************************************************************)
LEMMA ReapInv ==
    ASSUME SupervisorInv, Reap
    PROVE  SupervisorInv'
<1> USE DEF SupervisorInv
<1> DEFINE zombies == {p \in Processes : status[p] = "zombie" /\ child \in {p, Failed}}
<1>1. /\ phase = "reap" /\ phase' = "accept" /\ child' = Nobody
      /\ \/ zombies = {} /\ status' = status
         \/ \E p \in zombies : status' = [status EXCEPT ![p] = "reaped"]
      /\ UNCHANGED <<signalled, killed>>
  BY DEF Reap, Go
<1>2. /\ Running' = Running /\ TypeOK'
      /\ \A q \in Processes : status'[q] = "zombie" => status[q] = "zombie"
      /\ child \in Tests => status'[child] # "zombie"
  <2>1. CASE zombies = {} /\ status' = status
    BY <1>1, <2>1 DEF Running, TypeOK, Processes
  <2>2. CASE \E p \in zombies : status' = [status EXCEPT ![p] = "reaped"]
    <3> PICK p \in zombies : status' = [status EXCEPT ![p] = "reaped"]
      BY <2>2
    <3>1. child \in Tests => child = p
      BY SupervisorAssumption
    <3> QED
      BY <1>1, <3>1 DEF Running, TypeOK
  <2> QED
    BY <1>1, <2>1, <2>2
<1>3. StraysAreKilled' /\ OneTestAtATime'
  BY <1>1, <1>2 DEF StraysAreKilled, OneTestAtATime, EndedOrKilled, Running
<1>4. OnlyKilledStayZombies'
  BY <1>1, <1>2 DEF OnlyKilledStayZombies, Processes
<1> QED
  BY <1>1, <1>2, <1>3, <1>4 DEF ChildWhileBusy, Busy, WokenByTheChild, EndedOrKilled

(***************************************************************************)
(* A process ends: the one the parent waits for, or one it has killed.     *)
(***************************************************************************)
LEMMA DieInv ==
    ASSUME Faults \subseteq {"forkFails"}, SupervisorInv, NEW p \in Processes, Die(p)
    PROVE  SupervisorInv'
<1> USE DEF SupervisorInv
<1>1. /\ status[p] = "running" /\ status' = [status EXCEPT ![p] = "zombie"]
      /\ p \in Helpers => p \in Doomed
      /\ phase' = IF phase \in {"wait", "waitAgain"} THEN "reap" ELSE phase
      /\ UNCHANGED <<child, signalled, killed>>
  BY DEF Die
<1>2. Running' = Running \ {p} /\ p \in Running
  BY <1>1 DEF Running, TypeOK
<1>3. TypeOK'
  BY <1>1 DEF TypeOK
<1>4. ChildWhileBusy'
  BY <1>1 DEF ChildWhileBusy, Busy
<1>5. StraysAreKilled' /\ OneTestAtATime'
  BY <1>1, <1>2 DEF StraysAreKilled, OneTestAtATime
<1>6. WokenByTheChild'
  BY <1>1, <1>2 DEF WokenByTheChild, Doomed
<1>7. EndedOrKilled'
  <2> SUFFICES ASSUME phase' = "reap", child \in Tests, status'[child] = "running"
               PROVE  child \in killed
    BY <1>1 DEF EndedOrKilled
  <2>1. child # p /\ status[child] = "running" /\ child \in Processes
    BY <1>1 DEF TypeOK, Processes
  <2>2. CASE phase = "reap"
    BY <2>1, <2>2 DEF EndedOrKilled
  <2>3. CASE phase \in {"wait", "waitAgain"}
    <3>1. p \in Tests \/ p \in Doomed \cap Helpers \cap Running
      BY <1>1, <1>2 DEF Processes
    <3> QED
      BY <1>2, <2>1, <2>3, <3>1 DEF WokenByTheChild
  <2> QED
    BY <1>1, <2>2, <2>3
<1>8. OnlyKilledStayZombies'
  BY <1>1, <1>2 DEF OnlyKilledStayZombies, StraysAreKilled, TypeOK, Processes
<1> QED
  BY <1>3, <1>4, <1>5, <1>6, <1>7, <1>8

(***************************************************************************)
(* The strengthening is inductive.                                         *)
(***************************************************************************)
THEOREM SupervisorInductive ==
    ASSUME Faults \subseteq {"forkFails"}
    PROVE  Spec => []SupervisorInv
<1>1. Init => SupervisorInv
  <2> SUFFICES ASSUME Init
               PROVE  SupervisorInv
    OBVIOUS
  <2>1. \A t \in Tests : status[t] = "unborn"
    BY SupervisorAssumption DEF Init, Processes
  <2>2. TypeOK
    BY DEF Init, TypeOK
  <2> QED
    BY <2>1, <2>2
    DEF Init, SupervisorInv, ChildWhileBusy, Busy, StraysAreKilled, WokenByTheChild,
        EndedOrKilled, OneTestAtATime, OnlyKilledStayZombies, Running
<1>2. SupervisorInv /\ [Next]_vars => SupervisorInv'
  <2> SUFFICES ASSUME SupervisorInv, [Next]_vars
               PROVE  SupervisorInv'
    OBVIOUS
  <2>1. CASE Parent
    BY <2>1, MoveInv, ForkInv, ForkFailsInv, SignalInv, ReapInv DEF Parent
  <2>2. CASE \E p \in Processes : Die(p)
    BY <2>2, DieInv
  <2>3. CASE UNCHANGED vars
    BY <2>3
    DEF vars, SupervisorInv, TypeOK, ChildWhileBusy, Busy, StraysAreKilled, WokenByTheChild,
        EndedOrKilled, OneTestAtATime, OnlyKilledStayZombies, Running, Doomed
  <2> QED
    BY <2>1, <2>2, <2>3 DEF Next
<1> QED
  BY <1>1, <1>2, PTL DEF Spec

(***************************************************************************)
(* Two tests never run side by side (startMercury, start_child).           *)
(***************************************************************************)
THEOREM SupervisorOneTestAtATime ==
    ASSUME Faults \subseteq {"forkFails"}
    PROVE  Spec => []OneTestAtATime
<1>1. SupervisorInv => OneTestAtATime
  BY DEF SupervisorInv
<1> QED
  BY <1>1, SupervisorInductive, PTL

(***************************************************************************)
(* A lost SIGCHLD leaves no zombie: only what had to be killed stays one.  *)
(***************************************************************************)
THEOREM SupervisorReaps ==
    ASSUME Faults \subseteq {"forkFails"}
    PROVE  Spec => []OnlyKilledStayZombies
<1>1. SupervisorInv => OnlyKilledStayZombies
  BY DEF SupervisorInv
<1> QED
  BY <1>1, SupervisorInductive, PTL

(***************************************************************************)
(* The variables of the parent's loop keep their types.                    *)
(***************************************************************************)
THEOREM SupervisorTypeCorrect ==
    ASSUME Faults \subseteq {"forkFails"}
    PROVE  Spec => []TypeOK
<1>1. SupervisorInv => TypeOK
  BY DEF SupervisorInv
<1> QED
  BY <1>1, SupervisorInductive, PTL

-----------------------------------------------------------------------------
(***************************************************************************)
(* The tester on the phone.                                                *)
(***************************************************************************)
LooperMessages == [what : {"START_TEST", "STATE_TIMEOUT", "QUIT"}, obj : Nat]
CommMessages == [what : {"REQUEST_TEST"}, obj : Nat]
                \cup [what : {"REPORT_TEST"}, obj : Nat \ {Null}]
Intents == [results : Nat, heard : BOOLEAN, shown : BOOLEAN]

\* An element that is appended keeps the type of a queue, and so does the
\* removal of the first one, which has it.
LEMMA QueueTypes ==
    ASSUME NEW S, NEW q \in Seq(S)
    PROVE  /\ \A x \in S : Append(q, x) \in Seq(S)
           /\ q # <<>> => Head(q) \in S /\ Tail(q) \in Seq(S)
  OBVIOUS

\* So does a change of its elements.
LEMMA MappedTypes ==
    ASSUME NEW S, NEW q \in Seq(S), NEW T, NEW r, DOMAIN r = DOMAIN q,
           r = [i \in DOMAIN q |-> r[i]], \A i \in DOMAIN q : r[i] \in T
    PROVE  r \in Seq(T)
  <1>1. DOMAIN q = 1..Len(q) /\ Len(q) \in Nat
    OBVIOUS
  <1>2. r \in [1..Len(q) -> T]
    BY <1>1
  <1> QED
    BY <1>1, <1>2

LEMMA BroadcastsTyped ==
    HermesTypeOK => /\ broadcasts \in Seq(Intents)
                    /\ \A i \in DOMAIN broadcasts :
                          /\ broadcasts[i].results \in Nat
                          /\ broadcasts[i].heard \in BOOLEAN
                          /\ broadcasts[i].shown \in BOOLEAN
  <1> SUFFICES ASSUME HermesTypeOK
               PROVE  /\ broadcasts \in Seq(Intents)
                      /\ \A i \in DOMAIN broadcasts :
                            /\ broadcasts[i].results \in Nat
                            /\ broadcasts[i].heard \in BOOLEAN
                            /\ broadcasts[i].shown \in BOOLEAN
    OBVIOUS
  <1>1. broadcasts \in Seq(Intents)
    BY DEF HermesTypeOK, Intents
  <1>2. \A i \in DOMAIN broadcasts : broadcasts[i] \in Intents
    BY <1>1, ElementOfSeq, LenProperties
  <1> QED
    BY <1>1, <1>2 DEF Intents

\* A look at the state, and a request if nothing is on, keep the types.
LEMMA CheckStatusTypes ==
    ASSUME HermesTypeOK, service' \in Nat,
           NEW queue \in Seq(CommMessages), CheckStatus(queue)
    PROVE  /\ state' \in {"IDLE", "PREPARING", "TESTING", "COMPLETED"}
           /\ timeouts' \in Nat
           /\ comm' \in Seq(CommMessages)
           /\ state' = "TESTING" => state = "TESTING"
  <1>1. Message("REQUEST_TEST", service') \in CommMessages
    BY DEF Message, CommMessages
  <1>2. Append(queue, Message("REQUEST_TEST", service')) \in Seq(CommMessages)
    BY <1>1, QueueTypes
  <1>3. state \in {"IDLE", "PREPARING", "TESTING", "COMPLETED"} /\ timeouts \in Nat
    BY DEF HermesTypeOK
  <1>4. CASE StartTest(queue)
    BY <1>2, <1>3, <1>4 DEF StartTest
  <1>5. CASE comm' = queue /\ UNCHANGED <<state, timeouts>>
    BY <1>3, <1>5
  <1> QED
    BY <1>4, <1>5 DEF CheckStatus
-----------------------------------------------------------------------------
\* MainActivity raises the count twice and lowers it once: the Communication
\* service is always needed, and never stopped.
Needed ==
    /\ activities >= IF screen \in {"covered", "home"} THEN 1 ELSE 2
    /\ listening = TRUE

\* What is undelivered keeps its type.
LEMMA UndeliveredTypes ==
    ASSUME HermesTypeOK, listening' \in BOOLEAN, Undelivered
    PROVE  broadcasts' \in Seq(Intents)
  <1>1. /\ DOMAIN broadcasts' = DOMAIN broadcasts
        /\ \A i \in DOMAIN broadcasts :
              broadcasts'[i] = Broadcast(broadcasts[i].results,
                                         broadcasts[i].heard /\ listening', FALSE)
        /\ broadcasts' = [i \in DOMAIN broadcasts |-> broadcasts'[i]]
    BY DEF Undelivered
  <1>2. \A i \in DOMAIN broadcasts : broadcasts'[i] \in Intents
    <2> TAKE i \in DOMAIN broadcasts
    <2>1. /\ broadcasts[i].results \in Nat
          /\ broadcasts[i].heard \in BOOLEAN
      BY BroadcastsTyped
    <2>2. Broadcast(broadcasts[i].results, broadcasts[i].heard /\ listening', FALSE) \in Intents
      BY <2>1 DEF Broadcast, Intents
    <2> QED
      BY <1>1, <2>2
  <1> QED
    BY <1>1, <1>2, BroadcastsTyped, MappedTypes

\* The types are kept by what the main thread does for the user, and so is
\* the need for the Communication service.
LEMMA UserTypes ==
    ASSUME HermesAssumption, HermesTypeOK, Needed, User
    PROVE  HermesTypeOK' /\ (TestingIsOn => TestingIsOn') /\ Needed'
  <1> USE DEF TestingIsOn, Null
  <1>1. CASE OpenResults
    <2>1. service' \in Nat /\ comm \in Seq(CommMessages) /\ CheckStatus(comm)
      BY <1>1 DEF OpenResults, HermesTypeOK, CommMessages
    <2>2. /\ state' \in {"IDLE", "PREPARING", "TESTING", "COMPLETED"}
          /\ timeouts' \in Nat
          /\ comm' \in Seq(CommMessages)
          /\ state' = "TESTING" => state = "TESTING"
      BY <2>1, CheckStatusTypes
    <2>3. openings' \in 0..MaxOpenings
      BY <1>1 DEF OpenResults, HermesTypeOK, HermesAssumption
    <2>4. tester' = tester \/ (tester = Dead /\ tester' = Waiting)
      BY <1>1 DEF OpenResults
    <2>5. activities' \in Nat /\ Needed'
      BY <1>1 DEF OpenResults, BindCommunication, HermesTypeOK, Needed
    <2>6. /\ screen' \in {"main", "results", "leaving", "covered", "home"}
          /\ listening' \in BOOLEAN
          /\ UNCHANGED <<destroying, settings, looper, runs, reported, broadcasts>>
      BY <1>1 DEF OpenResults, BindCommunication
    <2> QED
      BY <2>1, <2>2, <2>3, <2>4, <2>5, <2>6 DEF HermesTypeOK, CommMessages, Dead, Waiting
  <1>2. CASE BackPressed
    BY <1>2 DEF BackPressed, HermesTypeOK, testerVars, commVars, Needed
  <1>3. CASE OnStop
    <2>1. Message("QUIT", Null) \in LooperMessages
      BY DEF Message, LooperMessages
    <2>2. Append(looper, Message("QUIT", Null)) \in Seq(LooperMessages)
      BY <2>1, QueueTypes DEF HermesTypeOK, LooperMessages
    <2>3. /\ screen' \in {"main", "covered"} /\ settings' \in BOOLEAN
          /\ activities' \in Nat
          /\ activities' >= IF screen' \in {"covered", "home"} THEN 1 ELSE 2
      BY <1>3 DEF OnStop, MainStarted, HermesTypeOK, Needed
    <2>4. listening' = (listening /\ ~Unneeded(activities')) /\ Undelivered
      BY <1>3 DEF OnStop
    <2>5. listening' = TRUE
      <3>1. listening = TRUE /\ ~Unneeded(activities')
        BY <2>3 DEF Unneeded, Needed
      <3>2. (listening /\ ~Unneeded(activities')) = TRUE
        BY <3>1
      <3> QED
        BY <2>4, <3>2
    <2>6. broadcasts' \in Seq(Intents)
      BY <2>4, <2>5, UndeliveredTypes
    <2>7. /\ destroying' \in BOOLEAN /\ looper' \in Seq(LooperMessages)
          /\ UNCHANGED <<state, service, timeouts, tester, comm, runs, reported, openings>>
      BY <1>3, <2>2 DEF OnStop, OnDestroy, HermesTypeOK, LooperMessages
    <2> QED
      BY <2>3, <2>5, <2>6, <2>7 DEF HermesTypeOK, Needed, LooperMessages, Intents
  <1>4. CASE StopSettings
    BY <1>4 DEF StopSettings, HermesTypeOK, testerVars, commVars, Needed
  <1>5. CASE Leave
    <2>1. /\ screen' = "home" /\ settings' \in BOOLEAN
          /\ activities' \in Nat /\ activities' >= 1
          /\ listening' = (listening /\ ~Unneeded(activities')) /\ Undelivered
          /\ UNCHANGED <<state, destroying, service, testerVars, comm, runs, reported, openings>>
      BY <1>5 DEF Leave, HermesTypeOK, Needed
    <2>2. listening' = TRUE
      <3>1. listening = TRUE /\ ~Unneeded(activities')
        BY <2>1 DEF Unneeded, Needed
      <3>2. (listening /\ ~Unneeded(activities')) = TRUE
        BY <3>1
      <3> QED
        BY <2>1, <3>2
    <2>3. broadcasts' \in Seq(Intents)
      BY <2>1, <2>2, UndeliveredTypes
    <2> QED
      BY <2>1, <2>2, <2>3 DEF HermesTypeOK, Needed, testerVars, Intents
  <1>6. CASE Return
    BY <1>6 DEF Return, BindCommunication, MainStarted, HermesTypeOK, testerVars, Needed
  <1> QED
    BY <1>1, <1>2, <1>3, <1>4, <1>5, <1>6 DEF User

\* ... and by what it does of itself.
LEMMA MainThreadTypes ==
    ASSUME HermesTypeOK, MainThread
    PROVE  HermesTypeOK' /\ (TestingIsOn => TestingIsOn') /\ (Needed => Needed')
  <1> USE DEF TestingIsOn, Needed, screenVars
  <1>1. CASE Destroyed
    BY <1>1 DEF Destroyed, HermesTypeOK, testerVars, commVars, Needed
  <1>2. CASE Receive
    <2> DEFINE b == Head(broadcasts)
               queue == IF Heard(b) THEN Append(comm, Message("REPORT_TEST", b.results)) ELSE comm
    <2>1. /\ b \in Intents
          /\ Tail(broadcasts) \in Seq(Intents)
      BY <1>2, QueueTypes, BroadcastsTyped DEF Receive
    <2>2. queue \in Seq(CommMessages)
      <3>1. Heard(b) => Message("REPORT_TEST", b.results) \in CommMessages
        BY <2>1 DEF Heard, Message, CommMessages, Intents
      <3>2. comm \in Seq(CommMessages)
        BY DEF HermesTypeOK, CommMessages
      <3> HIDE DEF b
      <3> QED
        BY <3>1, <3>2, QueueTypes
    <2>3. /\ state' \in {"IDLE", "PREPARING", "TESTING", "COMPLETED"}
          /\ timeouts' \in Nat
          /\ comm' \in Seq(CommMessages)
          /\ state' = "TESTING" => state = "TESTING"
      <3>1. \/ comm' = queue /\ UNCHANGED <<state, timeouts>>
            \/ comm' = queue /\ state' = "IDLE" /\ UNCHANGED timeouts
            \/ CheckStatus(queue)
        BY <1>2, <2>1 DEF Receive
      <3>2. service' \in Nat
        BY <1>2 DEF Receive, HermesTypeOK
      <3>3. CASE CheckStatus(queue)
        <4> HIDE DEF queue
        <4> QED
          BY <2>2, <3>2, <3>3, CheckStatusTypes
      <3> HIDE DEF queue
      <3> QED
        BY <2>2, <3>1, <3>3 DEF HermesTypeOK
    <2> QED
      BY <1>2, <2>1, <2>3 DEF Receive, HermesTypeOK, CommMessages, Intents
  <1> QED
    BY <1>1, <1>2 DEF MainThread

\* The tester's thread keeps the types, and leaves TESTING behind only when
\* it goes on with the test.
LEMMA TesterTypes ==
    ASSUME HermesTypeOK, Tester \/ TimeoutDue
    PROVE  HermesTypeOK' /\ (TestingIsOn => TestingIsOn') /\ (Needed => Needed')
  <1> USE DEF TestingIsOn, Needed, screenVars, Null
  <1>0. looper # <<>> => Head(looper) \in LooperMessages /\ Tail(looper) \in Seq(LooperMessages)
    BY QueueTypes DEF HermesTypeOK, LooperMessages
  <1>1. CASE HandleStart
    BY <1>0, <1>1 DEF HandleStart, Upcoming, HermesTypeOK, LooperMessages, commVars
  <1>2. CASE Stage
    <2>1. tester \in [at : {"testing"}, run : Nat \ {Null}, stage : 0..3] /\ tester.stage < 3
      BY <1>2 DEF Stage, HermesTypeOK, Dead, Waiting
    <2>2. tester' \in [at : {"testing"}, run : Nat \ {Null}, stage : 0..3]
      BY <1>2, <2>1 DEF Stage
    <2>3. tester'.at = "testing"
      BY <2>2
    <2> QED
      BY <1>2, <2>2, <2>3 DEF Stage, HermesTypeOK, commVars
  <1>3. CASE Finish
    BY <1>3 DEF Finish, HermesTypeOK, commVars, Dead, Waiting
  <1>4. CASE SendBroadcast
    <2>1. tester.results \in Nat
      BY <1>4 DEF SendBroadcast, HermesTypeOK, Dead, Waiting
    <2> DEFINE intent == Broadcast(tester.results, listening, screen \in {"results", "leaving"})
    <2>2. intent \in Intents
      BY <2>1 DEF HermesTypeOK, Broadcast, Intents
    <2>3. broadcasts' = Append(broadcasts, intent)
      BY <1>4 DEF SendBroadcast
    <2>4. broadcasts' \in Seq(Intents)
      <3> HIDE DEF intent
      <3> QED
        BY <2>2, <2>3, QueueTypes, BroadcastsTyped
    <2> QED
      BY <1>4, <2>4 DEF SendBroadcast, HermesTypeOK, commVars, Waiting, Intents
  <1>5. CASE HandleTimeout
    BY <1>0, <1>5 DEF HandleTimeout, Upcoming, Timeout, HermesTypeOK, LooperMessages, commVars
  <1>6. CASE HandleQuit
    BY <1>6 DEF HandleQuit, Upcoming, HermesTypeOK, commVars, Dead, Waiting
  <1>7. CASE TimeoutDue
    <2>1. Message("STATE_TIMEOUT", Null) \in LooperMessages
      BY DEF Message, LooperMessages
    <2>2. looper' \in Seq(LooperMessages)
      BY <1>7, <2>1, QueueTypes DEF TimeoutDue, HermesTypeOK, LooperMessages
    <2> QED
      BY <1>7, <2>2 DEF TimeoutDue, HermesTypeOK, LooperMessages, commVars
  <1> QED
    BY <1>1, <1>2, <1>3, <1>4, <1>5, <1>6, <1>7 DEF Tester

\* So does the thread of the Communication service.
LEMMA CommTypes ==
    ASSUME HermesTypeOK, Comm
    PROVE  HermesTypeOK' /\ (TestingIsOn => TestingIsOn') /\ (Needed => Needed')
  <1> USE DEF TestingIsOn, Needed, screenVars, Null
  <1>0. comm # <<>> => Head(comm) \in CommMessages /\ Tail(comm) \in Seq(CommMessages)
    BY QueueTypes DEF HermesTypeOK, CommMessages
  <1>1. CASE HandleRequest
    <2>1. PICK obj \in {runs + 1, Null} :
             /\ runs' = IF obj = Null THEN runs ELSE runs + 1
             /\ looper' = Append(looper, Message("START_TEST", obj)) \/ looper' = looper
      BY <1>1 DEF HandleRequest
    <2>2. runs' \in Nat /\ obj \in Nat
      BY <2>1 DEF HermesTypeOK
    <2>3. Message("START_TEST", obj) \in LooperMessages
      BY <2>2 DEF Message, LooperMessages
    <2>4. looper' \in Seq(LooperMessages)
      <3>1. looper \in Seq(LooperMessages)
        BY DEF HermesTypeOK, LooperMessages
      <3> QED
        BY <2>1, <2>3, <3>1, QueueTypes
    <2> QED
      BY <1>0, <1>1, <2>2, <2>4 DEF HandleRequest, HermesTypeOK, LooperMessages, CommMessages
  <1>2. CASE HandleReport
    BY <1>0, <1>2 DEF HandleReport, HermesTypeOK, CommMessages, testerVars
  <1> QED
    BY <1>1, <1>2 DEF Comm
-----------------------------------------------------------------------------
LEMMA HermesInvariant ==
    ASSUME HermesAssumption
    PROVE  HermesSpec => [](HermesTypeOK /\ TestingIsOn /\ Needed)
  <1>1. HermesInit => HermesTypeOK /\ TestingIsOn /\ Needed
    <2>1. HermesInit => activities = 2 /\ activities \in Nat
      BY DEF HermesInit, MainStarted
    <2>2. HermesInit => HermesTypeOK
      <3>1. HermesInit => /\ openings \in 0..MaxOpenings /\ service \in Nat /\ runs \in Nat
                          /\ timeouts \in Nat /\ reported \subseteq Nat \ {Null}
        BY DEF HermesInit, HermesAssumption
      <3>2. HermesInit =>
              /\ looper \in Seq([what : {"START_TEST", "STATE_TIMEOUT", "QUIT"}, obj : Nat])
              /\ comm \in Seq([what : {"REQUEST_TEST"}, obj : Nat]
                               \cup [what : {"REPORT_TEST"}, obj : Nat \ {Null}])
              /\ broadcasts \in Seq([results : Nat, heard : BOOLEAN, shown : BOOLEAN])
        BY DEF HermesInit
      <3>3. HermesInit => tester = Dead /\ listening = TRUE /\ destroying = FALSE /\ settings = FALSE
        BY DEF HermesInit
      <3>4. HermesInit => state = "IDLE" /\ screen = "main"
        BY DEF HermesInit
      <3> QED
        BY <2>1, <3>1, <3>2, <3>3, <3>4 DEF HermesTypeOK
    <2> QED
      BY <2>1, <2>2 DEF HermesInit, TestingIsOn, Needed
  <1>2. HermesTypeOK /\ TestingIsOn /\ Needed /\ [HermesNext]_hermesVars
       => HermesTypeOK' /\ TestingIsOn' /\ Needed'
    <2> SUFFICES ASSUME HermesTypeOK, TestingIsOn, Needed, [HermesNext]_hermesVars
                 PROVE  HermesTypeOK' /\ TestingIsOn' /\ Needed'
      OBVIOUS
    <2>1. CASE User
      BY <2>1, UserTypes
    <2>2. CASE MainThread
      BY <2>2, MainThreadTypes
    <2>3. CASE Tester \/ TimeoutDue
      BY <2>3, TesterTypes
    <2>4. CASE Comm
      BY <2>4, CommTypes
    <2>5. CASE UNCHANGED hermesVars
      BY <2>5 DEF hermesVars, screenVars, testerVars, commVars, HermesTypeOK, TestingIsOn, Needed
    <2> QED
      BY <2>1, <2>2, <2>3, <2>4, <2>5 DEF HermesNext
  <1> QED
    BY <1>1, <1>2, PTL DEF HermesSpec

\* The phone keeps its types; among them, that only valid results are posted.
THEOREM HermesTypeCorrect == HermesSpec => []HermesTypeOK
  BY HermesAssumption, HermesInvariant, PTL

\* The state is TESTING only while the tester's thread is in runTests,
\* whoever else sets it (TestState.java).
THEOREM HermesTestingIsOn == HermesSpec => []TestingIsOn
  BY HermesAssumption, HermesInvariant, PTL

\* The Communication service is there whatever the user does: HermesActivity
\* never stops it, because MainActivity.onResume raises its count once more.
THEOREM HermesServiceStays == HermesSpec => []listening
  <1>1. Needed => listening
    BY DEF Needed
  <1> QED
    BY <1>1, HermesAssumption, HermesInvariant, PTL
=============================================================================
