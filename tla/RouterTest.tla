----------------------------- MODULE RouterTest -----------------------------
(***************************************************************************)
(* What one test of a router is to the controller that asked for it: a     *)
(* record that starts running when the router fetches its configuration,   *)
(* that is given the DNS results, then the throughput results, and a       *)
(* process that ends with a verdict of its own.                            *)
(***************************************************************************)
VARIABLES
    record,     \* TestResult.state
    results,    \* which results the record holds
    exitCode    \* how the process of the test ended

testVars == <<record, results, exitCode>>

NoState == ""

Init ==
    /\ record = "wait" /\ results = {}
    /\ exitCode = "none"

FetchConfig ==
    /\ record = "wait"
    /\ record' = "running"
    /\ UNCHANGED <<results, exitCode>>

SaveDns ==
    /\ record = "running" /\ results = {}
    /\ results' = {"dns"}
    /\ UNCHANGED <<record, exitCode>>

\* The last report is also the one that finishes the record.
SaveThroughput ==
    /\ record = "running" /\ results = {"dns"}
    /\ results' = {"dns", "throughput"}
    /\ record' = "finished"
    /\ UNCHANGED exitCode

\* A failure is reported as a state that the record does not have: it is
\* refused, or leaves the record without a state.
SaveFailure ==
    /\ record = "running"
    /\ record' = NoState
    /\ UNCHANGED <<results, exitCode>>

\* The process ends once.  It calls itself successful only for a record that
\* is finished; the record may still change when it has ended otherwise,
\* because a report can be under way.
End ==
    /\ exitCode = "none" /\ exitCode' # "none"
    /\ exitCode' = "ok" => record = "finished"
    /\ UNCHANGED <<record, results>>

Next == FetchConfig \/ SaveDns \/ SaveThroughput \/ SaveFailure \/ End

Spec == Init /\ [][Next]_testVars
=============================================================================
