-------------------------------- MODULE Zeus --------------------------------
(***************************************************************************)
(* The sets and results of the controller (src/zeus): the REST interface   *)
(* of the phones and the routers and the dashboard, on one database.       *)
(*                                                                         *)
(* A web server runs Workers requests at a time.  A request is one or more *)
(* transactions: it reads, and what it has read may be gone when it        *)
(* commits.  The database is MySQL (config.py) with InnoDB tables: a       *)
(* transaction reads one snapshot, an UPDATE or DELETE of a row that is    *)
(* gone matches nothing, and the foreign key of a result is checked        *)
(* against what is committed.  An exception rolls the transaction back and *)
(* answers 500.  Identifiers are not used twice.                           *)
(*                                                                         *)
(* The requests here are those of users who are logged in: accounts and    *)
(* their tokens are left out, and so is all a record holds except its      *)
(* state.                                                                  *)
(***************************************************************************)
EXTENDS Naturals, TLC

CONSTANTS
    Workers,        \* the requests served at a time
    Reports,        \* the states that are reported
    MaxSets,        \* bound: how many sets are ever made
    MaxResults      \* bound: how many results are ever made, or tokens drawn

States == {"wait", "running", "failed", "finished"}

ASSUME ZeusAssumption ==
    /\ Reports \subseteq States
    /\ MaxSets \in Nat /\ MaxResults \in Nat

VARIABLES
    sets,           \* the rows of TestSet
    results,        \* the rows of TestResult, by test_id
    last_set,       \* the last set_id given out
    last_result,    \* the last test_id given out
    last_token,     \* the last req_id drawn by a Router object
    filled,         \* the sets that have ever had a result
    woken,          \* the tokens that have reached a router
    refused,        \* the tokens a router was refused with: 401
    work            \* what each worker does

rows == <<sets, results, filled>>
ids == <<last_set, last_result, last_token>>
vars == <<rows, ids, woken, refused, work>>

None == 0           \* no token: a mobile result

Idle == [at |-> "idle"]
Children(s) == {r \in DOMAIN results : results[r].parent = s}

Init ==
    /\ sets = {} /\ results = <<>> /\ filled = {}
    /\ last_set = 0 /\ last_result = 0 /\ last_token = 0
    /\ woken = {} /\ refused = {}
    /\ work = [w \in Workers |-> Idle]
-----------------------------------------------------------------------------
At(w, place) == work[w].at = place
Become(w, job) == work' = [work EXCEPT ![w] = job]
Answer(w) == Become(w, Idle)
Without(rs) == [r \in DOMAIN results \ rs |-> results[r]]

(***************************************************************************)
(* Mistaken variants of the operations below; see module BlockingQueue.    *)
(***************************************************************************)

\* The list of the tests is the one read before the commit.
CountTests_NotExpired(w) ==
    /\ At(w, "count")
    /\ IF work[w].seen \ {work[w].result} = {}
       THEN Become(w, [at |-> "drop", set |-> work[w].set]) ELSE Answer(w)
    /\ UNCHANGED <<rows, ids, woken, refused>>

\* The router is woken before the record is saved.
StartTest_WakeFirst(w, s, device) ==
    /\ At(w, "idle") /\ s \in sets
    /\ last_result < MaxResults /\ last_token < MaxResults
    /\ last_token' = last_token + 1
    /\ woken' = woken \cup {last_token'}
    /\ Become(w, [at |-> "insert", set |-> s, device |-> device, token |-> last_token'])
    /\ UNCHANGED <<rows, last_set, last_result, refused>>

\* The record is merged into the table.
SaveReport_Merge(w) ==
    /\ At(w, "report")
    /\ results' = (work[w].result :> [state |-> work[w].state]) @@ results
    /\ Answer(w)
    /\ UNCHANGED <<sets, filled, ids, woken, refused>>
-----------------------------------------------------------------------------
(* Sets and results are made *)

\* create_set
CreateSet(w) ==
    /\ At(w, "idle") /\ last_set < MaxSets
    /\ last_set' = last_set + 1
    /\ sets' = sets \cup {last_set'}
    /\ UNCHANGED <<results, filled, last_result, last_token, woken, refused, work>>

\* start_test: the set is looked up, and for a router a Router object draws
\* the token.
StartTest(w, s, device) ==
    /\ At(w, "idle") /\ s \in sets
    /\ last_result < MaxResults /\ last_token < MaxResults
    /\ last_token' = IF device = "router" THEN last_token + 1 ELSE last_token
    /\ Become(w, [at |-> "insert", set |-> s, device |-> device,
                  token |-> IF device = "router" THEN last_token' ELSE None])
    /\ UNCHANGED <<rows, last_set, last_result, woken, refused>>

Row(s, device, token) == [parent |-> s, device |-> device, token |-> token, state |-> "wait"]

NewResult(s, device, token) ==
    /\ last_result' = last_result + 1
    /\ results' = [r \in DOMAIN results \cup {last_result'} |->
                      IF r = last_result' THEN Row(s, device, token) ELSE results[r]]
    /\ filled' = filled \cup {s}

\* save(): the foreign key finds the set, or the request fails.
InsertResult(w) ==
    /\ At(w, "insert")
    /\ \/ /\ work[w].set \in sets /\ last_result < MaxResults
          /\ NewResult(work[w].set, work[w].device, work[w].token)
          /\ IF work[w].device = "router"
             THEN Become(w, [at |-> "wakeup", token |-> work[w].token]) ELSE Answer(w)
       \/ /\ work[w].set \notin sets
          /\ Answer(w) /\ UNCHANGED <<results, last_result, filled>>
       \* Bound: no identifier is left.
       \/ /\ last_result = MaxResults
          /\ Answer(w) /\ UNCHANGED <<results, last_result, filled>>
    /\ UNCHANGED <<sets, last_set, last_token, woken, refused>>

\* start_router_test: a set and its result in one transaction.
StartRouterTest(w) ==
    /\ At(w, "idle")
    /\ last_set < MaxSets /\ last_result < MaxResults /\ last_token < MaxResults
    /\ last_set' = last_set + 1 /\ last_token' = last_token + 1
    /\ sets' = sets \cup {last_set'}
    /\ NewResult(last_set', "router", last_token')
    /\ Become(w, [at |-> "wakeup", token |-> last_token'])
    /\ UNCHANGED <<woken, refused>>

\* wakeup(): the router gets the token, or cannot be reached.  The record
\* stays what it is.
Wakeup(w) ==
    /\ At(w, "wakeup")
    /\ Answer(w)
    /\ woken' \in {woken, woken \cup {work[w].token}}
    /\ UNCHANGED <<rows, ids, refused>>
-----------------------------------------------------------------------------
(* Results and sets are deleted *)

\* delete_result: the record and its parent_set are read.
DeleteResult(w, r) ==
    /\ At(w, "idle") /\ r \in DOMAIN results
    /\ Become(w, [at |-> "delete", result |-> r, set |-> results[r].parent,
                  seen |-> Children(results[r].parent)])
    /\ UNCHANGED <<rows, ids, woken, refused>>

\* The first commit of TestResult.delete: another request may have been
\* faster.
DeleteRow(w) ==
    /\ At(w, "delete")
    /\ results' = Without({work[w].result})
    /\ Become(w, [work[w] EXCEPT !.at = "count"])
    /\ UNCHANGED <<sets, filled, ids, woken, refused>>

\* len(parent.tests) == 0: the commit has expired both, so they are read
\* again, unless the set is gone.
CountTests(w) ==
    /\ At(w, "count")
    /\ IF work[w].set \in sets /\ Children(work[w].set) = {}
       THEN Become(w, [at |-> "drop", set |-> work[w].set]) ELSE Answer(w)
    /\ UNCHANGED <<rows, ids, woken, refused>>

\* The second commit: a result that was added meanwhile makes it fail.
DropSet(w) ==
    /\ At(w, "drop")
    /\ sets' = IF Children(work[w].set) = {} THEN sets \ {work[w].set} ELSE sets
    /\ Answer(w)
    /\ UNCHANGED <<results, filled, ids, woken, refused>>

\* delete_set: the set and its tests are read ...
DeleteSet(w, s) ==
    /\ At(w, "idle") /\ s \in sets
    /\ Become(w, [at |-> "deleteSet", set |-> s, seen |-> Children(s)])
    /\ UNCHANGED <<rows, ids, woken, refused>>

\* ... and deleted in one transaction: with a test that was not seen, none.
DeleteAll(w) ==
    /\ At(w, "deleteSet")
    /\ IF Children(work[w].set) \subseteq work[w].seen
       THEN sets' = sets \ {work[w].set} /\ results' = Without(work[w].seen)
       ELSE UNCHANGED <<sets, results>>
    /\ Answer(w)
    /\ UNCHANGED <<filled, ids, woken, refused>>
-----------------------------------------------------------------------------
(* Results are reported *)

Report(w, r, st) == Become(w, [at |-> "report", result |-> r, state |-> st])

\* get_config makes it "running", edit writes the state it is sent.  A router
\* is known by its token: the validator and the handler read one snapshot.
RouterRequest(w, t) ==
    /\ At(w, "idle") /\ t \in woken
    /\ IF \E r \in DOMAIN results : results[r].token = t
       THEN /\ \E st \in Reports :
                   Report(w, CHOOSE r \in DOMAIN results : results[r].token = t, st)
            /\ UNCHANGED refused
       ELSE refused' = refused \cup {t} /\ UNCHANGED work
    /\ UNCHANGED <<rows, ids, woken>>

\* edit_result, of a phone
EditResult(w, r) ==
    /\ At(w, "idle") /\ r \in DOMAIN results /\ results[r].device = "mobile"
    /\ \E st \in Reports : Report(w, r, st)
    /\ UNCHANGED <<rows, ids, woken, refused>>

\* save()
SaveReport(w) ==
    /\ At(w, "report")
    /\ results' = [r \in DOMAIN results |->
                      IF r = work[w].result THEN [results[r] EXCEPT !.state = work[w].state]
                      ELSE results[r]]
    /\ Answer(w)
    /\ UNCHANGED <<sets, filled, ids, woken, refused>>
-----------------------------------------------------------------------------
Begin(w) ==
    \/ CreateSet(w) \/ StartRouterTest(w)
    \/ \E s \in sets : DeleteSet(w, s)
    \/ \E s \in sets, device \in {"mobile", "router"} : StartTest(w, s, device)
    \/ \E r \in DOMAIN results : DeleteResult(w, r) \/ EditResult(w, r)
    \/ \E t \in woken : RouterRequest(w, t)

GoOn(w) ==
    \/ InsertResult(w) \/ Wakeup(w) \/ SaveReport(w)
    \/ DeleteRow(w) \/ CountTests(w) \/ DropSet(w) \/ DeleteAll(w)

Next == \E w \in Workers : Begin(w) \/ GoOn(w)

Spec == Init /\ [][Next]_vars
\* The workers are alike.
Symmetric == Permutations(Workers)
-----------------------------------------------------------------------------
SetIds == 1..last_set
ResultIds == 1..last_result
Tokens == 1..last_token
Rows == [parent : SetIds, device : {"mobile"}, token : {None}, state : States]
        \cup [parent : SetIds, device : {"router"}, token : Tokens, state : States]

Jobs ==
    {Idle}
    \cup [at : {"insert"}, set : SetIds, device : {"mobile"}, token : {None}]
    \cup [at : {"insert"}, set : SetIds, device : {"router"}, token : Tokens]
    \cup [at : {"wakeup"}, token : Tokens]
    \cup [at : {"delete", "count"}, result : ResultIds, set : SetIds, seen : SUBSET ResultIds]
    \cup [at : {"drop"}, set : SetIds]
    \cup [at : {"deleteSet"}, set : SetIds, seen : SUBSET ResultIds]
    \cup [at : {"report"}, result : ResultIds, state : States]

TypeOK ==
    /\ last_set \in 0..MaxSets /\ last_result \in 0..MaxResults /\ last_token \in 0..MaxResults
    /\ sets \subseteq SetIds /\ filled \subseteq SetIds
    /\ DOMAIN results \subseteq ResultIds
    /\ \A r \in DOMAIN results : results[r] \in Rows
    /\ woken \subseteq Tokens /\ refused \subseteq Tokens
    /\ work \in [Workers -> Jobs]

\* A result belongs to a set, whatever is deleted while it is made.
NoOrphan == \A r \in DOMAIN results : results[r].parent \in sets

Emptying(w, s) == work[w].at \in {"count", "drop"} /\ work[w].set = s

\* A set that has lost its last result goes with it: of two requests that
\* delete the last two results, one sees that none is left.
EmptiedSetsGo ==
    \A s \in sets \cap filled :
        Children(s) = {} => \E w \in Workers : Emptying(w, s)

(***************************************************************************)
(* Sets and results stay together: no result without its set, and no set   *)
(* left empty by the deletion of its results, although results are made    *)
(* and deleted between the two commits of a deletion.                      *)
(***************************************************************************)
SetsAndResults == NoOrphan /\ EmptiedSetsGo

(***************************************************************************)
(* A router that was woken is known as long as its record is there: when   *)
(* it is refused, its record has been deleted, and not yet to be saved.    *)
(***************************************************************************)
RefusedForGood == \A r \in DOMAIN results : results[r].token \notin refused
=============================================================================
