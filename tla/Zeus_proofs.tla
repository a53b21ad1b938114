----------------------------- MODULE Zeus_proofs -----------------------------
(***************************************************************************)
(* The types of module Zeus; that sets and results stay together; and that *)
(* a router that was refused is refused for good.  All this for every      *)
(* number of requests, sets and results.                                   *)
(***************************************************************************)
EXTENDS Zeus, TLAPS

\* What has been given out stays given out.
IdsGrow == last_set <= last_set' /\ last_result <= last_result' /\ last_token <= last_token'

IdTypes ==
    last_set \in Nat /\ last_result \in Nat /\ last_token \in Nat

LEMMA TypesGrow ==
    ASSUME IdTypes, IdTypes', IdsGrow
    PROVE  /\ SetIds \subseteq SetIds' /\ ResultIds \subseteq ResultIds' /\ Tokens \subseteq Tokens'
           /\ Rows \subseteq Rows'
           /\ Jobs \subseteq Jobs'
  <1>1. SetIds \subseteq SetIds' /\ ResultIds \subseteq ResultIds' /\ Tokens \subseteq Tokens'
    BY DEF IdTypes, IdsGrow, SetIds, ResultIds, Tokens
  <1>2. Rows \subseteq Rows'
    BY <1>1 DEF Rows
  <1>3. Jobs \subseteq Jobs'
    BY <1>1 DEF Jobs
  <1> QED
    BY <1>1, <1>2, <1>3

LEMMA TypeOKIds == ASSUME TypeOK PROVE IdTypes
  BY ZeusAssumption DEF ZeusAssumption, TypeOK, IdTypes

\* A step that gives out no identifier.
LEMMA SameTypes ==
    ASSUME UNCHANGED ids
    PROVE  SetIds' = SetIds /\ ResultIds' = ResultIds /\ Tokens' = Tokens /\ Rows' = Rows
           /\ Jobs' = Jobs
  <1>1. SetIds' = SetIds /\ ResultIds' = ResultIds /\ Tokens' = Tokens
    BY DEF ids, SetIds, ResultIds, Tokens
  <1> QED
    BY <1>1 DEF Rows, Jobs

LEMMA Become_Types ==
    ASSUME NEW w \in Workers, NEW job \in Jobs', work \in [Workers -> Jobs], Jobs \subseteq Jobs',
           Become(w, job)
    PROVE  work' \in [Workers -> Jobs']
  BY DEF Become

LEMMA Answer_Types ==
    ASSUME NEW w \in Workers, work \in [Workers -> Jobs], Jobs \subseteq Jobs', Answer(w)
    PROVE  work' \in [Workers -> Jobs']
  <1>1. Idle \in Jobs'
    BY DEF Jobs
  <1> QED
    BY <1>1, Become_Types DEF Answer

\* What a job holds, by the place its worker is at.
LEMMA JobFields ==
    ASSUME TypeOK, NEW w \in Workers
    PROVE  /\ At(w, "insert") =>
                 /\ work[w].set \in SetIds
                 /\ \/ work[w].device = "mobile" /\ work[w].token = None
                    \/ work[w].device = "router" /\ work[w].token \in Tokens
           /\ At(w, "wakeup") => work[w].token \in Tokens
           /\ At(w, "delete") \/ At(w, "count") =>
                 work[w] \in [at : {"delete", "count"}, result : ResultIds, set : SetIds,
                              seen : SUBSET ResultIds]
           /\ At(w, "drop") => work[w].set \in SetIds
           /\ At(w, "deleteSet") => work[w].set \in SetIds /\ work[w].seen \subseteq ResultIds
           /\ At(w, "report") => work[w].result \in ResultIds /\ work[w].state \in States
  <1>1. work[w] \in Jobs
    BY DEF TypeOK
  <1> QED
    BY <1>1 DEF At, Jobs, Idle

\* The rows keep their types when rows go, or when one is added.
LEMMA WithoutTypes ==
    ASSUME TypeOK, NEW rs, results' = Without(rs)
    PROVE  /\ DOMAIN results' = DOMAIN results \ rs
           /\ \A r \in DOMAIN results' : results'[r] = results[r]
           /\ DOMAIN results' \subseteq ResultIds
           /\ \A r \in DOMAIN results' : results'[r] \in Rows
  BY DEF Without, TypeOK

LEMMA NewResultTypes ==
    ASSUME TypeOK, last_result < MaxResults, NEW s, NEW device, NEW token,
           NewResult(s, device, token), IdsGrow, IdTypes', s \in SetIds',
           \/ device = "mobile" /\ token = None
           \/ device = "router" /\ token \in Tokens'
    PROVE  /\ last_result' = last_result + 1 /\ last_result' \in 0..MaxResults
           /\ filled' = filled \cup {s} /\ filled' \subseteq SetIds'
           /\ last_result' \notin DOMAIN results
           /\ DOMAIN results' = DOMAIN results \cup {last_result'}
           /\ results'[last_result'] = Row(s, device, token)
           /\ \A r \in DOMAIN results : results'[r] = results[r]
           /\ DOMAIN results' \subseteq ResultIds'
           /\ \A r \in DOMAIN results' : results'[r] \in Rows'
  <1>1. IdTypes /\ MaxResults \in Nat
    BY TypeOKIds, ZeusAssumption DEF ZeusAssumption
  <1>2. last_result' = last_result + 1 /\ last_result' \in 0..MaxResults
    BY <1>1 DEF NewResult, IdTypes
  <1>3. DOMAIN results \subseteq ResultIds /\ last_result' \notin ResultIds /\ last_result' \in ResultIds'
    BY <1>1, <1>2 DEF TypeOK, ResultIds, IdTypes
  <1>4. /\ DOMAIN results' = DOMAIN results \cup {last_result'}
        /\ results'[last_result'] = Row(s, device, token)
        /\ \A r \in DOMAIN results : results'[r] = results[r]
    BY <1>3 DEF NewResult
  <1>5. SetIds \subseteq SetIds' /\ ResultIds \subseteq ResultIds' /\ Rows \subseteq Rows'
    BY <1>1, TypesGrow
  <1>6. Row(s, device, token) \in Rows'
    BY DEF Row, Rows, States
  <1>7. \A r \in DOMAIN results : results[r] \in Rows
    BY DEF TypeOK
  <1>8. filled' = filled \cup {s} /\ filled' \subseteq SetIds'
    BY <1>5 DEF NewResult, TypeOK
  <1> QED
    BY <1>2, <1>3, <1>4, <1>5, <1>6, <1>7, <1>8
-----------------------------------------------------------------------------
\* The steps that begin a request keep the types.
LEMMA BeginTypes ==
    ASSUME TypeOK, NEW w \in Workers, Begin(w)
    PROVE  TypeOK'
  <1> USE DEF None
  <1>0. IdTypes /\ MaxSets \in Nat /\ MaxResults \in Nat /\ work \in [Workers -> Jobs]
    BY TypeOKIds, ZeusAssumption DEF ZeusAssumption, TypeOK
  <1>1. CASE CreateSet(w)
    <2>1. IdTypes' /\ IdsGrow /\ last_set' \in 0..MaxSets /\ last_set' \in SetIds'
      BY <1>0, <1>1 DEF CreateSet, IdTypes, IdsGrow, SetIds
    <2>2. SetIds \subseteq SetIds' /\ ResultIds' = ResultIds /\ Tokens' = Tokens
          /\ Rows \subseteq Rows' /\ Jobs \subseteq Jobs'
      BY <1>0, <1>1, <2>1, TypesGrow DEF CreateSet, ResultIds, Tokens
    <2>3. work' \in [Workers -> Jobs']
      BY <1>0, <1>1, <2>2 DEF CreateSet
    <2> QED
      BY <1>1, <2>1, <2>2, <2>3 DEF CreateSet, TypeOK
  <1>2. CASE StartRouterTest(w)
    <2>1. IdTypes' /\ IdsGrow /\ last_set' \in 0..MaxSets /\ last_token' \in 0..MaxResults
      BY <1>0, <1>2 DEF StartRouterTest, NewResult, IdTypes, IdsGrow
    <2>2. last_set' \in SetIds' /\ last_token' \in Tokens'
      BY <1>0, <1>2 DEF StartRouterTest, IdTypes, SetIds, Tokens
    <2>3. SetIds \subseteq SetIds' /\ Tokens \subseteq Tokens' /\ Jobs \subseteq Jobs'
      BY <1>0, <2>1, TypesGrow
    <2>4. NewResult(last_set', "router", last_token') /\ last_result < MaxResults
      BY <1>2 DEF StartRouterTest
    <2>5. /\ last_result' \in 0..MaxResults /\ filled' \subseteq SetIds'
          /\ DOMAIN results' \subseteq ResultIds'
          /\ \A r \in DOMAIN results' : results'[r] \in Rows'
      BY <2>1, <2>2, <2>4, NewResultTypes
    <2>6. [at |-> "wakeup", token |-> last_token'] \in Jobs'
      BY <2>2 DEF Jobs
    <2>7. work' \in [Workers -> Jobs']
      BY <1>0, <1>2, <2>3, <2>6, Become_Types DEF StartRouterTest
    <2> QED
      BY <1>2, <2>1, <2>2, <2>3, <2>5, <2>7 DEF StartRouterTest, TypeOK
  <1>3. ASSUME NEW s \in sets, DeleteSet(w, s)
        PROVE  TypeOK'
    <2>1. UNCHANGED ids
      BY <1>3 DEF DeleteSet
    <2>2. [at |-> "deleteSet", set |-> s, seen |-> Children(s)] \in Jobs'
      BY <2>1, SameTypes DEF TypeOK, Children, Jobs
    <2>3. work' \in [Workers -> Jobs']
      BY <1>0, <1>3, <2>1, <2>2, SameTypes, Become_Types DEF DeleteSet
    <2> QED
      BY <1>3, <2>1, <2>3, SameTypes DEF DeleteSet, TypeOK, rows, ids
  <1>4. ASSUME NEW s \in sets, NEW device \in {"mobile", "router"}, StartTest(w, s, device)
        PROVE  TypeOK'
    <2>1. IdTypes' /\ IdsGrow /\ last_token' \in 0..MaxResults
      BY <1>0, <1>4 DEF StartTest, IdTypes, IdsGrow
    <2>2. SetIds' = SetIds /\ ResultIds' = ResultIds /\ Tokens \subseteq Tokens'
          /\ Rows \subseteq Rows' /\ Jobs \subseteq Jobs'
      BY <1>0, <1>4, <2>1, TypesGrow DEF StartTest, SetIds, ResultIds
    <2>3. device = "router" => last_token' \in Tokens'
      BY <1>0, <1>4 DEF StartTest, IdTypes, Tokens
    <2>4. [at |-> "insert", set |-> s, device |-> device,
           token |-> IF device = "router" THEN last_token' ELSE None] \in Jobs'
      <3>1. s \in SetIds'
        BY <2>2 DEF TypeOK
      <3>2. CASE device = "mobile"
        BY <3>1, <3>2 DEF Jobs
      <3>3. CASE device = "router"
        BY <2>3, <3>1, <3>3 DEF Jobs
      <3> QED
        BY <3>2, <3>3
    <2>5. work' \in [Workers -> Jobs']
      BY <1>0, <1>4, <2>2, <2>4, Become_Types DEF StartTest
    <2> QED
      BY <1>4, <2>1, <2>2, <2>5 DEF StartTest, TypeOK, rows
  <1>5. ASSUME NEW r \in DOMAIN results, DeleteResult(w, r)
        PROVE  TypeOK'
    <2>1. UNCHANGED ids
      BY <1>5 DEF DeleteResult
    <2>2. results[r].parent \in SetIds
      BY DEF TypeOK, Rows
    <2>3. [at |-> "delete", result |-> r, set |-> results[r].parent,
           seen |-> Children(results[r].parent)] \in Jobs'
      BY <2>1, <2>2, SameTypes DEF TypeOK, Children, Jobs
    <2>4. work' \in [Workers -> Jobs']
      BY <1>0, <1>5, <2>1, <2>3, SameTypes, Become_Types DEF DeleteResult
    <2> QED
      BY <1>5, <2>1, <2>4, SameTypes DEF DeleteResult, TypeOK, rows, ids
  <1>6. ASSUME NEW r \in DOMAIN results, NEW st \in Reports, Report(w, r, st),
               UNCHANGED <<rows, ids, woken, refused>>
        PROVE  TypeOK'
    <2>1. [at |-> "report", result |-> r, state |-> st] \in Jobs'
      BY <1>6, SameTypes, ZeusAssumption DEF ZeusAssumption, TypeOK, Jobs
    <2>2. work' \in [Workers -> Jobs']
      BY <1>0, <1>6, <2>1, SameTypes, Become_Types DEF Report
    <2> QED
      BY <1>6, <2>2, SameTypes DEF TypeOK, rows, ids
  <1>7. ASSUME NEW r \in DOMAIN results, EditResult(w, r)
        PROVE  TypeOK'
    BY <1>6, <1>7 DEF EditResult
  <1>8. ASSUME NEW t \in woken, RouterRequest(w, t)
        PROVE  TypeOK'
    <2>1. CASE \E r \in DOMAIN results : results[r].token = t
      <3>1. (CHOOSE r \in DOMAIN results : results[r].token = t) \in DOMAIN results
        BY <2>1
      <3> QED
        BY <1>6, <1>8, <2>1, <3>1 DEF RouterRequest
    <2>2. CASE ~\E r \in DOMAIN results : results[r].token = t
      BY <1>8, <2>2, SameTypes DEF RouterRequest, TypeOK, rows, ids
    <2> QED
      BY <2>1, <2>2
  <1> QED
    BY <1>1, <1>2, <1>3, <1>4, <1>5, <1>7, <1>8 DEF Begin

\* So do the steps that go on with one.
LEMMA GoOnTypes ==
    ASSUME TypeOK, NEW w \in Workers, GoOn(w)
    PROVE  TypeOK'
  <1>0. IdTypes /\ MaxSets \in Nat /\ MaxResults \in Nat /\ work \in [Workers -> Jobs]
    BY TypeOKIds, ZeusAssumption DEF ZeusAssumption, TypeOK
  <1>1. CASE InsertResult(w)
    <2>1. CASE /\ work[w].set \in sets /\ last_result < MaxResults
               /\ NewResult(work[w].set, work[w].device, work[w].token)
               /\ IF work[w].device = "router"
                  THEN Become(w, [at |-> "wakeup", token |-> work[w].token]) ELSE Answer(w)
      <3>1. IdTypes' /\ IdsGrow /\ UNCHANGED <<last_set, last_token>>
        BY <1>0, <1>1, <2>1 DEF InsertResult, NewResult, IdTypes, IdsGrow
      <3>2. SetIds' = SetIds /\ Tokens' = Tokens /\ Jobs \subseteq Jobs'
        BY <1>0, <3>1, TypesGrow DEF SetIds, Tokens
      <3>3. /\ work[w].set \in SetIds'
            /\ \/ work[w].device = "mobile" /\ work[w].token = None
               \/ work[w].device = "router" /\ work[w].token \in Tokens'
        BY <1>1, <3>2, JobFields DEF InsertResult
      <3>4. /\ last_result' \in 0..MaxResults /\ filled' \subseteq SetIds'
            /\ DOMAIN results' \subseteq ResultIds'
            /\ \A r \in DOMAIN results' : results'[r] \in Rows'
        BY <2>1, <3>1, <3>3, NewResultTypes
      <3>5. work' \in [Workers -> Jobs']
        <4>1. CASE work[w].device = "router"
          <5>1. [at |-> "wakeup", token |-> work[w].token] \in Jobs'
            BY <3>3, <4>1 DEF Jobs
          <5> QED
            BY <1>0, <2>1, <3>2, <4>1, <5>1, Become_Types
        <4>2. CASE work[w].device # "router"
          BY <1>0, <2>1, <3>2, <4>2, Answer_Types
        <4> QED
          BY <4>1, <4>2
      <3> QED
        BY <1>1, <3>2, <3>4, <3>5 DEF InsertResult, TypeOK
    <2>2. CASE Answer(w) /\ UNCHANGED <<results, last_result, filled>>
      <3>1. UNCHANGED ids
        BY <1>1, <2>2 DEF InsertResult, ids
      <3>2. work' \in [Workers -> Jobs']
        BY <1>0, <2>2, <3>1, SameTypes, Answer_Types
      <3> QED
        BY <1>1, <2>2, <3>1, <3>2, SameTypes DEF InsertResult, TypeOK
    <2> QED
      BY <1>1, <2>1, <2>2 DEF InsertResult
  <1>2. CASE Wakeup(w)
    <2>1. work' \in [Workers -> Jobs']
      BY <1>0, <1>2, SameTypes, Answer_Types DEF Wakeup
    <2>2. woken' \subseteq Tokens
      BY <1>2, JobFields DEF Wakeup, TypeOK
    <2> QED
      BY <1>2, <2>1, <2>2, SameTypes DEF Wakeup, TypeOK, rows, ids
  <1>3. CASE SaveReport(w)
    <2>1. work' \in [Workers -> Jobs']
      BY <1>0, <1>3, SameTypes, Answer_Types DEF SaveReport
    <2>2. DOMAIN results' = DOMAIN results /\ \A r \in DOMAIN results' : results'[r] \in Rows
      <3>1. work[w].state \in States
        BY <1>3, JobFields DEF SaveReport
      <3>2. ASSUME NEW r \in DOMAIN results
            PROVE  [results[r] EXCEPT !.state = work[w].state] \in Rows
        BY <3>1 DEF TypeOK, Rows
      <3> QED
        BY <1>3, <3>2 DEF SaveReport, TypeOK
    <2> QED
      BY <1>3, <2>1, <2>2, SameTypes DEF SaveReport, TypeOK, ids
  <1>4. CASE DeleteRow(w)
    <2>1. [work[w] EXCEPT !.at = "count"] \in Jobs'
      <3>1. work[w] \in [at : {"delete", "count"}, result : ResultIds, set : SetIds,
                         seen : SUBSET ResultIds]
        BY <1>4, JobFields DEF DeleteRow
      <3>2. [work[w] EXCEPT !.at = "count"] \in [at : {"delete", "count"}, result : ResultIds,
                                                 set : SetIds, seen : SUBSET ResultIds]
        BY <3>1
      <3>3. UNCHANGED ids
        BY <1>4 DEF DeleteRow
      <3> QED
        BY <3>2, <3>3, SameTypes DEF Jobs
    <2>2. work' \in [Workers -> Jobs']
      BY <1>0, <1>4, <2>1, SameTypes, Become_Types DEF DeleteRow
    <2> QED
      BY <1>4, <2>2, SameTypes, WithoutTypes DEF DeleteRow, TypeOK, ids
  <1>5. CASE CountTests(w)
    <2>1. [at |-> "drop", set |-> work[w].set] \in Jobs'
      BY <1>5, SameTypes, JobFields DEF CountTests, Jobs
    <2>2. work' \in [Workers -> Jobs']
      BY <1>0, <1>5, <2>1, SameTypes, Become_Types, Answer_Types DEF CountTests
    <2> QED
      BY <1>5, <2>2, SameTypes DEF CountTests, TypeOK, rows, ids
  <1>6. CASE DropSet(w)
    <2>1. work' \in [Workers -> Jobs']
      BY <1>0, <1>6, SameTypes, Answer_Types DEF DropSet
    <2> QED
      BY <1>6, <2>1, SameTypes DEF DropSet, TypeOK, ids
  <1>7. CASE DeleteAll(w)
    <2>1. work' \in [Workers -> Jobs']
      BY <1>0, <1>7, SameTypes, Answer_Types DEF DeleteAll
    <2>2. sets' \subseteq sets
          /\ (results' = results \/ results' = Without(work[w].seen))
      BY <1>7 DEF DeleteAll
    <2>3. DOMAIN results' \subseteq ResultIds /\ \A r \in DOMAIN results' : results'[r] \in Rows
      BY <2>2, WithoutTypes DEF TypeOK
    <2> QED
      BY <1>7, <2>1, <2>2, <2>3, SameTypes DEF DeleteAll, TypeOK, ids
  <1> QED
    BY <1>1, <1>2, <1>3, <1>4, <1>5, <1>6, <1>7 DEF GoOn

\* The sets and results of the controller keep their types.
THEOREM ZeusTypeCorrect == Spec => []TypeOK
  <1>1. Init => TypeOK
    <2> SUFFICES ASSUME Init
                 PROVE  TypeOK
      OBVIOUS
    <2>1. DOMAIN results = {}
      BY DEF Init
    <2>2. work \in [Workers -> Jobs]
      BY DEF Init, Jobs
    <2> QED
      BY <2>1, <2>2, ZeusAssumption DEF ZeusAssumption, Init, TypeOK
  <1>2. TypeOK /\ [Next]_vars => TypeOK'
    <2> SUFFICES ASSUME TypeOK, [Next]_vars
                 PROVE  TypeOK'
      OBVIOUS
    <2>1. CASE UNCHANGED vars
      BY <2>1, SameTypes DEF vars, rows, ids, TypeOK
    <2> QED
      BY <2>1, BeginTypes, GoOnTypes DEF Next
  <1> QED
    BY <1>1, <1>2, PTL DEF Spec
-----------------------------------------------------------------------------
(***************************************************************************)
(* Sets and results.  Both halves are preserved together with what a       *)
(* worker has read and still believes: the set of the record it deletes,   *)
(* and that the tests it is to delete are the set's.  Parents do not       *)
(* change and identifiers are not used twice, so both stay true however    *)
(* late the worker goes on.                                                *)
(***************************************************************************)
BeliefsHold ==
    \A w \in Workers :
        /\ At(w, "delete") =>
              (work[w].result \in DOMAIN results => results[work[w].result].parent = work[w].set)
        /\ At(w, "deleteSet") =>
              \A r \in work[w].seen \cap DOMAIN results : results[r].parent = work[w].set

SetsInv == SetsAndResults /\ BeliefsHold

\* What a step does to the parents of the results there were.
KeepParents == \A r \in DOMAIN results \cap DOMAIN results' : results'[r].parent = results[r].parent

\* Beliefs of the others survive: a result that is new is not among those
\* they have seen.
LEMMA BeliefsSurvive ==
    ASSUME TypeOK, BeliefsHold, KeepParents, DOMAIN results' \cap ResultIds \subseteq DOMAIN results,
           NEW w \in Workers, \A v \in Workers \ {w} : work'[v] = work[v],
           \/ work'[w] = work[w]
           \/ work'[w].at \notin {"delete", "deleteSet"}
    PROVE  BeliefsHold'
  <1> SUFFICES ASSUME NEW v \in Workers
               PROVE  /\ At(v, "delete")' =>
                            (work'[v].result \in DOMAIN results' =>
                                results'[work'[v].result].parent = work'[v].set)
                      /\ At(v, "deleteSet")' =>
                            \A r \in work'[v].seen \cap DOMAIN results' :
                                results'[r].parent = work'[v].set
    BY DEF BeliefsHold
  <1>1. CASE work'[v].at \notin {"delete", "deleteSet"}
    BY <1>1 DEF At
  <1>2. CASE work'[v] = work[v]
    <2>1. At(v, "delete") => work[v].result \in ResultIds
      BY JobFields
    <2>2. At(v, "deleteSet") => work[v].seen \subseteq ResultIds
      BY JobFields
    <2> QED
      BY <1>2, <2>1, <2>2 DEF BeliefsHold, KeepParents, At
  <1> QED
    BY <1>1, <1>2

\* A step of w that adds no result and empties no set leaves both halves.
LEMMA NothingEmptied ==
    ASSUME SetsAndResults, NEW w \in Workers, \A v \in Workers \ {w} : work'[v] = work[v],
           work[w].at \notin {"count", "drop"},
           UNCHANGED <<sets, filled>>, DOMAIN results' = DOMAIN results, KeepParents
    PROVE  SetsAndResults'
  <1>1. NoOrphan'
    BY DEF SetsAndResults, NoOrphan, KeepParents
  <1>2. \A s : Children(s)' = Children(s)
    BY DEF Children, KeepParents
  <1>3. \A v \in Workers, s \in sets : Emptying(v, s) => Emptying(v, s)'
    BY DEF Emptying
  <1>4. EmptiedSetsGo'
    BY <1>2, <1>3 DEF SetsAndResults, EmptiedSetsGo
  <1> QED
    BY <1>1, <1>4 DEF SetsAndResults

\* Nor does a step that adds sets and fills them.
LEMMA ResultAdded ==
    ASSUME TypeOK, SetsInv, NEW w \in Workers, \A v \in Workers \ {w} : work'[v] = work[v],
           work[w].at \notin {"count", "drop"}, work'[w].at \notin {"delete", "deleteSet"},
           NEW s \in sets', NEW n, n \notin ResultIds,
           sets \subseteq sets', sets' \cap filled \subseteq sets, sets' \subseteq sets \cup {s},
           filled' = filled \cup {s},
           DOMAIN results' = DOMAIN results \cup {n}, results'[n].parent = s, KeepParents
    PROVE  SetsInv'
  <1>1. NoOrphan'
    BY DEF SetsInv, SetsAndResults, NoOrphan, KeepParents
  <1>2. \A t : Children(t) \subseteq Children(t)'
    BY DEF Children, KeepParents
  <1>3. n \in Children(s)'
    BY DEF Children
  <1>4. \A v \in Workers, t \in sets : Emptying(v, t) => Emptying(v, t)'
    BY DEF Emptying
  <1>5. EmptiedSetsGo'
    BY <1>2, <1>3, <1>4 DEF SetsInv, SetsAndResults, EmptiedSetsGo
  <1>6. BeliefsHold'
    BY BeliefsSurvive DEF SetsInv
  <1> QED
    BY <1>1, <1>5, <1>6 DEF SetsInv, SetsAndResults

LEMMA BeginSets ==
    ASSUME TypeOK, SetsInv, NEW w \in Workers, Begin(w)
    PROVE  SetsInv'
  <1>0. /\ IdTypes /\ work \in [Workers -> Jobs]
        /\ SetIds \cap {last_set + 1} = {} /\ last_result + 1 \notin ResultIds
        /\ sets \subseteq SetIds /\ filled \subseteq SetIds /\ DOMAIN results \subseteq ResultIds
    BY TypeOKIds DEF TypeOK, IdTypes, SetIds, ResultIds
  <1>1. CASE CreateSet(w)
    <2>1. /\ sets' = sets \cup {last_set + 1} /\ UNCHANGED <<results, filled, work>>
      BY <1>1 DEF CreateSet
    <2>2. sets' \cap filled' = sets \cap filled
      BY <1>0, <2>1
    <2>3. NoOrphan' /\ EmptiedSetsGo'
      BY <2>1, <2>2 DEF SetsInv, SetsAndResults, NoOrphan, EmptiedSetsGo, Children, Emptying
    <2>4. BeliefsHold'
      BY <2>1 DEF SetsInv, BeliefsHold, At
    <2> QED
      BY <2>3, <2>4 DEF SetsInv, SetsAndResults
  <1>2. CASE StartRouterTest(w)
    <2>1. /\ last_result < MaxResults /\ work[w].at = "idle"
          /\ last_set' = last_set + 1 /\ sets' = sets \cup {last_set'}
          /\ NewResult(last_set', "router", last_token')
          /\ Become(w, [at |-> "wakeup", token |-> last_token'])
      BY <1>2 DEF StartRouterTest, At
    <2>2. /\ last_result' = last_result + 1 /\ filled' = filled \cup {last_set'}
          /\ DOMAIN results' = DOMAIN results \cup {last_result'}
          /\ results'[last_result'].parent = last_set'
          /\ KeepParents
      BY <1>0, <2>1 DEF NewResult, Row, KeepParents
    <2>3. work' = [work EXCEPT ![w] = [at |-> "wakeup", token |-> last_token']]
      BY <2>1 DEF Become
    <2>4. work'[w].at = "wakeup" /\ \A v \in Workers \ {w} : work'[v] = work[v]
      BY <1>0, <2>3
    <2>5. sets' \cap filled \subseteq sets
      BY <1>0, <2>1
    <2> QED
      BY <1>0, <2>1, <2>2, <2>4, <2>5, ResultAdded
  <1>3. ASSUME UNCHANGED rows, At(w, "idle"), NEW job, Become(w, job),
               \/ job.at \notin {"delete", "deleteSet"}
               \/ \E s : job = [at |-> "deleteSet", set |-> s, seen |-> Children(s)]
               \/ \E r \in DOMAIN results :
                     job = [at |-> "delete", result |-> r, set |-> results[r].parent,
                            seen |-> Children(results[r].parent)]
        PROVE  SetsInv'
    <2>1. work'[w] = job /\ \A v \in Workers \ {w} : work'[v] = work[v]
      BY <1>0, <1>3 DEF Become
    <2>2. SetsAndResults'
      BY <1>3, <2>1, NothingEmptied DEF rows, At, SetsInv, KeepParents
    <2>3. BeliefsHold'
      <3> SUFFICES ASSUME NEW v \in Workers
                   PROVE  /\ At(v, "delete")' =>
                                (work'[v].result \in DOMAIN results' =>
                                    results'[work'[v].result].parent = work'[v].set)
                          /\ At(v, "deleteSet")' =>
                                \A r \in work'[v].seen \cap DOMAIN results' :
                                    results'[r].parent = work'[v].set
        BY DEF BeliefsHold
      <3>1. CASE v # w
        BY <1>3, <2>1, <3>1 DEF SetsInv, BeliefsHold, At, rows
      <3>2. CASE v = w
        BY <1>3, <2>1, <3>2 DEF At, rows, Children
      <3> QED
        BY <3>1, <3>2
    <2> QED
      BY <2>2, <2>3 DEF SetsInv
  <1>4. ASSUME NEW s \in sets, DeleteSet(w, s)
        PROVE  SetsInv'
    BY <1>3, <1>4 DEF DeleteSet
  <1>5. ASSUME NEW s \in sets, NEW device \in {"mobile", "router"}, StartTest(w, s, device)
        PROVE  SetsInv'
    <2> DEFINE job == [at |-> "insert", set |-> s, device |-> device,
                       token |-> IF device = "router" THEN last_token' ELSE None]
    <2>1. UNCHANGED rows /\ At(w, "idle") /\ Become(w, job)
      BY <1>5 DEF StartTest
    <2>2. job.at = "insert"
      OBVIOUS
    <2> HIDE DEF job
    <2> QED
      BY <1>3, <2>1, <2>2
  <1>6. ASSUME NEW r \in DOMAIN results, DeleteResult(w, r)
        PROVE  SetsInv'
    BY <1>3, <1>6 DEF DeleteResult
  <1>7. ASSUME NEW r, NEW st, Report(w, r, st), At(w, "idle"), UNCHANGED rows
        PROVE  SetsInv'
    <2>1. [at |-> "report", result |-> r, state |-> st].at \notin {"delete", "deleteSet"}
      OBVIOUS
    <2> QED
      BY <1>3, <1>7, <2>1 DEF Report
  <1>8. ASSUME NEW r \in DOMAIN results, EditResult(w, r)
        PROVE  SetsInv'
    BY <1>7, <1>8 DEF EditResult
  <1>9. ASSUME NEW t \in woken, RouterRequest(w, t)
        PROVE  SetsInv'
    <2>1. CASE \E r \in DOMAIN results : results[r].token = t
      BY <1>7, <1>9, <2>1 DEF RouterRequest
    <2>2. CASE ~\E r \in DOMAIN results : results[r].token = t
      BY <1>9, <2>2 DEF RouterRequest, rows, SetsInv, SetsAndResults, NoOrphan, EmptiedSetsGo,
                        Emptying, Children, BeliefsHold, At
    <2> QED
      BY <2>1, <2>2
  <1> QED
    BY <1>1, <1>2, <1>4, <1>5, <1>6, <1>8, <1>9 DEF Begin

LEMMA GoOnSets ==
    ASSUME TypeOK, SetsInv, NEW w \in Workers, GoOn(w)
    PROVE  SetsInv'
  <1>0. /\ IdTypes /\ work \in [Workers -> Jobs] /\ last_result + 1 \notin ResultIds
        /\ sets \subseteq SetIds /\ DOMAIN results \subseteq ResultIds
    BY TypeOKIds DEF TypeOK, IdTypes, ResultIds
  <1>1. ASSUME NEW job, Become(w, job)
        PROVE  work'[w] = job /\ \A v \in Workers \ {w} : work'[v] = work[v]
    BY <1>0, <1>1 DEF Become
  <1>2. Answer(w) => work'[w].at = "idle" /\ \A v \in Workers \ {w} : work'[v] = work[v]
    BY <1>1 DEF Answer, Idle
  <1>3. CASE InsertResult(w)
    <2>1. work[w].at = "insert"
      BY <1>3 DEF InsertResult, At
    <2>2. CASE /\ work[w].set \in sets /\ last_result < MaxResults
               /\ NewResult(work[w].set, work[w].device, work[w].token)
               /\ IF work[w].device = "router"
                  THEN Become(w, [at |-> "wakeup", token |-> work[w].token]) ELSE Answer(w)
      <3>1. work'[w].at \notin {"delete", "deleteSet"} /\ \A v \in Workers \ {w} : work'[v] = work[v]
        BY <1>1, <1>2, <2>2
      <3>2. /\ last_result' = last_result + 1 /\ filled' = filled \cup {work[w].set}
            /\ DOMAIN results' = DOMAIN results \cup {last_result'}
            /\ results'[last_result'].parent = work[w].set
            /\ KeepParents
        BY <1>0, <2>2 DEF NewResult, Row, KeepParents
      <3>3. sets' = sets
        BY <1>3 DEF InsertResult
      <3> QED
        BY <1>0, <2>1, <2>2, <3>1, <3>2, <3>3, ResultAdded
    <2>3. CASE Answer(w) /\ UNCHANGED <<results, last_result, filled>>
      <3>1. SetsAndResults'
        BY <1>2, <1>3, <2>1, <2>3, NothingEmptied DEF InsertResult, SetsInv, KeepParents
      <3>2. BeliefsHold'
        BY <1>2, <2>3, BeliefsSurvive DEF SetsInv, KeepParents
      <3> QED
        BY <3>1, <3>2 DEF SetsInv
    <2> QED
      BY <1>3, <2>2, <2>3 DEF InsertResult
  <1>4. CASE Wakeup(w)
    <2>1. SetsAndResults'
      BY <1>2, <1>4, NothingEmptied DEF Wakeup, rows, At, SetsInv, KeepParents
    <2>2. BeliefsHold'
      BY <1>2, <1>4, BeliefsSurvive DEF Wakeup, rows, SetsInv, KeepParents
    <2> QED
      BY <2>1, <2>2 DEF SetsInv
  <1>5. CASE SaveReport(w)
    <2>1. DOMAIN results' = DOMAIN results /\ KeepParents
      <3>1. \A r \in DOMAIN results : [results[r] EXCEPT !.state = work[w].state].parent = results[r].parent
        BY DEF TypeOK, Rows
      <3> QED
        BY <1>5, <3>1 DEF SaveReport, KeepParents
    <2>2. SetsAndResults'
      BY <1>2, <1>5, <2>1, NothingEmptied DEF SaveReport, At, SetsInv
    <2>3. BeliefsHold'
      BY <1>2, <1>5, <2>1, BeliefsSurvive DEF SaveReport, SetsInv
    <2> QED
      BY <2>2, <2>3 DEF SetsInv
  <1>6. CASE DeleteRow(w)
    <2>1. /\ work[w].at = "delete" /\ UNCHANGED <<sets, filled>>
          /\ results' = Without({work[w].result})
          /\ work'[w] = [work[w] EXCEPT !.at = "count"]
          /\ \A v \in Workers \ {w} : work'[v] = work[v]
      BY <1>1, <1>6 DEF DeleteRow, At
    <2>2. /\ work[w].result \in DOMAIN results => results[work[w].result].parent = work[w].set
      BY <2>1 DEF SetsInv, BeliefsHold, At
    <2>3. /\ DOMAIN results' = DOMAIN results \ {work[w].result} /\ KeepParents
      BY <2>1, WithoutTypes DEF KeepParents
    <2>4. work'[w].at = "count" /\ work'[w].set = work[w].set
      <3>1. work[w] \in [at : {"delete", "count"}, result : ResultIds, set : SetIds,
                         seen : SUBSET ResultIds]
        BY <2>1, JobFields DEF At
      <3> QED
        BY <2>1, <3>1
    <2>5. NoOrphan'
      BY <2>1, <2>3 DEF SetsInv, SetsAndResults, NoOrphan, KeepParents
    <2>6. EmptiedSetsGo'
      <3> SUFFICES ASSUME NEW s \in sets \cap filled, Children(s)' = {}
                   PROVE  \E v \in Workers : Emptying(v, s)'
        BY <2>1 DEF EmptiedSetsGo
      <3>1. CASE s = work[w].set
        BY <2>4, <3>1 DEF Emptying
      <3>2. CASE s # work[w].set
        <4>1. Children(s) = {}
          BY <2>2, <2>3, <3>2 DEF Children, KeepParents
        <4>2. PICK v \in Workers : Emptying(v, s)
          BY <4>1 DEF SetsInv, SetsAndResults, EmptiedSetsGo
        <4>3. v # w
          BY <2>1, <4>2 DEF Emptying
        <4> QED
          BY <2>1, <4>2, <4>3 DEF Emptying
      <3> QED
        BY <3>1, <3>2
    <2>7. BeliefsHold'
      BY <2>1, <2>3, <2>4, BeliefsSurvive DEF SetsInv
    <2> QED
      BY <2>5, <2>6, <2>7 DEF SetsInv, SetsAndResults
  <1>7. CASE CountTests(w)
    <2>1. work[w].at = "count" /\ UNCHANGED <<sets, results, filled>>
      BY <1>7 DEF CountTests, At, rows
    <2>2. /\ \A v \in Workers \ {w} : work'[v] = work[v]
          /\ \/ work'[w].at = "drop" /\ work'[w].set = work[w].set
             \/ /\ work'[w].at = "idle"
                /\ work[w].set \notin sets \/ Children(work[w].set) # {}
      BY <1>1, <1>2, <1>7 DEF CountTests
    <2>3. EmptiedSetsGo'
      <3> SUFFICES ASSUME NEW s \in sets \cap filled, Children(s) = {}
                   PROVE  \E v \in Workers : Emptying(v, s)'
        BY <2>1 DEF EmptiedSetsGo, Children
      <3>1. PICK v \in Workers : Emptying(v, s)
        BY DEF SetsInv, SetsAndResults, EmptiedSetsGo
      <3> QED
        BY <2>2, <3>1 DEF Emptying
    <2>4. NoOrphan'
      BY <2>1 DEF SetsInv, SetsAndResults, NoOrphan
    <2>5. BeliefsHold'
      BY <2>1, <2>2, BeliefsSurvive DEF SetsInv, KeepParents
    <2> QED
      BY <2>3, <2>4, <2>5 DEF SetsInv, SetsAndResults
  <1>8. CASE DropSet(w)
    <2>1. /\ work[w].at = "drop" /\ UNCHANGED <<results, filled>>
          /\ sets' = IF Children(work[w].set) = {} THEN sets \ {work[w].set} ELSE sets
          /\ work'[w].at = "idle" /\ \A v \in Workers \ {w} : work'[v] = work[v]
      BY <1>2, <1>8 DEF DropSet, At
    <2>2. NoOrphan'
      BY <2>1 DEF SetsInv, SetsAndResults, NoOrphan, Children
    <2>3. EmptiedSetsGo'
      <3> SUFFICES ASSUME NEW s \in sets' \cap filled, Children(s) = {}
                   PROVE  \E v \in Workers : Emptying(v, s)'
        BY <2>1 DEF EmptiedSetsGo, Children
      <3>1. s \in sets /\ s # work[w].set
        BY <2>1
      <3>2. PICK v \in Workers : Emptying(v, s)
        BY <3>1 DEF SetsInv, SetsAndResults, EmptiedSetsGo
      <3> QED
        BY <2>1, <3>1, <3>2 DEF Emptying
    <2>4. BeliefsHold'
      BY <2>1, BeliefsSurvive DEF SetsInv, KeepParents
    <2> QED
      BY <2>2, <2>3, <2>4 DEF SetsInv, SetsAndResults
  <1>9. CASE DeleteAll(w)
    <2>1. /\ work[w].at = "deleteSet" /\ UNCHANGED filled
          /\ work'[w].at = "idle" /\ \A v \in Workers \ {w} : work'[v] = work[v]
      BY <1>2, <1>9 DEF DeleteAll, At
    <2>2. CASE UNCHANGED <<sets, results>>
      <3>1. SetsAndResults'
        BY <2>1, <2>2, NothingEmptied DEF SetsInv, KeepParents
      <3>2. BeliefsHold'
        BY <2>1, <2>2, BeliefsSurvive DEF SetsInv, KeepParents
      <3> QED
        BY <3>1, <3>2 DEF SetsInv
    <2>3. CASE /\ Children(work[w].set) \subseteq work[w].seen
               /\ sets' = sets \ {work[w].set} /\ results' = Without(work[w].seen)
      <3>1. \A r \in work[w].seen \cap DOMAIN results : results[r].parent = work[w].set
        BY <2>1 DEF SetsInv, BeliefsHold, At
      <3>2. DOMAIN results' = DOMAIN results \ work[w].seen /\ KeepParents
        BY <2>3, WithoutTypes DEF KeepParents
      <3>3. NoOrphan'
        BY <2>3, <3>2 DEF SetsInv, SetsAndResults, NoOrphan, Children, KeepParents
      <3>4. \A s \in sets' : Children(s)' = Children(s)
        BY <2>3, <3>1, <3>2 DEF Children, KeepParents
      <3>5. \A v \in Workers, s \in sets : Emptying(v, s) => Emptying(v, s)'
        BY <2>1 DEF Emptying
      <3>6. EmptiedSetsGo'
        BY <2>1, <2>3, <3>4, <3>5 DEF SetsInv, SetsAndResults, EmptiedSetsGo
      <3>7. BeliefsHold'
        BY <2>1, <3>2, BeliefsSurvive DEF SetsInv
      <3> QED
        BY <3>3, <3>6, <3>7 DEF SetsInv, SetsAndResults
    <2> QED
      BY <1>9, <2>2, <2>3 DEF DeleteAll
  <1> QED
    BY <1>3, <1>4, <1>5, <1>6, <1>7, <1>8, <1>9 DEF GoOn

\* No result without its set and no set left empty by the deletion of its
\* results, for any number of requests (TestResult.delete, TestSet.delete).
THEOREM ZeusSetsAndResults == Spec => []SetsAndResults
  <1>1. Init => SetsInv
    BY DEF Init, SetsInv, SetsAndResults, NoOrphan, EmptiedSetsGo, BeliefsHold, At, Idle
  <1>2. TypeOK /\ SetsInv /\ [Next]_vars => SetsInv'
    <2> SUFFICES ASSUME TypeOK, SetsInv, [Next]_vars
                 PROVE  SetsInv'
      OBVIOUS
    <2>1. CASE UNCHANGED vars
      BY <2>1 DEF vars, rows, ids, SetsInv, SetsAndResults, NoOrphan, EmptiedSetsGo, Emptying,
                  Children, BeliefsHold, At
    <2> QED
      BY <2>1, BeginSets, GoOnSets DEF Next
  <1>3. SetsInv => SetsAndResults
    BY DEF SetsInv
  <1> QED
    BY <1>1, <1>2, <1>3, ZeusTypeCorrect, PTL DEF Spec
-----------------------------------------------------------------------------
(***************************************************************************)
(* Tokens.  A token that is still to be inserted is the worker's own: it   *)
(* has reached no router, and no other worker will send it to one.         *)
(***************************************************************************)
Holds(w, t) == work[w].at \in {"insert", "wakeup"} /\ work[w].token = t

OwnToken ==
    \A w \in Workers : At(w, "insert") /\ work[w].device = "router" =>
        /\ work[w].token \notin woken
        /\ \A v \in Workers \ {w} : ~Holds(v, work[w].token)

TokenInv == RefusedForGood /\ refused \subseteq woken /\ OwnToken

\* A job without a new token leaves the others what they own.
LEMMA OwnTokenKept ==
    ASSUME TypeOK, OwnToken, NEW w \in Workers, NEW job, Become(w, job), woken' = woken,
           job.at \notin {"insert", "wakeup"}
    PROVE  OwnToken'
  <1>1. work'[w] = job /\ \A v \in Workers \ {w} : work'[v] = work[v]
    BY DEF Become, TypeOK
  <1> QED
    BY <1>1 DEF OwnToken, Holds, At

\* Nor does one with a token that was just drawn.
LEMMA NewTokenOwned ==
    ASSUME TypeOK, OwnToken, NEW w \in Workers, NEW job, Become(w, job), woken' = woken,
           job.at \in {"insert", "wakeup"},
           job.token = last_token + 1 \/ (job.at = "insert" /\ job.device = "mobile" /\ job.token = None)
    PROVE  OwnToken'
  <1>1. work'[w] = job /\ \A v \in Workers \ {w} : work'[v] = work[v]
    BY DEF Become, TypeOK
  <1>2. last_token \in Nat /\ last_token + 1 \notin Tokens /\ None \notin Tokens
    BY TypeOKIds DEF IdTypes, Tokens, None
  <1>3. woken \subseteq Tokens
    BY DEF TypeOK
  <1>4. \A v \in Workers : At(v, "insert") /\ work[v].device = "router" => work[v].token \in Tokens
    BY JobFields DEF None
  <1>5. \A v \in Workers, t \in {last_token + 1} : ~Holds(v, t)
    BY <1>2, JobFields DEF Holds, At, None
  <1> SUFFICES ASSUME NEW v \in Workers, At(v, "insert")', work'[v].device = "router"
               PROVE  /\ work'[v].token \notin woken
                      /\ \A u \in Workers \ {v} :
                            ~(work'[u].at \in {"insert", "wakeup"}
                              /\ work'[u].token = work'[v].token)
    BY DEF OwnToken, Holds, At
  <1>6. CASE v = w
    <2>1. job.token = last_token + 1
      BY <1>1, <1>6
    <2> QED
      BY <1>1, <1>2, <1>3, <1>5, <1>6, <2>1 DEF Holds
  <1>7. CASE v # w
    <2>1. /\ work'[v] = work[v] /\ At(v, "insert")
          /\ work[v].token \in Tokens /\ work[v].token \notin woken
          /\ \A u \in Workers \ {v} : ~Holds(u, work[v].token)
      BY <1>1, <1>4, <1>7 DEF At, OwnToken
    <2>2. job.token # work[v].token
      BY <1>2, <2>1
    <2> QED
      BY <1>1, <2>1, <2>2 DEF Holds
  <1> QED
    BY <1>6, <1>7

\* Rows that go, or keep their tokens, leave RefusedForGood.
LEMMA TokensKept ==
    ASSUME RefusedForGood, refused' = refused,
           \A r \in DOMAIN results' : r \in DOMAIN results /\ results'[r].token = results[r].token
    PROVE  RefusedForGood'
  BY DEF RefusedForGood

LEMMA BeginTokens ==
    ASSUME TypeOK, TokenInv, NEW w \in Workers, Begin(w)
    PROVE  TokenInv'
  <1>0. /\ IdTypes /\ last_result + 1 \notin ResultIds /\ last_token + 1 \notin Tokens
        /\ DOMAIN results \subseteq ResultIds /\ refused \subseteq Tokens
    BY TypeOKIds DEF TypeOK, IdTypes, ResultIds, Tokens
  <1>1. CASE CreateSet(w)
    BY <1>1 DEF CreateSet, TokenInv, RefusedForGood, OwnToken, Holds, At
  <1>2. CASE StartRouterTest(w)
    <2> DEFINE job == [at |-> "wakeup", token |-> last_token']
    <2>1. /\ last_token' = last_token + 1 /\ NewResult(last_set', "router", last_token')
          /\ Become(w, job) /\ woken' = woken /\ refused' = refused
      BY <1>2 DEF StartRouterTest
    <2>2. job.at = "wakeup" /\ job.token = last_token + 1
      BY <2>1
    <2> HIDE DEF job
    <2>3. OwnToken'
      BY <2>1, <2>2, NewTokenOwned DEF TokenInv
    <2>4. /\ DOMAIN results' = DOMAIN results \cup {last_result + 1}
          /\ results'[last_result + 1].token = last_token + 1
          /\ \A r \in DOMAIN results : results'[r] = results[r]
      BY <1>0, <2>1 DEF NewResult, Row
    <2>5. RefusedForGood'
      BY <1>0, <2>1, <2>4 DEF TokenInv, RefusedForGood
    <2> QED
      BY <2>1, <2>3, <2>5 DEF TokenInv
  <1>3. ASSUME NEW job, Become(w, job), job.at \notin {"insert", "wakeup"},
               UNCHANGED <<rows, ids, woken, refused>>
        PROVE  TokenInv'
    BY <1>3, OwnTokenKept, TokensKept DEF TokenInv, rows
  <1>4. ASSUME NEW s \in sets, DeleteSet(w, s)
        PROVE  TokenInv'
    <2>1. [at |-> "deleteSet", set |-> s, seen |-> Children(s)].at = "deleteSet"
      OBVIOUS
    <2> QED
      BY <1>3, <1>4, <2>1 DEF DeleteSet
  <1>5. ASSUME NEW s \in sets, NEW device \in {"mobile", "router"}, StartTest(w, s, device)
        PROVE  TokenInv'
    <2> DEFINE job == [at |-> "insert", set |-> s, device |-> device,
                       token |-> IF device = "router" THEN last_token' ELSE None]
    <2>1. /\ Become(w, job) /\ woken' = woken /\ refused' = refused /\ results' = results
          /\ device = "router" => last_token' = last_token + 1
      BY <1>5 DEF StartTest, rows
    <2>2. /\ job.at = "insert" /\ job.device = device
          /\ device = "router" => job.token = last_token + 1
          /\ device = "mobile" => job.token = None
      BY <2>1
    <2> HIDE DEF job
    <2>3. OwnToken'
      BY <2>1, <2>2, NewTokenOwned DEF TokenInv
    <2> QED
      BY <2>1, <2>3, TokensKept DEF TokenInv
  <1>6. ASSUME NEW r \in DOMAIN results, DeleteResult(w, r)
        PROVE  TokenInv'
    <2>1. [at |-> "delete", result |-> r, set |-> results[r].parent,
           seen |-> Children(results[r].parent)].at = "delete"
      OBVIOUS
    <2> QED
      BY <1>3, <1>6, <2>1 DEF DeleteResult
  <1>7. ASSUME NEW r, NEW st, Report(w, r, st), UNCHANGED <<rows, ids, woken, refused>>
        PROVE  TokenInv'
    <2>1. [at |-> "report", result |-> r, state |-> st].at = "report"
      OBVIOUS
    <2> QED
      BY <1>3, <1>7, <2>1 DEF Report
  <1>8. ASSUME NEW r \in DOMAIN results, EditResult(w, r)
        PROVE  TokenInv'
    BY <1>7, <1>8 DEF EditResult
  <1>9. ASSUME NEW t \in woken, RouterRequest(w, t)
        PROVE  TokenInv'
    <2>1. CASE \E r \in DOMAIN results : results[r].token = t
      BY <1>7, <1>9, <2>1 DEF RouterRequest
    <2>2. CASE ~\E r \in DOMAIN results : results[r].token = t
      BY <1>9, <2>2 DEF RouterRequest, rows, TokenInv, RefusedForGood, OwnToken, Holds, At
    <2> QED
      BY <2>1, <2>2
  <1> QED
    BY <1>1, <1>2, <1>4, <1>5, <1>6, <1>8, <1>9 DEF Begin

LEMMA GoOnTokens ==
    ASSUME TypeOK, TokenInv, NEW w \in Workers, GoOn(w)
    PROVE  TokenInv'
  <1>0. /\ IdTypes /\ last_result + 1 \notin ResultIds /\ None \notin Tokens
        /\ DOMAIN results \subseteq ResultIds /\ refused \subseteq Tokens
        /\ work \in [Workers -> Jobs]
    BY TypeOKIds DEF TypeOK, IdTypes, ResultIds, Tokens, None
  <1>1. ASSUME Answer(w), woken' = woken
        PROVE  OwnToken'
    <2>1. Idle.at = "idle"
      BY DEF Idle
    <2> QED
      BY <1>1, <2>1, OwnTokenKept DEF Answer, TokenInv
  <1>2. CASE InsertResult(w)
    <2>0. At(w, "insert") /\ woken' = woken /\ refused' = refused
      BY <1>2 DEF InsertResult
    <2>1. CASE /\ NewResult(work[w].set, work[w].device, work[w].token)
               /\ IF work[w].device = "router"
                  THEN Become(w, [at |-> "wakeup", token |-> work[w].token]) ELSE Answer(w)
      <3>1. work[w].token \notin refused
        BY <1>0, <2>0, JobFields DEF TokenInv, OwnToken
      <3>2. /\ DOMAIN results' = DOMAIN results \cup {last_result + 1}
            /\ results'[last_result + 1].token = work[w].token
            /\ \A r \in DOMAIN results : results'[r] = results[r]
        BY <1>0, <2>1 DEF NewResult, Row
      <3>3. RefusedForGood'
        BY <2>0, <3>1, <3>2 DEF TokenInv, RefusedForGood
      <3>4. OwnToken'
        <4>1. CASE work[w].device = "router"
          <5>1. /\ work'[w] = [at |-> "wakeup", token |-> work[w].token]
                /\ \A v \in Workers \ {w} : work'[v] = work[v]
            BY <1>0, <2>1, <4>1 DEF Become
          <5>2. \A v \in Workers : \A t : Holds(v, t)' => Holds(v, t)
            BY <2>0, <5>1 DEF Holds, At
          <5> QED
            BY <2>0, <5>1, <5>2 DEF TokenInv, OwnToken, At
        <4>2. CASE work[w].device # "router"
          BY <1>1, <2>0, <2>1, <4>2
        <4> QED
          BY <4>1, <4>2
      <3> QED
        BY <2>0, <3>3, <3>4 DEF TokenInv
    <2>2. CASE Answer(w) /\ UNCHANGED <<results, last_result, filled>>
      BY <1>1, <2>0, <2>2, TokensKept DEF TokenInv
    <2> QED
      BY <1>2, <2>1, <2>2 DEF InsertResult
  <1>3. CASE Wakeup(w)
    <2>1. /\ work'[w] = Idle /\ \A v \in Workers \ {w} : work'[v] = work[v]
          /\ work[w].at = "wakeup"
          /\ woken \subseteq woken' /\ woken' \subseteq woken \cup {work[w].token}
          /\ refused' = refused /\ results' = results
      BY <1>0, <1>3 DEF Wakeup, Answer, Become, rows, At
    <2>2. OwnToken'
      BY <2>1 DEF TokenInv, OwnToken, Holds, At, Idle
    <2> QED
      BY <2>1, <2>2, TokensKept DEF TokenInv
  <1>4. CASE SaveReport(w)
    <2>1. \A r \in DOMAIN results' : r \in DOMAIN results /\ results'[r].token = results[r].token
      <3>1. \A r \in DOMAIN results : [results[r] EXCEPT !.state = work[w].state].token = results[r].token
        BY DEF TypeOK, Rows
      <3> QED
        BY <1>4, <3>1 DEF SaveReport
    <2> QED
      BY <1>1, <1>4, <2>1, TokensKept DEF SaveReport, TokenInv
  <1>5. CASE DeleteRow(w)
    <2>1. \A r \in DOMAIN results' : r \in DOMAIN results /\ results'[r].token = results[r].token
      BY <1>5, WithoutTypes DEF DeleteRow
    <2>2. [work[w] EXCEPT !.at = "count"].at = "count"
      <3>1. work[w] \in [at : {"delete", "count"}, result : ResultIds, set : SetIds,
                         seen : SUBSET ResultIds]
        BY <1>5, JobFields DEF DeleteRow
      <3> QED
        BY <3>1
    <2> QED
      BY <1>5, <2>1, <2>2, OwnTokenKept, TokensKept DEF DeleteRow, TokenInv
  <1>6. CASE CountTests(w)
    <2>1. [at |-> "drop", set |-> work[w].set].at = "drop"
      OBVIOUS
    <2>2. OwnToken'
      BY <1>1, <1>6, <2>1, OwnTokenKept DEF CountTests, TokenInv
    <2> QED
      BY <1>6, <2>2, TokensKept DEF CountTests, TokenInv, rows
  <1>7. CASE DropSet(w)
    BY <1>1, <1>7, TokensKept DEF DropSet, TokenInv
  <1>8. CASE DeleteAll(w)
    <2>1. \A r \in DOMAIN results' : r \in DOMAIN results /\ results'[r].token = results[r].token
      BY <1>8, WithoutTypes DEF DeleteAll
    <2> QED
      BY <1>1, <1>8, <2>1, TokensKept DEF DeleteAll, TokenInv
  <1> QED
    BY <1>2, <1>3, <1>4, <1>5, <1>6, <1>7, <1>8 DEF GoOn

\* A router that was refused has no record, and will have none, for any
\* number of requests (wakeup, rest_auth.py).
THEOREM ZeusRefusedForGood == Spec => []RefusedForGood
  <1>1. Init => TokenInv
    BY DEF Init, TokenInv, RefusedForGood, OwnToken, At, Idle
  <1>2. TypeOK /\ TokenInv /\ [Next]_vars => TokenInv'
    <2> SUFFICES ASSUME TypeOK, TokenInv, [Next]_vars
                 PROVE  TokenInv'
      OBVIOUS
    <2>1. CASE UNCHANGED vars
      BY <2>1 DEF vars, rows, TokenInv, RefusedForGood, OwnToken, Holds, At
    <2> QED
      BY <2>1, BeginTokens, GoOnTokens DEF Next
  <1>3. TokenInv => RefusedForGood
    BY DEF TokenInv
  <1> QED
    BY <1>1, <1>2, <1>3, ZeusTypeCorrect, PTL DEF Spec
=============================================================================
