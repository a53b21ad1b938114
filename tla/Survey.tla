------------------------------ MODULE Survey ------------------------------
(***************************************************************************)
(* What the DNS test promises the router test: every name of the           *)
(* configuration gets one verdict, the valid names before the invalid      *)
(* ones, and the verdicts are reported once, when all of them are there.   *)
(***************************************************************************)
EXTENDS Naturals, Sequences

CONSTANTS
    Valid,      \* how many valid names there are
    Invalid     \* how many invalid names there are

VARIABLES
    valid,      \* the verdicts on the valid names
    invalid,    \* the verdicts on the invalid names
    reported    \* have they been reported?

surveyVars == <<valid, invalid, reported>>

Verdict == {"answered", "lost"}

Init ==
    /\ valid = <<>> /\ invalid = <<>>
    /\ reported = FALSE

JudgeValid(v) ==
    /\ Len(valid) < Valid
    /\ valid' = Append(valid, v)
    /\ UNCHANGED <<invalid, reported>>

\* The last verdict comes with the report.
JudgeInvalid(v) ==
    /\ Len(valid) = Valid /\ Len(invalid) < Invalid
    /\ invalid' = Append(invalid, v)
    /\ reported' = (Len(invalid) + 1 = Invalid)
    /\ UNCHANGED valid

Next == \E v \in Verdict : JudgeValid(v) \/ JudgeInvalid(v)

Spec == Init /\ [][Next]_surveyVars
=============================================================================
