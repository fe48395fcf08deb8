----------------------------- MODULE OutputGate -----------------------------
(***************************************************************************)
(* The post-run output gate of the source update controller                *)
(* (moneysweep/update_controller/validation.py, validate_outputs).          *)
(*                                                                         *)
(* The declared outputs of a source are abstracted to ONE content: what     *)
(* the files hold taken together.  Two equal contents have equal SHA-256    *)
(* digests, so a content stands for its own hash.  What the gate can tell   *)
(* about a content is its number of data rows and whether it is well        *)
(* formed (it parses, lies within the repository root, and no file of it    *)
(* is header-only while another carries data: three checks that all end in  *)
(* SCHEMA_FAILED).                                                          *)
(***************************************************************************)
EXTENDS Integers

CONSTANTS
    Content,      \* the contents an output can have
    None,         \* no output on disk, or nothing recorded
    Rows,         \* Rows[c]: data rows of c, Uncounted when only JSON outputs
    WellFormed,   \* WellFormed[c]: c parses and is not a partial write
    MinRows,      \* validation_threshold.min_rows
    Tolerance,    \* row_regression_tolerance_pct
    EmptyPolicy   \* empty_result_policy

Uncounted == -1

ASSUME ContentAssumption ==
    /\ None \notin Content
    /\ Rows \in [Content -> Nat \cup {Uncounted}]
    /\ WellFormed \in [Content -> BOOLEAN]
    /\ MinRows \in Nat /\ Tolerance \in 0..100
    /\ EmptyPolicy \in {"allow", "warn", "fail", "preserve_previous"}

MaybeContent == Content \cup {None}

SuccessStatuses == {"SUCCESS_WITH_CHANGE", "SUCCESS_NO_CHANGE",
                    "EMPTY_EXPECTED", "CHECKPOINTED"}

\* count_rows over the declared outputs: an absent output, like a JSON one,
\* is not counted, and what is not counted adds nothing to the total.
Counted(c) == c # None /\ Rows[c] # Uncounted
TotalRows(c) == IF Counted(c) THEN Rows[c] ELSE 0

\* Check 4: the rows lost since the snapshot taken before the run, in percent.
Regressed(before, after) ==
    (TotalRows(before) - TotalRows(after)) * 100 > Tolerance * TotalRows(before)

EmptyStatus ==
    IF EmptyPolicy \in {"fail", "preserve_previous"}
    THEN "EMPTY_SUSPICIOUS" ELSE "EMPTY_EXPECTED"

\* Hashes are compared only when the snapshot before had counted rows.
ChangeStatus(before, after) ==
    IF TotalRows(before) > 0 /\ before = after
    THEN "SUCCESS_NO_CHANGE" ELSE "SUCCESS_WITH_CHANGE"

\* The checks in the order of the early returns of validate_outputs.
GateStatus(before, after) ==
    IF after = None THEN "OUTPUT_MISSING"
    ELSE IF ~WellFormed[after] THEN "SCHEMA_FAILED"
    ELSE IF Counted(after) /\ Rows[after] = 0 THEN EmptyStatus
    ELSE IF Counted(after) /\ Rows[after] < MinRows THEN "SCHEMA_FAILED"
    ELSE IF TotalRows(before) > 0 /\ Regressed(before, after)
         THEN "OUTPUT_REGRESSION"
    ELSE ChangeStatus(before, after)

GatePasses(status) ==
    \/ status \in SuccessStatuses
    \/ status = "EMPTY_SUSPICIOUS" /\ EmptyPolicy = "preserve_previous"
=============================================================================
