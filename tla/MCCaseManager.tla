--------------------------- MODULE MCCaseManager ---------------------------
(***************************************************************************)
(* Instances of CaseManager for TLC.  A file has one case with a claim, a    *)
(* contradiction about it and a finding on it; a stray contradiction is       *)
(* filed under another case than its claim; a note names evidence that the   *)
(* catalog does not know.                                                    *)
(***************************************************************************)
EXTENDS CaseManager

FileObjects == {"case", "other", "claim", "clash", "stray", "finding", "note"}
FileKind == [o \in FileObjects |->
    CASE o \in {"case", "other"} -> "case" [] o = "claim" -> "claim"
      [] o \in {"clash", "stray"} -> "contradiction" [] o = "finding" -> "finding"
      [] o = "note" -> "claim_evidence"]
FileCase == [o \in FileObjects |-> IF o \in {"other", "stray"} THEN "other" ELSE "case"]
FileRefs == [o \in FileObjects |->
    IF o \in {"clash", "stray", "finding", "note"} THEN {"claim"} ELSE {}]

OwnConnection == [t \in {"t1", "t2"} |-> t]
SharedConnection == [t \in {"t1", "t2"} |-> "k"]
=============================================================================
