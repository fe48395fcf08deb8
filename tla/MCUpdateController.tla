------------------------- MODULE MCUpdateController -------------------------
(***************************************************************************)
(* Instances of UpdateController for TLC.  The pipeline has a scheduled     *)
(* source, a drop source, a source derived from both and a manual source    *)
(* that needs an API key; the chain has a scheduled source, a child and a   *)
(* grandchild, and a second scheduled source of another cadence, alone; the *)
(* intake has two drop sources.                                             *)
(***************************************************************************)
EXTENDS UpdateController

PipelineSources == {"api", "drop", "derived", "keyed"}
PipelineTrigger == [s \in PipelineSources |->
    CASE s = "api" -> "schedule" [] s = "drop" -> "file_drop"
      [] s = "derived" -> "dependency" [] s = "keyed" -> "manual"]
PipelineDepends == [s \in PipelineSources |->
    IF s = "derived" THEN {"api", "drop"} ELSE {}]
PipelineHost == [s \in PipelineSources |-> IF s \in {"api", "keyed"} THEN "host" ELSE None]
PipelineRank == [s \in PipelineSources |->
    CASE s = "api" -> 1 [] s = "drop" -> 2 [] s = "derived" -> 3
      [] s = "keyed" -> 4]
PipelineSelections == {PipelineSources, {"api"}}

ChainSources == {"root", "other", "child", "grandchild"}
ChainTrigger == [s \in ChainSources |->
    IF s \in {"root", "other"} THEN "schedule" ELSE "dependency"]
ChainDepends == [s \in ChainSources |->
    CASE s = "child" -> {"root"} [] s = "grandchild" -> {"child"} [] OTHER -> {}]
ChainHost == [s \in ChainSources |-> None]
ChainRank == [s \in ChainSources |->
    CASE s = "other" -> 0 [] s = "root" -> 1 [] s = "child" -> 2 [] s = "grandchild" -> 3]
\* Two cadences, and a run without a selection.
ChainSelections == {{"root"}, {"other"}, ChainSources}

IntakeSources == {"first", "second"}
IntakeTrigger == [s \in IntakeSources |-> IF s = "first" THEN "file_drop" ELSE "on_drop"]
IntakeDepends == [s \in IntakeSources |-> {}]
IntakeHost == [s \in IntakeSources |-> None]
IntakeRank == [s \in IntakeSources |-> IF s = "first" THEN 1 ELSE 2]
IntakeSelections == {IntakeSources}

\* Two contents the gate accepts and an empty one, which it takes for suspicious
\* and, as preserve_previous has it, lets pass.
PassingContent == {"v1", "v2", "empty"}
PassingRows == [c \in PassingContent |-> IF c = "empty" THEN 0 ELSE 2]
AllParse == [c \in PassingContent |-> TRUE]

\* Two contents that the gate accepts.
GoodContent == {"v1", "v2"}
GoodRows == [c \in GoodContent |-> 2]
AllGood == [c \in GoodContent |-> TRUE]

\* An accepted content and one that does not parse.
TornContent == {"v1", "torn"}
TornRows == [c \in TornContent |-> 2]
TornWellFormed == [c \in TornContent |-> c = "v1"]

\* A content and what is left of it when half of its rows are lost.
ShrinkingContent == {"full", "half"}
ShrinkingRows == [c \in ShrinkingContent |-> IF c = "full" THEN 2 ELSE 1]
BothParse == [c \in ShrinkingContent |-> TRUE]
=============================================================================
