--------------------------- MODULE ContractCrawl ---------------------------
(***************************************************************************)
(* The resumable crawl of the OCPR contract registry                        *)
(* (scripts/materialize_ocpr_contracts_resumable.py): pages are appended to *)
(* a work file, a checkpoint records how far the crawl is, and a complete    *)
(* crawl is promoted to the canonical CSV and gets a receipt.  One process   *)
(* runs at a time; it may die at any point, and the next one resumes.        *)
(*                                                                         *)
(* A SHA-256 stands for what it is the digest of: work_sha256 is the work    *)
(* file the checkpoint was written for, output_sha256 the output.            *)
(***************************************************************************)
EXTENDS Sequences, Integers

CONSTANTS
    Record,       \* normalized registry records
    Blank,        \* those without a contract number
    Registries,   \* what the registry may hold, in the order of its pages
    PageLength,   \* --page-length
    Limits,       \* the values of --max-pages in use, None for no limit
    MaxWork,      \* bound: rows in the work file with which a run is resumed
    Faults,       \* which of AllFaults the environment may show
    Torn,         \* a line of the work file that is not JSON
    None

AllFaults == {"crash",        \* the process dies or raises
              "unavailable",  \* a page fails, also after the re-authentication
              "no_total",     \* an answer reports no total
              "page_total",   \* it reports the length of the page as the total
              "short_page",   \* it holds fewer records than were asked for
              "empty_page"}   \* it holds none

ASSUME CrawlAssumption ==
    /\ Torn \notin Record
    /\ Blank \subseteq Record
    /\ Registries \subseteq Seq(Record) \ {<<>>} /\ Registries # {}
    /\ PageLength \in Nat \ {0}
    /\ None \notin Nat /\ Limits \subseteq (Nat \ {0}) \cup {None}
    /\ MaxWork \in Nat
    /\ Faults \subseteq AllFaults

VARIABLES
    registry,    \* upstream: what the registry holds now
    work,        \* disk: pages.jsonl
    checkpoint,  \* disk: checkpoint.json, or None
    output,      \* disk: the records of pr_ocpr_contracts.csv, or None
    receipt,     \* disk: completion_receipt.json, or None
    pc,          \* process: how far run() is
    ck,          \* process: the checkpoint in memory
    page,        \* process: the records of the page in hand
    pages,       \* process: pages_this_run, counted under a limit only
    limit,       \* process: --max-pages
    past         \* auxiliary: what the registry has held since page 1 of the crawl

disk == <<work, checkpoint, output, receipt>>
process == <<pc, ck, page, pages, limit>>
upstream == <<registry, past>>
vars == <<upstream, disk, process>>

Lines == Record \cup {Torn}
Stages == {"idle", "reset", "load", "fetch", "append", "save", "next",
           "promote", "certify", "close"}
Statuses == {"IN_PROGRESS", "BLOCKED_PAGE_FETCH", "BLOCKED_INVALID_TOTAL",
             "BLOCKED_TOTAL_CHANGED", "FETCH_COMPLETE", "PROVISIONAL_MAX_PAGES",
             "COMPLETE"}

\* initial_checkpoint
Fresh == [offset |-> 0, total |-> None, written |-> 0, sha |-> None,
          status |-> "IN_PROGRESS"]

Least(m, n) == IF m < n THEN m ELSE n

\* What promote makes of rows: those with a contract number, without duplicates.
Canonical(rows) == {rows[i] : i \in 1..Len(rows)} \ Blank

-----------------------------------------------------------------------------
\* Contracts are registered, cancelled and corrected at any time; the total need
\* not show it.
RegistryChanges ==
    /\ registry' \in Registries \ {registry}
    /\ past' = past \cup {registry'}
    /\ UNCHANGED <<disk, process>>

\* run() is left, and with it its local variables.
Leave ==
    /\ pc' = "idle" /\ ck' = Fresh /\ page' = <<>> /\ pages' = 0 /\ limit' = None

Start(reset, max) ==
    /\ pc = "idle"
    /\ reset \/ Len(work) <= MaxWork
    /\ limit' = max
    /\ pc' = IF reset THEN "reset" ELSE "load"
    /\ checkpoint' = IF reset THEN None ELSE checkpoint
    /\ UNCHANGED <<upstream, work, output, receipt, ck, page, pages>>

\* --reset removes the checkpoint first and the work file second.
ResetWork ==
    /\ pc = "reset"
    /\ work' = <<>>
    /\ pc' = "load"
    /\ UNCHANGED <<upstream, checkpoint, output, receipt, ck, page, pages, limit>>

\* A checkpoint of some rows is only as good as the work file it was written for.
Loadable ==
    checkpoint # None => checkpoint.written = 0 \/ checkpoint.sha = work

SlipLoad ==                  \* the last receipt stays where it is
    /\ pc = "load" /\ Loadable
    /\ ck' = IF checkpoint = None THEN Fresh ELSE checkpoint
    /\ pc' = "fetch"
    /\ UNCHANGED <<upstream, work, checkpoint, output, receipt, page, pages, limit>>

\* load_checkpoint, after which the receipt of an earlier run is removed.
Load ==
    /\ pc = "load" /\ Loadable
    /\ ck' = IF checkpoint = None THEN Fresh ELSE checkpoint
    /\ receipt' = None
    /\ pc' = "fetch"
    /\ UNCHANGED <<upstream, work, checkpoint, output, page, pages, limit>>

LoadRefused ==
    /\ pc = "load" /\ ~Loadable
    /\ Leave
    /\ UNCHANGED <<upstream, disk>>

-----------------------------------------------------------------------------
\* The pages the registry may answer with at an offset.
PageAt(offset, n) == SubSeq(registry, offset + 1, offset + n)
Full(offset) == Least(PageLength, Len(registry) - offset)
Answers(offset) ==
    IF offset >= Len(registry) THEN {<<>>}
    ELSE {PageAt(offset, Full(offset))}
         \cup (IF "short_page" \in Faults
               THEN {PageAt(offset, n) : n \in 1..Full(offset)} ELSE {})
         \cup (IF "empty_page" \in Faults THEN {<<>>} ELSE {})

\* recordsFiltered, or else recordsTotal, or else 0.
Reported(rows) ==
    {Len(registry)} \cup (IF "page_total" \in Faults THEN {Len(rows)} ELSE {})
                    \cup (IF "no_total" \in Faults THEN {0} ELSE {})

\* Stop before the page is appended, and say why in the checkpoint.
Blocked(status) ==
    /\ checkpoint' = [ck EXCEPT !.status = status]
    /\ Leave
    /\ UNCHANGED <<upstream, work, output, receipt>>

FetchFails ==
    /\ pc = "fetch" /\ "unavailable" \in Faults
    /\ Blocked("BLOCKED_PAGE_FETCH")

FetchInvalid ==
    /\ pc = "fetch"
    /\ \E rows \in Answers(ck.offset) : 0 \in Reported(rows)
    /\ Blocked("BLOCKED_INVALID_TOTAL")

FetchChanged ==
    /\ pc = "fetch" /\ ck.total # None
    /\ \E rows \in Answers(ck.offset) : \E n \in Reported(rows) : n # 0 /\ n # ck.total
    /\ Blocked("BLOCKED_TOTAL_CHANGED")

FetchPage ==
    /\ pc = "fetch"
    /\ \E rows \in Answers(ck.offset) : \E n \in Reported(rows) \ {0} :
        /\ ck.total \in {None, n}
        /\ ck' = [ck EXCEPT !.total = n]
        /\ page' = rows
    /\ past' = IF ck.total = None THEN {registry} ELSE past
    /\ pc' = "append"
    /\ UNCHANGED <<registry, disk, pages, limit>>

\* append_rows, flushed and synced ...
AppendRows ==
    /\ pc = "append"
    /\ work' = work \o page
    /\ pc' = "save"
    /\ UNCHANGED <<upstream, checkpoint, output, receipt, ck, page, pages, limit>>

\* ... and only then the checkpoint that counts them.
SaveCheckpoint ==
    /\ pc = "save"
    /\ ck' = [ck EXCEPT !.written = @ + Len(page), !.offset = @ + Len(page),
                        !.sha = work, !.status = "IN_PROGRESS"]
    /\ checkpoint' = ck'
    /\ pages' = IF limit = None THEN pages ELSE pages + 1
    /\ pc' = "next"
    /\ UNCHANGED <<upstream, work, output, receipt, page, limit>>

SlipFinished == ck.offset > ck.total   \* waits for more than there is

Finished == page = <<>> \/ ck.offset >= ck.total

SlipLimitReached == limit # None /\ pages > limit

LimitReached == limit # None /\ pages >= limit

NextPage ==
    /\ pc = "next" /\ ~Finished /\ ~LimitReached
    /\ pc' = "fetch" /\ page' = <<>>
    /\ UNCHANGED <<upstream, disk, ck, pages, limit>>

StopAtLimit ==
    /\ pc = "next" /\ ~Finished /\ LimitReached
    /\ checkpoint' = [ck EXCEPT !.status = "PROVISIONAL_MAX_PAGES"]
    /\ Leave
    /\ UNCHANGED <<upstream, work, output, receipt>>

CloseFetch ==
    /\ pc = "next" /\ Finished
    /\ ck' = [ck EXCEPT !.status = "FETCH_COMPLETE"]
    /\ checkpoint' = ck'
    /\ pc' = "promote"
    /\ UNCHANGED <<upstream, work, output, receipt, page, pages, limit>>

-----------------------------------------------------------------------------
Malformed == \E i \in 1..Len(work) : work[i] = Torn

SlipPromotable == ~Malformed           \* whatever was fetched is complete

\* promote parses every line and compares their number with the total.
Promotable == ~Malformed /\ Len(work) = ck.total

PromotionRefused ==
    /\ pc = "promote" /\ ~Promotable
    /\ Leave
    /\ UNCHANGED <<upstream, disk>>

\* The output is replaced first ...
Promote ==
    /\ pc = "promote" /\ Promotable
    /\ output' = Canonical(work)
    /\ pc' = "certify"
    /\ UNCHANGED <<upstream, work, checkpoint, receipt, ck, page, pages, limit>>

\* ... the receipt is written second ...
WriteReceipt ==
    /\ pc = "certify"
    /\ receipt' = [total |-> ck.total, output |-> output]
    /\ pc' = "close"
    /\ UNCHANGED <<upstream, work, checkpoint, output, ck, page, pages, limit>>

\* ... and the checkpoint is closed last.
CloseCheckpoint ==
    /\ pc = "close"
    /\ checkpoint' = [ck EXCEPT !.status = "COMPLETE"]
    /\ Leave
    /\ UNCHANGED <<upstream, work, output, receipt>>

\* Some of the page's lines are in the work file, perhaps half of one more.
PartOfPage ==
    LET kept(n) == work \o SubSeq(page, 1, n)
    IN  {kept(n) : n \in 0..Len(page)}
        \cup {Append(kept(n), Torn) : n \in 0..(Len(page) - 1)}

Crash ==
    /\ "crash" \in Faults /\ pc # "idle"
    /\ work' \in IF pc = "append" THEN PartOfPage ELSE {work}
    /\ Leave
    /\ UNCHANGED <<upstream, checkpoint, output, receipt>>

-----------------------------------------------------------------------------
Init ==
    /\ registry \in Registries /\ past = {registry}
    /\ work = <<>> /\ checkpoint = None /\ output = None /\ receipt = None
    /\ pc = "idle" /\ ck = Fresh /\ page = <<>> /\ pages = 0 /\ limit = None

Run ==
    \/ ResetWork \/ Load \/ LoadRefused
    \/ FetchFails \/ FetchInvalid \/ FetchChanged \/ FetchPage
    \/ AppendRows \/ SaveCheckpoint \/ NextPage \/ StopAtLimit \/ CloseFetch
    \/ PromotionRefused \/ Promote \/ WriteReceipt \/ CloseCheckpoint

Next ==
    \/ RegistryChanges
    \/ \E reset \in BOOLEAN, max \in Limits : Start(reset, max)
    \/ Run
    \/ Crash

Spec == Init /\ [][Next]_vars

\* The process keeps running until it ends or dies.
FairSpec == Spec /\ WF_vars(Run)

-----------------------------------------------------------------------------
(* Properties.                                                              *)

Checkpoints ==
    [offset : Nat, total : Nat \cup {None}, written : Nat,
     sha : Seq(Lines) \cup {None}, status : Statuses]
Receipts == [total : Nat, output : SUBSET Record]

TypeOK ==
    /\ registry \in Registries /\ past \in SUBSET Registries
    /\ work \in Seq(Lines)
    /\ checkpoint \in Checkpoints \cup {None}
    /\ output \in (SUBSET Record) \cup {None}
    /\ receipt \in Receipts \cup {None}
    /\ pc \in Stages
    /\ ck \in Checkpoints
    /\ page \in Seq(Record)
    /\ pages \in Nat /\ limit \in Limits \cup {None}
    /\ limit # None => pages <= limit

\* n rows, each of which some of these registries held in its place when n was
\* their total.
Rows(n, states) ==
    {w \in [1..n -> Record] :
        \A i \in 1..n : \E r \in states : Len(r) = n /\ w[i] = r[i]}
Outputs(n, states) == {{w[i] : i \in 1..n} \ Blank : w \in Rows(n, states)}

\* What is promoted is complete and of this crawl: in every place up to the total a
\* row that the registry held there, with that total, since page 1 was read.  No smoke
\* run, interrupted or resumed run is promoted with a place left out, or with rows
\* from before.  It is the registry itself if that has not changed meanwhile; if it
\* has, and its total has not, rows of two of its states are promoted together.
CompleteOutput ==
    [][pc = "promote" /\ pc' = "certify" => output' \in Outputs(ck.total, past)]_vars

\* The crawl keeps its promise: the output goes from complete to complete, and
\* a receipt only stands beside the output and the total it certifies.
Certificates(n) == {[total |-> n, output |-> o] : o \in Outputs(n, Registries)}
Certifiable == UNION {Certificates(n) : n \in {Len(r) : r \in Registries}}
Promise == INSTANCE Materialization WITH Complete <- Certifiable
KeepsPromise == Promise!Spec

\* Every run comes to its end, whatever the registry answers.
RunsEnd == pc # "idle" ~> pc = "idle"
=============================================================================
