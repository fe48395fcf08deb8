--------------------------- MODULE PurchaseCrawl ---------------------------
(***************************************************************************)
(* The resumable crawl of the ASG emergency-purchase registry               *)
(* (scripts/materialize_asg_emergency_purchases_resumable.py).  Unlike the   *)
(* contract registry it tells its number of pages, not of rows, and purchases *)
(* that are published or withdrawn shift rows from page to page while the     *)
(* crawl is under way.  One process runs at a time; it may die at any point,  *)
(* and the next resumes.                                                    *)
(*                                                                         *)
(* A SHA-256 stands for what it is the digest of, as in ContractCrawl.  The   *)
(* status in the checkpoint tells the operator how a run ended; no run reads  *)
(* it, and it is left out.                                                  *)
(***************************************************************************)
EXTENDS Sequences, Integers, FiniteSets

CONSTANTS
    Row,         \* what the registry may say of a purchase, each with its control
                 \* number (parse_records drops rows without one)
    Listings,    \* what the registry may hold at first, in the order of its pages
    Order,       \* the pairs of control numbers of which the first is listed first
    PageLength,  \* rows the registry shows on a page
    Limits,      \* the values of --max-pages in use, None for no limit
    MaxChanges,  \* bound: how often the listing changes
    MaxWork,     \* bound: rows in the work file with which a run is resumed
    Faults,      \* which of AllFaults the environment may show
    Torn,        \* a line of the work file that is not JSON
    None

AllFaults == {"crash",        \* the process dies or raises
              "unavailable",  \* a page fails, also after the retries
              "no_count",     \* a page without its "Página 1 de N"
              "no_rows",      \* a page without its table
              "repeated",     \* a page already sent instead of the next one
              "corrected",    \* the registry corrects what it has published
              "withdrawn"}    \* or withdraws it

ASSUME PurchaseAssumption ==
    /\ Torn \notin Row
    /\ Listings \subseteq Seq(Row) \ {<<>>} /\ Listings # {}
    /\ \A l \in Listings : \A i, j \in 1..Len(l) :
            l[i].control = l[j].control => i = j
    /\ PageLength \in Nat \ {0}
    /\ None \notin Nat /\ Limits \subseteq (Nat \ {0}) \cup {None}
    /\ MaxChanges \in Nat /\ MaxWork \in Nat
    /\ Faults \subseteq AllFaults

VARIABLES
    listing,     \* upstream: the rows of the registry, ordered by control number
    changes,     \* auxiliary: how often it has changed, for the bound
    base,        \* auxiliary: the purchases listed ever since page 1 was fetched
    shown,       \* auxiliary: the rows the registry has shown since then
    missed,      \* auxiliary: how many rows the page in hand may be short of
    lost,        \* auxiliary: how many may have escaped the crawl since page 1
    work,        \* disk: pages.jsonl
    checkpoint,  \* disk: checkpoint.json, or None
    output,      \* disk: the rows of the canonical CSV, or None
    receipt,     \* disk: completion_receipt.json, or None
    pc,          \* process: how far run() is
    ck,          \* process: the checkpoint in memory
    page,        \* process: the rows of the page in hand
    pages,       \* process: pages_this_run, counted under a limit only
    limit        \* process: --max-pages

seen == <<base, shown, missed, lost>>
upstream == <<listing, changes, seen>>
disk == <<work, checkpoint, output, receipt>>
process == <<pc, ck, page, pages, limit>>
vars == <<upstream, disk, process>>

Lines == Row \cup {Torn}
Stages == {"idle", "reset", "load", "fetch", "append", "save", "next",
           "promote", "certify"}

\* initial_checkpoint
Fresh == [next |-> 1, declared |-> None, written |-> 0, completed |-> 0,
          signature |-> None, sha |-> None]

\* page_signature: the control numbers of a page, in their order.
Signature(rows) == [i \in 1..Len(rows) |-> rows[i].control]

-----------------------------------------------------------------------------
\* A purchase is published; its control number puts it in its place in the listing.
Inserted(i, row) ==
    [k \in 1..(Len(listing) + 1) |->
        IF k < i THEN listing[k] ELSE IF k = i THEN row ELSE listing[k - 1]]

Change == changes < MaxChanges /\ changes' = changes + 1

Publish ==
    /\ Change
    /\ \E row \in Row, i \in 1..(Len(listing) + 1) :
        /\ \A k \in 1..Len(listing) :
              /\ listing[k].control # row.control
              /\ IF k < i THEN <<listing[k].control, row.control>> \in Order
                          ELSE <<row.control, listing[k].control>> \in Order
        /\ listing' = Inserted(i, row)
        /\ shown' = shown \cup {row}
    /\ UNCHANGED <<base, missed, lost, disk, process>>

Correct ==
    /\ "corrected" \in Faults /\ Change
    /\ \E i \in 1..Len(listing), row \in Row :
        /\ row.control = listing[i].control /\ row # listing[i]
        /\ listing' = [listing EXCEPT ![i] = row]
        /\ shown' = shown \cup {row}
    /\ UNCHANGED <<base, missed, lost, disk, process>>

Removed(i) ==
    [k \in 1..(Len(listing) - 1) |-> IF k < i THEN listing[k] ELSE listing[k + 1]]

\* A purchase is withdrawn, not the only one; those behind it move up, one of them
\* perhaps from a page not read yet to one that has been.
Withdraw ==
    /\ "withdrawn" \in Faults /\ Change
    /\ Len(listing) > 1
    /\ \E i \in 1..Len(listing) :
        /\ listing' = Removed(i)
        /\ base' = base \ {listing[i].control}
    /\ lost' = lost + 1
    /\ UNCHANGED <<shown, missed, disk, process>>

\* run() is left, and with it its local variables.
Leave ==
    /\ pc' = "idle" /\ ck' = Fresh /\ page' = <<>> /\ pages' = 0 /\ limit' = None

Start(reset, max) ==
    /\ pc = "idle"
    /\ reset \/ Len(work) <= MaxWork
    /\ limit' = max
    /\ pc' = IF reset THEN "reset" ELSE "load"
    /\ checkpoint' = IF reset THEN None ELSE checkpoint
    /\ UNCHANGED <<upstream, work, output, receipt, ck, page, pages>>

\* --reset removes the checkpoint first and the work file second.
ResetWork ==
    /\ pc = "reset"
    /\ work' = <<>>
    /\ pc' = "load"
    /\ UNCHANGED <<upstream, checkpoint, output, receipt, ck, page, pages, limit>>

\* A checkpoint of some rows is only as good as the work file it was written for.
Loadable ==
    checkpoint # None => checkpoint.written = 0 \/ checkpoint.sha = work

SlipLoad ==                           \* the receipt of an earlier run is kept
    /\ pc = "load" /\ Loadable
    /\ ck' = IF checkpoint = None THEN Fresh ELSE checkpoint
    /\ pc' = "fetch"
    /\ UNCHANGED <<upstream, disk, page, pages, limit>>

\* load_checkpoint, after which the receipt of an earlier run is removed.
Load ==
    /\ pc = "load" /\ Loadable
    /\ ck' = IF checkpoint = None THEN Fresh ELSE checkpoint
    /\ receipt' = None
    /\ pc' = "fetch"
    /\ UNCHANGED <<upstream, work, checkpoint, output, page, pages, limit>>

LoadRefused ==
    /\ pc = "load" /\ ~Loadable
    /\ Leave
    /\ UNCHANGED <<upstream, disk>>

-----------------------------------------------------------------------------
Least(m, n) == IF m < n THEN m ELSE n

\* The rows on page n, and the N of "Página n de N".
PageRows(n) ==
    SubSeq(listing, (n - 1) * PageLength + 1, Least(n * PageLength, Len(listing)))
IsPageCount(n) ==
    (n - 1) * PageLength < Len(listing) /\ Len(listing) <= n * PageLength

\* What a request for page n may be answered with.
Answers(n) ==
    {PageRows(n)}
    \cup (IF "no_rows" \in Faults THEN {<<>>} ELSE {})
    \cup (IF "repeated" \in Faults THEN {PageRows(m) : m \in 1..n} ELSE {})

\* More pages to fetch: the head of the loop.
Requests == pc = "fetch" /\ (ck.declared # None => ck.next <= ck.declared)

CountHolds(n) == ck.declared \in {None, n}

SlipRepeats(rows) == FALSE           \* a page is never taken for the one before

Repeats(rows) == Signature(rows) = ck.signature

\* Stop before the page is appended, and save the checkpoint.
Blocked(declared) ==
    /\ checkpoint' = [ck EXCEPT !.declared = declared]
    /\ Leave
    /\ UNCHANGED <<upstream, work, output, receipt>>

\* The first count is in the checkpoint also when its page is refused.
FetchRefused ==
    /\ Requests
    /\ \/ Faults \cap {"unavailable", "no_count"} # {} /\ Blocked(ck.declared)
       \/ \E n \in 1..Len(listing) :
            IsPageCount(n) /\ ~CountHolds(n) /\ Blocked(ck.declared)
       \/ \E n \in 1..Len(listing) : \E rows \in Answers(ck.next) :
            /\ IsPageCount(n) /\ CountHolds(n)
            /\ rows = <<>> \/ Repeats(rows)
            /\ Blocked(n)

\* With page 1 the crawl begins; a page sent for another is short of the other's rows.
\* The page before is not counted, because its signature gives it away.
Observed(rows) ==
    /\ missed' = IF rows = PageRows(ck.next) \/ Signature(rows) = ck.signature
                 THEN 0 ELSE PageLength
    /\ IF ck.next = 1
       THEN /\ base' = {listing[i].control : i \in 1..Len(listing)}
            /\ shown' = {listing[i] : i \in 1..Len(listing)}
            /\ lost' = 0
       ELSE UNCHANGED <<base, shown, lost>>

FetchPage ==
    /\ Requests
    /\ \E n \in 1..Len(listing) : \E rows \in Answers(ck.next) \ {<<>>} :
        /\ IsPageCount(n) /\ CountHolds(n)
        /\ ~Repeats(rows)
        /\ ck' = [ck EXCEPT !.declared = n]
        /\ page' = rows
        /\ Observed(rows)
    /\ pc' = "append"
    /\ UNCHANGED <<listing, changes, disk, pages, limit>>

\* append_rows, flushed and synced ...
AppendRows ==
    /\ pc = "append"
    /\ work' = work \o page
    /\ lost' = lost + missed /\ missed' = 0
    /\ pc' = "save"
    /\ UNCHANGED <<listing, changes, base, shown, checkpoint, output, receipt, ck, page, pages, limit>>

\* ... and only then the checkpoint that counts them.
SaveCheckpoint ==
    /\ pc = "save"
    /\ ck' = [ck EXCEPT !.written = @ + Len(page), !.completed = @ + 1,
                        !.next = @ + 1, !.signature = Signature(page),
                        !.sha = work]
    /\ checkpoint' = ck'
    /\ pages' = IF limit = None THEN pages ELSE pages + 1
    /\ pc' = "next"
    /\ UNCHANGED <<upstream, work, output, receipt, page, limit>>

SlipLimitReached == limit # None /\ pages > limit

LimitReached == limit # None /\ pages >= limit

NextPage ==
    /\ pc = "next" /\ ~LimitReached
    /\ pc' = "fetch" /\ page' = <<>>
    /\ UNCHANGED <<upstream, disk, ck, pages, limit>>

\* Also after the last page: the promotion is then left to the next run.
StopAtLimit ==
    /\ pc = "next" /\ LimitReached
    /\ Leave
    /\ UNCHANGED <<upstream, disk>>

CloseFetch ==
    /\ pc = "fetch" /\ ~Requests
    /\ pc' = "promote"
    /\ UNCHANGED <<upstream, disk, ck, page, pages, limit>>

-----------------------------------------------------------------------------
Malformed == \E i \in 1..Len(work) : work[i] = Torn

\* Two rows of one control number that differ.
Conflicting ==
    \E i, j \in 1..Len(work) : work[i].control = work[j].control /\ work[i] # work[j]

SlipPromotable ==                     \* rows that no checkpoint has counted
    /\ ck.completed = ck.declared
    /\ ~Malformed
    /\ ~Conflicting

Promotable ==
    /\ ck.completed = ck.declared
    /\ ~Malformed
    /\ Len(work) = ck.written
    /\ ~Conflicting

PromotionRefused ==
    /\ pc = "promote" /\ ~Promotable
    /\ Leave
    /\ UNCHANGED <<upstream, disk>>

\* The output is replaced first, exact duplicates merged ...
Promote ==
    /\ pc = "promote" /\ Promotable
    /\ output' = {work[i] : i \in 1..Len(work)}
    /\ pc' = "certify"
    /\ UNCHANGED <<upstream, work, checkpoint, receipt, ck, page, pages, limit>>

\* ... and the receipt is written second.
WriteReceipt ==
    /\ pc = "certify"
    /\ receipt' = [total |-> Cardinality(output), output |-> output]
    /\ Leave
    /\ UNCHANGED <<upstream, work, checkpoint, output>>

\* Some of the page's lines are in the work file, perhaps half of one more.
PartOfPage ==
    LET kept(n) == work \o SubSeq(page, 1, n)
    IN  {kept(n) : n \in 0..Len(page)}
        \cup {Append(kept(n), Torn) : n \in 0..(Len(page) - 1)}

Crash ==
    /\ "crash" \in Faults /\ pc # "idle"
    /\ work' \in IF pc = "append" THEN PartOfPage ELSE {work}
    /\ Leave
    /\ UNCHANGED <<upstream, checkpoint, output, receipt>>

-----------------------------------------------------------------------------
Init ==
    /\ listing \in Listings /\ changes = 0
    /\ base = {} /\ shown = {listing[i] : i \in 1..Len(listing)} /\ missed = 0 /\ lost = 0
    /\ work = <<>> /\ checkpoint = None /\ output = None /\ receipt = None
    /\ pc = "idle" /\ ck = Fresh /\ page = <<>> /\ pages = 0 /\ limit = None

Run ==
    \/ ResetWork \/ Load \/ LoadRefused
    \/ FetchRefused \/ FetchPage
    \/ AppendRows \/ SaveCheckpoint \/ NextPage \/ StopAtLimit \/ CloseFetch
    \/ PromotionRefused \/ Promote \/ WriteReceipt

Next ==
    \/ Publish \/ Correct \/ Withdraw
    \/ \E reset \in BOOLEAN, max \in Limits : Start(reset, max)
    \/ Run
    \/ Crash

Spec == Init /\ [][Next]_vars

-----------------------------------------------------------------------------
(* Properties.                                                              *)

Checkpoints ==
    [next : Nat \ {0}, declared : (Nat \ {0}) \cup {None}, written : Nat, completed : Nat,
     signature : Seq({row.control : row \in Row}) \cup {None}, sha : Seq(Lines) \cup {None}]

PurchaseTypeOK ==
    /\ listing \in Seq(Row) \ {<<>>}
    /\ base \in SUBSET {row.control : row \in Row} /\ shown \in SUBSET Row
    /\ changes \in 0..MaxChanges /\ missed \in Nat /\ lost \in Nat
    /\ work \in Seq(Lines)
    /\ checkpoint \in Checkpoints \cup {None}
    /\ output \in (SUBSET Row) \cup {None}
    /\ receipt \in [total : Nat, output : SUBSET Row] \cup {None}
    /\ pc \in Stages
    /\ ck \in Checkpoints
    /\ page \in Seq(Row)
    /\ pages \in Nat /\ limit \in Limits \cup {None}
    /\ limit # None => pages <= limit

Missing(rows) == {c \in base : \A row \in rows : row.control # c}

\* The purchases listed from page 1 to the promotion are in the output, also when
\* purchases published meanwhile have shifted rows from page to page, and when runs,
\* days apart, have shared the crawl; but for one at most for every purchase withdrawn
\* meanwhile, and for the rows of a page for every page that the registry has sent in
\* place of a later one, the page before excepted.
PromotedIsWhole ==
    [][pc = "promote" /\ pc' = "certify" => Cardinality(Missing(output')) <= lost]_vars

\* And nothing else is: what is promoted the registry has shown, in that form, since
\* page 1 of this crawl. Rows that a dead process has left in the work file before the
\* first checkpoint are not, which may have been withdrawn or corrected since.
PromotedWasShown == [][pc = "promote" /\ pc' = "certify" => output' \subseteq shown]_vars

\* A receipt only stands beside the output that it counts.
Promise == INSTANCE Materialization
    WITH Complete <- {[total |-> Cardinality(o), output |-> o] : o \in SUBSET Row}
PurchasesKeepPromise == Promise!Spec
=============================================================================
