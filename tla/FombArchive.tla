---------------------------- MODULE FombArchive ----------------------------
(***************************************************************************)
(* The producer of the oversight board's public records                     *)
(* (scripts/download_fomb.py): it reads the collection pages, keeps their    *)
(* HTML with the validators the site has sent, downloads the documents they  *)
(* link to, and rewrites the manifest and the table of contract reviews.     *)
(* A run may fail in part or die at any point, and the next goes on from the *)
(* checkpoint.                                                              *)
(*                                                                         *)
(* Pages and documents change from version to version; a version stands for *)
(* the body, its SHA-256, its ETag and the name of the file it is stored    *)
(* under, and 0 for none of them.  A file is not written in one step: a crash  *)
(* may cut it short, a kept page as well as a document.                      *)
(***************************************************************************)
EXTENDS Integers, FiniteSets

CONSTANTS
    Collection,   \* the collection pages
    Contracts,    \* the one with the table of contract reviews
    Document,     \* documents, each with its URL
    Last,         \* bound: the last version of each page and document
    Links,        \* the documents that each version of a collection's page links to
    ReviewPages,  \* answers to page through for the whole table of reviews
    Limits,       \* the values of --max-documents in use, All for no limit, and
    All,          \* Skip for --no-download-documents
    Skip,
    Faults        \* which of AllFaults the environment may show

AllFaults == {"crash",      \* the process dies
              "page",       \* a collection page cannot be had
              "document",   \* a document cannot be had
              "reviews",    \* the paging through the reviews breaks off
              "cut",        \* a crash comes in mid-write of a page or a document
              "bare_page",      \* an answer without validators, of a page
              "bare_document",  \* or of a document
              "lost_file"}  \* a stored document is removed by hand between runs

ASSUME FombAssumption ==
    /\ Contracts \in Collection /\ IsFiniteSet(Document)
    /\ Collection \cap Document = {}
    /\ Last \in [Collection \cup Document -> Nat \ {0}] /\ ReviewPages \in Nat \ {0}
    /\ \A c \in Collection : Links[c] \in [1..Last[c] -> SUBSET Document]
    /\ All \notin Nat /\ Skip \notin Nat /\ All # Skip
    /\ Limits \subseteq Nat \cup {All, Skip}
    /\ Faults \subseteq AllFaults

VARIABLES
    page, content,   \* upstream: the version of each page and document
    html,            \* disk: the version of each page that is kept
    tag,             \* checkpoint: the validator of each page
    cached,          \* checkpoint: of each document, its validator and its version
    pending,         \* checkpoint: the documents still to be fetched
    archive,         \* disk: the documents stored, by version
    cut,             \* disk: those of the pages and documents that a crash has cut short
    manifest,        \* disk: of each document in the manifest, the version stored
    reviews,         \* disk: how far the table of contract reviews goes
    pc,              \* process: how far run() is
    limit,           \* process: --max-documents
    left,            \* process: the collections still to be read
    found,           \* process: the rows of the documents found so far
    todo,            \* process: the documents still to be requested
    rows,            \* process: the reviews this run has paged through
    errors,          \* process: whether anything has failed
    since            \* auxiliary: what upstream was when the run began

upstream == <<page, content>>
checkpoint == <<tag, cached, pending>>
disk == <<html, checkpoint, archive, cut, manifest, reviews>>
process == <<pc, limit, left, found, todo, rows, errors, since>>
vars == <<upstream, disk, process>>

NoRows == [d \in {} |-> 0]
Stages == {"idle", "pages", "queue", "documents", "manifest", "reviews"}
Beginning == [page |-> [c \in Collection |-> 1], content |-> [d \in Document |-> 1]]
Unstored == [tag |-> 0, version |-> 0]

-----------------------------------------------------------------------------
PageChanges ==
    \E c \in Collection :
        /\ page[c] < Last[c]
        /\ page' = [page EXCEPT ![c] = @ + 1]
        /\ UNCHANGED <<content, disk, process>>

ContentChanges ==
    \E d \in Document :
        /\ content[d] < Last[d]
        /\ content' = [content EXCEPT ![d] = @ + 1]
        /\ UNCHANGED <<page, disk, process>>

LoseFile ==
    /\ "lost_file" \in Faults /\ pc = "idle"
    /\ \E file \in archive : archive' = archive \ {file} /\ cut' = cut \ {file}
    /\ UNCHANGED <<upstream, html, checkpoint, manifest, reviews, process>>

Idle ==
    /\ pc' = "idle" /\ limit' = Skip /\ left' = {} /\ found' = NoRows /\ todo' = {}
    /\ rows' = 0 /\ errors' = FALSE /\ since' = Beginning

Start(max) ==
    /\ pc = "idle"
    /\ pc' = "pages" /\ limit' = max /\ left' = Collection
    /\ since' = [page |-> page, content |-> content]
    /\ UNCHANGED <<upstream, disk, found, todo, rows, errors>>

\* What an answer leaves as the validator: its own, or without one the old.
Tags(old, version, bare) == {version} \cup (IF bare \in Faults THEN {old} ELSE {})

\* A request carries the validator of the checkpoint, and is answered by a 304
\* if nothing has changed since.
SlipNotModified(validator, version, stored) == validator = version

NotModified(validator, version, stored) == validator = version /\ stored

\* _merge_prior_document: what an earlier run has stored, if it is still there.
Prior(d) ==
    IF d \in DOMAIN manifest /\ <<d, manifest[d]>> \in archive THEN manifest[d] ELSE 0

\* The rows found, with those of a page's links.
Found(links) ==
    [d \in DOMAIN found \cup links |-> IF d \in DOMAIN found THEN found[d] ELSE Prior(d)]

\* What may be read of a page that is kept: of one cut short, some of its links.
Legible(c, version, short) ==
    IF <<c, version>> \in short THEN SUBSET Links[c][version] ELSE {Links[c][version]}

PageFails(c) ==
    /\ "page" \in Faults
    /\ left' = left \ {c}
    /\ errors' = TRUE
    /\ UNCHANGED <<upstream, disk, pc, limit, found, todo, rows, since>>

\* _enumerate_contract_reviews: an answer that fails ends the paging, and only
\* a paging without any row is an error.  Of the other pages, one without links
\* is an error if its table is filled by a script.
Enumerated(c, links) ==
    IF c = Contracts
    THEN /\ rows' \in IF "reviews" \in Faults THEN 0..ReviewPages ELSE {ReviewPages}
         /\ errors' = (errors \/ rows' = 0)
    ELSE rows' = rows /\ errors' \in {errors, errors \/ links = {}}

PageNotModified(c) == NotModified(tag[c], page[c], html[c] # 0)

CutOthers(c) == {file \in cut : file[1] # c}

\* One collection: its page is written over the one that was kept, then its
\* validator, then its rows are made.
ReadPage(c) ==
    /\ IF PageNotModified(c)
       THEN UNCHANGED <<html, tag, cut>>
       ELSE /\ html' = [html EXCEPT ![c] = page[c]]
            /\ cut' = CutOthers(c)
            /\ \E t \in Tags(tag[c], page[c], "bare_page") : tag' = [tag EXCEPT ![c] = t]
    /\ \E links \in Legible(c, html'[c], cut') :
          found' = Found(links) /\ Enumerated(c, links)
    /\ left' = left \ {c}
    /\ UNCHANGED <<upstream, cached, pending, archive, manifest, reviews, pc, limit, todo,
                   since>>

FetchCollection ==
    /\ pc = "pages"
    /\ \E c \in left : PageFails(c) \/ ReadPage(c)

ClosePages ==
    /\ pc = "pages" /\ left = {}
    /\ pc' = "queue"
    /\ UNCHANGED <<upstream, disk, limit, left, found, todo, rows, errors, since>>

-----------------------------------------------------------------------------
Waiting == pending \cap DOMAIN found

\* The documents of this run: those an earlier run has left first, and no more
\* than the limit.  (The order among them is left open.)
Chosen(queue) ==
    /\ queue \subseteq DOMAIN found
    /\ limit = All => queue = DOMAIN found
    /\ limit # All =>
          /\ \/ Cardinality(queue) = limit
             \/ Cardinality(queue) < limit /\ queue = DOMAIN found
          /\ queue \subseteq Waiting \/ Waiting \subseteq queue

SlipQueue ==                       \* what an earlier run has left is left again
    /\ pc = "queue" /\ limit # Skip
    /\ \E queue \in SUBSET DOMAIN found :
        Chosen(queue) /\ todo' = queue /\ pending' = Waiting
    /\ pc' = "documents"
    /\ UNCHANGED <<upstream, html, tag, cached, archive, cut, manifest, reviews, limit, left,
                   found, rows, errors, since>>

Queue ==
    /\ pc = "queue" /\ limit # Skip
    /\ \E queue \in SUBSET DOMAIN found :
        Chosen(queue) /\ todo' = queue /\ pending' = queue
    /\ pc' = "documents"
    /\ UNCHANGED <<upstream, html, tag, cached, archive, cut, manifest, reviews, limit, left,
                   found, rows, errors, since>>

SkipDocuments ==
    /\ pc = "queue" /\ limit = Skip
    /\ pc' = "manifest"
    /\ UNCHANGED <<upstream, disk, limit, left, found, todo, rows, errors, since>>

\* A failed document stays pending.
DocumentFails(d) ==
    /\ "document" \in Faults
    /\ errors' = TRUE
    /\ UNCHANGED <<upstream, disk, found>>

Stored(d) == <<d, cached[d].version>> \in archive

\* A file of a document's name is taken for the document, cut short or not.
ReadDocument(d) ==
    /\ IF NotModified(cached[d].tag, content[d], Stored(d))
       THEN /\ found' = [found EXCEPT ![d] = cached[d].version]
            /\ UNCHANGED <<archive, cached>>
       ELSE /\ archive' = archive \cup {<<d, content[d]>>}
            /\ found' = [found EXCEPT ![d] = content[d]]
            /\ \E t \in Tags(cached[d].tag, content[d], "bare_document") :
                  cached' = [cached EXCEPT ![d] = [tag |-> t, version |-> content[d]]]
    /\ pending' = pending \ {d}
    /\ UNCHANGED <<upstream, html, tag, cut, manifest, reviews, errors>>

FetchDocument ==
    /\ pc = "documents"
    /\ \E d \in todo :
        /\ DocumentFails(d) \/ ReadDocument(d)
        /\ todo' = todo \ {d}
    /\ UNCHANGED <<pc, limit, left, rows, since>>

CloseDocuments ==
    /\ pc = "documents" /\ todo = {}
    /\ pc' = "manifest"
    /\ UNCHANGED <<upstream, disk, limit, left, found, todo, rows, errors, since>>

\* The manifest has the rows of this run, and no others.
WriteManifest ==
    /\ pc = "manifest"
    /\ manifest' = found
    /\ pc' = "reviews"
    /\ UNCHANGED <<upstream, html, checkpoint, archive, cut, reviews, limit, left, found,
                   todo, rows, errors, since>>

\* The reviews of an earlier run give way to any that this one has.
WriteReviews ==
    /\ pc = "reviews"
    /\ reviews' = IF rows # 0 THEN rows ELSE reviews
    /\ Idle
    /\ UNCHANGED <<upstream, html, checkpoint, archive, cut, manifest>>

SlipCrash ==                       \* validators are saved first
    /\ "crash" \in Faults /\ pc # "idle"
    /\ tag' \in {tag} \cup (IF pc = "pages"
                             THEN {[tag EXCEPT ![c] = page[c]] : c \in left} ELSE {})
    /\ Idle
    /\ UNCHANGED <<upstream, html, cached, pending, archive, cut, manifest, reviews>>

\* What a write leaves that may be cut short.
CutShort(file, others) == {others} \cup (IF "cut" \in Faults THEN {others \cup {file}} ELSE {})

\* A page that is not the one kept may be stored already, its validator not yet.
LeavePage(c) ==
    /\ ~PageNotModified(c)
    /\ html' = [html EXCEPT ![c] = page[c]]
    /\ cut' \in CutShort(<<c, page[c]>>, CutOthers(c))
    /\ UNCHANGED archive

\* So may a document of which there was no file.
LeaveDocument(d) ==
    /\ <<d, content[d]>> \notin archive
    /\ archive' = archive \cup {<<d, content[d]>>}
    /\ cut' \in CutShort(<<d, content[d]>>, cut)
    /\ UNCHANGED html

Crash ==
    /\ "crash" \in Faults /\ pc # "idle"
    /\ \/ UNCHANGED <<html, archive, cut>>
       \/ pc = "pages" /\ \E c \in left : LeavePage(c)
       \/ pc = "documents" /\ \E d \in todo : LeaveDocument(d)
    /\ Idle
    /\ UNCHANGED <<upstream, checkpoint, manifest, reviews>>

-----------------------------------------------------------------------------
Init ==
    /\ page = Beginning.page /\ content = Beginning.content
    /\ html = [c \in Collection |-> 0] /\ tag = [c \in Collection |-> 0]
    /\ cached = [d \in Document |-> Unstored] /\ pending = {} /\ archive = {}
    /\ cut = {}
    /\ manifest = NoRows /\ reviews = 0
    /\ pc = "idle" /\ limit = Skip /\ left = {} /\ found = NoRows /\ todo = {}
    /\ rows = 0 /\ errors = FALSE /\ since = Beginning

Run ==
    \/ FetchCollection \/ ClosePages \/ Queue \/ SkipDocuments
    \/ FetchDocument \/ CloseDocuments \/ WriteManifest \/ WriteReviews

Next ==
    \/ PageChanges \/ ContentChanges \/ LoseFile
    \/ \E max \in Limits : Start(max)
    \/ Run
    \/ Crash

Spec == Init /\ [][Next]_vars

-----------------------------------------------------------------------------
(* Properties.                                                              *)

Published(p, d) ==
    /\ p \in [Collection -> Nat] /\ \A c \in Collection : p[c] \in 1..Last[c]
    /\ d \in [Document -> Nat] /\ \A x \in Document : d[x] \in 1..Last[x]

IsTable(m) == DOMAIN m \subseteq Document /\ m \in [DOMAIN m -> Nat]

FombTypeOK ==
    /\ Published(page, content)
    /\ html \in [Collection -> Nat] /\ tag \in [Collection -> Nat]
    /\ cached \in [Document -> [tag : Nat, version : Nat]]
    /\ pending \subseteq Document /\ archive \subseteq Document \X Nat
    /\ cut \subseteq (Collection \cup Document) \X Nat
    /\ IsTable(manifest) /\ IsTable(found)
    /\ reviews \in 0..ReviewPages /\ rows \in 0..ReviewPages
    /\ pc \in Stages /\ limit \in Limits \cup {Skip}
    /\ left \subseteq Collection /\ todo \subseteq pending
    /\ errors \in BOOLEAN
    /\ since \in [page : [Collection -> Nat], content : [Document -> Nat]]
    /\ Published(since.page, since.content)

\* The validators, the pages kept from earlier runs, whole or cut short, and
\* whatever a crash has left between them never hide a document: when a run
\* without errors has written the manifest, it has the documents of every page,
\* each in a version the page has had during the run.
ListedIsRecorded ==
    pc = "reviews" /\ ~errors =>
        \A c \in Collection : \E v \in since.page[c]..page[c] :
            Links[c][v] \subseteq DOMAIN manifest

\* Nor do they pass off an old version: in a run without a limit, a document
\* has a file under the digest of a version it has had during the run, or is
\* still pending.  (Whether a crash has cut that file short is never looked at.)
CurrentOrPending ==
    pc \in {"documents", "manifest", "reviews"} /\ limit = All =>
        \A d \in DOMAIN found :
            \/ found[d] >= since.content[d] /\ <<d, found[d]>> \in archive
            \/ d \in pending
=============================================================================
