------------------------- MODULE FombArchiveProofs -------------------------
(***************************************************************************)
(* Theorems about FombArchive, checked by TLAPS for every value of its       *)
(* constants.                                                               *)
(***************************************************************************)
EXTENDS FombArchive, TLAPS

-----------------------------------------------------------------------------
(* The strengthening.                                                       *)

\* A validator is never newer than what is kept, nor that than what is upstream,
\* and a page that has been cut short is newer than its validator.
DiskInv ==
    /\ \A c \in Collection :
          /\ tag[c] <= html[c] /\ html[c] <= page[c]
          /\ <<c, html[c]>> \in cut => tag[c] < html[c]
    /\ \A d \in Document :
          cached[d].tag <= cached[d].version /\ cached[d].version <= content[d]

Active == Stages \ {"idle"}

SinceInv ==
    pc \in Active =>
        /\ \A c \in Collection : since.page[c] <= page[c]
        /\ \A d \in Document : since.content[d] <= content[d]

\* The documents of every page that has been read have a row.
PageRead(c) ==
    \E v \in since.page[c]..page[c] : v >= 1 /\ Links[c][v] \subseteq DOMAIN found

PageInv ==
    pc \in Active =>
        /\ ~errors => \A c \in Collection \ left : PageRead(c)
        /\ pc # "pages" => left = {}
        /\ pc = "reviews" => manifest = found

FombInv == FombTypeOK /\ DiskInv /\ SinceInv /\ PageInv /\ CurrentOrPending

-----------------------------------------------------------------------------
(* Types.                                                                   *)

LEMMA BeginningType ==
    /\ Beginning \in [page : [Collection -> Nat], content : [Document -> Nat]]
    /\ Published(Beginning.page, Beginning.content)
    /\ IsTable(NoRows)
<1>1. \A x \in Collection \cup Document : Last[x] \in Nat \ {0}
  BY FombAssumption
<1>. QED
  BY <1>1 DEF Beginning, Published, IsTable, NoRows

\* A run that is left leaves nothing behind in memory.
LEMMA IdleType ==
    ASSUME Idle
    PROVE  /\ pc' = "idle" /\ pc' \in Stages /\ limit' \in Limits \cup {Skip}
           /\ left' \subseteq Collection /\ IsTable(found') /\ todo' = {}
           /\ rows' \in 0..ReviewPages /\ errors' \in BOOLEAN
           /\ since' \in [page : [Collection -> Nat], content : [Document -> Nat]]
           /\ Published(since'.page, since'.content)
<1>1. since' = Beginning /\ found' = NoRows
  BY DEF Idle
<1>2. /\ since' \in [page : [Collection -> Nat], content : [Document -> Nat]]
      /\ Published(since'.page, since'.content) /\ IsTable(found')
  BY <1>1, BeginningType
<1>3. /\ pc' = "idle" /\ limit' = Skip /\ left' = {} /\ todo' = {} /\ rows' = 0
      /\ errors' = FALSE
  BY DEF Idle
<1>4. rows' \in 0..ReviewPages
  BY <1>3, FombAssumption
<1>. QED
  BY <1>2, <1>3, <1>4 DEF Stages

\* The types hold before the first run.
LEMMA InitType == Init => FombTypeOK
<1>. SUFFICES ASSUME Init
              PROVE  FombTypeOK
  OBVIOUS
<1>1. cached \in [Document -> [tag : Nat, version : Nat]]
  BY DEF Init, Unstored
<1>2. html \in [Collection -> Nat] /\ tag \in [Collection -> Nat]
  BY DEF Init
<1>3. Published(page, content)
  BY BeginningType DEF Init
<1>4. /\ since \in [page : [Collection -> Nat], content : [Document -> Nat]]
      /\ Published(since.page, since.content)
  BY BeginningType DEF Init
<1>5. IsTable(manifest) /\ IsTable(found)
  BY BeginningType DEF Init
<1>6. reviews \in 0..ReviewPages /\ rows \in 0..ReviewPages
  BY FombAssumption DEF Init
<1>7. /\ pending \subseteq Document /\ archive \subseteq Document \X Nat
      /\ cut \subseteq (Collection \cup Document) \X Nat
      /\ pc \in Stages /\ limit \in Limits \cup {Skip}
      /\ left \subseteq Collection /\ todo \subseteq pending /\ errors \in BOOLEAN
  BY DEF Init, Stages
<1>. QED
  BY <1>1, <1>2, <1>3, <1>4, <1>5, <1>6, <1>7 DEF FombTypeOK

\* What is upstream goes from version to version.
LEMMA UpstreamType ==
    ASSUME FombTypeOK, PageChanges \/ ContentChanges
    PROVE  /\ FombTypeOK'
           /\ \A c \in Collection : page[c] <= page'[c]
           /\ \A d \in Document : content[d] <= content'[d]
           /\ UNCHANGED <<disk, process>>
<1>1. CASE PageChanges
  <2>1. PICK c \in Collection : /\ page[c] < Last[c]
                                /\ page' = [page EXCEPT ![c] = @ + 1]
                                /\ UNCHANGED <<content, disk, process>>
    BY <1>1 DEF PageChanges
  <2>2. Last[c] \in Nat /\ page \in [Collection -> Nat]
    BY FombAssumption DEF FombTypeOK, Published
  <2>3. Published(page', content') /\ \A x \in Collection : page[x] <= page'[x]
    BY <2>1, <2>2 DEF FombTypeOK, Published
  <2>4. \A d \in Document : content[d] <= content'[d]
    BY <2>1 DEF FombTypeOK, Published
  <2>. QED
    BY <2>1, <2>3, <2>4 DEF FombTypeOK, disk, checkpoint, process
<1>2. CASE ContentChanges
  <2>1. PICK d \in Document : /\ content[d] < Last[d]
                              /\ content' = [content EXCEPT ![d] = @ + 1]
                              /\ UNCHANGED <<page, disk, process>>
    BY <1>2 DEF ContentChanges
  <2>2. Last[d] \in Nat /\ content \in [Document -> Nat]
    BY FombAssumption DEF FombTypeOK, Published
  <2>3. Published(page', content') /\ \A x \in Document : content[x] <= content'[x]
    BY <2>1, <2>2 DEF FombTypeOK, Published
  <2>4. \A c \in Collection : page[c] <= page'[c]
    BY <2>1 DEF FombTypeOK, Published
  <2>. QED
    BY <2>1, <2>3, <2>4 DEF FombTypeOK, disk, checkpoint, process
<1>. QED
  BY <1>1, <1>2

\* The rows that a page adds are rows.
LEMMA FoundFacts ==
    ASSUME FombTypeOK, NEW c \in Collection, NEW v \in 1..Last[c],
           NEW links \in SUBSET Links[c][v]
    PROVE  /\ IsTable(Found(links))
           /\ DOMAIN Found(links) = DOMAIN found \cup links
<1>1. Links[c][v] \subseteq Document
  BY FombAssumption
<1>2. \A d \in Document : Prior(d) \in Nat
  BY DEF FombTypeOK, IsTable, Prior
<1>3. \A d \in DOMAIN found : found[d] \in Nat /\ d \in Document
  BY DEF FombTypeOK, IsTable
<1>. QED
  BY <1>1, <1>2, <1>3 DEF Found, IsTable

\* What the rows of a collection's page leave in memory.
LEMMA EnumeratedFacts ==
    ASSUME FombTypeOK, NEW c \in Collection, NEW links, Enumerated(c, links)
    PROVE  errors' \in BOOLEAN /\ (errors => errors') /\ rows' \in 0..ReviewPages
<1>1. errors \in BOOLEAN /\ rows \in 0..ReviewPages
  BY DEF FombTypeOK
<1>2. CASE c = Contracts
  <2>1. rows' \in 0..ReviewPages
    BY <1>2, FombAssumption DEF Enumerated
  <2>2. errors' = (errors \/ rows' = 0)
    BY <1>2 DEF Enumerated
  <2>3. errors' \in BOOLEAN /\ (errors => errors')
    BY <2>2, Zenon
  <2>. QED
    BY <2>1, <2>3
<1>3. CASE c # Contracts
  <2>1. rows' = rows /\ errors' \in {errors, errors \/ links = {}}
    BY <1>3 DEF Enumerated
  <2>2. errors' = errors \/ errors' = (errors \/ links = {})
    BY <2>1
  <2>3. errors' \in BOOLEAN /\ (errors => errors')
    BY <1>1, <2>2, Zenon
  <2>. QED
    BY <1>1, <2>1, <2>3
<1>. QED
  BY <1>2, <1>3

\* What one collection leaves: its page, as it is now or as it was kept, and
\* that is as it is now and whole.
LEMMA ReadFacts ==
    ASSUME FombTypeOK, DiskInv, NEW c \in left, ReadPage(c)
    PROVE  /\ c \in Collection /\ page[c] \in 1..Last[c]
           /\ html'[c] = page[c] /\ found' = Found(Links[c][page[c]])
           /\ html' \in [Collection -> Nat] /\ tag' \in [Collection -> Nat]
           /\ cut' \subseteq cut
           /\ \A x \in Collection :
                 /\ tag'[x] <= html'[x] /\ html'[x] <= page[x]
                 /\ <<x, html'[x]>> \in cut' => tag'[x] < html'[x]
           /\ errors \in BOOLEAN /\ errors' \in BOOLEAN /\ (errors => errors')
           /\ rows' \in 0..ReviewPages
<1>1. /\ c \in Collection /\ page[c] \in 1..Last[c] /\ page[c] \in Nat
      /\ html \in [Collection -> Nat] /\ tag \in [Collection -> Nat]
      /\ errors \in BOOLEAN
  BY DEF FombTypeOK, Published
<1>2. ASSUME html'[c] = page[c], <<c, html'[c]>> \notin cut'
      PROVE  /\ found' = Found(Links[c][page[c]])
             /\ errors' \in BOOLEAN /\ (errors => errors') /\ rows' \in 0..ReviewPages
  <2>1. PICK links \in Legible(c, html'[c], cut') :
            found' = Found(links) /\ Enumerated(c, links)
    BY DEF ReadPage
  <2>2. links = Links[c][page[c]]
    BY <1>2, <2>1 DEF Legible
  <2>. QED
    BY <1>1, <2>1, <2>2, EnumeratedFacts
<1>3. CASE PageNotModified(c)
  <2>1. UNCHANGED <<html, tag, cut>> /\ tag[c] = page[c]
    BY <1>3 DEF ReadPage, PageNotModified, NotModified
  <2>2. html[c] = page[c] /\ <<c, html[c]>> \notin cut
    BY <1>1, <2>1 DEF DiskInv
  <2>. QED
    BY <1>1, <1>2, <2>1, <2>2 DEF DiskInv
<1>4. CASE ~PageNotModified(c)
  <2>1. PICK t \in Tags(tag[c], page[c], "bare_page") :
            /\ html' = [html EXCEPT ![c] = page[c]] /\ cut' = CutOthers(c)
            /\ tag' = [tag EXCEPT ![c] = t]
    BY <1>4 DEF ReadPage
  <2>2. t \in {tag[c], page[c]} /\ tag[c] <= page[c]
    <3>1. t \in {tag[c], page[c]}
      BY <2>1 DEF Tags
    <3>2. tag[c] <= html[c] /\ html[c] <= page[c]
      BY <1>1 DEF DiskInv
    <3>. QED
      BY <1>1, <3>1, <3>2
  <2>3. /\ html'[c] = page[c] /\ html' \in [Collection -> Nat] /\ tag' \in [Collection -> Nat]
        /\ cut' \subseteq cut /\ <<c, html'[c]>> \notin cut'
    <3>1. cut' \subseteq cut /\ \A file \in cut' : file[1] # c
      BY <2>1 DEF CutOthers
    <3>2. <<c, html'[c]>>[1] = c
      OBVIOUS
    <3>3. <<c, html'[c]>> \notin cut'
      BY <3>1, <3>2
    <3>4. /\ html'[c] = page[c] /\ html' \in [Collection -> Nat]
          /\ tag' \in [Collection -> Nat]
      BY <1>1, <2>1, <2>2
    <3>. QED
      BY <3>1, <3>3, <3>4
  <2>4. \A x \in Collection :
            /\ tag'[x] <= html'[x] /\ html'[x] <= page[x]
            /\ <<x, html'[x]>> \in cut' => tag'[x] < html'[x]
    BY <1>1, <2>1, <2>2, <2>3 DEF DiskInv
  <2>. QED
    BY <1>1, <1>2, <2>3, <2>4
<1>. QED
  BY <1>3, <1>4

\* What a crash in a page leaves: the page is newer than its validator.
LEMMA LeaveFacts ==
    ASSUME FombTypeOK, DiskInv, NEW c \in left, LeavePage(c)
    PROVE  /\ html' \in [Collection -> Nat]
           /\ cut' \subseteq (Collection \cup Document) \X Nat
           /\ \A x \in Collection :
                 /\ tag[x] <= html'[x] /\ html'[x] <= page[x]
                 /\ <<x, html'[x]>> \in cut' => tag[x] < html'[x]
<1>1. /\ c \in Collection /\ page[c] \in 1..Last[c] /\ page[c] \in Nat /\ page[c] # 0
      /\ html \in [Collection -> Nat] /\ tag \in [Collection -> Nat]
  BY DEF FombTypeOK, Published
<1>2. /\ html' = [html EXCEPT ![c] = page[c]]
      /\ cut' \subseteq cut \cup {<<c, page[c]>>}
  BY DEF LeavePage, CutShort, CutOthers
<1>3. tag[c] < page[c]
  <2>1. tag[c] <= html[c] /\ html[c] <= page[c]
    BY <1>1 DEF DiskInv
  <2>2. ~(tag[c] = page[c] /\ html[c] # 0)
    BY DEF LeavePage, PageNotModified, NotModified
  <2>. QED
    BY <1>1, <2>1, <2>2
<1>4. cut' \subseteq (Collection \cup Document) \X Nat
  BY <1>1, <1>2 DEF FombTypeOK
<1>5. ASSUME NEW x \in Collection
      PROVE  /\ tag[x] <= html'[x] /\ html'[x] <= page[x]
             /\ <<x, html'[x]>> \in cut' => tag[x] < html'[x]
  BY <1>1, <1>2, <1>3 DEF DiskInv
<1>. QED
  BY <1>1, <1>2, <1>4, <1>5

\* A collection is had or not: the types, and what is left to read.
LEMMA CollectionType ==
    ASSUME FombTypeOK, DiskInv, NEW c \in left, PageFails(c) \/ ReadPage(c)
    PROVE  FombTypeOK'
<1>1. c \in Collection /\ left' = left \ {c} /\ left \subseteq Collection
  BY DEF FombTypeOK, PageFails, ReadPage
<1>2. CASE PageFails(c)
  BY <1>1, <1>2 DEF PageFails, FombTypeOK, upstream, disk, checkpoint
<1>3. CASE ReadPage(c)
  <2>1. /\ html' \in [Collection -> Nat] /\ tag' \in [Collection -> Nat]
        /\ errors' \in BOOLEAN /\ rows' \in 0..ReviewPages /\ cut' \subseteq cut
    BY <1>3, ReadFacts
  <2>2. IsTable(found')
    <3>1. found' = Found(Links[c][page[c]]) /\ page[c] \in 1..Last[c]
      BY <1>3, ReadFacts
    <3>. QED
      BY <1>1, <3>1, FoundFacts
  <2>3. /\ UNCHANGED <<page, content, cached, pending, archive, manifest, reviews, pc,
                       limit, todo, since>>
    BY <1>3 DEF ReadPage, upstream
  <2>4. cut' \subseteq (Collection \cup Document) \X Nat
    BY <2>1 DEF FombTypeOK
  <2>. QED
    BY <1>1, <2>1, <2>2, <2>3, <2>4 DEF FombTypeOK
<1>. QED
  BY <1>2, <1>3

\* What a document leaves.
LEMMA DocumentFacts ==
    ASSUME FombTypeOK, DiskInv, NEW d \in todo, ReadDocument(d)
    PROVE  /\ d \in Document /\ content[d] \in Nat
           /\ cached' \in [Document -> [tag : Nat, version : Nat]]
           /\ \A x \in Document : /\ cached'[x].tag <= cached'[x].version
                                  /\ cached'[x].version <= content[x]
           /\ found' = [found EXCEPT ![d] = content[d]]
           /\ archive \subseteq archive' /\ archive' \subseteq Document \X Nat
           /\ <<d, content[d]>> \in archive'
<1>1. /\ d \in Document /\ content[d] \in Nat /\ archive \subseteq Document \X Nat
      /\ cached \in [Document -> [tag : Nat, version : Nat]]
  BY DEF FombTypeOK, Published
<1>2. CASE NotModified(cached[d].tag, content[d], Stored(d))
  <2>1. /\ cached[d].tag = content[d] /\ <<d, cached[d].version>> \in archive
        /\ UNCHANGED <<archive, cached>>
        /\ found' = [found EXCEPT ![d] = cached[d].version]
    BY <1>2 DEF ReadDocument, NotModified, Stored
  <2>2. cached[d].version = content[d]
    BY <1>1, <2>1 DEF DiskInv
  <2>. QED
    BY <1>1, <2>1, <2>2 DEF DiskInv
<1>3. CASE ~NotModified(cached[d].tag, content[d], Stored(d))
  <2>1. PICK t \in Tags(cached[d].tag, content[d], "bare_document") :
            cached' = [cached EXCEPT ![d] = [tag |-> t, version |-> content[d]]]
    BY <1>3 DEF ReadDocument
  <2>2. /\ archive' = archive \cup {<<d, content[d]>>}
        /\ found' = [found EXCEPT ![d] = content[d]]
    BY <1>3 DEF ReadDocument
  <2>3. t \in {cached[d].tag, content[d]} /\ t \in Nat /\ t <= content[d]
    BY <1>1, <2>1 DEF Tags, DiskInv
  <2>4. cached' \in [Document -> [tag : Nat, version : Nat]]
    BY <1>1, <2>1, <2>3
  <2>5. \A x \in Document : /\ cached'[x].tag <= cached'[x].version
                            /\ cached'[x].version <= content[x]
    BY <1>1, <2>1, <2>3 DEF DiskInv
  <2>. QED
    BY <1>1, <2>2, <2>4, <2>5
<1>. QED
  BY <1>2, <1>3

\* Every step keeps the types.
LEMMA NextType ==
    ASSUME FombTypeOK, DiskInv, [Next]_vars
    PROVE  FombTypeOK'
<1>1. CASE PageChanges \/ ContentChanges
  BY <1>1, UpstreamType
<1>2. CASE LoseFile
  <2>1. archive' \subseteq archive /\ cut' \subseteq cut
    BY <1>2 DEF LoseFile
  <2>. QED
    BY <1>2, <2>1 DEF LoseFile, FombTypeOK, upstream, checkpoint, process
<1>3. ASSUME NEW max \in Limits, Start(max)
      PROVE  FombTypeOK'
  <2>1. since' \in [page : [Collection -> Nat], content : [Document -> Nat]]
    BY <1>3 DEF Start, FombTypeOK, Published
  <2>2. Published(since'.page, since'.content)
    BY <1>3 DEF Start, FombTypeOK
  <2>. QED
    BY <1>3, <2>1, <2>2 DEF Start, FombTypeOK, Stages, upstream, disk, checkpoint
<1>4. CASE FetchCollection
  BY <1>4, CollectionType DEF FetchCollection
<1>5. CASE ClosePages \/ SkipDocuments \/ CloseDocuments
  BY <1>5 DEF ClosePages, SkipDocuments, CloseDocuments, FombTypeOK, Stages, upstream, disk,
              checkpoint
<1>6. CASE Queue
  <2>1. PICK queue \in SUBSET DOMAIN found : todo' = queue /\ pending' = queue
    BY <1>6 DEF Queue
  <2>2. todo' \subseteq pending' /\ pending' \subseteq Document
    BY <2>1 DEF FombTypeOK, IsTable
  <2>. QED
    BY <1>6, <2>2 DEF Queue, FombTypeOK, Stages, upstream
<1>7. CASE FetchDocument
  <2>1. PICK d \in todo : (DocumentFails(d) \/ ReadDocument(d)) /\ todo' = todo \ {d}
    BY <1>7 DEF FetchDocument
  <2>2. CASE DocumentFails(d)
    BY <1>7, <2>1, <2>2 DEF FetchDocument, DocumentFails, FombTypeOK, upstream, disk,
                             checkpoint
  <2>3. CASE ReadDocument(d)
    <3>1. /\ cached' \in [Document -> [tag : Nat, version : Nat]]
          /\ archive' \subseteq Document \X Nat
          /\ found' = [found EXCEPT ![d] = content[d]] /\ content[d] \in Nat
      BY <2>3, DocumentFacts
    <3>2. IsTable(found')
      BY <3>1 DEF FombTypeOK, IsTable
    <3>3. todo' \subseteq pending' /\ pending' \subseteq Document
      BY <2>1, <2>3 DEF ReadDocument, FombTypeOK
    <3>. QED
      BY <1>7, <2>3, <3>1, <3>2, <3>3 DEF FetchDocument, ReadDocument, FombTypeOK, upstream
  <2>. QED
    BY <2>1, <2>2, <2>3
<1>8. CASE WriteManifest
  BY <1>8 DEF WriteManifest, FombTypeOK, Stages, upstream, checkpoint
<1>9. CASE WriteReviews
  <2>1. reviews' \in 0..ReviewPages /\ Idle
    BY <1>9 DEF WriteReviews, FombTypeOK
  <2>2. UNCHANGED <<page, content, html, tag, cached, pending, archive, cut, manifest>>
    BY <1>9 DEF WriteReviews, upstream, checkpoint
  <2>. QED
    BY <2>1, <2>2, IdleType DEF FombTypeOK
<1>10. CASE Crash
  <2>1. /\ Idle
        /\ UNCHANGED <<page, content, tag, cached, pending, manifest, reviews>>
    BY <1>10 DEF Crash, upstream, checkpoint
  <2>2. /\ html' \in [Collection -> Nat] /\ archive' \subseteq Document \X Nat
        /\ cut' \subseteq (Collection \cup Document) \X Nat
    <3>1. CASE UNCHANGED <<html, archive, cut>>
      BY <3>1 DEF FombTypeOK
    <3>2. ASSUME NEW c \in left, LeavePage(c)
          PROVE  /\ html' \in [Collection -> Nat] /\ archive' \subseteq Document \X Nat
                 /\ cut' \subseteq (Collection \cup Document) \X Nat
      BY <3>2, LeaveFacts DEF LeavePage, FombTypeOK
    <3>3. ASSUME NEW d \in todo, LeaveDocument(d)
          PROVE  /\ html' \in [Collection -> Nat] /\ archive' \subseteq Document \X Nat
                 /\ cut' \subseteq (Collection \cup Document) \X Nat
      <4>1. d \in Document /\ content[d] \in Nat
        BY DEF FombTypeOK, Published
      <4>. QED
        BY <3>3, <4>1 DEF LeaveDocument, CutShort, FombTypeOK
    <3>. QED
      BY <1>10, <3>1, <3>2, <3>3 DEF Crash
  <2>. QED
    BY <2>1, <2>2, IdleType DEF FombTypeOK
<1>11. CASE UNCHANGED vars
  BY <1>11 DEF vars, upstream, disk, checkpoint, process, FombTypeOK
<1>. QED
  BY <1>1, <1>2, <1>3, <1>4, <1>5, <1>6, <1>7, <1>8, <1>9, <1>10, <1>11 DEF Next, Run

-----------------------------------------------------------------------------
(* What is kept is never newer than what is upstream.                       *)

LEMMA NextDisk ==
    ASSUME FombTypeOK, DiskInv, [Next]_vars
    PROVE  DiskInv'
<1>. USE DEF DiskInv
<1>1. CASE PageChanges \/ ContentChanges
  <2>1. /\ \A c \in Collection : page[c] <= page'[c]
        /\ \A d \in Document : content[d] <= content'[d]
        /\ UNCHANGED <<html, tag, cached, cut>> /\ FombTypeOK /\ FombTypeOK'
    BY <1>1, UpstreamType DEF disk, checkpoint
  <2>. QED
    BY <2>1 DEF FombTypeOK, Published
<1>2. CASE LoseFile \/ ClosePages \/ SkipDocuments \/ CloseDocuments \/ Queue
           \/ WriteManifest \/ WriteReviews \/ (\E max \in Limits : Start(max))
           \/ UNCHANGED vars
  <2>1. UNCHANGED <<page, content, html, tag, cached>> /\ cut' \subseteq cut
    BY <1>2 DEF LoseFile, ClosePages, SkipDocuments, CloseDocuments, Queue, WriteManifest,
                WriteReviews, Start, vars, upstream, disk, checkpoint
  <2>. QED
    BY <2>1
<1>3. CASE FetchCollection
  <2>1. PICK c \in left : PageFails(c) \/ ReadPage(c)
    BY <1>3 DEF FetchCollection
  <2>2. CASE PageFails(c)
    BY <2>2 DEF PageFails, upstream, disk, checkpoint
  <2>3. CASE ReadPage(c)
    <3>1. \A x \in Collection : /\ tag'[x] <= html'[x] /\ html'[x] <= page[x]
                                /\ <<x, html'[x]>> \in cut' => tag'[x] < html'[x]
      BY <2>3, ReadFacts
    <3>2. UNCHANGED <<page, content, cached>>
      BY <2>3 DEF ReadPage, upstream
    <3>. QED
      BY <3>1, <3>2
  <2>. QED
    BY <2>1, <2>2, <2>3
<1>4. CASE FetchDocument
  <2>1. PICK d \in todo : DocumentFails(d) \/ ReadDocument(d)
    BY <1>4 DEF FetchDocument
  <2>2. CASE DocumentFails(d)
    BY <2>2 DEF DocumentFails, upstream, disk, checkpoint
  <2>3. CASE ReadDocument(d)
    <3>1. \A x \in Document : /\ cached'[x].tag <= cached'[x].version
                              /\ cached'[x].version <= content[x]
      BY <2>3, DocumentFacts
    <3>2. UNCHANGED <<page, content, html, tag, cut>>
      BY <2>3 DEF ReadDocument, upstream
    <3>. QED
      BY <3>1, <3>2
  <2>. QED
    BY <2>1, <2>2, <2>3
<1>5. CASE Crash
  <2>1. UNCHANGED <<page, content, tag, cached>>
    BY <1>5 DEF Crash, upstream, checkpoint
  <2>2. CASE UNCHANGED <<html, cut>>
    BY <2>1, <2>2
  <2>3. ASSUME NEW c \in left, LeavePage(c)
        PROVE  DiskInv'
    BY <2>1, <2>3, LeaveFacts
  <2>4. ASSUME NEW d \in todo, LeaveDocument(d)
        PROVE  DiskInv'
    <3>1. d \in Document /\ d \notin Collection
      BY FombAssumption DEF FombTypeOK
    <3>2. html' = html /\ cut' \subseteq cut \cup {<<d, content[d]>>}
      BY <2>4 DEF LeaveDocument, CutShort
    <3>3. \A x \in Collection : <<x, html[x]>> # <<d, content[d]>>
      BY <3>1
    <3>. QED
      BY <2>1, <3>2, <3>3
  <2>. QED
    BY <1>5, <2>2, <2>3, <2>4 DEF Crash
<1>. QED
  BY <1>1, <1>2, <1>3, <1>4, <1>5 DEF Next, Run

\* Nor does a run begin after what it reads.
LEMMA NextSince ==
    ASSUME FombTypeOK, DiskInv, SinceInv, [Next]_vars
    PROVE  SinceInv'
<1>. USE DEF SinceInv
<1>0. Active \subseteq Stages /\ "idle" \notin Active
  BY DEF Active
<1>1. CASE PageChanges \/ ContentChanges
  <2>1. /\ \A c \in Collection : page[c] <= page'[c]
        /\ \A d \in Document : content[d] <= content'[d]
        /\ UNCHANGED <<pc, since>> /\ FombTypeOK'
    BY <1>1, UpstreamType DEF process
  <2>. QED
    BY <2>1 DEF FombTypeOK, Published
<1>2. CASE \E max \in Limits : Start(max)
  <2>1. since' = [page |-> page, content |-> content] /\ UNCHANGED <<page, content>>
    BY <1>2 DEF Start, upstream
  <2>. QED
    BY <2>1 DEF FombTypeOK, Published
<1>3. CASE WriteReviews \/ Crash
  BY <1>0, <1>3 DEF WriteReviews, Crash, Idle
<1>4. CASE LoseFile \/ UNCHANGED vars
  BY <1>4 DEF LoseFile, vars, upstream, process
<1>5. CASE ClosePages \/ SkipDocuments \/ CloseDocuments \/ Queue \/ WriteManifest
           \/ FetchCollection \/ FetchDocument
  <2>1. pc \in Active /\ UNCHANGED <<page, content, since>>
    BY <1>5 DEF ClosePages, SkipDocuments, CloseDocuments, Queue, WriteManifest,
                FetchCollection, PageFails, ReadPage, FetchDocument, DocumentFails,
                ReadDocument, upstream, Active, Stages
  <2>. QED
    BY <2>1
<1>. QED
  BY <1>1, <1>2, <1>3, <1>4, <1>5 DEF Next, Run

-----------------------------------------------------------------------------
(* The documents of the pages.                                              *)

\* A page that has been read stays so while rows are only added.
LEMMA PageReadStays ==
    ASSUME FombTypeOK, NEW c \in Collection, PageRead(c),
           page[c] <= page'[c], page'[c] \in Nat, since' = since,
           DOMAIN found \subseteq DOMAIN found'
    PROVE  PageRead(c)'
<1>1. PICK v \in since.page[c]..page[c] : v >= 1 /\ Links[c][v] \subseteq DOMAIN found
  BY DEF PageRead
<1>2. page[c] \in Nat /\ since.page[c] \in Nat
  BY DEF FombTypeOK, Published
<1>3. v \in since'.page[c]..page'[c] /\ Links[c][v] \subseteq DOMAIN found'
  BY <1>1, <1>2
<1>. QED
  BY <1>1, <1>3 DEF PageRead

LEMMA NextPage ==
    ASSUME FombTypeOK, DiskInv, SinceInv, PageInv, [Next]_vars
    PROVE  PageInv'
<1>0. Active \subseteq Stages /\ "idle" \notin Active /\ "pages" \in Active
  BY DEF Active, Stages
<1>1. CASE PageChanges \/ ContentChanges \/ LoseFile \/ UNCHANGED vars
  <2>1. /\ UNCHANGED <<pc, left, found, errors, since, manifest>>
        /\ \A c \in Collection : page[c] <= page'[c] /\ page'[c] \in Nat
    <3>1. CASE PageChanges \/ ContentChanges
      BY <3>1, UpstreamType DEF disk, process, FombTypeOK, Published
    <3>2. CASE LoseFile \/ UNCHANGED vars
      BY <3>2 DEF LoseFile, vars, upstream, disk, process, FombTypeOK, Published
    <3>. QED
      BY <1>1, <3>1, <3>2
  <2>2. \A c \in Collection : PageRead(c) => PageRead(c)'
    BY <2>1, PageReadStays
  <2>. QED
    BY <2>1, <2>2 DEF PageInv
<1>2. CASE \E max \in Limits : Start(max)
  BY <1>0, <1>2 DEF Start, PageInv
<1>3. CASE WriteReviews \/ Crash
  BY <1>0, <1>3 DEF WriteReviews, Crash, Idle, PageInv
<1>4. CASE FetchCollection
  <2>1. PICK c \in left : PageFails(c) \/ ReadPage(c)
    BY <1>4 DEF FetchCollection
  <2>2. pc = "pages"
    BY <1>4 DEF FetchCollection
  <2>3. CASE PageFails(c)
    BY <2>2, <2>3 DEF PageFails, PageInv
  <2>4. CASE ReadPage(c)
    <3>1. /\ c \in Collection /\ page[c] \in 1..Last[c] /\ found' = Found(Links[c][page[c]])
          /\ errors \in BOOLEAN /\ errors' \in BOOLEAN /\ (errors => errors')
      BY <2>4, ReadFacts
    <3>2. DOMAIN found' = DOMAIN found \cup Links[c][page[c]]
      BY <3>1, FoundFacts
    <3>3. pc' = "pages" /\ left' = left \ {c} /\ UNCHANGED <<page, since>>
      BY <2>2, <2>4 DEF ReadPage, upstream
    <3>4. \A x \in Collection : page[x] \in Nat /\ since.page[x] \in Nat
      BY DEF FombTypeOK, Published
    <3>5. PageRead(c)'
      <4>1. page[c] \in since.page[c]..page[c] /\ page[c] >= 1
        BY <1>0, <2>2, <3>1, <3>4 DEF SinceInv
      <4>. QED
        BY <3>2, <3>3, <4>1 DEF PageRead
    <3>6. \A x \in Collection : PageRead(x) => PageRead(x)'
      BY <3>2, <3>3, <3>4, PageReadStays
    <3>7. ~errors' => \A x \in Collection \ left' : PageRead(x)'
      BY <1>0, <2>2, <3>1, <3>3, <3>5, <3>6 DEF PageInv
    <3>. QED
      BY <3>3, <3>7 DEF PageInv
  <2>. QED
    BY <2>1, <2>3, <2>4
<1>5. CASE FetchDocument
  <2>1. PICK d \in todo : DocumentFails(d) \/ ReadDocument(d)
    BY <1>5 DEF FetchDocument
  <2>2. /\ pc = "documents" /\ pc' = pc /\ UNCHANGED <<left, since, page>>
    BY <1>5 DEF FetchDocument, DocumentFails, ReadDocument, upstream
  <2>3. pc \in Active /\ left = {}
    BY <2>2 DEF Active, Stages, PageInv
  <2>4. CASE DocumentFails(d)
    BY <2>2, <2>3, <2>4 DEF DocumentFails, PageInv
  <2>5. CASE ReadDocument(d)
    <3>1. DOMAIN found' = DOMAIN found
      BY <2>5, DocumentFacts
    <3>2. errors' = errors
      BY <2>5 DEF ReadDocument
    <3>3. \A x \in Collection : page[x] \in Nat
      BY DEF FombTypeOK, Published
    <3>4. \A x \in Collection : PageRead(x) => PageRead(x)'
      BY <2>2, <3>1, <3>3, PageReadStays
    <3>. QED
      BY <2>2, <2>3, <3>2, <3>4 DEF PageInv
  <2>. QED
    BY <2>1, <2>4, <2>5
<1>6. CASE ClosePages \/ SkipDocuments \/ CloseDocuments \/ Queue \/ WriteManifest
  <2>1. /\ pc \in Active /\ left = {} /\ UNCHANGED <<page, left, found, errors, since>>
        /\ pc' = "reviews" => manifest' = found'
    BY <1>6 DEF ClosePages, SkipDocuments, CloseDocuments, Queue, WriteManifest, upstream,
                Active, Stages, PageInv
  <2>2. \A x \in Collection : page[x] \in Nat
    BY DEF FombTypeOK, Published
  <2>3. \A x \in Collection : PageRead(x) => PageRead(x)'
    BY <2>1, <2>2, PageReadStays
  <2>. QED
    BY <2>1, <2>3 DEF PageInv
<1>. QED
  BY <1>1, <1>2, <1>3, <1>4, <1>5, <1>6 DEF Next, Run

-----------------------------------------------------------------------------
(* The documents are current or pending.                                    *)

LEMMA NextCurrent ==
    ASSUME FombTypeOK, DiskInv, SinceInv, CurrentOrPending, [Next]_vars
    PROVE  CurrentOrPending'
<1>0. All \notin Nat /\ Skip \notin Nat /\ All # Skip
  BY FombAssumption
<1>1. CASE PageChanges \/ ContentChanges \/ UNCHANGED vars
  BY <1>1 DEF PageChanges, ContentChanges, vars, disk, checkpoint, process, CurrentOrPending
<1>2. CASE LoseFile
  BY <1>2 DEF LoseFile, process, CurrentOrPending
<1>3. CASE (\E max \in Limits : Start(max)) \/ FetchCollection \/ ClosePages
           \/ WriteReviews \/ Crash
  <2>1. pc' \in {"idle", "pages", "queue"}
    BY <1>3 DEF Start, FetchCollection, PageFails, ReadPage, ClosePages, WriteReviews, Crash,
                Idle
  <2>. QED
    BY <2>1 DEF CurrentOrPending
<1>4. CASE Queue
  <2>1. PICK queue \in SUBSET DOMAIN found : Chosen(queue) /\ pending' = queue
    BY <1>4 DEF Queue
  <2>2. limit' = limit /\ found' = found
    BY <1>4 DEF Queue
  <2>3. limit = All => pending' = DOMAIN found
    BY <2>1 DEF Chosen
  <2>. QED
    BY <2>2, <2>3 DEF CurrentOrPending
<1>5. CASE SkipDocuments
  BY <1>0, <1>5 DEF SkipDocuments, CurrentOrPending
<1>6. CASE FetchDocument
  <2>1. PICK d \in todo : DocumentFails(d) \/ ReadDocument(d)
    BY <1>6 DEF FetchDocument
  <2>2. pc = "documents" /\ UNCHANGED <<pc, limit, since>>
    BY <1>6, <2>1 DEF FetchDocument, DocumentFails, ReadDocument
  <2>3. CASE DocumentFails(d)
    BY <2>2, <2>3 DEF DocumentFails, disk, checkpoint, CurrentOrPending
  <2>4. CASE ReadDocument(d)
    <3>1. /\ d \in Document /\ found' = [found EXCEPT ![d] = content[d]]
          /\ archive \subseteq archive' /\ <<d, content[d]>> \in archive'
      BY <2>4, DocumentFacts
    <3>2. pending' = pending \ {d}
      BY <2>4 DEF ReadDocument
    <3>3. since.content[d] <= content[d]
      BY <2>2, <3>1 DEF SinceInv, Active, Stages
    <3>. QED
      BY <2>2, <3>1, <3>2, <3>3 DEF CurrentOrPending, FombTypeOK, Published
  <2>. QED
    BY <2>1, <2>3, <2>4
<1>7. CASE CloseDocuments \/ WriteManifest
  <2>1. pc \in {"documents", "manifest"} /\ UNCHANGED <<limit, found, since, archive, pending>>
    BY <1>7 DEF CloseDocuments, WriteManifest, disk, checkpoint
  <2>. QED
    BY <2>1 DEF CurrentOrPending
<1>. QED
  BY <1>1, <1>2, <1>3, <1>4, <1>5, <1>6, <1>7 DEF Next, Run

-----------------------------------------------------------------------------
(* The theorems.                                                            *)

LEMMA FombInvariant == Spec => []FombInv
<1>1. Init => FombInv
  <2>. SUFFICES ASSUME Init
                PROVE  FombInv
    OBVIOUS
  <2>1. FombTypeOK
    BY InitType
  <2>2. \A x \in Collection \cup Document : Last[x] \in Nat \ {0}
    BY FombAssumption
  <2>3. DiskInv
    BY <2>2 DEF Init, DiskInv, Beginning, Unstored
  <2>4. SinceInv /\ PageInv /\ CurrentOrPending
    BY DEF Init, SinceInv, PageInv, CurrentOrPending, Active
  <2>. QED
    BY <2>1, <2>3, <2>4 DEF FombInv
<1>2. FombInv /\ [Next]_vars => FombInv'
  BY NextType, NextDisk, NextSince, NextPage, NextCurrent DEF FombInv
<1>. QED
  BY <1>1, <1>2, PTL DEF Spec

\* The producer's state has its types; above all, what a run still has to
\* request is among what the checkpoint has as pending (run, the queue and the
\* loop over the documents), so that a crash loses none of it.
THEOREM FombTypeCorrect == Spec => []FombTypeOK
<1>1. FombInv => FombTypeOK
  BY DEF FombInv
<1>. QED
  BY <1>1, FombInvariant, PTL

\* Whatever failures, crashes and stale validators came before, the manifest of
\* a run without errors has the documents of every page it has read (run, the
\* loop over the collections and the manifest).
THEOREM ListedRecorded == Spec => []ListedIsRecorded
<1>1. FombInv => ListedIsRecorded
  <2>. SUFFICES ASSUME FombInv, pc = "reviews", ~errors, NEW c \in Collection
                PROVE  \E v \in since.page[c]..page[c] : Links[c][v] \subseteq DOMAIN manifest
    BY DEF ListedIsRecorded
  <2>1. left = {} /\ manifest = found /\ PageRead(c)
    BY DEF FombInv, PageInv, Active, Stages
  <2>. QED
    BY <2>1 DEF PageRead
<1>. QED
  BY <1>1, FombInvariant, PTL

\* A run without a limit never passes off a version from before it: a document
\* has a file under the digest of a version it has had during the run or is still
\* pending (run, the loop over the documents and the conditional requests).
THEOREM CurrentOrPendingHolds == Spec => []CurrentOrPending
<1>1. FombInv => CurrentOrPending
  BY DEF FombInv
<1>. QED
  BY <1>1, FombInvariant, PTL

=============================================================================
