------------------------ MODULE ContractCrawlProofs ------------------------
(***************************************************************************)
(* Theorems about ContractCrawl, checked by TLAPS for every value of its     *)
(* constants.                                                               *)
(***************************************************************************)
EXTENDS ContractCrawl, SequenceTheorems, TLAPS

\* The registry neither answers with an empty page before its end nor leaves
\* recordsFiltered out; it may change at any time, with or without its total.
Reliable == "empty_page" \notin Faults /\ "page_total" \notin Faults

-----------------------------------------------------------------------------
(* The strengthening.                                                       *)

\* What a checkpoint says of itself.
Consistent(c) ==
    /\ c.written = c.offset
    /\ c.total = None => c.offset = 0
    /\ c.total # None => \E r \in Registries : Len(r) = c.total

\* What these states of the registry hold in place i, those with that total.
Held(states, total, i) == {r[i] : r \in {q \in states : Len(q) = total}}

\* The last n lines of w are rows that the registry has held in places 1 to n, with
\* that total; whatever an earlier run has left lies before them.
Follows(states, total, w, n) == total # None =>
    /\ n <= total /\ n <= Len(w)
    /\ \A i \in 1..n : w[Len(w) - n + i] \in Held(states, total, i)

\* The page in hand continues them.
Continues(states, total, n, p) == total # None =>
    /\ n + Len(p) <= total
    /\ \A i \in 1..Len(p) : p[i] \in Held(states, total, n + i)

\* A checkpoint that a later run may resume from.
Sound(states, c) ==
    /\ Consistent(c)
    /\ c.written # 0 => Follows(states, c.total, c.sha, c.offset)

DiskInv == checkpoint # None => Sound(past, checkpoint)

Running == {"fetch", "append", "save", "next", "promote", "certify", "close"}

RunInv ==
    /\ pc \in Running => Consistent(ck)
    /\ pc \in Running \ {"save"} =>
          /\ ck.written # 0 => ck.sha = work
          /\ Follows(past, ck.total, work, ck.offset)
    /\ pc = "append" => Continues(past, ck.total, ck.offset, page)
    /\ pc = "save" => Follows(past, ck.total, work, ck.offset + Len(page))
    /\ pc \in {"append", "save", "next"} /\ page = <<>> => ck.offset >= ck.total
    /\ pc = "promote" => ck.offset >= ck.total
    /\ pc \in Running \ {"close"} => receipt = None
    /\ pc = "fetch" /\ ck.total = None => checkpoint = None \/ checkpoint.written = 0

OutputInv == pc = "certify" => [total |-> ck.total, output |-> output] \in Certifiable

\* A run still on its way has not reached its limit, knows its total after the
\* first page, and certifies an output that is there.
StageInv ==
    /\ pc \in Running \ {"fetch"} => ck.total # None
    /\ pc = "certify" => output \in SUBSET Record
    /\ pc = "idle" => pages = 0
    /\ registry \in past
    /\ pc \in {"reset", "load", "fetch", "append", "save"} /\ limit # None
          => pages < limit

TypeInv == TypeOK /\ StageInv

CrawlInv == TypeInv /\ DiskInv /\ RunInv /\ OutputInv

-----------------------------------------------------------------------------
(* Pages.                                                                   *)

\* The n records of the registry that follow an offset.
LEMMA PageFacts ==
    ASSUME registry \in Seq(Record), NEW offset \in Nat,
           NEW n \in 1..(Len(registry) - offset)
    PROVE  /\ PageAt(offset, n) \in Seq(Record)
           /\ Len(PageAt(offset, n)) = n
           /\ \A i \in 1..n : PageAt(offset, n)[i] = registry[offset + i]
<1>1. \A i \in (offset + 1)..(offset + n) : registry[i] \in Record
  OBVIOUS
<1>2. n \in Nat \ {0} /\ offset + 1 \in Int /\ offset + n \in Int
  OBVIOUS
<1>3. /\ SubSeq(registry, offset + 1, offset + n) \in Seq(Record)
      /\ Len(SubSeq(registry, offset + 1, offset + n)) =
            IF offset + 1 <= offset + n THEN (offset + n) - (offset + 1) + 1 ELSE 0
      /\ \A i \in 1..((offset + n) - (offset + 1) + 1) :
            SubSeq(registry, offset + 1, offset + n)[i] = registry[(offset + 1) + i - 1]
  BY <1>1, <1>2, SubSeqProperties
<1>4. /\ (offset + n) - (offset + 1) + 1 = n
      /\ offset + 1 <= offset + n
      /\ \A i \in 1..n : (offset + 1) + i - 1 = offset + i
  BY <1>2
<1>. QED
  BY <1>3, <1>4 DEF PageAt

\* What a page of the registry holds, however short it is.
LEMMA AnswerFacts ==
    ASSUME registry \in Registries, NEW offset \in Nat, NEW rows \in Answers(offset)
    PROVE  /\ rows \in Seq(Record)
           /\ rows # <<>> =>
                 /\ offset + Len(rows) <= Len(registry)
                 /\ \A i \in 1..Len(rows) : rows[i] = registry[offset + i]
           /\ rows = <<>> /\ "empty_page" \notin Faults => offset >= Len(registry)
<1>1. registry \in Seq(Record) /\ Len(registry) \in Nat
  BY CrawlAssumption
<1>2. CASE rows = <<>> /\ offset >= Len(registry)
  BY <1>1, <1>2
<1>3. CASE offset < Len(registry)
  <2>1. Full(offset) \in 1..(Len(registry) - offset)
    BY <1>1, <1>3, CrawlAssumption DEF Full, Least
  <2>2. \/ rows = <<>> /\ "empty_page" \in Faults
        \/ \E n \in 1..Full(offset) : rows = PageAt(offset, n)
    BY <1>1, <1>3, <2>1 DEF Answers
  <2>3. ASSUME NEW n \in 1..Full(offset), rows = PageAt(offset, n)
        PROVE  /\ rows \in Seq(Record) /\ Len(rows) = n /\ n > 0
               /\ offset + Len(rows) <= Len(registry)
               /\ \A i \in 1..Len(rows) : rows[i] = registry[offset + i]
    <3>1. n \in 1..(Len(registry) - offset)
      BY <1>1, <2>1
    <3>. QED
      BY <1>1, <2>3, <3>1, PageFacts
  <2>4. CASE rows = <<>> /\ "empty_page" \in Faults
    BY <2>4
  <2>5. CASE \E n \in 1..Full(offset) : rows = PageAt(offset, n)
    <3>1. /\ rows \in Seq(Record) /\ Len(rows) # 0
          /\ offset + Len(rows) <= Len(registry)
          /\ \A i \in 1..Len(rows) : rows[i] = registry[offset + i]
      BY <2>3, <2>5
    <3>2. rows # <<>>
      BY <3>1
    <3>. QED
      BY <3>1, <3>2
  <2>. QED
    BY <2>2, <2>4, <2>5
<1>. QED
  BY <1>1, <1>2, <1>3 DEF Answers

-----------------------------------------------------------------------------
(* Types.                                                                   *)

\* The invariant of the types holds before the first run.
LEMMA InitType == Init => TypeInv
<1>. SUFFICES ASSUME Init
              PROVE  TypeInv
  OBVIOUS
<1>1. Fresh \in Checkpoints
  BY DEF Fresh, Checkpoints, Statuses
<1>2. <<>> \in Seq(Lines) /\ <<>> \in Seq(Record)
  OBVIOUS
<1>3. pc \in Stages /\ limit = None /\ pages = 0
  BY DEF Init, Stages
<1>. QED
  BY <1>1, <1>2, <1>3 DEF Init, upstream, TypeInv, TypeOK, StageInv, Running

\* A run that is left leaves nothing behind in memory.
LEMMA LeaveType ==
    ASSUME Leave
    PROVE  /\ pc' = "idle" /\ pc' \in Stages /\ ck' \in Checkpoints
           /\ page' \in Seq(Record) /\ pages' \in Nat /\ limit' = None /\ pages' = 0
BY DEF Leave, Fresh, Stages, Checkpoints, Statuses

\* The checkpoint in memory, under another status, is a checkpoint.
LEMMA StatusType ==
    ASSUME ck \in Checkpoints, NEW status \in Statuses
    PROVE  [ck EXCEPT !.status = status] \in Checkpoints
BY DEF Checkpoints

\* Every step of the registry and the operator keeps the types.
LEMMA StartType ==
    ASSUME TypeInv,
           RegistryChanges \/ \E reset \in BOOLEAN, max \in Limits : Start(reset, max)
    PROVE  TypeInv'
<1>1. CASE RegistryChanges
  BY <1>1 DEF RegistryChanges, upstream, TypeInv, TypeOK, StageInv, Running, disk, process
<1>2. ASSUME NEW reset \in BOOLEAN, NEW max \in Limits, Start(reset, max)
      PROVE  TypeInv'
  <2>1. TypeOK'
    BY <1>2, CrawlAssumption DEF Start, upstream, TypeInv, TypeOK, StageInv, Running, Stages
  <2>2. StageInv'
    BY <1>2, CrawlAssumption DEF Start, upstream, TypeInv, StageInv, Running
  <2>. QED
    BY <2>1, <2>2 DEF TypeInv
<1>. QED
  BY <1>1, <1>2

\* So does loading, with or without a reset.
LEMMA LoadType ==
    ASSUME TypeInv, ResetWork \/ Load \/ LoadRefused
    PROVE  TypeInv'
<1>1. CASE ResetWork
  BY <1>1 DEF ResetWork, upstream, TypeInv, TypeOK, StageInv, Running, Stages
<1>2. CASE Load
  BY <1>2 DEF Load, upstream, TypeInv, TypeOK, StageInv, Running, Stages, Fresh, Checkpoints, Statuses
<1>3. CASE LoadRefused
  BY <1>3, LeaveType DEF LoadRefused, upstream, TypeInv, TypeOK, StageInv, Running, disk
<1>. QED
  BY <1>1, <1>2, <1>3

\* So does every way in which a run stops and writes its checkpoint.
LEMMA StopType ==
    ASSUME TypeInv,
           FetchFails \/ FetchInvalid \/ FetchChanged \/ StopAtLimit \/ CloseCheckpoint
    PROVE  TypeInv'
<1>1. PICK status \in Statuses : /\ checkpoint' = [ck EXCEPT !.status = status]
                                 /\ Leave
                                 /\ UNCHANGED <<upstream, work, output, receipt>>
  BY DEF FetchFails, FetchInvalid, FetchChanged, StopAtLimit, CloseCheckpoint, Blocked,
         Statuses
<1>2. checkpoint' \in Checkpoints
  BY <1>1, StatusType DEF TypeInv, TypeOK
<1>. QED
  BY <1>1, <1>2, LeaveType DEF upstream, TypeInv, TypeOK, StageInv, Running

\* So does a page, from its arrival to the checkpoint that counts it.
LEMMA PageType ==
    ASSUME TypeInv, FetchPage \/ AppendRows \/ SaveCheckpoint \/ NextPage
    PROVE  TypeInv'
<1>1. CASE FetchPage
  <2>1. PICK rows \in Answers(ck.offset) : \E n \in Reported(rows) \ {0} :
            /\ ck' = [ck EXCEPT !.total = n]
            /\ page' = rows
    BY <1>1 DEF FetchPage
  <2>2. registry \in Registries /\ ck \in Checkpoints /\ ck.offset \in Nat
    BY DEF TypeInv, TypeOK, Checkpoints
  <2>3. rows \in Seq(Record)
    BY <2>2, AnswerFacts
  <2>4. Reported(rows) \subseteq Nat
    BY <2>2, <2>3, CrawlAssumption DEF Reported
  <2>5. ck' \in Checkpoints /\ ck'.total # None
    BY <2>1, <2>2, <2>4, CrawlAssumption DEF Checkpoints
  <2>. QED
    BY <1>1, <2>1, <2>3, <2>5 DEF FetchPage, upstream, TypeInv, TypeOK, StageInv, Running, Stages, disk
<1>2. CASE AppendRows
  <2>1. page \in Seq(Lines) /\ work \in Seq(Lines)
    BY DEF TypeInv, TypeOK, Lines
  <2>2. work' \in Seq(Lines)
    BY <1>2, <2>1 DEF AppendRows
  <2>. QED
    BY <1>2, <2>2 DEF AppendRows, upstream, TypeInv, TypeOK, StageInv, Running, Stages
<1>3. CASE SaveCheckpoint
  <2>1. ck' \in Checkpoints
    <3>1. /\ ck.written + Len(page) \in Nat /\ ck.offset + Len(page) \in Nat
          /\ work \in Seq(Lines) /\ "IN_PROGRESS" \in Statuses
      BY DEF TypeInv, TypeOK, Checkpoints, Statuses
    <3>. QED
      BY <1>3, <3>1 DEF SaveCheckpoint, TypeInv, TypeOK, Checkpoints
  <2>2. pages' \in Nat /\ (limit # None => pages' <= limit)
    BY <1>3, CrawlAssumption DEF SaveCheckpoint, TypeInv, TypeOK, StageInv
  <2>. QED
    BY <1>3, <2>1, <2>2 DEF SaveCheckpoint, upstream, TypeInv, TypeOK, StageInv, Running, Stages
<1>4. CASE NextPage
  <2>1. limit' # None => pages' < limit'
    BY <1>4, CrawlAssumption DEF NextPage, LimitReached, TypeInv, TypeOK
  <2>. QED
    BY <1>4, <2>1 DEF NextPage, upstream, TypeInv, TypeOK, StageInv, Running, Stages, disk
<1>. QED
  BY <1>1, <1>2, <1>3, <1>4

\* So does the promotion.
LEMMA PromoteType ==
    ASSUME TypeInv, CloseFetch \/ PromotionRefused \/ Promote \/ WriteReceipt
    PROVE  TypeInv'
<1>1. CASE CloseFetch
  <2>1. ck' \in Checkpoints
    BY <1>1, StatusType DEF CloseFetch, TypeInv, TypeOK, Statuses
  <2>. QED
    BY <1>1, <2>1 DEF CloseFetch, upstream, TypeInv, TypeOK, StageInv, Running, Stages
<1>2. CASE PromotionRefused
  BY <1>2, LeaveType DEF PromotionRefused, upstream, TypeInv, TypeOK, StageInv, Running, disk
<1>3. CASE Promote
  <2>1. Canonical(work) \subseteq Record
    BY <1>3 DEF Promote, Promotable, Malformed, Canonical, TypeInv, TypeOK, Lines
  <2>. QED
    BY <1>3, <2>1 DEF Promote, upstream, TypeInv, TypeOK, StageInv, Running, Stages
<1>4. CASE WriteReceipt
  <2>1. ck.total \in Nat /\ output \in SUBSET Record
    BY <1>4 DEF WriteReceipt, upstream, TypeInv, TypeOK, StageInv, Running, Checkpoints
  <2>2. receipt' \in Receipts
    BY <1>4, <2>1 DEF WriteReceipt, Receipts
  <2>. QED
    BY <1>4, <2>2 DEF WriteReceipt, upstream, TypeInv, TypeOK, StageInv, Running, Stages
<1>. QED
  BY <1>1, <1>2, <1>3, <1>4

\* A crash leaves part of a page in the work file at worst.
LEMMA CrashType ==
    ASSUME TypeInv, Crash
    PROVE  TypeInv'
<1>1. work' \in Seq(Lines)
  <2>1. CASE pc # "append"
    BY <2>1 DEF Crash, TypeInv, TypeOK
  <2>2. CASE pc = "append"
    <3>1. /\ work \in Seq(Lines) /\ page \in Seq(Record) /\ Torn \in Lines
          /\ Len(page) \in Nat
      BY DEF TypeInv, TypeOK, Lines
    <3>2. ASSUME NEW n \in 0..Len(page)
          PROVE  SubSeq(page, 1, n) \in Seq(Lines)
      <4>1. \A i \in 1..n : page[i] \in Lines
        BY <3>1, <3>2 DEF Lines
      <4>2. 1 \in Int /\ n \in Int
        BY <3>2
      <4>. HIDE DEF Lines
      <4>. QED
        BY <4>1, <4>2, SubSeqProperties
    <3>3. ASSUME NEW n \in 0..Len(page)
          PROVE  /\ work \o SubSeq(page, 1, n) \in Seq(Lines)
                 /\ Append(work \o SubSeq(page, 1, n), Torn) \in Seq(Lines)
      BY <3>1, <3>2, ConcatProperties
    <3>4. PICK n \in 0..Len(page) : \/ work' = work \o SubSeq(page, 1, n)
                                    \/ work' = Append(work \o SubSeq(page, 1, n), Torn)
      <4>1. work' \in PartOfPage
        BY <2>2 DEF Crash
      <4>2. \/ \E n \in 0..Len(page) : work' = work \o SubSeq(page, 1, n)
            \/ \E n \in 0..(Len(page) - 1) :
                  work' = Append(work \o SubSeq(page, 1, n), Torn)
        BY <4>1, Zenon DEF PartOfPage
      <4>3. 0..(Len(page) - 1) \subseteq 0..Len(page)
        BY <3>1
      <4>. QED
        BY <4>2, <4>3, Zenon
    <3>. QED
      BY <3>3, <3>4
  <2>. QED
    BY <2>1, <2>2
<1>. QED
  BY <1>1, LeaveType DEF Crash, upstream, TypeInv, TypeOK, StageInv, Running

\* No step leaves the types.
LEMMA NextType == TypeInv /\ [Next]_vars => TypeInv'
<1>. SUFFICES ASSUME TypeInv, [Next]_vars
              PROVE  TypeInv'
  OBVIOUS
<1>1. CASE RegistryChanges \/ \E reset \in BOOLEAN, max \in Limits : Start(reset, max)
  BY <1>1, StartType
<1>2. CASE Run
  BY <1>2, LoadType, StopType, PageType, PromoteType DEF Run
<1>3. CASE Crash
  BY <1>3, CrashType
<1>4. CASE UNCHANGED vars
  BY <1>4 DEF vars, disk, process, upstream, TypeInv, TypeOK, StageInv, Running
<1>. QED
  BY <1>1, <1>2, <1>3, <1>4 DEF Next

\* Type correctness of the crawl, in whatever ways the registry and the
\* process misbehave; in particular a run never exceeds --max-pages.
THEOREM TypeCorrect == Spec => []TypeOK
<1>1. TypeInv => TypeOK
  BY DEF TypeInv
<1>. QED
  BY InitType, NextType, <1>1, PTL DEF Spec

-----------------------------------------------------------------------------
(* The crawl.                                                               *)

\* The invariant holds before the first run.
LEMMA InitCrawl == Init => CrawlInv
BY InitType, Zenon DEF Init, CrawlInv, DiskInv, RunInv, OutputInv, Running

\* A run that has been left owes nothing but its checkpoint.
LEMMA LeaveCrawl ==
    ASSUME CrawlInv, TypeInv', Leave, past' = past,
           checkpoint' # None => Sound(past', checkpoint')
    PROVE  CrawlInv'
<1>1. pc' \notin Running /\ pc' # "certify"
  BY DEF Leave, Running
<1>2. DiskInv' /\ RunInv'
  BY <1>1 DEF DiskInv, RunInv, Running, Sound, Consistent, Follows
<1>3. OutputInv'
  BY <1>1 DEF OutputInv
<1>. QED
  BY <1>2, <1>3 DEF CrawlInv

\* The checkpoint in memory may be written under any status, except between
\* the append and its own update.
LEMMA SoundStatus ==
    ASSUME CrawlInv, pc \in Running \ {"save"}, NEW status \in Statuses
    PROVE  Sound(past, [ck EXCEPT !.status = status])
<1>1. Sound(past, ck)
  BY DEF CrawlInv, RunInv, Sound
<1>2. ck \in Checkpoints
  BY DEF CrawlInv, TypeInv, TypeOK
<1>. QED
  BY <1>1, <1>2 DEF Sound, Consistent, Checkpoints

\* What the registry has held only grows while it changes.
LEMMA MorePast ==
    ASSUME NEW states, NEW more, states \subseteq more, NEW total, NEW w, NEW p, NEW n, NEW c
    PROVE  /\ Follows(states, total, w, n) => Follows(more, total, w, n)
           /\ Continues(states, total, n, p) => Continues(more, total, n, p)
           /\ Sound(states, c) => Sound(more, c)
<1>1. \A i : Held(states, total, i) \subseteq Held(more, total, i)
  BY DEF Held
<1>2. \A i : Held(states, c.total, i) \subseteq Held(more, c.total, i)
  BY DEF Held
<1>. QED
  BY <1>1, <1>2, Zenon DEF Follows, Continues, Sound

\* Starting a run keeps the invariant, as does a change of the registry.
LEMMA StartCrawl ==
    ASSUME CrawlInv, TypeInv',
           RegistryChanges \/ \E reset \in BOOLEAN, max \in Limits : Start(reset, max)
    PROVE  CrawlInv'
<1>1. CASE RegistryChanges
  <2>1. past \subseteq past' /\ UNCHANGED <<disk, process>>
    BY <1>1 DEF RegistryChanges
  <2>2. DiskInv'
    BY <2>1, MorePast DEF CrawlInv, DiskInv, disk
  <2>3. RunInv'
    BY <2>1, MorePast DEF CrawlInv, RunInv, Running, disk, process
  <2>4. OutputInv'
    BY <2>1 DEF CrawlInv, OutputInv, disk, process
  <2>. QED
    BY <2>2, <2>3, <2>4 DEF CrawlInv
<1>2. CASE \E reset \in BOOLEAN, max \in Limits : Start(reset, max)
  <2>1. pc' \notin Running /\ (checkpoint' = checkpoint \/ checkpoint' = None)
    BY <1>2 DEF Start, Running
  <2>2. UNCHANGED <<past, output>>
    BY <1>2 DEF Start, upstream
  <2>. QED
    BY <2>1, <2>2 DEF CrawlInv, DiskInv, RunInv, OutputInv, Running
<1>. QED
  BY <1>1, <1>2

\* Loading: the checkpoint is fresh, or it fits the work file.
LEMMA LoadCrawl ==
    ASSUME CrawlInv, TypeInv', ResetWork \/ Load \/ LoadRefused
    PROVE  CrawlInv'
<1>1. CASE ResetWork
  <2>1. pc' = "load" /\ UNCHANGED <<past, checkpoint, output>>
    BY <1>1 DEF ResetWork, upstream
  <2>. QED
    BY <2>1 DEF CrawlInv, DiskInv, RunInv, OutputInv, Running
<1>2. CASE Load
  <2>1. /\ pc' = "fetch" /\ receipt' = None
        /\ UNCHANGED <<past, work, checkpoint, output>>
        /\ ck' = IF checkpoint = None THEN Fresh ELSE checkpoint
        /\ checkpoint # None => checkpoint.written = 0 \/ checkpoint.sha = work
    BY <1>2 DEF Load, Loadable, upstream
  <2>2. work \in Seq(Lines)
    BY DEF CrawlInv, TypeInv, TypeOK
  <2>3. CASE checkpoint = None
    <3>1. ck'.total = None /\ ck'.offset = 0 /\ ck'.written = 0
      BY <2>1, <2>3 DEF Fresh
    <3>2. Follows(past, ck'.total, work, ck'.offset)
      BY <2>2, <3>1, CrawlAssumption DEF Follows
    <3>. QED
      BY <2>1, <3>1, <3>2 DEF CrawlInv, DiskInv, RunInv, OutputInv,
                              Running, Consistent
  <2>4. CASE checkpoint # None
    <3>1. ck' = checkpoint /\ Sound(past, checkpoint)
      BY <2>1, <2>4 DEF CrawlInv, DiskInv
    <3>2. CASE checkpoint.written = 0
      <4>1. checkpoint.offset = 0
        BY <3>1, <3>2 DEF Sound, Consistent
      <4>2. Follows(past, checkpoint.total, work, checkpoint.offset)
        <5>1. checkpoint.total \in Nat \cup {None} /\ Len(work) \in Nat
          BY <2>2, <2>4 DEF CrawlInv, TypeInv, TypeOK, Checkpoints
        <5>. QED
          BY <4>1, <5>1 DEF Follows
      <4>. QED
        BY <2>1, <3>1, <3>2, <4>2 DEF CrawlInv, DiskInv, RunInv, OutputInv, Running, Sound
    <3>3. CASE checkpoint.written # 0
      <4>1. checkpoint.sha = work
        BY <2>1, <2>4, <3>3
      <4>2. Follows(past, checkpoint.total, work, checkpoint.offset)
        BY <3>1, <3>3, <4>1 DEF Sound
      <4>. QED
        BY <2>1, <3>1, <3>3, <4>1, <4>2
        DEF CrawlInv, DiskInv, RunInv, OutputInv, Running, Sound, Consistent
    <3>. QED
      BY <3>2, <3>3
  <2>. QED
    BY <2>3, <2>4
<1>3. CASE LoadRefused
  BY <1>3, LeaveCrawl DEF LoadRefused, upstream, disk, CrawlInv, DiskInv
<1>. QED
  BY <1>1, <1>2, <1>3

\* Stopping: the checkpoint that is left behind is sound.
LEMMA StopCrawl ==
    ASSUME CrawlInv, TypeInv',
           FetchFails \/ FetchInvalid \/ FetchChanged \/ StopAtLimit \/ CloseCheckpoint
    PROVE  CrawlInv'
<1>1. PICK status \in Statuses : /\ checkpoint' = [ck EXCEPT !.status = status]
                                 /\ Leave /\ past' = past
  BY DEF FetchFails, FetchInvalid, FetchChanged, StopAtLimit, CloseCheckpoint, Blocked,
         Statuses, upstream
<1>2. pc \in Running \ {"save"}
  BY DEF FetchFails, FetchInvalid, FetchChanged, StopAtLimit, CloseCheckpoint, Running
<1>. QED
  BY <1>1, <1>2, SoundStatus, LeaveCrawl

\* A page arrives: it is what the registry holds next, and its total is that of the
\* pages before.
LEMMA FetchCrawl ==
    ASSUME Reliable, CrawlInv, TypeInv', FetchPage
    PROVE  CrawlInv'
<1>1. PICK rows \in Answers(ck.offset) : \E n \in Reported(rows) \ {0} :
          /\ ck.total \in {None, n}
          /\ ck' = [ck EXCEPT !.total = n]
          /\ page' = rows
          /\ past' = IF ck.total = None THEN {registry} ELSE past
  BY DEF FetchPage
<1>2. /\ pc = "fetch" /\ pc' = "append"
      /\ UNCHANGED <<work, checkpoint, output, receipt>>
  BY DEF FetchPage, disk
<1>3. /\ registry \in Registries /\ registry \in Seq(Record) /\ Len(registry) \in Nat
      /\ ck \in Checkpoints /\ ck.offset \in Nat /\ work \in Seq(Lines)
      /\ registry \in past
  BY CrawlAssumption DEF CrawlInv, TypeInv, TypeOK, StageInv, Checkpoints
<1>4. /\ ck.total \in {None, Len(registry)}
      /\ ck' = [ck EXCEPT !.total = Len(registry)]
      /\ page' = rows
  BY <1>1 DEF Reliable, Reported
<1>5. /\ ck'.total = Len(registry) /\ ck'.offset = ck.offset
      /\ ck'.written = ck.written /\ ck'.sha = ck.sha
  BY <1>3, <1>4 DEF Checkpoints
<1>6. /\ Consistent(ck) /\ Follows(past, ck.total, work, ck.offset) /\ receipt = None
      /\ ck.written # 0 => ck.sha = work
      /\ ck.total = None => checkpoint = None \/ checkpoint.written = 0
  BY <1>2 DEF CrawlInv, RunInv, Running
<1>7. registry \in past' /\ Len(registry) # None
  BY <1>1, <1>3, CrawlAssumption
<1>8. Consistent(ck')
  BY <1>3, <1>5, <1>6, CrawlAssumption DEF Consistent
<1>9. Follows(past', Len(registry), work, ck.offset)
  <2>1. CASE ck.total = Len(registry)
    BY <1>1, <1>6, <1>7, <2>1
  <2>2. CASE ck.total = None
    <3>1. ck.offset = 0
      BY <1>6, <2>2 DEF Consistent
    <3>. QED
      BY <1>3, <3>1 DEF Follows
  <2>. QED
    BY <1>4, <2>1, <2>2
<1>10. ck.offset <= Len(registry)
  BY <1>3, <1>7, <1>9 DEF Follows
<1>11. /\ Continues(past', Len(registry), ck.offset, rows)
       /\ rows = <<>> => ck.offset >= Len(registry)
  <2>1. CASE rows = <<>>
    BY <1>3, <1>10, <2>1, AnswerFacts DEF Continues, Reliable
  <2>2. CASE rows # <<>>
    <3>1. /\ ck.offset + Len(rows) <= Len(registry)
          /\ \A i \in 1..Len(rows) : rows[i] = registry[ck.offset + i]
      BY <1>3, <2>2, AnswerFacts
    <3>2. \A j : registry[j] \in Held(past', Len(registry), j)
      BY <1>7 DEF Held
    <3>. QED
      BY <2>2, <3>1, <3>2 DEF Continues
  <2>. QED
    BY <2>1, <2>2
<1>12. RunInv'
  BY <1>2, <1>4, <1>5, <1>6, <1>8, <1>9, <1>11 DEF RunInv, Running
<1>13. DiskInv'
  <2>1. CASE ck.total = None
    BY <1>2, <1>6, <2>1 DEF CrawlInv, DiskInv, Sound
  <2>2. CASE ck.total # None
    BY <1>1, <1>2, <2>2 DEF CrawlInv, DiskInv
  <2>. QED
    BY <2>1, <2>2
<1>. QED
  BY <1>2, <1>12, <1>13 DEF CrawlInv, OutputInv

\* Lines that follow the registry, and a page that continues them, follow it.
LEMMA FollowsAppended ==
    ASSUME NEW states, NEW total, NEW w \in Seq(Lines), NEW p \in Seq(Lines), NEW n \in Nat,
           Follows(states, total, w, n), Continues(states, total, n, p)
    PROVE  Follows(states, total, w \o p, n + Len(p))
<1>. SUFFICES ASSUME total # None
              PROVE  /\ n + Len(p) <= total /\ n + Len(p) <= Len(w \o p)
                     /\ \A i \in 1..(n + Len(p)) :
                            (w \o p)[Len(w \o p) - (n + Len(p)) + i] \in Held(states, total, i)
  BY DEF Follows
<1>1. /\ n <= Len(w)
      /\ \A i \in 1..n : w[Len(w) - n + i] \in Held(states, total, i)
  BY DEF Follows
<1>2. /\ n + Len(p) <= total
      /\ \A i \in 1..Len(p) : p[i] \in Held(states, total, n + i)
  BY DEF Continues
<1>3. Len(w \o p) = Len(w) + Len(p) /\ Len(w) \in Nat /\ Len(p) \in Nat
  OBVIOUS
<1>4. ASSUME NEW i \in 1..(n + Len(p))
      PROVE  (w \o p)[Len(w \o p) - (n + Len(p)) + i] \in Held(states, total, i)
  <2>. DEFINE j == Len(w) - n + i
  <2>1. Len(w \o p) - (n + Len(p)) + i = j /\ j \in 1..(Len(w) + Len(p))
    BY <1>1, <1>3
  <2>2. (w \o p)[j] = IF j <= Len(w) THEN w[j] ELSE p[j - Len(w)]
    BY <2>1, ConcatProperties
  <2>3. CASE i <= n
    BY <1>1, <1>3, <2>1, <2>2, <2>3
  <2>4. CASE i > n
    <3>1. i - n \in 1..Len(p) /\ j - Len(w) = i - n /\ ~(j <= Len(w)) /\ n + (i - n) = i
      BY <1>3, <2>4
    <3>2. p[i - n] \in Held(states, total, n + (i - n))
      BY <1>2, <3>1
    <3>. QED
      BY <2>1, <2>2, <3>1, <3>2
  <2>5. i <= n \/ i > n
    OBVIOUS
  <2>. QED
    BY <2>3, <2>4, <2>5, Zenon
<1>5. n + Len(p) <= Len(w \o p)
  BY <1>1, <1>3
<1>. QED
  BY <1>2, <1>4, <1>5, Zenon

\* The page is appended, then counted.
LEMMA AppendCrawl ==
    ASSUME CrawlInv, TypeInv', AppendRows \/ SaveCheckpoint
    PROVE  CrawlInv'
<1>1. /\ work \in Seq(Lines) /\ page \in Seq(Lines) /\ ck \in Checkpoints
      /\ ck.offset \in Nat
  BY DEF CrawlInv, TypeInv, TypeOK, Checkpoints, Lines
<1>2. CASE AppendRows
  <2>1. /\ pc = "append" /\ pc' = "save" /\ work' = work \o page
        /\ UNCHANGED <<past, checkpoint, output, receipt, ck, page>>
    BY <1>2 DEF AppendRows, upstream
  <2>2. /\ Consistent(ck) /\ Follows(past, ck.total, work, ck.offset)
        /\ Continues(past, ck.total, ck.offset, page) /\ receipt = None
        /\ page = <<>> => ck.offset >= ck.total
    BY <2>1 DEF CrawlInv, RunInv, Running
  <2>3. Follows(past, ck.total, work', ck.offset + Len(page))
    BY <1>1, <2>1, <2>2, FollowsAppended
  <2>4. RunInv'
    BY <2>1, <2>2, <2>3 DEF RunInv, Running
  <2>. QED
    BY <2>1, <2>4 DEF CrawlInv, DiskInv, OutputInv
<1>3. CASE SaveCheckpoint
  <2>1. /\ pc = "save" /\ pc' = "next" /\ checkpoint' = ck'
        /\ ck' = [ck EXCEPT !.written = @ + Len(page), !.offset = @ + Len(page),
                            !.sha = work, !.status = "IN_PROGRESS"]
        /\ UNCHANGED <<past, work, output, receipt, page>>
    BY <1>3 DEF SaveCheckpoint, upstream
  <2>2. /\ ck'.total = ck.total /\ ck'.offset = ck.offset + Len(page)
        /\ ck'.written = ck.written + Len(page) /\ ck'.sha = work
    BY <1>1, <2>1 DEF Checkpoints
  <2>3. /\ Consistent(ck) /\ Follows(past, ck.total, work, ck.offset + Len(page))
        /\ receipt = None /\ ck.total # None
        /\ page = <<>> => ck.offset >= ck.total
    BY <2>1 DEF CrawlInv, TypeInv, StageInv, RunInv, Running
  <2>4. Consistent(ck')
    BY <2>2, <2>3 DEF Consistent
  <2>5. page = <<>> => ck'.offset >= ck'.total
    BY <1>1, <2>2, <2>3
  <2>6. Sound(past', ck') /\ RunInv'
    BY <2>1, <2>2, <2>3, <2>4, <2>5 DEF Sound, RunInv, Running
  <2>. QED
    BY <2>1, <2>6 DEF CrawlInv, DiskInv, OutputInv
<1>. QED
  BY <1>2, <1>3

\* After a page that is counted comes another, or the fetch is complete.
LEMMA CloseCrawl ==
    ASSUME CrawlInv, TypeInv', NextPage \/ CloseFetch
    PROVE  CrawlInv'
<1>1. /\ pc = "next" /\ UNCHANGED <<past, work, output, receipt>> /\ ck \in Checkpoints
  BY DEF NextPage, CloseFetch, upstream, disk, CrawlInv, TypeInv, TypeOK
<1>2. /\ Consistent(ck) /\ Follows(past, ck.total, work, ck.offset) /\ receipt = None
      /\ ck.written # 0 => ck.sha = work
      /\ page = <<>> => ck.offset >= ck.total
      /\ ck.total # None
  BY <1>1 DEF CrawlInv, TypeInv, StageInv, RunInv, Running
<1>3. CASE NextPage
  <2>1. pc' = "fetch" /\ UNCHANGED <<ck, checkpoint>>
    BY <1>3 DEF NextPage, disk
  <2>2. RunInv'
    BY <1>1, <1>2, <2>1 DEF RunInv, Running
  <2>. QED
    BY <1>1, <2>1, <2>2 DEF CrawlInv, DiskInv, OutputInv
<1>4. CASE CloseFetch
  <2>1. /\ pc' = "promote" /\ checkpoint' = ck'
        /\ ck' = [ck EXCEPT !.status = "FETCH_COMPLETE"]
        /\ ck.offset >= ck.total
    BY <1>2, <1>4 DEF CloseFetch, Finished
  <2>2. /\ ck'.total = ck.total /\ ck'.offset = ck.offset
        /\ ck'.written = ck.written /\ ck'.sha = ck.sha
    BY <1>1, <2>1 DEF Checkpoints
  <2>3. Sound(past', checkpoint')
    BY <1>1, <2>1, SoundStatus DEF Running, Statuses
  <2>4. Consistent(ck')
    BY <1>2, <2>2 DEF Consistent
  <2>5. RunInv'
    BY <1>1, <1>2, <2>1, <2>2, <2>4 DEF RunInv, Running
  <2>. QED
    BY <1>1, <2>1, <2>3, <2>5 DEF CrawlInv, DiskInv, OutputInv
<1>. QED
  BY <1>3, <1>4

\* As many rows as the total, and the last of them rows of the registry in their
\* places: there are no others.
LEMMA PromotedIsComplete ==
    ASSUME CrawlInv, pc = "promote", Promotable
    PROVE  /\ Canonical(work) \in Outputs(ck.total, past)
           /\ [total |-> ck.total, output |-> Canonical(work)] \in Certifiable
<1>1. /\ work \in Seq(Lines) /\ ck.offset \in Nat /\ ck.total \in Nat /\ ck.total # None
      /\ Len(work) = ck.total /\ ck.offset >= ck.total
      /\ Consistent(ck) /\ Follows(past, ck.total, work, ck.offset)
      /\ past \subseteq Registries
  BY DEF CrawlInv, TypeInv, TypeOK, StageInv, RunInv, Running, Checkpoints, Promotable
<1>2. /\ ck.offset = ck.total
      /\ \A i \in 1..ck.total : work[i] \in Held(past, ck.total, i)
  <2>1. /\ ck.offset <= ck.total
        /\ \A i \in 1..ck.offset : work[Len(work) - ck.offset + i] \in Held(past, ck.total, i)
    BY <1>1 DEF Follows
  <2>. QED
    BY <1>1, <2>1
<1>. DEFINE w == [i \in 1..ck.total |-> work[i]]
<1>3. ASSUME NEW i \in 1..ck.total
      PROVE  \E r \in past : Len(r) = ck.total /\ w[i] = r[i] /\ r[i] \in Record
  <2>1. PICK r \in past : Len(r) = ck.total /\ work[i] = r[i]
    BY <1>2 DEF Held
  <2>2. r \in Seq(Record)
    BY <1>1, <2>1, CrawlAssumption
  <2>. QED
    BY <2>1, <2>2
<1>4. w \in Rows(ck.total, past) /\ w \in Rows(ck.total, Registries)
  BY <1>1, <1>3 DEF Rows
<1>5. Canonical(work) = {w[i] : i \in 1..ck.total} \ Blank
  BY <1>1 DEF Canonical
<1>6. ck.total \in {Len(r) : r \in Registries}
  BY <1>1 DEF Consistent
<1>. HIDE DEF w
<1>7. /\ Canonical(work) \in Outputs(ck.total, past)
      /\ Canonical(work) \in Outputs(ck.total, Registries)
  BY <1>4, <1>5 DEF Outputs
<1>8. [total |-> ck.total, output |-> Canonical(work)] \in Certificates(ck.total)
  BY <1>7 DEF Certificates
<1>9. [total |-> ck.total, output |-> Canonical(work)] \in Certifiable
  BY <1>6, <1>8 DEF Certifiable
<1>. QED
  BY <1>7, <1>9

\* Only a complete output is promoted, and it is the one that is certified.
LEMMA PromoteCrawl ==
    ASSUME CrawlInv, TypeInv', PromotionRefused \/ Promote \/ WriteReceipt
    PROVE  CrawlInv'
<1>1. CASE PromotionRefused
  BY <1>1, LeaveCrawl DEF PromotionRefused, upstream, disk, CrawlInv, DiskInv
<1>2. CASE Promote
  <2>1. /\ pc = "promote" /\ Promotable /\ pc' = "certify" /\ output' = Canonical(work)
        /\ UNCHANGED <<past, work, checkpoint, receipt, ck, page>>
    BY <1>2 DEF Promote, upstream
  <2>2. [total |-> ck'.total, output |-> output'] \in Certifiable
    BY <2>1, PromotedIsComplete
  <2>3. RunInv'
    BY <2>1 DEF CrawlInv, RunInv, Running
  <2>. QED
    BY <2>1, <2>2, <2>3 DEF CrawlInv, DiskInv, OutputInv
<1>3. CASE WriteReceipt
  <2>1. /\ pc = "certify" /\ pc' = "close"
        /\ UNCHANGED <<past, work, checkpoint, output, ck, page>>
    BY <1>3 DEF WriteReceipt, upstream
  <2>2. RunInv'
    BY <2>1 DEF CrawlInv, RunInv, Running
  <2>. QED
    BY <2>1, <2>2 DEF CrawlInv, DiskInv, OutputInv
<1>. QED
  BY <1>1, <1>2, <1>3

\* No step of a reliable registry's crawl leaves the invariant.
LEMMA NextCrawl ==
    ASSUME Reliable
    PROVE  CrawlInv /\ [Next]_vars => CrawlInv'
<1>. SUFFICES ASSUME CrawlInv, [Next]_vars
              PROVE  CrawlInv'
  OBVIOUS
<1>1. TypeInv'
  BY NextType DEF CrawlInv
<1>2. CASE RegistryChanges \/ \E reset \in BOOLEAN, max \in Limits : Start(reset, max)
  BY <1>1, <1>2, StartCrawl
<1>3. CASE Run
  BY <1>1, <1>3, LoadCrawl, StopCrawl, FetchCrawl, AppendCrawl, CloseCrawl, PromoteCrawl
  DEF Run
<1>4. CASE Crash
  BY <1>1, <1>4, LeaveCrawl DEF Crash, upstream, CrawlInv, DiskInv
<1>5. CASE UNCHANGED vars
  BY <1>1, <1>5 DEF vars, upstream, disk, process, CrawlInv, DiskInv, RunInv, OutputInv
<1>. QED
  BY <1>2, <1>3, <1>4, <1>5 DEF Next

\* Whatever is promoted holds, in every place up to the total, a row the registry held
\* there since page 1 of this crawl was read: after any number of crashes, failed and
\* short pages, limits and resumed runs, and however the registry changes meanwhile.
THEOREM OutputIsComplete ==
    ASSUME Reliable
    PROVE  Spec => CompleteOutput
<1>1. CrawlInv /\ [Next]_vars =>
        [pc = "promote" /\ pc' = "certify" => output' \in Outputs(ck.total, past)]_vars
  <2>. SUFFICES ASSUME CrawlInv, Next, pc = "promote", pc' = "certify"
                PROVE  output' \in Outputs(ck.total, past)
    OBVIOUS
  <2>1. Promote
    BY DEF Next, Run, RegistryChanges, Start, ResetWork, Load, LoadRefused, FetchFails,
           FetchInvalid, FetchChanged, FetchPage, AppendRows, SaveCheckpoint, NextPage,
           StopAtLimit, CloseFetch, PromotionRefused, WriteReceipt, CloseCheckpoint,
           Blocked, Leave, Crash, process
  <2>. QED
    BY <2>1, PromotedIsComplete DEF Promote
<1>. QED
  BY InitCrawl, NextCrawl, <1>1, PTL DEF Spec, CompleteOutput

\* A step of the crawl withdraws a receipt, replaces the output by a complete
\* one, certifies the output that is there, or is not seen at all.
LEMMA StepImplements ==
    ASSUME CrawlInv, [Next]_vars
    PROVE  [Promise!Next]_(Promise!vars)
<1>1. CASE UNCHANGED <<output, receipt>>
  BY <1>1 DEF Promise!vars
<1>2. CASE Load
  <2>1. Promise!Withdraw
    BY <1>2 DEF Load, Promise!Withdraw
  <2>. QED
    BY <2>1 DEF Promise!Next
<1>3. CASE Promote
  <2>1. /\ pc = "promote" /\ Promotable /\ output' = Canonical(work)
        /\ receipt' = receipt
    BY <1>3 DEF Promote
  <2>2. receipt = None
    BY <2>1 DEF CrawlInv, RunInv, Running
  <2>3. \E c \in Certifiable : output' = c.output
    BY <2>1, PromotedIsComplete
  <2>4. Promise!Replace
    BY <2>1, <2>2, <2>3 DEF Promise!Replace, Certifiable
  <2>. QED
    BY <2>4 DEF Promise!Next
<1>4. CASE WriteReceipt
  <2>1. /\ pc = "certify" /\ receipt' = [total |-> ck.total, output |-> output]
        /\ output' = output
    BY <1>4 DEF WriteReceipt
  <2>2. receipt' \in Certifiable /\ receipt'.output = output
    BY <2>1 DEF CrawlInv, OutputInv
  <2>3. Promise!Certify
    BY <2>1, <2>2 DEF Promise!Certify, Certifiable
  <2>. QED
    BY <2>3 DEF Promise!Next
<1>5. CASE Next /\ ~Load /\ ~Promote /\ ~WriteReceipt
  <2>1. UNCHANGED <<output, receipt>>
    BY <1>5 DEF Next, Run, RegistryChanges, Start, ResetWork, LoadRefused, FetchFails,
                FetchInvalid, FetchChanged, FetchPage, AppendRows, SaveCheckpoint,
                NextPage, StopAtLimit, CloseFetch, PromotionRefused, CloseCheckpoint,
                Blocked, Crash, disk
  <2>. QED
    BY <1>1, <2>1
<1>6. UNCHANGED vars => UNCHANGED <<output, receipt>>
  BY DEF vars, disk
<1>. QED
  BY <1>1, <1>2, <1>3, <1>4, <1>5, <1>6

\* The crawl implements its promise: see Materialization.
THEOREM Implements ==
    ASSUME Reliable
    PROVE  Spec => KeepsPromise
<1>1. Init => Promise!Init
  BY DEF Init, Promise!Init
<1>2. CrawlInv /\ [Next]_vars => [Promise!Next]_(Promise!vars)
  BY StepImplements
<1>. QED
  BY InitCrawl, NextCrawl, <1>1, <1>2, PTL DEF Spec, KeepsPromise, Promise!Spec


-----------------------------------------------------------------------------
(* The safety half of RunsEnd: under every fault, each step of a run brings   *)
(* it nearer to its end.  While the total is not known the run is at its      *)
(* start; once it is, the records still to fetch and the stage count down.    *)

\* The records between the offset of the run and the total it was told.
ToFetch == IF ck.total > ck.offset THEN ck.total - ck.offset ELSE 0

\* The steps to the end of a run that knows its total: four for every record
\* that is still to be fetched, one at a time at worst, and those of its stage.
Remaining ==
    4 * ToFetch + CASE pc = "next"    -> (IF Finished THEN 4 ELSE 8)
                    [] pc = "fetch"   -> 7
                    [] pc = "append"  -> 6
                    [] pc = "save"    -> 5
                    [] pc = "promote" -> 3
                    [] pc = "certify" -> 2
                    [] OTHER          -> 1

\* The steps from the start of a run to its first page.
Prelude == CASE pc = "reset" -> 3 [] pc = "load" -> 2 [] OTHER -> 1

InPrelude == pc \in {"reset", "load"} \/ (pc = "fetch" /\ ck.total = None)

\* Inside a run, the first page comes nearer or, once it is there, the end; only
\* the registry may change without the run moving.
RunAdvances ==
    [][pc # "idle" /\ pc' # "idle" =>
          \/ RegistryChanges
          \/ InPrelude /\ (InPrelude' => Prelude' < Prelude)
          \/ /\ ~InPrelude /\ ~InPrelude' /\ ck'.total = ck.total
             /\ Remaining \in Nat /\ Remaining' \in Nat /\ Remaining' < Remaining]_vars

\* What is left of a run is a number.
LEMMA RemainingType ==
    ASSUME TypeInv, ck.total # None
    PROVE  Remaining \in Nat /\ ToFetch \in Nat
<1>1. ck.total \in Nat /\ ck.offset \in Nat
  BY DEF TypeInv, TypeOK, Checkpoints
<1>2. ToFetch \in Nat BY <1>1 DEF ToFetch
<1>. QED BY <1>2 DEF Remaining

\* The steps of one page, with its total known.
LEMMA PageAdvances ==
    ASSUME TypeInv, TypeInv', ck.total # None,
           FetchPage \/ AppendRows \/ SaveCheckpoint \/ NextPage \/ CloseFetch
    PROVE  ck'.total = ck.total /\ Remaining' < Remaining
<1>1. /\ ck \in Checkpoints /\ ck.total \in Nat /\ ck.offset \in Nat
      /\ Len(page) \in Nat /\ (page # <<>> => Len(page) > 0)
      /\ page \in Seq(Record)
  BY EmptySeq DEF TypeInv, TypeOK, Checkpoints
<1>2. ToFetch \in Nat
  BY RemainingType
<1>3. CASE FetchPage
  <2>1. pc = "fetch" /\ pc' = "append" /\ ck' = [ck EXCEPT !.total = ck.total]
    BY <1>1, <1>3, CrawlAssumption DEF FetchPage
  <2>2. ck'.total = ck.total /\ ck'.offset = ck.offset
    BY <1>1, <2>1 DEF Checkpoints
  <2>3. ToFetch' = ToFetch BY <2>2 DEF ToFetch
  <2>. QED BY <1>2, <2>1, <2>2, <2>3 DEF Remaining
<1>4. CASE AppendRows
  <2>1. pc = "append" /\ pc' = "save" /\ ck' = ck BY <1>4 DEF AppendRows
  <2>2. ToFetch' = ToFetch BY <2>1 DEF ToFetch
  <2>. QED BY <1>2, <2>1, <2>2 DEF Remaining
<1>5. CASE SaveCheckpoint
  <2>1. /\ pc = "save" /\ pc' = "next" /\ page' = page
        /\ ck'.total = ck.total /\ ck'.offset = ck.offset + Len(page)
    BY <1>1, <1>5 DEF SaveCheckpoint, Checkpoints
  <2>2. ToFetch' \in Nat /\ ToFetch' <= ToFetch
    BY <1>1, <2>1 DEF ToFetch
  <2>3. CASE Finished'
    BY <1>2, <2>1, <2>2, <2>3 DEF Remaining
  <2>4. CASE ~Finished'
    <3>1. page # <<>> /\ ck.offset + Len(page) < ck.total
      BY <1>1, <2>1, <2>4 DEF Finished
    <3>2. ToFetch' <= ToFetch - 1
      BY <1>1, <2>1, <3>1 DEF ToFetch
    <3>. QED
      BY <1>2, <2>1, <2>2, <2>4, <3>2 DEF Remaining
  <2>. QED BY <2>1, <2>3, <2>4
<1>6. CASE NextPage
  <2>1. pc = "next" /\ ~Finished /\ pc' = "fetch" /\ ck' = ck BY <1>6 DEF NextPage
  <2>2. ToFetch' = ToFetch BY <2>1 DEF ToFetch
  <2>. QED BY <1>2, <2>1, <2>2 DEF Remaining
<1>7. CASE CloseFetch
  <2>1. /\ pc = "next" /\ Finished /\ pc' = "promote"
        /\ ck'.total = ck.total /\ ck'.offset = ck.offset
    BY <1>1, <1>7 DEF CloseFetch, Checkpoints
  <2>2. ToFetch' = ToFetch BY <2>1 DEF ToFetch
  <2>. QED BY <1>2, <2>1, <2>2 DEF Remaining
<1>. QED BY <1>3, <1>4, <1>5, <1>6, <1>7

\* A run comes nearer to its end with every step, whatever the registry answers:
\* short, empty and failing pages, totals that change or are missing (run's loop
\* is left on an empty page, at the total and at --max-pages).
THEOREM RunsAdvance == Spec => RunAdvances
<1>1. Init => TypeInv BY InitType
<1>2. TypeInv /\ [Next]_vars => TypeInv' BY NextType
<1>3. TypeInv /\ [Next]_vars
        => [pc # "idle" /\ pc' # "idle" =>
              \/ RegistryChanges
              \/ InPrelude /\ (InPrelude' => Prelude' < Prelude)
              \/ /\ ~InPrelude /\ ~InPrelude' /\ ck'.total = ck.total
                 /\ Remaining \in Nat /\ Remaining' \in Nat
                 /\ Remaining' < Remaining]_vars
  <2>. SUFFICES ASSUME TypeInv, Next, pc # "idle", pc' # "idle", ~RegistryChanges
                PROVE  \/ InPrelude /\ (InPrelude' => Prelude' < Prelude)
                       \/ /\ ~InPrelude /\ ~InPrelude' /\ ck'.total = ck.total
                          /\ Remaining \in Nat /\ Remaining' \in Nat
                          /\ Remaining' < Remaining
    OBVIOUS
  <2>0. /\ TypeInv' /\ Run
        /\ pc \in Running \ {"fetch"} => ck.total # None
        /\ pc' \in Running \ {"fetch"} => ck'.total # None
    <3>1. ~Crash /\ \A reset \in BOOLEAN, max \in Limits : ~Start(reset, max)
      BY DEF Crash, Leave, Start
    <3>. QED BY <3>1, NextType DEF Next, TypeInv, StageInv
  <2>1. CASE ResetWork
    BY <2>1 DEF ResetWork, InPrelude, Prelude
  <2>2. CASE Load
    BY <2>2 DEF Load, InPrelude, Prelude
  <2>3. CASE FetchPage /\ ck.total = None
    <3>1. pc = "fetch" /\ pc' = "append" BY <2>3 DEF FetchPage
    <3>. QED BY <2>3, <3>1 DEF InPrelude
  <2>4. CASE /\ ck.total # None
             /\ FetchPage \/ AppendRows \/ SaveCheckpoint \/ NextPage \/ CloseFetch
    <3>1. ck'.total = ck.total /\ Remaining' < Remaining
      BY <2>0, <2>4, PageAdvances
    <3>2. pc \in Running /\ pc' \in Running
      BY <2>4 DEF FetchPage, AppendRows, SaveCheckpoint, NextPage, CloseFetch, Running
    <3>3. ~InPrelude /\ ~InPrelude'
      BY <2>4, <3>1, <3>2 DEF InPrelude, Running
    <3>4. Remaining \in Nat /\ Remaining' \in Nat
      <4>1. Remaining \in Nat BY <2>4, RemainingType
      <4>2. ck'.total \in Nat /\ ck'.offset \in Nat
        BY <2>0, <2>4, <3>1 DEF TypeInv, TypeOK, Checkpoints
      <4>3. Remaining' \in Nat BY <4>2 DEF Remaining, ToFetch
      <4>. QED BY <4>1, <4>3
    <3>. QED BY <3>1, <3>3, <3>4
  <2>5. CASE Promote \/ WriteReceipt
    <3>1. /\ ck' = ck
          /\ \/ pc = "promote" /\ pc' = "certify"
             \/ pc = "certify" /\ pc' = "close"
      BY <2>5 DEF Promote, WriteReceipt
    <3>2. ck.total \in Nat /\ ck.offset \in Nat
      BY <2>0, <3>1 DEF Running, TypeInv, TypeOK, Checkpoints
    <3>3. ToFetch' = ToFetch /\ ToFetch \in Nat BY <3>1, <3>2 DEF ToFetch
    <3>4. /\ Remaining \in Nat /\ Remaining' \in Nat /\ Remaining' < Remaining
      BY <3>1, <3>3 DEF Remaining
    <3>. QED BY <3>1, <3>4 DEF InPrelude
  <2>6. LoadRefused \/ FetchFails \/ FetchInvalid \/ FetchChanged \/ StopAtLimit
          \/ PromotionRefused \/ CloseCheckpoint => pc' = "idle"
    BY DEF LoadRefused, FetchFails, FetchInvalid, FetchChanged, StopAtLimit,
           PromotionRefused, CloseCheckpoint, Blocked, Leave
  <2>7. AppendRows \/ SaveCheckpoint \/ NextPage \/ CloseFetch => ck.total # None
    BY <2>0 DEF AppendRows, SaveCheckpoint, NextPage, CloseFetch, Running
  <2>. QED
    BY <2>0, <2>1, <2>2, <2>3, <2>4, <2>5, <2>6, <2>7 DEF Run
<1>. QED
  BY <1>1, <1>2, <1>3, PTL DEF Spec, RunAdvances
=============================================================================
