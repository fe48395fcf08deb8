# A verification of moneysweep's stateful core

`moneysweep` collects public-finance sources about Puerto Rico, refreshes them
under a controller, and serves an investigation desk on top of the results. Most
of its 2600 files are producers: scripts that turn files into files. The state
that several of them share, and that outlives a process, is kept by a few small
packages. Those are modelled here in TLA+, model-checked with TLC on small
instances, and, where it matters most, proved with TLAPS for every value of the
constants.

## 1. Inventory

| part | state | operations | interacts with |
|---|---|---|---|
| **source update controller** `moneysweep/update_controller` | `source_update_state.json` (a row per source), `source_update_consumed.local.json` (digests of ingested drops), append-only run and failure logs, the outputs on disk | `run`, `resume`, `ingest-drops`; read-only `plan`, `status`, `freshness`, `scan-drops` | starts producers as subprocesses, one lane per upstream; operators drop files; cron starts runs |
| **Case Manager, command side** `moneysweep/case_manager`, `migrations/001_case_manager_v1.sql` | eight tables of analytical objects and the audit log of each case, in SQLite | create / link, resolve a contradiction, close a lead, accept a finding | HTTP threads of `server/backend/case_manager_api.py`; the evidence catalogue (read only) |
| **resumable crawls** `scripts/materialize_ocpr_contracts_resumable.py`, `..._asg_emergency_purchases_resumable.py` | work file, checkpoint, completion receipt, canonical CSV | run, resume, reset, promote | a paged public registry that may change or fail meanwhile |
| **FOMB records** `scripts/download_fomb.py` | kept pages, validators, queue of documents, documents by digest, manifest, table of contract reviews | one run: read pages, download, rewrite | the oversight board's web site, which changes, fails, and answers conditionally |
| **leaderboard release** `scripts/finalize_leaderboard_release.py`, `export_leaderboard_package.py`, `certify_leaderboard_snapshot.py` | immutable snapshots, comparison and certificates; release, receipt, package, promotion receipt; the hub's copy | certify, freeze, decide, export, replay, deliver, promote, roll back | git checkouts of the producer and of the hub |
| **vendor enrichment** `scripts/sam_enrichment.py` | list of targets, vendor index, lookup cache | one run over the vendors, with or without `--resume` and lookups | awards master, monthly extract, SAM.gov, USASpending |
| effective policies `update_controller/policy.py` | none (YAML in, policies out) | merge, validate, order the DAG | gives the controller its constants |
| query cache and dispatcher `moneysweep/query` | body and manifest of every entry | get, put, dispatch | adapters |
| retry and circuit breaker `runtime/retry_runtime.py` | failure count, opened-at | call, half-open probe | downloaders |
| government-change monitor `government_change_materialization.py` | one candidate ledger | append snapshots and candidates | called from every lane that commits a change |
| desktop materialization endpoint | uploaded files, dry-run tokens | upload, dry-run, apply | producers |
| intake routers, promotion gates, forensics, source database, legacy runner, producers, dashboard | files only, one process | read, transform, write | the controller runs them |

### What is hard about it

* **Controller.** Lanes run concurrently in threads over ONE shared state
  dictionary; the consumed manifest is read, modified and replaced without a lock;
  the state file is written only after a wave, so a crash separates it from
  what the lanes have already put on disk; producers overwrite outputs in place
  before the gate has seen them; operators drop files at any time; a run gives up
  the remaining waves after a failure and plans the dependents one level deep.
  *Correct* means: parents before children, one source per lane at a time, no
  drop lost, no failure hidden, nothing refused ever taken for authoritative,
  every change propagated in the end, every run over in the end.
* **Case Manager.** What a command refers to, and the audit position it will
  write, are read before its transaction begins; a transaction may fail to begin,
  to write or to commit; all HTTP threads share one connection. *Correct* means:
  a command and its audit event take effect together or not at all, the audit
  chain of a case neither forks nor breaks, what was answered stays.
* **Crawls.** A crash between the append of a page and the checkpoint, a registry
  that changes between two pages, a promotion of two files one after the other.
  *Correct* means: a receipt marked COMPLETE stands beside exactly the output it
  counts, and that output has every place of the registry filled by this crawl; the total
  is all that tells one state of the registry from another. The purchase registry
  tells its number of pages only, and every purchase published or withdrawn shifts rows
  from page to page while the crawl is under way. *Correct* means: nothing that was there
  all the time is skipped, unless a withdrawal has pulled it on to a page already read, and
  nothing comes from before the crawl.
* **FOMB records.** Validators are saved long before the manifest; a page or document
  that answers 304 is read from what an earlier run has kept, which may have been
  lost or cut short by a crash; parts of a run fail and the rest goes on. *Correct* means: a run
  without errors has every document its pages list, each filed under the digest of a version of
  this run, or still in the queue. That the file is whole, and that a refresh of the reviews that
  fails half-way leaves the table alone, would be part of it; the code does neither (two findings).
* **Leaderboard release.** Four immutable files, two decisions and three mutable
  ones in two repositories are written one by one, and five steps may fail.
  *Correct* means: no decision without its evidence, nothing delivered that has
  not been replayed, a promotion at once or not at all. (That the promoted files then stay as they are
  is what a comment of the code wants; later runs change them, and a finding says so.)
* **Vendor enrichment.** Six layers may each know a vendor, aliases share a cache
  entry, a run stops early for three reasons, and index and cache are rewritten in
  place one after the other. *Correct* means: the source is never hidden by
  older rows, an outage never becomes a miss, what a lookup has found is not lost. (The index
  keeps the first only in part, and three findings say where.)

`PROJECT.json` lists every component and every hazard with the line where it
bites and the properties that would catch it.

## 2. Modules

```
SourceRecords                  (what is promised of the state file)
OutputGate ── UpdateController ─┬─ MCUpdateController        (TLC instances)
              (implements       └─ UpdateControllerProofs    (TLAPS)
               SourceRecords)      └─ UpdateRecordsProofs    (TLAPS)
CaseRecords ─┬─ AuditedCases   (what is promised)
             └─ CaseManager ──┬─ MCCaseManager               (TLC instances)
                 (implements   └─ CaseManagerProofs           (TLAPS)
                  AuditedCases)
Materialization                (what is promised)
ContractCrawl ─┬─ MCContractCrawl                           (TLC instances)
 (implements   └─ ContractCrawlProofs                        (TLAPS)
  Materialization)
PurchaseCrawl ─┬─ MCPurchaseCrawl                           (TLC instance)
 (implements   └─ PurchaseCrawlProofs                        (TLAPS)
  Materialization)
FombArchive ───┬─ MCFombArchive                             (TLC instance)
               └─ FombArchiveProofs                          (TLAPS)
Promotion                      (what is promised)
LeaderboardRelease ─┬─ MCLeaderboardRelease                 (TLC instance)
 (implements        └─ LeaderboardReleaseProofs              (TLAPS)
  Promotion)
SamEnrichment ─┬─ MCSamEnrichment                           (TLC instance)
               └─ SamEnrichmentProofs                        (TLAPS)
```

### OutputGate — `validation.py`

A pure module: `GateStatus(before, after)` is `validate_outputs` with its early
returns in their order. The declared outputs of a source are ONE content, which
stands for its own SHA-256; a content has a number of rows (or none, for JSON
only) and is well formed or not. The percentage of lost rows is compared by
cross-multiplication, so the module stays within the integers.

### UpdateController — `cli.py`, `planner.py`, `scheduler.py`, `executor.py`, `drop_scanner.py`, `state.py`

| variables | stand for |
|---|---|
| `drops`, `output`, `consumedFile`, `stateFile` | the disk: watch paths, declared outputs, the two JSON files |
| `mem` | the state dictionary a command has loaded and all its lanes share |
| `phase`, `pending`, `wave`, `changed`, `ran`, `packets`, `batchFailed`, `failed` | the locals of `cmd_run` / `cmd_ingest_drops` |
| `pc`, `result`, `attempt`, `before`, `reads`, `todo`, `loaded` | the locals of `run_source`, per source of the wave |

A row keeps the fields that some decision reads; `waiting` is "next_due_at lies in
the future" and `Elapse` ends it. One action is one stretch of code between two
points where another thread, an operator, the clock or a crash can intervene:

* `StartDue`, `StartForced`, `StartIngest` — loading the state and planning;
* `NextWave`, `EndWave`, `StartDependents`, `EndRun` — `execute_selected` and the
  second pass; `NextIngest`, `EndIngested`, `EndIngest` — `cmd_ingest_drops`;
* `Skip`, `PreflightFails`, `Launch`, `ProducerSucceeds`, `ProducerRetries`,
  `ProducerFails`, `Reject`, `Commit` — `run_source`; `MarkRead` and `MarkWrite`
  are separate because `mark_consumed` is an unlocked read-modify-write;
* `DropArrives`, `Elapse`, `LoseState`, `Crash` — the environment, switched on by
  `Faults`, so that every run says against what it is checked.

What a producer reads is fixed when it is launched: its parents' outputs, in
`reads`, a history variable for the properties that no guard looks at.

### SourceRecords — what `source_update_state.json` promises

Only the rows. They change in three ways: a set of successes is recorded at once
(`Record`), a due date passes (`Elapse`), the file is lost (`Forget`). A derived source
is recorded with the contents its parents have in the file, and never in the same
step as one of them. `UpdateController` implements it with `rows <- stateFile`
(`RecordsInWaves`): only the writes at the end of a wave or an intake can be seen,
and the versions that a lane took from the shared dictionary, while other lanes wrote to
it, are those of the file.

### CaseRecords, AuditedCases, CaseManager — `service.py`, `repository.py`, the SQL

`CaseRecords` has the objects, the commands, the checks (`Precheck` before the
transaction, `Applicable` for the statement under its constraints) and the audit
events. Identifiers are hashes of semantic parts, so an object stands for its
own creation request. `AuditedCases` is the promise of `service.py:54` and of the API
contract: `Execute(c)` changes a status and appends one event in one step.
`CaseManager` has what the code does: threads that check, read the audit position,
`BEGIN IMMEDIATE`, write, append, commit, each a step of its own, over SQLite
connections whose uncommitted writes are visible to themselves only. `Crash(k)`
is the death of the process that owns connection `k`. SQLite is modelled from how
`repository.py` uses it and marked external.

`ConnectionOf` decides the two deployments: a connection per thread (a process
per request, or the CLI and the server side by side), and the one connection of
the server.

### Materialization, ContractCrawl — `materialize_ocpr_contracts_resumable.py`

| variables | stand for |
|---|---|
| `registry` | upstream: what the OCPR registry holds now; it may change at any time |
| `work`, `checkpoint`, `output`, `receipt` | the disk: `pages.jsonl`, `checkpoint.json`, the canonical CSV, `completion_receipt.json` |
| `pc`, `ck`, `page`, `pages`, `limit` | the locals of `run()` |
| `past` | auxiliary: what the registry has held since page 1 of the crawl |

`Materialization` has only `output` and `receipt`: the output goes from one
complete output to another, while no receipt stands, and a receipt certifies
the output beside it. (The document `docs/OM_CONTRACT_UNIVERSE.md` has the two steps in the
other order; the code cannot, and a finding says so.) `ContractCrawl` has one action per step of `run()` that
a crash can separate from the next: the two unlinks of `--reset` (`Start`,
`ResetWork`), `Load` with its digest check and the removal of the old receipt, the
fetch with its four ways out (`FetchPage`, `FetchFails`, `FetchInvalid`,
`FetchChanged`), the append (`AppendRows`) and the checkpoint that counts it
(`SaveCheckpoint`), the end of the loop (`NextPage`, `StopAtLimit`,
`CloseFetch`), and the promotion in three steps (`Promote`, `WriteReceipt`,
`CloseCheckpoint`). `Crash` may leave part of a page in the work file, and half a
line. A SHA-256 is what it is the digest of, so `ck.sha = work` is the
comparison of digests; a record is a model value; the schema, URL and page
length of a checkpoint never change here. What the registry may answer is in `Answers` and
`Reported`: a full or short page, none at all, the right total, the page's length
or none, as `Faults` allows.

The code compares totals, so a registry that changes and keeps its total is not noticed, and
rows of its two states are promoted together. `Outputs(n, states)` is what can be promised all the same,
and what `CompleteOutput` demands: in every place up to the total a row that the registry held
THERE, with that total, since page 1. While the registry stands still that is the registry itself.

### PurchaseCrawl — `materialize_asg_emergency_purchases_resumable.py`

The same variables as `ContractCrawl`, with `listing` for the registry, whose rows are
ordered by control number (`Order`), and five auxiliaries: `base`, the purchases listed ever since page 1
of the crawl was fetched; `shown`, the rows seen in the registry since then; `lost`, how many rows may
have escaped the crawl, and `missed`, what the page in hand will add to it; `changes`, for the bound. `Publish` puts
a purchase in its place in the listing, `Correct` changes one, `Withdraw` takes one out, and those
behind it move up. A withdrawal adds one to `lost`, because one row at most moves on to a page already
read; a page sent in place of another adds a page's rows, unless it has the signature of the page
before, which the code compares. A row is a control number with a payload; the signature of a
page is the sequence of its control numbers. The steps of `run()` are those of the
sibling crawl, except that a page is refused (`FetchRefused`) for a missing or
changed count, for no rows and for the signature of the page before, and that
`Promotable` asks for a closed denominator, the checkpoint's number of
rows and no conflicting duplicates. A run after a finished crawl loads the same checkpoint and
promotes again, as the code does.

### FombArchive — `download_fomb.py`

| variables | stand for |
|---|---|
| `page`, `content` | upstream: the version of each collection page and document |
| `html`, `archive`, `manifest`, `reviews` | the disk: kept pages, documents by digest, manifest, how far the review table goes |
| `cut` | the disk: which of the kept pages and documents a crash has cut short |
| `tag`, `cached`, `pending` | `checkpoint.json`: validators of the pages; validator and version of each document; the queue |
| `pc`, `limit`, `left`, `found`, `todo`, `rows`, `errors` | the locals of `run()` |
| `since` | auxiliary: what upstream was when the run began |

A version is a number that stands for the body, its digest, its ETag and the name
it is stored under. `ReadPage` is the conditional request with what is kept of its
answer (`Legible`: any of its links, if the kept page is cut short), `Found` with `Prior` the merging of a page's links with the earlier manifest,
`Queue` the three ways a run chooses its documents, `ReadDocument` the conditional
request of a document with the fallback for a lost file, `WriteManifest` and
`WriteReviews` the end. Pages and documents may change between any two of these. Neither is
written atomically: `Crash` may leave a page or document whole, or in part under the name of the whole (`LeavePage`,
`LeaveDocument`), before its validator is saved.

### Promotion, LeaderboardRelease — `finalize_leaderboard_release.py`, `export_leaderboard_package.py`, `certify_leaderboard_snapshot.py`

| variables | stand for |
|---|---|
| `head`, `refs`, `scope`, `clock` | the producer's checkout, its file of source refs, its scope file, the time in stamps |
| `snapshots`, `history`, `certified` | immutable evidence: the commit under which each source was replayed, the comparison, the certificates |
| `release`, `receipt` | the decisions, replaced at every run |
| `package`, `target`, `promotion` | the export, the hub's copy, the promotion receipt |
| `pc`, `hub`, `runtime`, `pair`, `scoped`, `certificate`, `kept` | the locals of `main()` |
| `replayed`, `crashes` | auxiliary: the packages the hub's replay has passed; the bound on crashes |

A document is the record of what it names, so comparing records is comparing
digests; a certificate and a package carry the stamp of their making, which is
why making one anew makes another. The scope file is read three times, for the decision, by the exporter and
for the promotion receipt, and may be edited between any two of them. `Promotion` knows only package, target and
promotion: the three change together (`Promote`), or a crash leaves the first two anyhow
and no promotion (`Break`); once there is a promotion, a run may hand over another package, both copies at a time,
under the old receipt (`Redeliver`), as `main()` does, which never looks for an earlier promotion. In the
refinement an attempt counts as nothing until it is over (`kept`).

### SamEnrichment — `sam_enrichment.py`

| variables | stand for |
|---|---|
| `source`, `bulk` | upstream: the identifiers in the awards master and in the monthly extract |
| `listed`, `index`, `cache` | the disk: `vendor_targets.csv`, `vendor_uei_index.csv`, `sam_cache.json` |
| `pc`, `resume`, `useApi`, `top`, `read`, `next`, `results`, `known` | the locals of `run()` |
| `calls`, `failures`, `processed`, `stopped` | its counters |
| `asked`, `answered` | auxiliary: the vendors looked up in this run; the clusters a registry has answered for |

Vendors are numbered by value; a row is a name, a status and an identifier. The name is the
one it is written under: a cached miss carries the name of the vendor that was asked, and a hit puts it
over the alias's own (`Settled`), as `**hit` does. `Layer` is the
cascade of the loop in its order, `Settle` one turn of it, `LookupResolves` and
`LookupFails` a turn that asks the registries. `WriteIndex` and `SaveCache` are apart,
because a crash separates them. The index is read back by name, and of two rows of one name the last
counts: `Files(rows)` is what it then says, with either row last, because their order hangs on values of
different days. `WriteIndexFails` is the write that raises on a row without a value. `Torn` is what a crash inside
`write_index` may leave: whole rows, then one cut off in its name (0 stands for such a name),
its value, or its identifier. A torn cache is no JSON and loads as empty.

## 3. Runs

| run | instance | shows |
|---|---|---|
| `update_pipeline` | 4 sources (scheduled, drop, derived from both, keyed manual), 2 files, 2 workers, 1 retry, 3 contents the gate passes | types and retry budget; dependency order across waves and passes; what is recorded as consumed was read; failures reach the exit code; the state file shows whole waves (`RecordsInWaves`) |
| `update_intake` | 2 drop sources, 2 files, 2 workers, crashes, lost state, torn and partial outputs, late drops, fairness | the drop lane keeps the two apart, so no mark is lost; every invocation ends |
| `update_chain` | root → child → grandchild, a root of another cadence, `--continue-on-error`, failing and half-writing producers, lost state | a clean run with a second pass catches up with what earlier runs left behind |
| `case_separate` | 2 threads with a connection each, 7 objects in 2 cases (a contradiction across cases, unknown evidence), crashes | the refinement of `AuditedCases` and what follows from it |
| `crawl_contracts` | a registry of 3 records (one without a contract number), or of 3 others after a cancellation and a registration, or of 2 alike; pages of 2, with and without `--max-pages 1`, crashes, failing and short pages, missing totals, fairness | a promotion has every place filled by this crawl, also when the registry changes behind an equal total; receipts only beside what they certify; every run ends |
| `crawl_purchases` | 3 purchases at first, 1 to 4 later, published, withdrawn, published again and corrected in 3 changes; pages of 2, with and without `--max-pages 1`, resets, crashes, wrong, empty and failing pages, missing counts | a promotion lacks nothing but what withdrawals and wrong pages can have hidden, and has nothing from before the crawl; receipts only beside what they count |
| `fomb_archive` | 2 collections, 2 documents, one of which appears and one changes, limits 1, none and no downloads, failing pages and documents, 2 pages of reviews that may break off, documents without validators, lost files, crashes, also in mid-write | nothing listed is hidden by what earlier runs have left, a cut page included; nothing is current under the digest of an older version |
| `leaderboard_release` | 3 source commits in 2 pairs, 2 producer commits, 2 scopes, 3 stamps, 2 crashes, runs before and after a promotion | decisions have their evidence, deliveries their replay, a promotion is one step, and what it binds stands |
| `sam_enrichment` | 4 vendors, 2 of them aliases, 1 municipality, a budget and a breaker of 2, batches of 2, outages, quotas, crashes | no stale row hides the source from a run, stopped or not, open vendors are asked for, misses were answered, what was found is kept |
| `update_regression` | chain, an output and its half | **violated**: the refused output is the next baseline |
| `case_shared` | 2 threads on one connection | **violated**: a roll-back takes another thread's writes |
| `crawl_masquerade` | a registry of 4 that never changes, crashes and an early empty page | **violated**: stale rows fill up the count, an incomplete output is promoted |

**Bounds.** In `ContractCrawl` one guard is a bound: `Start` without `--reset`
needs a work file of at most `MaxWork` rows, because a registry that keeps
crashing the first page would let it grow for ever; three rows are a whole crawl of the larger registries of
`crawl_contracts`, four of that of `crawl_masquerade`, so every resumed run and every run on top of stale rows
is within the bound. `pages` is counted under a limit only, where it is compared. Of the three
registries two have the same total and share no place, so that each row of an output tells the
state it is from, and the third changes the total; pages of two make a last page that is short and one
that is full.
`PurchaseCrawl` has the same bound, four rows being two pages, and `MaxChanges`: with three changes a row crosses from
one page to the other in either direction, a purchase is withdrawn and published again, and one is
corrected, before, between and after the two pages of a crawl. The listing is never empty: a page without rows is
refused in any case. `FombArchive` has `Last`, the last
version of a page or document: one change of a page (it links to a second document) and one of a
document, each possible at any moment of any run; no version comes back, so a validator never matches
a page kept since from another version. Two answers make the whole table of reviews, one a truncated one. In `LeaderboardRelease`, `Heads` is one commit made
between or during runs, `Scopes` an edit of the scope, to and fro, `Stamps` allows three certificates and packages in
all (a promotion and a second delivery need them), `Crashes` two deaths, one before and one after a promotion.
`SamEnrichment` needs no bound: `calls` is bounded by the budget, `failures` by the
breaker, `processed` is taken modulo the batch. Four vendors are the fewest with an alias, a municipality and
one look-up beyond the budget; all are read in every run (`--top` is a parameter
of the model and the theorems).
In the controller and the Case Manager nothing is truncated: the controller's state is finite for
finite constants (`attempt` is bounded by `max_retries`, the drops by `Drops`), and
the audit logs are, because every command applies at most once. Two workers and
two files suffice for every interleaving of two lanes; three sources in a chain
are the shortest on which the one-level second pass matters; two contents tell a
change from no change and a third an empty result. The pipeline's contents all
pass the gate, because a refused output stays in place and is read by the sources
derived from it, against `docs/SOURCE_UPDATE_CONTROLLER.md:152-153`, which breaks `ConsumedWasRead`.
Two threads and two cases give stale audit positions, forks, and references that cross cases.

**Faults left out of passing runs.** Each is in its model, and with it a property
fails: `shadow` (a leftover `.tmp` file hides a failure from the exit code,
`executor.py:279`); `page_total` (a missing total is replaced by the page's length); `torn_targets` (a list of vendors
cut off by a crash is newer than its master and taken for whole, `sam_enrichment.py:482-485`).

**Findings without a run of their own.** Seven findings are recorded at passing runs: a document or a comment
asks for more than the code does, the model has the step at which it fails, and the property states what is left.
`crawl_contracts`: the CSV is replaced before the receipt is written, not after. `fomb_archive`: a document cut
short by a crash is taken for whole, and a refresh of the reviews that fails half-way truncates them.
`leaderboard_release`: runs after a promotion change the files it binds. `sam_enrichment`: an alias's cached miss may
hide another vendor's identifier in the index, a run that stops leaves the vendors behind it unscanned, and a write
that raises empties the index.

Deadlock is checked in every run: an idle controller always can be started, an
idle thread always can crash, a crawl always can be reset, a producer always can be run again.

**Fairness.** The four producers of one run each (`crawl_purchases`, `fomb_archive`,
`leaderboard_release`, `sam_enrichment`) are checked for safety only: each is a loop over a list
that only gets shorter, which `PurchaseRunsAdvance` proves of the first. For the contract crawl, `RunsEnd` assumes only that a process which is neither
killed nor raises keeps running (`WF_vars(Run)`; each request has a timeout and a
retry budget). For the controller it assumes that the controller's own steps
and each lane's steps are weakly fair: a process that is not killed keeps running,
and every subprocess ends because it has a timeout, `executor.py:190`. Commands, operators, time,
crashes and the success of a producer have no fairness, so no property says that a change
reaches the derived sources in the end. Nothing in the code does: the scheduled workflows select
scheduled sources only (`planner.py:120-131`), derived ones come from the second pass, which needs
a parent that changed in the same run (`cli.py:315`), and a child whose refresh failed waits for
the next such run or for an operator's `run` without a selection. What a run that gets to its second
pass does for them is `RunCatchesUp`.

## 4. Proofs

TLAPS checks every statement below for all values of the constants that satisfy
the named assumptions (`ContentAssumption`, `ControllerAssumption`;
`RecordsAssumption`, `ConnectionAssumption`, `NoneAssumption`;
`CrawlAssumption`, `PurchaseAssumption`, `FombAssumption`, `LeaderboardAssumption`,
`SamAssumption`), which TLC
evaluates in every passing run.

**UpdateControllerProofs.**
`TypeCorrect` is inductive as it stands. `DependencySafe` and `LaneExclusive` are
not: a lane's position says nothing about why it may be there. `LaneInv`
(`LanesInOrder`) adds that an active source belongs to the wave, that everything earlier
in its lane is done, that a wave holds no source together with one of its parents, and
that no source of the wave has a parent still pending. `DependencySafety` and
`LaneExclusion` follow from it. `MarksAreKept`: while a drop source is between
`MarkRead` and `MarkWrite`, what it has loaded equals the manifest, because the
only other writers share its lane. `FailuresSurface`: every failure packet belongs
to a source whose result counts as a failure, or to a batch already marked failed;
it needs `"shadow" \notin Faults`: with a leftover `.tmp` file TLC finds the run that
exits 0 with a failure packet written.

`NothingAbandoned`, `NoSourceTwice`, `NeverWaitsForEver` and `RunsAdvance` are about a run as a
whole. The first two say that a lane is not given up while a source of it is at
work, and that a source with a result is not planned again in the same invocation.
`NeverWaitsForEver` shows the absence of deadlock without ENABLED: inside a run the
guard of a step of the control loop holds, or the guard of a step of some lane
(`ControlCanMove`, `LaneCanMove`). Of the lanes that are not finished, `LeastRank` picks the
source of least rank, which a well-founded minimum provides; it can start unless
the workers are busy, and then one of them can move. `RunsAdvance` gives every
state of a run a lexicographic measure (pass, planned sources, wave, what is left of each
lane) and shows that each step lowers it, except those of the environment, which
leave it alone or come between runs. It assumes that the drops are finitely
many, because `mark_consumed` writes once per file. The two are what TLC's `RunsEnd` rests
on: what is missing to liveness is the fairness alone.

**UpdateRecordsProofs.** `RecordsImplement`: the state file implements `SourceRecords` under
every fault, crashes and lost files included, for which `update_pipeline` has no states. The
invariant is `RecordInv`: memory and file agree between commands; where they
differ, the source belongs to the current wave (or the intake) and has committed,
and its row is ONE success over the file's. What the proof needs of the waves
is in `LaneInv`: no source shares a wave with a parent, so the versions read in
memory are those in the file. From the abstract specification follow
`RecordsGrounded`, `BehindIsDue` (a source behind its parents is due, whatever failed)
and `RecordCatchesUp` (a write that changes what it has consumed leaves it behind none), on which
`RunCatchesUp` rests. `ReadsAreStable`: until its output is
committed or refused, what a producer has read is what lies on disk, under every
fault. `ConsumedVersionsWereRead` takes it further to `ConsumedWasRead`, for which the
hash in the parent's row must be that of the parent's file; it assumes `Undisturbed`: every
content passes the gate, no output is half-written, no lane is refused for a `.tmp` file, no process
dies after its producer has written, no state file is lost. Each of these leaves a file on
disk that no row knows of, and its readers record another. `MarkedIsRecorded`: without
a crash and without a lost file (`Surviving`), files are marked consumed only of
sources whose success the file has; the window between the two writes is the only
way to the state that `drop_scanner.py:165` is listed for.

**CaseManagerProofs.** Four theorems hold for any sharing of connections: `TypeCorrect`,
`ChainIsSound`, `ForeignKeysHold` and `NothingTakenBack`. Their invariant, `SharedInv`, says of the
committed tables and of what each transaction sees that they are `Sound` (the chains are
numbered and linked, the rows keep their foreign keys and their case, the events
their object's case), that every view extends the committed tables, and that at
most one transaction is open. One thread's roll-back may take another's
writes with it, and one thread's commit may complete another's command, but neither makes an
unsound table: each statement is checked against the view it writes to. The
others assume `Separate`: no two threads share a connection; on the server's single
connection TLC finds `ObjectsAudited` (the run `case_shared`), `AckedIsLogged` and `ReferencesHold`
violated. `IsolationInv` says
(LockInv) at most one connection has an open transaction and its owner is in one of
the stages between BEGIN and COMMIT; (CheckedInv) what a thread's checks
have found is still true, because rows are never deleted and never change case;
(ProgressInv) the transaction's view is the committed tables plus exactly the
thread's own writes so far. `Implements` is then step by step: `Commit` is
`Execute(cmd[t])` of the promise, everything else a stutter. `AuditIsComplete`,
`ReferencesAreSound` and `AnswersAreDurable` add the properties
themselves, which are inductive for `AuditedCases` and carried over.

**ContractCrawlProofs.** `TypeCorrect` needs `StageInv` beside the types: a run
on its way has not reached its limit yet, and knows its total after the first
page. It holds under every fault. `OutputIsComplete` and `Implements` assume
`Reliable`: the registry neither answers with an empty page too early, which `crawl_masquerade`
shows to be needed, nor leaves `recordsFiltered` out. Nothing is assumed of how it
changes. Neither property is inductive, because
the promotion only counts lines. `CrawlInv` says where they come from: of the LAST
`next_offset` lines of the work file, whatever an earlier run has left before them, each is a row that
the registry has held in its place (`Held`) in one of its states with the observed total since page 1
(`Follows`), and the page in hand continues them (`Continues`). With `next_offset`
at the total, as many lines as the total leave no room for anything else
(`PromotedIsComplete`). The checkpoint on disk carries the same fact about the
work file it was written for (`DiskInv`), which is what makes resuming sound.
`Implements` adds that there is no receipt from `Load` to `WriteReceipt`.
`RunsAdvance` holds under every fault: until the total is known a run is at its
start, and from then on the records still to fetch and the stage count down, an
empty page included; only changes of the registry leave the run where it is.

**PurchaseCrawlProofs.** `PurchaseInv` counts the purchases that have escaped the crawl
(`Escaped`): those of `base` that are neither in the work file nor, while pages are left, on the next page
or a later one. They are at most `lost` (`Covered`). A published purchase only pushes rows onwards, so none
escapes by `Publish`; a withdrawal moves one row at most across the edge between the pages read
and the pages left (`WithdrawKeeps`); the right page appended moves its rows from the one side to
the other, and a wrong one leaves a page's rows behind (`FetchCovers`). With the denominator closed nothing is left on the
other side. The checkpoint on disk carries the same about the work file it was written for. For `PurchasesShown`
the last lines of the work file, as many as the checkpoint counts, are rows shown since page 1 (`Ends`), and the
promotion has no others. Neither theorem has an assumption. `PurchasesImplement` adds
that no receipt stands from `Load` to `WriteReceipt`. `PurchaseRunsAdvance` counts the pages
that are left; `CountInv` says that a page in hand is one of those the first count promised.

**FombArchiveProofs.** `FombInv` adds `DiskInv`, a validator is never newer than what
is kept, nor that than what is upstream, and a page cut short is newer than its validator, so that
it is never read on a 304; `SinceInv`, upstream only goes forward
from where the run found it; and `PageInv`, the documents of every page
read so far have a row. `ListedRecorded` and `CurrentOrPendingHolds` follow, under every fault.

**LeaderboardReleaseProofs.** `RunInv` says, stage by stage, what the run has frozen
and written so far: the immutable files refuse whatever differs, so from a stage on
they are what the run has in memory. With `CertifiedInv` (one certificate at most,
that of the comparison on disk) this gives `ReleasesEvidenced`. `ExportInv`
follows a package from export to delivery, for `DeliveriesReplayed`. `PromotionsStand` and
`FinalizerPromotes` assume nothing either: `AttemptInv` says that an attempt keeps the promotion that is there,
if any, until its last step, and `RestoreInv` that the roll-back restores in its order.

**SamEnrichmentProofs.** `SamInv` says of the vendors before `next` what the properties
say at the end (`ScanInv`, by `Done`: the row is what source or extract says, and otherwise settles the vendor
or was asked for), that the cache holds only identifiers and definite answers (`CacheInv`), that
every miss, in four places, goes back to an answer (`MissInv`), that a row under another vendor's name is a miss of
an alias, in a cluster for which nothing was found (`NameInv`), that the index at the end is one of the files its rows make
(`EndInv`), and that a run which has gone through a vendor has an identifier wherever the cache or its copy has one from
a lookup (`FoundInv`): whatever a write does to the cache, the index written before it has one. The four ways
to treat a vendor are one lemma, `OneVendor`; what a file says of its rows is another, `FileRows`; what a
crash leaves a third, `TornTyped`. `ScansComplete` and `OpenRetried` assume that the list of targets is not
cut off, `FoundSurvives` and `MissesAnswered` nothing.

**Only model-checked:** the liveness property `RunsEnd` (in two runs): fairness and ENABLED are out of the prover's
reach, and the theorems above prove its safety half; `RunCatchesUp`; and everything about the violated
properties. Every other property of a run is stated by a theorem. What a
recursive definition computes on every input cannot be proved here (the library's induction
theorems take an operator as a parameter), and no module has one; a least counterexample
by rank (`WFMin`, as in `LeastRank`) takes the place of induction.

## 5. Not modelled

Producers and whatever they compute; reports, receipts and log formats; the freshness report (`freshness`
in `validation.py`); the policy loader, whose results are constants;
`CaseQueryService` and its visibility filter; authentication; the HTML of the oversight board and the version chains and crosswalk computed
from its manifest; how a leaderboard snapshot is computed; name similarity, and the
enriched master that `sam_enrichment.py` writes last; a master rebuilt while it runs; a second controller
process beside the first (each scheduled workflow has a concurrency group of its
own, an operator's shell has none); leap of the wall clock backwards.
`PROJECT.json` gives the reason for every component left out.

## 6. Plan

1. *Done:* the update controller, the command side of the Case Manager, both
   resumable crawls, the FOMB producer, the leaderboard finalizer and the vendor
   enrichment, their runs, the abstract state file (`SourceRecords`), and the theorems above.
2. A second controller process over the same two files, to state what the
   concurrency groups protect; the government-change ledger composed with the lanes.
3. `PolicyGraph`: `_find_cycle`, `topological_order`, `topological_waves` against
   reference definitions over all small graphs; freshness states as a function.
4. `CircuitBreaker` and `QueryCache`, each with an abstract specification.
5. Proofs: the steps of a run counted down for the enrichment, the FOMB producer and the
   finalizer, as for the crawls; what a second run of each leaves alone.
