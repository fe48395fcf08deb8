--------------------------- MODULE SamEnrichment ---------------------------
(***************************************************************************)
(* The enrichment of vendors with their federal identifiers                 *)
(* (scripts/sam_enrichment.py).  A run goes through the vendors in the order  *)
(* of their value and settles each from the cheapest layer that knows it: the *)
(* award source, the monthly extract, its row of an earlier run, the cache    *)
(* that it shares with its aliases, the list of municipalities, and, if asked *)
(* to and within a budget, the two federal registries.  The index and the     *)
(* cache are rewritten in place, one after the other, and a run may die in    *)
(* the middle of either.                                                     *)
(***************************************************************************)
EXTENDS Integers

CONSTANTS
    Vendors,      \* how many vendors there are; they are numbered by value
    ClusterOf,    \* the cluster of aliases of each, named by one of them
    Local,        \* the municipalities
    Uei,          \* federal identifiers
    Masters,      \* the identifiers that the awards master may carry
    Extracts,     \* the identifiers that the monthly extract may match
    Tops,         \* the values of --top in use
    MaxApi,       \* --max-api
    Breaker,      \* --circuit-breaker-failures
    BatchSize,    \* BATCH_SIZE
    Faults,       \* which of AllFaults the environment may show
    Part,         \* what is left of an identifier that is cut off
    None

AllFaults == {"crash",          \* the process dies
              "torn_targets",   \* it may do so while it writes the list of targets
              "transport",      \* a registry cannot be reached
              "quota"}          \* the registry refuses further calls

Vendor == 1..Vendors
Names == 0..Vendors               \* 0 is no vendor's: cut off in the index, or none at all
Maybe(set) == set \cup {None}

ASSUME SamAssumption ==
    /\ Vendors \in Nat \ {0} /\ ClusterOf \in [Vendor -> Vendor] /\ Local \subseteq Vendor
    /\ Masters \subseteq [Vendor -> Maybe(Uei)] /\ Extracts \subseteq [Vendor -> Maybe(Uei)]
    /\ Tops \subseteq Vendor
    /\ MaxApi \in Nat \ {0} /\ Breaker \in Nat \ {0} /\ BatchSize \in Nat \ {0}
    /\ Faults \subseteq AllFaults
    /\ None \notin Uei \cup {Part} /\ Part \notin Uei

VARIABLES
    source, bulk,   \* upstream: the awards master, the monthly extract
    listed,         \* disk: the targets in vendor_targets.csv, 0 for none of this master
    index,          \* disk: vendor_uei_index.csv
    cache,          \* disk: sam_cache.json
    pc,             \* process: how far run() is
    resume, useApi, top, \* process: its arguments
    read,           \* process: the targets it goes through
    next,           \* process: the one it is at
    results,        \* process: the rows so far
    known,          \* process: the cache in memory
    calls,          \* process: lookups made
    failures,       \* process: consecutive lookups that both registries failed
    processed,      \* process: vendors processed, modulo BatchSize
    stopped,        \* process: whether the run has stopped early
    asked,          \* auxiliary: the vendors that this run has looked up
    answered        \* auxiliary: the clusters for which a registry has answered

upstream == <<source, bulk>>
disk == <<listed, index, cache>>
arguments == <<resume, useApi, top>>
counters == <<calls, failures, processed, stopped, asked>>
vars == <<upstream, disk, pc, arguments, read, next, results, known, counters, answered>>

\* A row bears the name it is written under in the index.
Row(name, status, uei) == [name |-> name, status |-> status, uei |-> uei]
Absent == Row(0, "NONE", None)
Blank(name) == Row(name, "BLANK", None)     \* cut off before its value
Definite == {"NO_MATCH", "LOCAL"}
Statuses == {"NONE", "BLANK", "CUT", "SOURCE", "BULK", "SAM", "USAS", "LOCAL", "DEFERRED",
             "ERROR", "NO_MATCH"}
Rows == [name : Names, status : Statuses, uei : Uei \cup {Part, None}]
NoRows == [n \in Names |-> Absent]
NoEntries == [c \in Vendor |-> Absent]
Stages == {"idle", "targets", "scan", "index", "cache", "final_index", "final_cache"}

Least(m, n) == IF m < n THEN m ELSE n

-----------------------------------------------------------------------------
\* A newer master makes the list of targets stale.
MasterRebuilt ==
    /\ pc = "idle"
    /\ source' \in Masters \ {source}
    /\ listed' = 0
    /\ UNCHANGED <<bulk, index, cache, pc, arguments, read, next, results, known, counters,
                   answered>>

ExtractArrives ==
    /\ pc = "idle"
    /\ bulk' \in Extracts \ {bulk}
    /\ UNCHANGED <<source, disk, pc, arguments, read, next, results, known, counters, answered>>

Start(again, api, n) ==
    /\ pc = "idle"
    /\ pc' = "targets"
    /\ resume' = again /\ useApi' = api /\ top' = n
    /\ UNCHANGED <<upstream, disk, read, next, results, known, counters, answered>>

\* load_targets, and the index and the cache of earlier runs.
LoadTargets ==
    /\ pc = "targets"
    /\ pc' = "scan"
    /\ listed' = IF listed # 0 THEN listed ELSE Vendors
    /\ read' = Least(top, listed')
    /\ next' = 1
    /\ results' = IF resume THEN index ELSE NoRows
    /\ known' = cache
    /\ UNCHANGED <<upstream, index, cache, arguments, counters, answered>>

-----------------------------------------------------------------------------
SlipHasSource(v) == source[v] # None /\ results[v].uei = None  \* a resolved row is left alone
HasSource(v) == source[v] # None

HasBulk(v) == bulk[v] # None

SlipCached(v) == known[ClusterOf[v]].status \in Definite  \* only what has no identifier is shared
SlipKept(v) == results[v].status # "NONE"     \* any row of an earlier run will do
Kept(v) == results[v].uei # None

Cached(v) == known[ClusterOf[v]] # Absent

\* The first layer that settles a vendor without a lookup.
Layer(v) ==
    IF HasSource(v) THEN "source"
    ELSE IF HasBulk(v) THEN "bulk"
    ELSE IF Kept(v) THEN "kept"
    ELSE IF Cached(v) THEN "cache"
    ELSE IF v \in Local THEN "local" ELSE "open"

\* A hit in the cache goes over what the row says already, the name included if
\* the hit has one: a miss has that of the vendor that was asked.
Settled(v) ==
    CASE Layer(v) = "source" -> Row(v, "SOURCE", source[v])
      [] Layer(v) = "bulk" -> Row(v, "BULK", bulk[v])
      [] Layer(v) = "kept" -> results[v]
      [] Layer(v) = "cache" -> LET hit == known[ClusterOf[v]]
                               IN IF hit.name = 0 THEN [hit EXCEPT !.name = v] ELSE hit
      [] Layer(v) = "local" -> Row(v, "LOCAL", None)

Scanning == pc = "scan" /\ next <= read

Record(row) == results' = [results EXCEPT ![next] = row]
Remember(row) == known' = [known EXCEPT ![ClusterOf[next]] = row]
Proceed ==
    /\ next' = next + 1
    /\ processed' = (processed + 1) % BatchSize

Settle ==
    /\ Scanning /\ Layer(next) # "open"
    /\ Record(Settled(next))
    /\ IF Layer(next) \in {"source", "bulk", "local"}
       THEN Remember([Settled(next) EXCEPT !.name = 0])
       ELSE UNCHANGED known
    /\ Proceed
    /\ UNCHANGED <<upstream, disk, pc, arguments, read, calls, failures, stopped, asked, answered>>

Defer ==
    /\ Scanning /\ Layer(next) = "open" /\ ~useApi
    /\ Record(Row(next, "DEFERRED", None))
    /\ Proceed
    /\ UNCHANGED <<upstream, disk, pc, arguments, read, known, calls, failures, stopped, asked,
                   answered>>

SlipBudgetSpent == calls > MaxApi
BudgetSpent == calls >= MaxApi

\* The budget is spent, with the files saved once more than at the end, or the
\* registry refuses: no row, and no more vendors.
StopLookups ==
    /\ Scanning /\ Layer(next) = "open" /\ useApi
    /\ BudgetSpent \/ "quota" \in Faults
    /\ stopped' = TRUE
    /\ pc' = IF BudgetSpent THEN "index" ELSE "final_index"
    /\ UNCHANGED <<upstream, disk, arguments, read, next, results, known, calls, failures,
                   processed, asked, answered>>

Asks ==
    /\ Scanning /\ Layer(next) = "open" /\ useApi /\ ~BudgetSpent
    /\ calls' = calls + 1
    /\ asked' = asked \cup {next}
    /\ Proceed
    /\ UNCHANGED <<upstream, disk, arguments, read>>

\* After a lookup, and only then, the files are saved at the end of a batch.
AfterLookup ==
    pc' = IF processed' = 0 THEN "index" ELSE IF stopped' THEN "final_index" ELSE "scan"

\* sam_lookup_by_name, or usaspending_lookup in its place, has a match.
LookupResolves ==
    /\ Asks
    /\ \E status \in {"SAM", "USAS"}, uei \in Uei :
        Record(Row(next, status, uei)) /\ Remember(Row(0, status, uei))
    /\ failures' = 0 /\ stopped' = stopped
    /\ answered' = answered \cup {ClusterOf[next]}
    /\ AfterLookup

SlipTransient(sam, usaspending) == FALSE      \* an outage is taken for a miss
Transient(sam, usaspending) == sam = "error" /\ usaspending = "error"

\* Neither has one: a miss, unless both could not be reached.
LookupFails ==
    /\ Asks
    /\ \E sam, usaspending \in {"none"} \cup (IF "transport" \in Faults THEN {"error"} ELSE {}) :
        /\ IF Transient(sam, usaspending)
           THEN /\ Record(Row(next, "ERROR", None))
                /\ failures' = failures + 1
                /\ stopped' = (failures' >= Breaker)
                /\ UNCHANGED known
           ELSE /\ Record(Row(next, "NO_MATCH", None))
                /\ Remember(Row(next, "NO_MATCH", None))
                /\ failures' = 0 /\ stopped' = stopped
        /\ answered' = IF "none" \in {sam, usaspending}
                       THEN answered \cup {ClusterOf[next]} ELSE answered
    /\ AfterLookup

CloseScan ==
    /\ pc = "scan" /\ next > read
    /\ pc' = "final_index"
    /\ UNCHANGED <<upstream, disk, arguments, read, next, results, known, counters, answered>>

-----------------------------------------------------------------------------
Leave ==
    /\ pc' = "idle" /\ resume' = FALSE /\ useApi' = FALSE /\ top' = 1 /\ read' = 0 /\ next' = 1
    /\ results' = NoRows /\ known' = NoEntries
    /\ calls' = 0 /\ failures' = 0 /\ processed' = 0 /\ stopped' = FALSE /\ asked' = {}

Writing == pc \in {"index", "final_index"}
Sortable == \A n \in Names : results[n].status # "BLANK"

Own(rows) == {v \in Vendor : rows[v].name = v}
Lent(rows) == {v \in Vendor : \E k \in Vendor \ {v} : rows[k].name = v}
Shared(rows) == {v \in Vendor : \E j, k \in Vendor : j # k /\ {rows[j].name, rows[k].name} = {v}}

\* What the file says of each name, if the row of an alias comes after that of
\* the vendor whose name it bears for the names in late.
File(rows, late) ==
    [n \in Names |-> IF n \in late THEN rows[CHOOSE k \in Vendor \ {n} : rows[k].name = n]
                     ELSE IF n \in Own(rows) THEN rows[n] ELSE Absent]

\* Which of two rows of one name is the later, and counts, hangs on their values,
\* that of the alias being of the day the other was asked, and on which of the two
\* was there first: it is left open.
Files(rows) ==
    {File(rows, late) : late \in {late \in SUBSET Lent(rows) : Lent(rows) \subseteq Own(rows) \cup late}}

\* write_index ...
WriteIndex ==
    /\ Writing /\ Sortable
    /\ index' \in Files(results)
    /\ pc' = IF pc = "index" THEN "cache" ELSE "final_cache"
    /\ UNCHANGED <<upstream, listed, cache, arguments, read, next, results, known, counters,
                   answered>>

\* ... which raises when a row has no value, with the file emptied already.
WriteIndexFails ==
    /\ Writing /\ ~Sortable
    /\ index' = NoRows
    /\ Leave
    /\ UNCHANGED <<upstream, listed, cache, answered>>

SaveCache ==
    /\ pc = "cache"
    /\ cache' = known
    /\ pc' = IF stopped THEN "final_index" ELSE "scan"
    /\ UNCHANGED <<upstream, listed, index, arguments, read, next, results, known, counters,
                   answered>>

\* After the last save come reports that no run reads.
SaveCacheAndEnd ==
    /\ pc = "final_cache"
    /\ cache' = known
    /\ Leave
    /\ UNCHANGED <<upstream, listed, index, answered>>

\* What may be left of a row that is cut off, behind its name, in its value,
\* or in or behind its identifier.
Cuts(row) ==
    {Blank(row.name)} \cup {Row(row.name, "CUT", uei) :
        uei \in {None} \cup (IF row.uei = None THEN {} ELSE {Part, row.uei})}

FirstOf(rows, k) == [n \in Names |-> IF n \in 1..k THEN rows[n] ELSE Absent]

\* A file that ends behind a row, in the middle of one, or of a name.
Torn(file, shared) ==
    {FirstOf(file, k) : k \in Names}
    \cup {[FirstOf(file, v) EXCEPT ![0] = Blank(0)] : v \in shared}
    \cup UNION {{[FirstOf(file, v - 1) EXCEPT ![v] = cut] : cut \in Cuts(file[v])}
                \cup {[FirstOf(file, v - 1) EXCEPT ![0] = Blank(0)]} :
                    v \in {v \in Vendor : file[v] # Absent}}

Leftovers(rows) == UNION {Torn(file, Shared(rows)) : file \in Files(rows)}

Crash ==
    /\ "crash" \in Faults /\ pc # "idle"
    /\ listed' \in {listed} \cup
           (IF pc = "targets" /\ listed = 0 /\ "torn_targets" \in Faults THEN Vendor ELSE {})
    /\ index' \in {index} \cup
           (IF Writing THEN {NoRows} \cup (IF Sortable THEN Leftovers(results) ELSE {}) ELSE {})
    /\ cache' \in {cache} \cup (IF pc \in {"cache", "final_cache"} THEN {NoEntries} ELSE {})
    /\ Leave
    /\ UNCHANGED <<upstream, answered>>

-----------------------------------------------------------------------------
Init ==
    /\ source \in Masters /\ bulk \in Extracts
    /\ listed = 0 /\ index = NoRows /\ cache = NoEntries
    /\ pc = "idle" /\ resume = FALSE /\ useApi = FALSE /\ top = 1 /\ read = 0 /\ next = 1
    /\ results = NoRows /\ known = NoEntries
    /\ calls = 0 /\ failures = 0 /\ processed = 0 /\ stopped = FALSE /\ asked = {}
    /\ answered = {}

Run ==
    \/ LoadTargets
    \/ Settle \/ Defer \/ StopLookups \/ LookupResolves \/ LookupFails \/ CloseScan
    \/ WriteIndex \/ WriteIndexFails \/ SaveCache \/ SaveCacheAndEnd

Next ==
    \/ MasterRebuilt \/ ExtractArrives
    \/ \E again, api \in BOOLEAN, n \in Tops : Start(again, api, n)
    \/ Run
    \/ Crash

Spec == Init /\ [][Next]_vars

-----------------------------------------------------------------------------
(* Properties.                                                              *)

SamTypeOK ==
    /\ source \in Masters /\ bulk \in Extracts
    /\ listed \in 0..Vendors /\ index \in [Names -> Rows] /\ cache \in [Vendor -> Rows]
    /\ pc \in Stages /\ resume \in BOOLEAN /\ useApi \in BOOLEAN /\ top \in Vendor
    /\ read \in 0..Vendors /\ next \in 1..(Vendors + 1)
    /\ results \in [Names -> Rows] /\ known \in [Vendor -> Rows]
    /\ calls \in 0..MaxApi /\ failures \in 0..Breaker /\ processed \in 0..(BatchSize - 1)
    /\ stopped \in BOOLEAN /\ asked \subseteq Vendor /\ answered \subseteq Vendor

\* The vendors that a run has gone through when it ends, early or not.
Ended == pc = "final_cache"
Passed == {v \in 1..top : stopped => v < next}

\* A vendor whose row is the only one of its name in the index.
Alone(v) == results[v].name = v /\ v \notin Lent(results)

Settles(row) == row.uei # None \/ row.status \in Definite

\* A row says what the source or the extract says, if either says anything.
Fresh(row, v) ==
    IF source[v] # None THEN row = Row(v, "SOURCE", source[v])
    ELSE bulk[v] # None => row = Row(v, "BULK", bulk[v])

\* A run merges into the master, for every vendor it has gone through, nothing
\* less than the award source or the monthly extract says now, whatever earlier
\* runs, aliases and crashes have left in the index and the cache; and so says the
\* index, but for a vendor whose name the row of an alias bears.
ScanIsComplete ==
    Ended => \A v \in Passed :
        Fresh(results[v], v) /\ (Alone(v) => Fresh(index[v], v))

\* What an outage, an offline run or a cut row has left open is never passed
\* over by a run with lookups, that it stops later or not.
OpenIsRetried ==
    Ended /\ useApi => \A v \in Passed :
        v \in asked \/ (Settles(results[v]) /\ (Alone(v) => Settles(index[v])))

\* A vendor is put down as unknown to the registries, in the index or in the
\* cache, only if one of them has answered for it or an alias.
MissesWereAnswered ==
    \A v \in Vendor :
        "NO_MATCH" \in {index[v].status, cache[ClusterOf[v]].status} => ClusterOf[v] \in answered

Found(c) == cache[c].status \in {"SAM", "USAS"}

\* No step, a crash or a failing write included, leaves both files without an
\* identifier where a lookup has found one and a run has saved it, once the run under
\* way has gone through one of the vendors it is for.  (One that an earlier crash has
\* cut off counts, as it does in the code.)
LookupsSurvive ==
    [][\A c \in Vendor :
         Found(c) /\ (\E v \in Vendor : v < next /\ ClusterOf[v] = c) =>
            \/ cache'[c].uei # None
            \/ \E v \in Vendor : ClusterOf[v] = c /\ index'[v].uei # None]_vars
=============================================================================
