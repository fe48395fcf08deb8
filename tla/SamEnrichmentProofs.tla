------------------------ MODULE SamEnrichmentProofs ------------------------
(***************************************************************************)
(* Theorems about SamEnrichment, checked by TLAPS for every value of its     *)
(* constants.                                                               *)
(***************************************************************************)
EXTENDS SamEnrichment, TLAPS

-----------------------------------------------------------------------------
(* The strengthening.                                                       *)

Underway == pc \notin {"idle", "targets"}
Final == pc \in {"final_index", "final_cache"}

\* A run that goes on has seen fewer failures in a row than break the circuit.
CircuitInv ==
    /\ stopped \/ failures < Breaker
    /\ pc \in {"idle", "targets", "scan"} => ~stopped

\* What the cache holds is an identifier or a definite answer; only a miss has a
\* name of its own, that of an alias that was asked.
Miss(row, c) ==
    /\ row.name \in Vendor /\ ClusterOf[row.name] = c
    /\ row.status = "NO_MATCH" /\ row.uei = None
Entry(row, c) == Settles(row) /\ (row.name = 0 \/ Miss(row, c))
Paid(row) == row.status \in {"SAM", "USAS"}
CacheInv ==
    \A c \in Vendor :
        /\ cache[c] = Absent \/ Entry(cache[c], c)
        /\ known[c] = Absent \/ Entry(known[c], c)
        /\ Underway => (cache[c].uei # None => known[c].uei # None)

\* Wherever a miss is kept, a registry has answered; and the index, as it is
\* read back, has every row under its own name.
Listing(file, ans) ==
    /\ file \in [Names -> Rows]
    /\ \A v \in Vendor : /\ file[v] = Absent \/ file[v].name = v
                         /\ file[v].status = "NO_MATCH" => ClusterOf[v] \in ans
MissInv ==
    /\ Listing(index, answered)
    /\ \A v \in Vendor : results[v].status = "NO_MATCH" => ClusterOf[v] \in answered
    /\ \A c \in Vendor :
          "NO_MATCH" \in {cache[c].status, known[c].status} => c \in answered

\* A row bears another vendor's name only if it is the miss of an alias, in a
\* cluster for which no lookup has found anything.
Bought(c) == Paid(cache[c]) \/ Paid(known[c])
Borrowed(row, c) == Miss(row, c) /\ known[c] # Absent /\ ~Bought(c)
NameInv == \A v \in Vendor :
    results[v] = Absent \/ results[v].name = v \/ Borrowed(results[v], ClusterOf[v])

Done(v) == Fresh(results[v], v) /\ (useApi => Settles(results[v]) \/ v \in asked)
ScanInv == Underway => \A v \in 1..(next - 1) : v \in Vendor => Done(v)

EndInv ==
    /\ Final => stopped \/ next > read
    /\ pc \in {"cache", "final_cache"} => index \in Files(results)

\* Unless the list of targets may be cut off, a run reads as many as asked for.
ListInv ==
    "torn_targets" \notin Faults =>
        listed \in {0, Vendors} /\ (Underway => listed = Vendors /\ read = top)

\* Where a lookup has found something, a run that has gone through one of the
\* vendors it is for has an identifier for one of them.
Reached(c) == \E v \in Vendor : v < next /\ ClusterOf[v] = c
Holds(rows, c) == \E v \in Vendor : ClusterOf[v] = c /\ rows[v].uei # None
FoundInv ==
    /\ ~Underway => next = 1
    /\ \A c \in Vendor : Bought(c) /\ Reached(c) => Holds(results, c)

SamInv ==
    /\ SamTypeOK
    /\ CircuitInv /\ CacheInv /\ MissInv /\ NameInv /\ ScanInv /\ EndInv /\ ListInv /\ FoundInv

-----------------------------------------------------------------------------
(* Rows.                                                                    *)

LEMMA RowTyped ==
    ASSUME NEW name \in Names, NEW status \in Statuses, NEW uei \in Uei \cup {Part, None}
    PROVE  /\ Row(name, status, uei) \in Rows
           /\ Row(name, status, uei).name = name
           /\ Row(name, status, uei).status = status /\ Row(name, status, uei).uei = uei
BY DEF Row, Rows

LEMMA VendorsNamed ==
    /\ 0 \in Names /\ 0 \notin Vendor
    /\ \A v \in Vendor : v \in Names /\ v # 0 /\ ClusterOf[v] \in Vendor
BY SamAssumption DEF Vendor, Names

LEMMA NothingTyped ==
    /\ Absent \in Rows /\ Absent.name = 0 /\ Absent.uei = None /\ Absent.status = "NONE"
    /\ NoRows \in [Names -> Rows] /\ NoEntries \in [Vendor -> Rows]
    /\ \A v \in Vendor : v \in Names /\ NoRows[v] = Absent /\ NoEntries[v] = Absent
<1>1. Absent \in Rows /\ Absent.name = 0 /\ Absent.uei = None /\ Absent.status = "NONE"
  BY RowTyped, VendorsNamed DEF Absent, Statuses
<1>. QED
  BY <1>1, VendorsNamed DEF NoRows, NoEntries

LEMMA NoListing == ASSUME NEW ans PROVE Listing(NoRows, ans)
BY NothingTyped DEF Listing

LEMMA CutTyped ==
    ASSUME NEW row \in Rows, NEW cut \in Cuts(row)
    PROVE  cut \in Rows /\ cut.name = row.name /\ cut.status # "NO_MATCH"
<1>. row.name \in Names /\ row.uei \in Uei \cup {Part, None}
  BY DEF Rows
<1>1. CASE cut = Blank(row.name)
  BY <1>1, RowTyped DEF Blank, Statuses
<1>2. ASSUME NEW uei \in {None} \cup (IF row.uei = None THEN {} ELSE {Part, row.uei}),
             cut = Row(row.name, "CUT", uei)
      PROVE  cut \in Rows /\ cut.name = row.name /\ cut.status # "NO_MATCH"
  <2>1. uei \in Uei \cup {Part, None}
    OBVIOUS
  <2>. QED
    BY <1>2, <2>1, RowTyped DEF Statuses
<1>. QED
  BY <1>1, <1>2 DEF Cuts

\* A file that is cut off says of nobody that he is unknown whom it did not
\* say it of before.
LEMMA TornTyped ==
    ASSUME NEW ans, NEW file, Listing(file, ans), NEW shared \in SUBSET Vendor,
           NEW torn \in Torn(file, shared)
    PROVE  Listing(torn, ans)
<1>1. ASSUME NEW k \in Int
      PROVE  /\ Listing(FirstOf(file, k), ans)
             /\ Listing([FirstOf(file, k) EXCEPT ![0] = Blank(0)], ans)
  <2>1. Listing(FirstOf(file, k), ans)
    BY NothingTyped DEF FirstOf, Listing
  <2>2. Blank(0) \in Rows
    BY RowTyped, VendorsNamed DEF Blank, Statuses
  <2>. QED
    BY <2>1, <2>2, VendorsNamed DEF Listing
<1>2. ASSUME NEW k \in Names, torn = FirstOf(file, k)
      PROVE  Listing(torn, ans)
  <2>1. k \in Int
    BY SamAssumption DEF Names
  <2>. QED
    BY <1>1, <1>2, <2>1
<1>3. ASSUME NEW v \in Vendor, file[v] # Absent, NEW cut \in Cuts(file[v]),
             torn = [FirstOf(file, v - 1) EXCEPT ![v] = cut]
      PROVE  Listing(torn, ans)
  <2>1. v - 1 \in Int /\ v \in Names
    BY SamAssumption, NothingTyped DEF Vendor
  <2>2. file[v] \in Rows /\ file[v].name = v
    BY <1>3, <2>1 DEF Listing
  <2>3. cut \in Rows /\ cut.name = v /\ cut.status # "NO_MATCH"
    BY <2>2, CutTyped
  <2>. QED
    BY <1>1, <1>3, <2>1, <2>3, NothingTyped DEF Listing
<1>4. ASSUME NEW v \in Vendor, torn = [FirstOf(file, v - 1) EXCEPT ![0] = Blank(0)]
      PROVE  Listing(torn, ans)
  <2>1. v - 1 \in Int
    BY SamAssumption DEF Vendor
  <2>. QED
    BY <1>1, <1>4, <2>1
<1>5. ASSUME NEW v \in Vendor, torn = [FirstOf(file, v) EXCEPT ![0] = Blank(0)]
      PROVE  Listing(torn, ans)
  <2>1. v \in Int
    BY SamAssumption DEF Vendor
  <2>. QED
    BY <1>1, <1>5, <2>1
<1>. DEFINE Halved(v) == {[FirstOf(file, v - 1) EXCEPT ![v] = cut] : cut \in Cuts(file[v])}
                         \cup {[FirstOf(file, v - 1) EXCEPT ![0] = Blank(0)]}
<1>6. ASSUME NEW v \in Vendor, file[v] # Absent, torn \in Halved(v)
      PROVE  Listing(torn, ans)
  <2>1. CASE torn \in {[FirstOf(file, v - 1) EXCEPT ![v] = cut] : cut \in Cuts(file[v])}
    BY <1>3, <1>6, <2>1
  <2>2. CASE torn \in {[FirstOf(file, v - 1) EXCEPT ![0] = Blank(0)]}
    BY <1>4, <2>2
  <2>. QED
    BY <1>6, <2>1, <2>2
<1>7. \/ torn \in {FirstOf(file, k) : k \in Names}
      \/ torn \in UNION {Halved(v) : v \in {v \in Vendor : file[v] # Absent}}
      \/ torn \in {[FirstOf(file, v) EXCEPT ![0] = Blank(0)] : v \in shared}
  BY DEF Torn
<1>. HIDE DEF Halved
<1>8. CASE torn \in UNION {Halved(v) : v \in {v \in Vendor : file[v] # Absent}}
  BY <1>6, <1>8
<1>9. CASE torn \in {FirstOf(file, k) : k \in Names}
  BY <1>2, <1>9
<1>10. CASE torn \in {[FirstOf(file, v) EXCEPT ![0] = Blank(0)] : v \in shared}
  BY <1>5, <1>10
<1>. QED
  BY <1>7, <1>8, <1>9, <1>10

\* What a file says under a name is the row of that vendor or of an alias.
LEMMA FileRows ==
    ASSUME NEW rows \in [Names -> Rows], NEW file \in Files(rows)
    PROVE  /\ file \in [Names -> Rows]
           /\ \A n \in Vendor : \/ file[n] = Absent
                                \/ \E k \in Vendor : file[n] = rows[k] /\ rows[k].name = n
           /\ \A n \in Own(rows) \ Lent(rows) : file[n] = rows[n]
<1>1. PICK late \in SUBSET Lent(rows) : file = File(rows, late)
  BY DEF Files
<1>2. ASSUME NEW n \in late
      PROVE  /\ n \in Vendor
             /\ \E k \in Vendor : File(rows, late)[n] = rows[k] /\ rows[k].name = n
  <2>1. n \in Vendor /\ \E k \in Vendor \ {n} : rows[k].name = n
    BY DEF Lent
  <2>. DEFINE k == CHOOSE k \in Vendor \ {n} : rows[k].name = n
  <2>2. k \in Vendor /\ rows[k].name = n
    BY <2>1
  <2>3. File(rows, late)[n] = rows[k]
    BY <2>1, VendorsNamed DEF File
  <2>. QED
    BY <2>1, <2>2, <2>3
<1>3. ASSUME NEW n \in Names, n \notin late
      PROVE  File(rows, late)[n] = IF n \in Own(rows) THEN rows[n] ELSE Absent
  BY <1>3 DEF File
<1>4. \A n \in Own(rows) : n \in Vendor /\ rows[n].name = n
  BY DEF Own
<1>5. \A n \in Names : File(rows, late)[n] \in Rows
  BY <1>2, <1>3, NothingTyped
<1>6. File(rows, late) \in [Names -> Rows]
  <2>1. DOMAIN File(rows, late) = Names /\ File(rows, late) = [n \in Names |-> File(rows, late)[n]]
    BY DEF File
  <2>. QED
    BY <1>5, <2>1
<1>. QED
  BY <1>1, <1>2, <1>3, <1>4, <1>6, VendorsNamed

LEMMA Renamed ==
    ASSUME NEW row \in Rows, NEW name \in Names
    PROVE  /\ [row EXCEPT !.name = name] \in Rows /\ [row EXCEPT !.name = name].name = name
           /\ [row EXCEPT !.name = name].status = row.status
           /\ [row EXCEPT !.name = name].uei = row.uei
BY DEF Rows

\* What a lookup has found is an identifier, and stays with the run.
LEMMA PaidHas ==
    ASSUME SamInv, NEW c \in Vendor, Bought(c), Underway
    PROVE  known[c].uei # None
<1>1. ASSUME NEW row, row = Absent \/ Settles(row), Paid(row)
      PROVE  row.uei # None
  BY <1>1, NothingTyped DEF Settles, Definite, Paid
<1>. QED
  BY <1>1 DEF SamInv, CacheInv, Entry, Bought

LEMMA Remainder ==
    ASSUME NEW n \in Nat
    PROVE  n % BatchSize \in 0..(BatchSize - 1)
BY SamAssumption

-----------------------------------------------------------------------------
(* One vendor: what each way to settle one owes to the invariant.            *)

LEMMA OneVendor ==
    ASSUME SamInv, Scanning, NEW row \in Rows, Record(row), NEW entry \in Rows,
           \/ known' = known
           \/ /\ Remember(entry) /\ Entry(entry, ClusterOf[next])
              /\ entry.status = "NO_MATCH" => ClusterOf[next] \in answered'
              /\ known[ClusterOf[next]].uei # None => entry.uei # None
              /\ Paid(entry) => known[ClusterOf[next]] = Absent /\ row.uei # None,
           Proceed, UNCHANGED <<upstream, disk, arguments, read>>,
           calls' \in 0..MaxApi, failures' \in 0..Breaker, stopped' \in BOOLEAN,
           asked \subseteq asked', asked' \subseteq Vendor,
           answered \subseteq answered', answered' \subseteq Vendor,
           pc' \in {"scan", "index", "final_index"},
           pc' = "final_index" => stopped', pc' = "scan" => ~stopped',
           stopped' \/ failures' < Breaker,
           row.status = "NO_MATCH" => ClusterOf[next] \in answered',
           \/ row.name = next
           \/ known' = known /\ row = known[ClusterOf[next]] /\ row.name # 0,
           Bought(ClusterOf[next]) => row.uei # None,
           Fresh(row, next), useApi => Settles(row) \/ next \in asked'
    PROVE  SamInv'
<1>. DEFINE c == ClusterOf[next]
<1>1. next \in Vendor /\ next \in Names /\ next' \in 1..(Vendors + 1) /\ c \in Vendor
  <2>1. next \in 1..(Vendors + 1) /\ read \in 0..Vendors /\ next <= read /\ next' = next + 1
    BY DEF SamInv, SamTypeOK, Scanning, Proceed
  <2>2. Vendors \in Nat
    BY SamAssumption
  <2>3. next \in Vendor /\ next' \in 1..(Vendors + 1)
    BY <2>1, <2>2 DEF Vendor
  <2>. QED
    BY <2>3, VendorsNamed
<1>2. /\ results' \in [Names -> Rows] /\ results'[next] = row
      /\ \A n \in Names \ {next} : results'[n] = results[n]
  BY <1>1 DEF SamInv, SamTypeOK, Record
<1>3. /\ known' \in [Vendor -> Rows]
      /\ \A d \in Vendor :
            \/ known'[d] = known[d]
            \/ /\ d = c /\ known'[d] = entry /\ Entry(entry, c)
               /\ entry.status = "NO_MATCH" => c \in answered'
               /\ known[c].uei # None => entry.uei # None
               /\ Paid(entry) => known[c] = Absent /\ row.uei # None
  BY <1>1 DEF SamInv, SamTypeOK, Remember
<1>4. processed' \in 0..(BatchSize - 1)
  <2>1. processed + 1 \in Nat
    BY SamAssumption DEF SamInv, SamTypeOK
  <2>. QED
    BY <2>1, Remainder DEF Proceed
<1>5. SamTypeOK'
  BY <1>1, <1>2, <1>3, <1>4 DEF SamInv, SamTypeOK, upstream, disk, arguments, Stages
<1>6. CircuitInv' /\ EndInv'
  BY DEF CircuitInv, EndInv, Final
<1>7. CacheInv'
  <2>1. cache' = cache /\ Underway
    BY DEF disk, Scanning, Underway
  <2>. SUFFICES ASSUME NEW d \in Vendor
                PROVE  /\ cache[d] = Absent \/ Entry(cache[d], d)
                       /\ known'[d] = Absent \/ Entry(known'[d], d)
                       /\ cache[d].uei # None => known'[d].uei # None
    BY <2>1 DEF CacheInv, Entry, Settles, Miss
  <2>. QED
    BY <1>3, <2>1 DEF SamInv, CacheInv
<1>8. MissInv'
  <2>1. Listing(index', answered')
    BY DEF SamInv, MissInv, Listing, disk
  <2>2. ASSUME NEW v \in Vendor, results'[v].status = "NO_MATCH"
        PROVE  ClusterOf[v] \in answered'
    BY <1>2, <2>2, NothingTyped DEF SamInv, MissInv
  <2>3. ASSUME NEW d \in Vendor, "NO_MATCH" \in {cache'[d].status, known'[d].status}
        PROVE  d \in answered'
    BY <1>3, <2>3 DEF SamInv, MissInv, disk
  <2>. QED
    BY <2>1, <2>2, <2>3 DEF MissInv, Listing
<1>9. ScanInv'
  <2>. SUFFICES ASSUME NEW v \in 1..(next' - 1), v \in Vendor
                PROVE  Done(v)'
    BY DEF ScanInv
  <2>1. Underway /\ next' = next + 1
    BY DEF Scanning, Underway, Proceed
  <2>2. CASE v = next
    BY <1>2, <2>2 DEF Done, Settles, Fresh, upstream, arguments
  <2>3. CASE v # next
    <3>1. v \in 1..(next - 1)
      BY <1>1, <2>1, <2>3 DEF Vendor
    <3>2. Done(v)
      BY <2>1, <3>1 DEF SamInv, ScanInv
    <3>3. results'[v] = results[v]
      BY <1>2, <2>3, NothingTyped
    <3>. QED
      BY <3>2, <3>3 DEF Done, Settles, Fresh, upstream, arguments
  <2>. QED
    BY <2>2, <2>3
<1>10. ListInv'
  BY DEF SamInv, ListInv, Underway, Scanning, disk, arguments
<1>11. NameInv'
  <2>1. cache' = cache
    BY DEF disk
  <2>. SUFFICES ASSUME NEW v \in Vendor
                PROVE  \/ results'[v] = Absent \/ results'[v].name = v
                       \/ /\ Miss(results'[v], ClusterOf[v])
                          /\ known'[ClusterOf[v]] # Absent
                          /\ ~Paid(cache[ClusterOf[v]]) /\ ~Paid(known'[ClusterOf[v]])
    BY <2>1 DEF NameInv, Borrowed, Bought, Miss
  <2>2. CASE v = next /\ row.name # next
    <3>1. known' = known /\ row = known[c] /\ row.name # 0 /\ known[c] # Absent
      BY <2>2, NothingTyped
    <3>2. Miss(row, c)
      BY <1>1, <3>1 DEF SamInv, CacheInv, Entry
    <3>3. ~Bought(c)
      BY <3>2 DEF Miss
    <3>. QED
      BY <1>2, <2>2, <3>1, <3>2, <3>3 DEF Bought
  <2>3. CASE v # next /\ Borrowed(results[v], ClusterOf[v])
    <3>1. results'[v] = results[v] /\ ClusterOf[v] \in Vendor
      BY <1>2, <2>3, VendorsNamed
    <3>2. ASSUME known'[c] = entry, Entry(entry, c)
          PROVE  entry # Absent
      BY <3>2, NothingTyped DEF Entry, Settles, Definite
    <3>. QED
      BY <1>3, <2>3, <3>1, <3>2 DEF Borrowed, Bought
  <2>. QED
    BY <1>2, <2>2, <2>3, NothingTyped DEF SamInv, NameInv
<1>12. FoundInv'
  <2>1. cache' = cache /\ next' = next + 1 /\ Underway'
    BY DEF disk, Underway, Proceed
  <2>. SUFFICES ASSUME NEW d \in Vendor, Paid(cache[d]) \/ Paid(known'[d]),
                       NEW v \in Vendor, v < next', ClusterOf[v] = d
                PROVE  \E w \in Vendor : ClusterOf[w] = d /\ results'[w].uei # None
    BY <2>1 DEF FoundInv, Bought, Reached, Holds
  <2>2. CASE d = c
    BY <1>1, <1>2, <1>3, <2>2 DEF Bought
  <2>3. CASE d # c
    <3>1. Bought(d)
      BY <1>3, <2>3 DEF Bought
    <3>2. v < next
      BY <1>1, <2>1, <2>3, SamAssumption DEF Vendor
    <3>3. PICK w \in Vendor : ClusterOf[w] = d /\ results[w].uei # None
      BY <3>1, <3>2 DEF SamInv, FoundInv, Reached, Holds
    <3>4. w # next
      BY <2>3, <3>3
    <3>. QED
      BY <1>2, <3>3, <3>4, VendorsNamed
  <2>. QED
    BY <2>2, <2>3
<1>. QED
  BY <1>5, <1>6, <1>7, <1>8, <1>9, <1>10, <1>11, <1>12 DEF SamInv

-----------------------------------------------------------------------------
(* One lemma for each way to settle a vendor.                                *)

LEMMA NextTyped ==
    ASSUME SamInv, Scanning
    PROVE  /\ next \in Vendor /\ next \in Names /\ ClusterOf[next] \in Vendor
           /\ results[next] \in Rows /\ known[ClusterOf[next]] \in Rows
           /\ source[next] \in Uei \cup {None} /\ bulk[next] \in Uei \cup {None}
           /\ failures < Breaker /\ ~stopped
<1>1. next \in Vendor /\ next \in Names /\ ClusterOf[next] \in Vendor
  BY SamAssumption, NothingTyped DEF SamInv, SamTypeOK, Scanning, Vendor
<1>2. source \in [Vendor -> Maybe(Uei)] /\ bulk \in [Vendor -> Maybe(Uei)]
  BY SamAssumption DEF SamInv, SamTypeOK
<1>3. failures < Breaker /\ ~stopped
  BY DEF SamInv, CircuitInv, Scanning
<1>. QED
  BY <1>1, <1>2, <1>3 DEF SamInv, SamTypeOK, Maybe

\* What the award source, the extract, an earlier row, the cache and the list
\* of municipalities have in common.
LEMMA SettledRow ==
    ASSUME SamInv, Scanning, Layer(next) # "open"
    PROVE  /\ Settled(next) \in Rows /\ Settles(Settled(next)) /\ Fresh(Settled(next), next)
           /\ Settled(next).status = "NO_MATCH" => ClusterOf[next] \in answered
           /\ Bought(ClusterOf[next]) => Settled(next).uei # None
           /\ \/ Settled(next).name = next
              \/ /\ Layer(next) = "cache" /\ Settled(next) = known[ClusterOf[next]]
                 /\ Settled(next).name # 0
           /\ Layer(next) \in {"source", "bulk", "local"} =>
                  /\ Settled(next).status \in {"SOURCE", "BULK", "LOCAL"}
                  /\ known[ClusterOf[next]].uei # None => Settled(next).uei # None
<1>. DEFINE row == Settled(next)
            c == ClusterOf[next]
<1>a. Underway
  BY DEF Scanning, Underway
<1>b. next \in Names /\ next # 0 /\ c \in Vendor
  BY NextTyped, VendorsNamed
<1>c. Bought(c) => known[c].uei # None
  BY <1>a, <1>b, PaidHas
<1>1. CASE HasSource(next)
  <2>1. source[next] # None /\ row = Row(next, "SOURCE", source[next])
    BY <1>1 DEF Layer, HasSource, Settled
  <2>. QED
    BY <1>b, <2>1, NextTyped, RowTyped DEF Statuses, Settles, Fresh
<1>2. CASE ~HasSource(next) /\ HasBulk(next)
  <2>1. source[next] = None /\ bulk[next] # None /\ row = Row(next, "BULK", bulk[next])
    BY <1>2 DEF Layer, HasSource, HasBulk, Settled
  <2>. QED
    BY <1>b, <2>1, NextTyped, RowTyped DEF Statuses, Settles, Fresh
<1>3. CASE ~HasSource(next) /\ ~HasBulk(next) /\ Kept(next)
  <2>1. source[next] = None /\ bulk[next] = None /\ row = results[next] /\ Layer(next) = "kept"
    BY <1>3 DEF Layer, HasSource, HasBulk, Settled
  <2>2. row.status = "NO_MATCH" => ClusterOf[next] \in answered
    BY <2>1, NextTyped DEF SamInv, MissInv
  <2>3. row.name = next
    BY <1>3, <2>1, NextTyped, NothingTyped DEF SamInv, NameInv, Borrowed, Miss, Kept
  <2>. QED
    BY <1>3, <2>1, <2>2, <2>3, NextTyped DEF Kept, Settles, Fresh
<1>4. CASE ~HasSource(next) /\ ~HasBulk(next) /\ ~Kept(next) /\ Cached(next)
  <2>. DEFINE hit == known[c]
  <2>1. /\ source[next] = None /\ bulk[next] = None /\ Layer(next) = "cache"
        /\ row = IF hit.name = 0 THEN [hit EXCEPT !.name = next] ELSE hit
    BY <1>4 DEF Layer, HasSource, HasBulk, Settled
  <2>2. /\ row \in Rows /\ row.status = hit.status /\ row.uei = hit.uei
        /\ row.name = next \/ (row = hit /\ row.name # 0)
    BY <1>b, <2>1, NextTyped, Renamed
  <2>3. row.status = "NO_MATCH" => ClusterOf[next] \in answered
    BY <2>2, NextTyped DEF SamInv, MissInv
  <2>4. Settles(row)
    BY <1>4, <2>2, NextTyped DEF SamInv, CacheInv, Cached, Entry, Settles
  <2>. QED
    BY <1>c, <2>1, <2>2, <2>3, <2>4 DEF Fresh
<1>5. CASE ~HasSource(next) /\ ~HasBulk(next) /\ ~Kept(next) /\ ~Cached(next)
  <2>1. source[next] = None /\ bulk[next] = None /\ row = Row(next, "LOCAL", None)
    BY <1>5 DEF Layer, HasSource, HasBulk, Settled
  <2>2. known[c].uei = None
    BY <1>5, NothingTyped DEF Cached
  <2>. QED
    BY <1>b, <1>c, <2>1, <2>2, RowTyped DEF Statuses, Definite, Settles, Fresh
<1>. QED
  BY <1>1, <1>2, <1>3, <1>4, <1>5

LEMMA SettleKeeps == SamInv /\ Settle => SamInv'
<1>. SUFFICES ASSUME SamInv, Settle
              PROVE  SamInv'
  OBVIOUS
<1>. DEFINE entry == [Settled(next) EXCEPT !.name = 0]
<1>1. Scanning /\ Layer(next) # "open" /\ Record(Settled(next)) /\ Proceed
  BY DEF Settle
<1>2. IF Layer(next) \in {"source", "bulk", "local"} THEN Remember(entry) ELSE known' = known
  BY DEF Settle
<1>3. /\ UNCHANGED <<upstream, disk, pc, arguments, read, calls, failures, stopped, asked, answered>>
      /\ pc = "scan"
  BY DEF Settle, Scanning
<1>4. /\ calls \in 0..MaxApi /\ failures \in 0..Breaker /\ failures < Breaker
      /\ ~stopped /\ stopped \in BOOLEAN /\ asked \subseteq Vendor /\ answered \subseteq Vendor
  BY <1>1, NextTyped DEF SamInv, SamTypeOK
<1>5. /\ entry \in Rows /\ entry.name = 0
      /\ entry.status = Settled(next).status /\ entry.uei = Settled(next).uei
  BY <1>1, SettledRow, Renamed, VendorsNamed
<1>6. Entry(entry, ClusterOf[next])
  BY <1>1, <1>5, SettledRow DEF Entry, Settles
<1>7. Layer(next) \in {"source", "bulk", "local"} =>
          /\ entry.status # "NO_MATCH" /\ ~Paid(entry)
          /\ known[ClusterOf[next]].uei # None => entry.uei # None
  BY <1>1, <1>5, SettledRow DEF Paid
<1>8. Layer(next) = "cache" => known' = known
  BY <1>2
<1>. HIDE DEF entry
<1>. QED
  BY <1>1, <1>2, <1>3, <1>4, <1>5, <1>6, <1>7, <1>8, SettledRow, OneVendor

\* A vendor that no layer settles has nothing to lose.
LEMMA OpenRow ==
    ASSUME SamInv, Scanning, Layer(next) = "open", NEW row
    PROVE  Fresh(row, next) /\ known[ClusterOf[next]] = Absent /\ ~Bought(ClusterOf[next])
<1>1. Fresh(row, next) /\ known[ClusterOf[next]] = Absent
  BY DEF Layer, HasSource, HasBulk, Cached, Fresh
<1>2. ClusterOf[next] \in Vendor /\ Underway
  BY NextTyped DEF Scanning, Underway
<1>. QED
  BY <1>1, <1>2, PaidHas, NothingTyped

LEMMA DeferKeeps == SamInv /\ Defer => SamInv'
<1>. SUFFICES ASSUME SamInv, Defer
              PROVE  SamInv'
  OBVIOUS
<1>. DEFINE row == Row(next, "DEFERRED", None)
<1>1. Scanning /\ Layer(next) = "open" /\ ~useApi /\ Record(row) /\ Proceed
  BY DEF Defer
<1>2. /\ UNCHANGED <<upstream, disk, pc, arguments, read, known, calls, failures, stopped, asked,
                     answered>>
      /\ pc = "scan"
  BY DEF Defer, Scanning
<1>3. /\ calls \in 0..MaxApi /\ failures \in 0..Breaker /\ failures < Breaker
      /\ ~stopped /\ stopped \in BOOLEAN /\ asked \subseteq Vendor /\ answered \subseteq Vendor
  BY <1>1, NextTyped DEF SamInv, SamTypeOK
<1>4. row \in Rows /\ row.status # "NO_MATCH" /\ row.name = next
  BY <1>1, NextTyped, RowTyped DEF Statuses
<1>. HIDE DEF row
<1>. QED
  BY <1>1, <1>2, <1>3, <1>4, OpenRow, OneVendor

LEMMA AsksTyped ==
    ASSUME SamInv, Asks
    PROVE  /\ Scanning /\ Layer(next) = "open" /\ Proceed
           /\ calls' \in 0..MaxApi
           /\ asked \subseteq asked' /\ asked' \subseteq Vendor /\ next \in asked'
           /\ UNCHANGED <<upstream, disk, arguments, read>>
<1>1. /\ Scanning /\ Layer(next) = "open" /\ Proceed /\ ~BudgetSpent
      /\ calls' = calls + 1 /\ asked' = asked \cup {next}
      /\ UNCHANGED <<upstream, disk, arguments, read>>
  BY DEF Asks
<1>2. calls' \in 0..MaxApi
  BY <1>1, SamAssumption DEF SamInv, SamTypeOK, BudgetSpent
<1>. QED
  BY <1>1, <1>2, NextTyped DEF SamInv, SamTypeOK

LEMMA AfterLookupPc ==
    ASSUME AfterLookup, failures' \in 0..Breaker, stopped' \/ failures' < Breaker
    PROVE  /\ pc' \in {"scan", "index", "final_index"}
           /\ pc' = "final_index" => stopped'
           /\ pc' = "scan" => ~stopped'
BY DEF AfterLookup

LEMMA ResolvesKeeps == SamInv /\ LookupResolves => SamInv'
<1>. SUFFICES ASSUME SamInv, LookupResolves
              PROVE  SamInv'
  OBVIOUS
<1>1. PICK status \in {"SAM", "USAS"}, uei \in Uei :
          Record(Row(next, status, uei)) /\ Remember(Row(0, status, uei))
  BY DEF LookupResolves
<1>. DEFINE row == Row(next, status, uei)
            entry == Row(0, status, uei)
<1>2. Asks /\ failures' = 0 /\ stopped' = stopped /\ AfterLookup
      /\ answered' = answered \cup {ClusterOf[next]}
  BY DEF LookupResolves
<1>a. Scanning /\ Layer(next) = "open" /\ next \in Names
  BY <1>2, AsksTyped, NextTyped
<1>b. status \in Statuses /\ status # "NO_MATCH" /\ uei # None
  BY SamAssumption DEF Statuses
<1>3. row \in Rows /\ row.name = next /\ row.uei # None /\ row.status # "NO_MATCH" /\ Settles(row)
  BY <1>a, <1>b, RowTyped DEF Settles
<1>c. /\ entry \in Rows /\ entry.name = 0 /\ entry.uei # None /\ entry.status # "NO_MATCH"
      /\ Entry(entry, ClusterOf[next])
  BY <1>b, RowTyped, VendorsNamed DEF Settles, Entry
<1>4. failures' \in 0..Breaker /\ failures' < Breaker /\ stopped' \in BOOLEAN
  BY <1>2, SamAssumption DEF SamInv, SamTypeOK
<1>5. answered \subseteq answered' /\ answered' \subseteq Vendor
  BY <1>2, AsksTyped, NextTyped DEF SamInv, SamTypeOK
<1>6. Record(row) /\ Remember(entry) /\ ~Bought(ClusterOf[next])
      /\ known[ClusterOf[next]] = Absent /\ Fresh(row, next)
  BY <1>1, <1>a, OpenRow
<1>. HIDE DEF row, entry
<1>. QED
  BY <1>2, <1>3, <1>c, <1>4, <1>5, <1>6, <1>a, AsksTyped, AfterLookupPc, NothingTyped, OneVendor

LEMMA FailsKeeps == SamInv /\ LookupFails => SamInv'
<1>. SUFFICES ASSUME SamInv, LookupFails
              PROVE  SamInv'
  OBVIOUS
<1>1. PICK sam, usaspending \in {"none"} \cup (IF "transport" \in Faults THEN {"error"} ELSE {}) :
        /\ IF Transient(sam, usaspending)
           THEN /\ Record(Row(next, "ERROR", None))
                /\ failures' = failures + 1
                /\ stopped' = (failures' >= Breaker)
                /\ UNCHANGED known
           ELSE /\ Record(Row(next, "NO_MATCH", None))
                /\ Remember(Row(next, "NO_MATCH", None))
                /\ failures' = 0 /\ stopped' = stopped
        /\ answered' = IF "none" \in {sam, usaspending}
                       THEN answered \cup {ClusterOf[next]} ELSE answered
  BY DEF LookupFails
<1>2. Asks /\ AfterLookup
  BY DEF LookupFails
<1>a. Scanning /\ Layer(next) = "open" /\ next \in Names /\ next \in Vendor
  BY <1>2, AsksTyped, NextTyped
<1>3. answered \subseteq answered' /\ answered' \subseteq Vendor
  BY <1>1, <1>2, AsksTyped, NextTyped DEF SamInv, SamTypeOK
<1>4. CASE Transient(sam, usaspending)
  <2>. DEFINE row == Row(next, "ERROR", None)
  <2>1. row \in Rows /\ row.name = next /\ row.status # "NO_MATCH"
    BY <1>a, RowTyped DEF Statuses
  <2>a. Record(row) /\ known' = known
    BY <1>1, <1>4
  <2>2. failures' \in 0..Breaker /\ stopped' \in BOOLEAN /\ (stopped' \/ failures' < Breaker)
    <3>1. failures' = failures + 1 /\ stopped' = (failures' >= Breaker)
      BY <1>1, <1>4
    <3>2. failures \in 0..Breaker /\ failures < Breaker
      BY <1>2, AsksTyped, NextTyped DEF SamInv, SamTypeOK
    <3>3. failures' \in 0..Breaker
      BY <3>1, <3>2, SamAssumption
    <3>4. stopped' \in BOOLEAN
      BY <3>1
    <3>5. CASE failures' >= Breaker
      BY <3>1, <3>3, <3>4, <3>5
    <3>6. CASE ~(failures' >= Breaker)
      BY <3>3, <3>4, <3>6, SamAssumption
    <3>. QED
      BY <3>5, <3>6
  <2>. HIDE DEF row
  <2>. QED
    BY <1>2, <1>3, <1>a, <2>1, <2>a, <2>2, AsksTyped, AfterLookupPc, OpenRow, OneVendor
<1>5. CASE ~Transient(sam, usaspending)
  <2>. DEFINE row == Row(next, "NO_MATCH", None)
  <2>1. /\ row \in Rows /\ row.name = next /\ Settles(row) /\ ~Paid(row)
        /\ Entry(row, ClusterOf[next])
    BY <1>a, RowTyped DEF Statuses, Settles, Definite, Paid, Entry, Miss
  <2>a. Record(row) /\ Remember(row)
    BY <1>1, <1>5
  <2>2. failures' \in 0..Breaker /\ failures' < Breaker /\ stopped' \in BOOLEAN
    BY <1>1, <1>5, SamAssumption DEF SamInv, SamTypeOK
  <2>3. ClusterOf[next] \in answered'
    BY <1>1, <1>5 DEF Transient
  <2>b. known[ClusterOf[next]].uei = None
    BY <1>a, OpenRow, NothingTyped
  <2>. HIDE DEF row
  <2>. QED
    BY <1>2, <1>3, <1>a, <2>1, <2>a, <2>b, <2>2, <2>3, AsksTyped, AfterLookupPc, OpenRow, OneVendor
<1>. QED
  BY <1>4, <1>5

-----------------------------------------------------------------------------
(* The other actions.                                                       *)

\* The counters of a run that has not begun.
LEMMA AtRest ==
    /\ 0 \in 0..Vendors /\ 1 \in Vendor /\ 1 \in 1..(Vendors + 1)
    /\ 0 \in 0..MaxApi /\ 0 \in 0..Breaker /\ 0 \in 0..(BatchSize - 1)
BY SamAssumption DEF Vendor

LEMMA InitInv == Init => SamInv
<1>. SUFFICES ASSUME Init
              PROVE  SamInv
  OBVIOUS
<1>1. pc = "idle" /\ results = NoRows /\ index = NoRows /\ cache = NoEntries /\ known = NoEntries
      /\ resume = FALSE /\ failures = 0 /\ stopped = FALSE /\ listed = 0 /\ next = 1
  BY DEF Init
<1>2. SamTypeOK
  <2>1. index \in [Names -> Rows] /\ cache \in [Vendor -> Rows]
        /\ results \in [Names -> Rows] /\ known \in [Vendor -> Rows]
    BY <1>1, NothingTyped
  <2>. QED
    BY <2>1, AtRest DEF Init, SamTypeOK, Stages
<1>3. CircuitInv /\ EndInv /\ ScanInv /\ ListInv
  BY <1>1, SamAssumption DEF CircuitInv, EndInv, ScanInv, ListInv, Underway, Final
<1>4. CacheInv /\ NameInv
  BY <1>1, NothingTyped DEF CacheInv, NameInv, Underway
<1>5. MissInv
  BY <1>1, NothingTyped, NoListing DEF MissInv
<1>6. FoundInv
  BY <1>1, SamAssumption DEF FoundInv, Reached, Vendor
<1>. QED
  BY <1>2, <1>3, <1>4, <1>5, <1>6 DEF SamInv

\* What a step that touches neither rows nor entries keeps.
LEMMA Untouched ==
    ASSUME SamInv, UNCHANGED <<cache, index, results, known, next, answered>>,
           Underway' = Underway
    PROVE  CacheInv' /\ MissInv' /\ NameInv' /\ FoundInv'
<1>1. CacheInv'
  BY DEF SamInv, CacheInv, Entry, Settles, Miss
<1>2. MissInv'
  BY DEF SamInv, MissInv, Listing
<1>3. NameInv' /\ FoundInv'
  BY DEF SamInv, NameInv, Borrowed, Miss, Bought, FoundInv, Reached, Holds
<1>. QED
  BY <1>1, <1>2, <1>3

LEMMA UpstreamKeeps == SamInv /\ (MasterRebuilt \/ ExtractArrives) => SamInv'
<1>. SUFFICES ASSUME SamInv, MasterRebuilt \/ ExtractArrives
              PROVE  SamInv'
  OBVIOUS
<1>1. /\ pc = "idle" /\ listed' \in {0, listed} /\ source' \in Masters /\ bulk' \in Extracts
      /\ UNCHANGED <<index, cache, pc, arguments, read, next, results, known, counters, answered>>
  BY DEF MasterRebuilt, ExtractArrives, SamInv, SamTypeOK, disk
<1>2. SamTypeOK'
  BY <1>1, SamAssumption DEF SamInv, SamTypeOK, arguments, counters
<1>3. CircuitInv' /\ EndInv' /\ ScanInv' /\ ListInv'
  BY <1>1 DEF SamInv, CircuitInv, EndInv, ScanInv, ListInv, Underway, Final, arguments, counters
<1>4. Underway' = Underway
  BY <1>1 DEF Underway
<1>. QED
  BY <1>1, <1>2, <1>3, <1>4, Untouched DEF SamInv

LEMMA StartKeeps ==
    ASSUME SamInv, NEW again \in BOOLEAN, NEW api \in BOOLEAN, NEW n \in Tops, Start(again, api, n)
    PROVE  SamInv'
<1>1. SamTypeOK'
  BY SamAssumption DEF Start, SamInv, SamTypeOK, upstream, disk, counters, Stages
<1>2. CircuitInv' /\ EndInv' /\ ScanInv' /\ ListInv'
  BY DEF Start, SamInv, CircuitInv, EndInv, ScanInv, ListInv, Underway, Final,
         upstream, disk, counters
<1>3. UNCHANGED <<cache, index, results, known, next, answered>> /\ Underway' = Underway
  BY DEF Start, disk, Underway
<1>. QED
  BY <1>1, <1>2, <1>3, Untouched DEF SamInv

LEMMA LoadKeeps == SamInv /\ LoadTargets => SamInv'
<1>. SUFFICES ASSUME SamInv, LoadTargets
              PROVE  SamInv'
  OBVIOUS
<1>1. /\ pc = "targets" /\ pc' = "scan" /\ next' = 1 /\ known' = cache
      /\ listed' = (IF listed # 0 THEN listed ELSE Vendors) /\ read' = Least(top, listed')
      /\ results' = (IF resume THEN index ELSE NoRows)
      /\ UNCHANGED <<upstream, index, cache, arguments, counters, answered>>
  BY DEF LoadTargets
<1>2. listed' \in 0..Vendors /\ read' \in 0..Vendors /\ top \in Vendor
  BY <1>1, SamAssumption DEF SamInv, SamTypeOK, Least, Vendor
<1>3. results' \in [Names -> Rows]
  BY <1>1, NothingTyped DEF SamInv, SamTypeOK
<1>4. SamTypeOK'
  BY <1>1, <1>2, <1>3, SamAssumption
     DEF SamInv, SamTypeOK, upstream, arguments, counters, Stages
<1>5. CircuitInv' /\ EndInv' /\ ScanInv'
  BY <1>1 DEF SamInv, CircuitInv, EndInv, ScanInv, Final, counters
<1>6. ListInv'
  BY <1>1, <1>2, SamAssumption DEF SamInv, ListInv, Least, Vendor, arguments
<1>7. NameInv'
  BY <1>1, NothingTyped DEF SamInv, MissInv, Listing, NameInv
<1>8. CacheInv'
  BY <1>1 DEF SamInv, CacheInv, Entry, Settles, Miss
<1>9. MissInv'
  <2>1. \A v \in Vendor : results'[v].status = "NO_MATCH" => index[v].status = "NO_MATCH"
    BY <1>1, NothingTyped
  <2>. QED
    BY <1>1, <2>1 DEF SamInv, MissInv, Listing
<1>10. FoundInv'
  <2>1. Underway'
    BY <1>1 DEF Underway
  <2>. QED
    BY <1>1, <2>1, SamAssumption DEF FoundInv, Reached, Vendor
<1>. QED
  BY <1>4, <1>5, <1>6, <1>7, <1>8, <1>9, <1>10 DEF SamInv

\* A scan that stops for its budget, or that ends.
LEMMA CloseKeeps == SamInv /\ (StopLookups \/ CloseScan) => SamInv'
<1>. SUFFICES ASSUME SamInv, StopLookups \/ CloseScan
              PROVE  SamInv'
  OBVIOUS
<1>1. /\ pc = "scan" /\ pc' \in {"index", "final_index"} /\ stopped' \in BOOLEAN /\ (stopped' \/ stopped' = stopped)
      /\ pc' = "final_index" => stopped' \/ next > read
      /\ UNCHANGED <<upstream, disk, arguments, read, next, results, known, calls, failures,
                     processed, asked, answered>>
  BY DEF StopLookups, CloseScan, Scanning, SamInv, SamTypeOK, counters
<1>2. SamTypeOK'
  BY <1>1 DEF SamInv, SamTypeOK, upstream, disk, arguments, Stages
<1>3. CircuitInv' /\ EndInv' /\ ListInv'
  BY <1>1 DEF SamInv, CircuitInv, EndInv, ListInv, Underway, Final, disk, arguments
<1>4. ScanInv'
  BY <1>1 DEF SamInv, ScanInv, Done, Fresh, Settles, Underway, upstream, arguments
<1>5. UNCHANGED <<cache, index, results, known, next, answered>> /\ Underway' = Underway
  BY <1>1 DEF disk, Underway
<1>. QED
  BY <1>2, <1>3, <1>4, <1>5, Untouched DEF SamInv

\* What is written under a name goes back to what is known of its cluster.
LEMMA FileListing ==
    ASSUME SamInv, NEW file \in Files(results)
    PROVE  Listing(file, answered)
<1>1. results \in [Names -> Rows]
  BY DEF SamInv, SamTypeOK
<1>2. file \in [Names -> Rows]
  BY <1>1, FileRows
<1>3. ASSUME NEW n \in Vendor, NEW k \in Vendor, file[n] = results[k], results[k].name = n
      PROVE  file[n].name = n /\ (file[n].status = "NO_MATCH" => ClusterOf[n] \in answered)
  <2>1. n # 0
    BY VendorsNamed
  <2>2. ClusterOf[n] = ClusterOf[k]
    BY <1>3, <2>1, NothingTyped DEF SamInv, NameInv, Borrowed, Miss
  <2>. QED
    BY <1>3, <2>2 DEF SamInv, MissInv
<1>4. \A n \in Vendor : \/ file[n] = Absent
                        \/ \E k \in Vendor : file[n] = results[k] /\ results[k].name = n
  BY <1>1, FileRows
<1>. QED
  BY <1>2, <1>3, <1>4, NothingTyped DEF Listing

LEMMA WriteKeeps == SamInv /\ WriteIndex => SamInv'
<1>. SUFFICES ASSUME SamInv, WriteIndex
              PROVE  SamInv'
  OBVIOUS
<1>1. /\ pc \in {"index", "final_index"} /\ index' \in Files(results)
      /\ pc' = (IF pc = "index" THEN "cache" ELSE "final_cache")
      /\ UNCHANGED <<upstream, listed, cache, arguments, read, next, results, known, counters,
                     answered>>
  BY DEF WriteIndex, Writing
<1>2. Listing(index', answered)
  BY <1>1, FileListing
<1>3. SamTypeOK'
  BY <1>1, <1>2 DEF SamInv, SamTypeOK, Listing, upstream, arguments, counters, Stages
<1>4. Files(results)' = Files(results)
  BY <1>1 DEF Files, File, Own, Lent
<1>5. CircuitInv' /\ EndInv' /\ ListInv'
  BY <1>1, <1>4 DEF SamInv, CircuitInv, EndInv, ListInv, Underway, Final, arguments, counters
<1>6. ScanInv'
  BY <1>1 DEF SamInv, ScanInv, Done, Fresh, Settles, Underway, upstream, arguments, counters
<1>7. Underway /\ Underway'
  BY <1>1 DEF Underway
<1>8. CacheInv'
  BY <1>1, <1>7 DEF SamInv, CacheInv, Entry, Settles, Miss
<1>9. MissInv'
  BY <1>1, <1>2 DEF SamInv, MissInv, Listing
<1>10. NameInv' /\ FoundInv'
  BY <1>1, <1>7 DEF SamInv, NameInv, Borrowed, Miss, Bought, FoundInv, Reached, Holds
<1>. QED
  BY <1>3, <1>5, <1>6, <1>8, <1>9, <1>10 DEF SamInv

LEMMA SaveKeeps == SamInv /\ SaveCache => SamInv'
<1>. SUFFICES ASSUME SamInv, SaveCache
              PROVE  SamInv'
  OBVIOUS
<1>1. /\ pc = "cache" /\ pc' = (IF stopped THEN "final_index" ELSE "scan") /\ cache' = known
      /\ UNCHANGED <<upstream, listed, index, arguments, read, next, results, known, counters,
                     answered>>
  BY DEF SaveCache
<1>2. SamTypeOK'
  BY <1>1 DEF SamInv, SamTypeOK, upstream, arguments, counters, Stages
<1>3. CircuitInv' /\ EndInv' /\ ListInv'
  BY <1>1 DEF SamInv, CircuitInv, EndInv, ListInv, Underway, Final, arguments, counters
<1>4. ScanInv'
  BY <1>1 DEF SamInv, ScanInv, Done, Fresh, Settles, Underway, upstream, arguments, counters
<1>5. Underway /\ Underway'
  BY <1>1 DEF Underway
<1>6. CacheInv'
  BY <1>1 DEF SamInv, CacheInv, Entry, Settles, Miss
<1>7. MissInv'
  BY <1>1 DEF SamInv, MissInv, Listing
<1>8. NameInv' /\ FoundInv'
  BY <1>1, <1>5 DEF SamInv, NameInv, Borrowed, Miss, Bought, FoundInv, Reached, Holds
<1>. QED
  BY <1>2, <1>3, <1>4, <1>6, <1>7, <1>8 DEF SamInv

\* However a run ends, what it leaves on disk is what the next one can build on.
LEMMA LeaveKeeps ==
    ASSUME SamInv, Leave, UNCHANGED <<upstream, answered>>,
           listed' \in 0..Vendors, "torn_targets" \notin Faults => listed' \in {0, Vendors},
           Listing(index', answered), cache' \in {cache, known, NoEntries}
    PROVE  SamInv'
<1>1. /\ pc' = "idle" /\ resume' = FALSE /\ failures' = 0 /\ stopped' = FALSE /\ results' = NoRows
      /\ known' = NoEntries /\ next' = 1
  BY DEF Leave
<1>2. cache' \in [Vendor -> Rows]
  BY NothingTyped DEF SamInv, SamTypeOK
<1>3. SamTypeOK'
  <2>1. results' \in [Names -> Rows] /\ known' \in [Vendor -> Rows] /\ index' \in [Names -> Rows]
    BY <1>1, NothingTyped DEF Listing
  <2>2. /\ source' \in Masters /\ bulk' \in Extracts /\ answered' \subseteq Vendor
        /\ asked' \subseteq Vendor /\ pc' \in Stages
    BY DEF Leave, SamInv, SamTypeOK, upstream, Stages
  <2>. QED
    BY <1>2, <2>1, <2>2, AtRest DEF Leave, SamTypeOK
<1>4. CircuitInv' /\ EndInv' /\ ScanInv' /\ ListInv'
  BY <1>1, SamAssumption DEF CircuitInv, EndInv, ScanInv, ListInv, Underway, Final
<1>5. CacheInv'
  <2>1. ~Underway'
    BY <1>1 DEF Underway
  <2>. QED
    BY <1>1, <2>1, NothingTyped DEF SamInv, CacheInv, Entry, Settles, Miss
<1>6. MissInv'
  <2>1. ASSUME NEW c \in Vendor, "NO_MATCH" \in {cache'[c].status, known'[c].status}
        PROVE  c \in answered'
    BY <1>1, <2>1, NothingTyped DEF SamInv, MissInv
  <2>. QED
    BY <1>1, <2>1, NothingTyped DEF MissInv, Listing
<1>7. NameInv'
  BY <1>1, NothingTyped DEF NameInv
<1>8. FoundInv'
  BY <1>1, SamAssumption DEF FoundInv, Reached, Vendor
<1>. QED
  BY <1>3, <1>4, <1>5, <1>6, <1>7, <1>8 DEF SamInv

LEMMA EndKeeps == SamInv /\ (WriteIndexFails \/ SaveCacheAndEnd) => SamInv'
<1>. SUFFICES ASSUME SamInv, WriteIndexFails \/ SaveCacheAndEnd
              PROVE  SamInv'
  OBVIOUS
<1>1. /\ Leave /\ UNCHANGED <<upstream, listed, answered>>
      /\ index' \in {index, NoRows} /\ cache' \in {cache, known}
  BY DEF WriteIndexFails, SaveCacheAndEnd, upstream
<1>2. listed' \in 0..Vendors /\ ("torn_targets" \notin Faults => listed' \in {0, Vendors})
  BY <1>1 DEF SamInv, SamTypeOK, ListInv
<1>3. Listing(index', answered)
  BY <1>1, NoListing DEF SamInv, MissInv
<1>. QED
  BY <1>1, <1>2, <1>3, LeaveKeeps

LEMMA CrashKeeps == SamInv /\ Crash => SamInv'
<1>. SUFFICES ASSUME SamInv, Crash
              PROVE  SamInv'
  OBVIOUS
<1>1. /\ Leave /\ UNCHANGED <<upstream, answered>>
      /\ listed' = listed \/ (listed' \in Vendor /\ "torn_targets" \in Faults)
      /\ index' = index \/ index' = NoRows \/ index' \in Leftovers(results)
      /\ cache' \in {cache, NoEntries}
  BY DEF Crash
<1>2. listed' \in 0..Vendors /\ ("torn_targets" \notin Faults => listed' \in {0, Vendors})
  BY <1>1, SamAssumption DEF SamInv, SamTypeOK, ListInv, Vendor
<1>3. Listing(index', answered)
  <2>1. CASE index' = index \/ index' = NoRows
    BY <2>1, NoListing DEF SamInv, MissInv
  <2>2. CASE index' \in Leftovers(results)
    <3>1. PICK file \in Files(results) : index' \in Torn(file, Shared(results))
      BY <2>2 DEF Leftovers
    <3>2. Shared(results) \in SUBSET Vendor
      BY DEF Shared
    <3>. QED
      BY <3>1, <3>2, FileListing, TornTyped
  <2>. QED
    BY <1>1, <2>1, <2>2
<1>. QED
  BY <1>1, <1>2, <1>3, LeaveKeeps

LEMMA StutterKeeps == SamInv /\ UNCHANGED vars => SamInv'
<1>. SUFFICES ASSUME SamInv, UNCHANGED vars
              PROVE  SamInv'
  OBVIOUS
<1>1. SamTypeOK'
  BY DEF SamInv, SamTypeOK, vars, upstream, disk, arguments, counters
<1>2. Files(results)' = Files(results)
  BY DEF Files, File, Own, Lent, vars
<1>3. CircuitInv' /\ EndInv' /\ ListInv'
  BY <1>2 DEF SamInv, CircuitInv, EndInv, ListInv, Underway, Final,
              vars, upstream, disk, arguments, counters
<1>4. ScanInv'
  BY DEF SamInv, ScanInv, Done, Fresh, Settles, Underway, vars, upstream, arguments, counters
<1>5. UNCHANGED <<cache, index, results, known, next, answered>> /\ Underway' = Underway
  BY DEF vars, disk, Underway
<1>. QED
  BY <1>1, <1>3, <1>4, <1>5, Untouched DEF SamInv

LEMMA StepKeeps == SamInv /\ [Next]_vars => SamInv'
<1>. SUFFICES ASSUME SamInv, [Next]_vars
              PROVE  SamInv'
  OBVIOUS
<1>1. CASE MasterRebuilt \/ ExtractArrives
  BY <1>1, UpstreamKeeps
<1>2. CASE \E again, api \in BOOLEAN, n \in Tops : Start(again, api, n)
  BY <1>2, StartKeeps
<1>3. CASE Run
  BY <1>3, LoadKeeps, SettleKeeps, DeferKeeps, CloseKeeps, ResolvesKeeps, FailsKeeps, WriteKeeps,
     SaveKeeps, EndKeeps DEF Run
<1>4. CASE Crash
  BY <1>4, CrashKeeps
<1>5. CASE UNCHANGED vars
  BY <1>5, StutterKeeps
<1>. QED
  BY <1>1, <1>2, <1>3, <1>4, <1>5 DEF Next

LEMMA Inductive == Spec => []SamInv
BY InitInv, StepKeeps, PTL DEF Spec

-----------------------------------------------------------------------------
(* Theorems.                                                                *)

\* The lookups stay within their budget, the failures in a row within what
\* breaks the circuit, and whatever is read back from the disk is a row.
THEOREM SamTypeCorrect == Spec => []SamTypeOK
<1>1. SamInv => SamTypeOK
  BY DEF SamInv
<1>. QED
  BY <1>1, Inductive, PTL

\* A miss, in the index or in the cache that later runs trust, goes back to an
\* answer of a registry.
THEOREM MissesAnswered == Spec => []MissesWereAnswered
<1>1. SamInv => MissesWereAnswered
  <2>. SUFFICES ASSUME SamInv, NEW v \in Vendor,
                       "NO_MATCH" \in {index[v].status, cache[ClusterOf[v]].status}
                PROVE  ClusterOf[v] \in answered
    BY DEF MissesWereAnswered
  <2>1. ClusterOf[v] \in Vendor
    BY SamAssumption
  <2>. QED
    BY <2>1 DEF SamInv, MissInv, Listing
<1>. QED
  BY <1>1, Inductive, PTL

\* What a run that ends, early or not, has done for a vendor it has gone through.
LEMMA PassedDone ==
    ASSUME "torn_targets" \notin Faults, SamInv, Ended, NEW v \in Passed
    PROVE  v \in Vendor /\ Done(v) /\ (Alone(v) => index[v] = results[v])
<1>1. /\ Underway /\ (stopped \/ next > read) /\ read = top
      /\ top \in Vendor /\ next \in 1..(Vendors + 1)
      /\ index \in Files(results) /\ results \in [Names -> Rows]
  BY DEF Ended, Underway, Final, SamInv, EndInv, ListInv, SamTypeOK
<1>2. v \in 1..top /\ (stopped => v < next)
  BY DEF Passed
<1>3. v \in Vendor /\ v \in 1..(next - 1)
  BY <1>1, <1>2, SamAssumption DEF Vendor
<1>4. Done(v)
  BY <1>1, <1>3 DEF SamInv, ScanInv
<1>5. ASSUME Alone(v)
      PROVE  index[v] = results[v]
  <2>1. v \in Own(results) \ Lent(results)
    BY <1>3, <1>5 DEF Alone, Own
  <2>. QED
    BY <1>1, <2>1, FileRows
<1>. QED
  BY <1>3, <1>4, <1>5

\* A run, stopped or not, hands on every vendor it has gone through with what the
\* award source or the extract says, if the list of targets was written whole.
THEOREM ScansComplete ==
    ASSUME "torn_targets" \notin Faults
    PROVE  Spec => []ScanIsComplete
<1>1. SamInv => ScanIsComplete
  BY PassedDone DEF ScanIsComplete, Done, Fresh
<1>. QED
  BY <1>1, Inductive, PTL

\* Nothing that was left open is passed over by such a run with lookups.
THEOREM OpenRetried ==
    ASSUME "torn_targets" \notin Faults
    PROVE  Spec => []OpenIsRetried
<1>1. SamInv => OpenIsRetried
  BY PassedDone DEF OpenIsRetried, Done, Settles
<1>. QED
  BY <1>1, Inductive, PTL

\* After the index is written, it has an identifier wherever a lookup has found
\* one for a vendor that the run has gone through.
LEMMA IndexHolds ==
    ASSUME SamInv, pc \in {"cache", "final_cache"}, NEW c \in Vendor, Found(c), Reached(c)
    PROVE  Holds(index, c)
<1>1. Bought(c)
  BY DEF Found, Bought, Paid
<1>2. PICK w \in Vendor : ClusterOf[w] = c /\ results[w].uei # None
  BY <1>1 DEF SamInv, FoundInv, Holds
<1>3. \A v \in Vendor : ClusterOf[v] = c => results[v] = Absent \/ results[v].name = v
  BY <1>1 DEF SamInv, NameInv, Borrowed
<1>4. w \in Own(results)
  BY <1>2, <1>3, NothingTyped DEF Own
<1>5. w \notin Lent(results)
  <2>. SUFFICES ASSUME NEW k \in Vendor \ {w}, results[k].name = w
                PROVE  FALSE
    BY DEF Lent
  <2>1. ClusterOf[k] = c
    BY <1>2, NothingTyped, VendorsNamed DEF SamInv, NameInv, Borrowed, Miss
  <2>. QED
    BY <1>3, <2>1, NothingTyped, VendorsNamed
<1>6. index[w] = results[w]
  <2>1. index \in Files(results) /\ results \in [Names -> Rows]
    BY DEF SamInv, EndInv, SamTypeOK
  <2>. QED
    BY <1>4, <1>5, <2>1, FileRows
<1>. QED
  BY <1>2, <1>6 DEF Holds

\* Whatever step fails, one of the two files still has what a lookup has found.
THEOREM FoundSurvives == Spec => LookupsSurvive
<1>1. SamInv /\ [Next]_vars =>
        [\A c \in Vendor :
            Found(c) /\ (\E v \in Vendor : v < next /\ ClusterOf[v] = c) =>
                \/ cache'[c].uei # None
                \/ \E v \in Vendor : ClusterOf[v] = c /\ index'[v].uei # None]_vars
  <2>. SUFFICES ASSUME SamInv, Next, NEW c \in Vendor, Found(c), Reached(c)
                PROVE  cache'[c].uei # None \/ \E v \in Vendor : ClusterOf[v] = c /\ index'[v].uei # None
    BY DEF Reached
  <2>1. Underway
    BY SamAssumption DEF SamInv, FoundInv, Reached, Vendor
  <2>2. cache[c].uei # None /\ known[c].uei # None
    <3>1. cache[c] = Absent \/ Settles(cache[c])
      BY DEF SamInv, CacheInv, Entry
    <3>2. cache[c].uei # None
      BY <3>1, NothingTyped DEF Found, Settles, Definite
    <3>. QED
      BY <2>1, <3>2 DEF SamInv, CacheInv
  <2>3. CASE cache' \in {cache, known}
    BY <2>2, <2>3
  <2>4. CASE pc \in {"cache", "final_cache"} /\ index' = index
    <3>1. Holds(index, c)
      BY <2>4, IndexHolds
    <3>. QED
      BY <2>4, <3>1 DEF Holds
  <2>5. CASE Crash
    <3>1. cache' = cache \/ (pc \in {"cache", "final_cache"} /\ index' = index)
      BY <2>5 DEF Crash, Writing
    <3>. QED
      BY <2>3, <2>4, <3>1
  <2>6. CASE Run \/ MasterRebuilt \/ ExtractArrives
             \/ \E again, api \in BOOLEAN, n \in Tops : Start(again, api, n)
    <3>1. cache' \in {cache, known}
      BY <2>6 DEF Run, MasterRebuilt, ExtractArrives, Start, LoadTargets, Settle, Defer,
         StopLookups, LookupResolves, LookupFails, Asks, CloseScan, WriteIndex, WriteIndexFails,
         SaveCache, SaveCacheAndEnd, disk
    <3>. QED
      BY <2>3, <3>1
  <2>. QED
    BY <2>5, <2>6 DEF Next
<1>. QED
  BY <1>1, Inductive, PTL DEF Spec, LookupsSurvive
=============================================================================
