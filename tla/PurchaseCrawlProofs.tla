------------------------- MODULE PurchaseCrawlProofs -------------------------
(***************************************************************************)
(* Theorems about PurchaseCrawl, checked by TLAPS for every value of its     *)
(* constants.                                                               *)
(***************************************************************************)
EXTENDS PurchaseCrawl, SequenceTheorems, FiniteSetTheorems, TLAPS

-----------------------------------------------------------------------------
(* The strengthening.                                                       *)

\* The purchase of that control number is among those lines,
Has(w, control) == \E j \in 1..Len(w) : w[j] \in Row /\ w[j].control = control

\* or on page n of the listing or on a later one.
Onwards(l, n, control) ==
    \E k \in 1..Len(l) : (n - 1) * PageLength < k /\ l[k].control = control

\* The purchases of b that are not in work file w, nor on a page still to be fetched,
\* from n on.
Escaped(b, l, w, n, declared) ==
    {c \in b : ~Has(w, c) /\ ~(n <= declared /\ Onwards(l, n, c))}

\* They are at most k.
Covered(b, l, w, n, declared, k) ==
    /\ IsFiniteSet(Escaped(b, l, w, n, declared))
    /\ Cardinality(Escaped(b, l, w, n, declared)) <= k

\* The last n lines of work file w are of these rows.
Ends(w, n, rows) ==
    /\ n <= Len(w)
    /\ \A i \in 1..Len(w) : i > Len(w) - n => w[i] \in rows

\* Every row of s is one of these.
Among(s, rows) == \A i \in 1..Len(s) : s[i] \in rows

\* A checkpoint before the first page, and past it.
Advanced(c) ==
    /\ c.next = 1 => c.written = 0
    /\ c.next > 1 => c.written # 0 /\ c.declared # None

DiskInv ==
    /\ Among(listing, shown)
    /\ checkpoint # None =>
          /\ Advanced(checkpoint)
          /\ checkpoint.next > 1 =>
                /\ Covered(base, listing, checkpoint.sha, checkpoint.next,
                           checkpoint.declared, lost)
                /\ Ends(checkpoint.sha, checkpoint.written, shown)

Running == {"fetch", "append", "save", "next", "promote", "certify"}

RunInv ==
    /\ pc \in Running => receipt = None /\ Advanced(ck)
    /\ pc \in Running /\ ck.next = 1 /\ checkpoint # None => checkpoint.next = 1
    /\ pc \in Running \ {"save", "certify"} => Ends(work, ck.written, shown)
    /\ pc \in Running \ {"save", "certify"} /\ ck.next > 1 =>
          /\ ck.sha = work
          /\ Covered(base, listing, work, ck.next, ck.declared, lost)
    /\ pc = "append" =>
          /\ Covered(base, listing, work \o page, ck.next + 1, ck.declared, lost + missed)
          /\ Ends(work \o page, ck.written + Len(page), shown)
    /\ pc = "save" =>
          /\ Covered(base, listing, work, ck.next + 1, ck.declared, lost)
          /\ Ends(work, ck.written + Len(page), shown)
    /\ pc \in {"append", "save"} => page # <<>> /\ ck.declared # None
    /\ pc = "promote" => ck.declared # None /\ ck.next > ck.declared

\* A run that still fetches has not reached its limit; what is certified is
\* there, and can be counted.
StageInv ==
    /\ pc = "certify" => output \in SUBSET Row /\ IsFiniteSet(output)
    /\ pc = "idle" => pages = 0
    /\ pc \in {"reset", "load", "fetch", "append", "save"} /\ limit # None
          => pages < limit

TypeInv == PurchaseTypeOK /\ StageInv

PurchaseInv == TypeInv /\ DiskInv /\ RunInv

-----------------------------------------------------------------------------
(* Pages.                                                                   *)

\* The rows before page n, and the count of pages.
LEMMA PageFacts ==
    ASSUME NEW n \in Nat \ {0}
    PROVE  /\ (n - 1) * PageLength \in Nat /\ n * PageLength \in Nat
           /\ n * PageLength = (n - 1) * PageLength + PageLength
           /\ \A d \in Nat : n * PageLength < d * PageLength => n < d
<1>1. PageLength \in Nat /\ PageLength > 0
  BY PurchaseAssumption
<1>2. (n - 1) * PageLength \in Nat /\ n * PageLength \in Nat
  BY <1>1
<1>3. n * PageLength = (n - 1) * PageLength + PageLength
  BY <1>1
<1>4. ASSUME NEW d \in Nat, n * PageLength < d * PageLength
      PROVE  n < d
  <2>1. SUFFICES ASSUME d <= n PROVE FALSE
    OBVIOUS
  <2>2. PICK e \in Nat : n = d + e
    <3>1. n - d \in Nat /\ n = d + (n - d)
      BY <2>1
    <3>. QED
      BY <3>1
  <2>3. e * PageLength \in Nat /\ d * PageLength \in Nat
    BY <1>1
  <2>4. (d + e) * PageLength = d * PageLength + e * PageLength
    BY <1>1
  <2>. QED
    BY <1>4, <2>2, <2>3, <2>4
<1>. QED
  BY <1>2, <1>3, <1>4

\* What a page of the listing holds.
LEMMA RowFacts ==
    ASSUME listing \in Seq(Row), NEW n \in Nat \ {0}
    PROVE  /\ PageRows(n) \in Seq(Row)
           /\ \A k \in 1..Len(listing) :
                (n - 1) * PageLength < k /\ k <= n * PageLength
                    => Has(PageRows(n), listing[k].control)
<1>. DEFINE a == (n - 1) * PageLength + 1
            b == Least(n * PageLength, Len(listing))
<1>1. /\ a \in Int /\ a >= 1 /\ b \in Int /\ b <= Len(listing) /\ Len(listing) \in Nat
      /\ (n - 1) * PageLength \in Nat /\ n * PageLength \in Nat
  <2>1. (n - 1) * PageLength \in Nat /\ n * PageLength \in Nat /\ Len(listing) \in Nat
    BY PageFacts
  <2>. QED
    BY <2>1 DEF Least
<1>2. \A i \in a..b : listing[i] \in Row
  BY <1>1
<1>. HIDE DEF a, b
<1>3. /\ SubSeq(listing, a, b) \in Seq(Row)
      /\ Len(SubSeq(listing, a, b)) = IF a <= b THEN b - a + 1 ELSE 0
      /\ \A i \in 1..(b - a + 1) : SubSeq(listing, a, b)[i] = listing[a + i - 1]
  BY <1>1, <1>2, SubSeqProperties
<1>4. PageRows(n) = SubSeq(listing, a, b)
  BY DEF PageRows, a, b
<1>5. ASSUME NEW k \in 1..Len(listing), (n - 1) * PageLength < k, k <= n * PageLength
      PROVE  Has(PageRows(n), listing[k].control)
  <2>1. a <= k /\ k <= b
    BY <1>1, <1>5 DEF a, b, Least
  <2>2. k - a + 1 \in 1..(b - a + 1) /\ a + (k - a + 1) - 1 = k
    BY <1>1, <2>1
  <2>3. SubSeq(listing, a, b)[k - a + 1] = listing[k]
    BY <1>3, <2>2
  <2>4. k - a + 1 \in 1..Len(SubSeq(listing, a, b))
    BY <1>1, <1>3, <2>1, <2>2
  <2>5. listing[k] \in Row
    OBVIOUS
  <2>. QED
    BY <1>4, <2>3, <2>4, <2>5 DEF Has
<1>. QED
  BY <1>3, <1>4, <1>5

\* The rows of a page are rows of the listing.
LEMMA RowsListed ==
    ASSUME listing \in Seq(Row), NEW n \in Nat \ {0}, NEW rows, Among(listing, rows)
    PROVE  Among(PageRows(n), rows)
<1>. DEFINE a == (n - 1) * PageLength + 1
            b == Least(n * PageLength, Len(listing))
<1>1. /\ a \in Int /\ a >= 1 /\ b \in Int /\ b <= Len(listing) /\ Len(listing) \in Nat
  <2>1. (n - 1) * PageLength \in Nat /\ n * PageLength \in Nat /\ Len(listing) \in Nat
    BY PageFacts
  <2>. QED
    BY <2>1 DEF Least
<1>2. \A i \in a..b : listing[i] \in Row /\ listing[i] \in rows
  BY <1>1 DEF Among
<1>. HIDE DEF a, b
<1>3. /\ Len(SubSeq(listing, a, b)) = IF a <= b THEN b - a + 1 ELSE 0
      /\ \A i \in 1..(b - a + 1) : SubSeq(listing, a, b)[i] = listing[a + i - 1]
  BY <1>1, <1>2, SubSeqProperties
<1>4. ASSUME NEW i \in 1..Len(SubSeq(listing, a, b))
      PROVE  SubSeq(listing, a, b)[i] \in rows
  <2>1. i \in 1..(b - a + 1) /\ a + i - 1 \in a..b
    BY <1>1, <1>3, <1>4
  <2>. QED
    BY <1>2, <1>3, <2>1
<1>5. PageRows(n) = SubSeq(listing, a, b)
  BY DEF PageRows, a, b
<1>. QED
  BY <1>4, <1>5 DEF Among

\* The purchases on page n are no more than a page holds.
OnPage(n) == {listing[k].control :
                 k \in {j \in 1..Len(listing) : (n - 1) * PageLength < j /\ j <= n * PageLength}}

LEMMA OnPageFacts ==
    ASSUME listing \in Seq(Row), NEW n \in Nat \ {0}
    PROVE  IsFiniteSet(OnPage(n)) /\ Cardinality(OnPage(n)) <= PageLength
<1>. DEFINE a == (n - 1) * PageLength
            K == {k \in 1..Len(listing) : a < k /\ k <= n * PageLength}
<1>1. /\ a \in Nat /\ n * PageLength = a + PageLength /\ PageLength \in Nat \ {0}
      /\ Len(listing) \in Nat
  BY PageFacts, PurchaseAssumption
<1>. HIDE DEF a
<1>2. IsFiniteSet((a + 1)..(a + PageLength)) /\ Cardinality((a + 1)..(a + PageLength)) = PageLength
  <2>1. a + 1 \in Int /\ a + PageLength \in Int
    BY <1>1
  <2>2. /\ IsFiniteSet((a + 1)..(a + PageLength))
        /\ Cardinality((a + 1)..(a + PageLength)) =
              IF a + 1 > a + PageLength THEN 0 ELSE (a + PageLength) - (a + 1) + 1
    BY <2>1, FS_Interval
  <2>. QED
    BY <1>1, <2>2
<1>3. K \subseteq (a + 1)..(a + PageLength)
  BY <1>1
<1>4. IsFiniteSet(K) /\ Cardinality(K) <= PageLength
  BY <1>2, <1>3, FS_Subset
<1>5. [k \in K |-> listing[k].control] \in Surjection(K, OnPage(n))
  BY DEF Surjection, OnPage, a
<1>. HIDE DEF K
<1>6. /\ IsFiniteSet(OnPage(n)) /\ Cardinality(OnPage(n)) <= Cardinality(K)
  BY <1>4, <1>5, FS_Surjection
<1>. QED
  BY <1>1, <1>4, <1>6, FS_CardinalityType

LEMMA PlusZero == 0 \in Nat /\ \A k \in Nat : k + 0 = k
OBVIOUS

\* A set covered by a small one, or by two.
LEMMA FewerFacts ==
    ASSUME NEW S, NEW T, IsFiniteSet(T), NEW m \in Nat, Cardinality(T) <= m
    PROVE  /\ S \subseteq T => IsFiniteSet(S) /\ Cardinality(S) <= m
           /\ \A U, l : /\ IsFiniteSet(U) /\ l \in Nat /\ Cardinality(U) <= l
                         /\ S \subseteq T \cup U
                         => IsFiniteSet(S) /\ Cardinality(S) <= m + l
<1>1. ASSUME S \subseteq T
      PROVE  IsFiniteSet(S) /\ Cardinality(S) <= m
  <2>1. IsFiniteSet(S) /\ Cardinality(S) <= Cardinality(T)
    BY <1>1, FS_Subset
  <2>2. Cardinality(S) \in Nat /\ Cardinality(T) \in Nat
    BY <2>1, FS_CardinalityType
  <2>. QED
    BY <2>1, <2>2
<1>2. ASSUME NEW U, NEW l, IsFiniteSet(U), l \in Nat, Cardinality(U) <= l,
             S \subseteq T \cup U
      PROVE  IsFiniteSet(S) /\ Cardinality(S) <= m + l
  <2>1. /\ IsFiniteSet(T \cup U)
        /\ Cardinality(T \cup U) =
              Cardinality(T) + Cardinality(U) - Cardinality(T \cap U)
    BY <1>2, FS_Union
  <2>2. IsFiniteSet(T \cap U)
    BY FS_Intersection
  <2>3. IsFiniteSet(S) /\ Cardinality(S) <= Cardinality(T \cup U)
    BY <1>2, <2>1, FS_Subset
  <2>4. /\ Cardinality(S) \in Nat /\ Cardinality(T) \in Nat /\ Cardinality(U) \in Nat
        /\ Cardinality(T \cap U) \in Nat /\ Cardinality(T \cup U) \in Nat
    BY <1>2, <2>1, <2>2, <2>3, FS_CardinalityType
  <2>. QED
    BY <1>2, <2>1, <2>3, <2>4
<1>. QED
  BY <1>1, <1>2

\* What is on page n or later is on page n, or there are later pages.
LEMMA NextPageCovers ==
    ASSUME listing \in Seq(Row), NEW n \in Nat \ {0}, NEW d \in Nat, IsPageCount(d),
           NEW control, Onwards(listing, n, control)
    PROVE  \/ Has(PageRows(n), control)
           \/ n + 1 <= d /\ Onwards(listing, n + 1, control)
<1>1. PICK k \in 1..Len(listing) : /\ (n - 1) * PageLength < k
                                   /\ listing[k].control = control
  BY DEF Onwards
<1>2. CASE k <= n * PageLength
  BY <1>1, <1>2, RowFacts
<1>3. CASE k > n * PageLength
  <2>1. n * PageLength \in Nat /\ d * PageLength \in Int
    BY PageFacts, PurchaseAssumption
  <2>2. n * PageLength < d * PageLength
    BY <1>3, <2>1 DEF IsPageCount
  <2>3. n < d
    BY <2>2, PageFacts
  <2>4. (n + 1) - 1 = n
    OBVIOUS
  <2>5. Onwards(listing, n + 1, control)
    BY <1>1, <1>3, <2>4 DEF Onwards
  <2>. QED
    BY <2>3, <2>5
<1>4. n * PageLength \in Nat /\ k \in Nat
  BY PageFacts
<1>. QED
  BY <1>2, <1>3, <1>4

\* Lines stay in a work file that is appended to.
LEMMA HasAppended ==
    ASSUME NEW w \in Seq(Lines), NEW p \in Seq(Lines), NEW control,
           Has(w, control) \/ Has(p, control)
    PROVE  Has(w \o p, control)
<1>1. /\ Len(w) \in Nat /\ Len(p) \in Nat /\ Len(w \o p) = Len(w) + Len(p)
      /\ \A i \in 1..(Len(w) + Len(p)) :
            (w \o p)[i] = IF i <= Len(w) THEN w[i] ELSE p[i - Len(w)]
  BY ConcatProperties
<1>2. CASE Has(w, control)
  BY <1>1, <1>2 DEF Has
<1>3. CASE Has(p, control)
  <2>1. PICK j \in 1..Len(p) : p[j] \in Row /\ p[j].control = control
    BY <1>3 DEF Has
  <2>2. /\ Len(w) + j \in 1..(Len(w) + Len(p)) /\ ~(Len(w) + j <= Len(w))
        /\ (Len(w) + j) - Len(w) = j
    BY <1>1, <2>1
  <2>3. (w \o p)[Len(w) + j] = p[j]
    BY <1>1, <2>2
  <2>. QED
    BY <1>1, <2>1, <2>2, <2>3 DEF Has
<1>. QED
  BY <1>2, <1>3

\* What ends a work file ends it with a page more.
LEMMA EndsAppended ==
    ASSUME NEW w \in Seq(Lines), NEW s \in Seq(Lines), NEW n \in Nat, NEW rows,
           Ends(w, n, rows), Among(s, rows)
    PROVE  Ends(w \o s, n + Len(s), rows)
<1>1. /\ Len(w) \in Nat /\ Len(s) \in Nat /\ Len(w \o s) = Len(w) + Len(s)
      /\ \A i \in 1..(Len(w) + Len(s)) :
            (w \o s)[i] = IF i <= Len(w) THEN w[i] ELSE s[i - Len(w)]
  BY ConcatProperties
<1>2. n + Len(s) <= Len(w \o s)
  BY <1>1 DEF Ends
<1>3. ASSUME NEW i \in 1..(Len(w) + Len(s)), i > (Len(w) + Len(s)) - (n + Len(s))
      PROVE  (w \o s)[i] \in rows
  <2>1. CASE i <= Len(w)
    <3>1. i \in 1..Len(w) /\ i > Len(w) - n
      BY <1>1, <1>3, <2>1
    <3>2. w[i] \in rows
      BY <3>1 DEF Ends
    <3>. QED
      BY <1>1, <1>3, <2>1, <3>2
  <2>2. CASE ~(i <= Len(w))
    <3>1. i - Len(w) \in 1..Len(s)
      BY <1>1, <1>3, <2>2
    <3>2. s[i - Len(w)] \in rows
      BY <3>1 DEF Among
    <3>. QED
      BY <1>1, <1>3, <2>2, <3>2
  <2>. QED
    BY <2>1, <2>2
<1>. QED
  BY <1>1, <1>2, <1>3 DEF Ends

\* A purchase that is published, or corrected, leaves the others on the page
\* where they were, or on the next.
LEMMA PublishKeeps ==
    ASSUME listing \in Seq(Row) \ {<<>>}, Publish \/ Correct
    PROVE  /\ listing' \in Seq(Row) \ {<<>>}
           /\ Among(listing, shown) => Among(listing', shown')
           /\ shown \subseteq shown'
           /\ \E row \in Row : shown' = shown \cup {row}
           /\ UNCHANGED <<base, missed, lost>>
           /\ \A n \in Nat \ {0} : \A control :
                  Onwards(listing, n, control) => Onwards(listing', n, control)
<1>1. ASSUME Publish
      PROVE  /\ listing' \in Seq(Row) \ {<<>>}
             /\ \E row \in Row : shown' = shown \cup {row}
             /\ Among(listing, shown) => Among(listing', shown')
             /\ \A k \in 1..Len(listing) : \E m \in 1..Len(listing') :
                    k <= m /\ listing'[m].control = listing[k].control
  <2>1. PICK row \in Row, i \in 1..(Len(listing) + 1) :
            listing' = Inserted(i, row) /\ shown' = shown \cup {row}
    BY <1>1 DEF Publish
  <2>2. /\ Len(listing) \in Nat /\ i \in Nat
        /\ \A k \in 1..Len(listing) : listing[k] \in Row
    OBVIOUS
  <2>3. /\ Len(listing') = Len(listing) + 1
        /\ listing' \in Seq(Row)
    <3>1. \A k \in 1..(Len(listing) + 1) :
              (IF k < i THEN listing[k] ELSE IF k = i THEN row ELSE listing[k - 1]) \in Row
      BY <2>2
    <3>. QED
      BY <2>1, <2>2, <3>1 DEF Inserted
  <2>4. ASSUME NEW k \in 1..Len(listing)
        PROVE  \E m \in 1..Len(listing') : k <= m /\ listing'[m] = listing[k]
    <3>1. CASE k < i
      <4>1. listing'[k] = listing[k] /\ k \in 1..Len(listing')
        BY <2>1, <2>2, <2>3, <3>1 DEF Inserted
      <4>. QED
        BY <4>1
    <3>2. CASE k >= i
      <4>1. listing'[k + 1] = listing[k] /\ k + 1 \in 1..Len(listing') /\ k <= k + 1
        BY <2>1, <2>2, <2>3, <3>2 DEF Inserted
      <4>. QED
        BY <4>1
    <3>. QED
      BY <2>2, <3>1, <3>2
  <2>5. ASSUME Among(listing, shown), NEW k \in 1..Len(listing')
        PROVE  listing'[k] \in shown'
    <3>1. listing'[k] = IF k < i THEN listing[k] ELSE IF k = i THEN row ELSE listing[k - 1]
      BY <2>1, <2>2, <2>3 DEF Inserted
    <3>2. /\ k < i => k \in 1..Len(listing)
          /\ ~(k < i) /\ k # i => k - 1 \in 1..Len(listing)
      BY <2>2, <2>3
    <3>. QED
      BY <2>1, <2>5, <3>1, <3>2 DEF Among
  <2>. QED
    BY <2>1, <2>2, <2>3, <2>4, <2>5 DEF Among
<1>2. ASSUME Correct
      PROVE  /\ listing' \in Seq(Row) \ {<<>>}
             /\ \E row \in Row : shown' = shown \cup {row}
             /\ Among(listing, shown) => Among(listing', shown')
             /\ \A k \in 1..Len(listing) : \E m \in 1..Len(listing') :
                    k <= m /\ listing'[m].control = listing[k].control
  <2>1. PICK i \in 1..Len(listing), row \in Row :
            /\ row.control = listing[i].control /\ listing' = [listing EXCEPT ![i] = row]
            /\ shown' = shown \cup {row}
    BY <1>2 DEF Correct
  <2>2. Len(listing') = Len(listing) /\ listing' \in Seq(Row)
    BY <2>1
  <2>3. \A k \in 1..Len(listing) : listing'[k].control = listing[k].control
    BY <2>1
  <2>4. Among(listing, shown) => Among(listing', shown')
    BY <2>1, <2>2 DEF Among
  <2>. QED
    BY <2>1, <2>2, <2>3, <2>4
<1>3. /\ listing' \in Seq(Row) \ {<<>>}
      /\ \E row \in Row : shown' = shown \cup {row}
      /\ Among(listing, shown) => Among(listing', shown')
      /\ \A k \in 1..Len(listing) : \E m \in 1..Len(listing') :
            k <= m /\ listing'[m].control = listing[k].control
  BY <1>1, <1>2
<1>4. ASSUME NEW n \in Nat \ {0}, NEW control, Onwards(listing, n, control)
      PROVE  Onwards(listing', n, control)
  <2>1. PICK k \in 1..Len(listing) : /\ (n - 1) * PageLength < k
                                     /\ listing[k].control = control
    BY <1>4 DEF Onwards
  <2>2. PICK m \in 1..Len(listing') : k <= m /\ listing'[m].control = control
    BY <1>3, <2>1
  <2>3. (n - 1) * PageLength < m
    <3>1. (n - 1) * PageLength \in Int
      BY PurchaseAssumption
    <3>. QED
      BY <2>1, <2>2, <3>1
  <2>. QED
    BY <2>2, <2>3 DEF Onwards
<1>5. UNCHANGED <<base, missed, lost>>
  BY DEF Publish, Correct
<1>. QED
  BY <1>3, <1>4, <1>5

\* One that is withdrawn moves one at most from a page to come to a page that has
\* been read.
LEMMA WithdrawKeeps ==
    ASSUME listing \in Seq(Row) \ {<<>>}, Withdraw
    PROVE  /\ listing' \in Seq(Row) \ {<<>>}
           /\ Among(listing, shown) => Among(listing', shown')
           /\ base' \subseteq base /\ lost' = lost + 1 /\ UNCHANGED <<shown, missed>>
           /\ \A n \in Nat \ {0} : \E x : \A control \in base' :
                  control # x /\ Onwards(listing, n, control) => Onwards(listing', n, control)
<1>1. PICK i \in 1..Len(listing) : /\ listing' = Removed(i)
                                   /\ base' = base \ {listing[i].control}
  BY DEF Withdraw
<1>2. /\ Len(listing) \in Nat /\ Len(listing) > 1 /\ i \in Nat
      /\ lost' = lost + 1 /\ UNCHANGED <<shown, missed>>
      /\ \A k \in 1..Len(listing) : listing[k] \in Row
  BY DEF Withdraw
<1>3. \A k \in 1..(Len(listing) - 1) : (IF k < i THEN listing[k] ELSE listing[k + 1]) \in Row
  BY <1>2
<1>4. /\ listing' \in Seq(Row) /\ Len(listing') = Len(listing) - 1
      /\ \A k \in 1..(Len(listing) - 1) :
            listing'[k] = IF k < i THEN listing[k] ELSE listing[k + 1]
  BY <1>1, <1>2, <1>3 DEF Removed
<1>5. ASSUME Among(listing, shown)
      PROVE  Among(listing', shown')
  BY <1>2, <1>4, <1>5 DEF Among
<1>6. ASSUME NEW n \in Nat \ {0}
      PROVE  \E x : \A control \in base' :
                control # x /\ Onwards(listing, n, control) => Onwards(listing', n, control)
  <2>. DEFINE a == (n - 1) * PageLength
  <2>1. a \in Nat
    BY PageFacts
  <2>. HIDE DEF a
  <2>2. ASSUME NEW control \in base', control # listing[a + 1].control,
               Onwards(listing, n, control)
        PROVE  Onwards(listing', n, control)
    <3>1. PICK k \in 1..Len(listing) : a < k /\ listing[k].control = control
      BY <2>2 DEF Onwards, a
    <3>2. k # i /\ k # a + 1
      BY <1>1, <2>2, <3>1
    <3>3. CASE k < i
      <4>1. k \in 1..Len(listing') /\ listing'[k] = listing[k]
        BY <1>2, <1>4, <3>3
      <4>. QED
        BY <3>1, <4>1 DEF Onwards, a
    <3>4. CASE k > i
      <4>1. /\ k - 1 \in 1..(Len(listing) - 1) /\ ~(k - 1 < i) /\ (k - 1) + 1 = k
            /\ a < k - 1
        BY <1>2, <2>1, <3>1, <3>2, <3>4
      <4>2. k - 1 \in 1..Len(listing') /\ listing'[k - 1] = listing[k]
        BY <1>4, <4>1
      <4>. QED
        BY <3>1, <4>1, <4>2 DEF Onwards, a
    <3>. QED
      BY <1>2, <3>2, <3>3, <3>4
  <2>. QED
    BY <2>2
<1>7. listing' # <<>>
  BY <1>2, <1>4
<1>. QED
  BY <1>1, <1>2, <1>4, <1>5, <1>6, <1>7

\* Whatever the registry does, no more escape than are counted.
LEMMA UpstreamKeeps ==
    ASSUME PurchaseTypeOK, Publish \/ Correct \/ Withdraw, NEW e \in Nat,
           NEW w, NEW n \in Nat \ {0}, NEW d, Covered(base, listing, w, n, d, lost + e)
    PROVE  Covered(base', listing', w, n, d, lost' + e)
<1>. DEFINE S == Escaped(base, listing, w, n, d)
            T == Escaped(base', listing', w, n, d)
<1>1. /\ listing \in Seq(Row) \ {<<>>} /\ lost + e \in Nat /\ lost \in Nat
      /\ IsFiniteSet(S) /\ Cardinality(S) <= lost + e
  BY DEF PurchaseTypeOK, Covered
<1>2. CASE Publish \/ Correct
  <2>1. lost' = lost /\ T \subseteq S
    BY <1>1, <1>2, PublishKeeps DEF Escaped
  <2>. HIDE DEF S, T
  <2>2. IsFiniteSet(T) /\ Cardinality(T) <= lost + e
    BY <1>1, <2>1, FewerFacts
  <2>. QED
    BY <2>1, <2>2 DEF Covered, T
<1>3. CASE Withdraw
  <2>1. PICK x : \A control \in base' :
            control # x /\ Onwards(listing, n, control) => Onwards(listing', n, control)
    BY <1>1, <1>3, WithdrawKeeps
  <2>2. lost' = lost + 1 /\ base' \subseteq base
    BY <1>1, <1>3, WithdrawKeeps
  <2>3. T \subseteq S \cup {x}
    BY <2>1, <2>2 DEF Escaped
  <2>4. IsFiniteSet({x}) /\ Cardinality({x}) <= 1
    BY FS_Singleton
  <2>. HIDE DEF S, T
  <2>5. IsFiniteSet(T) /\ Cardinality(T) <= (lost + e) + 1
    BY <1>1, <2>3, <2>4, FewerFacts
  <2>6. (lost + e) + 1 = lost' + e
    BY <1>1, <2>2
  <2>. QED
    BY <2>5, <2>6 DEF Covered, T
<1>. QED
  BY <1>2, <1>3

-----------------------------------------------------------------------------
(* Types.                                                                   *)

\* The invariant of the types holds before the first run.
LEMMA InitType == Init => TypeInv
<1>. SUFFICES ASSUME Init
              PROVE  TypeInv
  OBVIOUS
<1>1. Fresh \in Checkpoints
  BY DEF Fresh, Checkpoints
<1>2. /\ <<>> \in Seq(Lines) /\ <<>> \in Seq(Row)
      /\ listing \in Seq(Row) \ {<<>>} /\ {listing[i] : i \in 1..Len(listing)} \in SUBSET Row
  <2>1. listing \in Seq(Row) \ {<<>>}
    BY PurchaseAssumption DEF Init
  <2>2. \A i \in 1..Len(listing) : listing[i] \in Row
    BY <2>1
  <2>. QED
    BY <2>1, <2>2
<1>3. changes \in 0..MaxChanges
  BY PurchaseAssumption DEF Init
<1>. QED
  BY <1>1, <1>2, <1>3 DEF Init, TypeInv, PurchaseTypeOK, StageInv, Stages

\* A run that is left leaves nothing behind in memory.
LEMMA LeaveType ==
    ASSUME Leave
    PROVE  /\ pc' = "idle" /\ pc' \in Stages /\ ck' \in Checkpoints
           /\ page' \in Seq(Row) /\ pages' \in Nat /\ limit' = None /\ pages' = 0
BY DEF Leave, Fresh, Stages, Checkpoints

\* The registry and the operator keep the types.
LEMMA StartType ==
    ASSUME TypeInv,
           \/ Publish \/ Correct \/ Withdraw
           \/ \E reset \in BOOLEAN, max \in Limits : Start(reset, max)
    PROVE  TypeInv'
<1>1. CASE Publish \/ Correct \/ Withdraw
  <2>1. /\ listing \in Seq(Row) \ {<<>>} /\ shown \in SUBSET Row /\ lost \in Nat
        /\ base \in SUBSET {row.control : row \in Row}
    BY DEF TypeInv, PurchaseTypeOK
  <2>2. /\ listing' \in Seq(Row) \ {<<>>} /\ shown' \in SUBSET Row /\ lost' \in Nat
        /\ base' \in SUBSET {row.control : row \in Row} /\ missed' = missed
    <3>1. CASE Publish \/ Correct
      BY <2>1, <3>1, PublishKeeps
    <3>2. CASE Withdraw
      BY <2>1, <3>2, WithdrawKeeps
    <3>. QED
      BY <1>1, <3>1, <3>2
  <2>3. changes' \in 0..MaxChanges
    <3>1. Change
      BY <1>1 DEF Publish, Correct, Withdraw
    <3>. QED
      BY <3>1, PurchaseAssumption DEF Change, TypeInv, PurchaseTypeOK
  <2>4. UNCHANGED <<disk, process>>
    BY <1>1 DEF Publish, Correct, Withdraw
  <2>. QED
    BY <2>2, <2>3, <2>4 DEF TypeInv, PurchaseTypeOK, StageInv, disk, process
<1>2. ASSUME NEW reset \in BOOLEAN, NEW max \in Limits, Start(reset, max)
      PROVE  TypeInv'
  <2>1. PurchaseTypeOK'
    BY <1>2, PurchaseAssumption
    DEF Start, TypeInv, PurchaseTypeOK, StageInv, Stages, upstream, seen
  <2>2. StageInv'
    BY <1>2, PurchaseAssumption DEF Start, TypeInv, StageInv
  <2>. QED
    BY <2>1, <2>2 DEF TypeInv
<1>. QED
  BY <1>1, <1>2

\* So does loading, with or without a reset.
LEMMA LoadType ==
    ASSUME TypeInv, ResetWork \/ Load \/ LoadRefused
    PROVE  TypeInv'
<1>1. CASE ResetWork
  BY <1>1 DEF ResetWork, TypeInv, PurchaseTypeOK, StageInv, Stages, upstream, seen
<1>2. CASE Load
  BY <1>2 DEF Load, TypeInv, PurchaseTypeOK, StageInv, Stages, upstream, seen, Fresh, Checkpoints
<1>3. CASE LoadRefused
  BY <1>3, LeaveType DEF LoadRefused, TypeInv, PurchaseTypeOK, StageInv, upstream, seen, disk
<1>. QED
  BY <1>1, <1>2, <1>3

\* A count, once seen, is a number of pages.
LEMMA CountType ==
    ASSUME TypeInv, NEW n \in (Nat \ {0}) \cup {None}
    PROVE  [ck EXCEPT !.declared = n] \in Checkpoints
BY DEF TypeInv, PurchaseTypeOK, Checkpoints

\* So does every way in which a run stops on its way.
LEMMA StopType ==
    ASSUME TypeInv, FetchRefused \/ StopAtLimit \/ PromotionRefused
    PROVE  TypeInv'
<1>1. CASE FetchRefused
  <2>1. ck.declared \in (Nat \ {0}) \cup {None} /\ Len(listing) \in Nat
    BY DEF TypeInv, PurchaseTypeOK, Checkpoints
  <2>2. PICK n \in (Nat \ {0}) \cup {None} : Blocked(n)
    <3>1. CASE Blocked(ck.declared)
      BY <2>1, <3>1
    <3>2. CASE \E n \in 1..Len(listing) : Blocked(n)
      BY <2>1, <3>2
    <3>. QED
      BY <1>1, <3>1, <3>2 DEF FetchRefused
  <2>3. checkpoint' \in Checkpoints
    BY <2>2, CountType DEF Blocked
  <2>. QED
    BY <2>2, <2>3, LeaveType DEF Blocked, TypeInv, PurchaseTypeOK, StageInv, upstream, seen
<1>2. CASE StopAtLimit \/ PromotionRefused
  BY <1>2, LeaveType DEF StopAtLimit, PromotionRefused, TypeInv, PurchaseTypeOK, StageInv,
                         upstream, seen, disk
<1>. QED
  BY <1>1, <1>2

\* What is accepted is not empty, one of as many pages as are declared, and either
\* the page that was asked for or counted as missed.
LEMMA FetchFacts ==
    ASSUME TypeInv, FetchPage
    PROVE  /\ ck.next \in Nat \ {0}
           /\ \E n \in Nat \ {0} : /\ IsPageCount(n) /\ CountHolds(n)
                                   /\ ck' = [ck EXCEPT !.declared = n]
           /\ page' # <<>> /\ page' \in Seq(Row)
           /\ \A rows : Among(listing, rows) => Among(page', rows)
           /\ \/ page' = PageRows(ck.next) /\ missed' = 0
              \/ missed' = PageLength
           /\ IF ck.next = 1
              THEN /\ base' = {listing[i].control : i \in 1..Len(listing)}
                   /\ shown' = {listing[i] : i \in 1..Len(listing)}
                   /\ lost' = 0
              ELSE UNCHANGED <<base, shown, lost>>
<1>1. /\ ck.next \in Nat \ {0} /\ listing \in Seq(Row) /\ Len(listing) \in Nat
  BY DEF TypeInv, PurchaseTypeOK, Checkpoints
<1>2. PICK n \in 1..Len(listing) : \E rows \in Answers(ck.next) \ {<<>>} :
          /\ IsPageCount(n) /\ CountHolds(n) /\ ~Repeats(rows)
          /\ ck' = [ck EXCEPT !.declared = n]
          /\ page' = rows
          /\ Observed(rows)
  BY DEF FetchPage
<1>3. PICK m \in 1..ck.next : page' = PageRows(m)
  <2>1. ck.next \in 1..ck.next
    BY <1>1
  <2>. QED
    BY <1>2, <2>1 DEF Answers
<1>4. m \in Nat \ {0}
  BY <1>1
<1>5. page' \in Seq(Row) /\ \A rows : Among(listing, rows) => Among(page', rows)
  BY <1>1, <1>3, <1>4, RowFacts, RowsListed
<1>6. /\ page' # <<>> /\ Observed(page') /\ ~Repeats(page')
      /\ IsPageCount(n) /\ CountHolds(n) /\ ck' = [ck EXCEPT !.declared = n]
  BY <1>2
<1>7. n \in Nat \ {0}
  BY <1>1
<1>8. \/ page' = PageRows(ck.next) /\ missed' = 0
      \/ missed' = PageLength
  BY <1>6 DEF Observed, Repeats
<1>9. IF ck.next = 1
      THEN /\ base' = {listing[i].control : i \in 1..Len(listing)}
           /\ shown' = {listing[i] : i \in 1..Len(listing)}
           /\ lost' = 0
      ELSE UNCHANGED <<base, shown, lost>>
  BY <1>6 DEF Observed
<1>. QED
  BY <1>1, <1>5, <1>6, <1>7, <1>8, <1>9, Zenon

\* So does a page, from its arrival to the checkpoint that counts it.
LEMMA PageType ==
    ASSUME TypeInv, FetchPage \/ AppendRows \/ SaveCheckpoint \/ NextPage
    PROVE  TypeInv'
<1>1. CASE FetchPage
  <2>1. page' \in Seq(Row) /\ ck' \in Checkpoints
    BY <1>1, FetchFacts, CountType
  <2>2. pc' = "append" /\ pc = "fetch" /\ UNCHANGED <<listing, changes, disk, pages, limit>>
    BY <1>1 DEF FetchPage, Requests
  <2>3. /\ base' \in SUBSET {row.control : row \in Row} /\ shown' \in SUBSET Row
        /\ lost' \in Nat /\ missed' \in Nat
    <3>1. missed' \in Nat
      BY <1>1, FetchFacts, PurchaseAssumption
    <3>2. CASE ck.next = 1
      <4>1. \A i \in 1..Len(listing) : listing[i] \in Row
        BY DEF TypeInv, PurchaseTypeOK
      <4>2. /\ base' = {listing[i].control : i \in 1..Len(listing)}
            /\ shown' = {listing[i] : i \in 1..Len(listing)} /\ lost' = 0
        BY <1>1, <3>2, FetchFacts
      <4>. QED
        BY <3>1, <4>1, <4>2
    <3>3. CASE ck.next # 1
      BY <1>1, <3>1, <3>3, FetchFacts DEF TypeInv, PurchaseTypeOK
    <3>. QED
      BY <3>2, <3>3
  <2>. QED
    BY <2>1, <2>2, <2>3 DEF TypeInv, PurchaseTypeOK, StageInv, Stages, disk
<1>2. CASE AppendRows
  <2>1. page \in Seq(Lines) /\ work \in Seq(Lines)
    BY DEF TypeInv, PurchaseTypeOK, Lines
  <2>2. work' \in Seq(Lines) /\ lost' \in Nat /\ missed' \in Nat
    BY <1>2, <2>1 DEF AppendRows, TypeInv, PurchaseTypeOK
  <2>. QED
    BY <1>2, <2>2 DEF AppendRows, TypeInv, PurchaseTypeOK, StageInv, Stages
<1>3. CASE SaveCheckpoint
  <2>1. Signature(page) \in Seq({row.control : row \in Row})
    <3>1. /\ Len(page) \in Nat
          /\ \A i \in 1..Len(page) : page[i].control \in {row.control : row \in Row}
      BY DEF TypeInv, PurchaseTypeOK
    <3>. QED
      BY <3>1 DEF Signature
  <2>2. ck' \in Checkpoints
    <3>1. /\ ck.written + Len(page) \in Nat /\ ck.completed + 1 \in Nat
          /\ ck.next + 1 \in Nat \ {0} /\ work \in Seq(Lines)
      BY DEF TypeInv, PurchaseTypeOK, Checkpoints
    <3>. QED
      BY <1>3, <2>1, <3>1 DEF SaveCheckpoint, TypeInv, PurchaseTypeOK, Checkpoints
  <2>3. pages' \in Nat /\ (limit # None => pages' <= limit)
    BY <1>3, PurchaseAssumption DEF SaveCheckpoint, TypeInv, PurchaseTypeOK, StageInv
  <2>. QED
    BY <1>3, <2>2, <2>3 DEF SaveCheckpoint, TypeInv, PurchaseTypeOK, StageInv, Stages,
                            upstream, seen
<1>4. CASE NextPage
  <2>1. limit' # None => pages' < limit'
    BY <1>4, PurchaseAssumption DEF NextPage, LimitReached, TypeInv, PurchaseTypeOK
  <2>. QED
    BY <1>4, <2>1 DEF NextPage, TypeInv, PurchaseTypeOK, StageInv, Stages, upstream, seen, disk
<1>. QED
  BY <1>1, <1>2, <1>3, <1>4

\* The rows that are promoted can be counted.
LEMMA PromotedFacts ==
    ASSUME TypeInv, Promote
    PROVE  output' \in SUBSET Row /\ IsFiniteSet(output')
<1>1. work \in Seq(Lines) /\ ~Malformed /\ output' = {work[i] : i \in 1..Len(work)}
  BY DEF TypeInv, PurchaseTypeOK, Promote, Promotable
<1>2. \A i \in 1..Len(work) : work[i] \in Row
  BY <1>1 DEF Malformed, Lines
<1>3. IsFiniteSet(1..Len(work))
  BY <1>1, FS_Interval
<1>4. [i \in 1..Len(work) |-> work[i]] \in Surjection(1..Len(work), output')
  BY <1>1 DEF Surjection
<1>. QED
  BY <1>1, <1>2, <1>3, <1>4, FS_Surjection

\* So does the promotion.
LEMMA PromoteType ==
    ASSUME TypeInv, CloseFetch \/ Promote \/ WriteReceipt
    PROVE  TypeInv'
<1>1. CASE CloseFetch
  BY <1>1 DEF CloseFetch, TypeInv, PurchaseTypeOK, StageInv, Stages, upstream, seen, disk
<1>2. CASE Promote
  BY <1>2, PromotedFacts DEF Promote, TypeInv, PurchaseTypeOK, StageInv, Stages, upstream, seen
<1>3. CASE WriteReceipt
  <2>1. output \in SUBSET Row /\ Cardinality(output) \in Nat
    BY <1>3, FS_CardinalityType DEF WriteReceipt, TypeInv, StageInv
  <2>2. receipt' \in [total : Nat, output : SUBSET Row]
    BY <1>3, <2>1 DEF WriteReceipt
  <2>. QED
    BY <1>3, <2>2, LeaveType DEF WriteReceipt, TypeInv, PurchaseTypeOK, StageInv, upstream, seen
<1>. QED
  BY <1>1, <1>2, <1>3

\* A crash leaves part of a page in the work file at worst.
LEMMA CrashType ==
    ASSUME TypeInv, Crash
    PROVE  TypeInv'
<1>1. work' \in Seq(Lines)
  <2>1. CASE pc # "append"
    BY <2>1 DEF Crash, TypeInv, PurchaseTypeOK
  <2>2. CASE pc = "append"
    <3>1. /\ work \in Seq(Lines) /\ page \in Seq(Row) /\ Torn \in Lines
          /\ Len(page) \in Nat
      BY DEF TypeInv, PurchaseTypeOK, Lines
    <3>2. ASSUME NEW n \in 0..Len(page)
          PROVE  /\ work \o SubSeq(page, 1, n) \in Seq(Lines)
                 /\ Append(work \o SubSeq(page, 1, n), Torn) \in Seq(Lines)
      <4>1. 1 \in Int /\ n \in Int /\ \A i \in 1..n : page[i] \in Lines
        BY <3>1, <3>2 DEF Lines
      <4>2. SubSeq(page, 1, n) \in Seq(Lines)
        BY <4>1, SubSeqProperties
      <4>. QED
        BY <3>1, <4>2, ConcatProperties
    <3>3. \E n \in 0..Len(page) : \/ work' = work \o SubSeq(page, 1, n)
                                  \/ work' = Append(work \o SubSeq(page, 1, n), Torn)
      <4>1. work' \in PartOfPage
        BY <2>2 DEF Crash
      <4>2. \/ \E n \in 0..Len(page) : work' = work \o SubSeq(page, 1, n)
            \/ \E n \in 0..(Len(page) - 1) :
                  work' = Append(work \o SubSeq(page, 1, n), Torn)
        BY <4>1, Zenon DEF PartOfPage
      <4>3. 0..(Len(page) - 1) \subseteq 0..Len(page)
        BY <3>1
      <4>. QED
        BY <4>2, <4>3, Zenon
    <3>. QED
      BY <3>2, <3>3
  <2>. QED
    BY <2>1, <2>2
<1>. QED
  BY <1>1, LeaveType DEF Crash, TypeInv, PurchaseTypeOK, StageInv, upstream, seen

\* No step leaves the types.
LEMMA NextType == TypeInv /\ [Next]_vars => TypeInv'
<1>. SUFFICES ASSUME TypeInv, [Next]_vars
              PROVE  TypeInv'
  OBVIOUS
<1>1. CASE \/ Publish \/ Correct \/ Withdraw
           \/ \E reset \in BOOLEAN, max \in Limits : Start(reset, max)
  BY <1>1, StartType
<1>2. CASE Run
  BY <1>2, LoadType, StopType, PageType, PromoteType DEF Run
<1>3. CASE Crash
  BY <1>3, CrashType
<1>4. CASE UNCHANGED vars
  BY <1>4 DEF vars, upstream, seen, disk, process, TypeInv, PurchaseTypeOK, StageInv
<1>. QED
  BY <1>1, <1>2, <1>3, <1>4 DEF Next

\* Type correctness of the crawl, in whatever ways the registry and the
\* process misbehave; in particular a run never exceeds --max-pages.
THEOREM PurchaseTypeCorrect == Spec => []PurchaseTypeOK
<1>1. TypeInv => PurchaseTypeOK
  BY DEF TypeInv
<1>. QED
  BY InitType, NextType, <1>1, PTL DEF Spec

-----------------------------------------------------------------------------
(* The crawl.                                                               *)

\* The invariant holds before the first run.
LEMMA InitPurchases == Init => PurchaseInv
BY InitType DEF Init, PurchaseInv, DiskInv, RunInv, Running, Among

\* No run under way: only the disk matters.
LEMMA LeavePurchases ==
    ASSUME PurchaseInv, TypeInv', pc' \notin Running, DiskInv'
    PROVE  PurchaseInv'
BY DEF PurchaseInv, RunInv, Running

\* What ends with rows that were shown still does when more have been.
LEMMA EndsKept ==
    ASSUME NEW w, NEW n, NEW rows, NEW more, rows \subseteq more, Ends(w, n, rows)
    PROVE  Ends(w, n, more)
BY DEF Ends

\* The registry keeps the invariant, as does starting a run.
LEMMA StartPurchases ==
    ASSUME PurchaseInv, TypeInv',
           \/ Publish \/ Correct \/ Withdraw
           \/ \E reset \in BOOLEAN, max \in Limits : Start(reset, max)
    PROVE  PurchaseInv'
<1>1. CASE Publish \/ Correct \/ Withdraw
  <2>1. /\ UNCHANGED <<work, checkpoint, receipt, pc, ck, page, missed>>
        /\ PurchaseTypeOK /\ listing \in Seq(Row) \ {<<>>}
        /\ lost \in Nat /\ lost' \in Nat /\ missed \in Nat
        /\ ck \in Checkpoints /\ checkpoint \in Checkpoints \cup {None}
    BY <1>1 DEF Publish, Correct, Withdraw, disk, process, PurchaseInv, TypeInv, PurchaseTypeOK
  <2>2. shown \subseteq shown' /\ Among(listing', shown')
    <3>1. Among(listing, shown)
      BY DEF PurchaseInv, DiskInv
    <3>2. CASE Publish \/ Correct
      BY <2>1, <3>1, <3>2, PublishKeeps
    <3>3. CASE Withdraw
      BY <2>1, <3>1, <3>3, WithdrawKeeps
    <3>. QED
      BY <1>1, <3>2, <3>3
  <2>3. \A w, d : \A n \in Nat \ {0} : Covered(base, listing, w, n, d, lost)
            => Covered(base', listing', w, n, d, lost')
    <3>1. ASSUME NEW w, NEW d, NEW n \in Nat \ {0}, Covered(base, listing, w, n, d, lost)
          PROVE  Covered(base', listing', w, n, d, lost')
      <4>1. lost + 0 = lost /\ lost' + 0 = lost' /\ 0 \in Nat
        BY <2>1, PlusZero, Zenon
      <4>2. Covered(base', listing', w, n, d, lost' + 0)
        BY <1>1, <2>1, <3>1, <4>1, UpstreamKeeps
      <4>. QED
        BY <4>1, <4>2
    <3>. QED
      BY <3>1
  <2>4. \A w, d : \A n \in Nat \ {0} : Covered(base, listing, w, n, d, lost + missed)
            => Covered(base', listing', w, n, d, lost' + missed')
    BY <1>1, <2>1, UpstreamKeeps
  <2>5. /\ ck.next \in Nat \ {0} /\ ck.next + 1 \in Nat \ {0}
        /\ checkpoint # None => checkpoint.next \in Nat \ {0}
    BY <2>1 DEF Checkpoints
  <2>6. \A w, n : Ends(w, n, shown) => Ends(w, n, shown')
    BY <2>2, EndsKept
  <2>7. DiskInv'
    BY <2>1, <2>2, <2>3, <2>5, <2>6 DEF PurchaseInv, DiskInv, Advanced
  <2>8. RunInv'
    BY <2>1, <2>3, <2>4, <2>5, <2>6 DEF PurchaseInv, RunInv, Advanced
  <2>. QED
    BY <2>7, <2>8 DEF PurchaseInv
<1>2. CASE \E reset \in BOOLEAN, max \in Limits : Start(reset, max)
  <2>1. /\ pc' \notin Running /\ (checkpoint' = checkpoint \/ checkpoint' = None)
        /\ UNCHANGED upstream
    BY <1>2 DEF Start, Running
  <2>2. DiskInv'
    BY <2>1 DEF PurchaseInv, DiskInv, Advanced, upstream, seen
  <2>. QED
    BY <2>1, <2>2, LeavePurchases
<1>. QED
  BY <1>1, <1>2

\* Nothing ends any work file.
LEMMA EndsNothing ==
    \A w \in Seq(Lines) : \A rows : Ends(w, 0, rows)
BY DEF Ends

\* Loading: the checkpoint is fresh, or it fits the work file.
LEMMA LoadPurchases ==
    ASSUME PurchaseInv, TypeInv', ResetWork \/ Load \/ LoadRefused
    PROVE  PurchaseInv'
<1>1. CASE ResetWork \/ LoadRefused
  <2>1. pc' \notin Running /\ UNCHANGED <<upstream, checkpoint>>
    BY <1>1 DEF ResetWork, LoadRefused, Leave, Running, disk
  <2>2. DiskInv'
    BY <2>1 DEF PurchaseInv, DiskInv, Advanced, upstream, seen
  <2>. QED
    BY <2>1, <2>2, LeavePurchases
<1>2. CASE Load
  <2>1. /\ pc' = "fetch" /\ receipt' = None
        /\ UNCHANGED <<upstream, work, checkpoint, output, page>>
        /\ ck' = IF checkpoint = None THEN Fresh ELSE checkpoint
        /\ checkpoint # None => checkpoint.written = 0 \/ checkpoint.sha = work
    BY <1>2 DEF Load, Loadable
  <2>2. DiskInv'
    BY <2>1 DEF PurchaseInv, DiskInv, Advanced, upstream, seen
  <2>3. CASE checkpoint = None
    <3>1. ck'.next = 1 /\ ck'.written = 0 /\ checkpoint' = None
      BY <2>1, <2>3 DEF Fresh
    <3>2. RunInv'
      BY <2>1, <3>1, EndsNothing DEF PurchaseInv, TypeInv, PurchaseTypeOK, upstream, seen, RunInv, Running, Advanced
    <3>. QED
      BY <2>2, <3>2 DEF PurchaseInv
  <2>4. CASE checkpoint # None
    <3>1. ck' = checkpoint /\ checkpoint' = checkpoint /\ Advanced(checkpoint)
      BY <2>1, <2>4 DEF PurchaseInv, DiskInv
    <3>2. checkpoint.next > 1 =>
              /\ checkpoint.sha = work
              /\ Covered(base, listing, work, checkpoint.next, checkpoint.declared, lost)
              /\ Ends(work, checkpoint.written, shown)
      BY <2>1, <2>4, <3>1 DEF PurchaseInv, DiskInv, Advanced
    <3>3. checkpoint.next \in Nat \ {0} /\ (checkpoint.next = 1 => checkpoint.written = 0)
      BY <2>4, <3>1 DEF PurchaseInv, TypeInv, PurchaseTypeOK, Checkpoints, Advanced
    <3>4. Ends(work, checkpoint.written, shown)
      <4>1. CASE checkpoint.next = 1
        <5>1. work \in Seq(Lines) /\ checkpoint.written = 0
          BY <3>3, <4>1 DEF PurchaseInv, TypeInv, PurchaseTypeOK
        <5>. QED
          BY <5>1, EndsNothing
      <4>2. CASE checkpoint.next > 1
        BY <3>2, <4>2
      <4>. QED
        BY <3>3, <4>1, <4>2
    <3>5. RunInv'
      BY <2>1, <2>4, <3>1, <3>2, <3>4 DEF RunInv, Running, Advanced, upstream, seen
    <3>. QED
      BY <2>2, <3>5 DEF PurchaseInv
  <2>. QED
    BY <2>3, <2>4
<1>. QED
  BY <1>1, <1>2

\* Stopping: the checkpoint that is left behind can be resumed from.
LEMMA StopPurchases ==
    ASSUME PurchaseInv, TypeInv',
           FetchRefused \/ StopAtLimit \/ PromotionRefused \/ WriteReceipt \/ Crash
    PROVE  PurchaseInv'
<1>1. pc' \notin Running /\ UNCHANGED upstream
  BY DEF FetchRefused, Blocked, StopAtLimit, PromotionRefused, WriteReceipt, Crash, Leave,
         Running
<1>2. CASE UNCHANGED checkpoint
  <2>1. DiskInv'
    BY <1>1, <1>2 DEF PurchaseInv, DiskInv, Advanced, upstream, seen
  <2>. QED
    BY <1>1, <2>1, LeavePurchases
<1>3. CASE FetchRefused
  <2>1. pc = "fetch" /\ ck \in Checkpoints
    BY <1>3 DEF FetchRefused, Requests, PurchaseInv, TypeInv, PurchaseTypeOK
  <2>2. \E n : /\ Blocked(n)
               /\ ck.next > 1 => n = ck.declared
    <3>1. CASE Blocked(ck.declared)
      BY <3>1
    <3>2. CASE \E n \in 1..Len(listing) : CountHolds(n) /\ Blocked(n)
      <4>1. PICK n \in 1..Len(listing) : CountHolds(n) /\ Blocked(n)
        BY <3>2
      <4>2. ck.next > 1 => n = ck.declared
        BY <2>1, <4>1 DEF CountHolds, PurchaseInv, RunInv, Advanced, Running
      <4>. QED
        BY <4>1, <4>2
    <3>. QED
      BY <1>3, <3>1, <3>2 DEF FetchRefused
  <2>3. PICK n : Blocked(n) /\ (ck.next > 1 => n = ck.declared)
    BY <2>2
  <2>4. checkpoint' = [ck EXCEPT !.declared = n]
    BY <2>3 DEF Blocked
  <2>5. /\ checkpoint'.next = ck.next /\ checkpoint'.declared = n
        /\ checkpoint'.written = ck.written /\ checkpoint'.sha = ck.sha
    BY <2>1, <2>4 DEF Checkpoints
  <2>6. DiskInv'
    BY <1>1, <2>1, <2>3, <2>5 DEF PurchaseInv, DiskInv, RunInv, Running, Advanced, upstream, seen
  <2>. QED
    BY <1>1, <2>6, LeavePurchases
<1>. QED
  BY <1>2, <1>3 DEF StopAtLimit, PromotionRefused, WriteReceipt, Crash, disk

\* A page arrives. With the first, the purchases listed become those to be covered;
\* with any, those on the page leave the pages to come, and a page sent for another
\* has at most a page of them.
LEMMA FetchCovers ==
    ASSUME PurchaseInv, FetchPage,
           NEW d \in Nat \ {0}, IsPageCount(d), ck.declared \in {None, d}
    PROVE  /\ Covered(base', listing, work \o page', ck.next + 1, d, lost' + missed')
           /\ ck.next > 1 => Covered(base', listing, work, ck.next, d, lost')
<1>. DEFINE n == ck.next
            T == {c \in base' : ~Has(work, c) /\ ~Onwards(listing, n, c)}
            S == Escaped(base', listing, work \o page', n + 1, d)
<1>1. /\ n \in Nat \ {0} /\ page' \in Seq(Row) /\ page' \in Seq(Lines)
      /\ listing \in Seq(Row) /\ work \in Seq(Lines) /\ lost \in Nat
      /\ PageLength \in Nat \ {0}
      /\ \/ page' = PageRows(n) /\ missed' = 0
         \/ missed' = PageLength
      /\ IF n = 1
         THEN base' = {listing[i].control : i \in 1..Len(listing)} /\ lost' = 0
         ELSE UNCHANGED <<base, shown, lost>>
  BY FetchFacts, PurchaseAssumption DEF PurchaseInv, TypeInv, PurchaseTypeOK, Lines
<1>2. /\ n > 1 => Covered(base, listing, work, n, d, lost) /\ ck.declared = d
      /\ n > 1 => base' = base /\ lost' = lost
  <2>1. pc = "fetch" /\ Advanced(ck)
    BY DEF FetchPage, Requests, PurchaseInv, RunInv, Running
  <2>2. n > 1 => ck.declared = d
    BY <2>1 DEF Advanced
  <2>. QED
    BY <1>1, <2>1, <2>2 DEF PurchaseInv, RunInv, Running
<1>3. IsFiniteSet(T) /\ Cardinality(T) <= lost' /\ lost' \in Nat
  <2>1. CASE n = 1
    <3>1. T = {}
      <4>1. (n - 1) * PageLength = 0
        BY <1>1, <2>1
      <4>2. \A i \in 1..Len(listing) : Onwards(listing, n, listing[i].control)
        BY <4>1 DEF Onwards
      <4>. QED
        BY <1>1, <2>1, <4>2
    <3>2. lost' = 0
      BY <1>1, <2>1
    <3>3. IsFiniteSet(T) /\ Cardinality(T) = 0
      BY <3>1, FS_EmptySet
    <3>. HIDE DEF T
    <3>. QED
      BY <3>2, <3>3
  <2>2. CASE n > 1
    <3>1. /\ IsFiniteSet(Escaped(base, listing, work, n, d))
          /\ Cardinality(Escaped(base, listing, work, n, d)) <= lost
      BY <1>2, <2>2 DEF Covered
    <3>2. T \subseteq Escaped(base, listing, work, n, d)
      BY <1>2, <2>2 DEF Escaped
    <3>. HIDE DEF T
    <3>. QED
      BY <1>1, <1>2, <2>2, <3>1, <3>2, FewerFacts
  <2>. QED
    BY <1>1, <2>1, <2>2
<1>4. \A c : Has(work, c) => Has(work \o page', c)
  BY <1>1, HasAppended
<1>5. IsFiniteSet(S) /\ Cardinality(S) <= lost' + missed'
  <2>1. CASE page' = PageRows(n) /\ missed' = 0
    <3>1. \A c : Onwards(listing, n, c) =>
              \/ Has(work \o page', c)
              \/ n + 1 <= d /\ Onwards(listing, n + 1, c)
      <4>1. ASSUME NEW c, Onwards(listing, n, c), ~Has(work \o page', c)
            PROVE  n + 1 <= d /\ Onwards(listing, n + 1, c)
        <5>1. ~Has(page', c)
          BY <1>1, <4>1, HasAppended
        <5>. QED
          BY <1>1, <2>1, <4>1, <5>1, NextPageCovers
      <4>. QED
        BY <4>1
    <3>2. S \subseteq T
      BY <1>4, <3>1 DEF Escaped
    <3>3. lost' + missed' = lost'
      <4>1. lost' \in Nat /\ missed' = 0
        BY <1>3, <2>1
      <4>. QED
        BY <4>1, PlusZero, Zenon
    <3>. HIDE DEF S, T
    <3>. QED
      BY <1>3, <3>2, <3>3, FewerFacts
  <2>2. CASE missed' = PageLength
    <3>1. ASSUME NEW c, Onwards(listing, n, c), c \notin OnPage(n)
          PROVE  n + 1 <= d /\ Onwards(listing, n + 1, c)
      <4>1. PICK k \in 1..Len(listing) : (n - 1) * PageLength < k /\ listing[k].control = c
        BY <3>1 DEF Onwards
      <4>2. /\ n * PageLength \in Nat /\ d * PageLength \in Nat /\ Len(listing) \in Nat
            /\ \A e \in Nat : n * PageLength < e * PageLength => n < e
        BY <1>1, PageFacts
      <4>3. n * PageLength < k
        BY <3>1, <4>1, <4>2 DEF OnPage
      <4>4. n * PageLength < d * PageLength
        BY <4>2, <4>3 DEF IsPageCount
      <4>5. n < d /\ (n + 1) - 1 = n
        BY <1>1, <4>2, <4>4
      <4>6. n + 1 <= d
        BY <1>1, <4>5
      <4>7. ((n + 1) - 1) * PageLength < k
        BY <4>3, <4>5, Zenon
      <4>8. Onwards(listing, n + 1, c)
        BY <4>1, <4>7, Zenon DEF Onwards
      <4>. QED
        BY <4>6, <4>8
    <3>2. S \subseteq T \cup OnPage(n)
      BY <1>4, <3>1 DEF Escaped
    <3>3. IsFiniteSet(OnPage(n)) /\ Cardinality(OnPage(n)) <= PageLength
      BY <1>1, OnPageFacts
    <3>. HIDE DEF S, T
    <3>. QED
      BY <1>1, <1>3, <2>2, <3>2, <3>3, FewerFacts
  <2>. QED
    BY <1>1, <2>1, <2>2
<1>. QED
  BY <1>2, <1>5 DEF Covered

LEMMA FetchPurchases ==
    ASSUME PurchaseInv, TypeInv', FetchPage
    PROVE  PurchaseInv'
<1>. DEFINE n == ck.next
<1>1. /\ pc = "fetch" /\ pc' = "append" /\ receipt' = receipt
      /\ ck.declared # None => n <= ck.declared
      /\ UNCHANGED <<listing, work, checkpoint>>
  BY DEF FetchPage, Requests, disk
<1>2. PICK d \in Nat \ {0} : /\ IsPageCount(d) /\ ck.declared \in {None, d}
                             /\ ck' = [ck EXCEPT !.declared = d]
  BY FetchFacts DEF PurchaseInv, CountHolds
<1>3. /\ n \in Nat \ {0} /\ page' # <<>> /\ page' \in Seq(Lines)
      /\ \A rows : Among(listing, rows) => Among(page', rows)
      /\ IF n = 1
         THEN shown' = {listing[i] : i \in 1..Len(listing)}
         ELSE UNCHANGED <<base, shown, lost>>
      /\ work \in Seq(Lines) /\ ck \in Checkpoints /\ ck.written \in Nat
  <2>1. TypeInv
    BY DEF PurchaseInv
  <2>2. /\ n \in Nat \ {0} /\ page' # <<>> /\ page' \in Seq(Row)
        /\ \A rows : Among(listing, rows) => Among(page', rows)
        /\ IF n = 1
           THEN shown' = {listing[i] : i \in 1..Len(listing)}
           ELSE UNCHANGED <<base, shown, lost>>
    BY <2>1, FetchFacts
  <2>3. page' \in Seq(Lines)
    BY <2>2 DEF Lines
  <2>4. work \in Seq(Lines) /\ ck \in Checkpoints /\ ck.written \in Nat
    BY <2>1 DEF TypeInv, PurchaseTypeOK, Checkpoints
  <2>. QED
    BY <2>2, <2>3, <2>4
<1>4. /\ ck'.next = n /\ ck'.declared = d /\ ck'.written = ck.written
      /\ ck'.sha = ck.sha
  BY <1>2, <1>3 DEF Checkpoints
<1>5. /\ receipt = None /\ Advanced(ck)
      /\ n = 1 /\ checkpoint # None => checkpoint.next = 1
      /\ n > 1 => ck.sha = work
      /\ Ends(work, ck.written, shown)
      /\ Among(listing, shown)
  BY <1>1 DEF PurchaseInv, RunInv, DiskInv, Running
<1>6. d # None
  BY PurchaseAssumption
<1>7. /\ Covered(base', listing', work' \o page', n + 1, d, lost' + missed')
      /\ n > 1 => Covered(base', listing', work', n, d, lost')
  BY <1>1, <1>2, FetchCovers
<1>. HIDE DEF n, Covered
<1>8. Among(listing, shown')
  <2>1. CASE n = 1
    BY <1>3, <2>1 DEF Among
  <2>2. CASE n # 1
    BY <1>3, <1>5, <2>2
  <2>. QED
    BY <2>1, <2>2
<1>9. Ends(work, ck.written, shown')
  <2>1. CASE n = 1
    <3>1. ck.written = 0
      BY <1>5, <2>1 DEF Advanced, n
    <3>. QED
      BY <1>3, <3>1, EndsNothing
  <2>2. CASE n # 1
    BY <1>3, <1>5, <2>2
  <2>. QED
    BY <2>1, <2>2
<1>10. Ends(work \o page', ck.written + Len(page'), shown')
  <2>1. Among(page', shown')
    BY <1>3, <1>8
  <2>. QED
    BY <1>3, <1>9, <2>1, EndsAppended
<1>11. RunInv'
  <2>1. /\ n = 1 => ck.written = 0
        /\ n > 1 => ck.written # 0
    BY <1>5 DEF Advanced, n
  <2>. QED
    BY <1>1, <1>3, <1>4, <1>5, <1>6, <1>7, <1>9, <1>10, <2>1 DEF RunInv, Running, Advanced
<1>12. DiskInv'
  <2>1. CASE n = 1
    <3>1. checkpoint # None => Advanced(checkpoint) /\ checkpoint.next = 1
      BY <1>5, <2>1 DEF PurchaseInv, DiskInv
    <3>. QED
      BY <1>1, <1>8, <3>1 DEF DiskInv, Advanced
  <2>2. CASE n # 1
    BY <1>1, <1>3, <1>8, <2>2 DEF PurchaseInv, DiskInv, Advanced
  <2>. QED
    BY <2>1, <2>2
<1>. QED
  BY <1>11, <1>12 DEF PurchaseInv

\* The page is appended, then counted; another follows, or the fetch is closed.
LEMMA PagePurchases ==
    ASSUME PurchaseInv, TypeInv', AppendRows \/ SaveCheckpoint \/ NextPage \/ CloseFetch
    PROVE  PurchaseInv'
<1>. HIDE DEF Covered, Ends, Among
<1>1. /\ ck \in Checkpoints /\ ck.next \in Nat \ {0} /\ ck.written \in Nat
      /\ page \in Seq(Row) /\ lost \in Nat /\ missed \in Nat
      /\ Advanced(ck) => (ck.next = 1 => ck.written = 0)
  BY DEF PurchaseInv, TypeInv, PurchaseTypeOK, Checkpoints, Advanced
<1>2. CASE AppendRows
  <2>1. /\ pc = "append" /\ pc' = "save" /\ work' = work \o page
        /\ lost' = lost + missed
        /\ UNCHANGED <<base, shown, listing, checkpoint, receipt, ck, page>>
    BY <1>2 DEF AppendRows
  <2>2. RunInv'
    BY <2>1 DEF PurchaseInv, RunInv, Running, Advanced
  <2>3. checkpoint # None /\ checkpoint.next > 1 =>
            Covered(base, listing, checkpoint.sha, checkpoint.next, checkpoint.declared, lost')
    <3>1. ASSUME NEW w, NEW k, NEW d, Covered(base, listing, w, k, d, lost)
          PROVE  Covered(base, listing, w, k, d, lost')
      <4>1. Cardinality(Escaped(base, listing, w, k, d)) \in Nat
        BY <3>1, FS_CardinalityType DEF Covered
      <4>. QED
        BY <1>1, <2>1, <3>1, <4>1 DEF Covered
    <3>. QED
      BY <3>1 DEF PurchaseInv, DiskInv
  <2>4. DiskInv'
    BY <2>1, <2>3 DEF PurchaseInv, DiskInv, Advanced
  <2>. QED
    BY <2>2, <2>4 DEF PurchaseInv
<1>3. CASE SaveCheckpoint
  <2>1. /\ pc = "save" /\ pc' = "next" /\ checkpoint' = ck'
        /\ ck' = [ck EXCEPT !.written = @ + Len(page), !.completed = @ + 1,
                            !.next = @ + 1, !.signature = Signature(page), !.sha = work]
        /\ UNCHANGED <<base, shown, lost, listing, work, receipt, page>>
    BY <1>3 DEF SaveCheckpoint, upstream, seen
  <2>2. /\ ck'.next = ck.next + 1 /\ ck'.written = ck.written + Len(page)
        /\ ck'.sha = work /\ ck'.declared = ck.declared
    BY <1>1, <2>1 DEF Checkpoints
  <2>3. /\ receipt = None /\ page # <<>> /\ ck.declared # None
        /\ Covered(base, listing, work, ck.next + 1, ck.declared, lost)
        /\ Ends(work, ck.written + Len(page), shown)
        /\ Among(listing, shown)
    BY <2>1 DEF PurchaseInv, RunInv, DiskInv, Running
  <2>4. ck'.written # 0 /\ ck'.next # 1
    BY <1>1, <2>2, <2>3
  <2>5. RunInv' /\ DiskInv'
    BY <1>1, <2>1, <2>2, <2>3, <2>4 DEF RunInv, DiskInv, Running, Advanced
  <2>. QED
    BY <2>5 DEF PurchaseInv
<1>4. CASE NextPage
  <2>1. /\ pc = "next" /\ pc' = "fetch"
        /\ UNCHANGED <<base, shown, lost, listing, checkpoint, work, receipt, ck>>
    BY <1>4 DEF NextPage, upstream, seen, disk
  <2>2. RunInv'
    BY <2>1 DEF PurchaseInv, RunInv, Running, Advanced
  <2>. QED
    BY <2>1, <2>2 DEF PurchaseInv, DiskInv, Advanced
<1>5. CASE CloseFetch
  <2>1. /\ pc = "fetch" /\ pc' = "promote" /\ ck.declared # None
        /\ ~(ck.next <= ck.declared) /\ ck.declared \in Nat
        /\ UNCHANGED <<base, shown, lost, listing, checkpoint, work, receipt, ck>>
    BY <1>1, <1>5 DEF CloseFetch, Requests, upstream, seen, disk, Checkpoints
  <2>2. ck.next > ck.declared
    BY <1>1, <2>1
  <2>3. RunInv'
    BY <2>1, <2>2 DEF PurchaseInv, RunInv, Running, Advanced
  <2>. QED
    BY <2>1, <2>3 DEF PurchaseInv, DiskInv, Advanced
<1>. QED
  BY <1>2, <1>3, <1>4, <1>5

\* Behind the last page nothing is left: what is promoted has all but those that
\* are counted, and, because every line has been counted, nothing from before.
LEMMA PromotedFully ==
    ASSUME PurchaseInv, Promote
    PROVE  /\ Cardinality(Missing(output')) <= lost
           /\ output' \subseteq shown
<1>1. /\ pc = "promote" /\ output' = {work[i] : i \in 1..Len(work)}
      /\ ck.declared \in Nat \ {0} /\ ck.next \in Nat /\ ck.next > ck.declared
      /\ lost \in Nat /\ work \in Seq(Lines) /\ Len(work) = ck.written
  BY DEF Promote, Promotable, PurchaseInv, RunInv, TypeInv, PurchaseTypeOK, Checkpoints
<1>2. /\ Covered(base, listing, work, ck.next, ck.declared, lost)
      /\ Ends(work, ck.written, shown)
  BY <1>1 DEF PurchaseInv, RunInv, Running
<1>3. Missing(output') \subseteq Escaped(base, listing, work, ck.next, ck.declared)
  BY <1>1 DEF Missing, Escaped, Has
<1>4. Cardinality(Missing(output')) <= lost
  BY <1>1, <1>2, <1>3, FewerFacts DEF Covered
<1>5. \A i \in 1..Len(work) : work[i] \in shown
  BY <1>1, <1>2 DEF Ends
<1>. QED
  BY <1>1, <1>4, <1>5

\* Promoting changes nothing of the crawl.
LEMMA PromotePurchases ==
    ASSUME PurchaseInv, TypeInv', Promote
    PROVE  PurchaseInv'
<1>1. /\ pc = "promote" /\ pc' = "certify"
      /\ UNCHANGED <<base, shown, lost, listing, checkpoint, work, receipt, ck>>
  BY DEF Promote, upstream, seen
<1>2. RunInv'
  BY <1>1 DEF PurchaseInv, RunInv, Running, Advanced
<1>. QED
  BY <1>1, <1>2 DEF PurchaseInv, DiskInv, Advanced

\* No step leaves the invariant.
LEMMA NextPurchases == PurchaseInv /\ [Next]_vars => PurchaseInv'
<1>. SUFFICES ASSUME PurchaseInv, [Next]_vars
              PROVE  PurchaseInv'
  OBVIOUS
<1>1. TypeInv'
  BY NextType DEF PurchaseInv
<1>2. CASE \/ Publish \/ Correct \/ Withdraw
           \/ \E reset \in BOOLEAN, max \in Limits : Start(reset, max)
  BY <1>1, <1>2, StartPurchases
<1>3. CASE Run
  BY <1>1, <1>3, LoadPurchases, StopPurchases, FetchPurchases, PagePurchases,
     PromotePurchases DEF Run
<1>4. CASE Crash
  BY <1>1, <1>4, StopPurchases
<1>5. CASE UNCHANGED vars
  BY <1>1, <1>5 DEF vars, upstream, seen, disk, process, PurchaseInv, DiskInv, RunInv, Advanced
<1>. QED
  BY <1>2, <1>3, <1>4, <1>5 DEF Next

\* Only Promote goes on to certify.
LEMMA CertifySteps ==
    ASSUME Next, pc = "promote", pc' = "certify"
    PROVE  Promote
BY DEF Next, Run, Publish, Correct, Withdraw, Start, ResetWork, Load, LoadRefused,
       FetchRefused, FetchPage, AppendRows, SaveCheckpoint, NextPage, StopAtLimit,
       CloseFetch, PromotionRefused, WriteReceipt, Blocked, Crash, Leave, process

\* What was listed from page 1 to the promotion is promoted, whatever is published
\* meanwhile and however often the crawl is interrupted, but for one at most for every
\* withdrawal and a page for every page sent for another.
THEOREM PurchasesWhole == Spec => PromotedIsWhole
<1>1. PurchaseInv /\ [Next]_vars =>
          [pc = "promote" /\ pc' = "certify" => Cardinality(Missing(output')) <= lost]_vars
  BY PromotedFully, CertifySteps
<1>. QED
  BY InitPurchases, NextPurchases, <1>1, PTL DEF Spec, PromotedIsWhole

\* Nothing is promoted that the registry has not shown, in that form, since page 1 of
\* the crawl: no line that a process has left in the work file before it died.
THEOREM PurchasesShown == Spec => PromotedWasShown
<1>1. PurchaseInv /\ [Next]_vars =>
          [pc = "promote" /\ pc' = "certify" => output' \subseteq shown]_vars
  BY PromotedFully, CertifySteps
<1>. QED
  BY InitPurchases, NextPurchases, <1>1, PTL DEF Spec, PromotedWasShown

\* A step of the crawl withdraws a receipt, replaces the output, certifies the
\* output that is there, or is not seen at all.
LEMMA StepImplements ==
    ASSUME PurchaseInv, [Next]_vars
    PROVE  [Promise!Next]_(Promise!vars)
<1>1. CASE Load
  <2>1. Promise!Withdraw
    BY <1>1 DEF Load, Promise!Withdraw
  <2>. QED
    BY <2>1 DEF Promise!Next
<1>2. CASE Promote
  <2>1. receipt = None /\ receipt' = receipt
    BY <1>2 DEF Promote, PurchaseInv, RunInv, Running
  <2>2. output' \in SUBSET Row
    BY <1>2, PromotedFacts DEF PurchaseInv
  <2>. DEFINE c == [total |-> Cardinality(output'), output |-> output']
  <2>3. /\ c \in {[total |-> Cardinality(o), output |-> o] : o \in SUBSET Row}
        /\ output' = c.output
    BY <2>2
  <2>4. Promise!Replace
    BY <2>1, <2>3, Zenon DEF Promise!Replace
  <2>. QED
    BY <2>4 DEF Promise!Next
<1>3. CASE WriteReceipt
  <2>1. /\ output \in SUBSET Row /\ output' = output
        /\ receipt' = [total |-> Cardinality(output), output |-> output]
    BY <1>3 DEF WriteReceipt, PurchaseInv, TypeInv, StageInv
  <2>2. Promise!Certify
    BY <2>1 DEF Promise!Certify
  <2>. QED
    BY <2>2 DEF Promise!Next
<1>4. CASE ~Load /\ ~Promote /\ ~WriteReceipt
  <2>1. UNCHANGED <<output, receipt>>
    BY <1>4 DEF Next, Run, Publish, Correct, Withdraw, Start, ResetWork, LoadRefused, FetchRefused,
                FetchPage, AppendRows, SaveCheckpoint, NextPage, StopAtLimit, CloseFetch,
                PromotionRefused, Blocked, Crash, disk, vars
  <2>. QED
    BY <2>1 DEF Promise!vars
<1>. QED
  BY <1>1, <1>2, <1>3, <1>4

\* The crawl implements its promise: see Materialization.
THEOREM PurchasesImplement == Spec => PurchasesKeepPromise
<1>1. Init => Promise!Init
  BY DEF Init, Promise!Init
<1>2. PurchaseInv /\ [Next]_vars => [Promise!Next]_(Promise!vars)
  BY StepImplements
<1>. QED
  BY InitPurchases, NextPurchases, <1>1, <1>2, PTL
  DEF Spec, PurchasesKeepPromise, Promise!Spec

-----------------------------------------------------------------------------
(* Every run comes nearer to its end with each of its steps: the number of    *)
(* pages is fixed by the first page of the crawl, however the registry grows.  *)

\* The count is known from the first page on; a page in hand is one of it.
CountInv ==
    /\ pc \in Running \ {"fetch"} => ck.declared # None
    /\ pc \in {"append", "save"} => ck.next <= ck.declared

\* The pages that the run has still to fetch.
PagesLeft == IF ck.next <= ck.declared THEN ck.declared - ck.next + 1 ELSE 0

\* The steps to the end of a run that knows its count: four for every page, and
\* those of its stage.
StepsLeft ==
    4 * PagesLeft + CASE pc = "next"    -> 4
                      [] pc = "fetch"   -> 3
                      [] pc = "append"  -> 2
                      [] pc = "save"    -> 1
                      [] pc = "promote" -> 2
                      [] OTHER          -> 1

\* The steps from the start of a run to its first page.
Prelude == CASE pc = "reset" -> 3 [] pc = "load" -> 2 [] OTHER -> 1

InPrelude == pc \in {"reset", "load"} \/ (pc = "fetch" /\ ck.declared = None)

\* Inside a run, the first page comes nearer or, once it is there, the end; only
\* the registry may change without the run moving.
StepAdvances ==
    pc # "idle" /\ pc' # "idle" =>
        \/ Publish \/ Correct \/ Withdraw
        \/ InPrelude /\ (InPrelude' => Prelude' < Prelude)
        \/ /\ ~InPrelude /\ ~InPrelude'
           /\ ck'.declared = ck.declared
           /\ StepsLeft \in Nat /\ StepsLeft' \in Nat /\ StepsLeft' < StepsLeft

RunAdvances == [][StepAdvances]_vars

\* Every step keeps the count and the page in hand together.
LEMMA NextCount == PurchaseInv /\ CountInv /\ [Next]_vars => CountInv'
<1>. SUFFICES ASSUME PurchaseInv, CountInv, [Next]_vars
              PROVE  CountInv'
  OBVIOUS
<1>0. /\ ck \in Checkpoints /\ ck.next \in Nat \ {0}
      /\ ck.declared \in (Nat \ {0}) \cup {None}
  BY DEF PurchaseInv, TypeInv, PurchaseTypeOK, Checkpoints
<1>1. CASE FetchPage
  <2>1. PICK n \in 1..Len(listing) : CountHolds(n) /\ ck' = [ck EXCEPT !.declared = n]
    BY <1>1 DEF FetchPage
  <2>2. pc = "fetch" /\ pc' = "append" /\ (ck.declared # None => ck.next <= ck.declared)
    BY <1>1 DEF FetchPage, Requests
  <2>3. listing \in Seq(Row)
    BY DEF PurchaseInv, TypeInv, PurchaseTypeOK
  <2>4. n \in Nat \ {0} /\ n # None
    BY <2>3, PurchaseAssumption
  <2>5. ck'.next = ck.next /\ ck'.declared = n
    BY <1>0, <2>1 DEF Checkpoints
  <2>6. ck.declared = None => ck.next = 1
    BY <1>0, <2>2 DEF PurchaseInv, RunInv, Running, Advanced
  <2>7. ck.next <= n
    BY <1>0, <2>1, <2>2, <2>4, <2>6 DEF CountHolds
  <2>. QED
    BY <2>2, <2>4, <2>5, <2>7 DEF CountInv
<1>2. CASE SaveCheckpoint
  <2>1. ck'.declared = ck.declared /\ pc = "save" /\ pc' = "next"
    BY <1>0, <1>2 DEF SaveCheckpoint, Checkpoints
  <2>. QED
    BY <2>1 DEF CountInv, Running
<1>3. CASE AppendRows \/ NextPage \/ Promote
  BY <1>3 DEF AppendRows, NextPage, Promote, CountInv, Running
<1>4. CASE CloseFetch
  BY <1>4 DEF CloseFetch, Requests, CountInv
<1>5. CASE LoadRefused \/ FetchRefused \/ StopAtLimit \/ PromotionRefused \/ WriteReceipt \/ Crash
  BY <1>5 DEF LoadRefused, FetchRefused, StopAtLimit, PromotionRefused, WriteReceipt, Crash,
              Blocked, Leave, CountInv, Running
<1>6. CASE ResetWork \/ Load \/ \E reset \in BOOLEAN, max \in Limits : Start(reset, max)
  BY <1>6 DEF ResetWork, Load, Start, CountInv, Running
<1>7. CASE Publish \/ Correct \/ Withdraw \/ UNCHANGED vars
  BY <1>7 DEF Publish, Correct, Withdraw, vars, process, CountInv
<1>. QED
  BY <1>1, <1>2, <1>3, <1>4, <1>5, <1>6, <1>7 DEF Next, Run

\* The steps of a run whose count is known.
LEMMA PageAdvances ==
    ASSUME PurchaseInv, CountInv, ck.declared # None,
           FetchPage \/ AppendRows \/ SaveCheckpoint \/ NextPage \/ CloseFetch \/ Promote
    PROVE  /\ ~InPrelude /\ ~InPrelude' /\ ck'.declared = ck.declared
           /\ StepsLeft \in Nat /\ StepsLeft' \in Nat /\ StepsLeft' < StepsLeft
<1>1. /\ ck \in Checkpoints /\ ck.declared \in Nat \ {0} /\ ck.next \in Nat \ {0}
  BY DEF PurchaseInv, TypeInv, PurchaseTypeOK, Checkpoints
<1>2. PagesLeft \in Nat
  BY <1>1 DEF PagesLeft
<1>3. CASE FetchPage
  <2>0. PICK n \in 1..Len(listing) : CountHolds(n) /\ ck' = [ck EXCEPT !.declared = n]
    BY <1>3 DEF FetchPage
  <2>1. pc = "fetch" /\ pc' = "append" /\ n = ck.declared
    BY <1>3, <2>0 DEF FetchPage, Requests, CountHolds
  <2>2. ck'.declared = ck.declared /\ ck'.next = ck.next
    BY <1>1, <2>0, <2>1 DEF Checkpoints
  <2>3. PagesLeft' = PagesLeft
    BY <2>2 DEF PagesLeft
  <2>. QED
    BY <1>2, <2>1, <2>2, <2>3 DEF StepsLeft, InPrelude
<1>4. CASE SaveCheckpoint
  <2>1. /\ pc = "save" /\ pc' = "next"
        /\ ck'.declared = ck.declared /\ ck'.next = ck.next + 1
    BY <1>1, <1>4 DEF SaveCheckpoint, Checkpoints
  <2>2. ck.next <= ck.declared
    BY <2>1 DEF CountInv
  <2>3. PagesLeft' = PagesLeft - 1 /\ PagesLeft' \in Nat
    BY <1>1, <2>1, <2>2 DEF PagesLeft
  <2>. QED
    BY <1>2, <2>1, <2>3 DEF StepsLeft, InPrelude
<1>5. CASE AppendRows \/ NextPage
  <2>1. /\ \/ pc = "append" /\ pc' = "save"
           \/ pc = "next" /\ pc' = "fetch"
        /\ ck' = ck
    BY <1>5 DEF AppendRows, NextPage
  <2>2. PagesLeft' = PagesLeft
    BY <2>1 DEF PagesLeft
  <2>. QED
    BY <1>2, <2>1, <2>2 DEF StepsLeft, InPrelude
<1>6. CASE CloseFetch \/ Promote
  <2>1. /\ \/ pc = "fetch" /\ pc' = "promote"
           \/ pc = "promote" /\ pc' = "certify"
        /\ ck' = ck
    BY <1>6 DEF CloseFetch, Promote
  <2>2. PagesLeft' = PagesLeft
    BY <2>1 DEF PagesLeft
  <2>. QED
    BY <1>2, <2>1, <2>2 DEF StepsLeft, InPrelude
<1>. QED
  BY <1>3, <1>4, <1>5, <1>6

\* A run of the purchase crawl comes nearer to its end with every step, although
\* purchases are published while it pages (run's loop ends at the count that the
\* first page told, at --max-pages, and at any other count).
THEOREM PurchaseRunsAdvance == Spec => RunAdvances
<1>1. Init => CountInv
  BY DEF Init, CountInv, Running
<1>2. PurchaseInv /\ CountInv /\ [Next]_vars => [StepAdvances]_vars
  <2>. SUFFICES ASSUME PurchaseInv, CountInv, Next, pc # "idle", pc' # "idle",
                       ~Publish, ~Correct, ~Withdraw
                PROVE  \/ InPrelude /\ (InPrelude' => Prelude' < Prelude)
                       \/ /\ ~InPrelude /\ ~InPrelude'
                          /\ ck'.declared = ck.declared
                          /\ StepsLeft \in Nat /\ StepsLeft' \in Nat
                          /\ StepsLeft' < StepsLeft
    BY DEF StepAdvances
  <2>1. Run
    <3>1. ~Crash /\ \A reset \in BOOLEAN, max \in Limits : ~Start(reset, max)
      BY DEF Crash, Leave, Start
    <3>. QED
      BY <3>1 DEF Next
  <2>2. CASE ResetWork \/ Load
    BY <2>2 DEF ResetWork, Load, InPrelude, Prelude
  <2>3. CASE FetchPage /\ ck.declared = None
    BY <2>3 DEF FetchPage, Requests, InPrelude
  <2>4. CASE /\ ck.declared # None
             /\ FetchPage \/ AppendRows \/ SaveCheckpoint \/ NextPage \/ CloseFetch \/ Promote
    BY <2>4, PageAdvances
  <2>5. ~(LoadRefused \/ FetchRefused \/ StopAtLimit \/ PromotionRefused \/ WriteReceipt)
    BY DEF LoadRefused, FetchRefused, StopAtLimit, PromotionRefused, WriteReceipt, Blocked,
           Leave
  <2>6. AppendRows \/ SaveCheckpoint \/ NextPage \/ CloseFetch \/ Promote
          => ck.declared # None
    BY DEF AppendRows, SaveCheckpoint, NextPage, CloseFetch, Promote, Requests, CountInv,
           Running
  <2>. QED
    BY <2>1, <2>2, <2>3, <2>4, <2>5, <2>6 DEF Run
<1>. QED
  BY InitPurchases, NextPurchases, NextCount, <1>1, <1>2, PTL DEF Spec, RunAdvances
=============================================================================
