--------------------------- MODULE ConMemPoolProofs ---------------------------
(***************************************************************************)
(* Proofs about ConMemPool and the page cache below it, for any number of  *)
(* threads, pages and pieces in use, any page size, and any sizes and      *)
(* batches the page cache can serve.                                       *)
(***************************************************************************)
EXTENDS ConMemPool, SequenceTheorems, FiniteSetTheorems, FunctionTheorems,
        WellFoundedInduction, TLAPS

-----------------------------------------------------------------------------
(* Lists of distinct elements, as the intrusive lists of the allocator.    *)
Elems(q) == {q[i] : i \in DOMAIN q}
Distinct(q) == \A i, j \in DOMAIN q : q[i] = q[j] => i = j

(* The first element and the others.                                       *)
LEMMA HeadOff ==
    ASSUME NEW S, NEW q \in Seq(S), q # <<>>, Distinct(q)
    PROVE  /\ Head(q) \in S /\ Head(q) = q[1] /\ Tail(q) \in Seq(S) /\ Distinct(Tail(q))
           /\ 1 \in DOMAIN q /\ Head(q) \in Elems(q)
           /\ Elems(Tail(q)) = Elems(q) \ {Head(q)}
           /\ Len(Tail(q)) = Len(q) - 1
<1>1. /\ Len(q) \in Nat \ {0} /\ DOMAIN q = 1..Len(q)
      /\ Head(q) \in S /\ Tail(q) \in Seq(S) /\ Len(Tail(q)) = Len(q) - 1
      /\ \A i \in 1..Len(Tail(q)) : Tail(q)[i] = q[i + 1]
      /\ DOMAIN Tail(q) = 1..Len(Tail(q)) /\ Head(q) = q[1]
  BY HeadTailProperties, LenProperties, EmptySeq
<1>2. Distinct(Tail(q))
  BY <1>1 DEF Distinct
<1>3. \A i \in 2..Len(q) : i - 1 \in 1..Len(Tail(q)) /\ Tail(q)[i - 1] = q[i]
  BY <1>1
<1>4. Elems(Tail(q)) \subseteq Elems(q) \ {Head(q)}
  BY <1>1 DEF Elems, Distinct
<1>5. Elems(q) \ {Head(q)} \subseteq Elems(Tail(q))
  <2> SUFFICES ASSUME NEW i \in 1..Len(q), q[i] # q[1] PROVE q[i] \in Elems(Tail(q))
    BY <1>1 DEF Elems
  <2>1. i - 1 \in DOMAIN Tail(q) /\ Tail(q)[i - 1] = q[i]
    BY <1>1, <1>3
  <2> QED BY <2>1 DEF Elems
<1>6. 1 \in DOMAIN q /\ Head(q) \in Elems(q)
  BY <1>1 DEF Elems
<1> QED BY <1>1, <1>2, <1>4, <1>5, <1>6

(* One list before another that shares no element with it.                 *)
LEMMA Joined ==
    ASSUME NEW S, NEW p \in Seq(S), NEW q \in Seq(S), Distinct(p), Distinct(q),
           Elems(p) \cap Elems(q) = {}
    PROVE  /\ p \o q \in Seq(S) /\ Distinct(p \o q)
           /\ Elems(p \o q) = Elems(p) \cup Elems(q)
           /\ Len(p \o q) = Len(p) + Len(q)
<1>1. /\ p \o q \in Seq(S) /\ Len(p \o q) = Len(p) + Len(q)
      /\ \A i \in 1..Len(p) + Len(q) :
             (p \o q)[i] = IF i <= Len(p) THEN p[i] ELSE q[i - Len(p)]
      /\ DOMAIN p = 1..Len(p) /\ DOMAIN q = 1..Len(q)
      /\ DOMAIN (p \o q) = 1..Len(p) + Len(q)
      /\ Len(p) \in Nat /\ Len(q) \in Nat
  BY ConcatProperties, LenProperties
<1> HIDE DEF Elems, Distinct
<1>2. ASSUME NEW i \in DOMAIN (p \o q)
      PROVE  \/ i \in DOMAIN p /\ (p \o q)[i] = p[i]
             \/ i - Len(p) \in DOMAIN q /\ i > Len(p) /\ (p \o q)[i] = q[i - Len(p)]
  BY <1>1
<1>3. Elems(p \o q) \subseteq Elems(p) \cup Elems(q)
  BY <1>2 DEF Elems
<1>4. Elems(p) \subseteq Elems(p \o q)
  BY <1>1 DEF Elems
<1>5. ASSUME NEW j \in DOMAIN q PROVE j + Len(p) \in DOMAIN (p \o q) /\ (p \o q)[j + Len(p)] = q[j]
  BY <1>1
<1>6. Elems(q) \subseteq Elems(p \o q)
  BY <1>5 DEF Elems
<1>7. Distinct(p \o q)
  <2> SUFFICES ASSUME NEW i \in DOMAIN (p \o q), NEW j \in DOMAIN (p \o q),
                      (p \o q)[i] = (p \o q)[j]
               PROVE  i = j
    BY DEF Distinct
  <2>1. i \in Int /\ j \in Int
    BY <1>1
  <2>2. CASE i \in DOMAIN p /\ (p \o q)[i] = p[i]
    <3>1. CASE j \in DOMAIN p /\ (p \o q)[j] = p[j]
      BY <2>2, <3>1 DEF Distinct
    <3>2. CASE j - Len(p) \in DOMAIN q /\ (p \o q)[j] = q[j - Len(p)]
      BY <2>2, <3>2 DEF Elems
    <3> QED BY <1>2, <3>1, <3>2
  <2>3. CASE i - Len(p) \in DOMAIN q /\ i > Len(p) /\ (p \o q)[i] = q[i - Len(p)]
    <3>1. CASE j \in DOMAIN p /\ (p \o q)[j] = p[j]
      BY <2>3, <3>1 DEF Elems
    <3>2. CASE j - Len(p) \in DOMAIN q /\ (p \o q)[j] = q[j - Len(p)]
      <4>1. i - Len(p) = j - Len(p)
        BY <2>3, <3>2 DEF Distinct
      <4> QED BY <4>1, <2>1, <1>1
    <3> QED BY <1>2, <3>1, <3>2
  <2> QED BY <1>2, <2>2, <2>3
<1> QED BY <1>1, <1>3, <1>4, <1>6, <1>7

(* A list that begins with one more element.                               *)
LEMMA Pushed ==
    ASSUME NEW S, NEW a \in S, NEW q \in Seq(S), Distinct(q), a \notin Elems(q)
    PROVE  /\ <<a>> \o q \in Seq(S) /\ Distinct(<<a>> \o q)
           /\ Elems(<<a>> \o q) = Elems(q) \cup {a}
           /\ Len(<<a>> \o q) = Len(q) + 1
<1> DEFINE p == <<a>>
<1>1. p \in Seq(S) /\ Len(p) = 1 /\ p[1] = a /\ DOMAIN p = 1..1
  OBVIOUS
<1> HIDE DEF p
<1>2. Distinct(p) /\ Elems(p) = {a}
  BY <1>1 DEF Distinct, Elems
<1>3. /\ p \in Seq(S) /\ q \in Seq(S) /\ Distinct(p) /\ Distinct(q)
      /\ Elems(p) \cap Elems(q) = {}
  BY <1>1, <1>2
<1>5. /\ p \o q \in Seq(S) /\ Distinct(p \o q)
      /\ Elems(p \o q) = Elems(p) \cup Elems(q)
      /\ Len(p \o q) = Len(p) + Len(q)
  BY ONLY <1>3, Joined
<1>4. Len(q) \in Nat
  BY LenProperties
<1> QED BY <1>1, <1>2, <1>4, <1>5 DEF p

(* A stretch of a list.                                                    *)
LEMMA Stretch ==
    ASSUME NEW S, NEW q \in Seq(S), NEW m \in Nat, NEW n \in Nat,
           1 <= m, m <= n + 1, n <= Len(q)
    PROVE  /\ SubSeq(q, m, n) \in Seq(S) /\ Len(SubSeq(q, m, n)) = n - m + 1
           /\ \A i \in 1 .. n - m + 1 : SubSeq(q, m, n)[i] = q[m + i - 1]
<1>1. Len(q) \in Nat /\ \A i \in 1..Len(q) : q[i] \in S
  BY LenProperties, ElementOfSeq
<1>2. \A i \in m..n : q[i] \in S
  BY <1>1
<1>3. /\ SubSeq(q, m, n) \in Seq(S)
      /\ Len(SubSeq(q, m, n)) = IF m <= n THEN n - m + 1 ELSE 0
      /\ \A i \in 1 .. n - m + 1 : SubSeq(q, m, n)[i] = q[m + i - 1]
  BY <1>2, SubSeqProperties
<1> QED BY <1>3

(* The two parts of a list cut after n elements.                           *)
LEMMA Cut ==
    ASSUME NEW S, NEW q \in Seq(S), NEW n \in 0..Len(q)
    PROVE  /\ SubSeq(q, 1, n) \in Seq(S) /\ Len(SubSeq(q, 1, n)) = n
           /\ \A i \in 1..n : SubSeq(q, 1, n)[i] = q[i]
           /\ SubSeq(q, n + 1, Len(q)) \in Seq(S)
           /\ Len(SubSeq(q, n + 1, Len(q))) = Len(q) - n
           /\ \A i \in 1..Len(q) - n : SubSeq(q, n + 1, Len(q))[i] = q[n + i]
<1> DEFINE p == SubSeq(q, 1, n)
           r == SubSeq(q, n + 1, Len(q))
<1>0. Len(q) \in Nat /\ DOMAIN q = 1..Len(q) /\ n \in Nat /\ n <= Len(q)
      /\ \A i \in 1..Len(q) : q[i] \in S
  BY LenProperties, ElementOfSeq
<1>1. p \in Seq(S) /\ Len(p) = n /\ \A i \in 1..n : p[i] = q[i]
  <2>1. /\ p \in Seq(S) /\ Len(p) = IF 1 <= n THEN n - 1 + 1 ELSE 0
        /\ \A i \in 1 .. n - 1 + 1 : p[i] = q[1 + i - 1]
    BY <1>0, SubSeqProperties, 1 \in Int, n \in Int
  <2> QED BY <2>1, <1>0
<1>2. r \in Seq(S) /\ Len(r) = Len(q) - n /\ \A i \in 1..Len(q) - n : r[i] = q[n + i]
  <2>1. PICK m \in Nat : m = n + 1
    BY <1>0
  <2>2. /\ SubSeq(q, m, Len(q)) \in Seq(S) /\ Len(SubSeq(q, m, Len(q))) = Len(q) - m + 1
        /\ \A i \in 1 .. Len(q) - m + 1 : SubSeq(q, m, Len(q))[i] = q[m + i - 1]
    <3>1. 1 <= m /\ m <= Len(q) + 1 /\ Len(q) <= Len(q)
      BY <1>0, <2>1
    <3>2. m \in Nat /\ Len(q) \in Nat
      BY <1>0
    <3> QED BY <3>1, <3>2, Stretch, Zenon
  <2>3. Len(q) - m + 1 = Len(q) - n /\ \A i \in Int : m + i - 1 = n + i
    BY <1>0, <2>1
  <2>4. r = SubSeq(q, m, Len(q))
    BY <2>1
  <2> HIDE DEF r
  <2> QED BY <2>2, <2>3, <2>4
<1> QED BY <1>1, <1>2 DEF p, r

(* A list cut in two.                                                      *)
LEMMA CutInTwo ==
    ASSUME NEW S, NEW q \in Seq(S), Distinct(q), NEW n \in 0..Len(q)
    PROVE  LET p == SubSeq(q, 1, n)
               r == SubSeq(q, n + 1, Len(q))
           IN  /\ p \in Seq(S) /\ r \in Seq(S) /\ Distinct(p) /\ Distinct(r)
               /\ Len(p) = n /\ Len(r) = Len(q) - n
               /\ Elems(p) = {q[i] : i \in 1..n}
               /\ Elems(r) = {q[i] : i \in n + 1 .. Len(q)}
               /\ Elems(p) \cup Elems(r) = Elems(q) /\ Elems(p) \cap Elems(r) = {}
               /\ \A i \in 1..n : p[i] = q[i]
               /\ \A i \in 1..Len(q) - n : r[i] = q[n + i]
<1> DEFINE p == SubSeq(q, 1, n)
           r == SubSeq(q, n + 1, Len(q))
<1>0. Len(q) \in Nat /\ DOMAIN q = 1..Len(q) /\ n \in Nat /\ n <= Len(q)
      /\ \A i \in 1..Len(q) : q[i] \in S
  BY LenProperties, ElementOfSeq
<1>1. p \in Seq(S) /\ Len(p) = n /\ \A i \in 1..n : p[i] = q[i]
  BY Cut
<1>2. r \in Seq(S) /\ Len(r) = Len(q) - n /\ \A i \in 1..Len(q) - n : r[i] = q[n + i]
  BY Cut
<1>3. DOMAIN p = 1..n /\ DOMAIN r = 1..Len(q) - n
  BY <1>1, <1>2, LenProperties
<1> HIDE DEF p, r
<1>4. Elems(p) = {q[i] : i \in 1..n}
  BY <1>0, <1>1, <1>3 DEF Elems
<1>5. \A i \in n + 1 .. Len(q) : i - n \in DOMAIN r /\ r[i - n] = q[i]
  BY <1>0, <1>2, <1>3
<1>6. \A i \in DOMAIN r : n + i \in n + 1 .. Len(q) /\ r[i] = q[n + i]
  BY <1>0, <1>2, <1>3
<1>7. Elems(r) = {q[i] : i \in n + 1 .. Len(q)}
  BY <1>5, <1>6 DEF Elems
<1>8. Distinct(p)
  BY <1>0, <1>1, <1>3 DEF Distinct
<1>9. Distinct(r)
  <2> SUFFICES ASSUME NEW i \in DOMAIN r, NEW j \in DOMAIN r, r[i] = r[j] PROVE i = j
    BY DEF Distinct
  <2>1. n + i = n + j
    BY <1>0, <1>6 DEF Distinct
  <2> QED BY <2>1, <1>0, <1>3
<1>10. Elems(p) \cup Elems(r) = Elems(q)
  <2>1. \A i \in 1..Len(q) : i \in 1..n \/ i \in n + 1 .. Len(q)
    BY <1>0
  <2>2. \A i \in 1..n : i \in 1..Len(q)
    BY <1>0
  <2>3. \A i \in n + 1 .. Len(q) : i \in 1..Len(q)
    BY <1>0
  <2> QED BY <1>0, <1>4, <1>7, <2>1, <2>2, <2>3 DEF Elems
<1>11. Elems(p) \cap Elems(r) = {}
  BY <1>0, <1>4, <1>7 DEF Distinct
<1> QED BY <1>1, <1>2, <1>4, <1>7, <1>8, <1>9, <1>10, <1>11 DEF p, r

(* An element unlinked.                                                    *)
LEMMA Unlinked ==
    ASSUME NEW S, NEW q \in Seq(S), Distinct(q), NEW s \in Elems(q)
    PROVE  /\ Without(q, s) \in Seq(S) /\ Distinct(Without(q, s))
           /\ Elems(Without(q, s)) = Elems(q) \ {s}
<1> DEFINE k == CHOOSE i \in DOMAIN q : q[i] = s
<1>1. k \in DOMAIN q /\ q[k] = s
  BY DEF Elems
<1> HIDE DEF k
<1>2. Len(q) \in Nat /\ DOMAIN q = 1..Len(q) /\ k \in 1..Len(q) /\ k - 1 \in 0..Len(q)
      /\ k \in 0..Len(q) /\ k - 1 + 1 = k
  BY <1>1, LenProperties
<1> DEFINE p == SubSeq(q, 1, k - 1)
           r == SubSeq(q, k + 1, Len(q))
<1>3. p \in Seq(S) /\ Distinct(p) /\ Elems(p) = {q[i] : i \in 1..k - 1}
  <2>1. PICK m \in 0..Len(q) : m = k - 1
    BY <1>2
  <2>2. /\ SubSeq(q, 1, m) \in Seq(S) /\ Distinct(SubSeq(q, 1, m))
        /\ Elems(SubSeq(q, 1, m)) = {q[i] : i \in 1..m}
    BY CutInTwo
  <2> QED BY <2>1, <2>2
<1>4. r \in Seq(S) /\ Distinct(r) /\ Elems(r) = {q[i] : i \in k + 1 .. Len(q)}
  BY <1>2, CutInTwo
<1> HIDE DEF p, r
<1>5. Elems(p) \cap Elems(r) = {}
  BY <1>2, <1>3, <1>4 DEF Distinct
<1>6. Elems(p) \cup Elems(r) = Elems(q) \ {s}
  <2>1. ASSUME NEW i \in 1..Len(q), q[i] # s PROVE i \in 1..k - 1 \/ i \in k + 1 .. Len(q)
    BY <1>1, <1>2, <2>1
  <2>2. \A i \in 1..k - 1 : i \in 1..Len(q) /\ q[i] # s
    BY <1>1, <1>2 DEF Distinct
  <2>3. \A i \in k + 1 .. Len(q) : i \in 1..Len(q) /\ q[i] # s
    BY <1>1, <1>2 DEF Distinct
  <2> QED BY <1>2, <1>3, <1>4, <2>1, <2>2, <2>3 DEF Elems
<1>7. Without(q, s) = p \o r
  BY DEF Without, k, p, r
<1>8. p \o r \in Seq(S) /\ Distinct(p \o r) /\ Elems(p \o r) = Elems(p) \cup Elems(r)
  <2>1. p \in Seq(S) /\ Distinct(p)
    BY <1>3
  <2>2. r \in Seq(S) /\ Distinct(r)
    BY <1>4
  <2> HIDE DEF Elems, Distinct
  <2> QED BY <2>1, <2>2, <1>5, Joined
<1> QED BY <1>6, <1>7, <1>8

-----------------------------------------------------------------------------
(* Positions.                                                              *)
Earlier == {p \in Nat \X Nat : p[1] < p[2]}

(* A non-empty set of numbers has a least one: the list AllocatePages cuts *)
(* from, the span Fetch takes from, the smaller of two numbers.            *)
LEMMA MinIsMember ==
    ASSUME NEW W \in SUBSET Nat, W # {}
    PROVE  Min(W) \in W /\ \A y \in W : Min(W) <= y
<1>1. IsWellFoundedOn(OpToRel(<,Nat), Nat) /\ OpToRel(<,Nat) = Earlier
  BY NatLessThanWellFounded DEF OpToRel, Earlier
<1>2. PICK x \in W : \A y \in W : ~(<<y, x>> \in Earlier)
  BY <1>1, WFMin
<1>3. ASSUME NEW y \in W PROVE x <= y
  <2>1. ~(<<y, x>> \in Earlier) /\ x \in Nat /\ y \in Nat /\ <<y, x>> \in Nat \X Nat
    BY <1>2
  <2>2. ~(y < x)
    BY <2>1 DEF Earlier
  <2> QED BY <2>1, <2>2
<1> QED BY <1>3 DEF Min

-----------------------------------------------------------------------------
(* Bytes, pages and blocks.                                                *)
LEMMA Products ==
    ASSUME NEW a \in Nat, NEW b \in Nat, NEW c \in Nat
    PROVE  /\ a * c \in Nat /\ (a + b) * c = a * c + b * c
           /\ a <= b => a * c <= b * c
           /\ a < b => a * c + c <= b * c
<1>1. a * c \in Nat /\ (a + b) * c = a * c + b * c
  OBVIOUS
<1>2. ASSUME a <= b PROVE a * c <= b * c
  BY <1>2
<1>3. ASSUME a < b PROVE a * c + c <= b * c
  BY <1>3
<1> QED BY <1>1, <1>2, <1>3

LEMMA Quotients ==
    ASSUME NEW a \in Nat, NEW c \in Nat \ {0}
    PROVE  /\ a \div c \in Nat /\ (a \div c) * c <= a /\ a < (a \div c) * c + c
           /\ \A g \in Nat : g * c <= a /\ a < g * c + c => a \div c = g
<1>1. a \div c \in Nat /\ (a \div c) * c <= a /\ a < (a \div c) * c + c
  OBVIOUS
<1>2. ASSUME NEW g \in Nat, g * c <= a, a < g * c + c PROVE a \div c = g
  BY <1>2
<1> QED BY <1>1, <1>2

(* Where a span begins and ends, in bytes.                                 *)
First(span) == span.page_id * PageSize
Beyond(span) == (span.page_id + span.page_count) * PageSize
Placed(span) == span.page_id \in Nat /\ span.page_count \in Nat

LEMMA SpanEnds ==
    ASSUME NEW span, Placed(span)
    PROVE  /\ First(span) \in Nat /\ Beyond(span) \in Nat /\ SpanBytes(span) \in Nat
           /\ Beyond(span) = First(span) + SpanBytes(span)
BY Products, PageAssumption DEF Placed, First, Beyond, SpanBytes

(* The page of a byte of a span is one of its pages.                       *)
LEMMA PageOfByte ==
    ASSUME NEW span, Placed(span), NEW a \in Nat, First(span) <= a, a < Beyond(span)
    PROVE  a \div PageSize \in PagesOf(span)
<1> DEFINE g == a \div PageSize
<1>1. g \in Nat /\ g * PageSize <= a /\ a < g * PageSize + PageSize
  BY Quotients, PageAssumption
<1> HIDE DEF g
<1>2. span.page_id <= g
  <2> SUFFICES ASSUME g < span.page_id PROVE FALSE
    BY <1>1 DEF Placed
  <2>1. g * PageSize + PageSize <= span.page_id * PageSize
    BY <1>1, Products, PageAssumption DEF Placed
  <2> QED BY <1>1, <2>1, Products, PageAssumption DEF Placed, First
<1>3. g < span.page_id + span.page_count
  <2> SUFFICES ASSUME span.page_id + span.page_count <= g PROVE FALSE
    BY <1>1 DEF Placed
  <2>1. (span.page_id + span.page_count) * PageSize <= g * PageSize
    BY <1>1, Products, PageAssumption DEF Placed
  <2> QED BY <1>1, <2>1, Products, PageAssumption DEF Placed, Beyond
<1> QED BY <1>1, <1>2, <1>3 DEF PagesOf, Placed, g

(* The bytes of a span of pages are addresses.                             *)
LEMMA ByteIsAddress ==
    ASSUME NEW span, Placed(span), PagesOf(span) \subseteq Pages, span.page_count > 0,
           NEW a \in Nat, First(span) <= a, a < Beyond(span)
    PROVE  a \in Addresses
<1>1. span.page_id \in PagesOf(span) /\ span.page_id + span.page_count - 1 \in PagesOf(span)
  BY DEF PagesOf, Placed
<1>2. 1 <= span.page_id /\ span.page_id + span.page_count <= NumPages + 1
  BY <1>1, PageAssumption DEF Pages, Placed
<1>3. PageSize <= First(span)
  BY <1>2, Products, PageAssumption DEF First, Placed
<1>4. Beyond(span) <= (NumPages + 1) * PageSize
  BY <1>2, Products, PageAssumption DEF Beyond, Placed
<1>5. (NumPages + 1) * PageSize \in Nat /\ First(span) \in Nat /\ Beyond(span) \in Nat
  BY Products, SpanEnds, PageAssumption
<1> QED BY <1>3, <1>4, <1>5, PageAssumption DEF Addresses

(* Spans without a common page have no common byte.                        *)
LEMMA SpansApart ==
    ASSUME NEW span, Placed(span), NEW other, Placed(other),
           span.page_count > 0, other.page_count > 0,
           PagesOf(span) \cap PagesOf(other) = {}
    PROVE  Beyond(span) <= First(other) \/ Beyond(other) <= First(span)
<1>1. span.page_id \in PagesOf(span) /\ other.page_id \in PagesOf(other)
  BY DEF PagesOf, Placed
<1>2. \/ span.page_id + span.page_count <= other.page_id
      \/ other.page_id + other.page_count <= span.page_id
  BY <1>1 DEF PagesOf, Placed
<1> QED BY <1>2, Products, PageAssumption DEF First, Beyond, Placed

(* The pages asked for hold the bytes.                                     *)
LEMMA PagesHold ==
    ASSUME NEW n \in Nat \ {0}
    PROVE  PagesFor(n) \in Nat \ {0} /\ n <= PagesFor(n) * PageSize
<1> DEFINE m == n + PageSize - 1
           g == m \div PageSize
<1>1. m \in Nat
  BY PageAssumption
<1>2. g \in Nat /\ g * PageSize <= m /\ m < g * PageSize + PageSize
  BY <1>1, Quotients, PageAssumption
<1>3. g # 0
  BY <1>2, PageAssumption
<1>4. g * PageSize \in Nat
  BY <1>2, PageAssumption, Products
<1> HIDE DEF g
<1>5. n <= g * PageSize
  BY <1>2, <1>4, PageAssumption
<1> QED BY <1>2, <1>3, <1>5 DEF PagesFor, g

(* The blocks of a span lie in it and in no other block.                   *)
LEMMA WholeIsWhole ==
    ASSUME NEW span, Placed(span), NEW size \in Nat \ {0}
    PROVE  WholeBlocks(span, size) \in Nat /\ WholeBlocks(span, size) * size <= SpanBytes(span)
BY SpanEnds, Quotients DEF WholeBlocks

LEMMA BlockInSpan ==
    ASSUME NEW span, Placed(span), NEW size \in Nat \ {0}, NEW a \in BlocksOf(span, size)
    PROVE  /\ a \in Nat /\ First(span) <= a /\ a + size <= Beyond(span)
           /\ a \div PageSize \in PagesOf(span)
<1>1. PICK i \in 1..WholeBlocks(span, size) : a = First(span) + (i - 1) * size
  BY DEF BlocksOf, First
<1>2. WholeBlocks(span, size) \in Nat /\ WholeBlocks(span, size) * size <= SpanBytes(span)
  BY WholeIsWhole
<1>3. /\ i - 1 \in Nat /\ (i - 1) * size \in Nat
      /\ (i - 1) * size + size <= WholeBlocks(span, size) * size
  <2>1. i - 1 \in Nat /\ i - 1 < WholeBlocks(span, size)
    BY <1>2
  <2> QED BY <1>2, <2>1, Products
<1>4. First(span) \in Nat /\ Beyond(span) \in Nat /\ SpanBytes(span) \in Nat
      /\ Beyond(span) = First(span) + SpanBytes(span)
  BY SpanEnds
<1>5. WholeBlocks(span, size) * size \in Nat
  BY <1>2, Products
<1>6. a \in Nat /\ First(span) <= a /\ a + size <= Beyond(span)
  BY <1>1, <1>2, <1>3, <1>4, <1>5
<1>7. a < Beyond(span)
  BY <1>4, <1>6
<1> QED BY <1>6, <1>7, PageOfByte

LEMMA BlocksApart ==
    ASSUME NEW span, Placed(span), NEW size \in Nat \ {0},
           NEW a \in BlocksOf(span, size), NEW b \in BlocksOf(span, size), a # b
    PROVE  a + size <= b \/ b + size <= a
<1>1. PICK i \in 1..WholeBlocks(span, size) : a = First(span) + (i - 1) * size
  BY DEF BlocksOf, First
<1>2. PICK j \in 1..WholeBlocks(span, size) : b = First(span) + (j - 1) * size
  BY DEF BlocksOf, First
<1>3. First(span) \in Nat /\ i \in Nat /\ j \in Nat /\ i - 1 \in Nat /\ j - 1 \in Nat
  BY SpanEnds, WholeIsWhole
<1>5. i # j
  BY <1>1, <1>2
<1>4. /\ i < j => (i - 1) * size + size <= (j - 1) * size
      /\ j < i => (j - 1) * size + size <= (i - 1) * size
      /\ (i - 1) * size \in Nat /\ (j - 1) * size \in Nat
  BY <1>3, Products
<1> QED BY <1>1, <1>2, <1>3, <1>4, <1>5

-----------------------------------------------------------------------------
(* The heap.  Its pages are divided among the spans and the map leads to   *)
(* them; the lists hold the free spans, those of X excepted: FreePages     *)
(* has a span in its hands that is free and not listed yet.                *)
HeapType == [span : [SpanIds -> Span], map : [Pages -> SpanIds \cup {0}],
             lists : [1..kMaxPageCount -> Seq(SpanIds)], os : SUBSET Pages]

Divided(h) ==
    /\ \A s \in Live(h) : \A p \in PagesOf(h.span[s]) : p \in h.os /\ h.map[p] = s
    /\ \A p \in h.os : h.map[p] \in Live(h) /\ p \in PagesOf(h.span[h.map[p]])
    /\ \A p \in Pages \ h.os : h.map[p] = 0
    /\ \A s \in Live(h) : h.span[s].page_count <= kMaxPageCount

Waiting(h, n) == {s \in SpanIds : h.span[s].page_count = n /\ ~h.span[s].is_used}
Listed(h, X) ==
    \A n \in 1..kMaxPageCount :
        Distinct(h.lists[n]) /\ Elems(h.lists[n]) = Waiting(h, n) \ X

Sound(h) == h \in HeapType /\ Divided(h) /\ Listed(h, {})
UsedSpans(h) == {s \in Live(h) : h.span[s].is_used}

(* The parts of a heap.                                                    *)
LEMMA HeapParts ==
    ASSUME NEW h \in HeapType
    PROVE  /\ h.span \in [SpanIds -> Span] /\ h.map \in [Pages -> SpanIds \cup {0}]
           /\ h.lists \in [1..kMaxPageCount -> Seq(SpanIds)] /\ h.os \in SUBSET Pages
           /\ h = [span |-> h.span, map |-> h.map, lists |-> h.lists, os |-> h.os]
           /\ \A s \in SpanIds :
                 /\ h.span[s] \in Span /\ Placed(h.span[s]) /\ h.span[s].is_used \in BOOLEAN
                 /\ h.span[s].free_count \in Nat /\ h.span[s].free_list \in Seq(Addresses)
BY DEF HeapType, Span, Placed

LEMMA WellFormedWhenSound ==
    ASSUME NEW h, Sound(h)
    PROVE  WellFormed(h)
<1> USE DEF Sound
<1>1. \A s \in Live(h) : h.span[s].page_count \in Nat /\ s \in SpanIds
  BY HeapParts DEF Live, Placed
<1>2. UNION {PagesOf(h.span[s]) : s \in Live(h)} = h.os
  BY DEF Divided
<1>3. \A s \in Live(h) : \A p \in PagesOf(h.span[s]) : h.map[p] = s
  BY DEF Divided
<1>4. \A p \in Pages \ h.os : h.map[p] = 0
  BY DEF Divided
<1>5. ASSUME NEW n \in 1..kMaxPageCount
      PROVE  /\ {s \in Live(h) : ~h.span[s].is_used /\ h.span[s].page_count = n}
                    = {h.lists[n][i] : i \in DOMAIN h.lists[n]}
             /\ \A i, j \in DOMAIN h.lists[n] : h.lists[n][i] = h.lists[n][j] => i = j
  BY PageAssumption DEF Listed, Waiting, Live, Elems, Distinct
<1> QED BY <1>2, <1>3, <1>4, <1>5 DEF WellFormed

(* A page belongs to one span, and a span begins on a page of its own.     *)
LEMMA OnePerPage ==
    ASSUME NEW h \in HeapType, Divided(h), NEW s \in Live(h), NEW t \in Live(h)
    PROVE  /\ PagesOf(h.span[s]) \subseteq h.os /\ PagesOf(h.span[s]) \subseteq Pages
           /\ h.span[s].page_id \in PagesOf(h.span[s])
           /\ h.span[s].page_id \in Pages /\ h.span[s].page_count \in 1..kMaxPageCount
           /\ s # t => PagesOf(h.span[s]) \cap PagesOf(h.span[t]) = {}
<1>1. s \in SpanIds /\ h.span[s].page_count > 0 /\ Placed(h.span[s]) /\ h.os \subseteq Pages
  BY HeapParts DEF Live
<1>2. PagesOf(h.span[s]) \subseteq h.os
  BY DEF Divided
<1>3. h.span[s].page_id \in PagesOf(h.span[s])
  BY <1>1 DEF PagesOf, Placed
<1>4. h.span[s].page_count \in 1..kMaxPageCount
  BY <1>1, PageAssumption DEF Divided, Placed
<1>5. s # t => PagesOf(h.span[s]) \cap PagesOf(h.span[t]) = {}
  BY DEF Divided
<1> QED BY <1>1, <1>2, <1>3, <1>4, <1>5

(* As long as one page begins no span, there is an unused Span object: the *)
(* bound on the objects of the pool is never met.                          *)
LEMMA NewSpanExists ==
    ASSUME NEW h \in HeapType, Divided(h), NEW p \in Pages,
           \A s \in Live(h) : h.span[s].page_id # p
    PROVE  NewSpan(h) \in SpanIds /\ h.span[NewSpan(h)].page_count = 0
<1>1. SUFFICES \E s \in SpanIds : h.span[s].page_count = 0
  BY DEF NewSpan
<1>2. SUFFICES ASSUME \A s \in SpanIds : h.span[s].page_count # 0 PROVE FALSE
  OBVIOUS
<1>3. Live(h) = SpanIds
  BY <1>2, HeapParts DEF Live, Placed
<1> DEFINE f == [s \in SpanIds |-> h.span[s].page_id]
<1>4. f \in [SpanIds -> Pages \ {p}]
  BY <1>3, OnePerPage
<1>5. IsFiniteSet(Pages) /\ Cardinality(Pages) = NumPages
  BY FS_Interval, PageAssumption DEF Pages
<1>6. IsFiniteSet(Pages \ {p}) /\ Cardinality(Pages \ {p}) = NumPages - 1
  BY <1>5, FS_RemoveElement
<1>7. IsFiniteSet(SpanIds) /\ Cardinality(Pages \ {p}) < Cardinality(SpanIds)
  BY <1>5, <1>6, PageAssumption DEF Pages, SpanIds
<1>8. \E s, t \in SpanIds : s # t /\ f[s] = f[t]
  <2> HIDE DEF f
  <2> DEFINE T == Pages \ {p}
  <2>1. IsFiniteSet(T) /\ Cardinality(T) < Cardinality(SpanIds) /\ f \in [SpanIds -> T]
    BY <1>4, <1>6, <1>7
  <2> HIDE DEF T
  <2> QED BY <2>1, <1>7, FS_PigeonHole
<1>9. PICK s, t \in SpanIds : s # t /\ h.span[s].page_id = h.span[t].page_id
  BY <1>8
<1>10. s \in Live(h) /\ t \in Live(h)
  BY <1>3
<1>11. /\ h.span[s].page_id \in PagesOf(h.span[s]) /\ h.span[t].page_id \in PagesOf(h.span[t])
       /\ s # t => PagesOf(h.span[s]) \cap PagesOf(h.span[t]) = {}
  BY <1>10, OnePerPage
<1> QED BY <1>9, <1>11

LEMMA MappedParts ==
    ASSUME NEW h \in HeapType, NEW s \in SpanIds
    PROVE  /\ Mapped(h, s) \in HeapType
           /\ Mapped(h, s).span = h.span /\ Mapped(h, s).lists = h.lists
           /\ Mapped(h, s).os = h.os
           /\ \A p \in Pages :
                 Mapped(h, s).map[p] = IF p \in PagesOf(h.span[s]) THEN s ELSE h.map[p]
BY DEF HeapType, Mapped

(* What AllocatePages has to do: hand out a span of n pages that was not   *)
(* in use, leave those in use alone, and keep the heap sound.              *)
Served(h, n, r) ==
    /\ Sound(r.heap)
    /\ r.got \in SpanIds \ UsedSpans(h)
    /\ r.heap.span[r.got].page_count = n
    /\ UsedSpans(r.heap) = UsedSpans(h) \cup {r.got}
    /\ \A s \in UsedSpans(h) : r.heap.span[s] = h.span[s]

(* A run of the length asked for is taken from its list.                   *)
LEMMA ServedExact ==
    ASSUME NEW h, Sound(h), NEW n \in 1..kMaxPageCount, h.lists[n] # <<>>
    PROVE  Served(h, n, TakeExact(h, n))
<1> DEFINE s == Head(h.lists[n])
           f == [h EXCEPT !.lists[n] = Tail(@), !.span[s].is_used = TRUE]
           g == Mapped(f, s)
<1>0. h \in HeapType /\ Divided(h) /\ Listed(h, {})
  BY DEF Sound
<1>1. /\ s \in Waiting(h, n) /\ Tail(h.lists[n]) \in Seq(SpanIds)
      /\ Distinct(Tail(h.lists[n])) /\ Elems(Tail(h.lists[n])) = Waiting(h, n) \ {s}
  <2>1. h.lists[n] \in Seq(SpanIds) /\ Distinct(h.lists[n]) /\ Elems(h.lists[n]) = Waiting(h, n)
    BY <1>0, HeapParts DEF Listed
  <2> QED BY <2>1, HeadOff
<1>2. s \in SpanIds /\ s \in Live(h) /\ h.span[s].page_count = n /\ ~h.span[s].is_used
  BY <1>1 DEF Waiting, Live
<1> HIDE DEF s
<1>3. /\ f \in HeapType /\ f.map = h.map /\ f.os = h.os
      /\ f.span = [h.span EXCEPT ![s].is_used = TRUE]
      /\ f.lists = [h.lists EXCEPT ![n] = Tail(h.lists[n])]
  <2> DEFINE x == [h.span[s] EXCEPT !.is_used = TRUE]
             sp == [h.span EXCEPT ![s] = x]
             ls == [h.lists EXCEPT ![n] = Tail(h.lists[n])]
  <2>0. h.span[s] \in Span
    BY <1>0, <1>2, HeapParts
  <2>1. x \in Span
    BY <2>0 DEF Span
  <2> HIDE DEF x
  <2>2. sp \in [SpanIds -> Span] /\ ls \in [1..kMaxPageCount -> Seq(SpanIds)]
    BY <1>0, <1>1, <1>2, <2>1, HeapParts
  <2>3. f = [h EXCEPT !.lists = ls, !.span = sp]
    BY <1>0 DEF HeapType, x
  <2> HIDE DEF sp, ls, f
  <2>4. /\ f \in HeapType /\ f.map = h.map /\ f.os = h.os
        /\ f.span = sp /\ f.lists = ls
    BY <1>0, <2>2, <2>3 DEF HeapType
  <2>5. sp = [h.span EXCEPT ![s].is_used = TRUE]
    BY DEF sp, x
  <2> QED BY <2>4, <2>5 DEF ls
<1> HIDE DEF f
<1>4. /\ g \in HeapType /\ g.os = h.os /\ g.span = f.span /\ g.lists = f.lists
      /\ \A p \in Pages : g.map[p] = IF p \in PagesOf(f.span[s]) THEN s ELSE h.map[p]
  <2>1. /\ g \in HeapType /\ g.span = f.span /\ g.lists = f.lists /\ g.os = f.os
        /\ \A p \in Pages : g.map[p] = IF p \in PagesOf(f.span[s]) THEN s ELSE f.map[p]
    BY <1>2, <1>3, MappedParts
  <2> QED BY <1>3, <2>1
<1> HIDE DEF g
<1>5. /\ \A t \in SpanIds \ {s} : g.span[t] = h.span[t]
      /\ g.span[s].page_id = h.span[s].page_id /\ g.span[s].page_count = n
      /\ g.span[s].is_used = TRUE
  <2>1. h.span \in [SpanIds -> Span] /\ h.span[s] \in Span
    BY <1>0, <1>2, HeapParts
  <2>2. g.span[s] = [h.span[s] EXCEPT !.is_used = TRUE]
    BY <1>2, <1>3, <1>4, <2>1
  <2>3. \A t \in SpanIds \ {s} : g.span[t] = h.span[t]
    BY <1>3, <1>4, <2>1
  <2> QED BY <1>2, <2>1, <2>2, <2>3 DEF Span
<1>6. \A t \in SpanIds : PagesOf(g.span[t]) = PagesOf(h.span[t])
                         /\ g.span[t].page_count = h.span[t].page_count
  BY <1>2, <1>5 DEF PagesOf
<1>7. Live(g) = Live(h)
  BY <1>6 DEF Live
<1>8. \A p \in Pages : g.map[p] = h.map[p]
  BY <1>0, <1>2, <1>4, <1>6, HeapParts DEF Divided
<1>9. Divided(g)
  <2>1. h.os \subseteq Pages
    BY <1>0, HeapParts
  <2>2. \A p \in h.os : h.map[p] \in SpanIds
    BY <1>0 DEF Divided, Live
  <2>3. \A t \in Live(h) : t \in SpanIds
    BY DEF Live
  <2> QED BY <1>0, <1>4, <1>6, <1>7, <1>8, <2>1, <2>2, <2>3 DEF Divided
<1>10. Listed(g, {})
  <2> SUFFICES ASSUME NEW m \in 1..kMaxPageCount
               PROVE  Distinct(g.lists[m]) /\ Elems(g.lists[m]) = Waiting(g, m)
    BY DEF Listed
  <2>1. Waiting(g, m) = Waiting(h, m) \ {s}
    BY <1>5, <1>6 DEF Waiting
  <2>2. CASE m = n
    <3>1. h.lists \in [1..kMaxPageCount -> Seq(SpanIds)]
      BY <1>0, HeapParts
    <3>2. g.lists[m] = Tail(h.lists[n])
      BY <1>3, <1>4, <2>2, <3>1
    <3> QED BY <1>1, <2>1, <2>2, <3>2
  <2>3. CASE m # n
    <3>1. g.lists[m] = h.lists[m] /\ s \notin Waiting(h, m)
      BY <1>0, <1>2, <1>3, <1>4, <2>3, HeapParts DEF Waiting
    <3> QED BY <1>0, <2>1, <3>1 DEF Listed
  <2> QED BY <2>2, <2>3
<1>11. /\ s \notin UsedSpans(h) /\ UsedSpans(g) = UsedSpans(h) \cup {s}
       /\ \A t \in UsedSpans(h) : g.span[t] = h.span[t]
  BY <1>2, <1>5, <1>7 DEF UsedSpans, Live
<1>12. TakeExact(h, n) = [got |-> s, heap |-> g]
  BY DEF TakeExact, s, f, g
<1> QED BY <1>2, <1>4, <1>5, <1>9, <1>10, <1>11, <1>12 DEF Served, Sound

LEMMA Appended ==
    ASSUME NEW S, NEW a \in S, NEW q \in Seq(S), Distinct(q), a \notin Elems(q)
    PROVE  /\ Append(q, a) \in Seq(S) /\ Distinct(Append(q, a))
           /\ Elems(Append(q, a)) = Elems(q) \cup {a}
<1>1. /\ Append(q, a) \in Seq(S) /\ Len(Append(q, a)) = Len(q) + 1
      /\ \A i \in 1..Len(q) : Append(q, a)[i] = q[i]
      /\ Append(q, a)[Len(q) + 1] = a
      /\ DOMAIN Append(q, a) = 1..Len(q) + 1 /\ DOMAIN q = 1..Len(q) /\ Len(q) \in Nat
  BY AppendProperties, LenProperties
<1>2. Distinct(Append(q, a))
  BY <1>1 DEF Distinct, Elems
<1>3. Elems(Append(q, a)) = Elems(q) \cup {a}
  BY <1>1 DEF Elems
<1> QED BY <1>1, <1>2, <1>3

(* A run is cut from a longer one, whose other pages go on waiting.        *)
LEMMA ServedCut ==
    ASSUME NEW h, Sound(h), NEW n \in 1..kMaxPageCount, NEW i \in n + 1 .. kMaxPageCount,
           h.lists[i] # <<>>
    PROVE  Served(h, n, Split(h, i, n))
<1> DEFINE big == Head(h.lists[i])
           small == NewSpan(h)
           x == [h.span[big] EXCEPT !.page_id = @ + n, !.page_count = @ - n]
           y == Used(h.span[big].page_id, n)
           sp == [h.span EXCEPT ![small] = y, ![big] = x]
           ls == [h.lists EXCEPT ![i] = Tail(@), ![i - n] = Append(@, big)]
           f == [h EXCEPT !.lists = ls, !.span = sp]
           g == Mapped(f, small)
<1>0. /\ h \in HeapType /\ Divided(h) /\ Listed(h, {}) /\ n \in Nat /\ i \in Nat /\ n < i
      /\ i \in 1..kMaxPageCount /\ i - n \in 1..kMaxPageCount /\ i - n # i /\ n > 0
  BY PageAssumption DEF Sound
<1>1. /\ big \in Waiting(h, i) /\ Tail(h.lists[i]) \in Seq(SpanIds)
      /\ Distinct(Tail(h.lists[i])) /\ Elems(Tail(h.lists[i])) = Waiting(h, i) \ {big}
  <2>1. h.lists[i] \in Seq(SpanIds) /\ Distinct(h.lists[i]) /\ Elems(h.lists[i]) = Waiting(h, i)
    BY <1>0, HeapParts DEF Listed
  <2> QED BY <2>1, HeadOff
<1>2. big \in SpanIds /\ big \in Live(h) /\ h.span[big].page_count = i /\ ~h.span[big].is_used
  BY <1>0, <1>1 DEF Waiting, Live
<1> HIDE DEF big
<1>3. h.span[big] \in Span /\ h.span[big].page_id \in Nat /\ h.span \in [SpanIds -> Span]
  BY <1>0, <1>2, HeapParts DEF Placed
<1>4. small \in SpanIds /\ h.span[small].page_count = 0 /\ small # big /\ small \notin Live(h)
  <2> DEFINE p == h.span[big].page_id + 1
  <2>1. p \in PagesOf(h.span[big]) /\ p # h.span[big].page_id
    BY <1>0, <1>2, <1>3 DEF PagesOf
  <2>2. p \in Pages
    BY <1>0, <1>2, <2>1, OnePerPage
  <2>3. ASSUME NEW s \in Live(h) PROVE h.span[s].page_id # p
    <3>1. h.span[s].page_id \in PagesOf(h.span[s])
      BY <1>0, OnePerPage
    <3>2. s # big => PagesOf(h.span[s]) \cap PagesOf(h.span[big]) = {}
      BY <1>0, <1>2, OnePerPage
    <3> QED BY <2>1, <3>1, <3>2
  <2> HIDE DEF p
  <2>4. small \in SpanIds /\ h.span[small].page_count = 0
    BY <1>0, <2>2, <2>3, NewSpanExists
  <2> QED BY <1>0, <1>2, <2>4 DEF Live
<1> HIDE DEF small
<1>5. x \in Span /\ x.page_id = h.span[big].page_id + n /\ x.page_count = i - n
      /\ x.is_used = h.span[big].is_used
  <2>1. h.span[big].page_id + n \in Nat /\ i - n \in Nat
    BY <1>0, <1>3
  <2> QED BY <1>2, <1>3, <2>1 DEF Span
<1>6. y \in Span /\ y.page_id = h.span[big].page_id /\ y.page_count = n /\ y.is_used = TRUE
  <2>1. <<>> \in Seq(Addresses)
    OBVIOUS
  <2> QED BY <1>0, <1>3, <2>1 DEF Span, Used, NoSpan
<1> HIDE DEF x, y
<1>7. /\ sp \in [SpanIds -> Span] /\ sp[small] = y /\ sp[big] = x
      /\ \A s \in SpanIds \ {small, big} : sp[s] = h.span[s]
  BY <1>2, <1>3, <1>4, <1>5, <1>6
<1>8. /\ Append(h.lists[i - n], big) \in Seq(SpanIds)
      /\ Distinct(Append(h.lists[i - n], big))
      /\ Elems(Append(h.lists[i - n], big)) = Waiting(h, i - n) \cup {big}
  <2>1. h.lists[i - n] \in Seq(SpanIds) /\ Distinct(h.lists[i - n])
        /\ Elems(h.lists[i - n]) = Waiting(h, i - n)
    BY <1>0, HeapParts DEF Listed
  <2>2. big \notin Waiting(h, i - n)
    BY <1>0, <1>2 DEF Waiting
  <2> QED BY <1>2, <2>1, <2>2, Appended
<1>9. /\ ls \in [1..kMaxPageCount -> Seq(SpanIds)] /\ ls[i] = Tail(h.lists[i])
      /\ ls[i - n] = Append(h.lists[i - n], big)
      /\ \A m \in 1..kMaxPageCount \ {i, i - n} : ls[m] = h.lists[m]
  <2>1. h.lists \in [1..kMaxPageCount -> Seq(SpanIds)]
    BY <1>0, HeapParts
  <2> QED BY <1>0, <1>1, <1>8, <2>1
<1> HIDE DEF sp, ls
<1>10. f \in HeapType /\ f.map = h.map /\ f.os = h.os /\ f.span = sp /\ f.lists = ls
  BY <1>0, <1>7, <1>9 DEF HeapType
<1> HIDE DEF f
<1>11. /\ g \in HeapType /\ g.os = h.os /\ g.span = sp /\ g.lists = ls
       /\ \A p \in Pages : g.map[p] = IF p \in PagesOf(y) THEN small ELSE h.map[p]
  <2>1. /\ g \in HeapType /\ g.span = f.span /\ g.lists = f.lists /\ g.os = f.os
        /\ \A p \in Pages : g.map[p] = IF p \in PagesOf(f.span[small]) THEN small ELSE f.map[p]
    BY <1>4, <1>10, MappedParts
  <2> QED BY <1>7, <1>10, <2>1
<1> HIDE DEF g
<1>12. /\ PagesOf(y) \cup PagesOf(x) = PagesOf(h.span[big])
       /\ PagesOf(y) \cap PagesOf(x) = {}
  BY <1>0, <1>2, <1>3, <1>5, <1>6 DEF PagesOf
<1>13. Live(g) = Live(h) \cup {small}
  BY <1>0, <1>2, <1>4, <1>5, <1>6, <1>7, <1>11 DEF Live
<1>14. Divided(g)
  <2>1. h.os \subseteq Pages /\ \A s \in Live(h) : s \in SpanIds
    BY <1>0, HeapParts DEF Live
  <2>2. ASSUME NEW s \in Live(g), NEW p \in PagesOf(g.span[s]) PROVE p \in h.os /\ g.map[p] = s
    <3>1. CASE s = small
      <4>1. p \in PagesOf(y) /\ p \in PagesOf(h.span[big])
        BY <1>7, <1>11, <1>12, <2>2, <3>1
      <4>2. p \in h.os
        BY <1>0, <1>2, <4>1 DEF Divided
      <4> QED BY <1>11, <2>1, <3>1, <4>1, <4>2
    <3>2. CASE s = big
      <4>1. p \in PagesOf(x) /\ p \in PagesOf(h.span[big]) /\ p \notin PagesOf(y)
        BY <1>7, <1>11, <1>12, <2>2, <3>2
      <4>2. p \in h.os /\ h.map[p] = big
        BY <1>0, <1>2, <4>1 DEF Divided
      <4> QED BY <1>11, <2>1, <3>2, <4>1, <4>2
    <3>3. CASE s # small /\ s # big
      <4>1. s \in Live(h) /\ p \in PagesOf(h.span[s])
        BY <1>7, <1>11, <1>13, <2>1, <2>2, <3>3
      <4>2. p \in h.os /\ h.map[p] = s
        BY <1>0, <4>1 DEF Divided
      <4>3. p \notin PagesOf(h.span[big])
        BY <1>0, <1>2, <3>3, <4>1, OnePerPage
      <4> QED BY <1>11, <1>12, <2>1, <4>2, <4>3
    <3> QED BY <3>1, <3>2, <3>3
  <2>3. ASSUME NEW p \in h.os PROVE g.map[p] \in Live(g) /\ p \in PagesOf(g.span[g.map[p]])
    <3>1. CASE p \in PagesOf(y)
      BY <1>7, <1>11, <1>13, <2>1, <3>1
    <3>2. CASE p \notin PagesOf(y)
      <4>1. g.map[p] = h.map[p] /\ h.map[p] \in Live(h) /\ p \in PagesOf(h.span[h.map[p]])
        BY <1>0, <1>11, <2>1, <3>2 DEF Divided
      <4>2. CASE h.map[p] = big
        BY <1>7, <1>11, <1>12, <1>13, <3>2, <4>1, <4>2
      <4>3. CASE h.map[p] # big
        BY <1>4, <1>7, <1>11, <1>13, <2>1, <4>1, <4>3
      <4> QED BY <4>2, <4>3
    <3> QED BY <3>1, <3>2
  <2>4. ASSUME NEW p \in Pages \ h.os PROVE g.map[p] = 0
    <3>1. p \notin PagesOf(h.span[big])
      BY <1>0, <1>2 DEF Divided
    <3> QED BY <1>0, <1>11, <1>12, <3>1 DEF Divided
  <2>5. ASSUME NEW s \in Live(g) PROVE g.span[s].page_count <= kMaxPageCount
    BY <1>0, <1>5, <1>6, <1>7, <1>11, <1>13, <2>1 DEF Divided
  <2> QED BY <1>11, <2>2, <2>3, <2>4, <2>5 DEF Divided
<1>15. Listed(g, {})
  <2> SUFFICES ASSUME NEW m \in 1..kMaxPageCount
               PROVE  Distinct(ls[m]) /\ Elems(ls[m]) = Waiting(g, m)
    BY <1>11 DEF Listed
  <2>1. \A s \in SpanIds : s # small /\ s # big => g.span[s] = h.span[s]
    BY <1>7, <1>11
  <2>2. Waiting(g, m) = (Waiting(h, m) \ {big}) \cup (IF m = i - n THEN {big} ELSE {})
    BY <1>2, <1>4, <1>5, <1>6, <1>7, <1>11, <2>1 DEF Waiting
  <2>3. CASE m = i
    BY <1>0, <1>1, <1>9, <2>2, <2>3
  <2>4. CASE m = i - n
    BY <1>0, <1>8, <1>9, <2>2, <2>4
  <2>5. CASE m # i /\ m # i - n
    <3>1. ls[m] = h.lists[m] /\ big \notin Waiting(h, m)
      BY <1>2, <1>9, <2>5 DEF Waiting
    <3> QED BY <1>0, <2>2, <2>5, <3>1 DEF Listed
  <2> QED BY <2>3, <2>4, <2>5
<1>16. /\ small \notin UsedSpans(h) /\ UsedSpans(g) = UsedSpans(h) \cup {small}
       /\ \A s \in UsedSpans(h) : g.span[s] = h.span[s]
  <2>1. \A s \in UsedSpans(h) : s \in SpanIds /\ s \in Live(h) /\ s # big /\ s # small
    BY <1>2, <1>4 DEF UsedSpans, Live
  <2>2. \A s \in UsedSpans(h) : g.span[s] = h.span[s]
    BY <1>7, <1>11, <2>1
  <2>3. \A s \in Live(g) : g.span[s].is_used <=> s \in UsedSpans(h) \cup {small}
    <3> SUFFICES ASSUME NEW s \in Live(g)
                 PROVE  g.span[s].is_used <=> s \in UsedSpans(h) \cup {small}
      OBVIOUS
    <3>1. CASE s = small
      BY <1>6, <1>7, <1>11, <3>1
    <3>2. CASE s = big
      BY <1>2, <1>4, <1>5, <1>7, <1>11, <3>2 DEF UsedSpans
    <3>3. CASE s # small /\ s # big
      BY <1>7, <1>11, <1>13, <3>3 DEF UsedSpans, Live
    <3> QED BY <3>1, <3>2, <3>3
  <2> QED BY <1>13, <2>1, <2>2, <2>3 DEF UsedSpans
<1>17. Split(h, i, n) = [got |-> small, heap |-> g]
  <2>1. f = [h EXCEPT
            !.lists[i] = Tail(@),
            !.lists[i - n] = Append(@, big),
            !.span[small] = Used(h.span[big].page_id, n),
            !.span[big].page_id = @ + n,
            !.span[big].page_count = @ - n]
    <3> DEFINE spans == [h.span EXCEPT ![small] = y, ![big].page_id = @ + n,
                                       ![big].page_count = @ - n]
    <3>1. spans[big] = x
      BY <1>2, <1>3, <1>4 DEF x
    <3>2. spans = sp
      BY <1>2, <1>3, <1>4, <3>1 DEF sp
    <3>3. f = [h EXCEPT !.lists = ls, !.span = spans]
      BY <3>2 DEF f
    <3> HIDE DEF f
    <3> QED BY <1>0, <1>2, <1>3, <1>4, <3>3 DEF ls, y, HeapType
  <2> QED BY <2>1 DEF Split, big, small, g
<1> QED BY <1>0, <1>4, <1>6, <1>7, <1>11, <1>14, <1>15, <1>16, <1>17 DEF Served, Sound

(* Pages come from the system.                                             *)
LEMMA ServedFresh ==
    ASSUME NEW h, Sound(h), NEW n \in 1..kMaxPageCount, NEW base \in Pages,
           base .. base + n - 1 \subseteq Pages \ h.os
    PROVE  Served(h, n, FromSystem(h, n, base))
<1> DEFINE new == NewSpan(h)
           x == Used(base, n)
           os == h.os \cup base .. base + n - 1
           sp == [h.span EXCEPT ![new] = x]
           f == [h EXCEPT !.span = sp, !.os = os]
           g == Mapped(f, new)
<1>0. /\ h \in HeapType /\ Divided(h) /\ Listed(h, {}) /\ n \in Nat /\ n > 0
      /\ base \in Nat /\ base \in base .. base + n - 1
      /\ h.span \in [SpanIds -> Span] /\ h.os \subseteq Pages
  BY PageAssumption, HeapParts DEF Sound, Pages
<1>1. new \in SpanIds /\ h.span[new].page_count = 0 /\ new \notin Live(h)
  <2>1. ASSUME NEW s \in Live(h) PROVE h.span[s].page_id # base
    <3>1. h.span[s].page_id \in h.os
      BY <1>0, OnePerPage
    <3> QED BY <1>0, <3>1
  <2>2. new \in SpanIds /\ h.span[new].page_count = 0
    BY <1>0, <2>1, NewSpanExists
  <2> QED BY <2>2 DEF Live
<1> HIDE DEF new
<1>2. x \in Span /\ x.page_id = base /\ x.page_count = n /\ x.is_used = TRUE
  <2>1. <<>> \in Seq(Addresses)
    OBVIOUS
  <2> QED BY <1>0, <2>1 DEF Span, Used, NoSpan
<1>3. PagesOf(x) = base .. base + n - 1
  BY <1>2 DEF PagesOf
<1> HIDE DEF x
<1>4. /\ sp \in [SpanIds -> Span] /\ sp[new] = x
      /\ \A s \in SpanIds \ {new} : sp[s] = h.span[s]
  BY <1>0, <1>1, <1>2
<1>5. os \subseteq Pages /\ os = h.os \cup PagesOf(x) /\ h.os \cap PagesOf(x) = {}
  BY <1>0, <1>3
<1>6. f = [h EXCEPT !.span[new] = Used(base, n), !.os = @ \cup base .. base + n - 1]
  BY <1>0 DEF x, HeapType
<1> HIDE DEF sp, os
<1>7. f \in HeapType /\ f.map = h.map /\ f.os = os /\ f.span = sp /\ f.lists = h.lists
  BY <1>0, <1>4, <1>5 DEF HeapType
<1> HIDE DEF f
<1>8. /\ g \in HeapType /\ g.os = os /\ g.span = sp /\ g.lists = h.lists
      /\ \A p \in Pages : g.map[p] = IF p \in PagesOf(x) THEN new ELSE h.map[p]
  <2>1. /\ g \in HeapType /\ g.span = f.span /\ g.lists = f.lists /\ g.os = f.os
        /\ \A p \in Pages : g.map[p] = IF p \in PagesOf(f.span[new]) THEN new ELSE f.map[p]
    BY <1>1, <1>7, MappedParts
  <2> QED BY <1>4, <1>7, <2>1
<1>9. FromSystem(h, n, base) = [got |-> new, heap |-> g]
  BY <1>6 DEF FromSystem, new, g
<1> HIDE DEF g
<1>10. Live(g) = Live(h) \cup {new} /\ \A s \in Live(h) : g.span[s] = h.span[s] /\ s # new
  BY <1>0, <1>1, <1>2, <1>4, <1>8 DEF Live
<1>11. Divided(g)
  <2>1. ASSUME NEW s \in Live(g), NEW p \in PagesOf(g.span[s]) PROVE p \in os /\ g.map[p] = s
    <3>1. CASE s = new
      BY <1>4, <1>5, <1>8, <2>1, <3>1
    <3>2. CASE s \in Live(h)
      <4>1. p \in PagesOf(h.span[s])
        BY <1>10, <2>1, <3>2
      <4>2. p \in h.os /\ h.map[p] = s
        BY <1>0, <3>2, <4>1 DEF Divided
      <4> QED BY <1>5, <1>8, <4>2
    <3> QED BY <1>10, <3>1, <3>2
  <2>2. ASSUME NEW p \in os PROVE g.map[p] \in Live(g) /\ p \in PagesOf(g.span[g.map[p]])
    <3>1. CASE p \in PagesOf(x)
      BY <1>4, <1>5, <1>8, <1>10, <3>1
    <3>2. CASE p \in h.os
      <4>1. g.map[p] = h.map[p] /\ h.map[p] \in Live(h) /\ p \in PagesOf(h.span[h.map[p]])
        BY <1>0, <1>5, <1>8, <3>2 DEF Divided
      <4> QED BY <1>10, <4>1
    <3> QED BY <1>5, <3>1, <3>2
  <2>3. ASSUME NEW p \in Pages \ os PROVE g.map[p] = 0
    BY <1>0, <1>5, <1>8 DEF Divided
  <2>4. ASSUME NEW s \in Live(g) PROVE g.span[s].page_count <= kMaxPageCount
    BY <1>0, <1>2, <1>4, <1>8, <1>10 DEF Divided
  <2> QED BY <1>8, <2>1, <2>2, <2>3, <2>4 DEF Divided
<1>12. Listed(g, {})
  <2> SUFFICES ASSUME NEW m \in 1..kMaxPageCount PROVE Waiting(g, m) = Waiting(h, m)
    BY <1>0, <1>8 DEF Listed
  <2> QED BY <1>1, <1>2, <1>4, <1>8 DEF Waiting
<1>13. /\ new \notin UsedSpans(h) /\ UsedSpans(g) = UsedSpans(h) \cup {new}
       /\ \A s \in UsedSpans(h) : g.span[s] = h.span[s]
  <2>1. g.span[new].is_used
    BY <1>2, <1>4, <1>8
  <2> QED BY <1>1, <1>10, <2>1 DEF UsedSpans
<1> QED BY <1>1, <1>2, <1>4, <1>8, <1>9, <1>11, <1>12, <1>13 DEF Served, Sound

(* AllocatePages, whatever it finds.                                       *)
LEMMA AllocatePagesServes ==
    ASSUME NEW h, Sound(h), NEW n \in 1..kMaxPageCount, NEW r \in AllocatePages(h, n)
    PROVE  Served(h, n, r)
<1>1. CASE h.lists[n] # <<>>
  BY <1>1, ServedExact DEF AllocatePages
<1>2. CASE h.lists[n] = <<>> /\ Bigger(h, n) # {}
  <2>1. Bigger(h, n) \in SUBSET Nat
    BY PageAssumption DEF Bigger
  <2> DEFINE i == Min(Bigger(h, n))
  <2>2. i \in Bigger(h, n)
    BY <1>2, <2>1, MinIsMember
  <2>3. r = Split(h, i, n)
    BY <1>2 DEF AllocatePages
  <2> HIDE DEF i
  <2>4. i \in n + 1 .. kMaxPageCount /\ h.lists[i] # <<>>
    BY <2>2 DEF Bigger
  <2> QED BY <2>3, <2>4, ServedCut
<1>3. CASE h.lists[n] = <<>> /\ Bigger(h, n) = {}
  <2>1. PICK base \in Pages :
            base .. base + n - 1 \subseteq Pages \ h.os /\ r = FromSystem(h, n, base)
    BY <1>3 DEF AllocatePages
  <2> QED BY <2>1, ServedFresh
<1> QED BY <1>1, <1>2, <1>3

-----------------------------------------------------------------------------
(* Giving back.  While FreePages has a span in its hands it is free, and   *)
(* in no list.                                                             *)
Loose(h, s) ==
    /\ h \in HeapType /\ Divided(h) /\ Listed(h, {s})
    /\ s \in Live(h) /\ ~h.span[s].is_used

SameInUse(h, g) ==
    UsedSpans(g) = UsedSpans(h) /\ \A u \in UsedSpans(h) : g.span[u] = h.span[u]

(* A free span absorbs the free one behind it; s is the one in hand, o the *)
(* listed one.                                                             *)
Absorbing(h, a, b, o, n) ==
    Mapped([h EXCEPT !.lists[n] = Without(@, o),
                     !.span[a].page_count = @ + h.span[b].page_count,
                     !.span[b] = NoSpan], a)

LEMMA Absorbed ==
    ASSUME NEW h \in HeapType, Divided(h), NEW a \in Live(h), NEW b \in Live(h), a # b,
           ~h.span[a].is_used, ~h.span[b].is_used,
           h.span[a].page_id + h.span[a].page_count = h.span[b].page_id,
           h.span[a].page_count + h.span[b].page_count <= kMaxPageCount,
           NEW s \in {a, b}, NEW o \in {a, b}, s # o, Listed(h, {s}),
           NEW n, n = h.span[o].page_count,
           NEW g, g = Absorbing(h, a, b, o, n)
    PROVE  Loose(g, a) /\ SameInUse(h, g)
<1> DEFINE m == h.span[a].page_count + h.span[b].page_count
           x == [h.span[a] EXCEPT !.page_count = m]
           sp == [h.span EXCEPT ![a] = x, ![b] = NoSpan]
           ls == [h.lists EXCEPT ![n] = Without(@, o)]
           f == [h EXCEPT !.lists = ls, !.span = sp]
<1>0. /\ h.span \in [SpanIds -> Span] /\ h.lists \in [1..kMaxPageCount -> Seq(SpanIds)]
      /\ h.os \subseteq Pages /\ a \in SpanIds /\ b \in SpanIds /\ o \in SpanIds
      /\ n \in 1..kMaxPageCount /\ n \in Nat
  BY HeapParts, OnePerPage, PageAssumption DEF Live
<1>1. /\ h.span[a] \in Span /\ h.span[a].page_id \in Nat
      /\ h.span[a].page_count \in Nat /\ h.span[a].page_count > 0
      /\ h.span[b].page_id \in Nat /\ h.span[b].page_count \in Nat /\ h.span[b].page_count > 0
      /\ m \in Nat /\ m \in 1..kMaxPageCount
  <2>1. h.span[a] \in Span /\ Placed(h.span[a]) /\ Placed(h.span[b])
    BY <1>0, HeapParts
  <2>2. h.span[a].page_count > 0 /\ h.span[b].page_count > 0
    BY DEF Live
  <2> QED BY <2>1, <2>2, PageAssumption DEF Placed
<1>2. /\ Without(h.lists[n], o) \in Seq(SpanIds) /\ Distinct(Without(h.lists[n], o))
      /\ Elems(Without(h.lists[n], o)) = Waiting(h, n) \ {a, b}
  <2>1. h.lists[n] \in Seq(SpanIds) /\ Distinct(h.lists[n])
        /\ Elems(h.lists[n]) = Waiting(h, n) \ {s}
    BY <1>0 DEF Listed
  <2>2. o \in Elems(h.lists[n])
    BY <1>0, <2>1 DEF Waiting
  <2> QED BY <2>1, <2>2, Unlinked
<1>3. /\ x \in Span /\ x.page_id = h.span[a].page_id /\ x.page_count = m
      /\ x.is_used = h.span[a].is_used
  BY <1>1 DEF Span
<1>4. NoSpan \in Span /\ NoSpan.page_count = 0
  <2>1. <<>> \in Seq(Addresses)
    OBVIOUS
  <2> QED BY <2>1 DEF NoSpan, Span
<1>5. f = [h EXCEPT !.lists[n] = Without(@, o),
                    !.span[a].page_count = @ + h.span[b].page_count, !.span[b] = NoSpan]
  BY DEF HeapType
<1> HIDE DEF x, m
<1>6. /\ sp \in [SpanIds -> Span] /\ sp[a] = x /\ sp[b] = NoSpan
      /\ \A t \in SpanIds \ {a, b} : sp[t] = h.span[t]
  BY <1>0, <1>3, <1>4
<1>7. /\ ls \in [1..kMaxPageCount -> Seq(SpanIds)] /\ ls[n] = Without(h.lists[n], o)
      /\ \A k \in 1..kMaxPageCount \ {n} : ls[k] = h.lists[k]
  BY <1>0, <1>2
<1> HIDE DEF sp, ls
<1>8. f \in HeapType /\ f.map = h.map /\ f.os = h.os /\ f.span = sp /\ f.lists = ls
  BY <1>6, <1>7 DEF HeapType
<1> HIDE DEF f
<1>9. /\ g \in HeapType /\ g.os = h.os /\ g.span = sp /\ g.lists = ls
      /\ \A p \in Pages : g.map[p] = IF p \in PagesOf(x) THEN a ELSE h.map[p]
  <2>1. g = Mapped(f, a)
    BY <1>5 DEF Absorbing
  <2> DEFINE e == Mapped(f, a)
  <2>2. /\ e \in HeapType /\ e.span = f.span /\ e.lists = f.lists /\ e.os = f.os
        /\ \A p \in Pages : e.map[p] = IF p \in PagesOf(f.span[a]) THEN a ELSE f.map[p]
    BY <1>0, <1>8, MappedParts
  <2> QED BY <1>6, <1>8, <2>1, <2>2
<1>10. PagesOf(x) = PagesOf(h.span[a]) \cup PagesOf(h.span[b])
  <2>1. m = h.span[a].page_count + h.span[b].page_count
    BY DEF m
  <2> QED BY <1>1, <1>3, <2>1 DEF PagesOf
<1>11. Live(g) = Live(h) \ {b}
  <2>1. m > 0
    BY <1>1 DEF m
  <2>2. g.span[a].page_count > 0 /\ ~(g.span[b].page_count > 0)
    BY <1>3, <1>4, <1>6, <1>9, <2>1
  <2>3. \A t \in SpanIds \ {a, b} : g.span[t] = h.span[t]
    BY <1>6, <1>9
  <2> QED BY <1>0, <2>2, <2>3 DEF Live
<1>12. Divided(g)
  <2>1. \A t \in Live(h) : t \in SpanIds
    BY DEF Live
  <2>2. ASSUME NEW t \in Live(g), NEW p \in PagesOf(g.span[t]) PROVE p \in h.os /\ g.map[p] = t
    <3>1. CASE t = a
      <4>1. p \in PagesOf(x)
        BY <1>6, <1>9, <2>2, <3>1
      <4>2. p \in h.os
        BY <1>10, <4>1 DEF Divided
      <4> QED BY <1>0, <1>9, <3>1, <4>1, <4>2
    <3>2. CASE t # a
      <4>1. t \in Live(h) /\ t # b /\ p \in PagesOf(h.span[t])
        BY <1>6, <1>9, <1>11, <2>1, <2>2, <3>2
      <4>2. p \in h.os /\ h.map[p] = t
        BY <4>1 DEF Divided
      <4>3. p \notin PagesOf(x)
        BY <1>10, <3>2, <4>1, OnePerPage
      <4> QED BY <1>0, <1>9, <4>2, <4>3
    <3> QED BY <3>1, <3>2
  <2>3. ASSUME NEW p \in h.os PROVE g.map[p] \in Live(g) /\ p \in PagesOf(g.span[g.map[p]])
    <3>1. CASE p \in PagesOf(x)
      BY <1>0, <1>6, <1>9, <1>11, <3>1
    <3>2. CASE p \notin PagesOf(x)
      <4>1. g.map[p] = h.map[p] /\ h.map[p] \in Live(h) /\ p \in PagesOf(h.span[h.map[p]])
        BY <1>0, <1>9, <3>2 DEF Divided
      <4>2. h.map[p] # a /\ h.map[p] # b
        BY <1>10, <3>2, <4>1
      <4> QED BY <1>6, <1>9, <1>11, <2>1, <4>1, <4>2
    <3> QED BY <3>1, <3>2
  <2>4. ASSUME NEW p \in Pages \ h.os PROVE g.map[p] = 0
    <3>1. p \notin PagesOf(x)
      BY <1>10 DEF Divided
    <3> QED BY <1>9, <3>1 DEF Divided
  <2>5. ASSUME NEW t \in Live(g) PROVE g.span[t].page_count <= kMaxPageCount
    <3>1. CASE t = a
      BY <1>1, <1>3, <1>6, <1>9, <3>1
    <3>2. CASE t # a
      BY <1>6, <1>9, <1>11, <2>1, <3>2 DEF Divided
    <3> QED BY <3>1, <3>2
  <2> QED BY <1>9, <2>2, <2>3, <2>4, <2>5 DEF Divided
<1>13. Listed(g, {a})
  <2> SUFFICES ASSUME NEW k \in 1..kMaxPageCount
               PROVE  Distinct(ls[k]) /\ Elems(ls[k]) = Waiting(g, k) \ {a}
    BY <1>9 DEF Listed
  <2>1. Waiting(g, k) \ {a} = Waiting(h, k) \ {a, b}
    BY <1>0, <1>4, <1>6, <1>9 DEF Waiting
  <2>2. CASE k = n
    BY <1>2, <1>7, <2>1, <2>2
  <2>3. CASE k # n
    <3>1. ls[k] = h.lists[k] /\ o \notin Waiting(h, k)
      BY <1>7, <2>3 DEF Waiting
    <3>2. Distinct(h.lists[k]) /\ Elems(h.lists[k]) = Waiting(h, k) \ {s}
      BY DEF Listed
    <3>3. Waiting(h, k) \ {s} = Waiting(h, k) \ {a, b}
      BY <3>1
    <3> QED BY <2>1, <3>1, <3>2, <3>3
  <2> QED BY <2>2, <2>3
<1>14. SameInUse(h, g)
  <2>1. \A u \in UsedSpans(h) : u \in SpanIds /\ u # a /\ u # b
    BY DEF UsedSpans, Live
  <2>2. \A u \in SpanIds \ {a, b} : g.span[u] = h.span[u]
    BY <1>6, <1>9
  <2>3. ~g.span[a].is_used
    BY <1>3, <1>6, <1>9
  <2>4. \A u \in UsedSpans(h) : g.span[u] = h.span[u]
    BY <2>1, <2>2
  <2>5. \A u \in Live(g) : u \in SpanIds \ {b} /\ u \in Live(h)
    BY <1>11 DEF Live
  <2>6. \A u \in UsedSpans(g) : u \in UsedSpans(h)
    BY <2>2, <2>3, <2>5 DEF UsedSpans
  <2>7. \A u \in UsedSpans(h) : u \in UsedSpans(g)
    BY <1>11, <2>1, <2>4 DEF UsedSpans
  <2> QED BY <2>4, <2>6, <2>7 DEF SameInUse
<1>15. a \in Live(g) /\ ~g.span[a].is_used
  BY <1>3, <1>6, <1>9, <1>11
<1> QED BY <1>9, <1>12, <1>13, <1>14, <1>15 DEF Loose

(* The map leads to a span in use or waiting, or to none.                  *)
LEMMA FoundIsLive ==
    ASSUME NEW h \in HeapType, Divided(h), NEW p \in Int, FindSpan(h, p) # 0
    PROVE  FindSpan(h, p) \in Live(h)
BY DEF FindSpan, Divided

LEMMA PreviousMerged ==
    ASSUME NEW h, NEW s, Loose(h, s)
    PROVE  LET r == MergePrevious(h, s)
           IN  Loose(r.heap, r.got) /\ SameInUse(h, r.heap)
<1> DEFINE prev == FindSpan(h, h.span[s].page_id - 1)
           n == h.span[prev].page_count
           r == MergePrevious(h, s)
           merging == /\ prev # 0
                      /\ Mergeable(h, s, prev)
                      /\ h.span[prev].page_id + n = h.span[s].page_id
<1>0. h \in HeapType /\ Divided(h) /\ Listed(h, {s}) /\ s \in Live(h) /\ ~h.span[s].is_used
      /\ Placed(h.span[s])
  BY HeapParts DEF Loose, Live
<1>1. CASE merging
  <2>1. prev \in Live(h)
    BY <1>0, <1>1, FoundIsLive DEF Placed
  <2> HIDE DEF prev
  <2>2. /\ ~h.span[prev].is_used
        /\ h.span[prev].page_id + h.span[prev].page_count = h.span[s].page_id
        /\ h.span[s].page_count + h.span[prev].page_count <= kMaxPageCount
    BY <1>1 DEF Mergeable
  <2>3. Placed(h.span[prev]) /\ h.span[prev].page_count > 0
    BY <1>0, <2>1, HeapParts DEF Live
  <2>4. prev # s /\ h.span[prev].page_count + h.span[s].page_count <= kMaxPageCount
    BY <1>0, <2>2, <2>3 DEF Placed
  <2>5. r = [got |-> prev, heap |-> Absorbing(h, prev, s, prev, n)]
    BY <1>1 DEF MergePrevious, Absorbing, prev
  <2> DEFINE g == Absorbing(h, prev, s, prev, n)
  <2>6. Loose(g, prev) /\ SameInUse(h, g)
    <3> HIDE DEF g
    <3>1. g = Absorbing(h, prev, s, prev, h.span[prev].page_count)
      BY DEF g
    <3> QED BY <1>0, <2>1, <2>2, <2>4, <3>1, Absorbed
  <2> QED BY <2>5, <2>6
<1>2. CASE ~merging
  <2>1. r = [got |-> s, heap |-> h]
    BY <1>2 DEF MergePrevious
  <2> QED BY <2>1 DEF SameInUse
<1> QED BY <1>1, <1>2

LEMMA NextMerged ==
    ASSUME NEW h, NEW s, Loose(h, s)
    PROVE  Loose(MergeNext(h, s), s) /\ SameInUse(h, MergeNext(h, s))
<1> DEFINE next == FindSpan(h, h.span[s].page_id + h.span[s].page_count)
           n == h.span[next].page_count
           merging == /\ next # 0
                      /\ Mergeable(h, s, next)
                      /\ h.span[s].page_id + h.span[s].page_count = h.span[next].page_id
<1>0. h \in HeapType /\ Divided(h) /\ Listed(h, {s}) /\ s \in Live(h) /\ ~h.span[s].is_used
      /\ Placed(h.span[s]) /\ h.span[s].page_count > 0
  BY HeapParts DEF Loose, Live
<1>1. CASE merging
  <2>1. next \in Live(h)
    BY <1>0, <1>1, FoundIsLive DEF Placed
  <2> HIDE DEF next
  <2>2. /\ ~h.span[next].is_used
        /\ h.span[s].page_id + h.span[s].page_count = h.span[next].page_id
        /\ h.span[s].page_count + h.span[next].page_count <= kMaxPageCount
    BY <1>1 DEF Mergeable
  <2>3. next # s
    BY <1>0, <2>2 DEF Placed
  <2> DEFINE g == Absorbing(h, s, next, next, n)
  <2>4. MergeNext(h, s) = g
    BY <1>1 DEF MergeNext, Absorbing, next
  <2>5. Loose(g, s) /\ SameInUse(h, g)
    <3> HIDE DEF g
    <3>1. g = Absorbing(h, s, next, next, h.span[next].page_count)
      BY DEF g
    <3> QED BY <1>0, <2>1, <2>2, <2>3, <3>1, Absorbed
  <2> QED BY <2>4, <2>5
<1>2. CASE ~merging
  <2>1. MergeNext(h, s) = h
    BY <1>2 DEF MergeNext
  <2> QED BY <2>1 DEF SameInUse
<1> QED BY <1>1, <1>2

(* What FreePages has to do: take one span out of use.                     *)
Freed(h, s, g) ==
    /\ Sound(g) /\ UsedSpans(g) = UsedSpans(h) \ {s}
    /\ \A u \in UsedSpans(h) \ {s} : g.span[u] = h.span[u]

LEMMA FreePagesFrees ==
    ASSUME NEW h, Sound(h), NEW s \in UsedSpans(h)
    PROVE  Freed(h, s, FreePages(h, s))
<1> DEFINE x == [h.span[s] EXCEPT !.is_used = FALSE, !.free_count = 0, !.free_list = <<>>]
           f == [h EXCEPT !.span[s] = x]
           first == MergePrevious(f, s)
           k == first.got
           m == MergeNext(first.heap, k)
           n == m.span[k].page_count
           g == [m EXCEPT !.lists[n] = Append(@, k)]
<1>0. /\ h \in HeapType /\ Divided(h) /\ Listed(h, {}) /\ s \in Live(h) /\ s \in SpanIds
      /\ h.span[s].is_used /\ h.span[s] \in Span /\ h.span \in [SpanIds -> Span]
  BY HeapParts DEF Sound, UsedSpans, Live
<1>1. /\ x \in Span /\ x.page_id = h.span[s].page_id /\ ~x.is_used
      /\ x.page_count = h.span[s].page_count
  <2>1. <<>> \in Seq(Addresses)
    OBVIOUS
  <2> QED BY <1>0, <2>1 DEF Span
<1>2. FreePages(h, s) = g
  BY <1>0 DEF FreePages
<1> HIDE DEF x
<1>3. /\ f \in HeapType /\ f.map = h.map /\ f.os = h.os /\ f.lists = h.lists
      /\ f.span[s] = x /\ \A t \in SpanIds \ {s} : f.span[t] = h.span[t]
  <2> DEFINE sp == [h.span EXCEPT ![s] = x]
  <2>1. /\ sp \in [SpanIds -> Span] /\ sp[s] = x
        /\ \A t \in SpanIds \ {s} : sp[t] = h.span[t]
    BY <1>0, <1>1
  <2>2. f = [h EXCEPT !.span = sp]
    BY <1>0 DEF HeapType
  <2> HIDE DEF sp, f
  <2>3. f \in HeapType /\ f.map = h.map /\ f.os = h.os /\ f.lists = h.lists /\ f.span = sp
    BY <1>0, <2>1, <2>2 DEF HeapType
  <2> QED BY <2>1, <2>3
<1> HIDE DEF f
<1>4. /\ \A t \in SpanIds : /\ f.span[t].page_count = h.span[t].page_count
                            /\ PagesOf(f.span[t]) = PagesOf(h.span[t])
      /\ Live(f) = Live(h)
  BY <1>1, <1>3 DEF PagesOf, Live
<1>5. Loose(f, s)
  <2>1. Divided(f)
    <3>1. \A t \in Live(h) : t \in SpanIds
      BY DEF Live
    <3>2. \A p \in h.os : h.map[p] \in SpanIds
      BY <1>0, <3>1 DEF Divided
    <3> QED BY <1>0, <1>3, <1>4, <3>1, <3>2 DEF Divided
  <2>2. Listed(f, {s})
    <3> SUFFICES ASSUME NEW i \in 1..kMaxPageCount PROVE Waiting(h, i) = Waiting(f, i) \ {s}
      BY <1>0, <1>3 DEF Listed
    <3> QED BY <1>0, <1>3 DEF Waiting
  <2> QED BY <1>0, <1>1, <1>3, <1>4, <2>1, <2>2 DEF Loose
<1>6. /\ UsedSpans(f) = UsedSpans(h) \ {s}
      /\ \A u \in UsedSpans(h) \ {s} : f.span[u] = h.span[u]
  BY <1>1, <1>3, <1>4 DEF UsedSpans, Live
<1>7. Loose(first.heap, k) /\ SameInUse(f, first.heap)
  BY <1>5, PreviousMerged
<1> HIDE DEF first, k
<1>8. Loose(m, k) /\ SameInUse(first.heap, m)
  BY <1>7, NextMerged
<1> HIDE DEF m
<1>9. UsedSpans(m) = UsedSpans(f) /\ \A u \in UsedSpans(f) : m.span[u] = f.span[u]
  BY <1>7, <1>8 DEF SameInUse
<1>10. /\ m \in HeapType /\ Divided(m) /\ Listed(m, {k}) /\ k \in Live(m) /\ k \in SpanIds
       /\ ~m.span[k].is_used /\ n \in 1..kMaxPageCount
       /\ m.lists \in [1..kMaxPageCount -> Seq(SpanIds)]
  BY <1>8, OnePerPage, HeapParts DEF Loose, Live
<1>11. /\ Append(m.lists[n], k) \in Seq(SpanIds) /\ Distinct(Append(m.lists[n], k))
       /\ Elems(Append(m.lists[n], k)) = Waiting(m, n)
  <2>1. m.lists[n] \in Seq(SpanIds) /\ Distinct(m.lists[n])
        /\ Elems(m.lists[n]) = Waiting(m, n) \ {k}
    BY <1>10 DEF Listed
  <2>2. k \in Waiting(m, n) /\ k \notin Elems(m.lists[n])
    BY <1>10, <2>1 DEF Waiting
  <2>3. /\ Append(m.lists[n], k) \in Seq(SpanIds) /\ Distinct(Append(m.lists[n], k))
        /\ Elems(Append(m.lists[n], k)) = Elems(m.lists[n]) \cup {k}
    BY <1>10, <2>1, <2>2, Appended
  <2> QED BY <2>1, <2>2, <2>3
<1> HIDE DEF n
<1>12. /\ g \in HeapType /\ g.map = m.map /\ g.os = m.os /\ g.span = m.span
       /\ g.lists[n] = Append(m.lists[n], k)
       /\ \A i \in 1..kMaxPageCount \ {n} : g.lists[i] = m.lists[i]
  <2> DEFINE ls == [m.lists EXCEPT ![n] = Append(@, k)]
  <2>1. /\ ls \in [1..kMaxPageCount -> Seq(SpanIds)] /\ ls[n] = Append(m.lists[n], k)
        /\ \A i \in 1..kMaxPageCount \ {n} : ls[i] = m.lists[i]
    BY <1>10, <1>11
  <2>2. g = [m EXCEPT !.lists = ls]
    BY <1>10 DEF HeapType
  <2> HIDE DEF ls, g
  <2>3. g \in HeapType /\ g.map = m.map /\ g.os = m.os /\ g.lists = ls /\ g.span = m.span
    BY <1>10, <2>1, <2>2 DEF HeapType
  <2> QED BY <2>1, <2>3
<1> HIDE DEF g
<1>13. Live(g) = Live(m) /\ UsedSpans(g) = UsedSpans(m) /\ \A i : Waiting(g, i) = Waiting(m, i)
  BY <1>12 DEF Live, UsedSpans, Waiting
<1>14. Divided(g)
  BY <1>10, <1>12, <1>13 DEF Divided
<1>15. Listed(g, {})
  <2> SUFFICES ASSUME NEW i \in 1..kMaxPageCount
               PROVE  Distinct(g.lists[i]) /\ Elems(g.lists[i]) = Waiting(m, i)
    BY <1>13 DEF Listed
  <2>1. CASE i = n
    BY <1>11, <1>12, <2>1
  <2>2. CASE i # n
    <3>1. k \notin Waiting(m, i)
      BY <2>2 DEF Waiting, n
    <3> QED BY <1>10, <1>12, <2>2, <3>1 DEF Listed
  <2> QED BY <2>1, <2>2
<1>16. \A u \in UsedSpans(h) \ {s} : g.span[u] = h.span[u]
  BY <1>6, <1>9, <1>12
<1> QED BY <1>2, <1>6, <1>9, <1>12, <1>13, <1>14, <1>15, <1>16 DEF Freed, Sound

-----------------------------------------------------------------------------
(* The list of a span in use changes, and nothing else of it.              *)
WithSpan(h, s, x) == [h EXCEPT !.span[s] = x]
OnlySpan(h, g, s) == \A u \in SpanIds \ {s} : g.span[u] = h.span[u]
Respanned(h, g, s, x) ==
    Sound(g) /\ UsedSpans(g) = UsedSpans(h) /\ g.span[s] = x /\ OnlySpan(h, g, s)

LEMMA Refilled ==
    ASSUME NEW h, Sound(h), NEW s \in UsedSpans(h), NEW x \in Span,
           x.page_id = h.span[s].page_id, x.page_count = h.span[s].page_count, x.is_used
    PROVE  Respanned(h, WithSpan(h, s, x), s, x)
<1> DEFINE g == WithSpan(h, s, x)
<1>0. /\ h \in HeapType /\ Divided(h) /\ Listed(h, {}) /\ s \in Live(h) /\ s \in SpanIds
      /\ h.span[s].is_used /\ h.span \in [SpanIds -> Span]
  BY HeapParts DEF Sound, UsedSpans, Live
<1>1. /\ g \in HeapType /\ g.map = h.map /\ g.os = h.os /\ g.lists = h.lists
      /\ g.span[s] = x /\ \A u \in SpanIds \ {s} : g.span[u] = h.span[u]
  <2> DEFINE sp == [h.span EXCEPT ![s] = x]
  <2>1. /\ sp \in [SpanIds -> Span] /\ sp[s] = x
        /\ \A u \in SpanIds \ {s} : sp[u] = h.span[u]
    BY <1>0
  <2>2. g = [h EXCEPT !.span = sp]
    BY <1>0 DEF HeapType, WithSpan
  <2> HIDE DEF sp, g
  <2>3. g \in HeapType /\ g.map = h.map /\ g.os = h.os /\ g.lists = h.lists /\ g.span = sp
    BY <1>0, <2>1, <2>2 DEF HeapType
  <2> QED BY <2>1, <2>3
<1> HIDE DEF g
<1>2. /\ \A t \in SpanIds : /\ g.span[t].page_count = h.span[t].page_count
                            /\ PagesOf(g.span[t]) = PagesOf(h.span[t])
      /\ Live(g) = Live(h)
  BY <1>1 DEF PagesOf, Live
<1>3. \A t \in Live(h) : t \in SpanIds
  BY DEF Live
<1>4. Divided(g)
  <2>1. \A p \in h.os : h.map[p] \in SpanIds
    BY <1>0, <1>3 DEF Divided
  <2> QED BY <1>0, <1>1, <1>2, <1>3, <2>1 DEF Divided
<1>5. Listed(g, {})
  <2> SUFFICES ASSUME NEW i \in 1..kMaxPageCount PROVE Waiting(g, i) = Waiting(h, i)
    BY <1>0, <1>1 DEF Listed
  <2> QED BY <1>0, <1>1 DEF Waiting
<1>6. UsedSpans(g) = UsedSpans(h)
  BY <1>0, <1>1, <1>2, <1>3 DEF UsedSpans
<1> QED BY <1>1, <1>4, <1>5, <1>6 DEF Sound, Respanned, OnlySpan, g

-----------------------------------------------------------------------------
(* The blocks a span has at home: the front of its list, in any order, and *)
(* behind them at most the end that is no whole block.                     *)
Home(span) == {span.free_list[i] : i \in 1..span.free_count}

InOrder(span, size) ==
    /\ span.free_count <= Len(span.free_list)
    /\ \A i \in DOMAIN span.free_list :
           i <= span.free_count <=> span.free_list[i] \in BlocksOf(span, size)
    /\ \A i, j \in 1..span.free_count : span.free_list[i] = span.free_list[j] => i = j

LEMMA HomeFacts ==
    ASSUME NEW span \in Span, NEW size \in Nat \ {0}, InOrder(span, size)
    PROVE  /\ Placed(span) /\ span.free_count \in Nat /\ span.free_list \in Seq(Addresses)
           /\ Len(span.free_list) \in Nat /\ DOMAIN span.free_list = 1..Len(span.free_list)
           /\ \A i \in 1..span.free_count : i \in DOMAIN span.free_list
           /\ Home(span) \subseteq BlocksOf(span, size) /\ Home(span) \subseteq Addresses
<1>1. Placed(span) /\ span.free_count \in Nat /\ span.free_list \in Seq(Addresses)
  BY DEF Span, Placed
<1>2. Len(span.free_list) \in Nat /\ DOMAIN span.free_list = 1..Len(span.free_list)
      /\ \A i \in 1..Len(span.free_list) : span.free_list[i] \in Addresses
  BY <1>1, LenProperties, ElementOfSeq
<1>3. \A i \in 1..span.free_count : i \in DOMAIN span.free_list /\ i <= span.free_count
  BY <1>1, <1>2 DEF InOrder
<1> QED BY <1>1, <1>2, <1>3 DEF Home, InOrder

(* A span just cut into blocks has them all.                               *)
LEMMA CarvedInOrder ==
    ASSUME NEW span \in Span, NEW size \in Nat \ {0},
           span.page_count > 0, PagesOf(span) \subseteq Pages
    PROVE  LET c == Carved(span, size)
           IN  /\ c \in Span /\ c.page_id = span.page_id /\ c.page_count = span.page_count
               /\ c.is_used = span.is_used /\ c.free_count = WholeBlocks(span, size)
               /\ InOrder(c, size)
<1> DEFINE c == Carved(span, size)
           n == (SpanBytes(span) + size - 1) \div size
           w == WholeBlocks(span, size)
           at(i) == First(span) + (i - 1) * size
<1>0. /\ Placed(span) /\ First(span) \in Nat /\ Beyond(span) \in Nat /\ SpanBytes(span) \in Nat
      /\ Beyond(span) = First(span) + SpanBytes(span)
  BY SpanEnds DEF Span, Placed
<1>1. w \in Nat /\ w * size <= SpanBytes(span) /\ SpanBytes(span) < w * size + size
  BY <1>0, Quotients DEF WholeBlocks
<1>15. SpanBytes(span) + size - 1 \in Nat
  BY <1>0
<1>2. n \in Nat /\ n * size <= SpanBytes(span) + size - 1
  BY <1>15, Quotients
<1>3. SpanBytes(span) + size - 1 < n * size + size
  BY <1>15, Quotients
<1> HIDE DEF n, w
<1>4. w <= n
  <2> SUFFICES ASSUME n < w PROVE FALSE
    BY <1>1, <1>2
  <2>1. n * size + size <= w * size
    BY <1>1, <1>2, Products
  <2>2. n * size \in Nat /\ w * size \in Nat
    BY <1>1, <1>2, Products
  <2> QED BY <1>0, <1>1, <1>3, <2>1, <2>2
<1>5. ASSUME NEW i \in 1..n PROVE at(i) \in Addresses
  <2>1. i - 1 \in Nat /\ i - 1 < n /\ (i - 1) * size \in Nat /\ n * size \in Nat
    BY <1>2, Products
  <2>2. (i - 1) * size + size <= n * size
    BY <1>2, <2>1, Products
  <2>3. (i - 1) * size < SpanBytes(span)
    BY <1>0, <1>2, <2>1, <2>2
  <2>4. at(i) \in Nat /\ First(span) <= at(i) /\ at(i) < Beyond(span)
    BY <1>0, <2>1, <2>3
  <2> HIDE DEF at
  <2> QED BY <1>0, <2>4, ByteIsAddress
<1>6. ASSUME NEW i \in 1..n, NEW j \in 1..n, at(i) = at(j) PROVE i = j
  <2>1. i \in Nat /\ j \in Nat /\ i - 1 \in Nat /\ j - 1 \in Nat
        /\ (i - 1) * size \in Nat /\ (j - 1) * size \in Nat
    BY <1>2, Products
  <2>2. /\ i - 1 < j - 1 => (i - 1) * size + size <= (j - 1) * size
        /\ j - 1 < i - 1 => (j - 1) * size + size <= (i - 1) * size
    BY <2>1, Products
  <2>3. (i - 1) * size = (j - 1) * size
    BY <1>0, <1>6, <2>1
  <2>4. ~(i - 1 < j - 1) /\ ~(j - 1 < i - 1)
    BY <2>1, <2>2, <2>3
  <2> QED BY <2>1, <2>4
<1>7. /\ c.free_list = [i \in 1..n |-> at(i)] /\ c.free_count = w
      /\ c.page_id = span.page_id /\ c.page_count = span.page_count /\ c.is_used = span.is_used
      /\ c = [span EXCEPT !.free_list = [i \in 1..n |-> at(i)], !.free_count = w]
  BY DEF Carved, First, n, w, Span
<1>8. [i \in 1..n |-> at(i)] \in Seq(Addresses)
  <2> HIDE DEF at
  <2> QED BY <1>2, <1>5
<1>9. c \in Span
  <2> HIDE DEF c, at
  <2> QED BY <1>1, <1>7, <1>8 DEF Span
<1>10. BlocksOf(c, size) = {at(i) : i \in 1..w}
  BY <1>7 DEF BlocksOf, WholeBlocks, SpanBytes, First, w
<1>11. DOMAIN c.free_list = 1..n /\ Len(c.free_list) = n /\ \A i \in 1..n : c.free_list[i] = at(i)
  BY <1>2, <1>7
<1> HIDE DEF c, at
<1>12. ASSUME NEW i \in 1..n PROVE i <= w <=> at(i) \in BlocksOf(c, size)
  <2>1. CASE i <= w
    BY <1>1, <1>10, <2>1
  <2>2. CASE ~(i <= w)
    <3>1. \A j \in 1..w : j \in 1..n /\ j # i
      BY <1>1, <1>2, <1>4, <2>2
    <3> QED BY <1>6, <1>10, <2>2, <3>1
  <2> QED BY <2>1, <2>2
<1>13. \A i \in 1..w : i \in 1..n
  BY <1>1, <1>2, <1>4
<1>14. InOrder(c, size)
  <2>1. c.free_count <= Len(c.free_list)
    BY <1>4, <1>7, <1>11
  <2>2. \A i \in DOMAIN c.free_list :
            i <= c.free_count <=> c.free_list[i] \in BlocksOf(c, size)
    BY <1>7, <1>11, <1>12
  <2>3. \A i, j \in 1..c.free_count : c.free_list[i] = c.free_list[j] => i = j
    BY <1>6, <1>7, <1>11, <1>13
  <2> QED BY <2>1, <2>2, <2>3 DEF InOrder
<1> QED BY <1>7, <1>9, <1>14 DEF c, w

(* A span that counts as many blocks as it has, has every one of them.     *)
LEMMA AllHome ==
    ASSUME NEW span \in Span, NEW size \in Nat \ {0}, InOrder(span, size),
           span.free_count = WholeBlocks(span, size)
    PROVE  Home(span) = BlocksOf(span, size)
<1> DEFINE w == WholeBlocks(span, size)
           at(j) == span.page_id * PageSize + (j - 1) * size
           g == [i \in 1..w |-> CHOOSE j \in 1..w : span.free_list[i] = at(j)]
<1>0. /\ w \in Nat /\ Home(span) \subseteq BlocksOf(span, size)
      /\ Home(span) = {span.free_list[i] : i \in 1..w}
      /\ BlocksOf(span, size) = {at(j) : j \in 1..w}
  BY HomeFacts, WholeIsWhole DEF Home, BlocksOf
<1>1. \A i, j \in 1..w : span.free_list[i] = span.free_list[j] => i = j
  BY DEF InOrder
<1> HIDE DEF w, at
<1>2. \A i \in 1..w : g[i] \in 1..w /\ span.free_list[i] = at(g[i])
  BY <1>0
<1>3. g \in [1..w -> 1..w]
  BY <1>2
<1> HIDE DEF g
<1>8. \A i, j \in 1..w : g[i] = g[j] => i = j
  BY <1>1, <1>2
<1>4. g \in Injection(1..w, 1..w)
  BY <1>3, <1>8, Fun_IsInj
<1>5. g \in Surjection(1..w, 1..w)
  <2>1. IsFiniteSet(1..w)
    BY <1>0, FS_Interval
  <2> QED BY <1>4, <2>1, FS_Injection
<1>6. \A j \in 1..w : \E i \in 1..w : g[i] = j
  BY <1>5 DEF Surjection
<1>7. \A j \in 1..w : at(j) \in Home(span)
  BY <1>0, <1>2, <1>6
<1> QED BY <1>0, <1>7

(* A batch is taken from the front of a span's list.                       *)
Batch(span, size) == SubSeq(span.free_list, 1, Taken(span, size))

LEMMA BatchTaken ==
    ASSUME NEW span \in Span, NEW size \in BlockSizes, InOrder(span, size),
           span.free_count > 0
    PROVE  LET r == WithoutBatch(span, size)
               batch == Batch(span, size)
           IN  /\ batch \in Seq(Addresses) /\ batch # <<>> /\ Distinct(batch)
               /\ Elems(batch) \subseteq Home(span)
               /\ r \in Span /\ r.page_id = span.page_id /\ r.page_count = span.page_count
               /\ r.is_used = span.is_used /\ r.free_count \in Nat
               /\ r.free_count < span.free_count
               /\ InOrder(r, size) /\ Home(r) = Home(span) \ Elems(batch)
<1> DEFINE list == span.free_list
           c == span.free_count
           k == Taken(span, size)
           rest == SubSeq(list, k + 1, Len(list))
           r == WithoutBatch(span, size)
           batch == Batch(span, size)
<1>0. /\ size \in Nat \ {0} /\ BatchNum[size] \in Nat \ {0}
  BY SizeAssumption
<1>1. /\ c \in Nat /\ list \in Seq(Addresses) /\ Len(list) \in Nat /\ c <= Len(list)
      /\ DOMAIN list = 1..Len(list) /\ Home(span) = {list[i] : i \in 1..c}
  BY <1>0, HomeFacts DEF InOrder, Home
<1>2. k \in Nat /\ k <= c /\ k > 0
  <2> DEFINE W == {BatchNum[size], c}
  <2>1. W \in SUBSET Nat /\ W # {}
    BY <1>0, <1>1
  <2>2. Min(W) \in W /\ \A y \in W : Min(W) <= y
    BY <2>1, MinIsMember
  <2>3. k = Min(W)
    BY DEF Taken
  <2> HIDE DEF W
  <2>4. c \in W /\ \A y \in W : y > 0 /\ y \in Nat
    BY <1>0, <1>1 DEF W
  <2> QED BY <2>2, <2>3, <2>4
<1>3. /\ r = [span EXCEPT !.free_list = rest, !.free_count = c - k]
      /\ batch = SubSeq(list, 1, k)
  BY DEF WithoutBatch, Batch
<1> HIDE DEF k, list, c, r, batch
<1>3a. k \in 0..Len(list)
  BY <1>1, <1>2
<1>4. batch \in Seq(Addresses) /\ Len(batch) = k /\ \A i \in 1..k : batch[i] = list[i]
  BY <1>1, <1>3, <1>3a, Cut
<1>5. /\ rest \in Seq(Addresses) /\ Len(rest) = Len(list) - k
      /\ \A i \in 1..Len(list) - k : rest[i] = list[k + i]
  BY <1>1, <1>3a, Cut
<1> HIDE DEF rest
<1>6. /\ r \in Span /\ r.page_id = span.page_id /\ r.page_count = span.page_count
      /\ r.is_used = span.is_used /\ r.free_count = c - k /\ r.free_list = rest
  <2>1. c - k \in Nat
    BY <1>1, <1>2
  <2> QED BY <1>3, <1>5, <2>1 DEF Span
<1>7. DOMAIN batch = 1..k /\ DOMAIN rest = 1..Len(list) - k
  BY <1>4, <1>5, LenProperties
<1>8. \A i, j \in 1..c : list[i] = list[j] => i = j
  BY DEF InOrder, list, c
<1>9. Distinct(batch) /\ Elems(batch) = {list[i] : i \in 1..k} /\ batch # <<>>
  <2>1. Distinct(batch)
    <3>1. \A i \in 1..k : i \in 1..c
      BY <1>1, <1>2
    <3> QED BY <1>4, <1>7, <1>8, <3>1 DEF Distinct
  <2>2. Elems(batch) = {list[i] : i \in 1..k}
    BY <1>4, <1>7 DEF Elems
  <2>3. batch # <<>>
    BY <1>2, <1>4
  <2> QED BY <2>1, <2>2, <2>3
<1>10. Home(r) = {list[i] : i \in k + 1 .. c}
  <2>1. Home(r) = {rest[i] : i \in 1..c - k}
    BY <1>6 DEF Home
  <2>2. \A i \in 1..c - k : k + i \in k + 1 .. c /\ rest[i] = list[k + i]
    BY <1>1, <1>2, <1>5
  <2>3. \A i \in k + 1 .. c : i - k \in 1..c - k /\ rest[i - k] = list[i]
    BY <1>1, <1>2, <1>5
  <2> QED BY <2>1, <2>2, <2>3
<1>11. Home(r) = Home(span) \ Elems(batch)
  <2>1. \A i \in 1..c : i \in 1..k \/ i \in k + 1 .. c
    BY <1>1, <1>2
  <2>2. \A i \in k + 1 .. c : i \in 1..c /\ i \notin 1..k
    BY <1>1, <1>2
  <2>3. \A i \in 1..k : i \in 1..c
    BY <1>1, <1>2
  <2> QED BY <1>1, <1>8, <1>9, <1>10, <2>1, <2>2, <2>3
<1>12. BlocksOf(r, size) = BlocksOf(span, size)
  BY <1>6 DEF BlocksOf, WholeBlocks, SpanBytes
<1>13. InOrder(r, size)
  <2>1. c - k <= Len(rest)
    BY <1>1, <1>2, <1>5
  <2>2. ASSUME NEW i \in 1..Len(list) - k
        PROVE  i <= c - k <=> rest[i] \in BlocksOf(span, size)
    <3>1. k + i \in 1..Len(list) /\ (i <= c - k <=> k + i <= c)
      BY <1>1, <1>2
    <3>2. k + i <= c <=> list[k + i] \in BlocksOf(span, size)
      BY <1>1, <3>1 DEF InOrder, list, c
    <3> QED BY <1>5, <3>1, <3>2
  <2>3. ASSUME NEW i \in 1..c - k, NEW j \in 1..c - k, rest[i] = rest[j] PROVE i = j
    <3>1. k + i \in 1..c /\ k + j \in 1..c /\ i \in 1..Len(list) - k /\ j \in 1..Len(list) - k
      BY <1>1, <1>2
    <3>2. k + i = k + j
      BY <1>5, <1>8, <2>3, <3>1
    <3> QED BY <1>2, <3>2
  <2> QED BY <1>6, <1>7, <1>12, <2>1, <2>2, <2>3 DEF InOrder
<1>14. Elems(batch) \subseteq Home(span)
  <2>1. \A i \in 1..k : i \in 1..c
    BY <1>1, <1>2
  <2> QED BY <1>1, <1>9, <2>1
<1>15. r.free_count \in Nat /\ r.free_count < c
  BY <1>1, <1>2, <1>6
<1> QED BY <1>4, <1>6, <1>9, <1>11, <1>13, <1>14, <1>15 DEF r, c, batch

(* A block comes home, to the front of its span's list.                    *)
LEMMA BlockHome ==
    ASSUME NEW span \in Span, NEW size \in Nat \ {0}, InOrder(span, size),
           NEW a \in Addresses, a \in BlocksOf(span, size), a \notin Home(span)
    PROVE  LET r == WithBlock(span, a)
           IN  /\ r \in Span /\ r.page_id = span.page_id /\ r.page_count = span.page_count
               /\ r.is_used = span.is_used /\ r.free_count = span.free_count + 1
               /\ InOrder(r, size) /\ Home(r) = Home(span) \cup {a}
<1> DEFINE list == span.free_list
           c == span.free_count
           next == <<a>> \o list
           r == WithBlock(span, a)
<1>1. /\ c \in Nat /\ list \in Seq(Addresses) /\ Len(list) \in Nat /\ c <= Len(list)
      /\ DOMAIN list = 1..Len(list) /\ Home(span) = {list[i] : i \in 1..c}
  BY HomeFacts DEF InOrder, Home
<1>2. /\ next \in Seq(Addresses) /\ Len(next) = Len(list) + 1 /\ next[1] = a
      /\ DOMAIN next = 1..Len(list) + 1
      /\ \A i \in 1..Len(list) + 1 : next[i] = IF i = 1 THEN a ELSE list[i - 1]
  <2> DEFINE p == <<a>>
  <2>1. p \in Seq(Addresses) /\ Len(p) = 1 /\ p[1] = a
    OBVIOUS
  <2> HIDE DEF p
  <2>2. /\ p \o list \in Seq(Addresses) /\ Len(p \o list) = Len(p) + Len(list)
        /\ \A i \in 1..Len(p) + Len(list) :
               (p \o list)[i] = IF i <= Len(p) THEN p[i] ELSE list[i - Len(p)]
    <3>1. list \in Seq(Addresses)
      BY <1>1
    <3> HIDE DEF list
    <3> QED BY <2>1, <3>1, ConcatProperties
  <2>3. next = p \o list
    BY DEF p
  <2> HIDE DEF next
  <2>4. 1 + Len(list) = Len(list) + 1 /\ \A i \in 1..Len(list) + 1 : i <= 1 <=> i = 1
    BY <1>1
  <2>5. DOMAIN next = 1..Len(next)
    BY <2>2, <2>3, LenProperties
  <2> QED BY <1>1, <2>1, <2>2, <2>3, <2>4, <2>5
<1>3. r = [span EXCEPT !.free_list = next, !.free_count = c + 1]
  BY DEF WithBlock
<1>10. c + 1 \in Nat /\ \A i, j \in 1..c : list[i] = list[j] => i = j
  BY <1>1 DEF InOrder
<1>11. \A i \in 1..Len(list) : i <= c <=> list[i] \in BlocksOf(span, size)
  BY <1>1 DEF InOrder
<1> HIDE DEF next, r, list, c
<1>4. /\ r \in Span /\ r.page_id = span.page_id /\ r.page_count = span.page_count
      /\ r.is_used = span.is_used /\ r.free_count = c + 1 /\ r.free_list = next
  BY <1>2, <1>3, <1>10 DEF Span
<1>5. \A i \in 2..Len(list) + 1 : i - 1 \in 1..Len(list) /\ next[i] = list[i - 1]
  BY <1>1, <1>2
<1>6. \A i \in 1..Len(list) : i + 1 \in 2..Len(list) + 1 /\ next[i + 1] = list[i]
  BY <1>1, <1>2
<1>7. Home(r) = Home(span) \cup {a}
  <2>1. Home(r) = {next[i] : i \in 1..c + 1}
    BY <1>4 DEF Home
  <2>2. \A i \in 1..c + 1 : i # 1 => i - 1 \in 1..c /\ next[i] = list[i - 1]
    BY <1>1, <1>5
  <2>3. \A i \in 1..c : i + 1 \in 1..c + 1 /\ next[i + 1] = list[i]
    BY <1>1, <1>6
  <2>4. 1 \in 1..c + 1 /\ next[1] = a
    BY <1>1, <1>2
  <2>5. Home(r) \subseteq Home(span) \cup {a}
    BY <1>1, <2>1, <2>2, <2>4
  <2>6. Home(span) \subseteq Home(r)
    BY <1>1, <2>1, <2>3
  <2>7. a \in Home(r)
    BY <2>1, <2>4
  <2> QED BY <2>5, <2>6, <2>7
<1>8. BlocksOf(r, size) = BlocksOf(span, size)
  BY <1>4 DEF BlocksOf, WholeBlocks, SpanBytes
<1>9. InOrder(r, size)
  <2>1. c + 1 <= Len(next)
    BY <1>1, <1>2
  <2>2. ASSUME NEW i \in 1..Len(list) + 1
        PROVE  i <= c + 1 <=> next[i] \in BlocksOf(span, size)
    <3>1. CASE i = 1
      BY <1>1, <1>2, <3>1
    <3>2. CASE i # 1
      <4>1. i - 1 \in 1..Len(list) /\ next[i] = list[i - 1] /\ (i <= c + 1 <=> i - 1 <= c)
        BY <1>1, <1>2, <3>2
      <4> QED BY <1>11, <4>1
    <3> QED BY <3>1, <3>2
  <2>3. ASSUME NEW i \in 1..c + 1, NEW j \in 1..c + 1, next[i] = next[j] PROVE i = j
    <3>1. \A m \in 1..c + 1 : m # 1 => m - 1 \in 1..c /\ next[m] = list[m - 1]
                                       /\ next[m] \in Home(span)
      BY <1>1, <1>5
    <3>2. CASE i = 1 \/ j = 1
      BY <1>2, <2>3, <3>1, <3>2
    <3>3. CASE i # 1 /\ j # 1
      <4>1. i - 1 = j - 1
        BY <1>10, <2>3, <3>1, <3>3
      <4> QED BY <4>1
    <3> QED BY <3>2, <3>3
  <2> QED BY <1>2, <1>4, <1>8, <2>1, <2>2, <2>3 DEF InOrder
<1> QED BY <1>4, <1>7, <1>9 DEF r, c

-----------------------------------------------------------------------------
(* Where a block of a size can be: with a caller, in the list of a thread, *)
(* on a thread's way home, in the list of its span.                        *)
Places == ({"caller"} \X {0}) \cup ({"list"} \X Threads)
              \cup ({"way"} \X Threads) \cup ({"span"} \X SpanIds)

Callers(li, size) == {o.at : o \in {q \in li : q.size = size}}
Way(cl, t, size) == IF cl[t].size = size THEN Elems(cl[t].blocks) ELSE {}
AtHome(h, ce, s, size) == IF s \in Elems(ce[size]) THEN Home(h.span[s]) ELSE {}

Held(h, ce, ca, li, cl, size) ==
    [x \in Places |->
        IF x[1] = "caller" THEN Callers(li, size)
        ELSE IF x[1] = "list" THEN Elems(ca[x[2]][size])
        ELSE IF x[1] = "way" THEN Way(cl, x[2], size)
        ELSE AtHome(h, ce, x[2], size)]

BlocksIn(h, ce, size) == UNION {BlocksOf(h.span[s], size) : s \in Elems(ce[size])}

(* H divides B among the places P: every element is in one place.          *)
Division(P, H, B) ==
    /\ UNION {H[x] : x \in P} = B
    /\ \A x, y \in P : x # y => H[x] \cap H[y] = {}

LEMMA HeldAt ==
    ASSUME NEW h, NEW ce, NEW ca, NEW li, NEW cl, NEW size,
           NEW H, H = Held(h, ce, ca, li, cl, size)
    PROVE  /\ <<"caller", 0>> \in Places /\ H[<<"caller", 0>>] = Callers(li, size)
           /\ \A t \in Threads :
                 /\ <<"list", t>> \in Places /\ H[<<"list", t>>] = Elems(ca[t][size])
                 /\ <<"way", t>> \in Places /\ H[<<"way", t>>] = Way(cl, t, size)
           /\ \A s \in SpanIds :
                 <<"span", s>> \in Places /\ H[<<"span", s>>] = AtHome(h, ce, s, size)
<1>1. <<"caller", 0>> \in Places /\ H[<<"caller", 0>>] = Callers(li, size)
  BY DEF Places, Held
<1>2. ASSUME NEW t \in Threads
      PROVE  /\ <<"list", t>> \in Places /\ H[<<"list", t>>] = Elems(ca[t][size])
             /\ <<"way", t>> \in Places /\ H[<<"way", t>>] = Way(cl, t, size)
  BY DEF Places, Held
<1>3. ASSUME NEW s \in SpanIds
      PROVE  <<"span", s>> \in Places /\ H[<<"span", s>>] = AtHome(h, ce, s, size)
  BY DEF Places, Held
<1> QED BY <1>1, <1>2, <1>3

LEMMA PlacesAre ==
    ASSUME NEW x \in Places
    PROVE  \/ x = <<"caller", 0>>
           \/ \E t \in Threads : x = <<"list", t>> \/ x = <<"way", t>>
           \/ \E s \in SpanIds : x = <<"span", s>>
BY DEF Places

(* What is left alone stays where it is.                                   *)
LEMMA HeldAlike ==
    ASSUME NEW h, NEW ce, NEW ca, NEW li, NEW cl, NEW size,
           NEW g, NEW de, NEW da, NEW mi, NEW dl, NEW Z \in SUBSET Places,
           <<"caller", 0>> \notin Z => Callers(li, size) = Callers(mi, size),
           \A t \in Threads : <<"list", t>> \notin Z => ca[t][size] = da[t][size],
           \A t \in Threads : <<"way", t>> \notin Z => Way(cl, t, size) = Way(dl, t, size),
           \A s \in SpanIds : <<"span", s>> \notin Z
                                => AtHome(h, ce, s, size) = AtHome(g, de, s, size)
    PROVE  \A x \in Places \ Z :
               Held(h, ce, ca, li, cl, size)[x] = Held(g, de, da, mi, dl, size)[x]
<1> DEFINE H == Held(h, ce, ca, li, cl, size)
           G == Held(g, de, da, mi, dl, size)
<1> SUFFICES ASSUME NEW x \in Places \ Z PROVE H[x] = G[x]
  OBVIOUS
<1>1. CASE x = <<"caller", 0>>
  BY <1>1 DEF Held
<1>2. CASE \E t \in Threads : x = <<"list", t>> \/ x = <<"way", t>>
  BY <1>2 DEF Held
<1>3. CASE \E s \in SpanIds : x = <<"span", s>>
  BY <1>3 DEF Held
<1> QED BY <1>1, <1>2, <1>3, PlacesAre

(* Elements change places among those of Z.                                *)
LEMMA Moved ==
    ASSUME NEW P, NEW H, NEW G, NEW B, NEW Z \in SUBSET P,
           Division(P, H, B), \A w \in P \ Z : H[w] = G[w],
           UNION {G[w] : w \in Z} = UNION {H[w] : w \in Z},
           \A v, w \in Z : v # w => G[v] \cap G[w] = {}
    PROVE  Division(P, G, B)
<1>1. \A w \in Z : \A a \in G[w] : \E v \in Z : a \in H[v]
  OBVIOUS
<1>2. \A w \in Z : \A a \in H[w] : \E v \in Z : a \in G[v]
  OBVIOUS
<1>3. \A v, w \in Z : v # w => G[v] \cap G[w] = {}
  OBVIOUS
<1>4. Z \subseteq P /\ \A w \in P : w \in Z \/ H[w] = G[w]
  OBVIOUS
<1>5. UNION {G[w] : w \in P} = B
  <2>1. ASSUME NEW w \in P, NEW a \in G[w] PROVE a \in B
    <3>1. \E v \in P : a \in H[v]
      BY <1>1, <1>4, <2>1
    <3> QED BY <3>1 DEF Division
  <2>2. ASSUME NEW a \in B PROVE \E w \in P : a \in G[w]
    <3>1. PICK w \in P : a \in H[w]
      BY DEF Division
    <3> QED BY <1>2, <1>4, <3>1
  <2> QED BY <2>1, <2>2
<1>6. ASSUME NEW v \in P, NEW w \in P, v # w, NEW a \in G[v], a \in G[w] PROVE FALSE
  <2>1. \A p, q \in P : p # q => ~(a \in H[p] /\ a \in H[q])
    BY DEF Division
  <2>2. CASE v \in Z /\ w \in Z
    BY <1>3, <1>6, <2>2
  <2>3. CASE v \in Z /\ w \notin Z
    <3>1. PICK p \in Z : a \in H[p]
      BY <1>1, <2>3
    <3> QED BY <1>4, <1>6, <2>1, <2>3, <3>1
  <2>4. CASE v \notin Z /\ w \in Z
    <3>1. PICK p \in Z : a \in H[p]
      BY <1>1, <1>6, <2>4
    <3> QED BY <1>4, <1>6, <2>1, <2>4, <3>1
  <2>5. CASE v \notin Z /\ w \notin Z
    BY <1>4, <1>6, <2>1, <2>5
  <2> QED BY <2>2, <2>3, <2>4, <2>5
<1> QED BY <1>5, <1>6 DEF Division

(* A place that was empty gets new elements.                               *)
LEMMA Arrived ==
    ASSUME NEW P, NEW H, NEW G, NEW B, NEW x \in P, Division(P, H, B),
           \A w \in P \ {x} : H[w] = G[w], H[x] = {}, G[x] \cap B = {}
    PROVE  Division(P, G, B \cup G[x])
<1>1. \A w \in P : w # x => G[w] = H[w] /\ G[w] \subseteq B
  BY DEF Division
<1>2. UNION {G[w] : w \in P} = B \cup G[x]
  <2>1. ASSUME NEW w \in P, NEW a \in G[w] PROVE a \in B \cup G[x]
    BY <1>1, <2>1
  <2>2. ASSUME NEW a \in B PROVE \E w \in P : a \in G[w]
    <3>1. PICK w \in P : a \in H[w]
      BY DEF Division
    <3> QED BY <1>1, <3>1
  <2> QED BY <2>1, <2>2
<1>3. ASSUME NEW v \in P, NEW w \in P, v # w PROVE G[v] \cap G[w] = {}
  <2>1. CASE v # x /\ w # x
    BY <1>1, <1>3, <2>1 DEF Division
  <2>2. CASE v = x
    BY <1>1, <1>3, <2>2
  <2>3. CASE w = x
    BY <1>1, <1>3, <2>3
  <2> QED BY <2>1, <2>2, <2>3
<1> QED BY <1>2, <1>3 DEF Division

(* A place is given up with all it holds.                                  *)
LEMMA Departed ==
    ASSUME NEW P, NEW H, NEW G, NEW B, NEW x \in P, Division(P, H, B),
           \A w \in P \ {x} : H[w] = G[w], G[x] = {}
    PROVE  Division(P, G, B \ H[x])
<1>1. \A w \in P : w # x => G[w] = H[w] /\ G[w] \subseteq B /\ G[w] \cap H[x] = {}
  BY DEF Division
<1>2. UNION {G[w] : w \in P} = B \ H[x]
  <2>1. ASSUME NEW w \in P, NEW a \in G[w] PROVE a \in B \ H[x]
    BY <1>1, <2>1
  <2>2. ASSUME NEW a \in B \ H[x] PROVE \E w \in P : a \in G[w]
    <3>1. PICK w \in P : a \in H[w]
      BY DEF Division
    <3> QED BY <1>1, <3>1
  <2> QED BY <2>1, <2>2
<1>3. ASSUME NEW v \in P, NEW w \in P, v # w PROVE G[v] \cap G[w] = {}
  BY <1>1, <1>3 DEF Division
<1> QED BY <1>2, <1>3 DEF Division

(* Nothing of the size has changed.                                        *)
LEMMA DivisionAlike ==
    ASSUME NEW h, NEW ce, NEW ca, NEW li, NEW cl, NEW size,
           NEW g, NEW de, NEW da, NEW mi, NEW dl,
           Division(Places, Held(h, ce, ca, li, cl, size), BlocksIn(h, ce, size)),
           Callers(li, size) = Callers(mi, size),
           \A t \in Threads : ca[t][size] = da[t][size],
           \A t \in Threads : Way(cl, t, size) = Way(dl, t, size),
           Elems(ce[size]) = Elems(de[size]),
           \A s \in Elems(ce[size]) : h.span[s] = g.span[s]
    PROVE  Division(Places, Held(g, de, da, mi, dl, size), BlocksIn(g, de, size))
<1> DEFINE H == Held(h, ce, ca, li, cl, size)
           G == Held(g, de, da, mi, dl, size)
<1>1. \A s \in SpanIds : AtHome(h, ce, s, size) = AtHome(g, de, s, size)
  BY DEF AtHome
<1>2. ASSUME NEW x \in Places PROVE H[x] = G[x]
  <2>1. CASE x = <<"caller", 0>>
    BY <2>1 DEF Held
  <2>2. CASE \E t \in Threads : x = <<"list", t>> \/ x = <<"way", t>>
    BY <2>2 DEF Held
  <2>3. CASE \E s \in SpanIds : x = <<"span", s>>
    BY <1>1, <2>3 DEF Held
  <2> QED BY <2>1, <2>2, <2>3, PlacesAre
<1>3. H = G
  BY <1>2 DEF Held
<1>4. BlocksIn(h, ce, size) = BlocksIn(g, de, size)
  BY DEF BlocksIn
<1> QED BY <1>3, <1>4

-----------------------------------------------------------------------------
(* Two live spans have no block in common, of whatever sizes, and the map  *)
(* leads from every byte of a span to it.                                  *)
LEMMA SpanOfByte ==
    ASSUME NEW h \in HeapType, Divided(h), NEW s \in Live(h),
           NEW a \in Nat, First(h.span[s]) <= a, a < Beyond(h.span[s])
    PROVE  FindSpanByAddr(h, a) = s /\ a \in Addresses
<1>1. s \in SpanIds /\ Placed(h.span[s]) /\ h.span[s].page_count > 0
  BY HeapParts DEF Live
<1>2. a \div PageSize \in PagesOf(h.span[s])
  BY <1>1, PageOfByte
<1>3. PagesOf(h.span[s]) \subseteq Pages
  BY OnePerPage
<1>4. a \in Addresses
  BY <1>1, <1>3, ByteIsAddress
<1> QED BY <1>2, <1>3, <1>4 DEF FindSpanByAddr, FindSpan, Divided

LEMMA BlocksOfOneSpan ==
    ASSUME NEW h \in HeapType, Divided(h), NEW s \in Live(h), NEW u \in Live(h),
           NEW size \in Nat \ {0}, NEW other \in Nat \ {0},
           NEW a \in BlocksOf(h.span[s], size), a \in BlocksOf(h.span[u], other)
    PROVE  s = u
<1>1. Placed(h.span[s]) /\ Placed(h.span[u])
  BY HeapParts DEF Live
<1>2. a \div PageSize \in PagesOf(h.span[s]) /\ a \div PageSize \in PagesOf(h.span[u])
  BY <1>1, BlockInSpan
<1> QED BY <1>2, OnePerPage

LEMMA SpanOfBlock ==
    ASSUME NEW h \in HeapType, Divided(h), NEW s \in Live(h), NEW size \in Nat \ {0},
           NEW a \in BlocksOf(h.span[s], size)
    PROVE  FindSpanByAddr(h, a) = s /\ a \in Addresses
<1>1. Placed(h.span[s])
  BY HeapParts DEF Live
<1>2. a \in Nat /\ First(h.span[s]) <= a /\ a + size <= Beyond(h.span[s])
  BY <1>1, BlockInSpan
<1>3. a < Beyond(h.span[s])
  BY <1>1, <1>2, SpanEnds
<1> QED BY <1>2, <1>3, SpanOfByte

-----------------------------------------------------------------------------
(* The whole allocator.  A span of the central cache is in use, in the     *)
(* cache of one size, once; its list begins with its free blocks and is    *)
(* never full, or the span would have been given back.                     *)
CentralSound(h, ce) ==
    \A size \in BlockSizes :
        /\ Distinct(ce[size])
        /\ \A s \in Elems(ce[size]) : s \in UsedSpans(h) /\ InOrder(h.span[s], size)
        /\ \A other \in BlockSizes : other # size => Elems(ce[size]) \cap Elems(ce[other]) = {}
NoneFull(h, ce) ==
    \A size \in BlockSizes : \A s \in Elems(ce[size]) :
        h.span[s].free_count < WholeBlocks(h.span[s], size)

InCentral(ce, s) == \E size \in BlockSizes : s \in Elems(ce[size])
BeingFreed(cl, s) == \E t \in Threads : cl[t].op = "freePages" /\ cl[t].span = s

(* What a thread has in its hands: the blocks on their way home, and a     *)
(* span it has taken out of the central cache or got back from a caller.   *)
CallSound(h, ce, c) ==
    /\ c.op = "idle" => c = Idle
    /\ c.op \in {"fetch", "grow"} => c.size \in BlockSizes /\ c.blocks = <<>>
    /\ c.op \in {"release", "return"} => c.size \in BlockSizes /\ c.blocks # <<>>
    /\ c.op = "freePages" =>
          /\ c.span \in UsedSpans(h) /\ ~InCentral(ce, c.span)
          /\ c.size \in BlockSizes \/ (c.size \in LargeSizes /\ c.blocks = <<>>)
    /\ Distinct(c.blocks)
FreedOnce(cl) ==
    \A t, u \in Threads :
        cl[t].op = "freePages" /\ cl[u].op = "freePages" /\ cl[t].span = cl[u].span => t = u
CallsSound(h, ce, cl) == (\A t \in Threads : CallSound(h, ce, cl[t])) /\ FreedOnce(cl)
ListsDistinct(ca) == \A t \in Threads : \A size \in BlockSizes : Distinct(ca[t][size])

(* A large piece is a span of its own: in use, and neither in the central  *)
(* cache nor about to be freed.                                            *)
Aside(h, ce, cl, s) == s \in UsedSpans(h) /\ ~InCentral(ce, s) /\ ~BeingFreed(cl, s)
Serves(h, ce, cl, s, o) ==
    /\ Aside(h, ce, cl, s)
    /\ First(h.span[s]) = o.at /\ h.span[s].page_count = PagesFor(o.size)
Large(li) == {o \in li : o.size \in LargeSizes}
LargeSound(h, ce, li, cl) ==
    /\ \A o \in Large(li) : \E s \in SpanIds : Serves(h, ce, cl, s, o)
    /\ \A o, p \in Large(li) : o.at = p.at => o = p

(* Every whole block of the size is in one place.                          *)
Booked(h, ce, ca, li, cl, size) ==
    Division(Places, Held(h, ce, ca, li, cl, size), BlocksIn(h, ce, size))

IInv ==
    /\ TypeOK /\ Sound(heap)
    /\ CentralSound(heap, central) /\ NoneFull(heap, central)
    /\ CallsSound(heap, central, call) /\ ListsDistinct(cache)
    /\ \A size \in BlockSizes : Booked(heap, central, cache, live, call, size)
    /\ LargeSound(heap, central, live, call)

-----------------------------------------------------------------------------
(* The callers' blocks after an allocation and after a deallocation.       *)
LEMMA CallerGets ==
    ASSUME NEW li, NEW o
    PROVE  /\ Callers(li \cup {o}, o.size) = Callers(li, o.size) \cup {o.at}
           /\ \A other : other # o.size => Callers(li \cup {o}, other) = Callers(li, other)
<1>1. Callers(li \cup {o}, o.size) = Callers(li, o.size) \cup {o.at}
  BY DEF Callers
<1>2. ASSUME NEW other, other # o.size PROVE Callers(li \cup {o}, other) = Callers(li, other)
  BY <1>2 DEF Callers
<1> QED BY <1>1, <1>2

LEMMA CallerGives ==
    ASSUME NEW li \in SUBSET Piece, NEW o \in li
    PROVE  /\ Callers(li \ {o}, o.size) = Callers(li, o.size) \ {o.at}
           /\ o.at \in Callers(li, o.size)
           /\ \A other : other # o.size => Callers(li \ {o}, other) = Callers(li, other)
<1>1. \A p \in li : p.at = o.at /\ p.size = o.size => p = o
  BY DEF Piece
<1>2. Callers(li \ {o}, o.size) = Callers(li, o.size) \ {o.at}
  BY <1>1 DEF Callers
<1>3. o.at \in Callers(li, o.size)
  BY DEF Callers
<1>4. ASSUME NEW other, other # o.size PROVE Callers(li \ {o}, other) = Callers(li, other)
  BY <1>4 DEF Callers
<1> QED BY <1>2, <1>3, <1>4

(* Large pieces do not count as blocks, nor blocks as large pieces.        *)
LEMMA SizesApart ==
    ASSUME NEW size \in BlockSizes
    PROVE  /\ size \in Nat \ {0} /\ size # 0 /\ size \notin LargeSizes
           /\ BatchNum[size] \in Nat \ {0}
BY SizeAssumption

(* Blocks are in different places, of a thread and of a span too; they may *)
(* change places among those.                                              *)
Apart(X, Y, Z) == X \cap Y = {} /\ X \cap Z = {} /\ Y \cap Z = {}

LEMMA ApartInBooks ==
    ASSUME NEW h, NEW ce, NEW ca, NEW li, NEW cl, NEW size, NEW t \in Threads,
           Booked(h, ce, ca, li, cl, size)
    PROVE  /\ Apart(Callers(li, size), Elems(ca[t][size]), Way(cl, t, size))
           /\ \A s \in SpanIds :
                 /\ AtHome(h, ce, s, size) \cap Callers(li, size) = {}
                 /\ AtHome(h, ce, s, size) \cap Elems(ca[t][size]) = {}
                 /\ AtHome(h, ce, s, size) \cap Way(cl, t, size) = {}
<1> DEFINE H == Held(h, ce, ca, li, cl, size)
<1>1. /\ <<"caller", 0>> \in Places /\ H[<<"caller", 0>>] = Callers(li, size)
      /\ <<"list", t>> \in Places /\ H[<<"list", t>>] = Elems(ca[t][size])
      /\ <<"way", t>> \in Places /\ H[<<"way", t>>] = Way(cl, t, size)
      /\ \A s \in SpanIds :
            <<"span", s>> \in Places /\ H[<<"span", s>>] = AtHome(h, ce, s, size)
  BY HeldAt
<1>2. \A x, y \in Places : x # y => H[x] \cap H[y] = {}
  BY DEF Booked, Division
<1> HIDE DEF H
<1>3. /\ H[<<"caller", 0>>] \cap H[<<"list", t>>] = {}
      /\ H[<<"caller", 0>>] \cap H[<<"way", t>>] = {}
      /\ H[<<"list", t>>] \cap H[<<"way", t>>] = {}
  BY <1>1, <1>2
<1>4. ASSUME NEW s \in SpanIds
      PROVE  /\ H[<<"span", s>>] \cap H[<<"caller", 0>>] = {}
             /\ H[<<"span", s>>] \cap H[<<"list", t>>] = {}
             /\ H[<<"span", s>>] \cap H[<<"way", t>>] = {}
  BY <1>1, <1>2
<1> QED BY <1>1, <1>3, <1>4 DEF Apart

LEMMA MovedByThread ==
    ASSUME NEW h, NEW ce, NEW ca, NEW li, NEW cl, NEW da, NEW mi, NEW dl, NEW size,
           NEW t \in Threads, Booked(h, ce, ca, li, cl, size),
           \A u \in Threads \ {t} : ca[u][size] = da[u][size],
           \A u \in Threads \ {t} : Way(cl, u, size) = Way(dl, u, size),
           Apart(Callers(mi, size), Elems(da[t][size]), Way(dl, t, size)),
           Callers(mi, size) \cup Elems(da[t][size]) \cup Way(dl, t, size)
             = Callers(li, size) \cup Elems(ca[t][size]) \cup Way(cl, t, size)
    PROVE  Booked(h, ce, da, mi, dl, size)
<1> DEFINE H == Held(h, ce, ca, li, cl, size)
           G == Held(h, ce, da, mi, dl, size)
           B == BlocksIn(h, ce, size)
           x == <<"caller", 0>>
           y == <<"list", t>>
           z == <<"way", t>>
           Z == {x, y, z}
<1>1. /\ x \in Places /\ y \in Places /\ z \in Places
      /\ H[x] = Callers(li, size) /\ H[y] = Elems(ca[t][size]) /\ H[z] = Way(cl, t, size)
      /\ G[x] = Callers(mi, size) /\ G[y] = Elems(da[t][size]) /\ G[z] = Way(dl, t, size)
  BY HeldAt
<1>2. ASSUME NEW w \in Places \ Z PROVE H[w] = G[w]
  <2>1. CASE \E u \in Threads \ {t} : w = <<"list", u>> \/ w = <<"way", u>>
    BY <2>1 DEF Held
  <2>2. CASE \E s \in SpanIds : w = <<"span", s>>
    BY <2>2 DEF Held
  <2> QED BY <1>2, <2>1, <2>2, PlacesAre
<1> HIDE DEF H, G, B
<1>3. Division(Places, H, B)
  BY DEF Booked, H, B
<1>4. UNION {G[w] : w \in Z} = UNION {H[w] : w \in Z}
  <2>1. G[x] \cup G[y] \cup G[z] = H[x] \cup H[y] \cup H[z]
    BY <1>1
  <2> HIDE DEF x, y, z
  <2>2. /\ UNION {G[w] : w \in Z} = G[x] \cup G[y] \cup G[z]
        /\ UNION {H[w] : w \in Z} = H[x] \cup H[y] \cup H[z]
    OBVIOUS
  <2> QED BY <2>1, <2>2
<1>5. \A v, w \in Z : v # w => G[v] \cap G[w] = {}
  <2>1. G[x] \cap G[y] = {} /\ G[x] \cap G[z] = {} /\ G[y] \cap G[z] = {}
    BY <1>1 DEF Apart
  <2> HIDE DEF x, y, z
  <2> QED BY <2>1
<1>6. Z \in SUBSET Places
  BY <1>1
<1> HIDE DEF Z
<1>7. Division(Places, G, B)
  BY <1>2, <1>3, <1>4, <1>5, <1>6, Moved
<1> QED BY <1>7 DEF Booked, G, B

(* Spans outside the central cache come and go.                            *)
LEMMA CentralKept ==
    ASSUME NEW h, NEW g, NEW ce, CentralSound(h, ce),
           \A s : InCentral(ce, s) => s \in UsedSpans(g) /\ g.span[s] = h.span[s]
    PROVE  /\ CentralSound(g, ce)
           /\ NoneFull(h, ce) => NoneFull(g, ce)
           /\ \A ca, li, cl, size : size \in BlockSizes /\ Booked(h, ce, ca, li, cl, size)
                  => Booked(g, ce, ca, li, cl, size)
<1>1. \A size \in BlockSizes : \A s \in Elems(ce[size]) :
          s \in UsedSpans(g) /\ g.span[s] = h.span[s]
  BY DEF InCentral
<1>2. CentralSound(g, ce)
  BY <1>1 DEF CentralSound
<1>3. NoneFull(h, ce) => NoneFull(g, ce)
  BY <1>1 DEF NoneFull
<1>4. ASSUME NEW ca, NEW li, NEW cl, NEW size \in BlockSizes, Booked(h, ce, ca, li, cl, size)
      PROVE  Booked(g, ce, ca, li, cl, size)
  <2>1. \A s \in Elems(ce[size]) : h.span[s] = g.span[s]
    BY <1>1
  <2> QED BY <1>4, <2>1, DivisionAlike DEF Booked
<1> QED BY <1>2, <1>3, <1>4

(* The spans that serve large pieces stay as they are.                     *)
LEMMA LargeKept ==
    ASSUME NEW h, NEW ce, NEW li, NEW cl, LargeSound(h, ce, li, cl),
           NEW g, NEW de, NEW mi, NEW dl, Large(mi) \subseteq Large(li),
           \A s \in SpanIds : Aside(h, ce, cl, s) =>
               /\ Aside(g, de, dl, s) /\ g.span[s].page_id = h.span[s].page_id
               /\ g.span[s].page_count = h.span[s].page_count
    PROVE  LargeSound(g, de, mi, dl)
<1>1. ASSUME NEW o \in Large(mi) PROVE \E s \in SpanIds : Serves(g, de, dl, s, o)
  <2>1. PICK s \in SpanIds : Serves(h, ce, cl, s, o)
    BY DEF LargeSound
  <2>2. Serves(g, de, dl, s, o)
    BY <2>1 DEF Serves, First
  <2> QED BY <2>2
<1>2. \A o, p \in Large(mi) : o.at = p.at => o = p
  BY DEF LargeSound
<1> QED BY <1>1, <1>2 DEF LargeSound

(* What TypeOK says of the parts.                                          *)
CallType == [op : {"idle", "fetch", "grow", "release", "return", "freePages"},
             size : BlockSizes \cup LargeSizes \cup {0},
             blocks : Seq(Addresses), span : SpanIds \cup {0}]

LEMMA Parts ==
    ASSUME TypeOK
    PROVE  /\ heap \in HeapType
           /\ central \in [BlockSizes -> Seq(SpanIds)]
           /\ \A size \in BlockSizes : central[size] \in Seq(SpanIds)
           /\ cache \in [Threads -> [BlockSizes -> Seq(Addresses)]]
           /\ \A t \in Threads : /\ cache[t] \in [BlockSizes -> Seq(Addresses)]
                                 /\ \A size \in BlockSizes : cache[t][size] \in Seq(Addresses)
           /\ live \in SUBSET Piece
           /\ \A t \in Threads :
                 call[t].blocks \in Seq(Addresses) /\ call[t].span \in SpanIds \cup {0}
           /\ call \in [Threads -> CallType]
BY DEF TypeOK, HeapType, CallType

(* A list of a thread changes.                                             *)
WithList(ca, t, size, list) == [ca EXCEPT ![t][size] = list]
Relisted(ca, da, t, size, list) ==
    /\ da \in [Threads -> [BlockSizes -> Seq(Addresses)]] /\ ListsDistinct(da)
    /\ da[t][size] = list
    /\ \A u \in Threads, other \in BlockSizes :
          u # t \/ other # size => da[u][other] = ca[u][other]

LEMMA ListChanged ==
    ASSUME NEW ca \in [Threads -> [BlockSizes -> Seq(Addresses)]], ListsDistinct(ca),
           NEW t \in Threads, NEW size \in BlockSizes,
           NEW list \in Seq(Addresses), Distinct(list)
    PROVE  Relisted(ca, WithList(ca, t, size, list), t, size, list)
<1> DEFINE da == WithList(ca, t, size, list)
<1>1. da \in [Threads -> [BlockSizes -> Seq(Addresses)]] /\ da[t][size] = list
  BY DEF WithList
<1>2. \A u \in Threads, other \in BlockSizes :
          u # t \/ other # size => da[u][other] = ca[u][other]
  BY DEF WithList
<1> HIDE DEF da
<1>3. ListsDistinct(da)
  <2> SUFFICES ASSUME NEW u \in Threads, NEW other \in BlockSizes PROVE Distinct(da[u][other])
    BY DEF ListsDistinct
  <2>1. CASE u = t /\ other = size
    BY <1>1, <2>1
  <2>2. CASE u # t \/ other # size
    <3>1. da[u][other] = ca[u][other]
      BY <1>2, <2>2
    <3> QED BY <3>1 DEF ListsDistinct
  <2> QED BY <2>1, <2>2
<1> QED BY <1>1, <1>2, <1>3 DEF da, Relisted

(* A thread does something else.                                           *)
WithCall(cl, t, c) == [cl EXCEPT ![t] = c]
Recalled(cl, dl, t, c) ==
    /\ dl \in [Threads -> CallType] /\ dl[t] = c
    /\ \A u \in Threads \ {t} : dl[u] = cl[u]

LEMMA CallChanged ==
    ASSUME NEW cl \in [Threads -> CallType], NEW t \in Threads, NEW c \in CallType
    PROVE  Recalled(cl, WithCall(cl, t, c), t, c)
BY DEF WithCall, Recalled

SameWays(cl, dl, t, c) ==
    \A size :
        /\ \A u \in Threads \ {t} : Way(cl, u, size) = Way(dl, u, size)
        /\ c.size = size => Way(dl, t, size) = Elems(c.blocks)
        /\ c.size # size => Way(dl, t, size) = {}

LEMMA WaysAlike ==
    ASSUME NEW cl, NEW dl, NEW t \in Threads, NEW c, Recalled(cl, dl, t, c)
    PROVE  SameWays(cl, dl, t, c)
BY DEF Recalled, Way, SameWays

(* The other threads go on with what they have.                            *)
LEMMA CallsKept ==
    ASSUME NEW h, NEW ce, NEW cl, NEW g, NEW de, NEW dl, NEW t \in Threads, NEW c,
           Recalled(cl, dl, t, c), CallsSound(h, ce, cl), CallSound(g, de, c),
           \A u \in Threads \ {t} : cl[u].op = "freePages" =>
               /\ cl[u].span \in UsedSpans(g) /\ ~InCentral(de, cl[u].span)
               /\ c.op = "freePages" => c.span # cl[u].span
    PROVE  CallsSound(g, de, dl)
<1>1. dl[t] = c /\ \A u \in Threads \ {t} : dl[u] = cl[u]
  BY DEF Recalled
<1>0. (\A u \in Threads : CallSound(h, ce, cl[u])) /\ FreedOnce(cl)
  BY DEF CallsSound
<1>2. ASSUME NEW u \in Threads PROVE CallSound(g, de, dl[u])
  <2>1. CASE u = t
    BY <1>1, <2>1
  <2>2. CASE u # t
    <3>1. dl[u] = cl[u] /\ CallSound(h, ce, cl[u])
      BY <1>0, <1>1, <2>2
    <3>2. CallSound(g, de, cl[u])
      BY <2>2, <3>1 DEF CallSound
    <3> QED BY <3>1, <3>2
  <2> QED BY <2>1, <2>2
<1>3. ASSUME NEW u \in Threads, NEW v \in Threads, dl[u].op = "freePages",
             dl[v].op = "freePages", dl[u].span = dl[v].span, u # v
      PROVE  FALSE
  <2>1. CASE u = t
    BY <1>1, <1>3, <2>1
  <2>2. CASE v = t
    BY <1>1, <1>3, <2>2
  <2>3. CASE u # t /\ v # t
    BY <1>0, <1>1, <1>3, <2>3 DEF FreedOnce
  <2> QED BY <2>1, <2>2, <2>3
<1> QED BY <1>2, <1>3 DEF CallsSound, FreedOnce

-----------------------------------------------------------------------------
LEMMA AllocateCachedKeeps ==
    ASSUME IInv, NEW t \in Threads, NEW size \in BlockSizes, AllocateCached(t, size)
    PROVE  IInv'
<1> DEFINE list == cache[t][size]
           a == Head(list)
           o == [at |-> a, size |-> size]
<1>1. /\ list # <<>> /\ live' = live \cup {o} /\ cache' = WithList(cache, t, size, Tail(list))
      /\ heap' = heap /\ central' = central /\ call' = call
      /\ o.at = a /\ o.size = size
  BY DEF AllocateCached, WithList
<1>2. /\ TypeOK /\ ListsDistinct(cache) /\ list \in Seq(Addresses) /\ Distinct(list)
      /\ cache \in [Threads -> [BlockSizes -> Seq(Addresses)]] /\ live \in SUBSET Piece
  BY Parts DEF IInv, ListsDistinct
<1>3. /\ a \in Addresses /\ Tail(list) \in Seq(Addresses) /\ Distinct(Tail(list))
      /\ a \in Elems(list) /\ Elems(Tail(list)) = Elems(list) \ {a}
  BY <1>1, <1>2, HeadOff
<1> HIDE DEF a, o, list
<1>4. Relisted(cache, cache', t, size, Tail(list))
  <2> DEFINE rest == Tail(list)
  <2>1. rest \in Seq(Addresses) /\ Distinct(rest) /\ cache' = WithList(cache, t, size, rest)
    BY <1>1, <1>3
  <2> HIDE DEF rest
  <2>2. Relisted(cache, WithList(cache, t, size, rest), t, size, rest)
    BY <1>2, <2>1, ListChanged
  <2> QED BY <2>1, <2>2 DEF rest
<1>4a. /\ cache' \in [Threads -> [BlockSizes -> Seq(Addresses)]] /\ ListsDistinct(cache')
       /\ cache'[t][size] = Tail(list)
       /\ \A u \in Threads, other \in BlockSizes :
             u # t \/ other # size => cache'[u][other] = cache[u][other]
  BY <1>4 DEF Relisted
<1>5. /\ Callers(live', size) = Callers(live, size) \cup {a}
      /\ \A other : other # size => Callers(live', other) = Callers(live, other)
  <2>1. /\ Callers(live \cup {o}, o.size) = Callers(live, o.size) \cup {o.at}
        /\ \A other : other # o.size => Callers(live \cup {o}, other) = Callers(live, other)
    BY CallerGets
  <2> QED BY <1>1, <2>1
<1>6. TypeOK'
  <2>1. o \in Piece
    BY <1>3 DEF o, Piece
  <2> QED BY <1>1, <1>2, <1>4a, <2>1 DEF TypeOK
<1>7. Booked(heap', central', cache', live', call', size)
  <2>1. Apart(Callers(live, size), Elems(list), Way(call, t, size))
    BY ApartInBooks DEF IInv, list
  <2>7. Way(call', t, size) = Way(call, t, size)
    BY <1>1
  <2>2. /\ Apart(Callers(live', size), Elems(cache'[t][size]), Way(call', t, size))
        /\ Callers(live', size) \cup Elems(cache'[t][size]) \cup Way(call', t, size)
             = Callers(live, size) \cup Elems(cache[t][size]) \cup Way(call, t, size)
    BY <1>3, <1>4a, <1>5, <2>1, <2>7 DEF Apart, list
  <2>3. \A u \in Threads \ {t} : cache[u][size] = cache'[u][size]
    BY <1>4a
  <2>4. \A u \in Threads \ {t} : Way(call, u, size) = Way(call', u, size)
    BY <1>1
  <2>5. Booked(heap, central, cache, live, call, size)
    BY DEF IInv
  <2>6. Booked(heap, central, cache', live', call', size)
    BY <2>2, <2>3, <2>4, <2>5, MovedByThread
  <2> QED BY <1>1, <2>6
<1>8. ASSUME NEW other \in BlockSizes, other # size
      PROVE  Booked(heap', central', cache', live', call', other)
  <2>1. Booked(heap, central, cache, live, call, other)
    BY DEF IInv
  <2>2. Callers(live, other) = Callers(live', other)
    BY <1>5, <1>8
  <2>3. \A u \in Threads : cache[u][other] = cache'[u][other]
    BY <1>4a, <1>8
  <2>4. \A u \in Threads : Way(call, u, other) = Way(call', u, other)
    BY <1>1
  <2>5. Booked(heap, central, cache', live', call', other)
    BY <2>1, <2>2, <2>3, <2>4, DivisionAlike DEF Booked
  <2> QED BY <1>1, <2>5
<1>9. LargeSound(heap', central', live', call')
  <2>1. Large(live') = Large(live)
    BY <1>1, SizesApart DEF Large, o
  <2> QED BY <1>1, <2>1 DEF IInv, LargeSound
<1> QED BY <1>1, <1>4a, <1>6, <1>7, <1>8, <1>9 DEF IInv

(* A thread goes on with what it has in its hands.                         *)
LEMMA CallStepKeeps ==
    ASSUME IInv, NEW t \in Threads, NEW c \in CallType,
           UNCHANGED <<heap, central, cache, live>>, call' = WithCall(call, t, c),
           call[t].op # "freePages", c.op # "freePages", CallSound(heap, central, c),
           \A size \in BlockSizes :
               (c.size = size => Elems(c.blocks) = Way(call, t, size))
               /\ (c.size # size => Way(call, t, size) = {})
    PROVE  IInv'
<1>1. heap' = heap /\ central' = central /\ cache' = cache /\ live' = live
  OBVIOUS
<1>2. /\ TypeOK /\ call \in [Threads -> CallType] /\ CallsSound(heap, central, call)
  BY Parts DEF IInv
<1>3. Recalled(call, call', t, c)
  <2>1. Recalled(call, WithCall(call, t, c), t, c)
    BY <1>2, CallChanged
  <2> QED BY <2>1
<1>4. TypeOK'
  BY <1>1, <1>2, <1>3 DEF TypeOK, Recalled, CallType
<1>5. CallsSound(heap, central, call')
  <2>1. \A u \in Threads \ {t} : call[u].op = "freePages" =>
            /\ call[u].span \in UsedSpans(heap) /\ ~InCentral(central, call[u].span)
            /\ c.op = "freePages" => c.span # call[u].span
    BY <1>2 DEF CallSound, CallsSound
  <2>2. CallSound(heap, central, c)
    OBVIOUS
  <2> QED BY <1>2, <1>3, <2>1, <2>2, CallsKept
<1>6. ASSUME NEW size \in BlockSizes PROVE Booked(heap, central, cache, live, call', size)
  <2>1. SameWays(call, call', t, c)
    BY <1>3, WaysAlike
  <2>2. \A u \in Threads : Way(call, u, size) = Way(call', u, size)
    BY <2>1 DEF SameWays
  <2>3. Booked(heap, central, cache, live, call, size)
    BY DEF IInv
  <2> QED BY <2>2, <2>3, DivisionAlike DEF Booked
<1>7. LargeSound(heap, central, live, call')
  <2>1. \A s : BeingFreed(call', s) => BeingFreed(call, s)
    BY <1>3 DEF BeingFreed, Recalled
  <2>2. \A s \in SpanIds : Aside(heap, central, call, s) => Aside(heap, central, call', s)
    BY <2>1 DEF Aside
  <2>3. LargeSound(heap, central, live, call)
    BY DEF IInv
  <2> QED BY <2>2, <2>3, LargeKept
<1> QED BY <1>1, <1>4, <1>5, <1>6, <1>7 DEF IInv

LEMMA MissKeeps ==
    ASSUME IInv, NEW t \in Threads, NEW size \in BlockSizes, AllocateMiss(t, size)
    PROVE  IInv'
<1> DEFINE c == Doing("fetch", size, <<>>, 0)
<1>1. call[t].op = "idle" /\ call[t] = Idle /\ call' = WithCall(call, t, c)
  BY DEF AllocateMiss, At, IInv, CallsSound, CallSound, WithCall
<1>2. c.op = "fetch" /\ c.size = size /\ c.blocks = <<>> /\ c \in CallType
  <2>1. <<>> \in Seq(Addresses)
    OBVIOUS
  <2> QED BY <2>1 DEF Doing, CallType
<1>3. Elems(<<>>) = {} /\ Distinct(<<>>) /\ Idle.size = 0
  BY DEF Elems, Distinct, Idle
<1> HIDE DEF c
<1>4. CallSound(heap, central, c)
  BY <1>2, <1>3 DEF CallSound
<1>5. \A z \in BlockSizes : Way(call, t, z) = {}
  BY <1>1, <1>3, SizesApart DEF Way
<1>6. UNCHANGED <<heap, central, cache, live>>
  BY DEF AllocateMiss
<1>7. call[t].op # "freePages" /\ c.op # "freePages"
  BY <1>1, <1>2
<1>8. \A z \in BlockSizes : (c.size = z => Elems(c.blocks) = Way(call, t, z))
                            /\ (c.size # z => Way(call, t, z) = {})
  BY <1>2, <1>3, <1>5
<1> QED BY <1>1, <1>2, <1>4, <1>6, <1>7, <1>8, CallStepKeeps

LEMMA StartGrowKeeps ==
    ASSUME IInv, NEW t \in Threads, StartGrow(t) \/ LockToReturn(t)
    PROVE  IInv'
<1>0. PICK op \in {"grow", "return"} :
         /\ call' = WithCall(call, t, [call[t] EXCEPT !.op = op])
         /\ op = "grow" <=> call[t].op = "fetch"
         /\ op = "return" <=> call[t].op = "release"
         /\ UNCHANGED <<heap, central, cache, live>>
  BY DEF StartGrow, LockToReturn, At, WithCall
<1> DEFINE c == [call[t] EXCEPT !.op = op]
<1>1. CallSound(heap, central, call[t]) /\ call[t] \in CallType
  BY Parts DEF IInv, CallsSound
<1>2. /\ c.op = op /\ c.size = call[t].size /\ c.blocks = call[t].blocks
      /\ c.span = call[t].span /\ c \in CallType
  BY <1>1 DEF CallType
<1> HIDE DEF c
<1>3. call[t].op \in {"fetch", "release"} /\ call[t].op # "freePages" /\ c.op # "freePages"
  BY <1>0, <1>2
<1>4. CallSound(heap, central, c)
  BY <1>0, <1>1, <1>2 DEF CallSound
<1>5. \A z \in BlockSizes : (c.size = z => Elems(c.blocks) = Way(call, t, z))
                            /\ (c.size # z => Way(call, t, z) = {})
  BY <1>2 DEF Way
<1>6. call' = WithCall(call, t, c)
  BY <1>0 DEF c
<1> QED BY <1>0, <1>2, <1>3, <1>4, <1>5, <1>6, CallStepKeeps

-----------------------------------------------------------------------------
(* A caller gives a block back; then it is in the thread's list, or among  *)
(* those the thread brings home.                                           *)
SharedOut(X, Y, W) == X \cap Y = {} /\ X \cup Y = W

GivesBack(t, o, list, c) ==
    /\ o.size \in BlockSizes /\ call[t].op = "idle" /\ live' = live \ {o}
    /\ UNCHANGED <<heap, central>>
    /\ list \in Seq(Addresses) /\ Distinct(list) /\ cache' = WithList(cache, t, o.size, list)
    /\ c \in CallType /\ call' = WithCall(call, t, c)
    /\ c.op # "freePages" /\ CallSound(heap, central, c)
    /\ c.size = o.size \/ (c.size = 0 /\ c.blocks = <<>>)
    /\ SharedOut(Elems(list), Elems(c.blocks), Elems(cache[t][o.size]) \cup {o.at})

LEMMA GivenBack ==
    ASSUME IInv, NEW t \in Threads, NEW o \in live, NEW list, NEW c, GivesBack(t, o, list, c)
    PROVE  IInv'
<1> DEFINE size == o.size
<1>0. /\ call[t].op = "idle" /\ live' = live \ {o}
      /\ list \in Seq(Addresses) /\ Distinct(list) /\ cache' = WithList(cache, t, size, list)
      /\ c \in CallType /\ call' = WithCall(call, t, c)
      /\ c.op # "freePages" /\ CallSound(heap, central, c)
      /\ c.size = size \/ (c.size = 0 /\ c.blocks = <<>>)
  BY DEF GivesBack
<1>1. heap' = heap /\ central' = central /\ size \in BlockSizes /\ size # 0
  BY SizesApart DEF GivesBack
<1>2. /\ TypeOK /\ call \in [Threads -> CallType] /\ CallsSound(heap, central, call)
      /\ cache \in [Threads -> [BlockSizes -> Seq(Addresses)]] /\ ListsDistinct(cache)
      /\ live \in SUBSET Piece
  BY Parts DEF IInv
<1>3. Recalled(call, call', t, c)
  <2>1. Recalled(call, WithCall(call, t, c), t, c)
    BY <1>0, <1>2, CallChanged
  <2> QED BY <1>0, <2>1
<1>3a. SameWays(call, call', t, c)
  BY <1>3, WaysAlike
<1>4. Relisted(cache, cache', t, size, list)
  <2>1. Relisted(cache, WithList(cache, t, size, list), t, size, list)
    BY <1>0, <1>1, <1>2, ListChanged
  <2> QED BY <1>0, <2>1
<1>5. /\ Callers(live', size) = Callers(live, size) \ {o.at}
      /\ o.at \in Callers(live, size)
      /\ \A other : other # size => Callers(live', other) = Callers(live, other)
  <2>1. /\ Callers(live \ {o}, o.size) = Callers(live, o.size) \ {o.at}
        /\ o.at \in Callers(live, o.size)
        /\ \A other : other # o.size => Callers(live \ {o}, other) = Callers(live, other)
    BY <1>2, CallerGives
  <2> QED BY <1>0, <2>1
<1>6. TypeOK'
  BY <1>0, <1>1, <1>2, <1>3, <1>4 DEF TypeOK, Recalled, Relisted, CallType
<1>7. CallsSound(heap, central, call')
  <2>1. \A u \in Threads \ {t} : call[u].op = "freePages" =>
            /\ call[u].span \in UsedSpans(heap) /\ ~InCentral(central, call[u].span)
            /\ c.op = "freePages" => c.span # call[u].span
    BY <1>0, <1>2 DEF CallSound, CallsSound
  <2>2. CallSound(heap, central, c)
    BY <1>0
  <2> QED BY <1>2, <1>3, <2>1, <2>2, CallsKept
<1>8. Way(call, t, size) = {} /\ \A z \in BlockSizes : Way(call, t, z) = {}
  <2>1. call[t].size = 0
    BY <1>0, <1>2 DEF CallsSound, CallSound, Idle
  <2> QED BY <1>1, <2>1, SizesApart DEF Way
<1>9. \A u \in Threads \ {t} : \A z \in BlockSizes :
          Way(call, u, z) = Way(call', u, z) /\ cache[u][z] = cache'[u][z]
  BY <1>3a, <1>4 DEF Relisted, SameWays
<1>10. Booked(heap, central, cache', live', call', size)
  <2>1. Booked(heap, central, cache, live, call, size)
    BY <1>1 DEF IInv
  <2>2. Apart(Callers(live, size), Elems(cache[t][size]), Way(call, t, size))
    BY <2>1, ApartInBooks
  <2>3. cache'[t][size] = list
    BY <1>4 DEF Relisted
  <2>4. Way(call', t, size) = Elems(c.blocks)
    <3>1. Elems(<<>>) = {}
      BY DEF Elems
    <3> QED BY <1>0, <1>1, <1>3a, <3>1 DEF SameWays
  <2> HIDE DEF size
  <2>5. /\ Elems(list) \cup Elems(c.blocks) = Elems(cache[t][size]) \cup {o.at}
        /\ Elems(list) \cap Elems(c.blocks) = {}
    BY DEF size, SharedOut, GivesBack
  <2>6. Apart(Callers(live', size), Elems(cache'[t][size]), Way(call', t, size))
    BY <1>5, <2>2, <2>3, <2>4, <2>5 DEF Apart
  <2>7. Callers(live', size) \cup Elems(cache'[t][size]) \cup Way(call', t, size)
          = Callers(live, size) \cup Elems(cache[t][size]) \cup Way(call, t, size)
    <3>1. Callers(live, size) = Callers(live', size) \cup {o.at}
      BY <1>5
    <3>2. Callers(live', size) \cup Elems(list) \cup Elems(c.blocks)
            = Callers(live, size) \cup Elems(cache[t][size])
      BY <2>5, <3>1
    <3> QED BY <1>8, <2>3, <2>4, <3>2
  <2>8. /\ \A u \in Threads \ {t} : cache[u][size] = cache'[u][size]
        /\ \A u \in Threads \ {t} : Way(call, u, size) = Way(call', u, size)
    BY <1>1, <1>9
  <2> QED BY <2>1, <2>6, <2>7, <2>8, MovedByThread
<1>11. ASSUME NEW z \in BlockSizes, z # size
       PROVE  Booked(heap, central, cache', live', call', z)
  <2>1. Booked(heap, central, cache, live, call, z)
    BY DEF IInv
  <2>2. Callers(live, z) = Callers(live', z)
    BY <1>5, <1>11
  <2>3. \A u \in Threads : cache[u][z] = cache'[u][z]
    BY <1>4, <1>11 DEF Relisted
  <2>4. Way(call', t, z) = {}
    <3>1. c.size # z
      BY <1>0, <1>11, SizesApart
    <3> QED BY <1>3a, <3>1 DEF SameWays
  <2>5. \A u \in Threads : Way(call, u, z) = Way(call', u, z)
    BY <1>8, <1>9, <2>4
  <2> QED BY <2>1, <2>2, <2>3, <2>5, DivisionAlike DEF Booked
<1>12. LargeSound(heap, central, live', call')
  <2>1. \A s : BeingFreed(call', s) => BeingFreed(call, s)
    BY <1>0, <1>3 DEF BeingFreed, Recalled
  <2>2. \A s \in SpanIds : Aside(heap, central, call, s) => Aside(heap, central, call', s)
    BY <2>1 DEF Aside
  <2>3. LargeSound(heap, central, live, call)
    BY DEF IInv
  <2>4. Large(live') \subseteq Large(live)
    BY <1>0 DEF Large
  <2> QED BY <2>2, <2>3, <2>4, LargeKept
<1>13. ListsDistinct(cache')
  BY <1>4 DEF Relisted
<1> QED BY <1>1, <1>6, <1>7, <1>10, <1>11, <1>12, <1>13 DEF IInv

LEMMA DeallocateKeeps ==
    ASSUME IInv, NEW t \in Threads, NEW o \in live, Deallocate(t, o)
    PROVE  IInv'
<1> DEFINE old == cache[t][o.size]
           list == <<o.at>> \o old
           n == BatchNum[o.size]
<1>1. /\ call[t].op = "idle" /\ o.size \in BlockSizes /\ live' = live \ {o}
      /\ UNCHANGED <<heap, central>>
  BY DEF Deallocate, At
<1>2. /\ TypeOK /\ call \in [Threads -> CallType] /\ CallsSound(heap, central, call)
      /\ call[t] = Idle /\ Idle.size = 0 /\ Idle.blocks = <<>> /\ Idle.op = "idle"
      /\ old \in Seq(Addresses) /\ Distinct(old) /\ o.at \in Addresses /\ n \in Nat \ {0}
  BY <1>1, Parts, SizesApart DEF IInv, CallsSound, CallSound, Idle, ListsDistinct, Piece
<1>3. o.at \notin Elems(old)
  <2>1. Apart(Callers(live, o.size), Elems(old), Way(call, t, o.size))
    BY <1>1, ApartInBooks DEF IInv
  <2>2. o.at \in Callers(live, o.size)
    BY DEF Callers
  <2> QED BY <2>1, <2>2 DEF Apart
<1>4. /\ list \in Seq(Addresses) /\ Distinct(list) /\ Elems(list) = Elems(old) \cup {o.at}
      /\ Len(list) \in Nat
  <2>1. /\ list \in Seq(Addresses) /\ Distinct(list) /\ Elems(list) = Elems(old) \cup {o.at}
    BY <1>2, <1>3, Pushed
  <2> HIDE DEF list
  <2> QED BY <2>1, LenProperties
<1> DEFINE p == SubSeq(list, 1, n)
           r == SubSeq(list, n + 1, Len(list))
<1>5. CASE Len(list) > 2 * n
  <2> DEFINE c == Doing("release", o.size, p, 0)
  <2>1. cache' = WithList(cache, t, o.size, r) /\ call' = WithCall(call, t, c)
    BY <1>5 DEF Deallocate, WithList, WithCall
  <2>2. n \in 0..Len(list)
    BY <1>2, <1>4, <1>5
  <2>3. /\ p \in Seq(Addresses) /\ r \in Seq(Addresses) /\ Distinct(p) /\ Distinct(r)
        /\ Len(p) = n /\ Elems(p) \cup Elems(r) = Elems(list) /\ Elems(p) \cap Elems(r) = {}
    <3> HIDE DEF list, n
    <3> QED BY <1>4, <2>2, CutInTwo
  <2> HIDE DEF p, r, list, n, old
  <2>4. p # <<>>
    BY <1>2, <2>3
  <2>5. /\ c \in CallType /\ c.op = "release" /\ c.size = o.size /\ c.blocks = p
    BY <1>1, <2>3 DEF Doing, CallType
  <2> HIDE DEF c
  <2>6. CallSound(heap, central, c)
    BY <1>1, <2>3, <2>4, <2>5 DEF CallSound
  <2>7. c.op # "freePages" /\ (c.size = o.size \/ (c.size = 0 /\ c.blocks = <<>>))
    BY <2>5
  <2>8. SharedOut(Elems(r), Elems(c.blocks), Elems(cache[t][o.size]) \cup {o.at})
    <3>1. c.blocks = p /\ Elems(list) = Elems(cache[t][o.size]) \cup {o.at}
      BY <1>4, <2>5 DEF old
    <3>2. SharedOut(Elems(r), Elems(p), Elems(list))
      BY <2>3 DEF SharedOut
    <3> QED BY <3>1, <3>2
  <2> QED BY <1>1, <2>1, <2>3, <2>5, <2>6, <2>7, <2>8, GivenBack DEF GivesBack
<1>6. CASE ~(Len(list) > 2 * n)
  <2> DEFINE c == Idle
  <2>1. cache' = WithList(cache, t, o.size, list) /\ call' = call
    BY <1>6 DEF Deallocate, WithList
  <2>2. call' = WithCall(call, t, c)
    BY <1>2, <2>1 DEF WithCall
  <2>3. c \in CallType /\ CallSound(heap, central, c)
    BY <1>2 DEF CallsSound
  <2>4. Elems(c.blocks) = {}
    BY <1>2 DEF Elems
  <2> HIDE DEF list, old
  <2>5. c.op # "freePages" /\ (c.size = o.size \/ (c.size = 0 /\ c.blocks = <<>>))
    BY <1>2
  <2>6. SharedOut(Elems(list), Elems(c.blocks), Elems(cache[t][o.size]) \cup {o.at})
    BY <1>4, <2>4 DEF old, SharedOut
  <2> QED BY <1>1, <1>4, <2>1, <2>2, <2>3, <2>5, <2>6, GivenBack DEF GivesBack
<1> QED BY <1>5, <1>6

-----------------------------------------------------------------------------
(* What remains to be brought home.                                        *)
LEMMA Continued ==
    ASSUME NEW size \in BlockSizes \cup LargeSizes \cup {0}, NEW rest \in Seq(Addresses),
           Distinct(rest), size \in BlockSizes \/ rest = <<>>, NEW h, NEW ce
    PROVE  /\ Continue(size, rest) \in CallType /\ Continue(size, rest).op # "freePages"
           /\ CallSound(h, ce, Continue(size, rest))
           /\ Continue(size, rest).blocks = rest
           /\ rest # <<>> => Continue(size, rest).size = size
           /\ rest = <<>> => Continue(size, rest).size = 0
<1>1. CASE rest = <<>>
  <2>1. Continue(size, rest) = Idle /\ <<>> \in Seq(Addresses)
    BY <1>1 DEF Continue
  <2>2. /\ Idle.op = "idle" /\ Idle.size = 0 /\ Idle.blocks = rest /\ Idle \in CallType
    BY <1>1, <2>1 DEF Idle, CallType
  <2>3. CallSound(h, ce, Idle)
    BY <2>2 DEF CallSound
  <2> QED BY <1>1, <2>1, <2>2, <2>3
<1>2. CASE rest # <<>>
  <2>1. Continue(size, rest) = Doing("return", size, rest, 0)
    BY <1>2 DEF Continue
  <2>2. size \in BlockSizes
    BY <1>2
  <2> QED BY <1>2, <2>1, <2>2 DEF Doing, CallType, CallSound
<1> QED BY <1>1, <1>2

LEMMA FreeSpanKeeps ==
    ASSUME IInv, NEW t \in Threads, FreeSpan(t)
    PROVE  IInv'
<1> DEFINE s == call[t].span
           c == Continue(call[t].size, call[t].blocks)
<1>1. /\ call[t].op = "freePages" /\ heap' = FreePages(heap, s)
      /\ call' = WithCall(call, t, c)
      /\ central' = central /\ cache' = cache /\ live' = live
  BY DEF FreeSpan, At, WithCall
<1>2. /\ TypeOK /\ call \in [Threads -> CallType] /\ CallsSound(heap, central, call)
      /\ Sound(heap) /\ CentralSound(heap, central) /\ call[t].blocks \in Seq(Addresses)
      /\ call[t].size \in BlockSizes \cup LargeSizes \cup {0}
  BY Parts DEF IInv, CallType
<1>3. /\ s \in UsedSpans(heap) /\ ~InCentral(central, s) /\ Distinct(call[t].blocks)
      /\ call[t].size \in BlockSizes \/ call[t].blocks = <<>>
  BY <1>1, <1>2 DEF CallsSound, CallSound
<1>4. /\ c \in CallType /\ c.op # "freePages" /\ CallSound(heap', central, c)
      /\ c.blocks = call[t].blocks
      /\ call[t].blocks # <<>> => c.size = call[t].size
      /\ call[t].blocks = <<>> => c.size = 0
  BY <1>2, <1>3, Continued
<1> HIDE DEF c, s
<1>5. Freed(heap, s, heap')
  <2>1. Freed(heap, s, FreePages(heap, s))
    BY <1>2, <1>3, FreePagesFrees
  <2> QED BY <1>1, <2>1
<1>6. /\ Sound(heap') /\ UsedSpans(heap') = UsedSpans(heap) \ {s}
      /\ \A u \in UsedSpans(heap) \ {s} : heap'.span[u] = heap.span[u]
  BY <1>5 DEF Freed
<1>7. Recalled(call, call', t, c) /\ SameWays(call, call', t, c)
  <2>1. Recalled(call, WithCall(call, t, c), t, c)
    BY <1>2, <1>4, CallChanged
  <2>2. Recalled(call, call', t, c)
    BY <1>1, <2>1
  <2> QED BY <2>2, WaysAlike
<1>8. TypeOK'
  BY <1>1, <1>2, <1>6, <1>7 DEF TypeOK, Recalled, CallType, Sound, HeapType
<1>9. /\ CentralSound(heap', central)
      /\ NoneFull(heap, central) => NoneFull(heap', central)
      /\ \A ca, li, cl, size : size \in BlockSizes /\ Booked(heap, central, ca, li, cl, size)
             => Booked(heap', central, ca, li, cl, size)
  <2>1. \A u : InCentral(central, u) => u \in UsedSpans(heap') /\ heap'.span[u] = heap.span[u]
    BY <1>2, <1>3, <1>6 DEF CentralSound, InCentral
  <2> QED BY <1>2, <2>1, CentralKept
<1>10. CallsSound(heap', central, call')
  <2>1. \A u \in Threads \ {t} : call[u].op = "freePages" =>
            /\ call[u].span \in UsedSpans(heap') /\ ~InCentral(central, call[u].span)
            /\ c.op = "freePages" => c.span # call[u].span
    BY <1>1, <1>2, <1>4, <1>6 DEF CallSound, CallsSound, FreedOnce, s
  <2> QED BY <1>2, <1>4, <1>7, <2>1, CallsKept
<1>11. ASSUME NEW size \in BlockSizes PROVE Booked(heap', central, cache, live, call', size)
  <2>1. Way(call, t, size) = Way(call', t, size)
    <3>1. size # 0 /\ Elems(<<>>) = {}
      BY SizesApart DEF Elems
    <3>2. CASE call[t].blocks = <<>>
      BY <1>4, <1>7, <3>1, <3>2 DEF SameWays, Way
    <3>3. CASE call[t].blocks # <<>>
      BY <1>4, <1>7, <3>3 DEF SameWays, Way
    <3> QED BY <3>2, <3>3
  <2>2. \A u \in Threads : Way(call, u, size) = Way(call', u, size)
    BY <1>7, <2>1 DEF SameWays
  <2>3. Booked(heap, central, cache, live, call, size)
    BY DEF IInv
  <2>4. Booked(heap, central, cache, live, call', size)
    BY <2>2, <2>3, DivisionAlike DEF Booked
  <2> QED BY <1>9, <2>4
<1>12. LargeSound(heap', central, live, call')
  <2>1. \A u : BeingFreed(call', u) => BeingFreed(call, u)
    BY <1>4, <1>7 DEF BeingFreed, Recalled
  <2>2. BeingFreed(call, s)
    BY <1>1 DEF BeingFreed, s
  <2>3. \A u \in SpanIds : Aside(heap, central, call, u) =>
            /\ Aside(heap', central, call', u) /\ heap'.span[u] = heap.span[u]
    BY <1>6, <2>1, <2>2 DEF Aside
  <2>4. LargeSound(heap, central, live, call)
    BY DEF IInv
  <2> QED BY <2>3, <2>4, LargeKept
<1> QED BY <1>1, <1>6, <1>8, <1>9, <1>10, <1>11, <1>12 DEF IInv

LEMMA DeallocateLargeKeeps ==
    ASSUME IInv, NEW t \in Threads, NEW o \in live, DeallocateLarge(t, o)
    PROVE  IInv'
<1> DEFINE s == FindSpanByAddr(heap, o.at)
           c == Doing("freePages", o.size, <<>>, s)
<1>1. /\ call[t].op = "idle" /\ o.size \in LargeSizes /\ live' = live \ {o}
      /\ call' = WithCall(call, t, c)
      /\ heap' = heap /\ central' = central /\ cache' = cache
  BY DEF DeallocateLarge, At, WithCall
<1>2. /\ TypeOK /\ call \in [Threads -> CallType] /\ CallsSound(heap, central, call)
      /\ Sound(heap) /\ live \in SUBSET Piece
      /\ LargeSound(heap, central, live, call) /\ o \in Large(live)
  BY <1>1, Parts DEF IInv, Large
<1>3. PICK u \in SpanIds : Serves(heap, central, call, u, o)
  BY <1>2 DEF LargeSound
<1>4. Aside(heap, central, call, u) /\ First(heap.span[u]) = o.at /\ u \in UsedSpans(heap)
      /\ u \in Live(heap) /\ heap \in HeapType /\ Divided(heap)
  BY <1>2, <1>3 DEF Serves, Aside, UsedSpans, Sound
<1>5. s = u
  <2>1. Placed(heap.span[u]) /\ heap.span[u].page_count > 0
    BY <1>4, HeapParts DEF Live
  <2>2. o.at \in Nat /\ First(heap.span[u]) <= o.at /\ o.at < Beyond(heap.span[u])
    <3>1. SpanBytes(heap.span[u]) > 0
      BY <2>1, PageAssumption, Products DEF SpanBytes, Placed
    <3> QED BY <1>4, <2>1, <3>1, SpanEnds
  <2> QED BY <1>4, <2>2, SpanOfByte
<1> HIDE DEF s
<1>6. /\ c \in CallType /\ c.op = "freePages" /\ c.size = o.size /\ c.blocks = <<>>
      /\ c.span = s
  <2>1. <<>> \in Seq(Addresses) /\ s \in SpanIds
    BY <1>5
  <2> QED BY <1>1, <2>1 DEF Doing, CallType
<1> HIDE DEF c
<1>7. CallSound(heap, central, c)
  BY <1>1, <1>4, <1>5, <1>6 DEF CallSound, Aside, Distinct
<1>8. Recalled(call, call', t, c) /\ SameWays(call, call', t, c)
  <2>1. Recalled(call, WithCall(call, t, c), t, c)
    BY <1>2, <1>6, CallChanged
  <2>2. Recalled(call, call', t, c)
    BY <1>1, <2>1
  <2> QED BY <2>2, WaysAlike
<1>9. TypeOK'
  BY <1>1, <1>2, <1>8 DEF TypeOK, Recalled, CallType
<1>10. CallsSound(heap, central, call')
  <2>1. \A v \in Threads \ {t} : call[v].op = "freePages" =>
            /\ call[v].span \in UsedSpans(heap) /\ ~InCentral(central, call[v].span)
            /\ c.op = "freePages" => c.span # call[v].span
    BY <1>2, <1>4, <1>5, <1>6 DEF CallSound, CallsSound, Aside, BeingFreed
  <2> QED BY <1>2, <1>7, <1>8, <2>1, CallsKept
<1>11. ASSUME NEW size \in BlockSizes PROVE Booked(heap, central, cache, live', call', size)
  <2>1. size # 0 /\ size # o.size /\ call[t].size = 0
    BY <1>1, <1>2, SizesApart DEF CallsSound, CallSound, Idle
  <2>2. \A v \in Threads : Way(call, v, size) = Way(call', v, size)
    BY <1>6, <1>8, <2>1 DEF SameWays, Way
  <2>3. Booked(heap, central, cache, live, call, size)
    BY DEF IInv
  <2>4. Callers(live, size) = Callers(live', size)
    <3>1. \A other : other # o.size => Callers(live \ {o}, other) = Callers(live, other)
      BY <1>2, CallerGives
    <3> QED BY <1>1, <2>1, <3>1
  <2> QED BY <2>2, <2>3, <2>4, DivisionAlike DEF Booked
<1>12. LargeSound(heap, central, live', call')
  <2>1. ASSUME NEW p \in Large(live') PROVE \E v \in SpanIds : Serves(heap, central, call', v, p)
    <3>1. p \in Large(live) /\ p # o
      BY <1>1, <2>1 DEF Large
    <3>2. PICK v \in SpanIds : Serves(heap, central, call, v, p)
      BY <1>2, <3>1 DEF LargeSound
    <3>3. v # s
      BY <1>2, <1>4, <1>5, <3>1, <3>2 DEF LargeSound, Serves
    <3>4. ~BeingFreed(call', v)
      BY <1>6, <1>8, <3>2, <3>3 DEF BeingFreed, Recalled, Serves, Aside
    <3> QED BY <3>2, <3>4 DEF Serves, Aside
  <2>2. \A p, q \in Large(live') : p.at = q.at => p = q
    BY <1>1, <1>2 DEF LargeSound, Large
  <2> QED BY <2>1, <2>2 DEF LargeSound
<1> QED BY <1>1, <1>9, <1>10, <1>11, <1>12 DEF IInv

(* A span is found from its first byte.                                    *)
LEMMA FirstByte ==
    ASSUME NEW h \in HeapType, Divided(h), NEW s \in Live(h)
    PROVE  /\ FindSpanByAddr(h, First(h.span[s])) = s /\ First(h.span[s]) \in Addresses
           /\ Placed(h.span[s]) /\ First(h.span[s]) \in Nat
<1>1. Placed(h.span[s]) /\ h.span[s].page_count > 0
  BY HeapParts DEF Live
<1> DEFINE a == First(h.span[s])
<1>2. a \in Nat /\ First(h.span[s]) <= a /\ a < Beyond(h.span[s])
  <2>1. SpanBytes(h.span[s]) > 0
    BY <1>1, PageAssumption, Products DEF SpanBytes, Placed
  <2> QED BY <1>1, <2>1, SpanEnds
<1> HIDE DEF a
<1>3. FindSpanByAddr(h, a) = s /\ a \in Addresses
  BY <1>2, SpanOfByte
<1> QED BY <1>1, <1>2, <1>3 DEF a

(* Where a span that AllocatePages hands out comes from: nobody has it.    *)
LEMMA NewToAll ==
    ASSUME NEW h, NEW ce, NEW cl, NEW n, NEW r, Served(h, n, r),
           CentralSound(h, ce), CallsSound(h, ce, cl)
    PROVE  /\ Sound(r.heap) /\ r.got \in UsedSpans(r.heap) /\ r.got \notin UsedSpans(h)
           /\ r.got \in SpanIds /\ ~InCentral(ce, r.got) /\ ~BeingFreed(cl, r.got)
           /\ r.heap.span[r.got].page_count = n
           /\ UsedSpans(r.heap) = UsedSpans(h) \cup {r.got}
           /\ \A s \in UsedSpans(h) : r.heap.span[s] = h.span[s]
           /\ \A s : InCentral(ce, s) => s \in UsedSpans(r.heap) /\ r.heap.span[s] = h.span[s]
<1>1. /\ Sound(r.heap) /\ r.got \in SpanIds /\ r.got \notin UsedSpans(h)
      /\ r.heap.span[r.got].page_count = n
      /\ UsedSpans(r.heap) = UsedSpans(h) \cup {r.got}
      /\ \A s \in UsedSpans(h) : r.heap.span[s] = h.span[s]
  BY DEF Served
<1>2. \A s : InCentral(ce, s) => s \in UsedSpans(h)
  BY DEF InCentral, CentralSound
<1>3. \A s : BeingFreed(cl, s) => s \in UsedSpans(h)
  BY DEF BeingFreed, CallsSound, CallSound
<1> QED BY <1>1, <1>2, <1>3

LEMMA AllocateLargeKeeps ==
    ASSUME IInv, NEW t \in Threads, NEW size \in LargeSizes, AllocateLarge(t, size)
    PROVE  IInv'
<1> DEFINE n == PagesFor(size)
<1>1. PICK r \in AllocatePages(heap, n) :
         /\ heap' = r.heap
         /\ live' = live \cup {[at |-> First(r.heap.span[r.got]), size |-> size]}
         /\ central' = central /\ cache' = cache /\ call' = call
  BY DEF AllocateLarge, First
<1> DEFINE s == r.got
           o == [at |-> First(heap'.span[s]), size |-> size]
<1>2. /\ TypeOK /\ CallsSound(heap, central, call) /\ Sound(heap)
      /\ CentralSound(heap, central) /\ live \in SUBSET Piece
      /\ LargeSound(heap, central, live, call)
  BY Parts DEF IInv
<1>3. n \in 1..kMaxPageCount
  <2>1. size \in Nat \ {0} /\ PagesFor(size) <= kMaxPageCount
    BY SizeAssumption, RunAssumption
  <2> QED BY <2>1, PagesHold, PageAssumption
<1>4. Served(heap, n, r)
  <2> HIDE DEF n
  <2> QED BY <1>2, <1>3, AllocatePagesServes
<1> HIDE DEF n
<1>5. /\ Sound(r.heap) /\ r.got \in UsedSpans(r.heap) /\ r.got \notin UsedSpans(heap)
      /\ r.got \in SpanIds /\ ~InCentral(central, r.got) /\ ~BeingFreed(call, r.got)
      /\ r.heap.span[r.got].page_count = n
      /\ UsedSpans(r.heap) = UsedSpans(heap) \cup {r.got}
      /\ \A u \in UsedSpans(heap) : r.heap.span[u] = heap.span[u]
      /\ \A u : InCentral(central, u)
                  => u \in UsedSpans(r.heap) /\ r.heap.span[u] = heap.span[u]
  BY <1>2, <1>4, NewToAll
<1>6. /\ Sound(heap') /\ s \in UsedSpans(heap') /\ s \notin UsedSpans(heap)
      /\ s \in SpanIds /\ ~InCentral(central, s) /\ ~BeingFreed(call, s)
      /\ heap'.span[s].page_count = n
      /\ UsedSpans(heap') = UsedSpans(heap) \cup {s}
      /\ \A u \in UsedSpans(heap) : heap'.span[u] = heap.span[u]
      /\ \A u : InCentral(central, u)
                  => u \in UsedSpans(heap') /\ heap'.span[u] = heap.span[u]
  BY <1>1, <1>5
<1>7. heap' \in HeapType /\ Divided(heap') /\ \A u \in UsedSpans(heap') : u \in Live(heap')
  BY <1>6 DEF Sound, UsedSpans
<1>8. /\ live' = live \cup {o} /\ o.at = First(heap'.span[s]) /\ o.size = size
      /\ o \in Piece
  <2>1. First(heap'.span[s]) \in Addresses
    BY <1>6, <1>7, FirstByte
  <2> QED BY <1>1, <2>1 DEF Piece
<1> HIDE DEF s, o
<1>9. TypeOK'
  BY <1>1, <1>2, <1>6, <1>7, <1>8 DEF TypeOK, HeapType
<1>10. /\ CentralSound(heap', central)
       /\ NoneFull(heap, central) => NoneFull(heap', central)
       /\ \A ca, li, cl, z : z \in BlockSizes /\ Booked(heap, central, ca, li, cl, z)
              => Booked(heap', central, ca, li, cl, z)
  BY <1>2, <1>6, CentralKept
<1>11. CallsSound(heap', central, call)
  BY <1>2, <1>6 DEF CallsSound, CallSound
<1>12. ASSUME NEW z \in BlockSizes PROVE Booked(heap', central, cache, live', call, z)
  <2>1. Booked(heap, central, cache, live, call, z)
    BY DEF IInv
  <2>2. Callers(live, z) = Callers(live', z)
    <3>1. z # o.size
      BY <1>8, SizesApart
    <3>2. \A other : other # o.size => Callers(live \cup {o}, other) = Callers(live, other)
      BY CallerGets
    <3> QED BY <1>8, <3>1, <3>2
  <2>3. Booked(heap, central, cache, live', call, z)
    BY <2>1, <2>2, DivisionAlike DEF Booked
  <2> QED BY <1>10, <2>3
<1>13. \A u \in SpanIds : Aside(heap, central, call, u) =>
           Aside(heap', central, call, u) /\ heap'.span[u] = heap.span[u]
  BY <1>6 DEF Aside
<1>14. LargeSound(heap', central, live', call)
  <2>1. \A p \in Large(live') : p \in Large(live) \/ p = o
    BY <1>8 DEF Large
  <2>2. ASSUME NEW p \in Large(live)
        PROVE  \E u \in UsedSpans(heap) \cap SpanIds : Serves(heap', central, call, u, p)
    <3>1. PICK u \in SpanIds : Serves(heap, central, call, u, p)
      BY <1>2 DEF LargeSound
    <3> QED BY <1>13, <3>1 DEF Serves, Aside
  <2>3. Serves(heap', central, call, s, o)
    BY <1>6, <1>8 DEF Serves, Aside, n
  <2>4. ASSUME NEW p \in Large(live) PROVE p.at # o.at
    <3>1. PICK u \in UsedSpans(heap) : Serves(heap', central, call, u, p)
      BY <2>2
    <3>2. u # s /\ u \in Live(heap') /\ s \in Live(heap') /\ p.at = First(heap'.span[u])
      BY <1>6, <1>7, <3>1 DEF Serves, Aside
    <3>3. FindSpanByAddr(heap', p.at) = u
      BY <1>7, <3>2, FirstByte
    <3>4. FindSpanByAddr(heap', o.at) = s
      BY <1>7, <1>8, <3>2, FirstByte
    <3> QED BY <3>2, <3>3, <3>4
  <2>5. \A p \in Large(live') : \E u \in SpanIds : Serves(heap', central, call, u, p)
    BY <1>6, <2>1, <2>2, <2>3
  <2>6. \A p, q \in Large(live') : p.at = q.at => p = q
    BY <1>2, <2>1, <2>4 DEF LargeSound
  <2> QED BY <2>5, <2>6 DEF LargeSound
<1> QED BY <1>1, <1>6, <1>9, <1>10, <1>11, <1>12, <1>14 DEF IInv

-----------------------------------------------------------------------------
(* Blocks move between the places of a thread and a span.                  *)
OnlyThread(ca, cl, da, dl, t, size) ==
    /\ \A u \in Threads \ {t} : ca[u][size] = da[u][size]
    /\ \A u \in Threads \ {t} : Way(cl, u, size) = Way(dl, u, size)
InFour(C, L, W, M) ==
    /\ Apart(C, L, W)
    /\ M \cap C = {} /\ M \cap L = {} /\ M \cap W = {}

LEMMA MovedWithSpan ==
    ASSUME NEW h, NEW ce, NEW ca, NEW li, NEW cl, NEW g, NEW da, NEW mi, NEW dl,
           NEW size, NEW t \in Threads, NEW s \in SpanIds,
           s \in Elems(ce[size]), Elems(ce[size]) \subseteq SpanIds,
           Booked(h, ce, ca, li, cl, size), OnlyThread(ca, cl, da, dl, t, size),
           OnlySpan(h, g, s), BlocksOf(g.span[s], size) = BlocksOf(h.span[s], size),
           InFour(Callers(mi, size), Elems(da[t][size]), Way(dl, t, size), Home(g.span[s])),
           Callers(mi, size) \cup Elems(da[t][size]) \cup Way(dl, t, size) \cup Home(g.span[s])
             = Callers(li, size) \cup Elems(ca[t][size]) \cup Way(cl, t, size)
                 \cup Home(h.span[s])
    PROVE  Booked(g, ce, da, mi, dl, size)
<1> DEFINE H == Held(h, ce, ca, li, cl, size)
           G == Held(g, ce, da, mi, dl, size)
           B == BlocksIn(h, ce, size)
           x == <<"caller", 0>>
           y == <<"list", t>>
           z == <<"way", t>>
           v == <<"span", s>>
           Z == {x, y, z, v}
<1>1. /\ x \in Places /\ y \in Places /\ z \in Places /\ v \in Places
      /\ H[x] = Callers(li, size) /\ H[y] = Elems(ca[t][size]) /\ H[z] = Way(cl, t, size)
      /\ G[x] = Callers(mi, size) /\ G[y] = Elems(da[t][size]) /\ G[z] = Way(dl, t, size)
      /\ H[v] = AtHome(h, ce, s, size) /\ G[v] = AtHome(g, ce, s, size)
  BY HeldAt
<1>2. H[v] = Home(h.span[s]) /\ G[v] = Home(g.span[s])
  BY <1>1 DEF AtHome
<1>3. ASSUME NEW w \in Places \ Z PROVE H[w] = G[w]
  <2>1. CASE \E u \in Threads \ {t} : w = <<"list", u>> \/ w = <<"way", u>>
    BY <2>1 DEF Held, OnlyThread
  <2>2. CASE \E u \in SpanIds \ {s} : w = <<"span", u>>
    BY <2>2 DEF Held, OnlySpan, AtHome
  <2> QED BY <1>3, <2>1, <2>2, PlacesAre
<1> HIDE DEF H, G, B
<1>4. Division(Places, H, B)
  BY DEF Booked, H, B
<1>5. UNION {G[w] : w \in Z} = UNION {H[w] : w \in Z}
  <2>1. G[x] \cup G[y] \cup G[z] \cup G[v] = H[x] \cup H[y] \cup H[z] \cup H[v]
    BY <1>1, <1>2
  <2> HIDE DEF x, y, z, v
  <2>2. /\ UNION {G[w] : w \in Z} = G[x] \cup G[y] \cup G[z] \cup G[v]
        /\ UNION {H[w] : w \in Z} = H[x] \cup H[y] \cup H[z] \cup H[v]
    OBVIOUS
  <2> QED BY <2>1, <2>2
<1>6. \A w, q \in Z : w # q => G[w] \cap G[q] = {}
  <2>1. /\ G[x] \cap G[y] = {} /\ G[x] \cap G[z] = {} /\ G[y] \cap G[z] = {}
        /\ G[v] \cap G[x] = {} /\ G[v] \cap G[y] = {} /\ G[v] \cap G[z] = {}
    BY <1>1, <1>2 DEF InFour, Apart
  <2> HIDE DEF x, y, z, v
  <2> QED BY <2>1
<1>7. Z \in SUBSET Places
  BY <1>1
<1> HIDE DEF Z
<1>8. Division(Places, G, B)
  BY <1>3, <1>4, <1>5, <1>6, <1>7, Moved
<1>9. BlocksIn(g, ce, size) = B
  <2>1. \A u \in Elems(ce[size]) : BlocksOf(g.span[u], size) = BlocksOf(h.span[u], size)
    BY DEF OnlySpan
  <2> QED BY <2>1 DEF BlocksIn, B
<1> QED BY <1>8, <1>9 DEF Booked, G

LEMMA InFourPlaces ==
    ASSUME NEW h, NEW ce, NEW ca, NEW li, NEW cl, NEW size, NEW t \in Threads,
           NEW s \in SpanIds, s \in Elems(ce[size]), Booked(h, ce, ca, li, cl, size)
    PROVE  InFour(Callers(li, size), Elems(ca[t][size]), Way(cl, t, size), Home(h.span[s]))
<1>1. AtHome(h, ce, s, size) = Home(h.span[s])
  BY DEF AtHome
<1> QED BY <1>1, ApartInBooks DEF InFour

(* The span of one size whose list has changed is none of the others'.     *)
LEMMA CentralRefilled ==
    ASSUME NEW h, NEW g, NEW ce, CentralSound(h, ce), NEW size \in BlockSizes,
           NEW s \in SpanIds, s \in Elems(ce[size]), UsedSpans(g) = UsedSpans(h),
           OnlySpan(h, g, s), InOrder(g.span[s], size)
    PROVE  /\ CentralSound(g, ce)
           /\ \A z \in BlockSizes : /\ Elems(ce[z]) \subseteq SpanIds
                                    /\ z # size => \A u \in Elems(ce[z]) :
                                           u \in SpanIds \ {s} /\ g.span[u] = h.span[u]
<1>1. \A z \in BlockSizes : \A u \in Elems(ce[z]) : u \in UsedSpans(h) /\ u \in SpanIds
  BY DEF CentralSound, UsedSpans, Live
<1>2. \A z \in BlockSizes \ {size} : s \notin Elems(ce[z])
  BY DEF CentralSound
<1>3. \A z \in BlockSizes : \A u \in Elems(ce[z]) : InOrder(g.span[u], z)
  <2> SUFFICES ASSUME NEW z \in BlockSizes, NEW u \in Elems(ce[z]) PROVE InOrder(g.span[u], z)
    OBVIOUS
  <2>1. CASE u = s
    BY <1>2, <2>1
  <2>2. CASE u # s
    <3>1. g.span[u] = h.span[u] /\ InOrder(h.span[u], z)
      BY <1>1, <2>2 DEF OnlySpan, CentralSound
    <3> QED BY <3>1
  <2> QED BY <2>1, <2>2
<1>4. CentralSound(g, ce)
  BY <1>1, <1>3 DEF CentralSound
<1> QED BY <1>1, <1>2, <1>4 DEF OnlySpan

(* A span with a free block, in an allocator that is sound but for that    *)
(* span, which may be full: it has just been cut.                          *)
Ready(h, ce, size, s) ==
    /\ Sound(h) /\ ce \in [BlockSizes -> Seq(SpanIds)] /\ CentralSound(h, ce)
    /\ s \in Elems(ce[size]) /\ h.span[s].free_count > 0
    /\ h.span[s].free_count <= WholeBlocks(h.span[s], size)
    /\ \A z \in BlockSizes : \A u \in Elems(ce[z]) :
           u # s => h.span[u].free_count < WholeBlocks(h.span[u], z)
    /\ CallsSound(h, ce, call)
    /\ \A z \in BlockSizes : Booked(h, ce, cache, live, call, z)
    /\ LargeSound(h, ce, live, call)
TakesBatch(t, size, h, ce, s) ==
    /\ call[t].op \in {"fetch", "grow"} /\ call[t].size = size
    /\ TakeBatch(t, size, h, s) /\ central' = ce

LEMMA BatchOutKeeps ==
    ASSUME TypeOK, ListsDistinct(cache), NEW t \in Threads, NEW size \in BlockSizes,
           NEW h, NEW ce, NEW s, Ready(h, ce, size, s), TakesBatch(t, size, h, ce, s)
    PROVE  IInv'
<1> DEFINE span == h.span[s]
           x == WithoutBatch(span, size)
           batch == Batch(span, size)
           a == Head(batch)
           rest == Tail(batch)
           old == cache[t][size]
           list == rest \o old
           o == [at |-> a, size |-> size]
<1>1. /\ heap' = [h EXCEPT !.span[s] = x] /\ live' = live \cup {o}
      /\ cache' = WithList(cache, t, size, list) /\ call' = WithCall(call, t, Idle)
      /\ central' = ce /\ o.at = a /\ o.size = size
      /\ call[t].op \in {"fetch", "grow"} /\ call[t].size = size
  BY DEF TakesBatch, TakeBatch, WithList, WithCall, Batch
<1>2. /\ Sound(h) /\ ce \in [BlockSizes -> Seq(SpanIds)] /\ CentralSound(h, ce)
      /\ s \in Elems(ce[size]) /\ span.free_count > 0
      /\ span.free_count <= WholeBlocks(span, size)
      /\ \A z \in BlockSizes : \A u \in Elems(ce[z]) :
             u # s => h.span[u].free_count < WholeBlocks(h.span[u], z)
      /\ CallsSound(h, ce, call) /\ LargeSound(h, ce, live, call)
      /\ \A z \in BlockSizes : Booked(h, ce, cache, live, call, z)
  BY DEF Ready
<1>3. /\ call \in [Threads -> CallType] /\ live \in SUBSET Piece
      /\ cache \in [Threads -> [BlockSizes -> Seq(Addresses)]]
      /\ old \in Seq(Addresses) /\ Distinct(old)
  BY Parts DEF ListsDistinct
<1>4. /\ s \in UsedSpans(h) /\ s \in SpanIds /\ InOrder(span, size) /\ span \in Span
      /\ span.is_used /\ size \in Nat \ {0} /\ Placed(span)
  <2>1. s \in UsedSpans(h) /\ s \in SpanIds /\ InOrder(span, size) /\ span.is_used
    BY <1>2 DEF CentralSound, UsedSpans, Live
  <2>2. h \in HeapType
    BY <1>2 DEF Sound
  <2> QED BY <2>1, <2>2, HeapParts, SizesApart
<1> HIDE DEF span
<1>5. /\ batch \in Seq(Addresses) /\ batch # <<>> /\ Distinct(batch)
      /\ Elems(batch) \subseteq Home(span)
      /\ x \in Span /\ x.page_id = span.page_id /\ x.page_count = span.page_count
      /\ x.is_used = span.is_used /\ x.free_count \in Nat
      /\ x.free_count < span.free_count
      /\ InOrder(x, size) /\ Home(x) = Home(span) \ Elems(batch)
  BY <1>2, <1>4, BatchTaken
<1> HIDE DEF x, batch
<1>6. /\ a \in Addresses /\ rest \in Seq(Addresses) /\ Distinct(rest)
      /\ a \in Elems(batch) /\ Elems(rest) = Elems(batch) \ {a}
  BY <1>5, HeadOff
<1> HIDE DEF a, rest, o, old
<1>7. InFour(Callers(live, size), Elems(old), Way(call, t, size), Home(span))
  <2>1. Booked(h, ce, cache, live, call, size)
    BY <1>2
  <2>2. InFour(Callers(live, size), Elems(cache[t][size]), Way(call, t, size), Home(h.span[s]))
    BY <1>2, <1>4, <2>1, InFourPlaces
  <2> QED BY <2>2 DEF old, span
<1>8. /\ list \in Seq(Addresses) /\ Distinct(list)
      /\ Elems(list) = Elems(rest) \cup Elems(old)
  <2>1. Elems(rest) \cap Elems(old) = {}
    BY <1>5, <1>6, <1>7 DEF InFour
  <2> QED BY <1>3, <1>6, <2>1, Joined
<1> HIDE DEF list
<1>9. /\ Sound(heap') /\ UsedSpans(heap') = UsedSpans(h) /\ heap'.span[s] = x
      /\ OnlySpan(h, heap', s)
  <2>1. x.page_id = h.span[s].page_id /\ x.page_count = h.span[s].page_count /\ x.is_used
    BY <1>4, <1>5 DEF span
  <2>2. Sound(h) /\ s \in UsedSpans(h) /\ x \in Span
    BY <1>2, <1>4, <1>5
  <2>3. Respanned(h, WithSpan(h, s, x), s, x)
    BY <2>1, <2>2, Refilled
  <2>4. Respanned(h, heap', s, x)
    BY <1>1, <2>3 DEF WithSpan
  <2> QED BY <2>4 DEF Respanned
<1>10. CentralSound(heap', ce)
       /\ \A z \in BlockSizes : /\ Elems(ce[z]) \subseteq SpanIds
                                /\ z # size => \A u \in Elems(ce[z]) :
                                       u \in SpanIds \ {s} /\ heap'.span[u] = h.span[u]
  <2>1. InOrder(heap'.span[s], size)
    BY <1>5, <1>9
  <2>2. CentralSound(h, ce) /\ s \in SpanIds /\ s \in Elems(ce[size])
    BY <1>2, <1>4
  <2>3. UsedSpans(heap') = UsedSpans(h) /\ OnlySpan(h, heap', s)
    BY <1>9
  <2> QED BY <2>1, <2>2, <2>3, CentralRefilled
<1>11. /\ BlocksOf(heap'.span[s], size) = BlocksOf(h.span[s], size)
       /\ WholeBlocks(heap'.span[s], size) = WholeBlocks(span, size)
  BY <1>5, <1>9 DEF BlocksOf, WholeBlocks, SpanBytes, span
<1>12. NoneFull(heap', ce)
  <2> SUFFICES ASSUME NEW z \in BlockSizes, NEW u \in Elems(ce[z])
               PROVE  heap'.span[u].free_count < WholeBlocks(heap'.span[u], z)
    BY DEF NoneFull
  <2>1. CASE u = s
    <3>1. z = size
      BY <1>10, <2>1
    <3>2. WholeBlocks(span, size) \in Nat /\ span.free_count \in Nat
      BY <1>4, WholeIsWhole DEF Span
    <3> QED BY <1>2, <1>5, <1>9, <1>11, <2>1, <3>1, <3>2
  <2>2. CASE u # s
    <3>1. heap'.span[u] = h.span[u]
      BY <1>9, <1>10, <2>2 DEF OnlySpan
    <3> QED BY <1>2, <2>2, <3>1
  <2> QED BY <2>1, <2>2
<1>13. Recalled(call, call', t, Idle) /\ SameWays(call, call', t, Idle) /\ CallSound(heap', ce, Idle)
  <2>1. Idle \in CallType /\ CallSound(heap', ce, Idle)
    <3>1. <<>> \in Seq(Addresses) /\ Distinct(<<>>)
      BY DEF Distinct
    <3> QED BY <3>1 DEF Idle, CallType, CallSound
  <2>2. Recalled(call, WithCall(call, t, Idle), t, Idle)
    BY <1>3, <2>1, CallChanged
  <2>3. Recalled(call, call', t, Idle)
    BY <1>1, <2>2
  <2> QED BY <2>1, <2>3, WaysAlike
<1>14. Relisted(cache, cache', t, size, list)
  <2>1. Relisted(cache, WithList(cache, t, size, list), t, size, list)
    BY <1>3, <1>8, ListChanged
  <2> QED BY <1>1, <2>1
<1>15. TypeOK'
  <2>1. o \in Piece
    BY <1>6 DEF Piece, o
  <2> QED BY <1>1, <1>2, <1>3, <1>9, <1>13, <1>14, <2>1
          DEF TypeOK, Recalled, Relisted, CallType, Sound, HeapType
<1>16. CallsSound(heap', ce, call')
  <2>1. \A u \in Threads \ {t} : call[u].op = "freePages" =>
            /\ call[u].span \in UsedSpans(heap') /\ ~InCentral(ce, call[u].span)
            /\ Idle.op = "freePages" => Idle.span # call[u].span
    BY <1>2, <1>9 DEF CallSound, CallsSound, Idle
  <2> QED BY <1>2, <1>13, <2>1, CallsKept
<1>17. /\ Callers(live', size) = Callers(live, size) \cup {a}
       /\ \A other : other # size => Callers(live', other) = Callers(live, other)
  <2>1. /\ Callers(live \cup {o}, o.size) = Callers(live, o.size) \cup {o.at}
        /\ \A other : other # o.size => Callers(live \cup {o}, other) = Callers(live, other)
    BY CallerGets
  <2> QED BY <1>1, <2>1
<1>18. \A z \in BlockSizes : Way(call, t, z) = {} /\ Way(call', t, z) = {}
  <2>1. call[t].blocks = <<>> /\ Elems(<<>>) = {}
    BY <1>1, <1>2 DEF CallsSound, CallSound, Elems
  <2>2. Idle.size = 0
    BY DEF Idle
  <2> QED BY <1>13, <2>1, <2>2, SizesApart DEF SameWays, Way
<1>19. \A z \in BlockSizes : OnlyThread(cache, call, cache', call', t, z)
  BY <1>13, <1>14 DEF OnlyThread, SameWays, Relisted
<1>20. Booked(heap', ce, cache', live', call', size)
  <2>1. Elems(cache'[t][size]) = Elems(rest) \cup Elems(old)
    BY <1>8, <1>14 DEF Relisted
  <2>2. Home(heap'.span[s]) = Home(span) \ Elems(batch)
    BY <1>5, <1>9
  <2>3. InFour(Callers(live', size), Elems(cache'[t][size]), Way(call', t, size),
               Home(heap'.span[s]))
    BY <1>5, <1>6, <1>7, <1>17, <1>18, <2>1, <2>2 DEF InFour, Apart
  <2>4. Callers(live', size) \cup Elems(cache'[t][size]) \cup Way(call', t, size)
            \cup Home(heap'.span[s])
          = Callers(live, size) \cup Elems(cache[t][size]) \cup Way(call, t, size)
              \cup Home(h.span[s])
    <3>1. {a} \cup Elems(rest) \cup Home(heap'.span[s]) = Home(span)
      BY <1>5, <1>6, <2>2
    <3>2. Callers(live', size) \cup Elems(cache'[t][size]) \cup Home(heap'.span[s])
            = Callers(live, size) \cup Elems(old) \cup Home(span)
      BY <1>17, <2>1, <3>1
    <3> QED BY <1>18, <3>2 DEF old, span
  <2>5. Booked(h, ce, cache, live, call, size)
    BY <1>2
  <2>6. Elems(ce[size]) \subseteq SpanIds
    BY <1>10
  <2>7. OnlyThread(cache, call, cache', call', t, size)
    BY <1>19
  <2> QED BY <1>2, <1>4, <1>9, <1>11, <2>3, <2>4, <2>5, <2>6, <2>7, MovedWithSpan
<1>21. ASSUME NEW z \in BlockSizes, z # size PROVE Booked(heap', ce, cache', live', call', z)
  <2>1. Booked(h, ce, cache, live, call, z)
    BY <1>2
  <2>2. Callers(live, z) = Callers(live', z)
    BY <1>17, <1>21
  <2>3. \A u \in Threads : cache[u][z] = cache'[u][z]
    BY <1>14, <1>21 DEF Relisted
  <2>4. \A u \in Threads : Way(call, u, z) = Way(call', u, z)
    BY <1>18, <1>19 DEF OnlyThread
  <2>5. \A u \in Elems(ce[z]) : h.span[u] = heap'.span[u]
    BY <1>10, <1>21
  <2> QED BY <2>1, <2>2, <2>3, <2>4, <2>5, DivisionAlike DEF Booked
<1>22. LargeSound(heap', ce, live', call')
  <2>1. \A u : BeingFreed(call', u) => BeingFreed(call, u)
    BY <1>13 DEF BeingFreed, Recalled, Idle
  <2>2. Large(live') \subseteq Large(live)
    BY <1>1, SizesApart DEF Large
  <2>3. \A u \in SpanIds : Aside(h, ce, call, u) =>
            /\ Aside(heap', ce, call', u)
            /\ heap'.span[u].page_id = h.span[u].page_id
            /\ heap'.span[u].page_count = h.span[u].page_count
    BY <1>5, <1>9, <2>1 DEF Aside, OnlySpan, span
  <2>4. LargeSound(h, ce, live, call)
    BY <1>2
  <2> QED BY <2>2, <2>3, <2>4, LargeKept
<1>23. ListsDistinct(cache')
  BY <1>14 DEF Relisted
<1> QED BY <1>1, <1>9, <1>10, <1>12, <1>15, <1>16, <1>20, <1>21, <1>22, <1>23 DEF IInv

LEMMA FetchKeeps ==
    ASSUME IInv, NEW t \in Threads, Fetch(t)
    PROVE  IInv'
<1> DEFINE size == call[t].size
           W == SpansWithBlocks(size)
           s == central[size][Min(W)]
<1>1. /\ call[t].op = "fetch" /\ W # {} /\ TakeBatch(t, size, heap, s) /\ central' = central
  BY DEF Fetch, At
<1>2. /\ TypeOK /\ ListsDistinct(cache) /\ Sound(heap) /\ CentralSound(heap, central)
      /\ NoneFull(heap, central) /\ CallsSound(heap, central, call)
      /\ LargeSound(heap, central, live, call)
      /\ \A z \in BlockSizes : Booked(heap, central, cache, live, call, z)
      /\ central \in [BlockSizes -> Seq(SpanIds)]
  BY Parts DEF IInv
<1>3. size \in BlockSizes
  BY <1>1, <1>2 DEF CallsSound, CallSound
<1> HIDE DEF size
<1>4. DOMAIN central[size] = 1..Len(central[size]) /\ Len(central[size]) \in Nat
  BY <1>2, <1>3, LenProperties
<1>5. Min(W) \in W
  <2>0. W \subseteq DOMAIN central[size]
    BY DEF SpansWithBlocks
  <2> HIDE DEF W
  <2>1. W \in SUBSET Nat
    BY <1>4, <2>0
  <2> HIDE DEF W
  <2> QED BY <1>1, <2>1, MinIsMember
<1>6. s \in Elems(central[size]) /\ heap.span[s].free_count > 0
  BY <1>5 DEF SpansWithBlocks, Elems
<1> HIDE DEF s, W
<1>7. heap.span[s].free_count <= WholeBlocks(heap.span[s], size)
  <2>1. heap.span[s].free_count < WholeBlocks(heap.span[s], size) /\ s \in UsedSpans(heap)
    BY <1>2, <1>3, <1>6 DEF NoneFull, CentralSound
  <2>2. heap.span[s] \in Span /\ Placed(heap.span[s])
    BY <1>2, <2>1, HeapParts DEF Sound, UsedSpans, Live
  <2>3. WholeBlocks(heap.span[s], size) \in Nat /\ heap.span[s].free_count \in Nat
    BY <1>3, <2>2, SizesApart, WholeIsWhole DEF Span
  <2> QED BY <2>1, <2>3
<1>8. Ready(heap, central, size, s)
  BY <1>2, <1>3, <1>6, <1>7 DEF Ready, NoneFull
<1>9. TakesBatch(t, size, heap, central, s)
  BY <1>1 DEF TakesBatch, size
<1> QED BY <1>2, <1>3, <1>8, <1>9, BatchOutKeeps

-----------------------------------------------------------------------------
(* A new span of blocks joins the central cache of its size.               *)
WithCentral(ce, size, list) == [ce EXCEPT ![size] = list]
Recentred(g, ce, de, size, S) ==
    /\ de \in [BlockSizes -> Seq(SpanIds)] /\ CentralSound(g, de) /\ Elems(de[size]) = S
    /\ \A z \in BlockSizes : z # size => de[z] = ce[z]

LEMMA CentralGrows ==
    ASSUME NEW h, NEW ce \in [BlockSizes -> Seq(SpanIds)], CentralSound(h, ce),
           NEW size \in BlockSizes, NEW s \in SpanIds, ~InCentral(ce, s), NEW g,
           \A u : InCentral(ce, u) => u \in UsedSpans(g) /\ g.span[u] = h.span[u],
           s \in UsedSpans(g), InOrder(g.span[s], size)
    PROVE  Recentred(g, ce, WithCentral(ce, size, Append(ce[size], s)), size,
                     Elems(ce[size]) \cup {s})
<1> DEFINE de == WithCentral(ce, size, Append(ce[size], s))
<1>1. s \notin Elems(ce[size]) /\ ce[size] \in Seq(SpanIds) /\ Distinct(ce[size])
  BY DEF InCentral, CentralSound
<1> DEFINE q == Append(ce[size], s)
<1>2. q \in Seq(SpanIds) /\ Distinct(q) /\ Elems(q) = Elems(ce[size]) \cup {s}
  <2> DEFINE p == ce[size]
  <2>1. s \notin Elems(p) /\ p \in Seq(SpanIds) /\ Distinct(p)
    BY <1>1
  <2> HIDE DEF p
  <2>2. /\ Append(p, s) \in Seq(SpanIds) /\ Distinct(Append(p, s))
        /\ Elems(Append(p, s)) = Elems(p) \cup {s}
    BY <2>1, Appended
  <2> QED BY <2>2 DEF p
<1> HIDE DEF q
<1>3. /\ de \in [BlockSizes -> Seq(SpanIds)] /\ de[size] = q
      /\ \A z \in BlockSizes : z # size => de[z] = ce[z]
  BY <1>2 DEF WithCentral, q
<1> HIDE DEF de
<1>4. \A z \in BlockSizes : Distinct(de[z])
  BY <1>2, <1>3 DEF CentralSound
<1>5. ASSUME NEW z \in BlockSizes, NEW u \in Elems(de[z])
      PROVE  u \in UsedSpans(g) /\ InOrder(g.span[u], z)
  <2>1. CASE z = size /\ u = s
    BY <2>1
  <2>2. CASE ~(z = size /\ u = s)
    <3>1. u \in Elems(ce[z])
      BY <1>2, <1>3, <1>5, <2>2
    <3>2. InCentral(ce, u) /\ InOrder(h.span[u], z)
      BY <3>1 DEF InCentral, CentralSound
    <3>3. u \in UsedSpans(g) /\ g.span[u] = h.span[u]
      BY <3>2
    <3> QED BY <3>2, <3>3
  <2> QED BY <2>1, <2>2
<1>6. ASSUME NEW z \in BlockSizes, NEW y \in BlockSizes, z # y
      PROVE  Elems(de[z]) \cap Elems(de[y]) = {}
  <2>1. Elems(ce[z]) \cap Elems(ce[y]) = {} /\ s \notin Elems(ce[z]) /\ s \notin Elems(ce[y])
    BY <1>6 DEF CentralSound, InCentral
  <2> QED BY <1>2, <1>3, <1>6, <2>1
<1>7. CentralSound(g, de)
  BY <1>4, <1>5, <1>6 DEF CentralSound
<1> QED BY <1>2, <1>3, <1>7 DEF Recentred, de

(* The span is long enough for a block.                                    *)
LEMMA HoldsABlock ==
    ASSUME NEW size \in BlockSizes, NEW span, Placed(span),
           span.page_count = PagesFor(size * BatchNum[size])
    PROVE  WholeBlocks(span, size) \in Nat /\ WholeBlocks(span, size) > 0
<1> DEFINE m == size * BatchNum[size]
           q == WholeBlocks(span, size)
<1>1. size \in Nat \ {0} /\ BatchNum[size] \in Nat \ {0}
  BY SizesApart
<1>2. m \in Nat \ {0} /\ size <= m
  <2>1. \A b \in Nat \ {0} : size * b \in Nat \ {0} /\ size <= size * b
    BY <1>1
  <2> QED BY <1>1, <2>1
<1> HIDE DEF m
<1>3. m <= PagesFor(m) * PageSize
  BY <1>2, PagesHold
<1>4. SpanBytes(span) = PagesFor(m) * PageSize /\ SpanBytes(span) \in Nat
  BY SpanEnds DEF SpanBytes, m
<1>5. q \in Nat /\ SpanBytes(span) < q * size + size
  BY <1>1, <1>4, Quotients DEF WholeBlocks
<1> HIDE DEF q
<1>6. q # 0
  <2> SUFFICES ASSUME q = 0 PROVE FALSE
    OBVIOUS
  <2>1. q * size = 0
    BY <1>1
  <2> QED BY <1>1, <1>2, <1>3, <1>4, <1>5, <2>1
<1> QED BY <1>5, <1>6 DEF q

LEMMA GrowKeeps ==
    ASSUME IInv, NEW t \in Threads, Grow(t)
    PROVE  IInv'
<1> DEFINE size == call[t].size
           n == PagesFor(size * BatchNum[size])
<1>1. PICK r \in AllocatePages(heap, n) :
         /\ TakeBatch(t, size, WithSpan(r.heap, r.got, Carved(r.heap.span[r.got], size)), r.got)
         /\ central' = WithCentral(central, size, Append(central[size], r.got))
  BY DEF Grow, WithSpan, WithCentral
<1> DEFINE s == r.got
           span == r.heap.span[s]
           c == Carved(span, size)
           g == WithSpan(r.heap, s, c)
           ce == central'
<1>2. /\ TypeOK /\ ListsDistinct(cache) /\ Sound(heap) /\ CentralSound(heap, central)
      /\ NoneFull(heap, central) /\ CallsSound(heap, central, call)
      /\ LargeSound(heap, central, live, call)
      /\ \A z \in BlockSizes : Booked(heap, central, cache, live, call, z)
      /\ central \in [BlockSizes -> Seq(SpanIds)] /\ call[t].op = "grow"
  BY Parts DEF IInv, Grow, At
<1>3. size \in BlockSizes /\ size \in Nat \ {0}
  BY <1>2, SizesApart DEF CallsSound, CallSound
<1>4. n \in 1..kMaxPageCount
  <2> DEFINE m == size * BatchNum[size]
  <2>1. m \in Nat \ {0} /\ PagesFor(m) <= kMaxPageCount
    <3>1. \A b \in Nat \ {0} : size * b \in Nat \ {0}
      BY <1>3
    <3> QED BY <1>3, <3>1, SizesApart, RunAssumption
  <2> HIDE DEF m
  <2>2. PagesFor(m) \in 1..kMaxPageCount
    BY <2>1, PagesHold, PageAssumption
  <2> QED BY <2>2 DEF m
<1> HIDE DEF size
<1>5. Served(heap, n, r)
  <2> HIDE DEF n
  <2> QED BY <1>2, <1>4, AllocatePagesServes
<1> HIDE DEF n
<1>6. /\ Sound(r.heap) /\ r.got \in UsedSpans(r.heap) /\ r.got \notin UsedSpans(heap)
      /\ r.got \in SpanIds /\ ~InCentral(central, r.got) /\ ~BeingFreed(call, r.got)
      /\ r.heap.span[r.got].page_count = n
      /\ UsedSpans(r.heap) = UsedSpans(heap) \cup {r.got}
      /\ \A u \in UsedSpans(heap) : r.heap.span[u] = heap.span[u]
      /\ \A u : InCentral(central, u)
                  => u \in UsedSpans(r.heap) /\ r.heap.span[u] = heap.span[u]
  BY <1>2, <1>5, NewToAll
<1>7. /\ s \in UsedSpans(r.heap) /\ s \notin UsedSpans(heap) /\ s \in SpanIds
      /\ ~InCentral(central, s) /\ ~BeingFreed(call, s) /\ Sound(r.heap)
      /\ s \in Live(r.heap) /\ r.heap \in HeapType /\ Divided(r.heap)
  BY <1>6 DEF UsedSpans, Sound
<1>8. /\ span \in Span /\ span.is_used /\ span.page_count = n /\ span.page_count > 0
      /\ PagesOf(span) \subseteq Pages /\ Placed(span)
  BY <1>4, <1>6, <1>7, HeapParts, OnePerPage DEF UsedSpans
<1>9. /\ c \in Span /\ c.page_id = span.page_id /\ c.page_count = span.page_count
      /\ c.is_used = span.is_used /\ c.free_count = WholeBlocks(span, size)
      /\ InOrder(c, size)
  <2> HIDE DEF span
  <2> QED BY <1>3, <1>8, CarvedInOrder
<1> HIDE DEF c
<1>10. Respanned(r.heap, g, s, c)
  <2>1. /\ c \in Span /\ c.page_id = r.heap.span[s].page_id
        /\ c.page_count = r.heap.span[s].page_count /\ c.is_used
    BY <1>8, <1>9
  <2>2. Sound(r.heap) /\ s \in UsedSpans(r.heap)
    BY <1>7
  <2> HIDE DEF s
  <2> QED BY <2>1, <2>2, Refilled
<1> HIDE DEF g
<1>11. /\ Sound(g) /\ g.span[s] = c /\ UsedSpans(g) = UsedSpans(heap) \cup {s}
       /\ \A u \in UsedSpans(heap) : g.span[u] = heap.span[u]
  <2>1. /\ Sound(g) /\ g.span[s] = c /\ UsedSpans(g) = UsedSpans(heap) \cup {s}
        /\ OnlySpan(r.heap, g, s)
    BY <1>6, <1>10 DEF Respanned
  <2>2. \A u \in UsedSpans(heap) : u \in SpanIds \ {s} /\ r.heap.span[u] = heap.span[u]
    BY <1>6, <1>7 DEF UsedSpans, Live
  <2> QED BY <2>1, <2>2 DEF OnlySpan
<1>12. \A u : InCentral(central, u) => u \in UsedSpans(heap)
  BY <1>2 DEF InCentral, CentralSound
<1>13. \A u : InCentral(central, u) => u \in UsedSpans(g) /\ g.span[u] = heap.span[u]
  BY <1>11, <1>12
<1>14. Recentred(g, central, ce, size, Elems(central[size]) \cup {s})
  <2>1. s \in UsedSpans(g) /\ InOrder(g.span[s], size)
    BY <1>9, <1>11
  <2>2. Recentred(g, central, WithCentral(central, size, Append(central[size], s)), size,
                  Elems(central[size]) \cup {s})
    <3> HIDE DEF s
    <3>1. CentralSound(heap, central) /\ central \in [BlockSizes -> Seq(SpanIds)]
      BY <1>2
    <3>2. s \in SpanIds /\ ~InCentral(central, s)
      BY <1>7
    <3> QED BY <1>3, <1>13, <2>1, <3>1, <3>2, CentralGrows
  <2> QED BY <1>1, <2>2
<1> HIDE DEF s, span, ce
<1>15. /\ ce \in [BlockSizes -> Seq(SpanIds)] /\ CentralSound(g, ce)
       /\ Elems(ce[size]) = Elems(central[size]) \cup {s}
       /\ \A z \in BlockSizes : z # size => ce[z] = central[z]
  BY <1>14 DEF Recentred
<1>16. /\ WholeBlocks(c, size) = WholeBlocks(span, size)
       /\ WholeBlocks(span, size) \in Nat /\ WholeBlocks(span, size) > 0
  <2>1. WholeBlocks(c, size) = WholeBlocks(span, size)
    BY <1>9 DEF WholeBlocks, SpanBytes
  <2> QED BY <1>3, <1>8, <2>1, HoldsABlock DEF n
<1>17. Booked(g, ce, cache, live, call, size)
  <2> DEFINE H == Held(heap, central, cache, live, call, size)
             G == Held(g, ce, cache, live, call, size)
             B == BlocksIn(heap, central, size)
             x == <<"span", s>>
  <2>1. x \in Places /\ H[x] = AtHome(heap, central, s, size) /\ G[x] = AtHome(g, ce, s, size)
    BY <1>7, HeldAt
  <2>2. H[x] = {}
    BY <1>3, <1>7, <2>1 DEF AtHome, InCentral
  <2>3. G[x] = BlocksOf(c, size)
    <3>1. G[x] = Home(c)
      BY <1>11, <1>15, <2>1 DEF AtHome
    <3>2. c.free_count = WholeBlocks(c, size)
      BY <1>9, <1>16
    <3> QED BY <1>3, <1>9, <3>1, <3>2, AllHome
  <2>4. ASSUME NEW w \in Places \ {x} PROVE H[w] = G[w]
    <3>1. CASE w = <<"caller", 0>>
      BY <3>1 DEF Held
    <3>2. CASE \E u \in Threads : w = <<"list", u>> \/ w = <<"way", u>>
      BY <3>2 DEF Held
    <3>3. CASE \E u \in SpanIds \ {s} : w = <<"span", u>>
      <4>1. PICK u \in SpanIds \ {s} : w = <<"span", u>>
        BY <3>3
      <4>2. AtHome(heap, central, u, size) = AtHome(g, ce, u, size)
        <5>1. u \in Elems(ce[size]) <=> u \in Elems(central[size])
          BY <1>15
        <5>2. u \in Elems(central[size]) => g.span[u] = heap.span[u]
          BY <1>3, <1>13 DEF InCentral
        <5> QED BY <5>1, <5>2 DEF AtHome
      <4> QED BY <4>1, <4>2 DEF Held
    <3> QED BY <2>4, <3>1, <3>2, <3>3, PlacesAre
  <2> HIDE DEF H, G, x
  <2>5. \A u \in Elems(central[size]) :
            g.span[u] = heap.span[u] /\ u \in UsedSpans(g) /\ u # s
    BY <1>3, <1>7, <1>13 DEF InCentral
  <2>6. G[x] \cap B = {}
    <3> SUFFICES ASSUME NEW b \in BlocksOf(c, size), b \in B PROVE FALSE
      BY <2>3
    <3>1. PICK u \in Elems(central[size]) : b \in BlocksOf(heap.span[u], size)
      BY DEF BlocksIn
    <3>2. /\ b \in BlocksOf(g.span[u], size) /\ b \in BlocksOf(g.span[s], size)
          /\ u \in Live(g) /\ s \in Live(g) /\ u # s /\ g \in HeapType /\ Divided(g)
      BY <1>11, <2>5, <3>1 DEF UsedSpans, Sound
    <3> QED BY <1>3, <3>2, BlocksOfOneSpan
  <2>7. BlocksIn(g, ce, size) = B \cup G[x]
    <3>1. \A u \in Elems(ce[size]) : u \in Elems(central[size]) \/ u = s
      BY <1>15
    <3>2. G[x] = BlocksOf(g.span[s], size)
      BY <1>11, <2>3
    <3>3. BlocksIn(g, ce, size) \subseteq B \cup G[x]
      BY <2>5, <3>1, <3>2 DEF BlocksIn
    <3>4. B \cup G[x] \subseteq BlocksIn(g, ce, size)
      BY <1>15, <2>5, <3>2 DEF BlocksIn
    <3> QED BY <3>3, <3>4
  <2> HIDE DEF B
  <2>8. Division(Places, H, B)
    BY <1>2, <1>3 DEF Booked, H, B
  <2>9. Division(Places, G, B \cup G[x])
    BY <2>1, <2>2, <2>4, <2>6, <2>8, Arrived
  <2> QED BY <2>7, <2>9 DEF Booked, G
<1>18. ASSUME NEW z \in BlockSizes, z # size PROVE Booked(g, ce, cache, live, call, z)
  <2>1. Booked(heap, central, cache, live, call, z)
    BY <1>2
  <2>2. Elems(central[z]) = Elems(ce[z])
    BY <1>15, <1>18
  <2>3. \A u \in Elems(central[z]) : heap.span[u] = g.span[u]
    BY <1>13 DEF InCentral
  <2> QED BY <2>1, <2>2, <2>3, DivisionAlike DEF Booked
<1>19. \A u : InCentral(ce, u) => InCentral(central, u) \/ u = s
  BY <1>3, <1>15 DEF InCentral
<1>20. CallsSound(g, ce, call)
  <2>1. \A u \in Threads : call[u].op = "freePages" => call[u].span # s
    BY <1>7 DEF BeingFreed
  <2> QED BY <1>2, <1>11, <1>19, <2>1 DEF CallsSound, CallSound
<1>21. LargeSound(g, ce, live, call)
  <2>1. \A u \in SpanIds : Aside(heap, central, call, u) =>
            Aside(g, ce, call, u) /\ g.span[u] = heap.span[u]
    BY <1>7, <1>11, <1>19 DEF Aside
  <2>2. LargeSound(heap, central, live, call)
    BY <1>2
  <2> QED BY <2>1, <2>2, LargeKept
<1>22. ASSUME NEW z \in BlockSizes, NEW u \in Elems(ce[z]), u # s
       PROVE  g.span[u].free_count < WholeBlocks(g.span[u], z)
  <2>1. u \in Elems(central[z])
    BY <1>15, <1>22
  <2>2. heap.span[u].free_count < WholeBlocks(heap.span[u], z) /\ g.span[u] = heap.span[u]
    BY <1>2, <1>13, <2>1 DEF NoneFull, InCentral
  <2> QED BY <2>2
<1>23. Ready(g, ce, size, s)
  <2>1. /\ s \in Elems(ce[size]) /\ g.span[s].free_count > 0
        /\ g.span[s].free_count <= WholeBlocks(g.span[s], size)
    BY <1>9, <1>11, <1>15, <1>16
  <2> QED BY <1>11, <1>15, <1>17, <1>18, <1>20, <1>21, <1>22, <2>1 DEF Ready
<1>24. TakesBatch(t, size, g, ce, s)
  BY <1>1, <1>2 DEF TakesBatch, size, g, c, span, s, ce
<1> QED BY <1>2, <1>3, <1>23, <1>24, BatchOutKeeps

-----------------------------------------------------------------------------
(* A span leaves the central cache.                                        *)
LEMMA CentralShrinks ==
    ASSUME NEW g, NEW ce \in [BlockSizes -> Seq(SpanIds)], CentralSound(g, ce),
           NEW size \in BlockSizes, NEW s \in Elems(ce[size])
    PROVE  Recentred(g, ce, WithCentral(ce, size, Without(ce[size], s)), size,
                     Elems(ce[size]) \ {s})
<1> DEFINE de == WithCentral(ce, size, Without(ce[size], s))
           q == Without(ce[size], s)
<1>1. q \in Seq(SpanIds) /\ Distinct(q) /\ Elems(q) = Elems(ce[size]) \ {s}
  <2> DEFINE p == ce[size]
  <2>1. s \in Elems(p) /\ p \in Seq(SpanIds) /\ Distinct(p)
    BY DEF CentralSound
  <2> HIDE DEF p
  <2>2. /\ Without(p, s) \in Seq(SpanIds) /\ Distinct(Without(p, s))
        /\ Elems(Without(p, s)) = Elems(p) \ {s}
    BY <2>1, Unlinked
  <2> QED BY <2>2 DEF p
<1> HIDE DEF q
<1>2. /\ de \in [BlockSizes -> Seq(SpanIds)] /\ de[size] = q
      /\ \A z \in BlockSizes : z # size => de[z] = ce[z]
  BY <1>1 DEF WithCentral, q
<1> HIDE DEF de
<1>3. \A z \in BlockSizes : Elems(de[z]) \subseteq Elems(ce[z]) /\ Distinct(de[z])
  BY <1>1, <1>2 DEF CentralSound
<1>4. CentralSound(g, de)
  <2>1. ASSUME NEW z \in BlockSizes, NEW y \in BlockSizes, z # y
        PROVE  Elems(de[z]) \cap Elems(de[y]) = {}
    <3>1. Elems(ce[z]) \cap Elems(ce[y]) = {}
      BY <2>1 DEF CentralSound
    <3> QED BY <1>3, <3>1
  <2> QED BY <1>3, <2>1 DEF CentralSound
<1> QED BY <1>1, <1>2, <1>4 DEF Recentred, de

(* and its blocks, all of them at home, with it.                           *)
LEMMA BooksShrink ==
    ASSUME NEW g \in HeapType, Divided(g), NEW ce, CentralSound(g, ce),
           NEW size \in BlockSizes, NEW s \in Elems(ce[size]),
           Home(g.span[s]) = BlocksOf(g.span[s], size),
           NEW de, Recentred(g, ce, de, size, Elems(ce[size]) \ {s}),
           NEW ca, NEW li, NEW cl, Booked(g, ce, ca, li, cl, size)
    PROVE  Booked(g, de, ca, li, cl, size)
<1> DEFINE H == Held(g, ce, ca, li, cl, size)
           G == Held(g, de, ca, li, cl, size)
           B == BlocksIn(g, ce, size)
           x == <<"span", s>>
<1>0. /\ size \in Nat \ {0} /\ Elems(de[size]) = Elems(ce[size]) \ {s}
      /\ \A u \in Elems(ce[size]) : u \in Live(g) /\ u \in SpanIds
  BY SizesApart DEF Recentred, CentralSound, UsedSpans, Live
<1>1. x \in Places /\ H[x] = AtHome(g, ce, s, size) /\ G[x] = AtHome(g, de, s, size)
  BY <1>0, HeldAt
<1>2. H[x] = BlocksOf(g.span[s], size) /\ G[x] = {}
  BY <1>0, <1>1 DEF AtHome
<1>3. ASSUME NEW w \in Places \ {x} PROVE H[w] = G[w]
  <2>1. CASE w = <<"caller", 0>>
    BY <2>1 DEF Held
  <2>2. CASE \E u \in Threads : w = <<"list", u>> \/ w = <<"way", u>>
    BY <2>2 DEF Held
  <2>3. CASE \E u \in SpanIds \ {s} : w = <<"span", u>>
    <3>1. PICK u \in SpanIds \ {s} : w = <<"span", u>>
      BY <2>3
    <3>2. AtHome(g, ce, u, size) = AtHome(g, de, u, size)
      BY <1>0 DEF AtHome
    <3> QED BY <3>1, <3>2 DEF Held
  <2> QED BY <1>3, <2>1, <2>2, <2>3, PlacesAre
<1> HIDE DEF H, G, x
<1>4. BlocksIn(g, de, size) = B \ H[x]
  <2>1. ASSUME NEW u \in Elems(ce[size]) \ {s}, NEW b \in BlocksOf(g.span[u], size)
        PROVE  b \notin BlocksOf(g.span[s], size)
    BY <1>0, <2>1, BlocksOfOneSpan
  <2>2. BlocksIn(g, de, size) \subseteq B \ H[x]
    BY <1>0, <1>2, <2>1 DEF BlocksIn
  <2>3. B \ H[x] \subseteq BlocksIn(g, de, size)
    BY <1>0, <1>2 DEF BlocksIn
  <2> QED BY <2>2, <2>3
<1> HIDE DEF B
<1>5. Division(Places, H, B)
  BY DEF Booked, H, B
<1>6. Division(Places, G, B \ H[x])
  BY <1>1, <1>2, <1>3, <1>5, Departed
<1> QED BY <1>4, <1>6 DEF Booked, G

(* What is in a place is a block.                                          *)
LEMMA InBooks ==
    ASSUME NEW h, NEW ce, NEW ca, NEW li, NEW cl, NEW size, NEW t \in Threads,
           Booked(h, ce, ca, li, cl, size)
    PROVE  /\ Callers(li, size) \subseteq BlocksIn(h, ce, size)
           /\ Elems(ca[t][size]) \subseteq BlocksIn(h, ce, size)
           /\ Way(cl, t, size) \subseteq BlocksIn(h, ce, size)
<1> DEFINE H == Held(h, ce, ca, li, cl, size)
           B == BlocksIn(h, ce, size)
<1>1. /\ <<"caller", 0>> \in Places /\ H[<<"caller", 0>>] = Callers(li, size)
      /\ <<"list", t>> \in Places /\ H[<<"list", t>>] = Elems(ca[t][size])
      /\ <<"way", t>> \in Places /\ H[<<"way", t>>] = Way(cl, t, size)
  BY HeldAt
<1>2. UNION {H[x] : x \in Places} = B
  BY DEF Booked, Division
<1> HIDE DEF H, B
<1>3. \A x \in Places : H[x] \subseteq B
  BY <1>2
<1>4. B = BlocksIn(h, ce, size)
  BY DEF B
<1> QED BY <1>1, <1>3, <1>4

(* A block comes home: the first of those on the way joins the list of its *)
(* span, which is one of the central cache, in use and not full.           *)
SpanWith(t) == WithBlock(heap.span[SpanOf(t)], Head(call[t].blocks))
HeapWith(t) == WithSpan(heap, SpanOf(t), SpanWith(t))

Returned(t, size, g, s, x, dl) ==
    /\ size \in BlockSizes /\ s \in Elems(central[size]) /\ s \in SpanIds
    /\ Sound(g) /\ UsedSpans(g) = UsedSpans(heap) /\ OnlySpan(heap, g, s)
    /\ g.span[s] = x /\ CentralSound(g, central)
    /\ x \in Span /\ InOrder(x, size) /\ x.free_count <= WholeBlocks(x, size)
    /\ \A z \in BlockSizes : Booked(g, central, cache, live, dl, z)

LEMMA BlockReturns ==
    ASSUME IInv, NEW t \in Threads, call[t].op = "return", NEW c, NEW dl,
           Recalled(call, dl, t, c), c.blocks = Tail(call[t].blocks),
           c.size = call[t].size \/ (c.size = 0 /\ c.blocks = <<>>)
    PROVE  Returned(t, call[t].size, HeapWith(t), SpanOf(t), SpanWith(t), dl)
<1> DEFINE size == call[t].size
           blocks == call[t].blocks
           a == Head(blocks)
           s == SpanOf(t)
           x == SpanWith(t)
           g == HeapWith(t)
<1>1. /\ Sound(heap) /\ heap \in HeapType /\ Divided(heap) /\ CentralSound(heap, central)
      /\ NoneFull(heap, central) /\ CallSound(heap, central, call[t])
      /\ \A z \in BlockSizes : Booked(heap, central, cache, live, call, z)
  BY DEF IInv, Sound, CallsSound
<1>2. /\ size \in BlockSizes /\ size \in Nat \ {0} /\ blocks # <<>> /\ Distinct(blocks)
      /\ blocks \in Seq(Addresses)
  BY <1>1, SizesApart, Parts DEF CallSound, IInv
<1>3. /\ a \in Addresses /\ a \in Elems(blocks) /\ Elems(Tail(blocks)) = Elems(blocks) \ {a}
  BY <1>2, HeadOff
<1>4. Way(call, t, size) = Elems(blocks)
  BY DEF Way
<1>5. PICK u \in Elems(central[size]) : a \in BlocksOf(heap.span[u], size)
  <2>1. Booked(heap, central, cache, live, call, size)
    BY <1>1, <1>2
  <2>2. Way(call, t, size) \subseteq BlocksIn(heap, central, size)
    <3> HIDE DEF size
    <3> QED BY <2>1, InBooks
  <2> QED BY <1>3, <1>4, <2>2 DEF BlocksIn
<1>6. /\ u \in UsedSpans(heap) /\ u \in Live(heap) /\ u \in SpanIds
      /\ InOrder(heap.span[u], size) /\ heap.span[u] \in Span /\ heap.span[u].is_used
  BY <1>1, <1>2, <1>5, HeapParts DEF CentralSound, UsedSpans, Live
<1>7. s = u
  <2>1. FindSpanByAddr(heap, a) = u
    <3> HIDE DEF a, size
    <3> QED BY <1>1, <1>2, <1>5, <1>6, SpanOfBlock
  <2> QED BY <2>1 DEF SpanOf
<1>8. InFour(Callers(live, size), Elems(cache[t][size]), Elems(blocks), Home(heap.span[s]))
  <2>1. Booked(heap, central, cache, live, call, size)
    BY <1>1, <1>2
  <2>2. InFour(Callers(live, size), Elems(cache[t][size]), Way(call, t, size),
               Home(heap.span[u]))
    <3> HIDE DEF size
    <3> QED BY <1>5, <1>6, <2>1, InFourPlaces
  <2> QED BY <1>4, <1>7, <2>2
<1>9. a \notin Home(heap.span[s])
  BY <1>3, <1>8 DEF InFour
<1> HIDE DEF s
<1>10. /\ x \in Span /\ x.page_id = heap.span[s].page_id
       /\ x.page_count = heap.span[s].page_count /\ x.is_used
       /\ x.free_count = heap.span[s].free_count + 1
       /\ InOrder(x, size) /\ Home(x) = Home(heap.span[s]) \cup {a}
  <2> DEFINE span == heap.span[s]
  <2>1. span \in Span /\ span.is_used /\ InOrder(span, size) /\ a \in BlocksOf(span, size)
    BY <1>5, <1>6, <1>7
  <2>2. a \notin Home(span) /\ a \in Addresses
    BY <1>3, <1>9
  <2>3. x = WithBlock(span, a)
    BY DEF SpanWith, s
  <2> HIDE DEF span, a, x, size
  <2>4. /\ WithBlock(span, a) \in Span /\ WithBlock(span, a).page_id = span.page_id
        /\ WithBlock(span, a).page_count = span.page_count
        /\ WithBlock(span, a).is_used = span.is_used
        /\ WithBlock(span, a).free_count = span.free_count + 1
        /\ InOrder(WithBlock(span, a), size) /\ Home(WithBlock(span, a)) = Home(span) \cup {a}
    <3>1. size \in Nat \ {0}
      BY <1>2
    <3> QED BY <2>1, <2>2, <3>1, BlockHome
  <2> QED BY <2>1, <2>3, <2>4 DEF span
<1>11. g = WithSpan(heap, s, x)
  BY DEF HeapWith, s
<1> HIDE DEF x, g
<1>12. Sound(g) /\ UsedSpans(g) = UsedSpans(heap) /\ g.span[s] = x /\ OnlySpan(heap, g, s)
  <2>1. Respanned(heap, WithSpan(heap, s, x), s, x)
    BY <1>1, <1>6, <1>7, <1>10, Refilled
  <2> QED BY <1>11, <2>1 DEF Respanned
<1>13. /\ CentralSound(g, central)
       /\ \A z \in BlockSizes : /\ Elems(central[z]) \subseteq SpanIds
                                /\ z # size => \A w \in Elems(central[z]) :
                                       w \in SpanIds \ {s} /\ g.span[w] = heap.span[w]
  <2> HIDE DEF size
  <2> QED BY <1>1, <1>2, <1>5, <1>6, <1>7, <1>10, <1>12, CentralRefilled
<1>14. SameWays(call, dl, t, c)
  BY WaysAlike
<1>15. /\ Way(dl, t, size) = Elems(Tail(blocks))
       /\ \A z \in BlockSizes : z # size => \A w \in Threads : Way(call, w, z) = Way(dl, w, z)
       /\ \A w \in Threads \ {t} : Way(call, w, size) = Way(dl, w, size)
  <2>1. Elems(<<>>) = {}
    BY DEF Elems
  <2>2. c.blocks = Tail(blocks) /\ (c.size = size \/ (c.size = 0 /\ c.blocks = <<>>))
    OBVIOUS
  <2>3. \A z \in BlockSizes : z # 0 /\ (z # size => Way(call, t, z) = {})
    BY SizesApart DEF Way
  <2> HIDE DEF size, blocks
  <2>4. \A z \in BlockSizes : /\ c.size = z => Way(dl, t, z) = Elems(c.blocks)
                              /\ c.size # z => Way(dl, t, z) = {}
                              /\ \A w \in Threads \ {t} : Way(call, w, z) = Way(dl, w, z)
    BY <1>14 DEF SameWays
  <2>5. Way(dl, t, size) = Elems(Tail(blocks))
    BY <1>2, <2>1, <2>2, <2>4
  <2>6. \A z \in BlockSizes : z # size => Way(dl, t, z) = {}
    BY <2>2, <2>3, <2>4
  <2> QED BY <1>2, <2>3, <2>4, <2>5, <2>6
<1>16. Booked(g, central, cache, live, dl, size)
  <2> DEFINE C == Callers(live, size)
             L == Elems(cache[t][size])
             M == Home(heap.span[s])
  <2>1. /\ InFour(C, L, Way(dl, t, size), Home(g.span[s]))
        /\ C \cup L \cup Way(dl, t, size) \cup Home(g.span[s])
             = C \cup L \cup Way(call, t, size) \cup M
    <3>1. InFour(C, L, Elems(blocks), M)
      BY <1>8
    <3>2. Way(dl, t, size) = Elems(blocks) \ {a} /\ Home(g.span[s]) = M \cup {a}
      BY <1>3, <1>10, <1>12, <1>15
    <3> HIDE DEF C, L, M, a, blocks, size
    <3> QED BY <1>3, <1>4, <3>1, <3>2 DEF InFour, Apart
  <2>2. OnlyThread(cache, call, cache, dl, t, size)
    BY <1>15 DEF OnlyThread
  <2>3. BlocksOf(g.span[s], size) = BlocksOf(heap.span[s], size)
    BY <1>10, <1>12 DEF BlocksOf, WholeBlocks, SpanBytes
  <2>4. /\ s \in Elems(central[size]) /\ s \in SpanIds /\ Elems(central[size]) \subseteq SpanIds
        /\ Booked(heap, central, cache, live, call, size)
    BY <1>1, <1>2, <1>5, <1>6, <1>7, <1>13
  <2> HIDE DEF size
  <2> QED BY <1>12, <2>1, <2>2, <2>3, <2>4, MovedWithSpan
<1>17. ASSUME NEW z \in BlockSizes, z # size PROVE Booked(g, central, cache, live, dl, z)
  <2>1. Booked(heap, central, cache, live, call, z)
    BY <1>1
  <2>2. \A w \in Threads : Way(call, w, z) = Way(dl, w, z)
    BY <1>15, <1>17
  <2>3. \A w \in Elems(central[z]) : heap.span[w] = g.span[w]
    BY <1>13, <1>17
  <2> QED BY <2>1, <2>2, <2>3, DivisionAlike DEF Booked
<1>18. x.free_count <= WholeBlocks(x, size)
  <2>1. heap.span[s].free_count < WholeBlocks(heap.span[s], size)
    BY <1>1, <1>2, <1>5, <1>7 DEF NoneFull
  <2>2. WholeBlocks(x, size) = WholeBlocks(heap.span[s], size)
    BY <1>10 DEF WholeBlocks, SpanBytes
  <2>3. heap.span[s].free_count \in Nat /\ Placed(heap.span[s])
    BY <1>1, <1>6, <1>7, HeapParts
  <2>4. WholeBlocks(heap.span[s], size) \in Nat
    BY <1>2, <2>3, WholeIsWhole
  <2> QED BY <1>10, <2>1, <2>2, <2>3, <2>4
<1> QED BY <1>2, <1>5, <1>6, <1>7, <1>10, <1>12, <1>13, <1>16, <1>17, <1>18
       DEF Returned, s, x, g

LEMMA ReturnBlockKeeps ==
    ASSUME IInv, NEW t \in Threads, ReturnBlock(t)
    PROVE  IInv'
<1> DEFINE size == call[t].size
           rest == Tail(call[t].blocks)
           s == SpanOf(t)
           x == SpanWith(t)
           g == HeapWith(t)
           full == x.free_count = WholeBlocks(x, size)
           c == IF full THEN Doing("freePages", size, rest, s) ELSE Continue(size, rest)
           ce == central'
<1>1. /\ call[t].op = "return" /\ heap' = g /\ call' = WithCall(call, t, c)
      /\ cache' = cache /\ live' = live
      /\ full => ce = WithCentral(central, size, Without(central[size], s))
      /\ ~full => ce = central
  BY DEF ReturnBlock, At, SpanWith, HeapWith, WithSpan, WithCall, WithCentral
<1>2. /\ TypeOK /\ Sound(heap) /\ ListsDistinct(cache) /\ NoneFull(heap, central)
      /\ CallsSound(heap, central, call) /\ CallSound(heap, central, call[t])
      /\ LargeSound(heap, central, live, call)
      /\ call \in [Threads -> CallType] /\ central \in [BlockSizes -> Seq(SpanIds)]
  BY Parts DEF IInv, CallsSound
<1>3. /\ size \in BlockSizes /\ rest \in Seq(Addresses) /\ Distinct(rest)
  <2>1. /\ size \in BlockSizes /\ call[t].blocks # <<>> /\ Distinct(call[t].blocks)
        /\ call[t].blocks \in Seq(Addresses)
    BY <1>1, <1>2, Parts DEF CallSound
  <2> QED BY <2>1, HeadOff
<1>4. /\ Continue(size, rest) \in CallType /\ Continue(size, rest).op # "freePages"
      /\ CallSound(g, ce, Continue(size, rest))
      /\ Continue(size, rest).blocks = rest
      /\ rest # <<>> => Continue(size, rest).size = size
      /\ rest = <<>> => Continue(size, rest).size = 0
  <2> HIDE DEF size, rest, g, ce
  <2>1. /\ size \in BlockSizes \cup LargeSizes \cup {0} /\ rest \in Seq(Addresses)
        /\ Distinct(rest)
    BY <1>3
  <2>2. size \in BlockSizes \/ rest = <<>>
    BY <1>3
  <2> QED BY <2>1, <2>2, Continued
<1>5. c.blocks = rest /\ (c.size = size \/ (c.size = 0 /\ c.blocks = <<>>))
  BY <1>4 DEF Doing
<1>6. s \in SpanIds
  <2>1. heap.map \in [Pages -> SpanIds \cup {0}]
    BY <1>2, Parts, HeapParts
  <2>2. s # 0
    BY DEF ReturnBlock
  <2>3. s = 0 \/ \E p \in Pages : s = heap.map[p]
    BY DEF SpanOf, FindSpanByAddr, FindSpan
  <2> QED BY <2>1, <2>2, <2>3
<1>7. c \in CallType
  BY <1>3, <1>4, <1>6 DEF Doing, CallType
<1>8. full => c.op = "freePages" /\ c.span = s
  BY DEF Doing
<1>9. ~full => c = Continue(size, rest)
  OBVIOUS
<1> HIDE DEF c
<1>10. Recalled(call, call', t, c)
  <2>1. Recalled(call, WithCall(call, t, c), t, c)
    BY <1>2, <1>7, CallChanged
  <2> QED BY <1>1, <2>1
<1>11. Returned(t, size, g, s, x, call')
  <2> HIDE DEF rest
  <2>1. c.blocks = Tail(call[t].blocks) /\ (c.size = call[t].size \/ (c.size = 0 /\ c.blocks = <<>>))
    BY <1>5 DEF rest
  <2>2. Returned(t, call[t].size, HeapWith(t), SpanOf(t), SpanWith(t), call')
    BY <1>1, <1>10, <2>1, BlockReturns
  <2> QED BY <2>2
<1> HIDE DEF size, rest, s, x, g, full
<1>12. /\ s \in Elems(central[size])
       /\ Sound(g) /\ UsedSpans(g) = UsedSpans(heap) /\ OnlySpan(heap, g, s)
       /\ g.span[s] = x /\ CentralSound(g, central)
       /\ x \in Span /\ InOrder(x, size) /\ x.free_count <= WholeBlocks(x, size)
       /\ \A z \in BlockSizes : Booked(g, central, cache, live, call', z)
  BY <1>11 DEF Returned
<1>13. \A u \in SpanIds \ {s} : g.span[u] = heap.span[u]
  BY <1>12 DEF OnlySpan
<1>14. InCentral(central, s)
  BY <1>3, <1>12 DEF InCentral
<1>15. \A u \in SpanIds : Aside(heap, central, call, u) => u # s /\ g.span[u] = heap.span[u]
  BY <1>13, <1>14 DEF Aside
<1>16. TypeOK'
  <2>1. central' \in [BlockSizes -> Seq(SpanIds)]
    <3>1. CASE full
      <4>1. Recentred(g, central, WithCentral(central, size, Without(central[size], s)), size,
                      Elems(central[size]) \ {s})
        BY <1>2, <1>3, <1>12, CentralShrinks
      <4> QED BY <1>1, <3>1, <4>1 DEF Recentred
    <3>2. CASE ~full
      BY <1>1, <1>2, <3>2
    <3> QED BY <3>1, <3>2
  <2>2. g \in HeapType
    BY <1>12 DEF Sound
  <2>3. call' \in [Threads -> CallType]
    BY <1>10 DEF Recalled
  <2> HIDE DEF ce
  <2> QED BY <1>1, <1>2, <2>1, <2>2, <2>3 DEF TypeOK, HeapType, CallType
<1>17. CASE ~full
  <2>1. ce = central /\ c = Continue(size, rest)
    BY <1>1, <1>9, <1>17
  <2>2. NoneFull(g, central)
    <3> SUFFICES ASSUME NEW z \in BlockSizes, NEW u \in Elems(central[z])
                 PROVE  g.span[u].free_count < WholeBlocks(g.span[u], z)
      BY DEF NoneFull
    <3>0. u \in UsedSpans(heap) /\ u \in SpanIds
      BY <1>12 DEF CentralSound, UsedSpans, Live
    <3>1. CASE u # s
      <4>1. heap.span[u].free_count < WholeBlocks(heap.span[u], z)
        BY <1>2 DEF NoneFull
      <4> QED BY <1>13, <3>0, <3>1, <4>1
    <3>2. CASE u = s
      <4>1. z = size
        BY <1>3, <1>12, <3>2 DEF CentralSound
      <4>2. x.free_count < WholeBlocks(x, size)
        <5>1. x.free_count \in Nat /\ x.page_count \in Nat /\ x.page_id \in Nat
          BY <1>12 DEF Span
        <5>2. WholeBlocks(x, size) \in Nat
          BY <1>3, <5>1, SizesApart, WholeIsWhole DEF Placed
        <5> QED BY <1>12, <1>17, <5>1, <5>2 DEF full
      <4> QED BY <1>12, <3>2, <4>1, <4>2
    <3> QED BY <3>1, <3>2
  <2>3. CallsSound(g, central, call')
    <3>1. \A u \in Threads \ {t} : call[u].op = "freePages" =>
              /\ call[u].span \in UsedSpans(g) /\ ~InCentral(central, call[u].span)
              /\ c.op = "freePages" => c.span # call[u].span
      BY <1>2, <1>4, <1>12, <2>1 DEF CallSound, CallsSound
    <3>2. CallSound(g, central, c)
      BY <1>4, <2>1
    <3> QED BY <1>2, <1>10, <3>1, <3>2, CallsKept
  <2>4. LargeSound(g, central, live, call')
    <3>1. \A u : BeingFreed(call', u) => BeingFreed(call, u)
      BY <1>4, <1>10, <2>1 DEF BeingFreed, Recalled
    <3>2. \A u \in SpanIds : Aside(heap, central, call, u) =>
              Aside(g, central, call', u) /\ g.span[u] = heap.span[u]
      BY <1>12, <1>15, <3>1 DEF Aside
    <3> QED BY <1>2, <3>2, LargeKept
  <2> HIDE DEF ce
  <2> QED BY <1>1, <1>2, <1>12, <1>16, <1>17, <2>1, <2>2, <2>3, <2>4 DEF IInv, ce
<1>18. CASE full
  <2>1. Recentred(g, central, ce, size, Elems(central[size]) \ {s})
    <3>1. Recentred(g, central, WithCentral(central, size, Without(central[size], s)), size,
                    Elems(central[size]) \ {s})
      BY <1>2, <1>3, <1>12, CentralShrinks
    <3> QED BY <1>1, <1>18, <3>1
  <2> HIDE DEF ce
  <2>2. /\ CentralSound(g, ce) /\ Elems(ce[size]) = Elems(central[size]) \ {s}
        /\ \A z \in BlockSizes : z # size => ce[z] = central[z]
    BY <2>1 DEF Recentred
  <2>3. \A u : InCentral(ce, u) => InCentral(central, u)
    BY <2>2 DEF InCentral
  <2>4. ~InCentral(ce, s)
    <3> SUFFICES ASSUME NEW z \in BlockSizes, s \in Elems(ce[z]) PROVE FALSE
      BY DEF InCentral
    <3>1. CASE z = size
      BY <2>2, <3>1
    <3>2. CASE z # size
      BY <1>3, <1>12, <2>2, <3>2 DEF CentralSound
    <3> QED BY <3>1, <3>2
  <2>5. NoneFull(g, ce)
    <3> SUFFICES ASSUME NEW z \in BlockSizes, NEW u \in Elems(ce[z])
                 PROVE  g.span[u].free_count < WholeBlocks(g.span[u], z)
      BY DEF NoneFull
    <3>1. u # s /\ u \in UsedSpans(g) /\ u \in SpanIds /\ u \in Elems(central[z])
      BY <2>2, <2>4 DEF InCentral, CentralSound, UsedSpans, Live
    <3>2. heap.span[u].free_count < WholeBlocks(heap.span[u], z)
      BY <1>2, <3>1 DEF NoneFull
    <3> QED BY <1>13, <3>1, <3>2
  <2>6. ASSUME NEW z \in BlockSizes PROVE Booked(g, ce, cache, live, call', z)
    <3>1. Booked(g, central, cache, live, call', z)
      BY <1>12
    <3>2. CASE z = size
      <4>1. Home(x) = BlocksOf(x, size)
        <5>1. size \in Nat \ {0} /\ x.free_count = WholeBlocks(x, size)
          BY <1>3, <1>18, SizesApart DEF full
        <5> QED BY <1>12, <5>1, AllHome
      <4>2. g \in HeapType /\ Divided(g) /\ Home(g.span[s]) = BlocksOf(g.span[s], size)
        BY <1>12, <4>1 DEF Sound
      <4>3. Booked(g, central, cache, live, call', size)
        BY <3>1, <3>2
      <4>4. Booked(g, ce, cache, live, call', size)
        BY <1>3, <1>12, <2>1, <4>2, <4>3, BooksShrink
      <4> QED BY <3>2, <4>4
    <3>3. CASE z # size
      <4>1. Elems(central[z]) = Elems(ce[z])
        BY <2>2, <3>3
      <4> QED BY <3>1, <4>1, DivisionAlike DEF Booked
    <3> QED BY <3>2, <3>3
  <2>7. CallsSound(g, ce, call')
    <3>1. \A u \in Threads \ {t} : call[u].op = "freePages" =>
              /\ call[u].span \in UsedSpans(g) /\ ~InCentral(ce, call[u].span)
              /\ c.op = "freePages" => c.span # call[u].span
      <4>1. \A u \in Threads : call[u].op = "freePages" =>
                call[u].span \in UsedSpans(heap) /\ ~InCentral(central, call[u].span)
        BY <1>2 DEF CallSound, CallsSound
      <4> QED BY <1>8, <1>12, <1>14, <1>18, <2>3, <4>1
    <3>2. CallSound(g, ce, c)
      <4>1. s \in UsedSpans(g)
        BY <1>3, <1>12 DEF CentralSound
      <4>2. c.size = size /\ c.blocks = rest
        BY <1>18 DEF c, Doing
      <4> QED BY <1>3, <1>8, <1>18, <2>4, <4>1, <4>2 DEF CallSound
    <3> QED BY <1>2, <1>10, <3>1, <3>2, CallsKept
  <2>8. LargeSound(g, ce, live, call')
    <3>1. \A u : BeingFreed(call', u) => BeingFreed(call, u) \/ u = s
      BY <1>8, <1>10, <1>18 DEF BeingFreed, Recalled
    <3>2. \A u \in SpanIds : Aside(heap, central, call, u) =>
              Aside(g, ce, call', u) /\ g.span[u] = heap.span[u]
      BY <1>12, <1>15, <2>3, <3>1 DEF Aside
    <3> QED BY <1>2, <3>2, LargeKept
  <2> QED BY <1>1, <1>2, <1>12, <1>16, <2>2, <2>5, <2>6, <2>7, <2>8 DEF IInv, ce
<1> QED BY <1>17, <1>18

-----------------------------------------------------------------------------
(* At first there is no span, no block and nobody inside the allocator.    *)
LEMMA InitIInv == Init => IInv
<1> SUFFICES ASSUME Init PROVE IInv
  OBVIOUS
<1>1. /\ heap.span = [s \in SpanIds |-> NoSpan] /\ heap.map = [p \in Pages |-> 0]
      /\ heap.lists = [n \in 1..kMaxPageCount |-> <<>>] /\ heap.os = {}
      /\ heap = [span |-> heap.span, map |-> heap.map, lists |-> heap.lists, os |-> heap.os]
  BY DEF Init, EmptyHeap
<1>2. /\ \A size \in BlockSizes : central[size] = <<>>
      /\ \A t \in Threads : \A size \in BlockSizes : cache[t][size] = <<>>
      /\ live = {} /\ \A t \in Threads : call[t] = Idle
  BY DEF Init
<1>3. /\ Idle.op = "idle" /\ Idle.size = 0 /\ Idle.blocks = <<>> /\ Idle.span = 0
      /\ Idle \in CallType
  <2>1. <<>> \in Seq(Addresses)
    OBVIOUS
  <2> QED BY <2>1 DEF Idle, CallType
<1>4. Elems(<<>>) = {} /\ Distinct(<<>>) /\ \A S : <<>> \in Seq(S)
  BY DEF Elems, Distinct
<1>5. heap \in HeapType
  <2>1. NoSpan \in Span
    BY <1>4 DEF NoSpan, Span
  <2> QED BY <1>1, <1>4, <2>1 DEF HeapType
<1>6. TypeOK
  <2>1. call \in [Threads -> CallType]
    BY <1>3 DEF Init
  <2>2. central \in [BlockSizes -> Seq(SpanIds)]
    BY <1>4 DEF Init
  <2>3. cache \in [Threads -> [BlockSizes -> Seq(Addresses)]]
    BY <1>4 DEF Init
  <2> QED BY <1>2, <1>5, <2>1, <2>2, <2>3 DEF TypeOK, HeapType, CallType
<1>7. \A s \in SpanIds : heap.span[s].page_count = 0
  BY <1>1 DEF NoSpan
<1>8. Sound(heap)
  <2>1. Live(heap) = {}
    BY <1>7 DEF Live
  <2>2. Divided(heap)
    BY <1>1, <2>1 DEF Divided
  <2>3. Listed(heap, {})
    <3>1. \A n \in 1..kMaxPageCount : Waiting(heap, n) = {}
      BY <1>7 DEF Waiting
    <3> QED BY <1>1, <1>4, <3>1 DEF Listed
  <2> QED BY <1>5, <2>2, <2>3 DEF Sound
<1>9. CentralSound(heap, central) /\ NoneFull(heap, central)
  BY <1>2, <1>4 DEF CentralSound, NoneFull
<1>10. CallsSound(heap, central, call)
  BY <1>2, <1>3, <1>4 DEF CallsSound, CallSound, FreedOnce
<1>11. ListsDistinct(cache)
  BY <1>2, <1>4 DEF ListsDistinct
<1>12. ASSUME NEW size \in BlockSizes PROVE Booked(heap, central, cache, live, call, size)
  <2> DEFINE H == Held(heap, central, cache, live, call, size)
  <2>1. \A x \in Places : H[x] = {}
    <3>1. /\ Callers(live, size) = {} /\ \A t \in Threads : Elems(cache[t][size]) = {}
          /\ \A t \in Threads : Way(call, t, size) = {}
          /\ \A s \in SpanIds : AtHome(heap, central, s, size) = {}
      BY <1>2, <1>3, <1>4 DEF Callers, Way, AtHome
    <3>2. /\ H[<<"caller", 0>>] = Callers(live, size)
          /\ \A t \in Threads : /\ H[<<"list", t>>] = Elems(cache[t][size])
                                /\ H[<<"way", t>>] = Way(call, t, size)
          /\ \A s \in SpanIds : H[<<"span", s>>] = AtHome(heap, central, s, size)
      BY HeldAt
    <3> HIDE DEF H
    <3> QED BY <3>1, <3>2, PlacesAre
  <2>2. BlocksIn(heap, central, size) = {}
    BY <1>2, <1>4 DEF BlocksIn
  <2> HIDE DEF H
  <2>3. Division(Places, H, {})
    BY <2>1 DEF Division
  <2> QED BY <2>2, <2>3 DEF Booked, H
<1>13. LargeSound(heap, central, live, call)
  BY <1>2 DEF LargeSound, Large
<1> QED BY <1>6, <1>8, <1>9, <1>10, <1>11, <1>12, <1>13 DEF IInv

LEMMA NextIInv == IInv /\ [Next]_vars => IInv'
<1> SUFFICES ASSUME IInv, [Next]_vars PROVE IInv'
  OBVIOUS
<1>0. Allocating \subseteq Threads
  BY SizeAssumption
<1>1. ASSUME NEW t \in Allocating, NEW size \in BlockSizes,
             AllocateCached(t, size) \/ AllocateMiss(t, size)
      PROVE  IInv'
  BY <1>0, <1>1, AllocateCachedKeeps, MissKeeps
<1>2. ASSUME NEW t \in Allocating, NEW size \in LargeSizes, AllocateLarge(t, size)
      PROVE  IInv'
  BY <1>0, <1>2, AllocateLargeKeeps
<1>3. ASSUME NEW t \in Threads,
             \/ Fetch(t) \/ StartGrow(t) \/ Grow(t)
             \/ LockToReturn(t) \/ ReturnBlock(t) \/ FreeSpan(t)
      PROVE  IInv'
  BY <1>3, FetchKeeps, StartGrowKeeps, GrowKeeps, ReturnBlockKeeps, FreeSpanKeeps
<1>4. ASSUME NEW t \in Threads, NEW o \in live, Deallocate(t, o) \/ DeallocateLarge(t, o)
      PROVE  IInv'
  BY <1>4, DeallocateKeeps, DeallocateLargeKeeps
<1>5. CASE UNCHANGED vars
  <2>1. heap' = heap /\ central' = central /\ cache' = cache /\ live' = live /\ call' = call
    BY <1>5 DEF vars
  <2> QED BY <2>1 DEF IInv, TypeOK
<1> QED BY <1>1, <1>2, <1>3, <1>4, <1>5 DEF Next

-----------------------------------------------------------------------------
(* How many copies of a block there are.                                   *)
CountOf(yes) == IF yes THEN 1 ELSE 0

LEMMA CopiesOfCallers ==
    ASSUME NEW li \in SUBSET Piece, NEW a, NEW size
    PROVE  Cardinality({o \in li : o.at = a /\ o.size = size})
             = CountOf(a \in Callers(li, size))
<1> DEFINE D == {o \in li : o.at = a /\ o.size = size}
<1>1. CASE a \in Callers(li, size)
  <2>1. PICK o \in li : o.at = a /\ o.size = size
    BY <1>1 DEF Callers
  <2>2. D = {o}
    BY <2>1 DEF Piece
  <2> QED BY <1>1, <2>2, FS_Singleton DEF CountOf
<1>2. CASE a \notin Callers(li, size)
  <2>1. D = {}
    BY <1>2 DEF Callers
  <2> QED BY <1>2, <2>1, FS_EmptySet DEF CountOf
<1> QED BY <1>1, <1>2

LEMMA CopiesAtHome ==
    ASSUME NEW span \in Span, NEW size \in Nat \ {0}, InOrder(span, size),
           NEW a \in BlocksOf(span, size)
    PROVE  Cardinality({i \in DOMAIN span.free_list : span.free_list[i] = a})
             = CountOf(a \in Home(span))
<1> DEFINE D == {i \in DOMAIN span.free_list : span.free_list[i] = a}
<1>1. /\ \A i \in D : i \in 1..span.free_count
      /\ \A i \in 1..span.free_count : i \in DOMAIN span.free_list
  BY HomeFacts DEF InOrder
<1>2. CASE a \in Home(span)
  <2>1. PICK i \in 1..span.free_count : span.free_list[i] = a
    BY <1>2 DEF Home
  <2>2. D = {i}
    BY <1>1, <2>1 DEF InOrder
  <2> QED BY <1>2, <2>2, FS_Singleton DEF CountOf
<1>3. CASE a \notin Home(span)
  <2>1. D = {}
    BY <1>1, <1>3 DEF Home
  <2> QED BY <1>3, <2>1, FS_EmptySet DEF CountOf
<1> QED BY <1>2, <1>3

Spots(list, a) ==
    UNION {{<<t, i>> : i \in {j \in DOMAIN list[t] : list[t][j] = a}} : t \in Threads}

LEMMA CopiesInLists ==
    ASSUME NEW list, NEW a, \A t \in Threads : Distinct(list[t]),
           \A t, u \in Threads : t # u => Elems(list[t]) \cap Elems(list[u]) = {}
    PROVE  /\ (\E t \in Threads : a \in Elems(list[t])) => Cardinality(Spots(list, a)) = 1
           /\ (\A t \in Threads : a \notin Elems(list[t])) => Cardinality(Spots(list, a)) = 0
<1> DEFINE D == Spots(list, a)
<1>1. CASE \E t \in Threads : a \in Elems(list[t])
  <2>1. PICK t \in Threads : a \in Elems(list[t])
    BY <1>1
  <2>2. PICK i \in DOMAIN list[t] : list[t][i] = a
    BY <2>1 DEF Elems
  <2>3. ASSUME NEW u \in Threads, NEW j \in DOMAIN list[u], list[u][j] = a
        PROVE  u = t /\ j = i
    <3>1. a \in Elems(list[u])
      BY <2>3 DEF Elems
    <3>2. u = t
      BY <2>1, <3>1
    <3> QED BY <2>2, <2>3, <3>2 DEF Distinct
  <2>4. D = {<<t, i>>}
    <3>1. D \subseteq {<<t, i>>}
      BY <2>3 DEF Spots
    <3>2. <<t, i>> \in D
      BY <2>2 DEF Spots
    <3> QED BY <3>1, <3>2
  <2> QED BY <1>1, <2>4, FS_Singleton
<1>2. CASE ~\E t \in Threads : a \in Elems(list[t])
  <2>1. D = {}
    BY <1>2 DEF Elems, Spots
  <2> QED BY <1>2, <2>1, FS_EmptySet
<1> QED BY <1>1, <1>2

(* A block of a span is with a caller, in a list, on a way, or at home,    *)
(* and in one of these only.                                               *)
InList(ca, size, a) == \E t \in Threads : a \in Elems(ca[t][size])
OnWay(cl, size, a) == \E t \in Threads : a \in Way(cl, t, size)
OneOf(p, q, r, s) ==
    /\ p \/ q \/ r \/ s
    /\ ~(p /\ q) /\ ~(p /\ r) /\ ~(p /\ s) /\ ~(q /\ r) /\ ~(q /\ s) /\ ~(r /\ s)
ListsApart(ca, cl, size) ==
    \A t, u \in Threads : t # u =>
        /\ Elems(ca[t][size]) \cap Elems(ca[u][size]) = {}
        /\ Way(cl, t, size) \cap Way(cl, u, size) = {}

LEMMA BlockIsSomewhere ==
    ASSUME NEW h \in HeapType, Divided(h), NEW ce, NEW ca, NEW li, NEW cl,
           NEW size \in BlockSizes, CentralSound(h, ce), Booked(h, ce, ca, li, cl, size),
           NEW s \in Elems(ce[size]), NEW a \in BlocksOf(h.span[s], size)
    PROVE  /\ OneOf(a \in Callers(li, size), a \in Home(h.span[s]),
                    InList(ca, size, a), OnWay(cl, size, a))
           /\ ListsApart(ca, cl, size)
<1> DEFINE H == Held(h, ce, ca, li, cl, size)
           B == BlocksIn(h, ce, size)
<1>1. /\ <<"caller", 0>> \in Places /\ H[<<"caller", 0>>] = Callers(li, size)
      /\ \A t \in Threads :
            /\ <<"list", t>> \in Places /\ H[<<"list", t>>] = Elems(ca[t][size])
            /\ <<"way", t>> \in Places /\ H[<<"way", t>>] = Way(cl, t, size)
      /\ \A u \in SpanIds :
            <<"span", u>> \in Places /\ H[<<"span", u>>] = AtHome(h, ce, u, size)
  BY HeldAt
<1>2. (\A x, y \in Places : x # y => H[x] \cap H[y] = {}) /\ UNION {H[x] : x \in Places} = B
  BY DEF Booked, Division
<1>3. a \in B
  BY DEF BlocksIn
<1>4. s \in SpanIds /\ s \in Live(h) /\ H[<<"span", s>>] = Home(h.span[s])
  BY <1>1 DEF CentralSound, UsedSpans, Live, AtHome
<1>5. ASSUME NEW u \in SpanIds, a \in AtHome(h, ce, u, size) PROVE u = s
  <2>1. u \in Elems(ce[size]) /\ u \in Live(h) /\ InOrder(h.span[u], size)
    BY <1>5 DEF AtHome, CentralSound, UsedSpans
  <2>2. a \in BlocksOf(h.span[u], size)
    <3>1. h.span[u] \in Span /\ size \in Nat \ {0}
      BY HeapParts, SizesApart
    <3>2. Home(h.span[u]) \subseteq BlocksOf(h.span[u], size)
      BY <2>1, <3>1, HomeFacts
    <3> QED BY <1>5, <2>1, <3>2 DEF AtHome
  <2> QED BY <1>4, <2>1, <2>2, SizesApart, BlocksOfOneSpan
<1> HIDE DEF H, B
<1>6. PICK x \in Places : a \in H[x]
  BY <1>2, <1>3
<1>7. \/ a \in Callers(li, size) \/ a \in Home(h.span[s])
      \/ InList(ca, size, a) \/ OnWay(cl, size, a)
  BY <1>1, <1>4, <1>5, <1>6, PlacesAre DEF InList, OnWay
<1>8. \A x1, y \in Places : a \in H[x1] /\ a \in H[y] => x1 = y
  BY <1>2
<1>9. /\ ~(a \in Callers(li, size) /\ a \in Home(h.span[s]))
      /\ ~(a \in Callers(li, size) /\ InList(ca, size, a))
      /\ ~(a \in Callers(li, size) /\ OnWay(cl, size, a))
      /\ ~(a \in Home(h.span[s]) /\ InList(ca, size, a))
      /\ ~(a \in Home(h.span[s]) /\ OnWay(cl, size, a))
      /\ ~(InList(ca, size, a) /\ OnWay(cl, size, a))
  BY <1>1, <1>4, <1>8 DEF InList, OnWay
<1>10. ListsApart(ca, cl, size)
  <2> SUFFICES ASSUME NEW t \in Threads, NEW u \in Threads, t # u
               PROVE  /\ H[<<"list", t>>] \cap H[<<"list", u>>] = {}
                      /\ H[<<"way", t>>] \cap H[<<"way", u>>] = {}
    BY <1>1 DEF ListsApart
  <2> QED BY <1>1, <1>2
<1> QED BY <1>7, <1>9, <1>10 DEF OneOf

LEMMA EveryBlockCounted ==
    ASSUME IInv, NEW size \in BlockSizes, NEW s \in Elems(central[size])
    PROVE  EveryBlockInOnePlace(size, s)
<1> DEFINE span == heap.span[s]
<1>1. /\ heap \in HeapType /\ Divided(heap) /\ CentralSound(heap, central)
      /\ Booked(heap, central, cache, live, call, size) /\ live \in SUBSET Piece
      /\ s \in SpanIds /\ InOrder(span, size) /\ size \in Nat \ {0} /\ span \in Span
      /\ span.free_count < WholeBlocks(span, size)
  <2>1. heap \in HeapType /\ CentralSound(heap, central) /\ s \in UsedSpans(heap)
    BY DEF IInv, Sound, CentralSound
  <2>2. s \in SpanIds
    BY <2>1 DEF UsedSpans, Live
  <2> QED BY <2>1, <2>2, SizesApart, Parts, HeapParts DEF IInv, Sound, CentralSound, NoneFull
<1>2. ASSUME NEW a \in BlocksOf(span, size) PROVE Copies(a, size, s) = 1
  <2> DEFINE D3 == UNION {{<<t, i>> : i \in {j \in DOMAIN cache[t][size] :
                               cache[t][size][j] = a}} : t \in Threads}
             D4 == UNION {{<<t, i>> : i \in {j \in DOMAIN call[t].blocks :
                         call[t].size = size /\ call[t].blocks[j] = a}} : t \in Threads}
             list == [t \in Threads |-> cache[t][size]]
             way == [t \in Threads |-> IF call[t].size = size THEN call[t].blocks ELSE <<>>]
  <2>1. /\ OneOf(a \in Callers(live, size), a \in Home(span),
                 InList(cache, size, a), OnWay(call, size, a))
        /\ ListsApart(cache, call, size)
    BY <1>1, <1>2, BlockIsSomewhere
  <2>2. Cardinality({o \in live : o.at = a /\ o.size = size})
          = CountOf(a \in Callers(live, size))
    BY <1>1, CopiesOfCallers
  <2>3. Cardinality({i \in DOMAIN span.free_list : span.free_list[i] = a})
          = CountOf(a \in Home(span))
    <3> HIDE DEF span
    <3> QED BY <1>1, <1>2, CopiesAtHome
  <2>4. Cardinality(D3) = CountOf(InList(cache, size, a))
    <3>1. \A t \in Threads : list[t] = cache[t][size] /\ Distinct(list[t])
      BY DEF IInv, ListsDistinct
    <3>2. \A t, u \in Threads : t # u => Elems(list[t]) \cap Elems(list[u]) = {}
      BY <2>1, <3>1 DEF ListsApart
    <3>3. D3 = Spots(list, a)
      BY <3>1 DEF Spots
    <3>4. InList(cache, size, a) <=> \E t \in Threads : a \in Elems(list[t])
      BY <3>1 DEF InList
    <3> HIDE DEF list, D3
    <3>5. /\ (\E t \in Threads : a \in Elems(list[t])) => Cardinality(D3) = 1
          /\ (\A t \in Threads : a \notin Elems(list[t])) => Cardinality(D3) = 0
      BY <3>1, <3>2, <3>3, CopiesInLists
    <3> QED BY <3>4, <3>5 DEF CountOf
  <2>5. Cardinality(D4) = CountOf(OnWay(call, size, a))
    <3>0. Elems(<<>>) = {} /\ Distinct(<<>>)
      BY DEF Elems, Distinct
    <3>1. \A t \in Threads : Elems(way[t]) = Way(call, t, size) /\ Distinct(way[t])
      BY <3>0 DEF IInv, CallsSound, CallSound, Way
    <3>2. \A t, u \in Threads : t # u => Elems(way[t]) \cap Elems(way[u]) = {}
      BY <2>1, <3>1 DEF ListsApart
    <3>3. D4 = Spots(way, a)
      <4>1. ASSUME NEW t \in Threads
            PROVE  {j \in DOMAIN call[t].blocks : call[t].size = size /\ call[t].blocks[j] = a}
                     = {j \in DOMAIN way[t] : way[t][j] = a}
        <5>1. CASE call[t].size = size
          BY <5>1
        <5>2. CASE call[t].size # size
          <6>1. way[t] = <<>>
            BY <5>2
          <6> QED BY <5>2, <6>1
        <5> QED BY <5>1, <5>2
      <4> QED BY <4>1 DEF Spots
    <3>4. OnWay(call, size, a) <=> \E t \in Threads : a \in Elems(way[t])
      BY <3>1 DEF OnWay
    <3> HIDE DEF way, D4
    <3>5. /\ (\E t \in Threads : a \in Elems(way[t])) => Cardinality(D4) = 1
          /\ (\A t \in Threads : a \notin Elems(way[t])) => Cardinality(D4) = 0
      BY <3>1, <3>2, <3>3, CopiesInLists
    <3> QED BY <3>4, <3>5 DEF CountOf
  <2>6. Copies(a, size, s)
          = CountOf(a \in Callers(live, size)) + CountOf(a \in Home(span))
              + CountOf(InList(cache, size, a)) + CountOf(OnWay(call, size, a))
    BY <2>2, <2>3, <2>4, <2>5 DEF Copies
  <2> QED BY <2>1, <2>6 DEF OneOf, CountOf
<1>3. span.free_count = Cardinality({i \in DOMAIN span.free_list :
                                        span.free_list[i] \in BlocksOf(span, size)})
  <2> HIDE DEF span
  <2>1. span.free_count \in Nat /\ \A i \in 1..span.free_count : i \in DOMAIN span.free_list
    BY <1>1, HomeFacts
  <2>2. DOMAIN span.free_list \subseteq Nat \ {0}
    BY <1>1, HomeFacts
  <2>3. {i \in DOMAIN span.free_list : span.free_list[i] \in BlocksOf(span, size)}
          = 1..span.free_count
    BY <1>1, <2>1, <2>2 DEF InOrder
  <2>4. Cardinality(1..span.free_count) = span.free_count
    BY <2>1, FS_Interval
  <2> QED BY <2>3, <2>4
<1> QED BY <1>1, <1>2, <1>3 DEF EveryBlockInOnePlace

LEMMA IInvMemory == IInv => MemoryInOnePlace
<1> SUFFICES ASSUME IInv PROVE MemoryInOnePlace
  OBVIOUS
<1>1. WellFormed(heap)
  BY WellFormedWhenSound DEF IInv
<1>2. ASSUME NEW size \in BlockSizes, NEW k \in DOMAIN central[size]
      PROVE  EveryBlockInOnePlace(size, central[size][k])
  <2>1. central[size][k] \in Elems(central[size])
    BY DEF Elems
  <2> QED BY <2>1, EveryBlockCounted
<1> QED BY <1>1, <1>2 DEF MemoryInOnePlace

-----------------------------------------------------------------------------
(* Every piece in use lies in a span: a block of the central cache's, or   *)
(* the first bytes of a span that is no business of the central cache.     *)
LiesIn(h, ce, o, s) ==
    /\ s \in Live(h) /\ First(h.span[s]) <= o.at /\ o.at + o.size <= Beyond(h.span[s])
    /\ \/ o.size \in BlockSizes /\ s \in Elems(ce[o.size]) /\ o.at \in BlocksOf(h.span[s], o.size)
       \/ o.size \in LargeSizes /\ ~InCentral(ce, s) /\ o.at = First(h.span[s])

LEMMA PieceParts ==
    ASSUME NEW o \in Piece
    PROVE  /\ o.at \in Nat /\ o.size \in Nat \ {0}
           /\ o.size \in BlockSizes \/ o.size \in LargeSizes
           /\ \A p \in Piece : o.at = p.at /\ o.size = p.size => o = p
<1>1. o.at \in Addresses /\ o.size \in BlockSizes \cup LargeSizes
  BY DEF Piece
<1>2. o.at \in Nat
  BY <1>1, PageAssumption DEF Addresses
<1>3. o.size \in Nat \ {0}
  BY <1>1, SizeAssumption
<1>4. \A p \in Piece : o.at = p.at /\ o.size = p.size => o = p
  BY DEF Piece
<1> QED BY <1>1, <1>2, <1>3, <1>4

LEMMA PieceLies ==
    ASSUME IInv, NEW o \in live
    PROVE  \E s \in SpanIds : LiesIn(heap, central, o, s)
<1>1. /\ heap \in HeapType /\ CentralSound(heap, central) /\ o \in Piece
      /\ LargeSound(heap, central, live, call)
      /\ \A size \in BlockSizes : Booked(heap, central, cache, live, call, size)
  BY Parts DEF IInv, Sound
<1>2. CASE o.size \in BlockSizes
  <2> DEFINE size == o.size
  <2>1. Booked(heap, central, cache, live, call, size) /\ size \in BlockSizes
    BY <1>1, <1>2
  <2>2. o.at \in Callers(live, size)
    BY DEF Callers
  <2>3. o.at \in BlocksIn(heap, central, size)
    <3> DEFINE H == Held(heap, central, cache, live, call, size)
               B == BlocksIn(heap, central, size)
    <3> HIDE DEF size
    <3>1. <<"caller", 0>> \in Places /\ H[<<"caller", 0>>] = Callers(live, size)
      BY HeldAt
    <3>2. UNION {H[x] : x \in Places} = B
      BY <2>1 DEF Booked, Division
    <3> HIDE DEF H, B
    <3>3. o.at \in B
      BY <2>2, <3>1, <3>2
    <3> QED BY <3>3 DEF B
  <2>4. PICK s \in Elems(central[size]) : o.at \in BlocksOf(heap.span[s], size)
    BY <2>3 DEF BlocksIn
  <2>5. s \in Live(heap) /\ s \in SpanIds
    BY <1>1, <2>1 DEF CentralSound, UsedSpans, Live
  <2>6. First(heap.span[s]) <= o.at /\ o.at + size <= Beyond(heap.span[s])
    BY <1>1, <2>1, <2>4, <2>5, HeapParts, SizesApart, BlockInSpan
  <2> QED BY <1>2, <2>4, <2>5, <2>6 DEF LiesIn
<1>3. CASE o.size \in LargeSizes
  <2>1. o \in Large(live) /\ o.size \in Nat \ {0} /\ o.at \in Nat
    BY <1>1, <1>3, PieceParts DEF Large
  <2>2. PICK s \in SpanIds : Serves(heap, central, call, s, o)
    BY <1>1, <2>1 DEF LargeSound
  <2> DEFINE span == heap.span[s]
  <2>3. /\ s \in Live(heap) /\ ~InCentral(central, s)
        /\ First(span) = o.at /\ span.page_count = PagesFor(o.size)
    BY <2>2 DEF Serves, Aside, UsedSpans
  <2>4. Placed(span)
    BY <1>1, <2>2, HeapParts
  <2> HIDE DEF span
  <2>5. Beyond(span) = First(span) + SpanBytes(span) /\ SpanBytes(span) \in Nat
    BY <2>4, SpanEnds
  <2>6. o.size <= SpanBytes(span)
    BY <2>1, <2>3, PagesHold DEF SpanBytes
  <2>7. First(span) <= o.at /\ o.at + o.size <= Beyond(span)
    BY <2>1, <2>3, <2>5, <2>6
  <2> QED BY <1>3, <2>3, <2>7 DEF LiesIn, span
<1> QED BY <1>1, <1>2, <1>3, PieceParts

(* No two pieces in use overlap.                                           *)
NoneOverlap == \A o, p \in live : o # p => ~Promise!Overlap(o, p)

LEMMA IInvApart == IInv => NoneOverlap
<1> SUFFICES ASSUME IInv, NEW o \in live, NEW p \in live, o # p
             PROVE  ~Promise!Overlap(o, p)
  BY DEF NoneOverlap
<1>1. PICK s \in SpanIds : LiesIn(heap, central, o, s)
  BY PieceLies
<1>2. PICK u \in SpanIds : LiesIn(heap, central, p, u)
  BY PieceLies
<1>3. /\ heap \in HeapType /\ Divided(heap) /\ CentralSound(heap, central)
      /\ o \in Piece /\ p \in Piece
  BY Parts DEF IInv, Sound
<1>4. /\ o.at \in Nat /\ p.at \in Nat /\ o.size \in Nat \ {0} /\ p.size \in Nat \ {0}
      /\ o.at = p.at /\ o.size = p.size => o = p
  BY <1>3, PieceParts
<1>5. /\ Placed(heap.span[s]) /\ Placed(heap.span[u])
      /\ s \in Live(heap) /\ u \in Live(heap)
      /\ heap.span[s].page_count > 0 /\ heap.span[u].page_count > 0
  BY <1>1, <1>2, <1>3, HeapParts DEF LiesIn, Live
<1>6. o.at + o.size <= p.at \/ p.at + p.size <= o.at
  <2>1. CASE s # u
    <3>1. PagesOf(heap.span[s]) \cap PagesOf(heap.span[u]) = {}
      BY <1>3, <1>5, <2>1, OnePerPage
    <3>2. \/ Beyond(heap.span[s]) <= First(heap.span[u])
          \/ Beyond(heap.span[u]) <= First(heap.span[s])
      BY <1>5, <3>1, SpansApart
    <3>3. /\ First(heap.span[s]) \in Nat /\ Beyond(heap.span[s]) \in Nat
          /\ First(heap.span[u]) \in Nat /\ Beyond(heap.span[u]) \in Nat
      BY <1>5, SpanEnds
    <3>4. /\ First(heap.span[s]) <= o.at /\ o.at + o.size <= Beyond(heap.span[s])
          /\ First(heap.span[u]) <= p.at /\ p.at + p.size <= Beyond(heap.span[u])
      BY <1>1, <1>2 DEF LiesIn
    <3> QED BY <1>4, <3>2, <3>3, <3>4
  <2>2. CASE s = u
    <3>1. CASE o.size \in BlockSizes /\ p.size \in BlockSizes
      <4>1. /\ s \in Elems(central[o.size]) /\ s \in Elems(central[p.size])
            /\ o.at \in BlocksOf(heap.span[s], o.size) /\ p.at \in BlocksOf(heap.span[s], p.size)
        BY <1>1, <1>2, <2>2, <3>1, SizesApart DEF LiesIn
      <4>2. o.size = p.size
        BY <1>3, <3>1, <4>1 DEF CentralSound
      <4>3. o.at # p.at
        BY <1>4, <4>2
      <4> QED BY <1>4, <1>5, <4>1, <4>2, <4>3, BlocksApart
    <3>2. CASE o.size \in LargeSizes /\ p.size \in LargeSizes
      <4>1. o.at = p.at
        BY <1>1, <1>2, <2>2, <3>2, SizesApart DEF LiesIn
      <4>2. o = p
        BY <3>2, <4>1 DEF IInv, LargeSound, Large
      <4> QED BY <4>2
    <3>3. CASE o.size \in BlockSizes /\ p.size \in LargeSizes
      BY <1>1, <1>2, <2>2, <3>3, SizesApart DEF LiesIn, InCentral
    <3>4. CASE o.size \in LargeSizes /\ p.size \in BlockSizes
      BY <1>1, <1>2, <2>2, <3>4, SizesApart DEF LiesIn, InCentral
    <3> QED BY <1>3, <3>1, <3>2, <3>3, <3>4, PieceParts
  <2> QED BY <2>1, <2>2
<1> QED BY <1>4, <1>6 DEF Promise!Overlap, Promise!Bytes

(* A step takes a piece into use, gives one back, or is no business of the *)
(* callers.                                                                *)
LEMMA StepOnPieces ==
    ASSUME [Next]_vars
    PROVE  \/ \E o : live' = live \cup {o}
           \/ \E o \in live : live' = live \ {o}
           \/ live' = live
<1>1. ASSUME NEW t \in Allocating, NEW size \in BlockSizes,
             AllocateCached(t, size) \/ AllocateMiss(t, size)
      PROVE  (\E o : live' = live \cup {o}) \/ live' = live
  BY <1>1 DEF AllocateCached, AllocateMiss
<1>2. ASSUME NEW t \in Allocating, NEW size \in LargeSizes, AllocateLarge(t, size)
      PROVE  \E o : live' = live \cup {o}
  BY <1>2 DEF AllocateLarge
<1>3. ASSUME NEW t \in Threads, Fetch(t) \/ Grow(t)
      PROVE  \E o : live' = live \cup {o}
  BY <1>3 DEF Fetch, Grow, TakeBatch
<1>4. ASSUME NEW t \in Threads, StartGrow(t) \/ LockToReturn(t) \/ ReturnBlock(t) \/ FreeSpan(t)
      PROVE  live' = live
  BY <1>4 DEF StartGrow, LockToReturn, ReturnBlock, FreeSpan
<1>5. ASSUME NEW t \in Threads, NEW o \in live, Deallocate(t, o) \/ DeallocateLarge(t, o)
      PROVE  live' = live \ {o}
  BY <1>5 DEF Deallocate, DeallocateLarge
<1>6. CASE UNCHANGED vars
  BY <1>6 DEF vars
<1> QED BY <1>1, <1>2, <1>3, <1>4, <1>5, <1>6 DEF Next

LEMMA StepKeepsPromise ==
    ASSUME TypeOK, TypeOK', NoneOverlap', [Next]_vars
    PROVE  [\E o \in Promise!Piece : Promise!Allocate(o) \/ Promise!Deallocate(o)]_live
<1>1. live \subseteq Promise!Piece /\ live' \subseteq Promise!Piece
  BY DEF TypeOK, Piece, Promise!Piece
<1>2. ASSUME NEW o, o \notin live, live' = live \cup {o}
      PROVE  o \in Promise!Piece /\ Promise!Allocate(o)
  <2>1. \A p \in live : ~Promise!Overlap(o, p)
    BY <1>2 DEF NoneOverlap, Promise!Overlap, Promise!Bytes
  <2> QED BY <1>1, <1>2, <2>1 DEF Promise!Allocate
<1>3. ASSUME NEW o \in live, live' = live \ {o}
      PROVE  o \in Promise!Piece /\ Promise!Deallocate(o)
  BY <1>1, <1>3 DEF Promise!Deallocate
<1>4. ASSUME NEW o \in live, live' = live \cup {o} PROVE live' = live
  BY <1>4
<1> QED BY <1>2, <1>3, <1>4, StepOnPieces

-----------------------------------------------------------------------------
(* The inductive invariant: the spans divide the pages, the lists of the   *)
(* page cache, of the sizes and of the threads agree with them, and every  *)
(* block of a span is booked in one place, whatever step of FetchBatch,    *)
(* FreeBatch, AllocatePages or FreePages a thread is in.                   *)
THEOREM IInvariant == Spec => []IInv
BY InitIInv, NextIInv, PTL DEF Spec

(* The allocator's state has its type: FreeBatch and FreePages never put a *)
(* block or a span where none can be, and the map leads to spans.          *)
THEOREM TypeCorrect == Spec => []TypeOK
<1>1. IInv => TypeOK
  BY DEF IInv
<1> QED BY <1>1, IInvariant, PTL

(* No memory is lost and none is in two places: page_id_to_span_ and the   *)
(* free lists of the page cache agree with the spans, and every block is   *)
(* with one caller, in one list of one thread, on one way home or in the   *)
(* list of its span.                                                       *)
THEOREM BlocksInOnePlace == Spec => []MemoryInOnePlace
BY IInvariant, IInvMemory, PTL

(* conmem::allocate and conmem::deallocate keep the promise of Allocator:  *)
(* a piece given to a caller overlaps none in use.                         *)
THEOREM AllocatorImplemented == Spec => ImplementsAllocator
<1>1. Init => Promise!Init
  BY DEF Init, Promise!Init
<1>2. TypeOK /\ TypeOK' /\ NoneOverlap' /\ [Next]_vars
        => [\E o \in Promise!Piece : Promise!Allocate(o) \/ Promise!Deallocate(o)]_live
  BY StepKeepsPromise
<1> QED BY <1>1, <1>2, IInvariant, IInvApart, TypeCorrect, PTL
       DEF Spec, ImplementsAllocator, Promise!Spec
=============================================================================
