------------------------- MODULE SessionTurnsProofs -------------------------
(***************************************************************************)
(* Proofs about SessionTurns, for every set of histories, requests, forms  *)
(* and lineages and every size of the cache: its types, that what is       *)
(* forwarded keeps the content of every message, that lineages stay apart, *)
(* and that the recorded prefix is replayed.                               *)
(***************************************************************************)
EXTENDS SessionTurns, SequenceTheorems, FiniteSetTheorems, TLAPS

\* bs holds a form of each message of m, in its place.
Aligned(bs, m) ==
    /\ bs \in Seq(Bytes) /\ Len(bs) = Len(m)
    /\ \A i \in 1 .. Len(m) : bs[i].c = m[i]

\* What the cache may hold, and the caches there may be.
CacheEntry == {e \in [h : ToolResults, v : Bytes] : e.v.c = e.h /\ e.v.f # "raw"}
DistinctKeys(s) == \A i, j \in 1 .. Len(s) : s[i].h = s[j].h => i = j
Caches == {s \in Seq(CacheEntry) : DistinctKeys(s) /\ Len(s) <= MaxEntries}

-----------------------------------------------------------------------------
(* Numbers.                                                                 *)

LEMMA LeastNatural ==
    ASSUME NEW S \in SUBSET Nat, S # {} PROVE \E x \in S : \A y \in S : x <= y
<1> DEFINE R == {ss \in Nat \X Nat : ss[1] < ss[2]}
<1>1. IsWellFoundedOn(R, Nat)
  BY NatLessThanWellFounded DEF OpToRel
<1> HIDE DEF R
<1>2. PICK x \in S : \A y \in S : ~(<<y, x>> \in R)
  BY <1>1, WFMin
<1>3. ASSUME NEW y \in S PROVE x <= y
  <2>1. x \in Nat /\ y \in Nat
    OBVIOUS
  <2>2. CASE y < x
    <3>1. <<y, x>> \in R
      BY <2>1, <2>2 DEF R
    <3>. QED  BY <1>2, <3>1
  <2>. QED  BY <2>1, <2>2
<1>. QED  BY <1>3

LEMMA GreatestUpTo ==
    ASSUME NEW n \in Nat, NEW S \in SUBSET (0 .. n), S # {}
    PROVE  \E x \in S : \A y \in S : y <= x
<1> DEFINE T == {i \in 0 .. n : n - i \in S}
<1>1. PICK z \in S : TRUE
  OBVIOUS
<1>2. n - z \in 0 .. n /\ n - (n - z) = z
  OBVIOUS
<1>3. n - z \in T
  BY <1>2
<1>4. T \in SUBSET Nat
  OBVIOUS
<1>5. PICK k \in T : \A l \in T : k <= l
  BY <1>3, <1>4, LeastNatural
<1>6. n - k \in S /\ k \in 0 .. n
  OBVIOUS
<1>7. ASSUME NEW y \in S PROVE y <= n - k
  <2>1. n - y \in 0 .. n /\ n - (n - y) = y
    OBVIOUS
  <2>2. n - y \in T
    BY <2>1
  <2>3. k <= n - y
    BY <1>5, <2>2
  <2>. QED  BY <1>6, <2>1, <2>3
<1>. QED  BY <1>6, <1>7

LEMMA SmallerFacts ==
    ASSUME NEW a \in Int, NEW b \in Int
    PROVE  Smaller(a, b) \in {a, b} /\ Smaller(a, b) <= a /\ Smaller(a, b) <= b
BY DEF Smaller

-----------------------------------------------------------------------------
(* Sequences.                                                               *)

LEMMA ToSetIndex ==
    ASSUME NEW S, NEW s \in Seq(S)
    PROVE  ToSet(s) = {s[i] : i \in 1 .. Len(s)} /\ ToSet(s) \subseteq S
           /\ DOMAIN s = 1 .. Len(s) /\ Len(s) \in Nat
BY LenProperties DEF ToSet

LEMMA FrontFacts ==
    ASSUME NEW S, NEW s \in Seq(S), NEW k \in 0 .. Len(s)
    PROVE  /\ SubSeq(s, 1, k) \in Seq(S) /\ Len(SubSeq(s, 1, k)) = k
           /\ \A i \in 1 .. k : SubSeq(s, 1, k)[i] = s[i]
<1>1. Len(s) \in Nat /\ k \in Nat /\ \A i \in 1 .. k : s[i] \in S
  BY LenProperties, ElementOfSeq
<1>2. /\ SubSeq(s, 1, k) \in Seq(S)
      /\ Len(SubSeq(s, 1, k)) = IF 1 <= k THEN k - 1 + 1 ELSE 0
      /\ \A i \in 1 .. k - 1 + 1 : SubSeq(s, 1, k)[i] = s[1 + i - 1]
  BY <1>1, SubSeqProperties
<1>3. (IF 1 <= k THEN k - 1 + 1 ELSE 0) = k /\ k - 1 + 1 = k /\ \A i \in 1 .. k : 1 + i - 1 = i
  BY <1>1
<1>. QED  BY <1>2, <1>3

LEMMA BackFacts ==
    ASSUME NEW S, NEW s \in Seq(S), NEW k \in 0 .. Len(s)
    PROVE  /\ SubSeq(s, k + 1, Len(s)) \in Seq(S) /\ Len(SubSeq(s, k + 1, Len(s))) = Len(s) - k
           /\ \A i \in 1 .. Len(s) - k : SubSeq(s, k + 1, Len(s))[i] = s[k + i]
<1> DEFINE n == Len(s)
           t == SubSeq(s, k + 1, n)
<1>1. n \in Nat /\ k \in Nat /\ k <= n /\ \A i \in k + 1 .. n : s[i] \in S
  BY LenProperties, ElementOfSeq
<1>2. /\ t \in Seq(S) /\ Len(t) = IF k + 1 <= n THEN n - (k + 1) + 1 ELSE 0
      /\ \A i \in 1 .. n - (k + 1) + 1 : t[i] = s[(k + 1) + i - 1]
  BY <1>1, SubSeqProperties
<1>3. (IF k + 1 <= n THEN n - (k + 1) + 1 ELSE 0) = n - k /\ n - (k + 1) + 1 = n - k
  BY <1>1
<1>4. \A i \in 1 .. n - k : (k + 1) + i - 1 = k + i
  BY <1>1
<1>. QED  BY <1>2, <1>3, <1>4

\* The first k elements of s, then those of t from position k + 1.
Spliced(s, t, k) == SubSeq(s, 1, k) \o SubSeq(t, k + 1, Len(t))

LEMMA SpliceFacts ==
    ASSUME NEW s \in Seq(Bytes), NEW t \in Seq(Bytes), NEW k \in 0 .. Len(t), k <= Len(s)
    PROVE  /\ Spliced(s, t, k) \in Seq(Bytes) /\ Len(Spliced(s, t, k)) = Len(t)
           /\ \A i \in 1 .. Len(t) : /\ i <= k => Spliced(s, t, k)[i] = s[i]
                                     /\ ~(i <= k) => Spliced(s, t, k)[i] = t[i]
<1> DEFINE a == SubSeq(s, 1, k)
           b == SubSeq(t, k + 1, Len(t))
           u == a \o b
           n == Len(t)
<1>1. n \in Nat /\ k \in Nat /\ k <= n /\ Len(s) \in Nat /\ k \in 0 .. Len(s)
  BY LenProperties
<1>2. a \in Seq(Bytes) /\ Len(a) = k /\ \A i \in 1 .. k : a[i] = s[i]
  BY <1>1, FrontFacts
<1>3. b \in Seq(Bytes) /\ Len(b) = n - k /\ \A i \in 1 .. n - k : b[i] = t[k + i]
  BY BackFacts
<1> HIDE DEF a, b
<1>4. /\ u \in Seq(Bytes) /\ Len(u) = k + (n - k)
      /\ \A i \in 1 .. k + (n - k) : u[i] = IF i <= k THEN a[i] ELSE b[i - k]
  BY <1>2, <1>3, ConcatProperties
<1>5. k + (n - k) = n
  BY <1>1
<1> HIDE DEF u, n
<1>6. ASSUME NEW i \in 1 .. n PROVE u[i] = IF i <= k THEN s[i] ELSE t[i]
  <2>1. CASE i <= k
    <3>1. i \in 1 .. k
      BY <1>1, <2>1
    <3>. QED  BY <1>2, <1>4, <1>5, <2>1, <3>1
  <2>2. CASE ~(i <= k)
    <3>1. i - k \in 1 .. n - k /\ k + (i - k) = i
      BY <1>1, <2>2
    <3>2. b[i - k] = t[i]
      BY <1>3, <3>1
    <3>. QED  BY <1>4, <1>5, <2>2, <3>2
  <2>. QED  BY <2>1, <2>2
<1>. QED  BY <1>4, <1>5, <1>6 DEF u, n, a, b, Spliced

LEMMA RemoveAtFacts ==
    ASSUME NEW S, NEW s \in Seq(S), NEW i \in 1 .. Len(s)
    PROVE  /\ RemoveAt(s, i) \in Seq(S) /\ Len(RemoveAt(s, i)) = Len(s) - 1
           /\ \A j \in 1 .. Len(s) - 1 :
                 RemoveAt(s, i)[j] = IF j < i THEN s[j] ELSE s[j + 1]
<1> DEFINE n == Len(s)
           a == SubSeq(s, 1, i - 1)
           b == SubSeq(s, i + 1, n)
           u == a \o b
<1>1. n \in Nat /\ i \in Nat /\ 1 <= i /\ i <= n /\ i - 1 \in 0 .. n /\ i \in 0 .. n
  BY LenProperties
<1>2. a \in Seq(S) /\ Len(a) = i - 1 /\ \A j \in 1 .. i - 1 : a[j] = s[j]
  BY <1>1, FrontFacts
<1>3. b \in Seq(S) /\ Len(b) = n - i /\ \A j \in 1 .. n - i : b[j] = s[i + j]
  BY <1>1, BackFacts
<1> HIDE DEF a, b
<1>4. /\ u \in Seq(S) /\ Len(u) = (i - 1) + (n - i)
      /\ \A j \in 1 .. (i - 1) + (n - i) : u[j] = IF j <= i - 1 THEN a[j] ELSE b[j - (i - 1)]
  <2>1. /\ u \in Seq(S) /\ Len(u) = Len(a) + Len(b)
        /\ \A j \in 1 .. Len(a) + Len(b) : u[j] = IF j <= Len(a) THEN a[j] ELSE b[j - Len(a)]
    BY <1>2, <1>3, ConcatProperties
  <2>. QED  BY <1>2, <1>3, <2>1, Zenon
<1>5. (i - 1) + (n - i) = n - 1
  BY <1>1
<1>6. RemoveAt(s, i) = u
  BY DEF RemoveAt, a, b
<1> HIDE DEF u, n
<1>7. ASSUME NEW j \in 1 .. n - 1 PROVE u[j] = IF j < i THEN s[j] ELSE s[j + 1]
  <2>1. CASE j < i
    <3>1. j <= i - 1 /\ j \in 1 .. i - 1
      BY <1>1, <2>1
    <3>. QED  BY <1>2, <1>4, <1>5, <2>1, <3>1
  <2>2. CASE ~(j < i)
    <3>1. ~(j <= i - 1) /\ j - (i - 1) \in 1 .. n - i /\ i + (j - (i - 1)) = j + 1
      BY <1>1, <2>2
    <3>2. b[j - (i - 1)] = s[j + 1]
      BY <1>3, <3>1
    <3>. QED  BY <1>4, <1>5, <2>2, <3>1, <3>2
  <2>. QED  BY <2>1, <2>2
<1>. QED  BY <1>4, <1>5, <1>6, <1>7 DEF n

-----------------------------------------------------------------------------
(* Messages and their forms.                                                *)

LEMMA RawAligned == ASSUME NEW m \in Seq(Contents) PROVE Aligned(Raw(m), m)
<1>1. /\ Len(m) \in Nat /\ DOMAIN m = 1 .. Len(m) /\ \A i \in 1 .. Len(m) : m[i] \in Contents
  BY LenProperties
<1> DEFINE b == Raw(m)
<1>2. /\ b = [i \in 1 .. Len(m) |-> [c |-> m[i], f |-> "raw"]]
      /\ \A i \in 1 .. Len(m) : b[i] \in Bytes /\ b[i].c = m[i]
  BY <1>1 DEF Raw, Bytes, Forms
<1>3. b \in [1 .. Len(m) -> Bytes]
  BY <1>2
<1>4. b \in Seq(Bytes) /\ Len(b) = Len(m)
  BY <1>1, <1>3
<1>. QED  BY <1>2, <1>4 DEF Aligned

LEMMA AlignedLength ==
    ASSUME NEW m \in Seq(Contents), NEW b, Aligned(b, m)
    PROVE  /\ b \in Seq(Bytes) /\ Len(b) = Len(m) /\ Len(m) \in Nat
           /\ DOMAIN m = 1 .. Len(m) /\ DOMAIN b = 1 .. Len(m)
           /\ \A i \in 1 .. Len(m) : b[i] \in Bytes /\ b[i].c = m[i]
BY LenProperties DEF Aligned

\* Replaying the forms s of a record o, as far as the history m agrees with it.
LEMMA SpliceAligned ==
    ASSUME NEW m \in Seq(Contents), NEW o \in Seq(Contents), NEW s, Aligned(s, o),
           NEW t, Aligned(t, m), NEW k \in 0 .. Len(m), k <= Len(o),
           \A i \in 1 .. k : m[i] = o[i]
    PROVE  Aligned(Spliced(s, t, k), m)
<1> DEFINE u == Spliced(s, t, k)
<1>1. /\ s \in Seq(Bytes) /\ Len(s) = Len(o) /\ Len(o) \in Nat
      /\ \A i \in 1 .. Len(o) : s[i].c = o[i]
  BY AlignedLength
<1>2. /\ t \in Seq(Bytes) /\ Len(t) = Len(m) /\ Len(m) \in Nat
      /\ \A i \in 1 .. Len(m) : t[i].c = m[i]
  BY AlignedLength
<1>3. k \in 0 .. Len(t) /\ k <= Len(s)
  BY <1>1, <1>2
<1>4. /\ u \in Seq(Bytes) /\ Len(u) = Len(t)
      /\ \A i \in 1 .. Len(t) : (i <= k => u[i] = s[i]) /\ (~(i <= k) => u[i] = t[i])
  <2>1. s \in Seq(Bytes)
    BY <1>1
  <2>2. t \in Seq(Bytes)
    BY <1>2
  <2>3. k \in 0 .. Len(t)
    BY <1>3
  <2>4. k <= Len(s)
    BY <1>3
  <2>5. u \in Seq(Bytes)
    BY <2>1, <2>2, <2>3, <2>4, SpliceFacts
  <2>6. Len(u) = Len(t)
    BY <2>1, <2>2, <2>3, <2>4, SpliceFacts
  <2>7. \A i \in 1 .. Len(t) : (i <= k => u[i] = s[i]) /\ (~(i <= k) => u[i] = t[i])
    <3> SUFFICES ASSUME NEW i \in 1 .. Len(t)
                 PROVE  (i <= k => u[i] = s[i]) /\ (~(i <= k) => u[i] = t[i])
      OBVIOUS
    <3>. QED  BY <2>1, <2>2, <2>3, <2>4, SpliceFacts
  <2>. QED  BY <2>5, <2>6, <2>7
<1> HIDE DEF u
<1>5. ASSUME NEW i \in 1 .. Len(m) PROVE u[i].c = m[i]
  <2>1. CASE i <= k
    <3>1. i \in 1 .. k /\ i \in 1 .. Len(o)
      BY <1>1, <1>2, <2>1
    <3>. QED  BY <1>1, <1>2, <1>4, <2>1, <3>1
  <2>2. CASE ~(i <= k)
    BY <1>2, <1>4, <2>2
  <2>. QED  BY <2>1, <2>2
<1>. QED  BY <1>2, <1>4, <1>5 DEF Aligned, u

LEMMA ConcatAligned ==
    ASSUME NEW m \in Seq(Contents), NEW b, Aligned(b, m),
           NEW n \in Seq(Contents), NEW d, Aligned(d, n)
    PROVE  m \o n \in Seq(Contents) /\ Aligned(b \o d, m \o n)
<1> DEFINE p == Len(m)
           q == Len(n)
<1>1. p \in Nat /\ b \in Seq(Bytes) /\ Len(b) = p /\ \A i \in 1 .. p : b[i].c = m[i]
  BY AlignedLength
<1>2. q \in Nat /\ d \in Seq(Bytes) /\ Len(d) = q /\ \A i \in 1 .. q : d[i].c = n[i]
  BY AlignedLength
<1>3. /\ m \o n \in Seq(Contents) /\ Len(m \o n) = p + q
      /\ \A i \in 1 .. p + q : (m \o n)[i] = IF i <= p THEN m[i] ELSE n[i - p]
  BY ConcatProperties
<1>4. /\ b \o d \in Seq(Bytes) /\ Len(b \o d) = p + q
      /\ \A i \in 1 .. p + q : (b \o d)[i] = IF i <= p THEN b[i] ELSE d[i - p]
  <2>1. /\ b \o d \in Seq(Bytes) /\ Len(b \o d) = Len(b) + Len(d)
        /\ \A i \in 1 .. Len(b) + Len(d) : (b \o d)[i] = IF i <= Len(b) THEN b[i] ELSE d[i - Len(b)]
    <3> HIDE DEF p, q
    <3>. QED  BY <1>1, <1>2, ConcatProperties
  <2> HIDE DEF p, q
  <2>. QED  BY <1>1, <1>2, <2>1, Zenon
<1> DEFINE mn == m \o n
           bd == b \o d
<1> HIDE DEF p, q, mn, bd
<1>5. ASSUME NEW i \in 1 .. p + q PROVE bd[i].c = mn[i]
  <2>1. CASE i <= p
    <3>1. i \in 1 .. p
      BY <1>1, <2>1
    <3>. QED  BY <1>1, <1>3, <1>4, <2>1, <3>1 DEF mn, bd
  <2>2. CASE ~(i <= p)
    <3>1. i - p \in 1 .. q
      BY <1>1, <1>2, <2>2
    <3>. QED  BY <1>2, <1>3, <1>4, <2>2, <3>1 DEF mn, bd
  <2>. QED  BY <2>1, <2>2
<1>. QED  BY <1>3, <1>4, <1>5 DEF Aligned, mn, bd

LEMMA ResultsAligned ==
    ASSUME NEW m \in Seq(Contents), NEW w, Aligned(w, m), NEW frozen, NEW res \in Results(w, frozen)
    PROVE  Aligned(res, m)
<1>1. /\ w \in Seq(Bytes) /\ Len(w) = Len(m) /\ Len(m) \in Nat /\ DOMAIN w = 1 .. Len(m)
      /\ \A i \in 1 .. Len(m) : w[i] \in Bytes /\ w[i].c = m[i]
  BY AlignedLength
<1>2. PICK g \in [DOMAIN w -> Forms] : res = [i \in DOMAIN w |-> [c |-> w[i].c, f |-> g[i]]]
  BY DEF Results
<1>3. /\ res = [i \in 1 .. Len(m) |-> [c |-> w[i].c, f |-> g[i]]]
      /\ \A i \in 1 .. Len(m) : g[i] \in Forms /\ w[i].c \in Contents
  BY <1>1, <1>2 DEF Bytes
<1>4. \A i \in 1 .. Len(m) : res[i] \in Bytes /\ res[i].c = m[i]
  BY <1>1, <1>3 DEF Bytes
<1>5. res \in [1 .. Len(m) -> Bytes]
  BY <1>3, <1>4
<1>6. res \in Seq(Bytes) /\ Len(res) = Len(m)
  BY <1>1, <1>5
<1>. QED  BY <1>4, <1>6 DEF Aligned

LEMMA PrefixAgrees ==
    ASSUME NEW S, NEW s \in Seq(S), NEW t \in Seq(S)
    PROVE  /\ IsPrefix(s, s)
           /\ IsPrefix(s, t) => /\ Len(s) \in 0 .. Len(t)
                                /\ \A i \in 1 .. Len(s) : s[i] = t[i]
           /\ IsPrefix(s, t) /\ Len(s) = Len(t) => s = t
<1>1. Len(s) \in Nat /\ Len(t) \in Nat
  BY LenProperties
<1>2. IsPrefix(s, s)
  BY <1>1 DEF IsPrefix
<1>3. ASSUME IsPrefix(s, t)
      PROVE  Len(s) \in 0 .. Len(t) /\ \A i \in 1 .. Len(s) : s[i] = t[i]
  <2>1. Len(s) <= Len(t) /\ SubSeq(s, 1, Len(s)) = SubSeq(t, 1, Len(s))
    BY <1>3 DEF IsPrefix
  <2>2. Len(s) \in 0 .. Len(t) /\ Len(s) \in 0 .. Len(s)
    BY <1>1, <2>1
  <2>3. \A i \in 1 .. Len(s) : SubSeq(t, 1, Len(s))[i] = t[i]
    BY <2>2, FrontFacts
  <2>4. \A i \in 1 .. Len(s) : SubSeq(s, 1, Len(s))[i] = s[i]
    BY <2>2, FrontFacts
  <2>. QED  BY <2>1, <2>2, <2>3, <2>4
<1>4. ASSUME IsPrefix(s, t), Len(s) = Len(t) PROVE s = t
  BY <1>3, <1>4, SeqEqual
<1>. QED  BY <1>2, <1>3, <1>4

\* overlay_cached_prefix looks for the common prefix and finds one.
LEMMA CommonPrefixFacts ==
    ASSUME NEW m \in Seq(Contents), NEW t, t.orig \in Seq(Contents)
    PROVE  LET k == CommonPrefix(m, t)
           IN  k \in 0 .. Len(m) /\ k <= Len(t.orig) /\ \A i \in 1 .. k : m[i] = t.orig[i]
<1> DEFINE o == t.orig
           z == Smaller(Len(m), Len(o))
           agree == {k \in 0 .. z : Upto(m, k) = Upto(o, k)}
           k == CommonPrefix(m, t)
<1>1. Len(m) \in Nat /\ Len(o) \in Nat
  BY LenProperties
<1>2. z \in Nat /\ z <= Len(m) /\ z <= Len(o)
  BY <1>1, SmallerFacts
<1>3. Upto(m, 0) = <<>> /\ Upto(o, 0) = <<>>
  BY <1>1, SubSeqEmpty DEF Upto
<1>4. 0 \in agree
  BY <1>2, <1>3
<1>5. agree \in SUBSET (0 .. z)
  OBVIOUS
<1>6. k = CHOOSE x \in agree : \A y \in agree : y <= x
  BY DEF CommonPrefix
<1> HIDE DEF agree
<1>7. \E x \in agree : \A y \in agree : y <= x
  BY <1>2, <1>4, <1>5, GreatestUpTo
<1>8. k \in agree
  BY <1>6, <1>7
<1>9. k \in 0 .. z /\ SubSeq(m, 1, k) = SubSeq(o, 1, k)
  BY <1>8 DEF agree, Upto
<1> HIDE DEF k, z
<1>10. k \in 0 .. Len(m) /\ k \in 0 .. Len(o) /\ k <= Len(o)
  BY <1>1, <1>2, <1>9
<1>11. (\A i \in 1 .. k : SubSeq(m, 1, k)[i] = m[i]) /\ (\A i \in 1 .. k : SubSeq(o, 1, k)[i] = o[i])
  BY <1>10, FrontFacts
<1>. QED  BY <1>9, <1>10, <1>11 DEF k

\* What the overlay sends is a form of every message, and begins with the record.
LEMMA OverlayFacts ==
    ASSUME NEW m \in Seq(Contents), NEW t, t.orig \in Seq(Contents), Aligned(t.fwd, t.orig),
           NEW opt, Aligned(opt, m)
    PROVE  /\ Aligned(Overlay(opt, m, t), m)
           /\ IsPrefix(Upto(t.fwd, CommonPrefix(m, t)), Overlay(opt, m, t))
<1> DEFINE k == CommonPrefix(m, t)
           a == SubSeq(t.fwd, 1, k)
           u == Spliced(t.fwd, opt, k)
<1>1. k \in 0 .. Len(m) /\ k <= Len(t.orig) /\ \A i \in 1 .. k : m[i] = t.orig[i]
  BY CommonPrefixFacts
<1>2. /\ t.fwd \in Seq(Bytes) /\ Len(t.fwd) = Len(t.orig) /\ Len(t.orig) \in Nat
      /\ opt \in Seq(Bytes) /\ Len(opt) = Len(m) /\ Len(m) \in Nat
  BY AlignedLength
<1>3. Overlay(opt, m, t) = u
  BY <1>2 DEF Overlay, Upto, Spliced
<1> HIDE DEF k
<1>4. Aligned(u, m)
  BY <1>1, SpliceAligned
<1>5. IsPrefix(a, u)
  <2>1. k \in 0 .. Len(t.fwd) /\ k \in 0 .. Len(opt) /\ k <= Len(t.fwd)
    BY <1>1, <1>2
  <2>2. a \in Seq(Bytes) /\ Len(a) = k /\ \A i \in 1 .. k : a[i] = t.fwd[i]
    BY <1>2, <2>1, FrontFacts
  <2>3. /\ u \in Seq(Bytes) /\ Len(u) = Len(opt)
        /\ \A i \in 1 .. Len(opt) : (i <= k => u[i] = t.fwd[i]) /\ (~(i <= k) => u[i] = opt[i])
    <3>1. t.fwd \in Seq(Bytes)
      BY <1>2
    <3>2. opt \in Seq(Bytes)
      BY <1>2
    <3>3. k \in 0 .. Len(opt)
      BY <2>1
    <3>4. k <= Len(t.fwd)
      BY <2>1
    <3>. QED  BY <3>1, <3>2, <3>3, <3>4, SpliceFacts
  <2> HIDE DEF a, u
  <2>4. k \in 0 .. Len(u) /\ k \in 0 .. Len(a) /\ Len(a) <= Len(u)
    BY <1>1, <1>2, <2>1, <2>2, <2>3
  <2>5. /\ SubSeq(a, 1, k) \in Seq(Bytes) /\ Len(SubSeq(a, 1, k)) = k
        /\ \A i \in 1 .. k : SubSeq(a, 1, k)[i] = a[i]
    BY <2>2, <2>4, FrontFacts
  <2>6. /\ SubSeq(u, 1, k) \in Seq(Bytes) /\ Len(SubSeq(u, 1, k)) = k
        /\ \A i \in 1 .. k : SubSeq(u, 1, k)[i] = u[i]
    BY <2>3, <2>4, FrontFacts
  <2>7. \A i \in 1 .. k : u[i] = t.fwd[i]
    <3> SUFFICES ASSUME NEW i \in 1 .. k PROVE u[i] = t.fwd[i]
      OBVIOUS
    <3>1. i \in 1 .. Len(opt) /\ i <= k
      BY <1>1, <1>2
    <3>. QED  BY <2>3, <3>1
  <2>8. SubSeq(a, 1, k) = SubSeq(u, 1, k)
    <3>1. \A i \in 1 .. k : SubSeq(a, 1, k)[i] = SubSeq(u, 1, k)[i]
      BY <2>2, <2>5, <2>6, <2>7
    <3>. QED  BY <2>5, <2>6, <3>1, SeqEqual
  <2>. QED  BY <2>2, <2>4, <2>8 DEF IsPrefix
<1>. QED  BY <1>3, <1>4, <1>5 DEF a, k, Upto
-----------------------------------------------------------------------------
(* The cache.                                                               *)

LEMMA WithoutFacts ==
    ASSUME NEW s \in Seq(CacheEntry), DistinctKeys(s), NEW h
    PROVE  /\ Without(s, h) \in Seq(CacheEntry) /\ DistinctKeys(Without(s, h))
           /\ \A j \in 1 .. Len(Without(s, h)) : Without(s, h)[j].h # h
<1> DEFINE I == {i \in 1 .. Len(s) : s[i].h = h}
<1>1. Len(s) \in Nat
  BY LenProperties
<1>2. CASE I = {}
  <2>1. \A i \in 1 .. Len(s) : s[i].h # h
    BY <1>2
  <2>2. Without(s, h) = s
    BY <2>1 DEF Without, RemoveFirstMatch
  <2>. QED  BY <2>1, <2>2
<1>3. CASE I # {}
  <2> DEFINE i == Min(I)
             w == RemoveAt(s, i)
             n == Len(s)
  <2>1. I \in SUBSET Nat
    BY <1>1
  <2>2. i \in I
    <3> HIDE DEF I
    <3>1. \E x \in I : \A y \in I : x <= y
      BY <1>3, <2>1, LeastNatural
    <3>. QED  BY <3>1 DEF Min
  <2>3. \E j \in 1 .. Len(s) : s[j].h = h
    BY <1>3
  <2>4. Without(s, h) = w
    BY <1>3, <2>3 DEF Without, RemoveFirstMatch, SelectInSeq
  <2> HIDE DEF i
  <2>5. i \in 1 .. n /\ s[i].h = h
    BY <2>2
  <2>6. /\ w \in Seq(CacheEntry) /\ Len(w) = n - 1
        /\ \A j \in 1 .. n - 1 : w[j] = IF j < i THEN s[j] ELSE s[j + 1]
    BY <2>5, RemoveAtFacts
  <2> HIDE DEF w, n
  <2>7. n \in Nat /\ \A j, l \in 1 .. n : s[j].h = s[l].h => j = l
    BY <1>1 DEF n, DistinctKeys
  <2> DEFINE at(j) == IF j < i THEN j ELSE j + 1
  <2>8. ASSUME NEW j \in 1 .. n - 1 PROVE at(j) \in 1 .. n /\ at(j) # i /\ w[j] = s[at(j)]
    <3>1. at(j) \in 1 .. n /\ at(j) # i
      BY <2>5, <2>7
    <3>. QED  BY <2>6, <3>1
  <2>9. \A j, l \in 1 .. n - 1 : at(j) = at(l) => j = l
    BY <2>5, <2>7
  <2> HIDE DEF at
  <2>10. \A j \in 1 .. n - 1 : w[j].h # h
    BY <2>5, <2>7, <2>8
  <2>11. \A j, l \in 1 .. n - 1 : w[j].h = w[l].h => j = l
    BY <2>7, <2>8, <2>9
  <2>. QED  BY <2>4, <2>6, <2>10, <2>11 DEF DistinctKeys
<1>. QED  BY <1>2, <1>3

LEMMA StoreCompressedFacts ==
    ASSUME NEW s \in Caches, NEW h \in ToolResults, NEW v \in Bytes, v.c = h, v.f # "raw"
    PROVE  StoreCompressed(s, h, v) \in Caches
<1> DEFINE e == [h |-> h, v |-> v]
           w == Without(s, h)
           t == Append(w, e)
           n == Len(w)
           z == Smaller(Len(t), MaxEntries)
           k == n + 1 - z
           u == SubSeq(t, k + 1, Len(t))
<1>1. e \in CacheEntry /\ e.h = h
  BY DEF CacheEntry
<1>2. s \in Seq(CacheEntry) /\ DistinctKeys(s)
  BY DEF Caches
<1>3. w \in Seq(CacheEntry) /\ DistinctKeys(w) /\ \A j \in 1 .. n : w[j].h # h
  BY <1>2, WithoutFacts
<1> HIDE DEF e, w
<1>4. n \in Nat
  BY <1>3, LenProperties
<1>5. /\ t \in Seq(CacheEntry) /\ Len(t) = n + 1 /\ t[n + 1] = e
      /\ \A j \in 1 .. n : t[j] = w[j]
  BY <1>1, <1>3, AppendProperties
<1> HIDE DEF t, n
<1>6. z \in Nat /\ z <= n + 1 /\ z <= MaxEntries
  BY <1>4, <1>5, SmallerFacts, BoundsAssumption
<1>7. StoreCompressed(s, h, v) = u
  <2>1. 1 + Len(t) - z = k + 1
    <3> HIDE DEF z
    <3>. QED  BY <1>4, <1>5, <1>6
  <2>. QED  BY <2>1 DEF StoreCompressed, t, w, e
<1> HIDE DEF z
<1>8. k \in 0 .. Len(t) /\ Len(t) - k = z
  BY <1>4, <1>5, <1>6
<1> HIDE DEF k
<1>9. u \in Seq(CacheEntry) /\ Len(u) = Len(t) - k /\ \A i \in 1 .. Len(t) - k : u[i] = t[k + i]
  BY <1>5, <1>8, BackFacts
<1> HIDE DEF u
<1>10. ASSUME NEW i \in 1 .. n + 1, NEW j \in 1 .. n + 1, t[i].h = t[j].h PROVE i = j
  <2>1. \A l \in 1 .. n + 1 : l \in 1 .. n \/ l = n + 1
    BY <1>4
  <2>2. CASE i \in 1 .. n /\ j \in 1 .. n
    BY <1>3, <1>5, <1>10, <2>2 DEF DistinctKeys, n
  <2>3. CASE i \in 1 .. n /\ j = n + 1
    BY <1>1, <1>3, <1>5, <1>10, <2>3
  <2>4. CASE j \in 1 .. n /\ i = n + 1
    BY <1>1, <1>3, <1>5, <1>10, <2>4
  <2>. QED  BY <2>1, <2>2, <2>3, <2>4
<1>11. ASSUME NEW i \in 1 .. z, NEW j \in 1 .. z, u[i].h = u[j].h PROVE i = j
  <2>1. k + i \in 1 .. n + 1 /\ k + j \in 1 .. n + 1 /\ k \in Nat
    BY <1>4, <1>5, <1>6, <1>8
  <2>2. u[i] = t[k + i] /\ u[j] = t[k + j]
    BY <1>8, <1>9
  <2>3. k + i = k + j
    BY <1>10, <1>11, <2>1, <2>2
  <2>. QED  BY <2>1, <2>3
<1>12. DistinctKeys(u) /\ Len(u) <= MaxEntries
  BY <1>6, <1>8, <1>9, <1>11 DEF DistinctKeys
<1>. QED  BY <1>7, <1>9, <1>12 DEF Caches
\* The cache after i messages, from what f says of it after i - 1.
Stored(m, vs, P, f, i) ==
    IF i = 0 THEN cache
    ELSE IF i \in P THEN StoreCompressed(f[i - 1], m[i], vs[i]) ELSE f[i - 1]

LEMMA StoredLocal ==
    ASSUME NEW m, NEW vs, NEW P, NEW f, NEW g, NEW i, i = 0 \/ f[i - 1] = g[i - 1]
    PROVE  Stored(m, vs, P, f, i) = Stored(m, vs, P, g, i)
BY DEF Stored

Solves(m, vs, P, n, f) == f = [i \in 0 .. n |-> Stored(m, vs, P, f, i)]

\* The recursion that defines StoreAll has a solution.
LEMMA StoreAllDefined ==
    ASSUME NEW m, NEW vs, NEW P, NEW n \in Nat
    PROVE  \E f : Solves(m, vs, P, n, f)
<1> DEFINE A(k) == \E f : f = [i \in 0 .. k |-> Stored(m, vs, P, f, i)]
           B == {k \in Nat : ~A(k)}
<1>1. A(0)
  <2> DEFINE f == [i \in 0 .. 0 |-> cache]
  <2>1. \A i \in 0 .. 0 : i = 0
    OBVIOUS
  <2>2. f = [i \in 0 .. 0 |-> Stored(m, vs, P, f, i)]
    BY <2>1 DEF Stored
  <2>. QED  BY <2>2
<1>2. ASSUME NEW k \in Nat, A(k) PROVE A(k + 1)
  <2>1. PICK f : f = [i \in 0 .. k |-> Stored(m, vs, P, f, i)]
    BY <1>2
  <2> DEFINE g == [i \in 0 .. k + 1 |-> IF i = k + 1 THEN Stored(m, vs, P, f, k + 1) ELSE f[i]]
  <2>2. \A i \in 0 .. k + 1 : i = k + 1 \/ (i \in 0 .. k /\ i # k + 1)
    OBVIOUS
  <2>3. \A i \in 0 .. k : i \in 0 .. k + 1 /\ i # k + 1
    OBVIOUS
  <2>4. \A i \in 0 .. k : g[i] = f[i]
    BY <2>3
  <2>5. \A i \in 0 .. k + 1 : i = 0 \/ i - 1 \in 0 .. k
    OBVIOUS
  <2>6. ASSUME NEW i \in 0 .. k + 1 PROVE Stored(m, vs, P, f, i) = Stored(m, vs, P, g, i)
    <3>1. i = 0 \/ f[i - 1] = g[i - 1]
      BY <2>4, <2>5
    <3> HIDE DEF g
    <3>. QED  BY <3>1, StoredLocal
  <2>7. ASSUME NEW i \in 0 .. k + 1 PROVE g[i] = Stored(m, vs, P, f, i)
    <3>1. CASE i = k + 1
      BY <3>1
    <3>2. CASE i \in 0 .. k /\ i # k + 1
      BY <2>1, <2>4, <3>2
    <3>. QED  BY <2>2, <3>1, <3>2
  <2>8. g = [i \in 0 .. k + 1 |-> g[i]]
    OBVIOUS
  <2> HIDE DEF g
  <2>9. g = [i \in 0 .. k + 1 |-> Stored(m, vs, P, g, i)]
    BY <2>6, <2>7, <2>8
  <2>. QED  BY <2>9
<1> HIDE DEF A
<1>3. ASSUME B # {} PROVE FALSE
  <2>1. B \in SUBSET Nat
    OBVIOUS
  <2>2. PICK k \in B : \A l \in B : k <= l
    <3> HIDE DEF B
    <3>. QED  BY <1>3, <2>1, LeastNatural
  <2>3. k \in Nat /\ ~A(k)
    BY <2>2
  <2>4. k # 0
    BY <1>1, <2>3
  <2>5. k - 1 \in Nat /\ ~(k <= k - 1) /\ (k - 1) + 1 = k
    BY <2>3, <2>4
  <2>6. A(k - 1)
    BY <2>2, <2>5
  <2>. QED  BY <1>2, <2>3, <2>5, <2>6
<1>4. A(n)
  BY <1>3
<1>. QED  BY <1>4 DEF A, Solves

\* Storing forms of tool results, one after the other, keeps the cache in order.
LEMMA StoreAllFacts ==
    ASSUME cache \in Caches, NEW m \in Seq(Contents), NEW vs, NEW P,
           \A i \in 1 .. Len(m) : i \in P =>
               m[i] \in ToolResults /\ vs[i] \in Bytes /\ vs[i].c = m[i] /\ vs[i].f # "raw"
    PROVE  StoreAll(m, vs, P) \in Caches
<1> DEFINE n == Len(m)
           f == CHOOSE after : Solves(m, vs, P, n, after)
<1>1. n \in Nat
  BY LenProperties
<1>2. StoreAll(m, vs, P) = f[n]
  BY DEF StoreAll, Stored, Solves
<1>3. f = [i \in 0 .. n |-> Stored(m, vs, P, f, i)]
  <2> HIDE DEF n
  <2>1. \E g : Solves(m, vs, P, n, g)
    BY <1>1, StoreAllDefined
  <2>2. Solves(m, vs, P, n, f)
    BY <2>1
  <2> HIDE DEF f
  <2>. QED  BY <2>2 DEF Solves
<1> HIDE DEF f, n
<1>4. \A i \in 0 .. n : f[i] = Stored(m, vs, P, f, i)
  BY <1>3
<1> DEFINE B == {i \in 0 .. n : f[i] \notin Caches}
<1>5. ASSUME B # {} PROVE FALSE
  <2>1. B \in SUBSET Nat
    BY <1>1
  <2>2. PICK k \in B : \A l \in B : k <= l
    <3> HIDE DEF B
    <3>. QED  BY <1>5, <2>1, LeastNatural
  <2>3. k \in 0 .. n /\ f[k] \notin Caches
    BY <2>2
  <2>4. k # 0
    BY <1>4, <2>3 DEF Stored
  <2>5. k - 1 \in 0 .. n /\ ~(k <= k - 1) /\ k \in 1 .. n
    BY <1>1, <2>3, <2>4
  <2>6. f[k - 1] \in Caches
    BY <2>2, <2>5
  <2>7. CASE k \in P
    <3>1. m[k] \in ToolResults /\ vs[k] \in Bytes /\ vs[k].c = m[k] /\ vs[k].f # "raw"
      BY <2>5, <2>7 DEF n
    <3>2. f[k] = StoreCompressed(f[k - 1], m[k], vs[k])
      BY <1>4, <2>3, <2>4, <2>7 DEF Stored
    <3>. QED  BY <2>3, <2>6, <3>1, <3>2, StoreCompressedFacts
  <2>8. CASE k \notin P
    BY <1>4, <2>3, <2>4, <2>6, <2>8 DEF Stored
  <2>. QED  BY <2>7, <2>8
<1>6. n \in 0 .. n
  BY <1>1
<1>. QED  BY <1>2, <1>5, <1>6
LEMMA CachedFacts ==
    ASSUME cache \in Caches, NEW h \in Keys
    PROVE  h \in ToolResults /\ Cached(h) \in Bytes /\ Cached(h).c = h /\ Cached(h).f # "raw"
<1>1. cache \in Seq(CacheEntry)
  BY DEF Caches
<1>2. ToSet(cache) \subseteq CacheEntry /\ ToSet(cache) = {cache[i] : i \in DOMAIN cache}
  BY <1>1, ToSetIndex DEF ToSet
<1>3. \E e \in ToSet(cache) : e.h = h
  BY <1>2 DEF Keys
<1> DEFINE e == CHOOSE x \in ToSet(cache) : x.h = h
<1>4. e \in ToSet(cache) /\ e.h = h
  BY <1>3
<1>5. Cached(h) = e.v
  BY DEF Cached
<1> HIDE DEF e
<1>. QED  BY <1>2, <1>4, <1>5 DEF CacheEntry

LEMMA ApplyCachedFacts ==
    ASSUME cache \in Caches, NEW m \in Seq(Contents)
    PROVE  Aligned(ApplyCached(m), m) /\ Touched(m) \in Caches
<1> DEFINE w == ApplyCached(m)
           P == {i \in DOMAIN m : m[i] \in Keys}
<1>1. Len(m) \in Nat /\ DOMAIN m = 1 .. Len(m) /\ \A i \in 1 .. Len(m) : m[i] \in Contents
  BY LenProperties
<1>2. w = [i \in 1 .. Len(m) |-> IF m[i] \in Keys THEN Cached(m[i]) ELSE [c |-> m[i], f |-> "raw"]]
  BY <1>1 DEF ApplyCached
<1>3. \A x \in Contents : [c |-> x, f |-> "raw"] \in Bytes /\ [c |-> x, f |-> "raw"].c = x
  BY DEF Bytes, Forms
<1> HIDE DEF w
<1>4. ASSUME NEW i \in 1 .. Len(m) PROVE w[i] \in Bytes /\ w[i].c = m[i]
  <2>1. CASE m[i] \in Keys
    <3>1. w[i] = Cached(m[i])
      BY <1>2, <2>1
    <3>. QED  BY <2>1, <3>1, CachedFacts
  <2>2. CASE m[i] \notin Keys
    BY <1>1, <1>2, <1>3, <2>2
  <2>. QED  BY <2>1, <2>2
<1>5. w \in [1 .. Len(m) -> Bytes]
  BY <1>2, <1>4
<1>6. w \in Seq(Bytes) /\ Len(w) = Len(m)
  BY <1>1, <1>5
<1>7. Aligned(w, m)
  BY <1>4, <1>6 DEF Aligned
<1>8. ASSUME NEW i \in 1 .. Len(m), i \in P
      PROVE  m[i] \in ToolResults /\ w[i] \in Bytes /\ w[i].c = m[i] /\ w[i].f # "raw"
  <2>1. m[i] \in Keys
    BY <1>8
  <2>2. w[i] = Cached(m[i])
    BY <1>2, <2>1
  <2>. QED  BY <2>1, <2>2, CachedFacts
<1>9. Touched(m) = StoreAll(m, w, P)
  BY DEF Touched, w
<1> HIDE DEF P
<1>10. StoreAll(m, w, P) \in Caches
  BY <1>8, StoreAllFacts
<1>. QED  BY <1>7, <1>9, <1>10 DEF w

LEMMA UpdateFacts ==
    ASSUME cache \in Caches, stable \subseteq ToolResults,
           NEW m \in Seq(Contents), NEW res, Aligned(res, m)
    PROVE  UpdatedCache(m, res) \in Caches /\ UpdatedStable(m, res) \subseteq ToolResults
<1> DEFINE P == {i \in DOMAIN m : m[i] \in ToolResults /\ res[i].f # "raw"}
<1>1. DOMAIN m = 1 .. Len(m) /\ \A i \in 1 .. Len(m) : res[i] \in Bytes /\ res[i].c = m[i]
  BY AlignedLength
<1>2. \A i \in 1 .. Len(m) : i \in P =>
          m[i] \in ToolResults /\ res[i] \in Bytes /\ res[i].c = m[i] /\ res[i].f # "raw"
  BY <1>1
<1>3. UpdatedCache(m, res) = StoreAll(m, res, P)
  BY DEF UpdatedCache
<1> HIDE DEF P
<1>4. StoreAll(m, res, P) \in Caches
  BY <1>2, StoreAllFacts
<1>5. UpdatedStable(m, res) \subseteq ToolResults
  BY DEF UpdatedStable
<1>. QED  BY <1>3, <1>4, <1>5

\* The last message is never frozen.
LEMMA FrozenFacts ==
    ASSUME NEW m \in Seq(Contents), NEW k \in Int
    PROVE  /\ Smaller(k, ComputeFrozenCount(m)) \in Int
           /\ Smaller(k, ComputeFrozenCount(m)) < Len(m)
<1> DEFINE U == {i \in DOMAIN m : m[i] \in ToolResults \ (Keys \cup stable)}
           first == CHOOSE i \in U : \A j \in U : i <= j
           run == IF U = {} THEN Len(m) ELSE first - 1
           z == Smaller(run, Len(m) - 1)
<1>1. Len(m) \in Nat /\ DOMAIN m = 1 .. Len(m)
  BY LenProperties
<1>2. U \in SUBSET Nat
  BY <1>1
<1>3. ComputeFrozenCount(m) = z
  BY DEF ComputeFrozenCount
<1> HIDE DEF U
<1>4. run \in Int
  <2>1. CASE U = {}
    BY <1>1, <2>1
  <2>2. CASE U # {}
    <3>1. \E i \in U : \A j \in U : i <= j
      BY <1>2, <2>2, LeastNatural
    <3>2. first \in U
      BY <3>1
    <3> HIDE DEF first
    <3>. QED  BY <1>2, <2>2, <3>2
  <2>. QED  BY <2>1, <2>2
<1> HIDE DEF run
<1>5. z \in Int /\ z <= Len(m) - 1
  BY <1>1, <1>4, SmallerFacts
<1> HIDE DEF z
<1>6. Smaller(k, z) \in Int /\ Smaller(k, z) <= z
  BY <1>5, SmallerFacts
<1>. QED  BY <1>1, <1>3, <1>5, <1>6

\* A cache with distinct keys has as many keys as entries.
LEMMA KeyCount ==
    ASSUME NEW s \in Seq(CacheEntry), DistinctKeys(s)
    PROVE  Cardinality({s[i].h : i \in DOMAIN s}) = Len(s)
<1> DEFINE K == {s[i].h : i \in 1 .. Len(s)}
           g == [i \in 1 .. Len(s) |-> s[i].h]
<1>1. Len(s) \in Nat /\ DOMAIN s = 1 .. Len(s)
  BY LenProperties
<1>2. g \in Bijection(1 .. Len(s), K)
  BY DEF DistinctKeys, Bijection, Injection, Surjection, IsInjective
<1>3. ExistsBijection(1 .. Len(s), K)
  BY <1>2 DEF ExistsBijection
<1>4. IsFiniteSet(1 .. Len(s)) /\ Cardinality(1 .. Len(s)) = Len(s)
  BY <1>1, FS_Interval
<1>5. Cardinality(K) = Len(s)
  BY <1>3, <1>4, FS_Bijection
<1>. QED  BY <1>1, <1>5
-----------------------------------------------------------------------------
(* The trackers and the lineages.                                           *)

LEMMA RemoveFirstFacts ==
    ASSUME NEW s \in Seq(Requests), IsInjective(s), NEW t
    PROVE  /\ RemoveFirst(s, t) \in Seq(Requests) /\ IsInjective(RemoveFirst(s, t))
           /\ ToSet(RemoveFirst(s, t)) = ToSet(s) \ {t}
<1> DEFINE I == {i \in 1 .. Len(s) : s[i] = t}
           n == Len(s)
<1>1. n \in Nat /\ DOMAIN s = 1 .. n /\ ToSet(s) = {s[i] : i \in 1 .. n}
  BY ToSetIndex
<1>2. CASE I = {}
  <2>1. \A i \in 1 .. n : s[i] # t
    BY <1>2
  <2>2. RemoveFirst(s, t) = s
    BY <2>1 DEF RemoveFirst
  <2>. QED  BY <1>1, <2>1, <2>2
<1>3. CASE I # {}
  <2> DEFINE i == Min(I)
             w == RemoveAt(s, i)
  <2>1. I \in SUBSET Nat
    BY <1>1
  <2>2. i \in I
    <3> HIDE DEF I
    <3>1. \E x \in I : \A y \in I : x <= y
      BY <1>3, <2>1, LeastNatural
    <3>. QED  BY <3>1 DEF Min
  <2>3. \E j \in 1 .. Len(s) : s[j] = t
    BY <1>3
  <2>4. RemoveFirst(s, t) = w
    BY <1>3, <2>3 DEF RemoveFirst, SelectInSeq
  <2> HIDE DEF i
  <2>5. i \in 1 .. n /\ s[i] = t
    BY <2>2
  <2>6. /\ w \in Seq(Requests) /\ Len(w) = n - 1
        /\ \A j \in 1 .. n - 1 : w[j] = IF j < i THEN s[j] ELSE s[j + 1]
    BY <2>5, RemoveAtFacts
  <2> HIDE DEF w, n
  <2>7. \A j, l \in 1 .. n : s[j] = s[l] => j = l
    BY <1>1 DEF IsInjective
  <2>8. DOMAIN w = 1 .. n - 1 /\ ToSet(w) = {w[j] : j \in 1 .. n - 1}
    BY <2>6, ToSetIndex
  <2> DEFINE at(j) == IF j < i THEN j ELSE j + 1
             back(j) == IF j < i THEN j ELSE j - 1
  <2>9. ASSUME NEW j \in 1 .. n - 1 PROVE at(j) \in 1 .. n /\ at(j) # i /\ w[j] = s[at(j)]
    <3>1. at(j) \in 1 .. n /\ at(j) # i
      BY <1>1, <2>5
    <3>. QED  BY <2>6, <3>1
  <2>10. \A j, l \in 1 .. n - 1 : at(j) = at(l) => j = l
    BY <1>1, <2>5
  <2>11. \A j \in 1 .. n : j # i => back(j) \in 1 .. n - 1 /\ at(back(j)) = j
    BY <1>1, <2>5
  <2> HIDE DEF at, back
  <2>12. IsInjective(w)
    <3>1. \A j, l \in 1 .. n - 1 : w[j] = w[l] => j = l
      BY <2>7, <2>9, <2>10
    <3>. QED  BY <2>8, <3>1 DEF IsInjective
  <2>13. ASSUME NEW x \in ToSet(w) PROVE x \in ToSet(s) \ {t}
    <3>1. PICK j \in 1 .. n - 1 : x = w[j]
      BY <2>8
    <3>2. at(j) \in 1 .. n /\ at(j) # i /\ x = s[at(j)]
      BY <2>9, <3>1
    <3>. QED  BY <1>1, <2>5, <2>7, <3>2
  <2>14. ASSUME NEW x \in ToSet(s) \ {t} PROVE x \in ToSet(w)
    <3>1. PICK j \in 1 .. n : x = s[j]
      BY <1>1
    <3>2. j # i
      BY <2>5, <3>1
    <3>3. back(j) \in 1 .. n - 1 /\ at(back(j)) = j
      BY <2>11, <3>2
    <3>4. w[back(j)] = x
      BY <2>9, <3>1, <3>3
    <3>. QED  BY <2>8, <3>3, <3>4
  <2>15. ToSet(w) = ToSet(s) \ {t}
    BY <2>13, <2>14
  <2>. QED  BY <2>4, <2>6, <2>12, <2>15
<1>. QED  BY <1>2, <1>3

\* A tracker that is used goes to the recent end.
LEMMA MoveToEnd ==
    ASSUME NEW s \in Seq(Requests), IsInjective(s), NEW t \in Requests
    PROVE  /\ Append(RemoveFirst(s, t), t) \in Seq(Requests)
           /\ IsInjective(Append(RemoveFirst(s, t), t))
           /\ ToSet(Append(RemoveFirst(s, t), t)) = ToSet(s) \cup {t}
<1> DEFINE w == RemoveFirst(s, t)
           u == Append(w, t)
           n == Len(w)
<1>1. w \in Seq(Requests) /\ IsInjective(w) /\ ToSet(w) = ToSet(s) \ {t}
  BY RemoveFirstFacts
<1> HIDE DEF w
<1>2. n \in Nat /\ DOMAIN w = 1 .. n /\ ToSet(w) = {w[i] : i \in 1 .. n}
  BY <1>1, ToSetIndex
<1>3. /\ u \in Seq(Requests) /\ Len(u) = n + 1 /\ u[n + 1] = t /\ \A j \in 1 .. n : u[j] = w[j]
  BY <1>1, AppendProperties
<1> HIDE DEF u, n
<1>4. DOMAIN u = 1 .. n + 1 /\ ToSet(u) = {u[i] : i \in 1 .. n + 1}
  BY <1>3, ToSetIndex
<1>5. /\ \A l \in 1 .. n + 1 : l \in 1 .. n \/ l = n + 1
      /\ \A l \in 1 .. n : l \in 1 .. n + 1 /\ l # n + 1
      /\ n + 1 \in 1 .. n + 1
  BY <1>2
<1>6. \A i \in 1 .. n : w[i] # t
  BY <1>1, <1>2
<1>7. ASSUME NEW i \in 1 .. n + 1, NEW j \in 1 .. n + 1, u[i] = u[j] PROVE i = j
  BY <1>1, <1>2, <1>3, <1>5, <1>6, <1>7 DEF IsInjective
<1>8. ToSet(u) = ToSet(w) \cup {t}
  BY <1>2, <1>3, <1>4, <1>5
<1>. QED  BY <1>1, <1>3, <1>4, <1>7, <1>8 DEF IsInjective, u, w

LEMMA KeptFacts ==
    ASSUME alive \in Seq(Requests), IsInjective(alive), NEW n \in 0 .. Len(alive)
    PROVE  Kept(n) \in Seq(Requests) /\ IsInjective(Kept(n)) /\ ToSet(Kept(n)) \subseteq ToSet(alive)
<1> DEFINE z == Len(alive)
           u == Kept(n)
<1>1. z \in Nat /\ DOMAIN alive = 1 .. z /\ ToSet(alive) = {alive[i] : i \in 1 .. z}
  BY ToSetIndex
<1>2. u \in Seq(Requests) /\ Len(u) = z - n /\ \A i \in 1 .. z - n : u[i] = alive[n + i]
  BY BackFacts DEF Kept
<1> HIDE DEF u
<1>3. DOMAIN u = 1 .. z - n /\ ToSet(u) = {u[i] : i \in 1 .. z - n}
  BY <1>2, ToSetIndex
<1>4. n \in 0 .. z
  OBVIOUS
<1> HIDE DEF z
<1>5. \A i \in 1 .. z - n : n + i \in 1 .. z
  BY <1>1, <1>4
<1>6. \A i, j \in 1 .. z - n : n + i = n + j => i = j
  BY <1>1, <1>4
<1>7. \A i, j \in 1 .. z : alive[i] = alive[j] => i = j
  BY <1>1 DEF IsInjective
<1>8. \A i, j \in 1 .. z - n : u[i] = u[j] => i = j
  BY <1>2, <1>5, <1>6, <1>7
<1>9. \A x \in ToSet(u) : x \in ToSet(alive)
  BY <1>1, <1>2, <1>3, <1>5
<1>. QED  BY <1>2, <1>3, <1>8, <1>9 DEF IsInjective, u

\* Among the lineages that a history continues there is a longest one.
LEMMA BestLineageFacts ==
    ASSUME NEW D, NEW fam \in [D -> Seq(Contents)], NEW m \in Seq(Contents),
           \E k \in D : Continues(fam[k], m)
    PROVE  /\ BestLineage(fam, m) \in D /\ Continues(fam[BestLineage(fam, m)], m)
           /\ \A l \in D : Continues(fam[l], m) => Len(fam[l]) <= Len(fam[BestLineage(fam, m)])
<1> DEFINE C == {k \in D : Continues(fam[k], m)}
           L == {Len(fam[k]) : k \in C}
           Best(k) == \A l \in D : Continues(fam[l], m) => Len(fam[l]) <= Len(fam[k])
<1>1. Len(m) \in Nat /\ DOMAIN fam = D
  BY LenProperties
<1>2. ASSUME NEW k \in C PROVE Len(fam[k]) \in 0 .. Len(m)
  <2>1. fam[k] \in Seq(Contents) /\ IsPrefix(fam[k], m)
    BY DEF Continues
  <2>. QED  BY <2>1, PrefixAgrees
<1>3. L \in SUBSET (0 .. Len(m))
  BY <1>2
<1>4. L # {}
  OBVIOUS
<1>5. PICK x \in L : \A y \in L : y <= x
  <2> HIDE DEF L
  <2>. QED  BY <1>1, <1>3, <1>4, GreatestUpTo
<1>6. PICK k \in C : x = Len(fam[k])
  OBVIOUS
<1>7. Best(k)
  BY <1>5, <1>6
<1>8. BestLineage(fam, m) = CHOOSE j \in C : Best(j)
  BY <1>1 DEF BestLineage
<1> HIDE DEF Best
<1>9. BestLineage(fam, m) \in C /\ Best(BestLineage(fam, m))
  BY <1>7, <1>8
<1>. QED  BY <1>9 DEF Best

\* Recording the history m for k keeps the lineages apart when no other one has it.
LEMMA PutFacts ==
    ASSUME NEW D, NEW V, NEW f \in [D -> V], NEW k, NEW v \in V
    PROVE  /\ Put(f, k, v) \in [D \cup {k} -> V]
           /\ Put(f, k, v)[k] = v /\ \A x \in D : x # k => Put(f, k, v)[x] = f[x]
           /\ (IsInjective(f) /\ \A x \in D : f[x] = v => x = k) => IsInjective(Put(f, k, v))
<1>1. Put(f, k, v) = [x \in D \cup {k} |-> IF x = k THEN v ELSE f[x]]
  BY DEF Put
<1>2. /\ Put(f, k, v) \in [D \cup {k} -> V]
      /\ Put(f, k, v)[k] = v /\ \A x \in D : x # k => Put(f, k, v)[x] = f[x]
  BY <1>1
<1> DEFINE g == Put(f, k, v)
<1> HIDE DEF g
<1>3. ASSUME IsInjective(f), \A x \in D : f[x] = v => x = k PROVE IsInjective(g)
  <2>1. DOMAIN g = D \cup {k} /\ g[k] = v /\ \A x \in D : x # k => g[x] = f[x]
    BY <1>2 DEF g
  <2>2. \A x, y \in D : f[x] = f[y] => x = y
    BY <1>3 DEF IsInjective
  <2>. QED  BY <1>3, <2>1, <2>2 DEF IsInjective
<1>. QED  BY <1>2, <1>3 DEF g
-----------------------------------------------------------------------------
(* The inductive invariant.                                                 *)

\* What a tracker records: a form of every message it has seen.
Records ==
    {t \in [orig : Seq(Contents), fwd : Seq(Bytes), frozen : Nat] :
        t.frozen \in 0 .. Len(t.orig) /\ Aligned(t.fwd, t.orig)}

RequestRecord ==
    [pc : {"new", "resolved", "full", "fast", "delta", "sent", "done"},
     msgs : Seq(Contents), tid : Requests \cup {None}, frozen : Int, cold : BOOLEAN,
     working : Seq(Bytes), prev : Nat, opt : Seq(Bytes), out : Seq(Bytes)]

\* A request in progress, when the trackers created so far are D.
Underway(q, D) ==
    /\ q \in RequestRecord /\ q.tid \in D \cup {None}
    /\ q.pc \notin {"new", "done"} => q.tid \in D
    /\ q.pc \in {"full", "fast", "delta"} => Aligned(q.working, q.msgs)
    /\ q.pc \in {"full", "fast"} => q.frozen < Len(q.msgs)
    /\ q.pc = "sent" => Aligned(q.out, q.msgs)

Jobs == {j \in [msgs : Seq(Contents), working : Seq(Bytes)] : Aligned(j.working, j.msgs)}

CacheOK == cache \in Caches /\ stable \subseteq ToolResults
TrackersOK ==
    /\ DOMAIN tracker \subseteq Requests /\ tracker \in [DOMAIN tracker -> Records]
    /\ alive \in Seq(Requests) /\ IsInjective(alive) /\ ToSet(alive) \subseteq DOMAIN tracker
LineagesOK ==
    /\ chain \in [DOMAIN chain -> Seq(Contents)] /\ IsInjective(chain)
    /\ DOMAIN chain \subseteq ToSet(alive) /\ overflow \in Requests \cup {None}
RequestsOK ==
    req \in [Requests -> RequestRecord] /\ \A r \in Requests : Underway(req[r], DOMAIN tracker)
JobOK == job = None \/ job \in Jobs

IInv ==
    /\ mode \in Modes /\ cap \in Caps /\ recompact \in Recompacts
    /\ CacheOK /\ TrackersOK /\ LineagesOK /\ RequestsOK /\ JobOK

\* What PrefixReplayed says of a step.
Replayed(r) ==
    req[r].pc # "sent" /\ req'[r].pc = "sent" /\ ~req[r].cold =>
          LET t == tracker[req[r].tid]
              k == CommonPrefix(req[r].msgs, t)
              replay == IsPrefix(Upto(t.fwd, k), req'[r].out)
          IN  replay \/ /\ mode = "token"
                        /\ IsPrefix(Upto(t.fwd, k), req'[r].opt)
                        /\ CountMessages(req'[r].opt) > CountMessages(req'[r].out)
                        /\ req'[r].out = Raw(req[r].msgs)

LEMMA RecordFacts ==
    ASSUME TrackersOK, NEW x \in DOMAIN tracker
    PROVE  /\ x \in Requests /\ tracker[x] \in Records
           /\ tracker[x].orig \in Seq(Contents) /\ tracker[x].fwd \in Seq(Bytes)
           /\ tracker[x].frozen \in 0 .. Len(tracker[x].orig)
           /\ Aligned(tracker[x].fwd, tracker[x].orig)
<1>1. x \in Requests /\ tracker[x] \in Records
  BY DEF TrackersOK
<1>. QED  BY <1>1 DEF Records

\* Forward sends a form of every message and, on a warm turn, replays the record.
LEMMA ForwardStep ==
    ASSUME TrackersOK, RequestsOK, NEW r \in Requests, req[r].tid \in DOMAIN tracker,
           NEW opt, Aligned(opt, req[r].msgs), Forward(r, opt), tracker' = tracker
    PROVE  RequestsOK' /\ \A s \in Requests : Replayed(s)
<1> DEFINE q == req[r]
           m == req[r].msgs
           t == tracker[req[r].tid]
           ov == IF q.cold THEN opt ELSE Overlay(opt, m, t)
           o == IF Reverts(opt, ov, m) THEN Raw(m) ELSE ov
           q2 == [q EXCEPT !.pc = "sent", !.working = <<>>, !.opt = ov, !.out = o]
<1>1. q \in RequestRecord /\ m \in Seq(Contents)
  BY DEF RequestsOK, RequestRecord
<1>2. t.orig \in Seq(Contents) /\ Aligned(t.fwd, t.orig)
  BY RecordFacts
<1>3. Aligned(ov, m) /\ (~q.cold => IsPrefix(Upto(t.fwd, CommonPrefix(m, t)), ov))
  <2>1. /\ Aligned(Overlay(opt, m, t), m)
        /\ IsPrefix(Upto(t.fwd, CommonPrefix(m, t)), Overlay(opt, m, t))
    BY <1>1, <1>2, OverlayFacts
  <2>. QED  BY <2>1
<1>4. Aligned(Raw(m), m)
  BY <1>1, RawAligned
<1>5. Aligned(o, m)
  BY <1>3, <1>4
<1>6. ov \in Seq(Bytes) /\ o \in Seq(Bytes)
  BY <1>3, <1>5 DEF Aligned
<1>7. /\ req' \in [Requests -> RequestRecord] /\ req'[r] = q2
      /\ \A s \in Requests : s # r => req'[s] = req[s]
  <2>1. req \in [Requests -> RequestRecord]
    BY DEF RequestsOK
  <2>2. req' = [req EXCEPT ![r] = q2]
    BY <2>1 DEF Forward
  <2>3. q2 \in RequestRecord
    <3>1. <<>> \in Seq(Bytes)
      BY EmptySeq
    <3> HIDE DEF ov, o, q
    <3>. QED  BY <1>1, <1>6, <3>1 DEF RequestRecord
  <2> HIDE DEF q2
  <2>. QED  BY <2>1, <2>2, <2>3
<1>8. /\ q2 \in RequestRecord /\ q2.pc = "sent" /\ q2.msgs = m /\ q2.tid = q.tid
      /\ q2.opt = ov /\ q2.out = o
  <2>1. q2 \in RequestRecord
    BY <1>7
  <2> HIDE DEF ov, o, q, m
  <2>. QED  BY <1>1, <2>1 DEF RequestRecord, m, q
<1>9. Underway(req'[r], DOMAIN tracker)
  <2> HIDE DEF q2, o
  <2>. QED  BY <1>5, <1>7, <1>8 DEF Underway
<1>10. RequestsOK'
  <2>1. \A s \in Requests : Underway(req'[s], DOMAIN tracker')
    BY <1>7, <1>9 DEF RequestsOK
  <2>. QED  BY <1>7, <2>1 DEF RequestsOK
<1>11. ASSUME NEW s \in Requests PROVE Replayed(s)
  <2>1. CASE s # r
    BY <1>7, <2>1 DEF Replayed
  <2>2. CASE s = r /\ ~Reverts(opt, ov, m)
    <3>1. req'[s].out = ov
      BY <1>7, <1>8, <2>2
    <3> HIDE DEF ov
    <3>. QED  BY <1>3, <2>2, <3>1 DEF Replayed
  <2>3. CASE s = r /\ Reverts(opt, ov, m)
    <3>1. req'[s].out = Raw(m) /\ req'[s].opt = ov
      BY <1>7, <1>8, <2>3
    <3>2. mode = "token" /\ CountMessages(ov) > CountMessages(Raw(m))
      BY <2>3 DEF Reverts
    <3> HIDE DEF ov
    <3>. QED  BY <1>3, <2>3, <3>1, <3>2 DEF Replayed
  <2>. QED  BY <2>1, <2>2, <2>3
<1>. QED  BY <1>10, <1>11
\* A step of one request that forwards nothing.
LEMMA QuietStep ==
    ASSUME RequestsOK, NEW r \in Requests, NEW q, q.pc # "sent", Underway(q, DOMAIN tracker'),
           req' = [req EXCEPT ![r] = q], DOMAIN tracker \subseteq DOMAIN tracker'
    PROVE  RequestsOK' /\ \A s \in Requests : Replayed(s)
<1>1. req \in [Requests -> RequestRecord] /\ \A s \in Requests : Underway(req[s], DOMAIN tracker)
  BY DEF RequestsOK
<1>2. q \in RequestRecord
  BY DEF Underway
<1>3. /\ req' \in [Requests -> RequestRecord] /\ req'[r] = q
      /\ \A s \in Requests : s # r => req'[s] = req[s]
  BY <1>1, <1>2
<1>4. ASSUME NEW s \in Requests PROVE Underway(req'[s], DOMAIN tracker')
  <2>1. CASE s = r
    BY <1>3, <2>1
  <2>2. CASE s # r
    <3>1. Underway(req[s], DOMAIN tracker) /\ req'[s] = req[s]
      BY <1>1, <1>3, <2>2
    <3>. QED  BY <3>1 DEF Underway
  <2>. QED  BY <2>1, <2>2
<1>5. ASSUME NEW s \in Requests PROVE Replayed(s)
  <2>1. req'[s].pc = "sent" => req[s].pc = "sent"
    BY <1>3
  <2>. QED  BY <2>1 DEF Replayed
<1>6. RequestsOK'
  BY <1>3, <1>4 DEF RequestsOK
<1>. QED  BY <1>5, <1>6

LEMMA RequestFacts ==
    ASSUME IInv, NEW r \in Requests
    PROVE  /\ req[r] \in RequestRecord /\ req[r].msgs \in Seq(Contents) /\ req[r].frozen \in Int
           /\ req[r].pc \notin {"new", "done"} => req[r].tid \in DOMAIN tracker
           /\ req[r].pc \in {"full", "fast", "delta"} => Aligned(req[r].working, req[r].msgs)
           /\ req[r].pc = "sent" => Aligned(req[r].out, req[r].msgs)
<1>1. Underway(req[r], DOMAIN tracker)
  BY DEF IInv, RequestsOK
<1>. QED  BY <1>1 DEF Underway, RequestRecord

LEMMA SkipCompressionStep ==
    ASSUME IInv, NEW r \in Requests, SkipCompression(r)
    PROVE  IInv' /\ \A s \in Requests : Replayed(s)
<1>1. /\ req[r].pc = "resolved" /\ Forward(r, Raw(req[r].msgs))
      /\ UNCHANGED <<mode, cap, recompact, cache, stable, tracker, alive, chain, overflow, job>>
  BY DEF SkipCompression, config
<1>2. req[r].msgs \in Seq(Contents) /\ req[r].tid \in DOMAIN tracker
  BY <1>1, RequestFacts
<1>3. Aligned(Raw(req[r].msgs), req[r].msgs)
  BY <1>2, RawAligned
<1>4. RequestsOK' /\ \A s \in Requests : Replayed(s)
  BY <1>1, <1>2, <1>3, ForwardStep DEF IInv
<1>. QED  BY <1>1, <1>4 DEF IInv, CacheOK, TrackersOK, LineagesOK, JobOK

LEMMA PrepareStep ==
    ASSUME IInv, NEW r \in Requests, Prepare(r)
    PROVE  IInv' /\ \A s \in Requests : Replayed(s)
<1> DEFINE q == req[r]
           m == req[r].msgs
           frozen == Smaller(req[r].frozen, ComputeFrozenCount(m))
           working == ApplyCached(m)
<1>1. /\ mode = "token" /\ q.pc = "resolved"
      /\ stable' = stable \cup (ToSet(Upto(m, frozen)) \cap ToolResults)
      /\ cache' = Touched(m)
      /\ UNCHANGED <<mode, cap, recompact, tracker, alive, chain, overflow>>
  BY DEF Prepare, config
<1>2. PICK next \in {"full", "fast"} :
        /\ req' = [req EXCEPT ![r].pc = next, ![r].frozen = frozen, ![r].working = working]
        /\ job' = IF next = "fast" /\ job = None THEN [msgs |-> m, working |-> working] ELSE job
  BY DEF Prepare
<1>3. q \in RequestRecord /\ m \in Seq(Contents) /\ q.frozen \in Int /\ q.tid \in DOMAIN tracker
  BY <1>1, RequestFacts
<1>4. cache \in Caches /\ stable \subseteq ToolResults
  BY DEF IInv, CacheOK
<1>5. Aligned(working, m) /\ Touched(m) \in Caches
  BY <1>3, <1>4, ApplyCachedFacts
<1>6. frozen \in Int /\ frozen < Len(m)
  BY <1>3, FrozenFacts
<1>7. working \in Seq(Bytes)
  BY <1>5 DEF Aligned
<1> HIDE DEF frozen, working
<1> DEFINE q2 == [q EXCEPT !.pc = next, !.frozen = frozen, !.working = working]
<1>8. /\ q2 \in RequestRecord /\ q2.pc = next /\ q2.msgs = m /\ q2.tid = q.tid
      /\ q2.frozen = frozen /\ q2.working = working
  <2> HIDE DEF q, m
  <2>1. q.msgs = m
    BY DEF q, m
  <2>. QED  BY <1>3, <1>6, <1>7, <2>1 DEF RequestRecord
<1>9. req' = [req EXCEPT ![r] = q2]
  <2>1. req \in [Requests -> RequestRecord]
    BY DEF IInv, RequestsOK
  <2>. QED  BY <1>2, <2>1
<1> HIDE DEF q2
<1>10. Underway(q2, DOMAIN tracker') /\ q2.pc # "sent"
  BY <1>1, <1>3, <1>5, <1>6, <1>8 DEF Underway
<1>11. RequestsOK' /\ \A s \in Requests : Replayed(s)
  BY <1>1, <1>9, <1>10, QuietStep DEF IInv
<1>12. CacheOK'
  BY <1>1, <1>4, <1>5 DEF CacheOK
<1>13. JobOK'
  <2>1. [msgs |-> m, working |-> working] \in Jobs
    BY <1>3, <1>5, <1>7 DEF Jobs
  <2>. QED  BY <1>2, <2>1 DEF IInv, JobOK
<1>. QED  BY <1>1, <1>11, <1>12, <1>13 DEF IInv, TrackersOK, LineagesOK

LEMMA TokenDoneStep ==
    ASSUME IInv, NEW r \in Requests, TokenDone(r)
    PROVE  IInv' /\ \A s \in Requests : Replayed(s)
<1>1. req[r].pc \in {"full", "fast"} /\ UNCHANGED <<mode, cap, recompact, tracker, alive, chain, overflow, job>>
  BY DEF TokenDone, config
<1>2. PICK res \in Results(req[r].working, req[r].frozen) :
        /\ UpdateFromResult(req[r].msgs, res) \/ UNCHANGED <<cache, stable>>
        /\ Forward(r, res)
  BY DEF TokenDone
<1>3. /\ req[r].msgs \in Seq(Contents) /\ req[r].tid \in DOMAIN tracker
      /\ Aligned(req[r].working, req[r].msgs)
  BY <1>1, RequestFacts
<1>4. Aligned(res, req[r].msgs)
  BY <1>3, ResultsAligned
<1>5. RequestsOK' /\ \A s \in Requests : Replayed(s)
  BY <1>1, <1>2, <1>3, <1>4, ForwardStep DEF IInv
<1>6. CacheOK'
  <2>1. cache \in Caches /\ stable \subseteq ToolResults
    BY DEF IInv, CacheOK
  <2>2. /\ UpdatedCache(req[r].msgs, res) \in Caches
        /\ UpdatedStable(req[r].msgs, res) \subseteq ToolResults
    BY <1>3, <1>4, <2>1, UpdateFacts
  <2>. QED  BY <1>2, <2>1, <2>2 DEF CacheOK, UpdateFromResult
<1>. QED  BY <1>1, <1>5, <1>6 DEF IInv, TrackersOK, LineagesOK, JobOK

LEMMA TokenFailsStep ==
    ASSUME IInv, NEW r \in Requests, TokenFails(r)
    PROVE  IInv' /\ \A s \in Requests : Replayed(s)
<1>1. PICK opt \in {req[r].working, Raw(req[r].msgs)} :
        req[r].pc \in {"full", "fast"} /\ Forward(r, opt)
  BY DEF TokenFails
<1>2. UNCHANGED <<mode, cap, recompact, cache, stable, tracker, alive, chain, overflow, job>>
  BY DEF TokenFails, config
<1>3. /\ req[r].msgs \in Seq(Contents) /\ req[r].tid \in DOMAIN tracker
      /\ Aligned(req[r].working, req[r].msgs)
  BY <1>1, RequestFacts
<1>4. Aligned(opt, req[r].msgs)
  BY <1>3, RawAligned
<1>5. RequestsOK' /\ \A s \in Requests : Replayed(s)
  BY <1>1, <1>2, <1>3, <1>4, ForwardStep DEF IInv
<1>. QED  BY <1>2, <1>5 DEF IInv, CacheOK, TrackersOK, LineagesOK, JobOK
LEMMA BackgroundStep ==
    ASSUME IInv, BackgroundDone \/ BackgroundFails
    PROVE  IInv' /\ \A s \in Requests : Replayed(s)
<1>1. job # None /\ job' = None /\ UNCHANGED <<mode, cap, recompact, tracker, alive, chain, overflow, req>>
  BY DEF BackgroundDone, BackgroundFails, config
<1>2. \/ \E res \in Results(job.working, 0) : UpdateFromResult(job.msgs, res)
      \/ UNCHANGED <<cache, stable>>
  BY DEF BackgroundDone, BackgroundFails
<1>3. job.msgs \in Seq(Contents) /\ Aligned(job.working, job.msgs)
  BY <1>1 DEF IInv, JobOK, Jobs
<1>4. CacheOK'
  <2>1. cache \in Caches /\ stable \subseteq ToolResults
    BY DEF IInv, CacheOK
  <2>2. CASE UNCHANGED <<cache, stable>>
    BY <2>1, <2>2 DEF CacheOK
  <2>3. ASSUME NEW res \in Results(job.working, 0), UpdateFromResult(job.msgs, res) PROVE CacheOK'
    <3>1. Aligned(res, job.msgs)
      BY <1>3, ResultsAligned
    <3>2. UpdatedCache(job.msgs, res) \in Caches /\ UpdatedStable(job.msgs, res) \subseteq ToolResults
      BY <1>3, <2>1, <3>1, UpdateFacts
    <3>. QED  BY <2>3, <3>2 DEF CacheOK, UpdateFromResult
  <2>. QED  BY <1>2, <2>2, <2>3
<1>5. \A s \in Requests : Replayed(s)
  BY <1>1 DEF Replayed
<1>. QED  BY <1>1, <1>4, <1>5 DEF IInv, TrackersOK, LineagesOK, RequestsOK, JobOK

LEMMA CacheColdStep ==
    ASSUME IInv, NEW r \in Requests, CacheCold(r)
    PROVE  IInv' /\ \A s \in Requests : Replayed(s)
<1> DEFINE q == req[r]
           m == req[r].msgs
           working == Raw(m)
           q2 == [q EXCEPT !.pc = "delta", !.working = working]
<1>1. /\ q.pc = "resolved" /\ req' = [req EXCEPT ![r].pc = "delta", ![r].working = working]
      /\ UNCHANGED <<mode, cap, recompact, cache, stable, tracker, alive, chain, overflow, job>>
  BY DEF CacheCold, config
<1>2. q \in RequestRecord /\ m \in Seq(Contents) /\ q.tid \in DOMAIN tracker
  BY <1>1, RequestFacts
<1>3. Aligned(working, m) /\ working \in Seq(Bytes)
  BY <1>2, RawAligned DEF Aligned
<1> HIDE DEF working
<1>4. req' = [req EXCEPT ![r] = q2]
  <2>1. req \in [Requests -> RequestRecord]
    BY DEF IInv, RequestsOK
  <2>. QED  BY <1>1, <2>1
<1>5. /\ q2 \in RequestRecord /\ q2.pc = "delta" /\ q2.msgs = m /\ q2.tid = q.tid
      /\ q2.working = working
  <2>1. q.msgs = m
    OBVIOUS
  <2> HIDE DEF q, m
  <2>. QED  BY <1>2, <1>3, <2>1 DEF RequestRecord
<1> HIDE DEF q2
<1>6. Underway(q2, DOMAIN tracker') /\ q2.pc # "sent"
  BY <1>1, <1>2, <1>3, <1>5 DEF Underway
<1>7. RequestsOK' /\ \A s \in Requests : Replayed(s)
  BY <1>1, <1>4, <1>6, QuietStep DEF IInv
<1>. QED  BY <1>1, <1>7 DEF IInv, CacheOK, TrackersOK, LineagesOK, JobOK

LEMMA CacheNoDeltaStep ==
    ASSUME IInv, NEW r \in Requests, CacheNoDelta(r)
    PROVE  IInv' /\ \A s \in Requests : Replayed(s)
<1> DEFINE m == req[r].msgs
           t == tracker[req[r].tid]
<1>1. /\ req[r].pc = "resolved"
      /\ \/ Forward(r, Raw(m))
         \/ Extends(m, t) /\ Len(m) = Len(t.orig) /\ Forward(r, t.fwd)
      /\ UNCHANGED <<mode, cap, recompact, cache, stable, tracker, alive, chain, overflow, job>>
  BY DEF CacheNoDelta, config
<1>2. m \in Seq(Contents) /\ req[r].tid \in DOMAIN tracker
  BY <1>1, RequestFacts
<1>3. t.orig \in Seq(Contents) /\ Aligned(t.fwd, t.orig)
  BY <1>2, RecordFacts DEF IInv
<1>4. CASE Forward(r, Raw(m))
  <2>1. Aligned(Raw(m), m)
    BY <1>2, RawAligned
  <2>2. RequestsOK' /\ \A s \in Requests : Replayed(s)
    BY <1>1, <1>2, <1>4, <2>1, ForwardStep DEF IInv
  <2>. QED  BY <1>1, <2>2 DEF IInv, CacheOK, TrackersOK, LineagesOK, JobOK
<1>5. CASE Extends(m, t) /\ Len(m) = Len(t.orig) /\ Forward(r, t.fwd)
  <2>1. t.orig = m
    BY <1>2, <1>3, <1>5, PrefixAgrees DEF Extends
  <2>2. Aligned(t.fwd, m)
    BY <1>3, <2>1
  <2>3. RequestsOK' /\ \A s \in Requests : Replayed(s)
    BY <1>1, <1>2, <1>5, <2>2, ForwardStep DEF IInv
  <2>. QED  BY <1>1, <2>3 DEF IInv, CacheOK, TrackersOK, LineagesOK, JobOK
<1>. QED  BY <1>1, <1>4, <1>5

LEMMA CacheDeltaStep ==
    ASSUME IInv, NEW r \in Requests, CacheDelta(r)
    PROVE  IInv' /\ \A s \in Requests : Replayed(s)
<1> DEFINE q == req[r]
           m == req[r].msgs
           t == tracker[req[r].tid]
           k == Len(t.orig)
           working == t.fwd \o SubSeq(Raw(m), k + 1, Len(m))
           q2 == [q EXCEPT !.pc = "delta", !.prev = Len(t.fwd), !.working = working]
<1>1. /\ q.pc = "resolved" /\ Extends(m, t)
      /\ req' = [req EXCEPT ![r].pc = "delta", ![r].prev = Len(t.fwd), ![r].working = working]
      /\ UNCHANGED <<mode, cap, recompact, cache, stable, tracker, alive, chain, overflow, job>>
  BY DEF CacheDelta, config
<1>2. q \in RequestRecord /\ m \in Seq(Contents) /\ q.tid \in DOMAIN tracker
  BY <1>1, RequestFacts
<1>3. t.orig \in Seq(Contents) /\ Aligned(t.fwd, t.orig)
  BY <1>2, RecordFacts DEF IInv
<1>4. t.fwd \in Seq(Bytes) /\ Len(t.fwd) = k /\ k \in Nat
  BY <1>3, AlignedLength
<1>5. k \in 0 .. Len(m) /\ \A i \in 1 .. k : m[i] = t.orig[i]
  <2>1. IsPrefix(t.orig, m)
    BY <1>1 DEF Extends
  <2>. QED  BY <1>2, <1>3, <2>1, PrefixAgrees
<1>6. Aligned(Raw(m), m) /\ Len(Raw(m)) = Len(m)
  BY <1>2, RawAligned DEF Aligned
<1>7. Aligned(Spliced(t.fwd, Raw(m), k), m)
  <2> HIDE DEF m
  <2>1. k <= Len(t.orig)
    BY <1>4
  <2>. QED  BY <1>2, <1>3, <1>5, <1>6, <2>1, SpliceAligned
<1>8. working = Spliced(t.fwd, Raw(m), k)
  <2>1. SubSeq(t.fwd, 1, k) = t.fwd
    BY <1>4, SubSeqFull
  <2>. QED  BY <1>6, <2>1 DEF Spliced
<1>9. Aligned(working, m) /\ working \in Seq(Bytes)
  BY <1>7, <1>8 DEF Aligned
<1>10. req' = [req EXCEPT ![r] = q2]
  <2>1. req \in [Requests -> RequestRecord]
    BY DEF IInv, RequestsOK
  <2> HIDE DEF working
  <2>. QED  BY <1>1, <2>1
<1> HIDE DEF working
<1>11. /\ q2 \in RequestRecord /\ q2.pc = "delta" /\ q2.msgs = m /\ q2.tid = q.tid
       /\ q2.working = working
  <2>1. Len(t.fwd) \in Nat
    BY <1>4
  <2>2. q.msgs = m
    OBVIOUS
  <2> HIDE DEF q, m, t
  <2>. QED  BY <1>2, <1>9, <2>1, <2>2 DEF RequestRecord
<1> HIDE DEF q2
<1>12. Underway(q2, DOMAIN tracker') /\ q2.pc # "sent"
  BY <1>1, <1>2, <1>9, <1>11 DEF Underway
<1>13. RequestsOK' /\ \A s \in Requests : Replayed(s)
  BY <1>1, <1>10, <1>12, QuietStep DEF IInv
<1>. QED  BY <1>1, <1>13 DEF IInv, CacheOK, TrackersOK, LineagesOK, JobOK

LEMMA CacheDoneStep ==
    ASSUME IInv, NEW r \in Requests, CacheDone(r)
    PROVE  IInv' /\ \A s \in Requests : Replayed(s)
<1>1. /\ req[r].pc = "delta"
      /\ UNCHANGED <<mode, cap, recompact, cache, stable, tracker, alive, chain, overflow, job>>
  BY DEF CacheDone, config
<1>2. PICK opt \in Results(req[r].working, req[r].prev) \cup {Raw(req[r].msgs)} : Forward(r, opt)
  BY DEF CacheDone
<1>3. /\ req[r].msgs \in Seq(Contents) /\ req[r].tid \in DOMAIN tracker
      /\ Aligned(req[r].working, req[r].msgs)
  BY <1>1, RequestFacts
<1>4. Aligned(opt, req[r].msgs)
  <2>1. CASE opt = Raw(req[r].msgs)
    BY <1>3, <2>1, RawAligned
  <2>2. CASE opt \in Results(req[r].working, req[r].prev)
    BY <1>3, <2>2, ResultsAligned
  <2>. QED  BY <2>1, <2>2
<1>5. RequestsOK' /\ \A s \in Requests : Replayed(s)
  BY <1>1, <1>2, <1>3, <1>4, ForwardStep DEF IInv
<1>. QED  BY <1>1, <1>5 DEF IInv, CacheOK, TrackersOK, LineagesOK, JobOK
LEMMA IdleFacts ==
    ASSUME NEW D
    PROVE  /\ Idle \in RequestRecord /\ Underway(Idle, D)
           /\ Underway([Idle EXCEPT !.pc = "done"], D) /\ [Idle EXCEPT !.pc = "done"].pc = "done"
<1>1. <<>> \in Seq(Contents) /\ <<>> \in Seq(Bytes)
  BY EmptySeq
<1>2. Idle \in RequestRecord /\ Idle.pc = "new" /\ Idle.tid = None
  BY <1>1 DEF Idle, RequestRecord
<1> DEFINE q == [Idle EXCEPT !.pc = "done"]
<1>3. q \in RequestRecord /\ q.pc = "done" /\ q.tid = None
  BY <1>2 DEF RequestRecord
<1> HIDE DEF q
<1>4. Underway(q, D)
  BY <1>3 DEF Underway
<1>5. Underway(Idle, D)
  BY <1>2 DEF Underway
<1>. QED  BY <1>2, <1>3, <1>4, <1>5 DEF q

LEMMA RespondStep ==
    ASSUME IInv, NEW r \in Requests, Respond(r)
    PROVE  IInv' /\ \A s \in Requests : Replayed(s)
<1> DEFINE t == req[r].tid
           m == req[r].msgs
           out == req[r].out
<1>1. /\ req[r].pc = "sent"
      /\ alive' = IF t \in ToSet(alive) THEN Append(RemoveFirst(alive, t), t) ELSE alive
      /\ req' = [req EXCEPT ![r] = [Idle EXCEPT !.pc = "done"]]
      /\ UNCHANGED <<mode, cap, recompact, cache, stable, chain, overflow, job>>
  BY DEF Respond, config
<1>2. PICK a \in {<<>>, <<Answer>>} : \E frozen \in 0 .. Len(m \o a) :
        tracker' = [tracker EXCEPT ![t] =
            [orig |-> m \o a, fwd |-> out \o Raw(a), frozen |-> frozen]]
  BY DEF Respond
<1>3. PICK frozen \in 0 .. Len(m \o a) :
        tracker' = [tracker EXCEPT ![t] =
            [orig |-> m \o a, fwd |-> out \o Raw(a), frozen |-> frozen]]
  BY <1>2
<1>4. m \in Seq(Contents) /\ t \in DOMAIN tracker /\ Aligned(out, m)
  BY <1>1, RequestFacts
<1>5. a \in Seq(Contents)
  <2>1. Answer \in Contents
    BY AnswerAssumption DEF Contents
  <2>2. <<Answer>> \in Seq(Contents) /\ <<>> \in Seq(Contents)
    BY <2>1, EmptySeq
  <2>. QED  BY <2>2
<1>6. Aligned(Raw(a), a)
  BY <1>5, RawAligned
<1> DEFINE o == m \o a
           fwd == out \o Raw(a)
           rec == [orig |-> o, fwd |-> fwd, frozen |-> frozen]
<1>7. o \in Seq(Contents) /\ Aligned(fwd, o)
  <2> HIDE DEF m, out
  <2>. QED  BY <1>4, <1>5, <1>6, ConcatAligned
<1>8. frozen \in 0 .. Len(o) /\ tracker' = [tracker EXCEPT ![t] = rec]
  BY <1>3
<1> HIDE DEF o, fwd
<1>9. rec \in Records
  <2>1. fwd \in Seq(Bytes) /\ Len(o) \in Nat /\ frozen \in Nat
    BY <1>7, <1>8, LenProperties DEF Aligned
  <2>. QED  BY <1>7, <1>8, <2>1 DEF Records
<1> HIDE DEF rec
<1>10. /\ DOMAIN tracker \subseteq Requests /\ tracker \in [DOMAIN tracker -> Records]
       /\ alive \in Seq(Requests) /\ IsInjective(alive) /\ ToSet(alive) \subseteq DOMAIN tracker
  BY DEF IInv, TrackersOK
<1>11. DOMAIN tracker' = DOMAIN tracker /\ tracker' \in [DOMAIN tracker -> Records]
  BY <1>8, <1>9, <1>10
<1>12. alive' \in Seq(Requests) /\ IsInjective(alive') /\ ToSet(alive') = ToSet(alive)
  <2> HIDE DEF t
  <2>1. CASE t \in ToSet(alive)
    <3>1. alive' = Append(RemoveFirst(alive, t), t) /\ t \in Requests
      BY <1>1, <1>4, <1>10, <2>1
    <3> DEFINE u == Append(RemoveFirst(alive, t), t)
    <3>2. u \in Seq(Requests) /\ IsInjective(u) /\ ToSet(u) = ToSet(alive) \cup {t}
      BY <1>10, <3>1, MoveToEnd
    <3> HIDE DEF u
    <3>3. alive' = u
      BY <3>1 DEF u
    <3>. QED  BY <2>1, <3>2, <3>3
  <2>2. CASE t \notin ToSet(alive)
    <3>1. alive' = alive
      BY <1>1, <2>2
    <3>. QED  BY <1>10, <3>1
  <2>. QED  BY <2>1, <2>2
<1>13. TrackersOK'
  BY <1>10, <1>11, <1>12 DEF TrackersOK
<1>14. LineagesOK'
  BY <1>1, <1>12 DEF IInv, LineagesOK
<1>15. RequestsOK' /\ \A s \in Requests : Replayed(s)
  <2> DEFINE q == [Idle EXCEPT !.pc = "done"]
  <2>1. Underway(q, DOMAIN tracker') /\ q.pc = "done"
    BY IdleFacts
  <2>2. req' = [req EXCEPT ![r] = q] /\ RequestsOK
    BY <1>1 DEF IInv
  <2> HIDE DEF q
  <2>. QED  BY <1>11, <2>1, <2>2, QuietStep
<1>. QED  BY <1>1, <1>13, <1>14, <1>15 DEF IInv, CacheOK, JobOK

LEMMA UpstreamFailsStep ==
    ASSUME IInv, NEW r \in Requests, UpstreamFails(r)
    PROVE  IInv' /\ \A s \in Requests : Replayed(s)
<1> DEFINE q == [Idle EXCEPT !.pc = "done"]
<1>1. /\ req' = [req EXCEPT ![r] = q]
      /\ UNCHANGED <<mode, cap, recompact, cache, stable, tracker, alive, chain, overflow, job>>
  BY DEF UpstreamFails, config
<1>2. Underway(q, DOMAIN tracker') /\ q.pc = "done"
  BY IdleFacts
<1> HIDE DEF q
<1>3. RequestsOK' /\ \A s \in Requests : Replayed(s)
  BY <1>1, <1>2, QuietStep DEF IInv
<1>. QED  BY <1>1, <1>3 DEF IInv, CacheOK, TrackersOK, LineagesOK, JobOK

\* get_or_create leaves the trackers in order, and the request with one of them.
LEMMA FetchStep ==
    ASSUME IInv, NEW r \in Requests, NEW m \in Seq(Contents), NEW t \in Requests,
           NEW n \in 0 .. Len(alive), Fetch(r, m, t, n)
    PROVE  /\ TrackersOK' /\ RequestsOK' /\ \A s \in Requests : Replayed(s)
           /\ ToSet(alive') = ToSet(Kept(n)) \cup {t}
<1>1. /\ alive' = Append(RemoveFirst(Kept(n), t), t)
      /\ tracker' = IF t \in DOMAIN tracker THEN tracker ELSE Put(tracker, t, NewTracker)
  BY DEF Fetch
<1>a. PICK cold \in BOOLEAN :
        req' = [req EXCEPT ![r] =
            [Idle EXCEPT !.pc = "resolved", !.msgs = m, !.tid = t, !.cold = cold,
                         !.frozen = IF cold /\ mode = "token" THEN 0 ELSE tracker'[t].frozen]]
  <2>1. MayBeCold(t, n) \subseteq BOOLEAN
    BY RecompactsAssumption DEF IInv, MayBeCold
  <2>. QED  BY <2>1 DEF Fetch
<1>2. /\ DOMAIN tracker \subseteq Requests /\ tracker \in [DOMAIN tracker -> Records]
      /\ alive \in Seq(Requests) /\ IsInjective(alive) /\ ToSet(alive) \subseteq DOMAIN tracker
  BY DEF IInv, TrackersOK
<1>3. Kept(n) \in Seq(Requests) /\ IsInjective(Kept(n)) /\ ToSet(Kept(n)) \subseteq ToSet(alive)
  BY <1>2, KeptFacts
<1>4. alive' \in Seq(Requests) /\ IsInjective(alive') /\ ToSet(alive') = ToSet(Kept(n)) \cup {t}
  BY <1>1, <1>3, MoveToEnd
<1>5. NewTracker \in Records
  <2>1. <<>> \in Seq(Contents) /\ <<>> \in Seq(Bytes) /\ Len(<<>>) = 0
    BY EmptySeq
  <2>2. Aligned(<<>>, <<>>)
    BY <2>1 DEF Aligned
  <2>. QED  BY <2>1, <2>2 DEF NewTracker, Records
<1>6. DOMAIN tracker' = DOMAIN tracker \cup {t} /\ tracker' \in [DOMAIN tracker \cup {t} -> Records]
  <2>1. CASE t \in DOMAIN tracker
    BY <1>1, <1>2, <2>1
  <2>2. CASE t \notin DOMAIN tracker
    <3>1. Put(tracker, t, NewTracker) \in [DOMAIN tracker \cup {t} -> Records]
      BY <1>2, <1>5, PutFacts
    <3>. QED  BY <1>1, <2>2, <3>1
  <2>. QED  BY <2>1, <2>2
<1>7. TrackersOK'
  BY <1>2, <1>3, <1>4, <1>6 DEF TrackersOK
<1>8. PICK frozen \in Int :
        frozen = IF cold /\ mode = "token" THEN 0 ELSE tracker'[t].frozen
  <2>1. tracker'[t] \in Records
    BY <1>6
  <2>. QED  BY <2>1 DEF Records
<1> DEFINE q == [Idle EXCEPT !.pc = "resolved", !.msgs = m, !.tid = t, !.cold = cold,
                            !.frozen = frozen]
<1>9. q \in RequestRecord /\ q.pc = "resolved" /\ q.tid = t
  <2>1. Idle \in RequestRecord
    BY IdleFacts
  <2>. QED  BY <2>1 DEF RequestRecord
<1>10. req' = [req EXCEPT ![r] = q] /\ RequestsOK
  BY <1>a, <1>8 DEF IInv
<1> HIDE DEF q
<1>11. Underway(q, DOMAIN tracker') /\ q.pc # "sent"
  BY <1>6, <1>9 DEF Underway
<1>12. RequestsOK' /\ \A s \in Requests : Replayed(s)
  BY <1>6, <1>10, <1>11, QuietStep
<1>. QED  BY <1>4, <1>7, <1>12
\* What the lineages of the session are when the longest idle trackers have gone.
LEMMA FamilyFacts ==
    ASSUME IInv, NEW n \in 0 .. Len(alive)
    PROVE  LET D == ToSet(Kept(n)) \cap DOMAIN chain
           IN  /\ Restrict(chain, D) \in [D -> Seq(Contents)] /\ IsInjective(Restrict(chain, D))
               /\ ToSet(Kept(n)) \subseteq Requests
<1> DEFINE D == ToSet(Kept(n)) \cap DOMAIN chain
           fam == Restrict(chain, D)
<1>1. chain \in [DOMAIN chain -> Seq(Contents)] /\ IsInjective(chain)
  BY DEF IInv, LineagesOK
<1>2. fam = [x \in D |-> chain[x]]
  BY DEF Restrict
<1>3. fam \in [D -> Seq(Contents)]
  BY <1>1, <1>2
<1>4. IsInjective(fam)
  BY <1>1, <1>2 DEF IsInjective
<1>5. alive \in Seq(Requests) /\ IsInjective(alive)
  BY DEF IInv, TrackersOK
<1>6. Kept(n) \in Seq(Requests)
  BY <1>5, KeptFacts
<1>7. ToSet(Kept(n)) \subseteq Requests
  BY <1>6, ToSetIndex
<1>. QED  BY <1>3, <1>4, <1>7

LEMMA ResolveStep ==
    ASSUME IInv, NEW r \in Requests, NEW m \in Histories, NEW n \in 0 .. Len(alive), Resolve(r, m, n)
    PROVE  IInv' /\ \A s \in Requests : Replayed(s)
<1> DEFINE K == ToSet(Kept(n))
           D == K \cap DOMAIN chain
           fam == Restrict(chain, D)
           known == \E k \in D : Continues(fam[k], m)
           best == BestLineage(fam, m)
<1>1. m \in Seq(Contents)
  BY HistoriesAssumption
<1>2. fam \in [D -> Seq(Contents)] /\ IsInjective(fam) /\ K \subseteq Requests
  BY FamilyFacts
<1>3. DOMAIN fam = D
  BY <1>2
<1>4. UNCHANGED <<mode, cap, recompact, cache, stable, job>>
  BY DEF Resolve, config
<1>5. /\ overflow \in Requests \cup {None}
      /\ DOMAIN chain \subseteq ToSet(alive)
  BY DEF IInv, LineagesOK
<1>6. \/ known /\ Fetch(r, m, best, n) /\ chain' = Put(fam, best, m) /\ overflow' = overflow
      \/ /\ overflow' = IF overflow \in K THEN overflow ELSE r
         /\ Fetch(r, m, overflow', n) /\ chain' = fam
      \/ ~known /\ Fetch(r, m, r, n) /\ chain' = Put(fam, r, m) /\ overflow' = overflow
  <2> HIDE DEF fam, best, D, K, known
  <2>1. known <=> \E k \in DOMAIN fam : Continues(fam[k], m)
    BY <1>3 DEF known
  <2>. QED  BY <2>1 DEF Resolve, fam, best, D, K
<1> HIDE DEF fam, D, K
<1>7. \A x \in D : Continues(fam[x], m) <=> IsPrefix(fam[x], m)
  BY DEF Continues
<1>8. ASSUME known, Fetch(r, m, best, n), chain' = Put(fam, best, m), overflow' = overflow
      PROVE  TrackersOK' /\ RequestsOK' /\ LineagesOK' /\ \A s \in Requests : Replayed(s)
  <2>1. /\ best \in D /\ Continues(fam[best], m)
        /\ \A l \in D : Continues(fam[l], m) => Len(fam[l]) <= Len(fam[best])
    BY <1>1, <1>2, <1>8, BestLineageFacts
  <2> HIDE DEF best, known
  <2>2. best \in Requests /\ best \in K
    BY <1>2, <2>1 DEF D
  <2>3. TrackersOK' /\ RequestsOK' /\ ToSet(alive') = K \cup {best} /\ \A s \in Requests : Replayed(s)
    BY <1>1, <1>8, <2>2, FetchStep DEF K
  <2>4. ASSUME NEW x \in D, fam[x] = m PROVE x = best
    <3>1. fam[best] \in Seq(Contents) /\ IsPrefix(fam[best], m) /\ IsPrefix(m, m)
      BY <1>1, <1>2, <2>1, PrefixAgrees DEF Continues
    <3>2. Len(m) <= Len(fam[best])
      BY <2>1, <2>4, <3>1 DEF Continues
    <3>3. Len(fam[best]) \in 0 .. Len(m) /\ Len(m) \in Nat
      BY <1>1, <3>1, PrefixAgrees, LenProperties
    <3>4. Len(fam[best]) = Len(m)
      BY <3>2, <3>3
    <3>5. fam[best] = m
      BY <1>1, <3>1, <3>4, PrefixAgrees
    <3>. QED  BY <1>2, <1>3, <2>1, <2>4, <3>5 DEF IsInjective
  <2>5. Put(fam, best, m) \in [D \cup {best} -> Seq(Contents)] /\ IsInjective(Put(fam, best, m))
    BY <1>1, <1>2, <2>4, PutFacts
  <2>6. D \cup {best} \subseteq ToSet(alive')
    BY <2>3 DEF D
  <2>7. LineagesOK'
    <3> DEFINE g == Put(fam, best, m)
    <3>1. g \in [D \cup {best} -> Seq(Contents)] /\ IsInjective(g) /\ chain' = g
      BY <1>8, <2>5
    <3> HIDE DEF g
    <3>. QED  BY <1>5, <1>8, <2>6, <3>1 DEF LineagesOK
  <2>. QED  BY <2>3, <2>7
<1>9. ASSUME overflow' = (IF overflow \in K THEN overflow ELSE r), Fetch(r, m, overflow', n), chain' = fam
      PROVE  TrackersOK' /\ RequestsOK' /\ LineagesOK' /\ \A s \in Requests : Replayed(s)
  <2>1. PICK t \in Requests : t = overflow'
    BY <1>2, <1>9
  <2>2. Fetch(r, m, t, n)
    BY <1>9, <2>1
  <2>3. TrackersOK' /\ RequestsOK' /\ ToSet(alive') = K \cup {t} /\ \A s \in Requests : Replayed(s)
    BY <1>1, <2>2, FetchStep DEF K
  <2>4. D \subseteq ToSet(alive')
    BY <2>3 DEF D
  <2>5. LineagesOK'
    BY <1>2, <1>3, <1>9, <2>1, <2>4 DEF LineagesOK
  <2>. QED  BY <2>3, <2>5
<1>10. ASSUME ~known, Fetch(r, m, r, n), chain' = Put(fam, r, m), overflow' = overflow
       PROVE  TrackersOK' /\ RequestsOK' /\ LineagesOK' /\ \A s \in Requests : Replayed(s)
  <2>1. TrackersOK' /\ RequestsOK' /\ ToSet(alive') = K \cup {r} /\ \A s \in Requests : Replayed(s)
    BY <1>1, <1>10, FetchStep DEF K
  <2>2. ASSUME NEW x \in D, fam[x] = m PROVE x = r
    <3>1. IsPrefix(m, m)
      BY <1>1, PrefixAgrees
    <3>. QED  BY <1>10, <2>2, <3>1 DEF Continues
  <2>3. Put(fam, r, m) \in [D \cup {r} -> Seq(Contents)] /\ IsInjective(Put(fam, r, m))
    BY <1>1, <1>2, <2>2, PutFacts
  <2>4. D \cup {r} \subseteq ToSet(alive')
    BY <2>1 DEF D
  <2>5. LineagesOK'
    <3> DEFINE g == Put(fam, r, m)
    <3>1. g \in [D \cup {r} -> Seq(Contents)] /\ IsInjective(g) /\ chain' = g
      BY <1>10, <2>3
    <3> HIDE DEF g
    <3>. QED  BY <1>5, <1>10, <2>4, <3>1 DEF LineagesOK
  <2>. QED  BY <2>1, <2>5
<1>11. TrackersOK' /\ RequestsOK' /\ LineagesOK' /\ \A s \in Requests : Replayed(s)
  <2> HIDE DEF known, best
  <2>. QED  BY <1>6, <1>8, <1>9, <1>10
<1>. QED  BY <1>4, <1>11 DEF IInv, CacheOK, JobOK
-----------------------------------------------------------------------------
(* Theorems.                                                                *)

LEMMA InvInit == Init => IInv
<1> SUFFICES ASSUME Init PROVE IInv
  OBVIOUS
<1>1. CacheOK
  <2>1. <<>> \in Seq(CacheEntry) /\ Len(<<>>) = 0
    BY EmptySeq
  <2>2. DistinctKeys(<<>>)
    BY <2>1 DEF DistinctKeys
  <2>3. <<>> \in Caches
    BY <2>1, <2>2, BoundsAssumption DEF Caches
  <2>. QED  BY <2>3 DEF Init, CacheOK
<1>2. TrackersOK
  <2>1. DOMAIN tracker = {} /\ tracker \in [{} -> Records]
    BY DEF Init
  <2>2. alive \in Seq(Requests) /\ DOMAIN alive = {} /\ ToSet(alive) = {}
    BY EmptySeq DEF Init, ToSet
  <2>. QED  BY <2>1, <2>2 DEF TrackersOK, IsInjective
<1>3. LineagesOK
  <2>1. DOMAIN chain = {} /\ chain \in [{} -> Seq(Contents)] /\ overflow = None
    BY DEF Init
  <2>. QED  BY <2>1 DEF LineagesOK, IsInjective
<1>4. RequestsOK
  <2>1. Idle \in RequestRecord /\ Underway(Idle, DOMAIN tracker)
    BY IdleFacts
  <2>. QED  BY <2>1 DEF Init, RequestsOK
<1>. QED  BY <1>1, <1>2, <1>3, <1>4 DEF IInv, Init, JobOK

LEMMA InvStep ==
    ASSUME IInv, [Next]_vars PROVE IInv' /\ \A s \in Requests : Replayed(s)
<1>1. ASSUME NEW r \in Requests, NEW m \in Histories, NEW n \in 0 .. Len(alive), Resolve(r, m, n)
      PROVE  IInv' /\ \A s \in Requests : Replayed(s)
  BY <1>1, ResolveStep
<1>2. ASSUME NEW r \in Requests, SkipCompression(r) PROVE IInv' /\ \A s \in Requests : Replayed(s)
  BY <1>2, SkipCompressionStep
<1>3. ASSUME NEW r \in Requests, Prepare(r) PROVE IInv' /\ \A s \in Requests : Replayed(s)
  BY <1>3, PrepareStep
<1>4. ASSUME NEW r \in Requests, TokenDone(r) PROVE IInv' /\ \A s \in Requests : Replayed(s)
  BY <1>4, TokenDoneStep
<1>5. ASSUME NEW r \in Requests, TokenFails(r) PROVE IInv' /\ \A s \in Requests : Replayed(s)
  BY <1>5, TokenFailsStep
<1>6. ASSUME NEW r \in Requests, CacheNoDelta(r) PROVE IInv' /\ \A s \in Requests : Replayed(s)
  BY <1>6, CacheNoDeltaStep
<1>7. ASSUME NEW r \in Requests, CacheDelta(r) PROVE IInv' /\ \A s \in Requests : Replayed(s)
  BY <1>7, CacheDeltaStep
<1>8. ASSUME NEW r \in Requests, CacheDone(r) PROVE IInv' /\ \A s \in Requests : Replayed(s)
  BY <1>8, CacheDoneStep
<1>9. ASSUME NEW r \in Requests, Respond(r) PROVE IInv' /\ \A s \in Requests : Replayed(s)
  BY <1>9, RespondStep
<1>10. ASSUME NEW r \in Requests, UpstreamFails(r) PROVE IInv' /\ \A s \in Requests : Replayed(s)
  BY <1>10, UpstreamFailsStep
<1>11. ASSUME BackgroundDone \/ BackgroundFails PROVE IInv' /\ \A s \in Requests : Replayed(s)
  BY <1>11, BackgroundStep
<1>12. ASSUME UNCHANGED vars PROVE IInv' /\ \A s \in Requests : Replayed(s)
  <2>1. IInv'
    BY <1>12 DEF vars, config, IInv, CacheOK, TrackersOK, LineagesOK, RequestsOK, JobOK
  <2>2. \A s \in Requests : Replayed(s)
    BY <1>12 DEF vars, Replayed
  <2>. QED  BY <2>1, <2>2
<1>13. ASSUME NEW r \in Requests, CacheCold(r) PROVE IInv' /\ \A s \in Requests : Replayed(s)
  BY <1>13, CacheColdStep
<1>. QED
  BY <1>1, <1>2, <1>3, <1>4, <1>5, <1>6, <1>7, <1>8, <1>9, <1>10, <1>11, <1>12, <1>13 DEF Next

LEMMA Invariance == Spec => []IInv
BY InvInit, InvStep, PTL DEF Spec

LEMMA InvType == IInv => TypeOK
<1> SUFFICES ASSUME IInv PROVE TypeOK
  OBVIOUS
<1>1. mode \in Modes /\ cap \in Caps /\ recompact \in Recompacts /\ stable \subseteq ToolResults
  BY DEF IInv, CacheOK
<1>2. cache \in Seq(CacheEntry) /\ DistinctKeys(cache) /\ Len(cache) <= MaxEntries
  BY DEF IInv, CacheOK, Caches
<1>3. \A e \in ToSet(cache) : e.h \in ToolResults /\ e.v \in Bytes /\ e.v.f # "raw"
  BY <1>2, ToSetIndex DEF CacheEntry
<1>4. Cardinality(Keys) = Len(cache)
  BY <1>2, KeyCount DEF Keys
<1>5. /\ DOMAIN tracker \subseteq Requests /\ ToSet(alive) \subseteq DOMAIN tracker
      /\ IsInjective(alive) /\ DOMAIN chain \subseteq ToSet(alive) /\ overflow \in Requests \cup {None}
  BY DEF IInv, TrackersOK, LineagesOK
<1>6. \A t \in DOMAIN tracker : /\ tracker[t].orig \in Seq(Contents)
                                /\ tracker[t].fwd \in Seq(Bytes)
                                /\ tracker[t].frozen \in 0 .. Len(tracker[t].orig)
  BY RecordFacts DEF IInv
<1>7. \A r \in Requests : /\ req[r].tid \in DOMAIN tracker \cup {None}
                          /\ req[r].pc \in {"full", "fast"} => req[r].frozen < Len(req[r].msgs)
  BY DEF IInv, RequestsOK, Underway
<1>. QED  BY <1>1, <1>2, <1>3, <1>4, <1>5, <1>6, <1>7 DEF TypeOK

\* The types, the limit and the distinct keys of the compression cache, the
\* trackers in use, and that prepare never freezes the last message.
THEOREM TypeCorrect == Spec => []TypeOK
BY Invariance, InvType, PTL

\* The handler forwards a form of every message, in its place, whatever trackers,
\* records and cached forms overlapping conversations share.
THEOREM ContentKept == Spec => []ContentIntact
<1>1. IInv => ContentIntact
  <2> SUFFICES ASSUME IInv PROVE ContentIntact
    OBVIOUS
  <2>1. ASSUME NEW r \in Requests, req[r].pc = "sent"
        PROVE  /\ Len(req[r].out) = Len(req[r].msgs)
               /\ \A i \in DOMAIN req[r].msgs : req[r].out[i].c = req[r].msgs[i]
    <3>1. req[r].msgs \in Seq(Contents) /\ Aligned(req[r].out, req[r].msgs)
      BY <2>1, RequestFacts
    <3>. QED  BY <3>1, AlignedLength
  <2>2. cache \in Seq(CacheEntry)
    BY DEF IInv, CacheOK, Caches
  <2>3. \A e \in ToSet(cache) : e.v.c = e.h
    BY <2>2, ToSetIndex DEF CacheEntry
  <2>. QED  BY <2>1, <2>3 DEF ContentIntact
<1>. QED  BY Invariance, <1>1, PTL

\* resolve_tracker never records one history for two lineages.
THEOREM LineagesDistinct == Spec => []ChainsDistinct
<1>1. IInv => ChainsDistinct
  BY DEF IInv, LineagesOK, ChainsDistinct
<1>. QED  BY Invariance, <1>1, PTL

\* On a turn that is not cold the recorded bytes are replayed as far as the history
\* is the recorded one; only the inflation guard of token mode reverts it.
THEOREM ReplaysPrefix == Spec => PrefixReplayed
<1>1. IInv /\ [Next]_vars =>
        [\A r \in Requests : req[r].pc # "sent" /\ req'[r].pc = "sent" /\ ~req[r].cold =>
          LET t == tracker[req[r].tid]
              k == CommonPrefix(req[r].msgs, t)
              replay == IsPrefix(Upto(t.fwd, k), req'[r].out)
          IN  replay \/ /\ mode = "token"
                        /\ IsPrefix(Upto(t.fwd, k), req'[r].opt)
                        /\ CountMessages(req'[r].opt) > CountMessages(req'[r].out)
                        /\ req'[r].out = Raw(req[r].msgs)]_vars
  BY InvStep DEF Replayed
<1>. QED  BY Invariance, <1>1, PTL DEF Spec, PrefixReplayed
=============================================================================
