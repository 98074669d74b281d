-------------------------- MODULE AuditBufferProofs --------------------------
(***************************************************************************)
(* Proofs about AuditBuffer, for every capacity, batch size and number of  *)
(* lifespans: its types, the order of the audit trail, what a shutdown can *)
(* lose, and how often an entry can be written.                            *)
(***************************************************************************)
EXTENDS AuditBuffer, SequenceTheorems, FiniteSetTheorems, TLAPS

\* Every member of S comes before every member of T.
Below(S, T) == \A x \in S, y \in T : x < y

\* Where e stands in s.
Places(s, e) == {i \in 1 .. Len(s) : s[i] = e}

-----------------------------------------------------------------------------
(* Sequences of entries.                                                    *)

LEMMA RangeIndex ==
    ASSUME NEW S, NEW s \in Seq(S)
    PROVE  /\ Range(s) = {s[i] : i \in 1 .. Len(s)} /\ Range(s) \subseteq S
           /\ Len(s) \in Nat /\ DOMAIN s = 1 .. Len(s)
BY LenProperties DEF Range

LEMMA EmptyRange == Range(<<>>) = {} /\ Increasing(<<>>)
BY DEF Range, Increasing

LEMMA ConcatFacts ==
    ASSUME NEW a \in Seq(Nat), NEW b \in Seq(Nat)
    PROVE  /\ Range(a \o b) = Range(a) \cup Range(b)
           /\ Increasing(a) /\ Increasing(b) /\ Below(Range(a), Range(b))
                 => Increasing(a \o b)
<1> DEFINE m == Len(a)
           n == Len(b)
           c == a \o b
<1>1. /\ m \in Nat /\ n \in Nat /\ c \in Seq(Nat) /\ Len(c) = m + n
      /\ \A i \in 1 .. m + n : c[i] = IF i <= m THEN a[i] ELSE b[i - m]
  BY ConcatProperties, LenProperties
<1>2. /\ Range(a) = {a[i] : i \in 1 .. m} /\ Range(b) = {b[i] : i \in 1 .. n}
      /\ Range(c) = {c[i] : i \in 1 .. Len(c)}
  BY <1>1, RangeIndex
<1>3. \A i \in 1 .. m : a[i] \in Nat /\ a[i] \in Range(a)
  BY <1>2, ElementOfSeq
<1>4. \A i \in 1 .. n : b[i] \in Nat /\ b[i] \in Range(b)
  BY <1>2, ElementOfSeq
<1>5. (\A i \in 1 .. m : c[i] = a[i]) /\ (\A i \in 1 .. n : m + i \in 1 .. m + n /\ c[m + i] = b[i])
  <2>1. \A i \in 1 .. m : i \in 1 .. m + n /\ i <= m
    BY <1>1
  <2>2. ASSUME NEW i \in 1 .. n PROVE m + i \in 1 .. m + n /\ ~(m + i <= m) /\ (m + i) - m = i
    BY <1>1
  <2>. QED  BY <1>1, <2>1, <2>2
<1>6. \A i \in 1 .. m + n : i \in 1 .. m \/ (i - m \in 1 .. n /\ m + (i - m) = i)
  BY <1>1
<1> HIDE DEF m, n, c
<1>7. Range(c) = Range(a) \cup Range(b)
  <2>1. ASSUME NEW i \in 1 .. m + n PROVE c[i] \in Range(a) \cup Range(b)
    <3>1. CASE i \in 1 .. m
      BY <1>2, <1>5, <3>1
    <3>2. CASE i - m \in 1 .. n /\ m + (i - m) = i
      <4>1. c[i] = b[i - m]
        BY <1>5, <3>2
      <4>. QED  BY <1>2, <3>2, <4>1
    <3>. QED  BY <1>6, <3>1, <3>2
  <2>2. Range(c) \subseteq Range(a) \cup Range(b)
    BY <1>1, <1>2, <2>1
  <2>3. \A i \in 1 .. m : i \in 1 .. m + n /\ c[i] = a[i]
    BY <1>1, <1>5
  <2>4. Range(a) \subseteq Range(c) /\ Range(b) \subseteq Range(c)
    BY <1>1, <1>2, <1>5, <2>3
  <2>. QED  BY <2>2, <2>4
<1>8. ASSUME Increasing(a), Increasing(b), Below(Range(a), Range(b)) PROVE Increasing(c)
  <2> SUFFICES ASSUME NEW i \in 1 .. m + n, NEW j \in 1 .. m + n, i < j PROVE c[i] < c[j]
    BY <1>1 DEF Increasing
  <2>1. \A k, l \in 1 .. m : k < l => a[k] < a[l]
    BY <1>8 DEF Increasing, m
  <2>2. \A k, l \in 1 .. n : k < l => b[k] < b[l]
    BY <1>8 DEF Increasing, n
  <2>3. CASE j \in 1 .. m
    <3>1. i \in 1 .. m
      BY <1>1, <2>3
    <3>. QED  BY <1>5, <2>1, <2>3, <3>1
  <2>4. CASE i \in 1 .. m /\ ~(j \in 1 .. m)
    <3>1. j - m \in 1 .. n /\ c[j] = b[j - m]
      <4>1. ~(j <= m)
        BY <1>1, <2>4
      <4>2. j - m \in 1 .. n
        BY <1>1, <4>1
      <4>3. c[j] = b[j - m]
        BY <1>1, <4>1
      <4>. QED  BY <4>2, <4>3
    <3>. QED  BY <1>3, <1>4, <1>5, <1>8, <2>4, <3>1 DEF Below
  <2>5. CASE ~(i \in 1 .. m)
    <3>1. ~(i <= m) /\ ~(j <= m)
      BY <1>1, <2>5
    <3>2. i - m \in 1 .. n /\ j - m \in 1 .. n /\ i - m < j - m
      BY <1>1, <3>1
    <3>3. c[i] = b[i - m] /\ c[j] = b[j - m]
      BY <1>1, <3>1
    <3>. QED  BY <2>2, <3>2, <3>3
  <2>. QED  BY <2>3, <2>4, <2>5
<1>. QED  BY <1>7, <1>8 DEF c

LEMMA SplitFacts ==
    ASSUME NEW S \in SUBSET Nat, NEW s \in Seq(S), NEW p \in 0 .. Len(s)
    PROVE  LET a == SubSeq(s, 1, p)
               b == SubSeq(s, p + 1, Len(s))
           IN  /\ a \in Seq(S) /\ b \in Seq(S) /\ Len(a) = p /\ Len(b) <= Len(s)
               /\ Range(s) = Range(a) \cup Range(b)
               /\ Increasing(s) => /\ Increasing(a) /\ Increasing(b)
                                   /\ Below(Range(a), Range(b))
<1> DEFINE a == SubSeq(s, 1, p)
           b == SubSeq(s, p + 1, Len(s))
           n == Len(s)
<1>1. n \in Nat /\ p \in Nat /\ p <= n /\ \A i \in 1 .. n : s[i] \in S
  BY LenProperties
<1>2. /\ a \in Seq(S) /\ Len(a) = p
      /\ \A i \in 1 .. p : a[i] = s[i]
  <2>1. \A i \in 1 .. p : s[i] \in S
    BY <1>1
  <2>2. /\ a \in Seq(S) /\ Len(a) = IF 1 <= p THEN p - 1 + 1 ELSE 0
        /\ \A i \in 1 .. p - 1 + 1 : a[i] = s[1 + i - 1]
    BY <1>1, <2>1, SubSeqProperties
  <2>3. (IF 1 <= p THEN p - 1 + 1 ELSE 0) = p /\ p - 1 + 1 = p
    BY <1>1
  <2>4. \A i \in 1 .. p : 1 + i - 1 = i
    BY <1>1
  <2>. QED  BY <2>2, <2>3, <2>4
<1>3. /\ b \in Seq(S) /\ Len(b) = n - p
      /\ \A i \in 1 .. n - p : b[i] = s[p + i]
  <2>1. \A i \in p + 1 .. n : s[i] \in S
    BY <1>1
  <2>2. /\ b \in Seq(S) /\ Len(b) = IF p + 1 <= n THEN n - (p + 1) + 1 ELSE 0
        /\ \A i \in 1 .. n - (p + 1) + 1 : b[i] = s[(p + 1) + i - 1]
    BY <1>1, <2>1, SubSeqProperties
  <2>3. (IF p + 1 <= n THEN n - (p + 1) + 1 ELSE 0) = n - p /\ n - (p + 1) + 1 = n - p
    BY <1>1
  <2>4. \A i \in 1 .. n - p : (p + 1) + i - 1 = p + i
    BY <1>1
  <2>. QED  BY <2>2, <2>3, <2>4
<1>4. /\ Range(s) = {s[i] : i \in 1 .. n}
      /\ Range(a) = {a[i] : i \in 1 .. p} /\ Range(b) = {b[i] : i \in 1 .. n - p}
  <2> HIDE DEF a, b
  <2>1. Range(s) = {s[i] : i \in 1 .. n}
    BY RangeIndex
  <2>2. Range(a) = {a[i] : i \in 1 .. Len(a)} /\ Range(b) = {b[i] : i \in 1 .. Len(b)}
    BY <1>2, <1>3, RangeIndex
  <2>. QED  BY <1>2, <1>3, <2>1, <2>2
<1> HIDE DEF a, b, n
<1>5. /\ \A i \in 1 .. p : i \in 1 .. n
      /\ \A i \in 1 .. n - p : p + i \in 1 .. n
      /\ \A i \in 1 .. n : i \in 1 .. p \/ (i - p \in 1 .. n - p /\ p + (i - p) = i)
      /\ n - p <= n
  BY <1>1
<1>6. Range(s) = Range(a) \cup Range(b)
  <2>1. Range(a) \subseteq Range(s) /\ Range(b) \subseteq Range(s)
    BY <1>2, <1>3, <1>4, <1>5
  <2>2. ASSUME NEW i \in 1 .. n PROVE s[i] \in Range(a) \cup Range(b)
    <3>1. CASE i \in 1 .. p
      BY <1>2, <1>4, <3>1
    <3>2. CASE i - p \in 1 .. n - p /\ p + (i - p) = i
      <4>1. b[i - p] = s[i]
        BY <1>3, <3>2
      <4>. QED  BY <1>4, <3>2, <4>1
    <3>. QED  BY <1>5, <3>1, <3>2
  <2>. QED  BY <1>4, <2>1, <2>2
<1>7. ASSUME Increasing(s) PROVE Increasing(a) /\ Increasing(b) /\ Below(Range(a), Range(b))
  <2>1. \A i, j \in 1 .. n : i < j => s[i] < s[j]
    BY <1>7 DEF Increasing, n
  <2>2. Increasing(a)
    BY <1>2, <1>5, <2>1 DEF Increasing
  <2>3. Increasing(b)
    <3> SUFFICES ASSUME NEW i \in 1 .. n - p, NEW j \in 1 .. n - p, i < j PROVE b[i] < b[j]
      BY <1>3 DEF Increasing
    <3>1. p + i < p + j
      BY <1>1
    <3>. QED  BY <1>3, <1>5, <2>1, <3>1
  <2>4. Below(Range(a), Range(b))
    <3> SUFFICES ASSUME NEW i \in 1 .. p, NEW j \in 1 .. n - p PROVE a[i] < b[j]
      BY <1>4 DEF Below
    <3>1. i < p + j
      BY <1>1
    <3>. QED  BY <1>2, <1>3, <1>5, <2>1, <3>1
  <2>. QED  BY <2>2, <2>3, <2>4
<1>. QED  BY <1>2, <1>3, <1>5, <1>6, <1>7 DEF a, b, n

LEMMA AppendFacts ==
    ASSUME NEW S \in SUBSET Nat, NEW s \in Seq(S), NEW e \in S
    PROVE  /\ Append(s, e) \in Seq(S) /\ Len(Append(s, e)) = Len(s) + 1
           /\ Range(Append(s, e)) = Range(s) \cup {e}
           /\ Increasing(s) /\ Below(Range(s), {e}) => Increasing(Append(s, e))
<1> DEFINE t == Append(s, e)
           n == Len(s)
<1>1. /\ t \in Seq(S) /\ Len(t) = n + 1 /\ n \in Nat
      /\ (\A i \in 1 .. n : t[i] = s[i]) /\ t[n + 1] = e
  BY AppendProperties, LenProperties
<1>2. Range(s) = {s[i] : i \in 1 .. n} /\ Range(t) = {t[i] : i \in 1 .. n + 1}
  BY <1>1, RangeIndex
<1>3. \A i \in 1 .. n + 1 : i \in 1 .. n \/ i = n + 1
  BY <1>1
<1>4. (\A i \in 1 .. n : i \in 1 .. n + 1) /\ n + 1 \in 1 .. n + 1
  BY <1>1
<1> HIDE DEF t, n
<1>5. Range(t) = Range(s) \cup {e}
  BY <1>1, <1>2, <1>3, <1>4
<1>6. ASSUME Increasing(s), Below(Range(s), {e}) PROVE Increasing(t)
  <2> SUFFICES ASSUME NEW i \in 1 .. n + 1, NEW j \in 1 .. n + 1, i < j PROVE t[i] < t[j]
    BY <1>1 DEF Increasing
  <2>1. i \in 1 .. n
    BY <1>1
  <2>2. CASE j \in 1 .. n
    BY <1>1, <1>6, <2>1, <2>2 DEF Increasing, n
  <2>3. CASE j = n + 1
    <3>1. t[i] \in Range(s) /\ t[j] = e
      BY <1>1, <1>2, <2>1, <2>3
    <3>. QED  BY <1>6, <3>1 DEF Below
  <2>. QED  BY <1>3, <2>2, <2>3
<1>. QED  BY <1>1, <1>5, <1>6 DEF t, n

LEMMA TailFacts ==
    ASSUME NEW S \in SUBSET Nat, NEW s \in Seq(S), s # <<>>
    PROVE  /\ Head(s) \in S /\ Tail(s) \in Seq(S) /\ Len(Tail(s)) + 1 = Len(s)
           /\ Range(s) = {Head(s)} \cup Range(Tail(s))
           /\ Increasing(s) => Increasing(Tail(s)) /\ Below({Head(s)}, Range(Tail(s)))
<1>1. Len(s) \in Nat \ {0}
  BY EmptySeq
<1>2. Tail(s) = SubSeq(s, 2, Len(s)) /\ Head(s) \in S /\ Tail(s) \in Seq(S)
      /\ Len(Tail(s)) = Len(s) - 1
  BY TailIsSubSeq, HeadTailProperties
<1> DEFINE a == SubSeq(s, 1, 1)
           b == SubSeq(s, 1 + 1, Len(s))
<1>3. 1 \in 0 .. Len(s) /\ Tail(s) = b
  BY <1>1, <1>2
<1>4. /\ a \in Seq(S) /\ Len(a) = 1
      /\ Range(s) = Range(a) \cup Range(b)
      /\ Increasing(s) => Increasing(b) /\ Below(Range(a), Range(b))
  BY <1>3, SplitFacts
<1>5. a[1] = s[1] /\ Head(s) = s[1]
  <2>1. \A i \in 1 .. 1 : s[i] \in S
    BY <1>1, ElementOfSeq
  <2>2. \A i \in 1 .. 1 - 1 + 1 : a[i] = s[1 + i - 1]
    BY <2>1, SubSeqProperties
  <2>3. a[1] = s[1 + 1 - 1]
    BY <2>2
  <2>. QED  BY <2>3
<1>6. Range(a) = {Head(s)}
  <2> HIDE DEF a
  <2>1. Range(a) = {a[i] : i \in 1 .. Len(a)}
    BY <1>4, RangeIndex
  <2>. QED  BY <1>4, <1>5, <2>1
<1> HIDE DEF a, b
<1>7. Len(Tail(s)) + 1 = Len(s)
  BY <1>1, <1>2
<1>8. Range(s) = {Head(s)} \cup Range(Tail(s))
  BY <1>3, <1>4, <1>6
<1>9. Increasing(s) => Increasing(Tail(s)) /\ Below({Head(s)}, Range(Tail(s)))
  BY <1>3, <1>4, <1>6
<1>. QED  BY <1>2, <1>7, <1>8, <1>9

\* Appending a sequence without repetitions adds each of its members once.
LEMMA PlacesConcat ==
    ASSUME NEW a \in Seq(Nat), NEW b \in Seq(Nat), NEW e
    PROVE  /\ IsFiniteSet(Places(a, e)) /\ Cardinality(Places(a, e)) \in Nat
           /\ Cardinality(Places(a \o b, e)) \in Nat
           /\ e \notin Range(b) => Places(a \o b, e) = Places(a, e)
           /\ e \notin Range(a) => Cardinality(Places(a, e)) = 0
           /\ Increasing(b) =>
                  Cardinality(Places(a \o b, e)) <= Cardinality(Places(a, e)) + 1
<1> DEFINE m == Len(a)
           n == Len(b)
           c == a \o b
<1>1. /\ m \in Nat /\ n \in Nat /\ c \in Seq(Nat) /\ Len(c) = m + n
      /\ \A i \in 1 .. m + n : c[i] = IF i <= m THEN a[i] ELSE b[i - m]
      /\ \A i \in 1 .. n : b[i] \in Nat
  BY ConcatProperties, LenProperties, ElementOfSeq
<1>2. /\ Range(a) = {a[i] : i \in 1 .. m} /\ Range(b) = {b[i] : i \in 1 .. n}
  BY <1>1, RangeIndex
<1>3. \A i \in 1 .. m : i \in 1 .. m + n /\ c[i] = a[i]
  BY <1>1
<1>4. \A i \in 1 .. m + n : i \in 1 .. m \/ (i - m \in 1 .. n /\ c[i] = b[i - m])
  BY <1>1
<1>5. IsFiniteSet(1 .. m)
  BY <1>1, FS_Interval
<1>6. /\ Places(a, e) = {i \in 1 .. m : a[i] = e} /\ Places(c, e) = {i \in 1 .. m + n : c[i] = e}
  BY <1>1 DEF Places
<1> HIDE DEF m, n, c
<1>7. IsFiniteSet(Places(a, e)) /\ Cardinality(Places(a, e)) \in Nat
  BY <1>5, <1>6, FS_Subset, FS_CardinalityType
<1>8. IsFiniteSet(Places(c, e)) /\ Cardinality(Places(c, e)) \in Nat
  <2>1. IsFiniteSet(1 .. m + n)
    BY <1>1, FS_Interval
  <2>2. Places(c, e) \in SUBSET (1 .. m + n)
    BY <1>6
  <2>. QED  BY <2>1, <2>2, FS_Subset, FS_CardinalityType
<1>9. ASSUME e \notin Range(b) PROVE Places(c, e) = Places(a, e)
  BY <1>2, <1>3, <1>4, <1>6, <1>9
<1>10. ASSUME e \notin Range(a) PROVE Cardinality(Places(a, e)) = 0
  <2>1. Places(a, e) = {}
    BY <1>2, <1>6, <1>10
  <2>. QED  BY <2>1, FS_EmptySet
<1>11. ASSUME Increasing(b), e \in Range(b)
       PROVE  Cardinality(Places(c, e)) <= Cardinality(Places(a, e)) + 1
  <2>1. PICK k \in 1 .. n : b[k] = e
    BY <1>2, <1>11
  <2>2. ASSUME NEW i \in 1 .. n, b[i] = e PROVE i = k
    <3>1. i < k => b[i] < b[k]
      BY <1>11 DEF Increasing, n
    <3>2. k < i => b[k] < b[i]
      BY <1>11 DEF Increasing, n
    <3>. QED  BY <1>1, <2>1, <2>2, <3>1, <3>2
  <2>3. ASSUME NEW i \in Places(c, e) PROVE i \in Places(a, e) \cup {m + k}
    <3>1. i \in 1 .. m + n /\ c[i] = e
      BY <1>6
    <3>2. CASE i \in 1 .. m
      BY <1>3, <1>6, <3>1, <3>2
    <3>3. CASE i - m \in 1 .. n /\ c[i] = b[i - m]
      <4>1. i - m = k
        BY <2>2, <3>1, <3>3
      <4>. QED  BY <1>1, <3>1, <4>1
    <3>. QED  BY <1>4, <3>1, <3>2, <3>3
  <2>4. Places(c, e) \in SUBSET (Places(a, e) \cup {m + k})
    BY <2>3
  <2>5. /\ IsFiniteSet(Places(a, e) \cup {m + k})
        /\ Cardinality(Places(a, e) \cup {m + k}) =
              IF m + k \in Places(a, e) THEN Cardinality(Places(a, e))
                                        ELSE Cardinality(Places(a, e)) + 1
    BY <1>7, FS_AddElement, Zenon
  <2>6. Cardinality(Places(c, e)) <= Cardinality(Places(a, e) \cup {m + k})
    BY <2>4, <2>5, FS_Subset
  <2>. QED  BY <1>7, <1>8, <2>5, <2>6
<1>. QED  BY <1>7, <1>8, <1>9, <1>10, <1>11 DEF c
-----------------------------------------------------------------------------
(* The inductive invariant.                                                 *)

\* What the flush loop and stop() know of each other.
Control ==
    /\ ~up => task = "none" /\ stopper = "idle"
    /\ stopper = "retry" => task = "none"
    /\ task # "retry" => batch = <<>>
    /\ lifespans = 0 => ~up /\ next = 0

\* drained, batch and deque hold different entries, in the order of their arrival;
\* what overflow dropped is older than what waits.
Order ==
    /\ Increasing(drained) /\ Increasing(batch) /\ Increasing(deque)
    /\ Below(Range(drained), Range(batch)) /\ Below(Range(drained), Range(deque))
    /\ Below(Range(batch), Range(deque)) /\ Below(overflow, Range(deque))
    /\ Below(Range(drained), {next}) /\ Below(Range(batch), {next})
    /\ Below(Range(deque), {next}) /\ Below(Range(log), {next}) /\ Below(overflow, {next})

\* In the first lifespan, what is about to be written is newer than the log.
Trail ==
    /\ lifespans = 0 => drained = <<>>
    /\ lifespans <= 1 /\ ~replyLost =>
           /\ Increasing(log)
           /\ Below(Range(log), Range(batch)) /\ Below(Range(log), Range(deque))
           /\ stopper = "retry" => Below(Range(log), Range(drained))
           /\ up /\ stopper # "retry" => drained = <<>>

\* Lifespans whose loop has ended: each may have taken one batch with it.
Ended ==
    IF up /\ (stopper = "idle" \/ (stopper = "await_task" /\ task # "cancelled"))
    THEN lifespans - 1 ELSE lifespans
Missing == (0 .. next - 1) \ Accounted
Loss == Cardinality(Missing) <= BatchSize * Ended

\* How often each entry may have been written, by where it still is.
DrainWrites == 2 * lifespans - (IF ~up THEN 0 ELSE IF stopper = "retry" THEN 1 ELSE 2)
Writes ==
    \A e \in Entries :
        /\ e \in Range(deque) => e \notin Range(log)
        /\ e \in Range(batch) => Cardinality(Places(log, e)) <= 1
        /\ e \in Range(drained) => Cardinality(Places(log, e)) <= DrainWrites
        /\ Cardinality(Places(log, e)) <= 2 * lifespans

IInv == TypeOK /\ Control /\ Order /\ Trail /\ Loss /\ Writes

LEMMA Types ==
    ASSUME TypeOK
    PROVE  /\ Entries \in SUBSET Nat /\ next \in Nat /\ lifespans \in Nat
           /\ deque \in Seq(Nat) /\ batch \in Seq(Nat) /\ drained \in Seq(Nat) /\ log \in Seq(Nat)
           /\ Range(deque) \subseteq Entries /\ Range(batch) \subseteq Entries
           /\ Range(drained) \subseteq Entries /\ Range(log) \subseteq Entries
           /\ Len(deque) \in Nat
<1>1. Entries \in SUBSET Nat /\ next \in Nat /\ lifespans \in Nat
  BY SizeAssumption DEF TypeOK, Entries
<1>2. /\ deque \in Seq(Entries) /\ batch \in Seq(Entries)
      /\ drained \in Seq(Entries) /\ log \in Seq(Entries)
  BY DEF TypeOK
<1>3. \A s \in Seq(Entries) : s \in Seq(Nat) /\ Range(s) \subseteq Entries /\ Len(s) \in Nat
  BY <1>1, SeqMonotonic, RangeIndex
<1>. QED  BY <1>1, <1>2, <1>3

\* Ended counts lifespans that have begun.
LEMMA EndedType ==
    ASSUME TypeOK, Control PROVE Ended \in Nat /\ (up => lifespans - 1 \in Nat)
<1>1. lifespans \in Nat /\ (up => lifespans # 0)
  BY Types DEF Control
<1>. QED  BY <1>1 DEF Ended

LEMMA MissingFinite ==
    ASSUME TypeOK PROVE IsFiniteSet(Missing) /\ Cardinality(Missing) \in Nat
<1>1. IsFiniteSet(0 .. next - 1)
  BY Types, FS_Interval
<1>2. Missing \in SUBSET (0 .. next - 1)
  BY DEF Missing
<1>. QED  BY <1>1, <1>2, FS_Subset, FS_CardinalityType

LEMMA Grow ==
    ASSUME NEW a \in Nat, NEW m \in Nat, NEW k \in {m, m + 1}
    PROVE  a * m \in Nat /\ a * k \in Nat /\ a * m <= a * k /\ a * (m + 1) = a * m + a
OBVIOUS

\* A step after which no other entry is missing keeps the bound on the loss.
LEMMA LossKept ==
    ASSUME TypeOK, Control, Loss, Missing' \subseteq Missing, Ended' \in {Ended, Ended + 1}
    PROVE  Loss'
<1>1. /\ IsFiniteSet(Missing) /\ Cardinality(Missing) \in Nat /\ Ended \in Nat
      /\ BatchSize \in Nat
  BY MissingFinite, EndedType, SizeAssumption
<1>2. Missing' \in SUBSET Missing
  OBVIOUS
<1>3. Cardinality(Missing') <= Cardinality(Missing) /\ Cardinality(Missing') \in Nat
  BY <1>1, <1>2, FS_Subset, FS_CardinalityType
<1>4. PICK k : k = Ended'
  OBVIOUS
<1>5. k \in {Ended, Ended + 1}
  BY <1>4
<1>6. /\ BatchSize * Ended \in Nat /\ BatchSize * k \in Nat
      /\ BatchSize * Ended <= BatchSize * k
  BY <1>1, <1>5, Grow
<1>7. Cardinality(Missing) <= BatchSize * Ended
  BY DEF Loss
<1>8. PICK c \in Nat : c = Cardinality(Missing')
  BY <1>3
<1>9. c <= BatchSize * k
  BY <1>1, <1>3, <1>6, <1>7, <1>8
<1>10. (Cardinality(Missing) <= BatchSize * Ended)'
  BY <1>4, <1>8, <1>9
<1>. QED  BY <1>10 DEF Loss

\* What one call of insert_batch does to the log.
LEMMA WriteFacts ==
    ASSUME TypeOK, NEW b \in Seq(Entries), Increasing(b), log' = log \/ log' = log \o b
    PROVE  /\ log' \in Seq(Entries)
           /\ Range(log) \subseteq Range(log') /\ Range(log') \subseteq Range(log) \cup Range(b)
           /\ \A e : /\ Cardinality(Places(log, e)) \in Nat /\ Cardinality(Places(log', e)) \in Nat
                     /\ e \notin Range(b) => Places(log', e) = Places(log, e)
                     /\ e \notin Range(log) => Cardinality(Places(log, e)) = 0
                     /\ Cardinality(Places(log', e)) <= Cardinality(Places(log, e)) + 1
<1>1. b \in Seq(Nat) /\ log \in Seq(Nat) /\ log \in Seq(Entries)
  BY Types, SeqMonotonic DEF TypeOK
<1>2. log \o b \in Seq(Entries) /\ Range(log \o b) = Range(log) \cup Range(b)
  BY <1>1, ConcatProperties, ConcatFacts
<1>3. \A e : /\ Cardinality(Places(log, e)) \in Nat /\ Cardinality(Places(log \o b, e)) \in Nat
             /\ e \notin Range(b) => Places(log \o b, e) = Places(log, e)
             /\ e \notin Range(log) => Cardinality(Places(log, e)) = 0
             /\ Cardinality(Places(log \o b, e)) <= Cardinality(Places(log, e)) + 1
  BY <1>1, PlacesConcat
<1>4. CASE log' = log
  BY <1>1, <1>3, <1>4
<1>5. CASE log' = log \o b
  BY <1>2, <1>3, <1>5
<1>. QED  BY <1>4, <1>5

LEMMA InsertFacts ==
    ASSUME NEW b
    PROVE  /\ InsertCommits(b) => log' = log \o b /\ replyLost' = replyLost
           /\ InsertRaises(b) => \/ log' = log /\ replyLost' = replyLost
                                 \/ log' = log \o b /\ replyLost' = TRUE
BY DEF InsertCommits, InsertRaises, neo4j

-----------------------------------------------------------------------------
LEMMA InitIInv == Init => IInv
<1> SUFFICES ASSUME Init PROVE IInv
  OBVIOUS
<1>1. /\ deque = <<>> /\ batch = <<>> /\ drained = <<>> /\ log = <<>> /\ next = 0
      /\ lifespans = 0 /\ ~up /\ stopper = "idle" /\ task = "none" /\ overflow = {}
  BY DEF Init
<1>2. <<>> \in Seq(Entries) /\ Len(<<>>) = 0
  BY EmptySeq
<1>3. TypeOK
  <2>1. /\ Len(deque) <= MaxSize /\ Len(batch) <= BatchSize
        /\ deque \in Seq(Entries) /\ batch \in Seq(Entries)
        /\ drained \in Seq(Entries) /\ log \in Seq(Entries)
    BY <1>1, <1>2, SizeAssumption
  <2>2. elapsed \in 0 .. FlushTicks /\ next \in 0 .. MaxEntries /\ lifespans \in 0 .. MaxLifespans
    BY SizeAssumption DEF Init
  <2>3. replyLost \in BOOLEAN /\ up \in BOOLEAN /\ running \in BOOLEAN
    BY DEF Init
  <2>. QED  BY <2>1, <2>2, <2>3 DEF Init, TypeOK
<1>4. Control
  BY <1>1 DEF Control
<1>5. Order
  BY <1>1, EmptyRange DEF Order, Below
<1>6. Trail
  BY <1>1, EmptyRange DEF Trail, Below
<1>7. Loss
  <2>1. Missing = {}
    BY <1>1 DEF Missing
  <2>2. Ended = 0 /\ BatchSize * Ended = 0
    BY <1>1, SizeAssumption DEF Ended
  <2>. QED  BY <2>1, <2>2, FS_EmptySet DEF Loss
<1>8. Writes
  <2>1. \A e : Places(log, e) = {}
    BY <1>1, <1>2 DEF Places
  <2>2. \A e : Cardinality(Places(log, e)) = 0
    BY <2>1, FS_EmptySet
  <2>. QED  BY <1>1, <2>2, EmptyRange DEF Writes
<1>. QED  BY <1>3, <1>4, <1>5, <1>6, <1>7, <1>8 DEF IInv

-----------------------------------------------------------------------------
LEMMA EnqueueStep == ASSUME IInv, Enqueue PROVE IInv'
<1>1. /\ TypeOK /\ Control /\ Order /\ Trail /\ Loss /\ Writes
  BY DEF IInv
<1>2. /\ next < MaxEntries /\ lifespans > 0 /\ next' = next + 1
      /\ UNCHANGED <<running, task, batch, elapsed, stopper, drained, log, replyLost, gaveUp,
                     up, lifespans>>
  BY DEF Enqueue, neo4j, lifecycle
<1>3. next \in Entries /\ next \in Nat /\ MaxEntries \in Nat
  BY <1>1, <1>2, SizeAssumption, Types DEF Entries
\* The deque before the new entry, what it dropped, and the order among them.
<1>4. PICK q \in Seq(Entries) : \E D \in SUBSET Entries :
          /\ deque' = Append(q, next) /\ overflow' = overflow \cup D /\ Len(q) < MaxSize
          /\ Range(deque) = D \cup Range(q) /\ Increasing(q) /\ Below(D, Range(q))
  <2>1. deque \in Seq(Entries) /\ Len(deque) \in Nat /\ Increasing(deque) /\ Entries \in SUBSET Nat
        /\ MaxSize \in Nat \ {0} /\ Len(deque) <= MaxSize
    BY <1>1, Types, SizeAssumption DEF TypeOK, Order
  <2>2. CASE Len(deque) >= MaxSize
    <3>1. deque # <<>>
      BY <2>1, <2>2, EmptySeq
    <3>2. /\ Head(deque) \in Entries /\ Tail(deque) \in Seq(Entries)
          /\ Len(Tail(deque)) + 1 = Len(deque)
          /\ Range(deque) = {Head(deque)} \cup Range(Tail(deque))
          /\ Increasing(Tail(deque)) /\ Below({Head(deque)}, Range(Tail(deque)))
      BY <2>1, <3>1, TailFacts
    <3>3. Len(Tail(deque)) \in Nat
      BY <3>2, LenProperties
    <3>4. Len(Tail(deque)) < MaxSize
      BY <2>1, <3>2, <3>3
    <3>5. deque' = Append(Tail(deque), next) /\ overflow' = overflow \cup {Head(deque)}
      BY <2>2 DEF Enqueue
    <3>. QED  BY <3>2, <3>4, <3>5
  <2>3. CASE ~(Len(deque) >= MaxSize)
    <3>1. deque' = Append(deque, next) /\ overflow' = overflow \cup {}
      BY <2>3 DEF Enqueue
    <3>2. Len(deque) < MaxSize
      BY <2>1, <2>3
    <3>3. Below({}, Range(deque)) /\ Range(deque) = {} \cup Range(deque)
      BY DEF Below
    <3>4. deque \in Seq(Entries)
      BY <2>1
    <3> WITNESS deque \in Seq(Entries)
    <3> WITNESS {} \in SUBSET Entries
    <3>. QED  BY <2>1, <3>1, <3>2, <3>3
  <2>. QED  BY <2>2, <2>3
<1>5. PICK D \in SUBSET Entries :
          /\ deque' = Append(q, next) /\ overflow' = overflow \cup D /\ Len(q) < MaxSize
          /\ Range(deque) = D \cup Range(q) /\ Increasing(q) /\ Below(D, Range(q))
  BY <1>4
<1>6. Below(Range(deque), {next}) /\ Below(Range(q), {next}) /\ Below(D, {next})
  BY <1>1, <1>5 DEF Order, Below
<1>7. /\ deque' \in Seq(Entries) /\ Len(deque') = Len(q) + 1
      /\ Range(deque') = Range(q) \cup {next} /\ Increasing(deque')
  BY <1>1, <1>3, <1>5, <1>6, AppendFacts, Types
<1>8. TypeOK'
  <2>1. Len(q) \in Nat /\ MaxSize \in Nat
    BY LenProperties, SizeAssumption
  <2>2. Len(q) + 1 <= MaxSize
    BY <1>5, <2>1
  <2>3. Len(deque') <= MaxSize
    BY <1>7, <2>2
  <2>4. next' \in 0 .. MaxEntries
    BY <1>2, <1>3
  <2>5. overflow' \in SUBSET Entries
    BY <1>1, <1>5 DEF TypeOK
  <2>. QED  BY <1>1, <1>2, <1>7, <2>3, <2>4, <2>5 DEF TypeOK
<1>9. Control'
  BY <1>1, <1>2 DEF Control
<1>10. \A S \in SUBSET Nat : Below(S, {next}) => Below(S, {next'})
  BY <1>2, <1>3 DEF Below
<1>11. Order'
  <2>1. /\ Range(drained) \in SUBSET Nat /\ Range(batch) \in SUBSET Nat /\ Range(log) \in SUBSET Nat
        /\ overflow \in SUBSET Nat /\ D \in SUBSET Nat /\ Range(q) \in SUBSET Nat
        /\ Range(deque) \in SUBSET Nat
    BY <1>1, <1>5, Types DEF TypeOK
  <2>2. /\ Below(Range(drained), {next}) /\ Below(Range(batch), {next}) /\ Below(Range(log), {next})
        /\ Below(overflow, {next})
    BY <1>1 DEF Order
  <2>3. /\ Below(Range(drained), Range(deque')) /\ Below(Range(batch), Range(deque'))
        /\ Below(overflow', Range(deque'))
    BY <1>1, <1>5, <1>6, <1>7, <2>2 DEF Order, Below
  <2>4. Below(Range(deque'), {next'}) /\ Below(overflow', {next'})
    BY <1>2, <1>3, <1>5, <1>6, <1>7, <2>1, <2>2 DEF Below
  <2>5. Below(Range(drained), {next'}) /\ Below(Range(batch), {next'}) /\ Below(Range(log), {next'})
    BY <1>10, <2>1, <2>2
  <2>. QED  BY <1>1, <1>2, <1>7, <2>3, <2>4, <2>5 DEF Order
<1>12. Trail'
  <2>1. ASSUME lifespans <= 1 /\ ~replyLost PROVE Below(Range(log), Range(deque'))
    BY <1>1, <1>5, <1>7, <2>1 DEF Trail, Order, Below
  <2>. QED  BY <1>1, <1>2, <2>1 DEF Trail
<1>13. Loss'
  <2>1. Accounted \cup {next} \subseteq Accounted'
    BY <1>2, <1>5, <1>7 DEF Accounted
  <2>2. \A i \in 0 .. next' - 1 : i = next \/ i \in 0 .. next - 1
    BY <1>2, <1>3
  <2>3. Missing' \subseteq Missing
    BY <2>1, <2>2 DEF Missing
  <2>4. Ended' = Ended
    BY <1>2 DEF Ended
  <2>. QED  BY <1>1, <2>3, <2>4, LossKept
<1>14. Writes'
  <2>1. \A e \in Range(deque') : e \notin Range(log)
    <3>1. next \notin Range(log)
      BY <1>1, <1>3 DEF Order, Below
    <3>2. \A e \in Range(q) : e \in Entries /\ e \notin Range(log)
      BY <1>1, <1>5, Types DEF Writes
    <3>. QED  BY <1>7, <3>1, <3>2
  <2>2. DrainWrites' = DrainWrites
    BY <1>2 DEF DrainWrites
  <2>. QED  BY <1>1, <1>2, <2>1, <2>2 DEF Writes
<1>. QED  BY <1>8, <1>9, <1>11, <1>12, <1>13, <1>14 DEF IInv

\* A new lifespan moves no entry, and its loop has not ended yet.
LEMMA StartStep == ASSUME IInv, Start \/ StartupFails PROVE IInv'
<1>1. TypeOK /\ Control /\ Order /\ Trail /\ Loss /\ Writes
  BY DEF IInv
<1>2. /\ ~up /\ up' = TRUE /\ lifespans' = lifespans + 1 /\ lifespans < MaxLifespans
      /\ UNCHANGED <<deque, batch, elapsed, stopper, drained, log, replyLost, next, overflow, gaveUp>>
      /\ running' \in BOOLEAN /\ task' \in {"created", task}
  <2>1. CASE Start
    BY <1>1, <2>1 DEF Start, neo4j
  <2>2. CASE StartupFails
    BY <1>1, <2>2, SizeAssumption, Types DEF StartupFails, neo4j, TypeOK
  <2>. QED  BY <2>1, <2>2
<1>3. lifespans \in Nat /\ MaxLifespans \in Nat /\ stopper = "idle" /\ task = "none"
  BY <1>1, <1>2, Types, SizeAssumption DEF Control
<1>4. TypeOK'
  <2>1. lifespans' \in 0 .. MaxLifespans
    BY <1>2, <1>3
  <2>. QED  BY <1>1, <1>2, <2>1 DEF TypeOK
<1>5. Control'
  BY <1>1, <1>2, <1>3 DEF Control
<1>6. Order'
  BY <1>1, <1>2 DEF Order
<1>7. Trail'
  <2>1. lifespans' <= 1 => lifespans = 0
    BY <1>2, <1>3
  <2>2. lifespans' # 0
    BY <1>2, <1>3
  <2>. QED  BY <1>1, <1>2, <1>3, <2>1, <2>2 DEF Trail
<1>8. Loss'
  <2>1. Missing' = Missing
    BY <1>2 DEF Missing, Accounted
  <2>2. Ended' = Ended
    BY <1>2, <1>3 DEF Ended
  <2>. QED  BY <1>1, <2>1, <2>2, LossKept
<1>9. Writes'
  <2>1. DrainWrites' = DrainWrites
    BY <1>2, <1>3 DEF DrainWrites
  <2>2. 2 * lifespans <= 2 * (lifespans + 1) /\ 2 * lifespans \in Nat /\ 2 * (lifespans + 1) \in Nat
    BY <1>3
  <2>3. \A e : Cardinality(Places(log, e)) \in Nat
    BY <1>1, Types, PlacesConcat
  <2>4. \A e \in Entries : Cardinality(Places(log, e)) <= 2 * (lifespans + 1)
    BY <1>1, <2>2, <2>3 DEF Writes
  <2>. QED  BY <1>1, <1>2, <2>1, <2>4 DEF Writes
<1>. QED  BY <1>4, <1>5, <1>6, <1>7, <1>8, <1>9 DEF IInv

LEMMA TicksType == ASSUME TypeOK PROVE TicksNow \in 0 .. FlushTicks
BY SizeAssumption DEF TypeOK, TicksNow

LEMMA LoopIdleStep == ASSUME IInv, LoopIdle PROVE IInv'
<1>1. TypeOK /\ Control /\ Order /\ Trail /\ Loss /\ Writes
  BY DEF IInv
<1>2. /\ task \in {"created", "sleep"} /\ task' = "sleep" /\ elapsed' = TicksNow
      /\ UNCHANGED <<deque, running, batch, stopper, drained, log, replyLost, next, overflow,
                     gaveUp, up, lifespans>>
  BY DEF LoopIdle, neo4j, lifecycle
<1>3. TypeOK'
  BY <1>1, <1>2, TicksType DEF TypeOK
<1>4. Control' /\ Order' /\ Trail'
  BY <1>1, <1>2 DEF Control, Order, Trail
<1>5. Missing' = Missing /\ Ended' = Ended /\ DrainWrites' = DrainWrites
  BY <1>2 DEF Missing, Accounted, Ended, DrainWrites
<1>6. Loss'
  BY <1>1, <1>5, LossKept
<1>7. Writes'
  BY <1>1, <1>2, <1>5 DEF Writes
<1>. QED  BY <1>3, <1>4, <1>6, <1>7 DEF IInv

\* stop() with a flush loop to cancel.
LEMMA StopAwaitStep ==
    ASSUME IInv, StopBegin, task # "none" PROVE IInv'
<1>1. TypeOK /\ Control /\ Order /\ Trail /\ Loss /\ Writes
  BY DEF IInv
<1>2. /\ stopper = "idle" /\ up /\ running' = FALSE /\ stopper' = "await_task"
      /\ UNCHANGED <<deque, drained, log, replyLost, up, task, batch, elapsed, next, overflow,
                     gaveUp, lifespans>>
  BY DEF StopBegin, neo4j
<1>3. lifespans \in Nat
  BY <1>1, Types
<1>4. TypeOK'
  BY <1>1, <1>2 DEF TypeOK
<1>5. Control' /\ Order' /\ Trail'
  BY <1>1, <1>2 DEF Control, Order, Trail
<1>6. Missing' = Missing /\ DrainWrites' = DrainWrites
  BY <1>2 DEF Missing, Accounted, DrainWrites
<1>7. Ended' \in {Ended, Ended + 1}
  BY <1>2, <1>3 DEF Ended
<1>8. Loss'
  BY <1>1, <1>6, <1>7, LossKept
<1>9. Writes'
  BY <1>1, <1>2, <1>6 DEF Writes
<1>. QED  BY <1>4, <1>5, <1>8, <1>9 DEF IInv

\* Cancelling the loop inside its retry sleep loses the batch: the one real loss.
LEMMA TaskCancelledStep == ASSUME IInv, TaskCancelled PROVE IInv'
<1>1. TypeOK /\ Control /\ Order /\ Trail /\ Loss /\ Writes
  BY DEF IInv
<1>2. /\ stopper = "await_task" /\ task # "cancelled" /\ task' = "cancelled" /\ batch' = <<>>
      /\ UNCHANGED <<deque, running, elapsed, stopper, drained, log, replyLost, next, overflow,
                     gaveUp, up, lifespans>>
  BY DEF TaskCancelled, neo4j, lifecycle
<1>3. /\ lifespans \in Nat /\ up /\ <<>> \in Seq(Entries) /\ Len(<<>>) = 0
      /\ BatchSize \in Nat /\ Range(<<>>) = {} /\ Increasing(<<>>)
  BY <1>1, <1>2, Types, EmptySeq, EmptyRange, SizeAssumption DEF Control
<1>4. TypeOK'
  BY <1>1, <1>2, <1>3 DEF TypeOK
<1>5. Control'
  BY <1>1, <1>2 DEF Control
<1>6. Order'
  BY <1>1, <1>2, <1>3 DEF Order, Below
<1>7. Trail'
  BY <1>1, <1>2, <1>3 DEF Trail, Below
<1>8. Loss'
  <2>1. /\ IsFiniteSet(Missing) /\ Cardinality(Missing) \in Nat
        /\ Ended \in Nat /\ Ended = lifespans - 1
    BY <1>1, <1>2, <1>3, MissingFinite, EndedType DEF Ended
  <2>2. Missing' \in SUBSET (Missing \cup Range(batch))
    BY <1>2, <1>3 DEF Missing, Accounted
  <2>3. IsFiniteSet(Range(batch)) /\ Cardinality(Range(batch)) <= BatchSize
        /\ Cardinality(Range(batch)) \in Nat
    <3>1. batch \in Seq(Entries) /\ Len(batch) <= BatchSize /\ Len(batch) \in Nat
          /\ DOMAIN batch = 1 .. Len(batch) /\ Range(batch) = {batch[i] : i \in 1 .. Len(batch)}
      BY <1>1, LenProperties, RangeIndex DEF TypeOK
    <3>2. batch \in Surjection(1 .. Len(batch), Range(batch))
      BY <3>1, LenProperties DEF Surjection
    <3>3. IsFiniteSet(1 .. Len(batch)) /\ Cardinality(1 .. Len(batch)) = Len(batch)
      BY <3>1, FS_Interval
    <3>4. IsFiniteSet(Range(batch)) /\ Cardinality(Range(batch)) <= Len(batch)
      BY <3>2, <3>3, FS_Surjection
    <3>. QED  BY <1>3, <3>1, <3>4, FS_CardinalityType
  <2>4. /\ IsFiniteSet(Missing \cup Range(batch))
        /\ Cardinality(Missing \cup Range(batch)) <= Cardinality(Missing) + Cardinality(Range(batch))
        /\ Cardinality(Missing \cup Range(batch)) \in Nat
    <3>1. /\ IsFiniteSet(Missing \cup Range(batch))
          /\ Cardinality(Missing \cup Range(batch)) = Cardinality(Missing)
                + Cardinality(Range(batch)) - Cardinality(Missing \cap Range(batch))
      BY <2>1, <2>3, FS_Union
    <3>2. Missing \cap Range(batch) \in SUBSET Missing
      OBVIOUS
    <3>3. Cardinality(Missing \cap Range(batch)) \in Nat
      BY <2>1, <3>2, FS_Subset, FS_CardinalityType
    <3>4. Cardinality(Missing \cup Range(batch)) \in Nat
      BY <3>1, FS_CardinalityType
    <3>. QED  BY <2>1, <2>3, <3>1, <3>3, <3>4
  <2>5. Cardinality(Missing') <= Cardinality(Missing \cup Range(batch))
        /\ Cardinality(Missing') \in Nat
    BY <2>2, <2>4, FS_Subset, FS_CardinalityType
  <2>6. PICK c \in Nat : c = Cardinality(Missing')
    BY <2>5
  <2>7. Cardinality(Missing) <= BatchSize * Ended
    BY <1>1 DEF Loss
  <2>8. /\ BatchSize * (Ended + 1) = BatchSize * Ended + BatchSize
        /\ BatchSize * Ended \in Nat
    BY <1>3, <2>1, Grow
  <2>9. c <= BatchSize * Ended + BatchSize
    BY <1>3, <2>1, <2>3, <2>4, <2>5, <2>6, <2>7, <2>8
  <2>10. Ended' = Ended + 1
    BY <1>2, <1>3, <2>1 DEF Ended
  <2>11. (Cardinality(Missing) <= BatchSize * Ended)'
    BY <2>6, <2>8, <2>9, <2>10
  <2>. QED  BY <2>11 DEF Loss
<1>9. Writes'
  <2>1. DrainWrites' = DrainWrites
    BY <1>2 DEF DrainWrites
  <2>. QED  BY <1>1, <1>2, <1>3, <2>1 DEF Writes
<1>. QED  BY <1>4, <1>5, <1>6, <1>7, <1>8, <1>9 DEF IInv

-----------------------------------------------------------------------------
(* The flush loop.                                                          *)

LEMMA LoopFlushStep == ASSUME IInv, LoopFlush PROVE IInv'
<1> DEFINE b == SubSeq(deque, 1, Popped)
           rest == SubSeq(deque, Popped + 1, Len(deque))
<1>1. TypeOK /\ Control /\ Order /\ Trail /\ Loss /\ Writes
  BY DEF IInv
<1>2. /\ task \in {"created", "sleep"} /\ deque' = rest
      /\ UNCHANGED <<running, stopper, drained, next, overflow, gaveUp, up, lifespans>>
  BY DEF LoopFlush, lifecycle
<1>3. \/ /\ InsertCommits(b) /\ task' = "sleep" /\ elapsed' = 0 /\ batch' = <<>>
      \/ /\ InsertRaises(b) /\ task' = "retry" /\ elapsed' = TicksNow /\ batch' = b
  BY DEF LoopFlush
<1>4. Popped \in 0 .. Len(deque) /\ Popped <= BatchSize /\ Len(deque) \in Nat
  BY <1>1, Types, SizeAssumption DEF Popped
<1>5. /\ b \in Seq(Entries) /\ rest \in Seq(Entries) /\ Len(b) = Popped /\ Len(rest) <= Len(deque)
      /\ Range(deque) = Range(b) \cup Range(rest)
      /\ Increasing(b) /\ Increasing(rest) /\ Below(Range(b), Range(rest))
  BY <1>1, <1>4, Types, SplitFacts DEF TypeOK, Order
<1> HIDE DEF b, rest
<1>6. /\ log' = log \/ log' = log \o b
      /\ \/ log' = log \o b /\ replyLost' = replyLost /\ batch' = <<>>
         \/ log' = log /\ replyLost' = replyLost /\ batch' = b
         \/ replyLost' = TRUE /\ batch' = b
  BY <1>3, InsertFacts
<1>7. /\ batch = <<>> /\ Range(batch) = {} /\ Range(<<>>) = {} /\ Increasing(<<>>)
      /\ <<>> \in Seq(Entries) /\ Len(<<>>) = 0
  BY <1>1, <1>2, EmptyRange, EmptySeq DEF Control
<1>8. /\ log' \in Seq(Entries)
      /\ Range(log) \subseteq Range(log') /\ Range(log') \subseteq Range(log) \cup Range(b)
      /\ \A e : /\ Cardinality(Places(log, e)) \in Nat /\ Cardinality(Places(log', e)) \in Nat
                /\ e \notin Range(b) => Places(log', e) = Places(log, e)
                /\ e \notin Range(log) => Cardinality(Places(log, e)) = 0
                /\ Cardinality(Places(log', e)) <= Cardinality(Places(log, e)) + 1
  BY <1>1, <1>5, <1>6, WriteFacts
<1>9. Range(batch') \subseteq Range(b) /\ Increasing(batch') /\ batch' \in Seq(Entries)
      /\ Len(batch') <= BatchSize
  <2>1. batch' = <<>> \/ batch' = b
    BY <1>6
  <2>2. CASE batch' = <<>>
    BY <1>7, <2>2, SizeAssumption
  <2>3. CASE batch' = b
    BY <1>4, <1>5, <2>3
  <2>. QED  BY <2>1, <2>2, <2>3
<1>10. TypeOK'
  <2>1. Len(deque') <= MaxSize
    <3>1. Len(rest) \in Nat /\ MaxSize \in Nat /\ Len(deque) <= MaxSize
      BY <1>1, <1>5, LenProperties, SizeAssumption DEF TypeOK
    <3>2. Len(rest) <= MaxSize
      BY <1>4, <1>5, <3>1
    <3>. QED  BY <1>2, <3>2
  <2>2. replyLost' \in BOOLEAN
    BY <1>1, <1>6 DEF TypeOK
  <2>3. elapsed' \in 0 .. FlushTicks /\ task' \in {"sleep", "retry"}
    BY <1>1, <1>3, TicksType, SizeAssumption
  <2>. QED  BY <1>1, <1>2, <1>5, <1>8, <1>9, <2>1, <2>2, <2>3 DEF TypeOK
<1>11. Control'
  BY <1>1, <1>2, <1>3 DEF Control
<1>12. Order'
  <2>1. Range(deque') \subseteq Range(deque) /\ Range(batch') \subseteq Range(deque)
        /\ Range(log') \subseteq Range(log) \cup Range(deque)
    BY <1>2, <1>5, <1>8, <1>9
  <2>2. Below(Range(batch'), Range(deque'))
    BY <1>2, <1>5, <1>9 DEF Below
  <2>. QED  BY <1>1, <1>2, <1>5, <1>9, <2>1, <2>2 DEF Order, Below
<1>13. Trail'
  <2>1. CASE lifespans <= 1 /\ ~replyLost'
    <3>1. Increasing(log) /\ Below(Range(log), Range(deque)) /\ ~replyLost
      BY <1>1, <1>6, <2>1 DEF Trail
    <3>2. Below(Range(log), Range(b)) /\ Below(Range(log), Range(rest))
      BY <1>5, <3>1 DEF Below
    <3>3. b \in Seq(Nat) /\ log \in Seq(Nat)
      BY <1>1, <1>5, Types, SeqMonotonic
    <3>4. Increasing(log')
      BY <1>5, <1>6, <3>1, <3>2, <3>3, ConcatFacts
    <3>5. Below(Range(log'), Range(deque'))
      BY <1>2, <1>5, <1>8, <3>2 DEF Below
    <3>6. Below(Range(log'), Range(batch'))
      <4>1. CASE batch' = <<>>
        BY <1>7, <4>1 DEF Below
      <4>2. CASE log' = log
        BY <1>9, <3>2, <4>2 DEF Below
      <4>. QED  BY <1>6, <2>1, <4>1, <4>2
    <3>7. stopper # "retry"
      BY <1>1, <1>2 DEF Control
    <3>. QED  BY <1>1, <1>2, <2>1, <3>1, <3>4, <3>5, <3>6, <3>7 DEF Trail
  <2>2. CASE ~(lifespans <= 1 /\ ~replyLost')
    BY <1>1, <1>2, <2>2 DEF Trail
  <2>. QED  BY <2>1, <2>2
<1>14. Loss'
  <2>1. Range(b) \subseteq Range(log') \cup Range(batch')
    <3>1. CASE log' = log \o b
      <4>1. b \in Seq(Nat) /\ log \in Seq(Nat)
        BY <1>1, <1>5, Types, SeqMonotonic
      <4>. QED  BY <3>1, <4>1, ConcatFacts
    <3>2. CASE batch' = b
      BY <3>2
    <3>. QED  BY <1>6, <3>1, <3>2
  <2>2. Accounted \subseteq Accounted'
    BY <1>2, <1>5, <1>7, <1>8, <2>1 DEF Accounted
  <2>3. Missing' \subseteq Missing
    BY <1>2, <2>2 DEF Missing
  <2>4. Ended' = Ended
    BY <1>2, <1>3 DEF Ended
  <2>. QED  BY <1>1, <2>3, <2>4, LossKept
<1>15. Writes'
  <2> SUFFICES ASSUME NEW e \in Entries
               PROVE  /\ e \in Range(deque') => e \notin Range(log')
                      /\ e \in Range(batch') => Cardinality(Places(log', e)) <= 1
                      /\ e \in Range(drained') => Cardinality(Places(log', e)) <= DrainWrites'
                      /\ Cardinality(Places(log', e)) <= 2 * lifespans'
    BY DEF Writes
  <2>1. /\ e \in Range(deque) => e \notin Range(log)
        /\ e \in Range(drained) => Cardinality(Places(log, e)) <= DrainWrites
        /\ Cardinality(Places(log, e)) <= 2 * lifespans
    BY <1>1 DEF Writes
  <2>2. DrainWrites' = DrainWrites /\ lifespans' = lifespans /\ lifespans \in Nat /\ e \in Nat
    BY <1>1, <1>2, Types DEF DrainWrites
  <2>3. CASE e \in Range(b)
    <3>1. e \notin Range(rest)
      BY <1>5, <2>2, <2>3 DEF Below
    <3>2. e \notin Range(drained)
      BY <1>1, <1>5, <2>2, <2>3 DEF Order, Below
    <3>3. Cardinality(Places(log', e)) <= 1 /\ Cardinality(Places(log', e)) \in Nat
      BY <1>5, <1>8, <2>1, <2>3
    <3>4. lifespans # 0
      <4>1. e < next
        BY <1>1, <1>5, <2>3 DEF Order, Below
      <4>. QED  BY <1>1, <2>2, <4>1 DEF Control
    <3>5. PICK c \in Nat : c = Cardinality(Places(log', e))
      BY <3>3
    <3>6. c <= 2 * lifespans
      BY <2>2, <3>3, <3>4, <3>5
    <3>. QED  BY <1>2, <2>2, <3>1, <3>2, <3>3, <3>5, <3>6
  <2>4. CASE e \notin Range(b)
    <3>1. Places(log', e) = Places(log, e) /\ e \notin Range(batch')
      BY <1>8, <1>9, <2>4
    <3>. QED  BY <1>2, <1>5, <1>8, <2>1, <2>2, <2>4, <3>1
  <2>. QED  BY <2>3, <2>4
<1>. QED  BY <1>10, <1>11, <1>12, <1>13, <1>14, <1>15 DEF IInv

LEMMA LoopRetryStep == ASSUME IInv, LoopRetry PROVE IInv'
<1>1. TypeOK /\ Control /\ Order /\ Trail /\ Loss /\ Writes
  BY DEF IInv
<1>2. /\ task = "retry" /\ batch' = <<>> /\ task' = "sleep" /\ elapsed' = 0
      /\ UNCHANGED <<deque, running, stopper, drained, next, overflow, up, lifespans>>
  BY DEF LoopRetry, lifecycle
<1>3. \/ InsertCommits(batch) /\ gaveUp' = gaveUp
      \/ InsertRaises(batch) /\ gaveUp' = gaveUp \cup Range(batch)
  BY DEF LoopRetry
<1>4. /\ log' = log \/ log' = log \o batch
      /\ \/ log' = log \o batch /\ replyLost' = replyLost /\ gaveUp' = gaveUp
         \/ log' = log /\ replyLost' = replyLost /\ gaveUp' = gaveUp \cup Range(batch)
         \/ replyLost' = TRUE /\ gaveUp' = gaveUp \cup Range(batch)
  BY <1>3, InsertFacts
<1>5. batch \in Seq(Entries) /\ Increasing(batch) /\ batch \in Seq(Nat) /\ log \in Seq(Nat)
      /\ Range(batch) \subseteq Entries
  BY <1>1, Types DEF TypeOK, Order
<1>6. Range(<<>>) = {} /\ Increasing(<<>>) /\ <<>> \in Seq(Entries) /\ Len(<<>>) = 0
  BY EmptyRange, EmptySeq
<1>7. /\ log' \in Seq(Entries)
      /\ Range(log) \subseteq Range(log') /\ Range(log') \subseteq Range(log) \cup Range(batch)
      /\ \A e : /\ Cardinality(Places(log, e)) \in Nat /\ Cardinality(Places(log', e)) \in Nat
                /\ e \notin Range(batch) => Places(log', e) = Places(log, e)
                /\ e \notin Range(log) => Cardinality(Places(log, e)) = 0
                /\ Cardinality(Places(log', e)) <= Cardinality(Places(log, e)) + 1
  BY <1>1, <1>4, <1>5, WriteFacts
<1>8. TypeOK'
  <2>1. replyLost' \in BOOLEAN /\ gaveUp' \in SUBSET Entries
    BY <1>1, <1>4, <1>5 DEF TypeOK
  <2>2. 0 \in 0 .. FlushTicks /\ 0 <= BatchSize
    BY SizeAssumption
  <2>. QED  BY <1>1, <1>2, <1>6, <1>7, <2>1, <2>2 DEF TypeOK
<1>9. Control'
  BY <1>1, <1>2 DEF Control
<1>10. Order'
  BY <1>1, <1>2, <1>6, <1>7 DEF Order, Below
<1>11. Trail'
  <2>1. CASE lifespans <= 1 /\ ~replyLost'
    <3>1. /\ Increasing(log) /\ Below(Range(log), Range(deque)) /\ ~replyLost
          /\ Below(Range(log), Range(batch)) /\ Below(Range(batch), Range(deque))
      BY <1>1, <1>4, <2>1 DEF Trail, Order
    <3>2. Increasing(log')
      BY <1>4, <1>5, <3>1, ConcatFacts
    <3>3. Below(Range(log'), Range(deque')) /\ Below(Range(log'), Range(batch'))
      BY <1>2, <1>6, <1>7, <3>1 DEF Below
    <3>4. stopper # "retry"
      BY <1>1, <1>2 DEF Control
    <3>. QED  BY <1>1, <1>2, <2>1, <3>1, <3>2, <3>3, <3>4 DEF Trail
  <2>2. CASE ~(lifespans <= 1 /\ ~replyLost')
    BY <1>1, <1>2, <2>2 DEF Trail
  <2>. QED  BY <2>1, <2>2
<1>12. Loss'
  <2>1. Range(batch) \subseteq Range(log') \cup gaveUp' /\ gaveUp \subseteq gaveUp'
    BY <1>4, <1>5, ConcatFacts
  <2>2. Accounted \subseteq Accounted'
    BY <1>2, <1>7, <2>1 DEF Accounted
  <2>3. Missing' \subseteq Missing
    BY <1>2, <2>2 DEF Missing
  <2>4. Ended' = Ended
    BY <1>2 DEF Ended
  <2>. QED  BY <1>1, <2>3, <2>4, LossKept
<1>13. Writes'
  <2> SUFFICES ASSUME NEW e \in Entries
               PROVE  /\ e \in Range(deque') => e \notin Range(log')
                      /\ e \in Range(batch') => Cardinality(Places(log', e)) <= 1
                      /\ e \in Range(drained') => Cardinality(Places(log', e)) <= DrainWrites'
                      /\ Cardinality(Places(log', e)) <= 2 * lifespans'
    BY DEF Writes
  <2>1. /\ e \in Range(deque) => e \notin Range(log)
        /\ e \in Range(batch) => Cardinality(Places(log, e)) <= 1
        /\ e \in Range(drained) => Cardinality(Places(log, e)) <= DrainWrites
        /\ Cardinality(Places(log, e)) <= 2 * lifespans
    BY <1>1 DEF Writes
  <2>2. DrainWrites' = DrainWrites /\ lifespans' = lifespans /\ lifespans \in Nat /\ e \in Nat
    BY <1>1, <1>2, Types DEF DrainWrites
  <2>3. CASE e \in Range(batch)
    <3>1. e \notin Range(deque) /\ e \notin Range(drained) /\ e < next
      BY <1>1, <2>2, <2>3 DEF Order, Below
    <3>2. Cardinality(Places(log', e)) <= 2 /\ Cardinality(Places(log', e)) \in Nat
      BY <1>7, <2>1, <2>3
    <3>3. lifespans # 0
      BY <1>1, <2>2, <3>1 DEF Control
    <3>4. PICK c \in Nat : c = Cardinality(Places(log', e))
      BY <3>2
    <3>5. c <= 2 * lifespans
      BY <2>2, <3>2, <3>3, <3>4
    <3>. QED  BY <1>2, <1>6, <2>2, <3>1, <3>4, <3>5
  <2>4. CASE e \notin Range(batch)
    <3>1. Places(log', e) = Places(log, e)
      BY <1>7, <2>4
    <3>. QED  BY <1>2, <1>6, <1>7, <2>1, <2>2, <2>4, <3>1
  <2>. QED  BY <2>3, <2>4
<1>. QED  BY <1>8, <1>9, <1>10, <1>11, <1>12, <1>13 DEF IInv

-----------------------------------------------------------------------------
(* The drain of stop().                                                     *)

\* What both callers of the final drain have in common.
LEMMA FinalDrainStep ==
    ASSUME IInv, FinalDrain, up, stopper # "retry", task \in {"none", "cancelled"},
           task' = "none", running' \in BOOLEAN,
           UNCHANGED <<batch, elapsed, next, overflow, gaveUp, lifespans>>
    PROVE  IInv'
<1> DEFINE d == drained \o deque
<1>1. TypeOK /\ Control /\ Order /\ Trail /\ Loss /\ Writes
  BY DEF IInv
<1>2. /\ drained \in Seq(Entries) /\ deque \in Seq(Entries) /\ drained \in Seq(Nat)
      /\ deque \in Seq(Nat) /\ log \in Seq(Nat)
      /\ Increasing(drained) /\ Increasing(deque) /\ Below(Range(drained), Range(deque))
  BY <1>1, Types DEF TypeOK, Order
<1>3. /\ d \in Seq(Entries) /\ d \in Seq(Nat) /\ Increasing(d)
      /\ Range(d) = Range(drained) \cup Range(deque)
  BY <1>2, ConcatProperties, ConcatFacts
<1>4. /\ deque' = <<>> /\ drained' = d
      /\ \/ /\ d = <<>> /\ stopper' = "idle" /\ up' = FALSE /\ UNCHANGED neo4j
         \/ /\ InsertCommits(d) /\ stopper' = "idle" /\ up' = FALSE
         \/ /\ InsertRaises(d) /\ stopper' = "retry" /\ up' = up
  BY DEF FinalDrain
<1> HIDE DEF d
<1>5. \/ /\ stopper' = "idle" /\ up' = FALSE /\ replyLost' = replyLost
         /\ log' = log \/ log' = log \o d
         /\ Range(d) \subseteq Range(log')
      \/ /\ stopper' = "retry" /\ up' = TRUE
         /\ log' = log \/ log' = log \o d
         /\ (log' = log /\ replyLost' = replyLost) \/ replyLost' = TRUE
  <2>1. CASE d = <<>> /\ stopper' = "idle" /\ up' = FALSE /\ UNCHANGED neo4j
    BY <2>1, EmptyRange DEF neo4j
  <2>2. CASE InsertCommits(d) /\ stopper' = "idle" /\ up' = FALSE
    <3>1. Range(log \o d) = Range(log) \cup Range(d)
      BY <1>2, <1>3, ConcatFacts
    <3>. QED  BY <2>2, <3>1, InsertFacts
  <2>3. CASE InsertRaises(d) /\ stopper' = "retry" /\ up' = up
    BY <2>3, InsertFacts
  <2>. QED  BY <1>4, <2>1, <2>2, <2>3
<1>6. log' = log \/ log' = log \o d
  BY <1>5
<1>7. /\ batch = <<>> /\ batch' = <<>> /\ Range(<<>>) = {} /\ Increasing(<<>>)
      /\ <<>> \in Seq(Entries) /\ Len(<<>>) = 0
  BY <1>1, EmptyRange, EmptySeq DEF Control
<1>8. /\ log' \in Seq(Entries)
      /\ Range(log) \subseteq Range(log') /\ Range(log') \subseteq Range(log) \cup Range(d)
      /\ \A e : /\ Cardinality(Places(log, e)) \in Nat /\ Cardinality(Places(log', e)) \in Nat
                /\ e \notin Range(d) => Places(log', e) = Places(log, e)
                /\ e \notin Range(log) => Cardinality(Places(log, e)) = 0
                /\ Cardinality(Places(log', e)) <= Cardinality(Places(log, e)) + 1
  BY <1>1, <1>3, <1>6, WriteFacts
<1>9. lifespans \in Nat /\ lifespans # 0
  BY <1>1, Types DEF Control
<1>10. TypeOK'
  <2>1. replyLost' \in BOOLEAN /\ up' \in BOOLEAN /\ stopper' \in {"idle", "retry"}
    BY <1>1, <1>5 DEF TypeOK
  <2>2. Len(deque') <= MaxSize
    BY <1>4, <1>7, SizeAssumption
  <2>. QED  BY <1>1, <1>3, <1>4, <1>7, <1>8, <2>1, <2>2 DEF TypeOK
<1>11. Control'
  BY <1>1, <1>5, <1>7, <1>9 DEF Control
<1>12. Order'
  <2>1. Range(deque') = {} /\ Range(batch') = {} /\ Range(drained') = Range(drained) \cup Range(deque)
        /\ Range(log') \subseteq Range(log) \cup Range(drained) \cup Range(deque)
    BY <1>3, <1>4, <1>7, <1>8
  <2>. QED  BY <1>1, <1>3, <1>4, <1>7, <2>1 DEF Order, Below
<1>13. Trail'
  <2>1. CASE lifespans <= 1 /\ ~replyLost'
    <3>1. ~replyLost
      BY <1>5, <2>1
    <3>2. drained = <<>> /\ Increasing(log) /\ Below(Range(log), Range(deque))
      BY <1>1, <2>1, <3>1 DEF Trail
    <3>3. Below(Range(log), Range(d))
      BY <1>3, <1>7, <3>2
    <3>4. Increasing(log')
      BY <1>2, <1>3, <1>6, <3>2, <3>3, ConcatFacts
    <3>5. Below(Range(log'), Range(deque')) /\ Below(Range(log'), Range(batch'))
      BY <1>4, <1>7 DEF Below
    <3>6. stopper' = "retry" => Below(Range(log'), Range(drained'))
      BY <1>4, <1>5, <2>1, <3>3
    <3>7. up' => stopper' = "retry"
      BY <1>5
    <3>. QED  BY <1>9, <3>4, <3>5, <3>6, <3>7 DEF Trail
  <2>2. CASE ~(lifespans <= 1 /\ ~replyLost')
    BY <1>9, <2>2 DEF Trail
  <2>. QED  BY <2>1, <2>2
<1>14. Loss'
  <2>1. Accounted \subseteq Accounted'
    BY <1>3, <1>4, <1>5, <1>7, <1>8 DEF Accounted
  <2>2. Missing' \subseteq Missing
    BY <2>1 DEF Missing
  <2>3. Ended' = lifespans
    BY <1>5 DEF Ended
  <2>4. Ended \in {lifespans, lifespans - 1}
    BY DEF Ended
  <2>5. Ended' \in {Ended, Ended + 1}
    BY <1>9, <2>3, <2>4
  <2>. QED  BY <1>1, <2>2, <2>5, LossKept
<1>15. Writes'
  <2> SUFFICES ASSUME NEW e \in Entries
               PROVE  /\ e \in Range(deque') => e \notin Range(log')
                      /\ e \in Range(batch') => Cardinality(Places(log', e)) <= 1
                      /\ e \in Range(drained') => Cardinality(Places(log', e)) <= DrainWrites'
                      /\ Cardinality(Places(log', e)) <= 2 * lifespans'
    BY DEF Writes
  <2>1. /\ e \in Range(deque) => e \notin Range(log)
        /\ e \in Range(drained) => Cardinality(Places(log, e)) <= DrainWrites
        /\ Cardinality(Places(log, e)) <= 2 * lifespans
    BY <1>1 DEF Writes
  <2>2. e \notin Range(deque') /\ e \notin Range(batch')
    BY <1>4, <1>7
  <2>3. CASE e \in Range(d)
    <3>1. DrainWrites = 2 * lifespans - 2
      BY DEF DrainWrites
    <3>2. Cardinality(Places(log, e)) <= 2 * lifespans - 2
      <4>1. CASE e \in Range(drained)
        BY <2>1, <3>1, <4>1
      <4>2. CASE e \in Range(deque)
        <5>1. Cardinality(Places(log, e)) = 0
          BY <1>8, <2>1, <4>2
        <5>. QED  BY <1>9, <5>1
      <4>. QED  BY <1>3, <2>3, <4>1, <4>2
    <3>3. PICK c \in Nat : c = Cardinality(Places(log', e))
      BY <1>8
    <3>4. c <= 2 * lifespans - 1
      BY <1>8, <1>9, <3>2, <3>3
    <3>5. c <= 2 * lifespans
      BY <1>9, <3>4
    <3>6. DrainWrites' = 2 * lifespans \/ DrainWrites' = 2 * lifespans - 1
      <4>1. CASE up' = FALSE
        <5>1. DrainWrites' = 2 * lifespans - 0
          BY <4>1 DEF DrainWrites
        <5>. QED  BY <1>9, <5>1
      <4>2. CASE up' = TRUE /\ stopper' = "retry"
        BY <4>2 DEF DrainWrites
      <4>. QED  BY <1>5, <4>1, <4>2
    <3>. QED  BY <2>2, <3>3, <3>4, <3>5, <3>6
  <2>4. CASE e \notin Range(d)
    <3>1. Places(log', e) = Places(log, e) /\ e \notin Range(drained')
      BY <1>4, <1>8, <2>4
    <3>. QED  BY <2>1, <2>2, <3>1
  <2>. QED  BY <2>3, <2>4
<1>. QED  BY <1>10, <1>11, <1>12, <1>13, <1>14, <1>15 DEF IInv

LEMMA StopRetryStep == ASSUME IInv, StopRetry PROVE IInv'
<1>1. TypeOK /\ Control /\ Order /\ Trail /\ Loss /\ Writes
  BY DEF IInv
<1>2. /\ stopper = "retry" /\ stopper' = "idle" /\ up' = FALSE
      /\ UNCHANGED <<deque, running, task, batch, elapsed, drained, next, overflow, lifespans>>
  BY DEF StopRetry
<1>3. \/ InsertCommits(drained) /\ gaveUp' = gaveUp
      \/ InsertRaises(drained) /\ gaveUp' = gaveUp \cup Range(drained)
  BY DEF StopRetry
<1>4. /\ log' = log \/ log' = log \o drained
      /\ \/ log' = log \o drained /\ replyLost' = replyLost /\ gaveUp' = gaveUp
         \/ log' = log /\ replyLost' = replyLost /\ gaveUp' = gaveUp \cup Range(drained)
         \/ replyLost' = TRUE /\ gaveUp' = gaveUp \cup Range(drained)
  BY <1>3, InsertFacts
<1>5. drained \in Seq(Entries) /\ Increasing(drained) /\ drained \in Seq(Nat) /\ log \in Seq(Nat)
      /\ Range(drained) \subseteq Entries
  BY <1>1, Types DEF TypeOK, Order
<1>6. /\ log' \in Seq(Entries)
      /\ Range(log) \subseteq Range(log') /\ Range(log') \subseteq Range(log) \cup Range(drained)
      /\ \A e : /\ Cardinality(Places(log, e)) \in Nat /\ Cardinality(Places(log', e)) \in Nat
                /\ e \notin Range(drained) => Places(log', e) = Places(log, e)
                /\ e \notin Range(log) => Cardinality(Places(log, e)) = 0
                /\ Cardinality(Places(log', e)) <= Cardinality(Places(log, e)) + 1
  BY <1>1, <1>4, <1>5, WriteFacts
<1>7. up /\ lifespans \in Nat /\ task = "none" /\ batch = <<>> /\ Range(batch) = {}
  BY <1>1, <1>2, Types, EmptyRange DEF Control, TypeOK
<1>8. TypeOK'
  <2>1. replyLost' \in BOOLEAN /\ gaveUp' \in SUBSET Entries
    BY <1>1, <1>4, <1>5 DEF TypeOK
  <2>. QED  BY <1>1, <1>2, <1>6, <2>1 DEF TypeOK
<1>9. Control'
  BY <1>1, <1>2, <1>7 DEF Control
<1>10. Order'
  BY <1>1, <1>2, <1>6 DEF Order, Below
<1>11. Trail'
  <2>1. CASE lifespans <= 1 /\ ~replyLost'
    <3>1. /\ Increasing(log) /\ Below(Range(log), Range(deque)) /\ ~replyLost
          /\ Below(Range(log), Range(drained)) /\ Below(Range(drained), Range(deque))
      BY <1>1, <1>2, <1>4, <2>1 DEF Trail, Order
    <3>2. Increasing(log')
      BY <1>4, <1>5, <3>1, ConcatFacts
    <3>3. Below(Range(log'), Range(deque')) /\ Below(Range(log'), Range(batch'))
      BY <1>2, <1>6, <1>7, <3>1 DEF Below
    <3>. QED  BY <1>1, <1>2, <2>1, <3>2, <3>3 DEF Trail
  <2>2. CASE ~(lifespans <= 1 /\ ~replyLost')
    BY <1>1, <1>2, <2>2 DEF Trail
  <2>. QED  BY <2>1, <2>2
<1>12. Loss'
  <2>1. Range(drained) \subseteq Range(log') \cup gaveUp' /\ gaveUp \subseteq gaveUp'
    BY <1>4, <1>5, ConcatFacts
  <2>2. Accounted \subseteq Accounted'
    BY <1>2, <1>6, <2>1 DEF Accounted
  <2>3. Missing' \subseteq Missing
    BY <1>2, <2>2 DEF Missing
  <2>4. Ended' = Ended
    BY <1>2, <1>7 DEF Ended
  <2>. QED  BY <1>1, <2>3, <2>4, LossKept
<1>13. Writes'
  <2> SUFFICES ASSUME NEW e \in Entries
               PROVE  /\ e \in Range(deque') => e \notin Range(log')
                      /\ e \in Range(batch') => Cardinality(Places(log', e)) <= 1
                      /\ e \in Range(drained') => Cardinality(Places(log', e)) <= DrainWrites'
                      /\ Cardinality(Places(log', e)) <= 2 * lifespans'
    BY DEF Writes
  <2>1. /\ e \in Range(deque) => e \notin Range(log)
        /\ e \in Range(drained) => Cardinality(Places(log, e)) <= DrainWrites
        /\ Cardinality(Places(log, e)) <= 2 * lifespans
    BY <1>1 DEF Writes
  <2>2. DrainWrites = 2 * lifespans - 1 /\ DrainWrites' = 2 * lifespans
    <3>1. DrainWrites' = 2 * lifespans - 0
      BY <1>2 DEF DrainWrites
    <3>. QED  BY <1>2, <1>7, <3>1 DEF DrainWrites
  <2>3. CASE e \in Range(drained)
    <3>1. e \notin Range(deque)
      BY <1>1, <2>3, Types DEF Order, Below
    <3>2. PICK c \in Nat : c = Cardinality(Places(log', e))
      BY <1>6
    <3>3. c <= 2 * lifespans
      BY <1>6, <1>7, <2>1, <2>2, <2>3, <3>2
    <3>. QED  BY <1>2, <1>7, <2>2, <3>1, <3>2, <3>3
  <2>4. CASE e \notin Range(drained)
    <3>1. Places(log', e) = Places(log, e)
      BY <1>6, <2>4
    <3>. QED  BY <1>2, <1>6, <1>7, <2>1, <2>4, <3>1
  <2>. QED  BY <2>3, <2>4
<1>. QED  BY <1>8, <1>9, <1>10, <1>11, <1>12, <1>13 DEF IInv

-----------------------------------------------------------------------------
LEMMA NextIInv == IInv /\ [Next]_vars => IInv'
<1> SUFFICES ASSUME IInv, [Next]_vars PROVE IInv'
  OBVIOUS
<1>1. CASE Enqueue
  BY <1>1, EnqueueStep
<1>2. CASE Start \/ StartupFails
  BY <1>2, StartStep
<1>3. CASE LoopIdle \/ LoopFlush \/ LoopRetry
  BY <1>3, LoopIdleStep, LoopFlushStep, LoopRetryStep
<1>4. CASE StopBegin
  <2>1. CASE task = "none"
    <3>1. /\ FinalDrain /\ up /\ stopper = "idle" /\ running' = FALSE /\ task' = "none"
          /\ UNCHANGED <<batch, elapsed, next, overflow, gaveUp, lifespans>>
      BY <1>4, <2>1 DEF StopBegin
    <3>. QED  BY <2>1, <3>1, FinalDrainStep
  <2>2. CASE task # "none"
    BY <1>4, <2>2, StopAwaitStep
  <2>. QED  BY <2>1, <2>2
<1>5. CASE TaskCancelled
  BY <1>5, TaskCancelledStep
<1>6. CASE StopResume
  <2>1. /\ FinalDrain /\ stopper = "await_task" /\ task = "cancelled" /\ task' = "none"
        /\ running' = running /\ UNCHANGED <<batch, elapsed, next, overflow, gaveUp, lifespans>>
    BY <1>6 DEF StopResume
  <2>2. up /\ running \in BOOLEAN
    BY <2>1 DEF IInv, Control, TypeOK
  <2>. QED  BY <2>1, <2>2, FinalDrainStep
<1>7. CASE StopRetry
  BY <1>7, StopRetryStep
<1>8. CASE UNCHANGED vars
  <2>1. UNCHANGED <<deque, running, task, batch, elapsed, stopper, drained, log, next, overflow,
                    gaveUp, replyLost, up, lifespans>>
    BY <1>8 DEF vars
  <2>2. TypeOK' /\ Control' /\ Order' /\ Trail'
    BY <2>1 DEF IInv, TypeOK, Control, Order, Trail
  <2>3. Missing' = Missing /\ Ended' = Ended /\ DrainWrites' = DrainWrites
    BY <2>1 DEF Missing, Accounted, Ended, DrainWrites
  <2>4. Loss' /\ Writes'
    BY <2>1, <2>3 DEF IInv, Loss, Writes
  <2>. QED  BY <2>2, <2>4 DEF IInv
<1>. QED  BY <1>1, <1>2, <1>3, <1>4, <1>5, <1>6, <1>7, <1>8 DEF Next, Loop, Stop

LEMMA Invariance == Spec => []IInv
BY InitIInv, NextIInv, PTL DEF Spec

-----------------------------------------------------------------------------
\* The deque never outgrows max_size, nor the loop's batch batch_size.
THEOREM TypeCorrect == Spec => []TypeOK
<1>1. IInv => TypeOK
  BY DEF IInv
<1>. QED  BY <1>1, Invariance, PTL

\* For every capacity, batch size and order of requests, flushes, retries and
\* shutdown: one lifespan without a lost reply writes entries once and in order.
THEOREM TrailInOrder == Spec => []FifoAtMostOnce
<1>1. IInv => FifoAtMostOnce
  BY DEF IInv, Trail, FifoAtMostOnce
<1>. QED  BY <1>1, Invariance, PTL

\* Only a cancelled retry loses entries, at most batch_size for each shutdown, and
\* overflow drops the oldest.
THEOREM LossIsBounded == Spec => []LossBounded
<1>1. ASSUME IInv PROVE LossBounded
  <2>1. TypeOK /\ Control /\ Order /\ Loss
    BY <1>1 DEF IInv
  <2>2. lifespans \in Nat /\ Ended \in Nat /\ BatchSize \in Nat /\ (up => lifespans - 1 \in Nat)
    BY <2>1, Types, EndedType, SizeAssumption
  <2>3. Shutdowns \in {Ended, Ended + 1}
    BY <2>1, <2>2 DEF Shutdowns, Ended, Control
  <2>4. /\ BatchSize * Ended \in Nat /\ BatchSize * Shutdowns \in Nat
        /\ BatchSize * Ended <= BatchSize * Shutdowns
    BY <2>2, <2>3, Grow
  <2>5. Cardinality(Missing) \in Nat /\ Cardinality(Missing) <= BatchSize * Ended
    BY <2>1, MissingFinite DEF Loss
  <2>6. Cardinality(Missing) <= BatchSize * Shutdowns
    BY <2>4, <2>5
  <2>7. \A i \in 1 .. Len(deque) : deque[i] \in Range(deque)
    BY <2>1, RangeIndex DEF TypeOK
  <2>8. \A e \in overflow : \A i \in 1 .. Len(deque) : e < deque[i]
    BY <2>1, <2>7 DEF Order, Below
  <2>. QED  BY <2>6, <2>8 DEF LossBounded, Missing
<1>. QED  BY <1>1, Invariance, PTL

\* However many replies are lost, an entry is written at most twice a lifespan.
THEOREM DuplicatesAreBounded == Spec => []DuplicatesBounded
<1>1. IInv => DuplicatesBounded
  BY DEF IInv, Writes, DuplicatesBounded, Places
<1>. QED  BY <1>1, Invariance, PTL
=============================================================================
