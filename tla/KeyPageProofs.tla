---------------------------- MODULE KeyPageProofs ----------------------------
(* Lemmas that the theorems about papers share: the first and the last place  *)
(* with a property, functions that are defined step by step over 0..n, joined *)
(* sequences, the entry an answer is taken from, and the types of the entries *)
(* that are read off a page.                                                  *)
EXTENDS KeyPage, WellFoundedInduction, TLAPS

-----------------------------------------------------------------------------
(* Places *)

LEMMA FirstPlace ==
  ASSUME NEW T \in SUBSET Nat, T # {}
  PROVE  \E k \in T : \A j \in T : ~ (j < k)
<1>1. PICK k \in T : \A j \in T : <<j, k>> \notin OpToRel(<, Nat)
  BY NatLessThanWellFounded, WFMin
<1>. QED
  BY <1>1 DEF OpToRel

LEMMA LastPlace ==
  ASSUME NEW n \in Nat, NEW T \in SUBSET (1..n), T # {}
  PROVE  \E k \in T : \A j \in T : j <= k
<1> DEFINE U == {n - k : k \in T}
<1>1. U \in SUBSET Nat /\ U # {}
  <2>1. \A k \in T : k \in 1..n /\ n - k \in Nat
    OBVIOUS
  <2>2. PICK k \in T : TRUE
    OBVIOUS
  <2>. QED
    BY <2>1, <2>2
<1>2. PICK u \in U : \A v \in U : ~ (v < u)
  BY <1>1, FirstPlace
<1>3. PICK k \in T : u = n - k
  BY <1>2
<1>4. \A j \in T : ~ (n - j < n - k)
  BY <1>2, <1>3
<1>. QED
  BY <1>4

\* What holds of 0 and of every number whose predecessor it holds of.
LEMMA UpTo ==
  ASSUME NEW n \in Nat, NEW T, 0 \in T, \A k \in 1..n : k - 1 \in T => k \in T
  PROVE  \A k \in 0..n : k \in T
<1> SUFFICES ASSUME NEW m \in 0..n, m \notin T
             PROVE  FALSE
  OBVIOUS
<1>1. (0..n) \ T \in SUBSET Nat /\ (0..n) \ T # {}
  OBVIOUS
<1>2. PICK k \in (0..n) \ T : \A j \in (0..n) \ T : ~ (j < k)
  BY <1>1, FirstPlace
<1>3. k \in 1..n /\ k - 1 \in 0..n /\ k - 1 < k
  OBVIOUS
<1>. QED
  BY <1>2, <1>3

LEMMA MaxIs ==
  ASSUME NEW n \in Nat, NEW T \in SUBSET (1..n), T # {}
  PROVE  Max(T) \in T /\ \A k \in T : k <= Max(T)
<1>1. \E k \in T : \A j \in T : j <= k
  BY LastPlace
<1>2. \E k \in T : \A j \in T : k >= j
  BY <1>1
<1>3. Max(T) \in T /\ \A j \in T : Max(T) >= j
  BY <1>2 DEF Max
<1>. QED
  BY <1>3

LEMMA MinIs ==
  ASSUME NEW T \in SUBSET Nat, T # {}
  PROVE  Min(T) \in T /\ \A k \in T : Min(T) <= k
<1>1. PICK k \in T : \A j \in T : ~ (j < k)
  BY FirstPlace
<1>2. \E i \in T : \A j \in T : i <= j
  BY <1>1
<1>. QED
  BY <1>2 DEF Min

-----------------------------------------------------------------------------
(* Functions that are defined step by step *)

\* f begins with base and goes on by the steps.
Steps(f, n, A, base, step) ==
  /\ f \in [0..n -> A]
  /\ f[0] = base
  /\ \A k \in 1..n : f[k] = step[k][f[k - 1]]

LEMMA Stepwise ==
  ASSUME NEW n \in Nat, NEW A, NEW base \in A, NEW step \in [1..n -> [A -> A]]
  PROVE  \E f : Steps(f, n, A, base, step)
<1> DEFINE Body(f, m) == [k \in 0..m |-> IF k = 0 THEN base ELSE step[k][f[k - 1]]]
           T == {m \in Nat : \E f \in [0..m -> A] : f = Body(f, m)}
<1>1. 0 \in T
  <2>1. [k \in 0..0 |-> base] \in [0..0 -> A]
    OBVIOUS
  <2>2. [k \in 0..0 |-> base] = Body([k \in 0..0 |-> base], 0)
    OBVIOUS
  <2>. QED
    BY <2>1, <2>2
<1>2. ASSUME NEW m \in 1..n, m - 1 \in T
      PROVE  m \in T
  <2>1. PICK f \in [0..(m - 1) -> A] : f = Body(f, m - 1)
    BY <1>2
  <2> DEFINE g == [k \in 0..m |-> IF k = m THEN step[m][f[m - 1]] ELSE f[k]]
  <2>2. g \in [0..m -> A]
    OBVIOUS
  <2>3. \A k \in 0..m : g[k] = IF k = 0 THEN base ELSE step[k][g[k - 1]]
    <3>1. f[0] = base /\ \A k \in 1..(m - 1) : f[k] = step[k][f[k - 1]]
      BY <2>1
    <3>. QED
      BY <3>1
  <2>4. g = Body(g, m)
    BY <2>3
  <2>5. \E h \in [0..m -> A] : h = Body(h, m)
    <3>. HIDE DEF g, Body
    <3>. QED
      BY <2>2, <2>4
  <2>6. m \in Nat
    OBVIOUS
  <2>. QED
    <3>. HIDE DEF g, Body
    <3>. QED
      BY <2>5, <2>6
<1>3. n \in T
  <2>. HIDE DEF T
  <2>1. \A k \in 1..n : k - 1 \in T => k \in T
    BY <1>2
  <2>2. \A k \in 0..n : k \in T
    BY <1>1, <2>1, UpTo
  <2>. QED
    BY <2>2
<1>4. PICK f \in [0..n -> A] : f = [k \in 0..n |-> IF k = 0 THEN base ELSE step[k][f[k - 1]]]
  BY <1>3
<1>5. f[0] = base /\ \A k \in 1..n : f[k] = step[k][f[k - 1]]
  BY <1>4
<1>. QED
  BY <1>4, <1>5 DEF Steps

\* What the steps do not leave.
LEMMA StaysIn ==
  ASSUME NEW n \in Nat, NEW A, NEW g, g[0] \in A, \A k \in 1..n : g[k - 1] \in A => g[k] \in A
  PROVE  \A k \in 0..n : g[k] \in A
<1>1. PICK T : T = {k \in 0..n : g[k] \in A}
  OBVIOUS
<1>2. 0 \in T
  BY <1>1
<1>3. \A k \in 1..n : k \in 0..n
  OBVIOUS
<1>4. \A k \in 1..n : k - 1 \in T => k \in T
  BY <1>1, <1>3
<1>5. \A k \in 0..n : k \in T
  BY <1>2, <1>4, UpTo
<1>. QED
  BY <1>1, <1>5

-----------------------------------------------------------------------------
(* Sequences that are joined *)

\* Joining(f, A, seqs): f has the first k of the sequences joined, for each k.
\* A is the set that they are of.
Joining(f, A, seqs) ==
  /\ f \in [0..Len(seqs) -> A]
  /\ f[0] = <<>>
  /\ \A k \in 1..Len(seqs) : f[k] = f[k - 1] \o seqs[k]

LEMMA NothingLong ==
  ASSUME NEW A, NEW seqs \in Seq(A), Len(seqs) = 0
  PROVE  seqs = <<>>
OBVIOUS

LEMMA JoiningExists ==
  ASSUME NEW A, NEW seqs \in Seq(A), <<>> \in A, \A s, t \in A : s \o t \in A
  PROVE  \E f : Joining(f, A, seqs)
<1>1. PICK n \in Nat : n = Len(seqs) /\ \A k \in 1..n : seqs[k] \in A
  OBVIOUS
<1>2. PICK step : step = [k \in 1..n |-> [s \in A |-> s \o seqs[k]]]
  OBVIOUS
<1>3. step \in [1..n -> [A -> A]]
  BY <1>1, <1>2
<1>4. PICK base : base = <<>>
  OBVIOUS
<1>5. base \in A
  BY <1>4
<1>6. PICK f : Steps(f, n, A, base, step)
  BY <1>3, <1>5, Stepwise
<1>7. f \in [0..n -> A] /\ f[0] = <<>>
  BY <1>4, <1>6 DEF Steps
<1>8. ASSUME NEW k \in 1..n
      PROVE  f[k] = f[k - 1] \o seqs[k]
  <2>1. k - 1 \in 0..n
    OBVIOUS
  <2>2. f[k - 1] \in A
    BY <1>7, <2>1
  <2>3. f[k] = step[k][f[k - 1]]
    BY <1>6 DEF Steps
  <2>. QED
    BY <1>2, <2>2, <2>3
<1>. QED
  BY <1>1, <1>7, <1>8 DEF Joining

LEMMA FlattenOver ==
  ASSUME NEW A, NEW seqs \in Seq(A), NEW f, Joining(f, A, seqs), \A s \in A : <<>> \o s = s
  PROVE  FlattenSeq(seqs) = f[Len(seqs)]
<1>1. PICK n \in Nat : n = Len(seqs) /\ \A k \in 1..n : seqs[k] \in A
  OBVIOUS
<1>2. f \in [0..n -> A] /\ f[0] = <<>> /\ \A k \in 1..n : f[k] = f[k - 1] \o seqs[k]
  BY <1>1 DEF Joining
<1>6. CASE n = 0
  <2>1. seqs = <<>>
    BY <1>1, <1>6, NothingLong
  <2>. QED
    BY <1>1, <1>2, <1>6, <2>1 DEF FlattenSeq
<1>7. CASE n # 0
  <2>1. 1 \in 1..n /\ f[1] = seqs[1]
    <3>1. 1 \in 1..n /\ 1 - 1 = 0
      BY <1>7
    <3>. QED
      BY <1>1, <1>2, <3>1
  <2> DEFINE Body(g) == [i \in 1..Len(seqs) |-> IF i = 1 THEN seqs[i] ELSE g[i - 1] \o seqs[i]]
  <2>2. \E g : g = Body(g)
    <3>1. PICK g : g = [i \in 1..n |-> f[i]]
      OBVIOUS
    <3>2. \A i \in 1..n : g[i] = f[i] /\ (i # 1 => i - 1 \in 1..n /\ g[i - 1] = f[i - 1])
      BY <3>1
    <3>3. \A i \in 1..n : g[i] = IF i = 1 THEN seqs[i] ELSE g[i - 1] \o seqs[i]
      BY <1>2, <2>1, <3>2
    <3>4. g = Body(g)
      BY <1>1, <3>1, <3>3
    <3>. QED
      BY <3>4
  <2>3. PICK flat : flat = Body(flat) /\ FlattenSeq(seqs) = flat[n]
    BY <1>1, <1>7, <2>2 DEF FlattenSeq
  <2>4. \A i \in 1..n : flat[i] = IF i = 1 THEN seqs[i] ELSE flat[i - 1] \o seqs[i]
    BY <1>1, <2>3
  <2>10. PICK T : T = {k \in 0..n : k = 0 \/ flat[k] = f[k]}
    OBVIOUS
  <2>5. ASSUME NEW k \in 1..n, k - 1 \in T
        PROVE  k \in T
    <3>1. CASE k = 1
      BY <2>1, <2>4, <2>10, <3>1
    <3>2. CASE k # 1
      <4>1. k - 1 # 0 /\ k \in 0..n
        BY <3>2
      <4>2. flat[k - 1] = f[k - 1]
        BY <2>5, <2>10, <4>1
      <4>3. flat[k] = flat[k - 1] \o seqs[k]
        BY <2>4, <3>2
      <4>4. flat[k] = f[k]
        BY <1>2, <4>2, <4>3
      <4>. QED
        BY <2>10, <4>1, <4>4
    <3>. QED
      BY <3>1, <3>2
  <2>6. 0 \in T
    BY <2>10
  <2>7. \A k \in 0..n : k \in T
    <3>1. \A k \in 1..n : k - 1 \in T => k \in T
      BY <2>5
    <3>. QED
      BY <2>6, <3>1, UpTo
  <2>8. flat[n] = f[n]
    BY <1>7, <2>7, <2>10
  <2>. QED
    BY <1>1, <2>3, <2>8
<1>. QED
  BY <1>6, <1>7

LEMMA SequencesJoin ==
  ASSUME NEW S
  PROVE  /\ <<>> \in Seq(S)
         /\ \A s, t \in Seq(S) : s \o t \in Seq(S)
         /\ \A s \in Seq(S) : <<>> \o s = s
OBVIOUS

LEMMA FlattenIs ==
  ASSUME NEW S, NEW seqs \in Seq(Seq(S))
  PROVE  \E f : Joining(f, Seq(S), seqs) /\ FlattenSeq(seqs) = f[Len(seqs)]
<1>1. PICK A : A = Seq(S)
  OBVIOUS
<1>2. /\ <<>> \in A
      /\ \A s, t \in A : s \o t \in A
      /\ \A s \in A : <<>> \o s = s
  BY <1>1, SequencesJoin
<1>3. seqs \in Seq(A)
  BY <1>1
<1>4. \E f : Joining(f, A, seqs) /\ FlattenSeq(seqs) = f[Len(seqs)]
  <2>1. PICK f : Joining(f, A, seqs)
    BY <1>2, <1>3, JoiningExists
  <2>2. FlattenSeq(seqs) = f[Len(seqs)]
    BY <1>2, <1>3, <2>1, FlattenOver
  <2>. QED
    BY <2>1, <2>2
<1>. QED
  BY <1>1, <1>4

LEMMA FlattenType ==
  ASSUME NEW S, NEW seqs \in Seq(Seq(S))
  PROVE  FlattenSeq(seqs) \in Seq(S)
<1>1. PICK f : Joining(f, Seq(S), seqs) /\ FlattenSeq(seqs) = f[Len(seqs)]
  BY FlattenIs
<1>2. Len(seqs) \in 0..Len(seqs)
  OBVIOUS
<1>. QED
  BY <1>1, <1>2 DEF Joining

-----------------------------------------------------------------------------
(* The entry that answers a question *)

LEMMA BestIsFirst ==
  ASSUME NEW S, NEW entries \in Seq(S), NEW chosen, chosen \cap Range(entries) # {}
  PROVE  /\ Best(entries, chosen) \in DOMAIN entries
         /\ entries[Best(entries, chosen)] \in chosen
         /\ \A j \in 1..(Best(entries, chosen) - 1) : entries[j] \notin chosen
<1> DEFINE T == {k \in DOMAIN entries : entries[k] \in chosen}
<1>1. T \in SUBSET Nat /\ T # {}
  BY DEF Range
<1>2. PICK k \in T : \A j \in T : ~ (j < k)
  BY <1>1, FirstPlace
<1>3. k \in DOMAIN entries /\ entries[k] \in chosen
  OBVIOUS
<1>4. \A j \in 1..(k - 1) : entries[j] \notin chosen
  BY <1>2, <1>3
<1>. QED
  BY <1>3, <1>4 DEF Best

LEMMA CandidatesType ==
  ASSUME NEW pool, NEW q
  PROVE  Candidates(pool, q) \in SUBSET Range(pool)
BY DEF Candidates

-----------------------------------------------------------------------------
(* The types of the entries that are read off a page *)

LEMMA LineFields ==
  ASSUME NEW line \in LineType
  PROVE  /\ line.section \in SectionType
         /\ line.range \in Seq([from : Nat, to : Nat, values : ValuesType])
         /\ line.pairs \in Seq(PairType) /\ line.dense \in Seq(PairType)
         /\ line.labels \in Seq(Nat) /\ line.number \in SUBSET Nat /\ line.of \in Nat
         /\ line.answer \in BOOLEAN /\ line.ends \in BOOLEAN /\ line.digits \in BOOLEAN
<1>. HIDE DEF SectionType, ValuesType, PairType
<1>. QED
  BY DEF LineType

\* A range is the pairs of its numbers, of which there may be none.
LEMMA RangePairs ==
  ASSUME NEW r \in [from : Nat, to : Nat, values : ValuesType]
  PROVE  [k \in 1..(r.to - r.from + 1) |-> [num |-> r.from + k - 1, values |-> r.values]]
           \in Seq(PairType)
<1>1. r.from \in Nat /\ r.to \in Nat /\ r.values \in ValuesType
  OBVIOUS
<1>2. ASSUME NEW k \in 1..(r.to - r.from + 1)
      PROVE  [num |-> r.from + k - 1, values |-> r.values] \in PairType
  BY <1>1 DEF PairType
<1>3. PICK n \in Nat : 1..(r.to - r.from + 1) = 1..n
  <2>1. CASE r.to - r.from + 1 >= 0
    BY <1>1, <2>1
  <2>2. CASE ~ (r.to - r.from + 1 >= 0)
    <3>1. 1..(r.to - r.from + 1) = 1..0
      BY <1>1, <2>2
    <3>. QED
      BY <3>1
  <2>. QED
    BY <2>1, <2>2
<1>4. \A k \in 1..n : [num |-> r.from + k - 1, values |-> r.values] \in PairType
  BY <1>2, <1>3
<1>5. [k \in 1..n |-> [num |-> r.from + k - 1, values |-> r.values]] \in Seq(PairType)
  BY <1>4
<1>. QED
  BY <1>3, <1>5

LEMMA PairsOfType ==
  ASSUME NEW line \in LineType
  PROVE  PairsOf(line) \in Seq(PairType)
<1>1. CASE line.range # <<>> /\ Expands(line.range[1])
  <2>1. PICK r \in [from : Nat, to : Nat, values : ValuesType] : r = line.range[1]
    <3>1. PICK R : R = [from : Nat, to : Nat, values : ValuesType]
      OBVIOUS
    <3>2. line.range \in Seq(R)
      BY <3>1, LineFields
    <3>3. line.range[1] \in R
      BY <1>1, <3>2
    <3>. QED
      BY <3>1, <3>3
  <2>. QED
    BY <1>1, <2>1, RangePairs DEF PairsOf
<1>2. CASE ~ (line.range # <<>> /\ Expands(line.range[1]))
  BY <1>2, LineFields DEF PairsOf
<1>. QED
  BY <1>1, <1>2

LEMMA AddEntryType ==
  ASSUME NEW entries \in Seq(EntryType), NEW heading \in SectionType, NEW pair \in PairType
  PROVE  AddEntry(entries, heading, pair) \in Seq(EntryType)
<1>1. [num |-> pair.num, section |-> heading, values |-> pair.values] \in EntryType
  BY DEF PairType, EntryType
<1>. QED
  BY <1>1 DEF AddEntry

LEMMA AddPairsType ==
  ASSUME NEW entries \in Seq(EntryType), NEW heading \in SectionType, NEW pairs \in Seq(PairType)
  PROVE  AddPairs(entries, heading, pairs) \in Seq(EntryType)
<1>1. PICK n \in Nat : n = Len(pairs) /\ \A k \in 1..n : pairs[k] \in PairType
  OBVIOUS
<1>2. PICK A : A = Seq(EntryType)
  OBVIOUS
<1>3. PICK step : step = [k \in 1..n |-> [s \in A |-> AddEntry(s, heading, pairs[k])]]
  OBVIOUS
<1>4. \A k \in 1..n, s \in A : AddEntry(s, heading, pairs[k]) \in A
  BY <1>1, <1>2, AddEntryType
<1>5. step \in [1..n -> [A -> A]]
  BY <1>3, <1>4
<1>6. PICK base : base = entries
  OBVIOUS
<1>7. base \in A
  BY <1>2, <1>6
<1>8. PICK f : Steps(f, n, A, base, step)
  BY <1>5, <1>7, Stepwise
<1>9. PICK g : /\ g = [k \in 0..Len(pairs) |-> IF k = 0 THEN entries ELSE AddEntry(g[k - 1], heading, pairs[k])]
               /\ AddPairs(entries, heading, pairs) = g[n]
  <2>1. \A k \in 1..n : k - 1 \in 0..n /\ f[k - 1] \in A /\ f[k] = AddEntry(f[k - 1], heading, pairs[k])
    <3>1. \A k \in 1..n : k - 1 \in 0..n
      OBVIOUS
    <3>. QED
      BY <1>3, <1>8, <3>1 DEF Steps
  <2>2. f = [k \in 0..Len(pairs) |-> IF k = 0 THEN entries ELSE AddEntry(f[k - 1], heading, pairs[k])]
    BY <1>1, <1>6, <1>8, <2>1 DEF Steps
  <2>3. \E g : g = [k \in 0..Len(pairs) |-> IF k = 0 THEN entries ELSE AddEntry(g[k - 1], heading, pairs[k])]
    BY <2>2
  <2>. QED
    BY <1>1, <2>3 DEF AddPairs
<1>10. g[0] \in A
  <2>1. 0 \in 0..n
    OBVIOUS
  <2>. QED
    BY <1>1, <1>6, <1>7, <1>9, <2>1
<1>11. ASSUME NEW k \in 1..n, g[k - 1] \in A
       PROVE  g[k] \in A
  <2>1. k \in 0..n /\ k # 0
    OBVIOUS
  <2>2. g[k] = AddEntry(g[k - 1], heading, pairs[k])
    BY <1>1, <1>9, <2>1
  <2>. QED
    BY <1>4, <1>11, <2>2
<1>12. \A k \in 0..n : g[k] \in A
  BY <1>10, <1>11, StaysIn
<1>13. n \in 0..n
  OBVIOUS
<1>. QED
  BY <1>2, <1>9, <1>12, <1>13

ReadingType == [section : SectionType, entries : Seq(EntryType)]

LEMMA ReadLineType ==
  ASSUME NEW reading \in ReadingType, NEW line \in LineType
  PROVE  ReadLine(reading, line) \in ReadingType
<1>1. reading.section \in SectionType /\ reading.entries \in Seq(EntryType)
  BY DEF ReadingType
<1>2. line.section \in SectionType
  BY LineFields
<1>3. AddPairs(reading.entries, reading.section, PairsOf(line)) \in Seq(EntryType)
  BY <1>1, PairsOfType, AddPairsType
<1>. QED
  BY <1>2, <1>3 DEF ReadLine, ReadingType

LEMMA ParsedType ==
  ASSUME NEW lines \in Seq(LineType), NEW heading \in SectionType
  PROVE  Parsed(lines, heading) \in Seq(EntryType)
<1>1. PICK n \in Nat : n = Len(lines) /\ \A k \in 1..n : lines[k] \in LineType
  OBVIOUS
<1>2. PICK A : A = ReadingType
  OBVIOUS
<1>3. PICK step : step = [k \in 1..n |-> [s \in A |-> ReadLine(s, lines[k])]]
  OBVIOUS
<1>4. \A k \in 1..n, s \in A : ReadLine(s, lines[k]) \in A
  BY <1>1, <1>2, ReadLineType
<1>5. step \in [1..n -> [A -> A]]
  BY <1>3, <1>4
<1>6. PICK base : base = [section |-> heading, entries |-> <<>>]
  OBVIOUS
<1>7. base \in A
  BY <1>2, <1>6, SequencesJoin DEF ReadingType
<1>8. PICK f : Steps(f, n, A, base, step)
  BY <1>5, <1>7, Stepwise
<1>9. PICK g : /\ g = [k \in 0..Len(lines) |-> IF k = 0 THEN [section |-> heading, entries |-> <<>>] ELSE ReadLine(g[k - 1], lines[k])]
               /\ Parsed(lines, heading) = g[n].entries
  <2>1. \A k \in 1..n : k - 1 \in 0..n /\ f[k - 1] \in A /\ f[k] = ReadLine(f[k - 1], lines[k])
    <3>1. \A k \in 1..n : k - 1 \in 0..n
      OBVIOUS
    <3>. QED
      BY <1>3, <1>8, <3>1 DEF Steps
  <2>2. f = [k \in 0..Len(lines) |-> IF k = 0 THEN [section |-> heading, entries |-> <<>>] ELSE ReadLine(f[k - 1], lines[k])]
    BY <1>1, <1>6, <1>8, <2>1 DEF Steps
  <2>3. \E g : g = [k \in 0..Len(lines) |-> IF k = 0 THEN [section |-> heading, entries |-> <<>>] ELSE ReadLine(g[k - 1], lines[k])]
    BY <2>2
  <2>. QED
    BY <1>1, <2>3 DEF Parsed
<1>10. g[0] \in A
  <2>1. 0 \in 0..n
    OBVIOUS
  <2>. QED
    BY <1>1, <1>6, <1>7, <1>9, <2>1
<1>11. ASSUME NEW k \in 1..n, g[k - 1] \in A
       PROVE  g[k] \in A
  <2>1. k \in 0..n /\ k # 0
    OBVIOUS
  <2>2. g[k] = ReadLine(g[k - 1], lines[k])
    BY <1>1, <1>9, <2>1
  <2>. QED
    BY <1>4, <1>11, <2>2
<1>12. \A k \in 0..n : g[k] \in A
  BY <1>10, <1>11, StaysIn
<1>13. n \in 0..n
  OBVIOUS
<1>. QED
  BY <1>2, <1>9, <1>12, <1>13 DEF ReadingType

LEMMA FillType ==
  ASSUME NEW entries \in Seq(EntryType), NEW e \in EntryType
  PROVE  Fill(entries, e) \in Seq(EntryType)
BY DEF Fill

LEMMA MergedType ==
  ASSUME NEW entries \in Seq(EntryType), NEW reported \in Seq(EntryType)
  PROVE  Merged(entries, reported) \in Seq(EntryType)
<1>1. PICK n \in Nat : n = Len(reported) /\ \A k \in 1..n : reported[k] \in EntryType
  OBVIOUS
<1>2. PICK A : A = Seq(EntryType)
  OBVIOUS
<1>3. PICK step : step = [k \in 1..n |-> [s \in A |-> Fill(s, reported[k])]]
  OBVIOUS
<1>4. \A k \in 1..n, s \in A : Fill(s, reported[k]) \in A
  BY <1>1, <1>2, FillType
<1>5. step \in [1..n -> [A -> A]]
  BY <1>3, <1>4
<1>6. PICK base : base = entries
  OBVIOUS
<1>7. base \in A
  BY <1>2, <1>6
<1>8. PICK f : Steps(f, n, A, base, step)
  BY <1>5, <1>7, Stepwise
<1>9. PICK g : /\ g = [k \in 0..Len(reported) |-> IF k = 0 THEN entries ELSE Fill(g[k - 1], reported[k])]
               /\ Merged(entries, reported) = g[n]
  <2>1. \A k \in 1..n : k - 1 \in 0..n /\ f[k - 1] \in A /\ f[k] = Fill(f[k - 1], reported[k])
    <3>1. \A k \in 1..n : k - 1 \in 0..n
      OBVIOUS
    <3>. QED
      BY <1>3, <1>8, <3>1 DEF Steps
  <2>2. f = [k \in 0..Len(reported) |-> IF k = 0 THEN entries ELSE Fill(f[k - 1], reported[k])]
    BY <1>1, <1>6, <1>8, <2>1 DEF Steps
  <2>3. \E g : g = [k \in 0..Len(reported) |-> IF k = 0 THEN entries ELSE Fill(g[k - 1], reported[k])]
    BY <2>2
  <2>. QED
    BY <1>1, <2>3 DEF Merged
<1>10. g[0] \in A
  <2>1. 0 \in 0..n
    OBVIOUS
  <2>. QED
    BY <1>1, <1>6, <1>7, <1>9, <2>1
<1>11. ASSUME NEW k \in 1..n, g[k - 1] \in A
       PROVE  g[k] \in A
  <2>1. k \in 0..n /\ k # 0
    OBVIOUS
  <2>2. g[k] = Fill(g[k - 1], reported[k])
    BY <1>1, <1>9, <2>1
  <2>. QED
    BY <1>4, <1>11, <2>2
<1>12. \A k \in 0..n : g[k] \in A
  BY <1>10, <1>11, StaysIn
<1>13. n \in 0..n
  OBVIOUS
<1>. QED
  BY <1>2, <1>9, <1>12, <1>13

PageType ==
  [lines : Seq(LineType), reported : Seq(EntryType), isKey : BOOLEAN, heading : SectionType]

LEMMA DenseType ==
  ASSUME NEW lines \in Seq(LineType)
  PROVE  Dense(lines) \in Seq(PairType)
<1>1. PICK P : P = Seq(PairType)
  OBVIOUS
<1>2. \A i \in DOMAIN lines : lines[i].dense \in P
  BY <1>1, LineFields
<1>3. [i \in DOMAIN lines |-> lines[i].dense] \in Seq(P)
  BY <1>2
<1>. QED
  BY <1>1, <1>3, FlattenType DEF Dense

LEMMA DenseEntriesType ==
  ASSUME NEW lines \in Seq(LineType)
  PROVE  DenseEntries(lines) \in Seq(EntryType)
<1>1. PICK pairs \in Seq(PairType) : pairs = Dense(lines)
  BY DenseType
<1>2. ASSUME NEW i \in DOMAIN pairs
      PROVE  [num |-> pairs[i].num, section |-> {}, values |-> pairs[i].values] \in EntryType
  <2>1. pairs[i] \in PairType
    OBVIOUS
  <2>. QED
    BY <2>1 DEF PairType, EntryType, SectionType
<1>3. [i \in DOMAIN pairs |-> [num |-> pairs[i].num, section |-> {}, values |-> pairs[i].values]]
        \in Seq(EntryType)
  BY <1>2
<1>. QED
  BY <1>1, <1>3 DEF DenseEntries

LEMMA LastHeadingType ==
  ASSUME NEW lines \in Seq(LineType)
  PROVE  LastHeading(lines) \in SectionType
<1>1. PICK headings : headings = {i \in DOMAIN lines : lines[i].section # {}}
  OBVIOUS
<1>2. CASE headings = {}
  BY <1>1, <1>2 DEF LastHeading, SectionType
<1>3. CASE headings # {}
  <2>1. headings \in SUBSET (1..Len(lines)) /\ Len(lines) \in Nat
    BY <1>1
  <2>2. Max(headings) \in DOMAIN lines
    BY <1>1, <1>3, <2>1, MaxIs
  <2>3. lines[Max(headings)] \in LineType
    BY <2>2
  <2>. QED
    BY <1>1, <1>3, <2>3, LineFields DEF LastHeading
<1>. QED
  BY <1>2, <1>3

LEMMA EntriesOfType ==
  ASSUME NEW p \in PageType, NEW hinted, NEW short
  PROVE  EntriesOf(p, hinted, short) \in Seq(EntryType)
<1>1. p.lines \in Seq(LineType) /\ p.reported \in Seq(EntryType) /\ p.heading \in SectionType
  <2>. HIDE DEF LineType, EntryType, SectionType
  <2>. QED
    BY DEF PageType
<1>2. Merged(Parsed(p.lines, p.heading), p.reported) \in Seq(EntryType)
  BY <1>1, ParsedType, MergedType
<1>. QED
  BY <1>2 DEF EntriesOf

LEMMA DocumentEntriesType ==
  ASSUME NEW pages \in Seq(PageType), NEW hinted, NEW short
  PROVE  DocumentEntries(pages, hinted, short) \in Seq(EntryType)
<1>1. PICK E : E = Seq(EntryType)
  OBVIOUS
<1>2. \A k \in DOMAIN pages : EntriesOf(pages[k], hinted, short) \in E
  BY <1>1, EntriesOfType
<1>3. [k \in DOMAIN pages |-> EntriesOf(pages[k], hinted, short)] \in Seq(E)
  BY <1>2
<1>. QED
  BY <1>1, <1>3, FlattenType DEF DocumentEntries
=============================================================================
