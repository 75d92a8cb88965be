---------------------------- MODULE StitcherProofs ----------------------------
(* Theorems about the stitcher for papers of any length, read with any number *)
(* of misread fragments, and for every cut of the papers of lines.            *)
EXTENDS MCStitcher, KeyPageProofs, FiniteSetTheorems, SequenceTheorems

-----------------------------------------------------------------------------
(* Types *)

LEMMA MaxOfTwo ==
  ASSUME NEW a \in Int, NEW b \in Int
  PROVE  Max({a, b}) = IF a >= b THEN a ELSE b
<1>1. \E x \in {a, b} : \A y \in {a, b} : x >= y
  OBVIOUS
<1>2. Max({a, b}) \in {a, b} /\ \A y \in {a, b} : Max({a, b}) >= y
  BY <1>1 DEF Max
<1>. QED
  BY <1>2

Top == IF QuestionCount >= FullOptions THEN QuestionCount ELSE FullOptions

LEMMA TopIs ==
  /\ Top \in Nat /\ Top >= 4 /\ Top >= QuestionCount /\ QuestionCount \in Nat
  /\ Max({QuestionCount, FullOptions}) = Top
<1>1. QuestionCount \in Nat /\ FullOptions = 4
  BY BoundAssumption DEF FullOptions
<1>. QED
  BY <1>1, MaxOfTwo DEF Top

SectionName == {"", "Section A"}
NumberType == {{}} \cup {{n} : n \in 1..Top}
PieceType == [question : Nat, begins : BOOLEAN, grounded : BOOLEAN, lines : Seq(Nat)]
Pieces == {ps \in Seq(PieceType) : ps # <<>>}
QuestionType == [number : NumberType, section : SectionName, labels : Seq(Nat),
                 flags : SUBSET Flags, pieces : Pieces]
Reported == [number : NumberType, starts : BOOLEAN, continues : BOOLEAN, alike : BOOLEAN,
             labels : Seq(Nat), flags : SUBSET {"LOW_GROUNDING"}, piece : PieceType]

LEMMA QuestionFields ==
  ASSUME NEW q \in QuestionType
  PROVE  /\ q.number \in NumberType /\ q.section \in SectionName /\ q.labels \in Seq(Nat)
         /\ q.flags \in SUBSET Flags /\ q.pieces \in Pieces
<1>. HIDE DEF NumberType, SectionName, Flags, Pieces
<1>. QED
  BY DEF QuestionType

LEMMA ReportedFields ==
  ASSUME NEW item \in Reported
  PROVE  /\ item.number \in NumberType /\ item.starts \in BOOLEAN /\ item.continues \in BOOLEAN
         /\ item.alike \in BOOLEAN /\ item.labels \in Seq(Nat)
         /\ item.flags \in SUBSET {"LOW_GROUNDING"} /\ item.piece \in PieceType
<1>. HIDE DEF NumberType, PieceType
<1>. QED
  BY DEF Reported

-----------------------------------------------------------------------------
(* The labels of a question that goes on *)

Labelled == [labels : Seq(Nat), next : Nat]

LEMMA AppendLabelType ==
  ASSUME NEW acc \in Labelled, NEW label \in Nat
  PROVE  AppendLabel(acc, label) \in Labelled
<1>1. acc.labels \in Seq(Nat) /\ acc.next \in Nat
  BY DEF Labelled
<1>2. Max({acc.next, label + 1}) \in Nat
  BY <1>1, MaxOfTwo
<1>3. Append(acc.labels, acc.next) \in Seq(Nat) /\ Append(acc.labels, label) \in Seq(Nat)
  BY <1>1
<1>. QED
  BY <1>1, <1>2, <1>3 DEF AppendLabel, Labelled

\* MergedLabels takes the labels one after the other.
LEMMA MergedIs ==
  ASSUME NEW old \in Seq(Nat), NEW new \in Seq(Nat)
  PROVE  \E g : /\ \A k \in 0..Len(new) : g[k] \in Labelled
                /\ g[0] = [labels |-> old, next |-> Len(old) + 1]
                /\ \A k \in 1..Len(new) : g[k] = AppendLabel(g[k - 1], new[k])
                /\ MergedLabels(old, new) = g[Len(new)].labels
<1>1. PICK n \in Nat : n = Len(new) /\ \A k \in 1..n : new[k] \in Nat
  OBVIOUS
<1>2. PICK A : A = Labelled
  OBVIOUS
<1>3. PICK step : step = [k \in 1..n |-> [x \in A |-> AppendLabel(x, new[k])]]
  OBVIOUS
<1>4. \A k \in 1..n, x \in A : AppendLabel(x, new[k]) \in A
  BY <1>1, <1>2, AppendLabelType
<1>5. step \in [1..n -> [A -> A]]
  BY <1>3, <1>4
<1>6. PICK base : base = [labels |-> old, next |-> Len(old) + 1]
  OBVIOUS
<1>7. base \in A
  BY <1>2, <1>6 DEF Labelled
<1>8. PICK f : Steps(f, n, A, base, step)
  BY <1>5, <1>7, Stepwise
<1>9. PICK g : /\ g = [k \in 0..Len(new) |-> IF k = 0 THEN [labels |-> old, next |-> Len(old) + 1]
                                               ELSE AppendLabel(g[k - 1], new[k])]
               /\ MergedLabels(old, new) = g[n].labels
  <2>1. \A k \in 1..n : k - 1 \in 0..n /\ f[k - 1] \in A /\ f[k] = AppendLabel(f[k - 1], new[k])
    <3>1. \A k \in 1..n : k - 1 \in 0..n
      OBVIOUS
    <3>. QED
      BY <1>3, <1>8, <3>1 DEF Steps
  <2>2. f = [k \in 0..Len(new) |-> IF k = 0 THEN [labels |-> old, next |-> Len(old) + 1]
                                     ELSE AppendLabel(f[k - 1], new[k])]
    <3>1. f = [k \in 0..n |-> f[k]] /\ f[0] = base
      BY <1>8 DEF Steps
    <3>2. ASSUME NEW k \in 0..n
          PROVE  f[k] = IF k = 0 THEN base ELSE AppendLabel(f[k - 1], new[k])
      <4>1. CASE k = 0
        BY <3>1, <4>1
      <4>2. CASE k # 0
        <5>1. k \in 1..n
          BY <4>2
        <5>. QED
          BY <2>1, <4>2, <5>1
      <4>. QED
        BY <4>1, <4>2
    <3>3. f = [k \in 0..n |-> IF k = 0 THEN base ELSE AppendLabel(f[k - 1], new[k])]
      BY <3>1, <3>2
    <3>. QED
      BY <1>1, <1>6, <3>3
  <2>3. \E g : g = [k \in 0..Len(new) |-> IF k = 0 THEN [labels |-> old, next |-> Len(old) + 1]
                                            ELSE AppendLabel(g[k - 1], new[k])]
    BY <2>2
  <2>. QED
    BY <1>1, <2>3 DEF MergedLabels
<1>10. g[0] = base /\ g[0] \in A
  <2>1. 0 \in 0..n
    OBVIOUS
  <2>. QED
    BY <1>1, <1>6, <1>7, <1>9, <2>1
<1>11. ASSUME NEW k \in 1..n
       PROVE  g[k] = AppendLabel(g[k - 1], new[k])
  <2>1. k \in 0..n /\ k # 0
    OBVIOUS
  <2>. QED
    BY <1>1, <1>9, <2>1
<1>12. \A k \in 1..n : g[k - 1] \in A => g[k] \in A
  BY <1>4, <1>11
<1>13. \A k \in 0..n : g[k] \in A
  BY <1>10, <1>12, StaysIn
<1>. QED
  BY <1>1, <1>2, <1>6, <1>9, <1>10, <1>11, <1>13

LEMMA MergedLabelsType ==
  ASSUME NEW old \in Seq(Nat), NEW new \in Seq(Nat)
  PROVE  MergedLabels(old, new) \in Seq(Nat)
<1>1. PICK g : /\ \A k \in 0..Len(new) : g[k] \in Labelled
               /\ MergedLabels(old, new) = g[Len(new)].labels
  BY MergedIs
<1>2. Len(new) \in 0..Len(new)
  OBVIOUS
<1>3. g[Len(new)] \in Labelled
  BY <1>1, <1>2
<1>. QED
  BY <1>1, <1>3 DEF Labelled

\* The labels A, B, ... up to the m-th.
UpToLabel(m) == [n \in 1..m |-> n]

\* A label that is too small is replaced, and one that is next is taken: a
\* fragment that begins again at A, or goes on where the one before it ended,
\* or anywhere between, leaves the labels in order.
LEMMA MergedInOrder ==
  ASSUME NEW m \in Nat, NEW new \in Seq(Nat), \A j \in 1..Len(new) : 1 <= new[j] /\ new[j] <= m + j
  PROVE  MergedLabels(UpToLabel(m), new) = UpToLabel(m + Len(new))
<1>1. PICK n \in Nat : n = Len(new) /\ \A k \in 1..n : new[k] \in Nat
  OBVIOUS
<1>2. UpToLabel(m) \in Seq(Nat) /\ Len(UpToLabel(m)) = m
  BY DEF UpToLabel
<1>3. PICK g : /\ g[0] = [labels |-> UpToLabel(m), next |-> m + 1]
               /\ \A k \in 1..n : g[k] = AppendLabel(g[k - 1], new[k])
               /\ MergedLabels(UpToLabel(m), new) = g[n].labels
  BY ZenonT(60), <1>1, <1>2, MergedIs
<1> DEFINE At(k) == [labels |-> UpToLabel(m + k), next |-> m + k + 1]
<1>4. PICK T : T = {k \in 0..n : g[k] = At(k)}
  OBVIOUS
<1>5. 0 \in T
  <2>1. 0 \in 0..n /\ m + 0 = m
    OBVIOUS
  <2>. QED
    BY <1>3, <1>4, <2>1
<1>6. ASSUME NEW k \in 1..n, k - 1 \in T
      PROVE  k \in T
  <2>1. PICK label \in Nat : label = new[k] /\ 1 <= label /\ label <= m + k
    BY <1>1
  <2>2. PICK c \in Nat : c = m + k /\ c >= 1
    OBVIOUS
  <2>3. g[k] = AppendLabel([labels |-> UpToLabel(c - 1), next |-> c], label)
    <3>1. g[k - 1] = At(k - 1) /\ m + (k - 1) = c - 1 /\ m + (k - 1) + 1 = c
      BY <1>4, <1>6, <2>2
    <3>. QED
      BY <1>3, <2>1, <3>1
  <2>4. Append(UpToLabel(c - 1), c) = UpToLabel(c)
    BY <2>2 DEF UpToLabel
  <2>5. ToSet(UpToLabel(c - 1)) = 1..(c - 1)
    BY <2>2 DEF ToSet, UpToLabel
  <2>6. g[k] = [labels |-> UpToLabel(c), next |-> c + 1]
    <3>1. CASE label \in 1..(c - 1)
      BY <2>2, <2>3, <2>4, <2>5, <3>1 DEF AppendLabel
    <3>2. CASE label = c
      <4>1. Max({c, c + 1}) = c + 1
        BY <2>2, MaxOfTwo
      <4>. QED
        BY <2>2, <2>3, <2>4, <2>5, <3>2, <4>1 DEF AppendLabel
    <3>. QED
      BY <2>1, <2>2, <3>1, <3>2
  <2>. QED
    BY <1>4, <2>2, <2>6
<1>7. n \in T
  <2>1. \A k \in 0..n : k \in T
    BY <1>5, <1>6, UpTo
  <2>. QED
    BY <2>1
<1>. QED
  BY <1>1, <1>3, <1>4, <1>7

-----------------------------------------------------------------------------
(* What the loop makes of an item *)

Uncertainly == "STITCH_UNCERTAIN"

LEMMA FlagNames ==
  /\ Marker \in Flags /\ "CROSS_PAGE_STITCHED" \in Flags /\ Uncertainly \in Flags
  /\ "ORPHAN_FRAGMENT" \in Flags /\ "LOW_GROUNDING" \in Flags
  /\ "NUMBER_INFERRED" \in Flags /\ "MISSING_NUMBER" \in Flags
  /\ "DUPLICATE_NUMBER" \in Flags /\ "NUMBER_GAP" \in Flags
BY DEF Flags, Uncertainly

LEMMA PiecesAppend ==
  ASSUME NEW ps \in Pieces, NEW p \in PieceType
  PROVE  Append(ps, p) \in Pieces
<1>1. PICK S : S = PieceType
  OBVIOUS
<1>2. ps \in Seq(S) /\ p \in S
  BY <1>1 DEF Pieces
<1>3. Append(ps, p) \in Seq(S) /\ Len(Append(ps, p)) = Len(ps) + 1 /\ Len(ps) \in Nat
  BY <1>2
<1>4. Append(ps, p) # <<>>
  <2>1. Len(<<>>) = 0
    OBVIOUS
  <2>. QED
    BY <1>3, <2>1
<1>. QED
  BY <1>1, <1>3, <1>4 DEF Pieces

LEMMA JoinedIs ==
  ASSUME NEW q \in QuestionType, NEW item \in Reported
  PROVE  /\ Joined(q, item) \in QuestionType
         /\ Joined(q, item).number = q.number
         /\ Joined(q, item).pieces = Append(q.pieces, item.piece)
         /\ Joined(q, item).labels = MergedLabels(q.labels, item.labels)
         /\ Marker \in Joined(q, item).flags <=> item.continues
         /\ Uncertainly \in Joined(q, item).flags <=>
              (Uncertainly \in q.flags \/ ~Certain(q, item))
<1>1. PICK labels, flags, ps :
        /\ labels = MergedLabels(q.labels, item.labels)
        /\ flags = (q.flags \ {Marker}) \cup MarkerOf(item) \cup
                   {IF Certain(q, item) THEN "CROSS_PAGE_STITCHED" ELSE "STITCH_UNCERTAIN"}
        /\ ps = Append(q.pieces, item.piece)
  OBVIOUS
<1>2. labels \in Seq(Nat)
  BY <1>1, QuestionFields, ReportedFields, MergedLabelsType
<1>3. flags \in SUBSET Flags
  BY <1>1, QuestionFields, FlagNames DEF MarkerOf, Uncertainly
<1>4. ps \in Pieces
  BY <1>1, QuestionFields, ReportedFields, PiecesAppend
<1>5. Joined(q, item) = [q EXCEPT !.labels = labels, !.flags = flags, !.pieces = ps]
  BY <1>1 DEF Joined
<1>6. Marker \in flags <=> item.continues
  BY <1>1, ReportedFields DEF MarkerOf, Marker
<1>7. Uncertainly \in flags <=> (Uncertainly \in q.flags \/ ~Certain(q, item))
  BY <1>1 DEF MarkerOf, Marker, Uncertainly
<1>. HIDE DEF NumberType, SectionName, Flags, Pieces
<1>. QED
  BY <1>1, <1>2, <1>3, <1>4, <1>5, <1>6, <1>7 DEF QuestionType

LEMMA OpenedIs ==
  ASSUME NEW item \in Reported, section \in SectionName
  PROVE  /\ Opened(item) \in QuestionType
         /\ Opened(item).number = item.number
         /\ Opened(item).pieces = <<item.piece>>
         /\ Opened(item).labels = item.labels
         /\ Marker \in Opened(item).flags <=> item.continues
         /\ Uncertainly \notin Opened(item).flags
<1>1. PICK flags, ps :
        /\ flags = item.flags \cup MarkerOf(item)
                   \cup (IF first /\ item.starts /\ item.number = {} THEN {"ORPHAN_FRAGMENT"} ELSE {})
        /\ ps = <<item.piece>>
  OBVIOUS
<1>2. flags \in SUBSET Flags
  BY <1>1, ReportedFields, FlagNames DEF MarkerOf
<1>3. ps \in Pieces
  BY <1>1, ReportedFields DEF Pieces
<1>4. Opened(item) = [number |-> item.number, section |-> section, labels |-> item.labels,
                      flags |-> flags, pieces |-> ps]
  BY <1>1 DEF Opened
<1>5. Marker \in flags <=> item.continues
  BY <1>1, ReportedFields DEF MarkerOf, Marker
<1>6. Uncertainly \notin flags
  BY <1>1, ReportedFields DEF MarkerOf, Marker, Uncertainly
<1>7. item.number \in NumberType /\ item.labels \in Seq(Nat)
  BY ReportedFields
<1>. HIDE DEF NumberType, SectionName, Flags, Pieces
<1>. QED
  BY <1>1, <1>2, <1>3, <1>4, <1>5, <1>6, <1>7 DEF QuestionType

-----------------------------------------------------------------------------
(* The questions of a document *)

Loop == /\ section \in SectionName /\ first \in BOOLEAN /\ over \in BOOLEAN
        /\ stitched \in Seq(QuestionType)
        /\ current \in Seq(QuestionType) /\ Len(current) <= 1
        /\ \A k \in DOMAIN stitched : Marker \notin stitched[k].flags

LEMMA OneOrNone ==
  ASSUME NEW S, NEW s \in Seq(S), Len(s) <= 1
  PROVE  s = <<>> \/ (s[1] \in S /\ s = <<s[1]>> /\ DOMAIN s = {1})
<1>1. CASE Len(s) = 0
  BY <1>1, NothingLong
<1>2. CASE Len(s) # 0
  <2>1. Len(s) = 1
    <3>1. PICK n \in Nat : n = Len(s)
      OBVIOUS
    <3>2. n <= 1 /\ n # 0
      BY <1>2, <3>1
    <3>3. n = 1
      BY <3>2
    <3>. QED
      BY <3>1, <3>3
  <2>2. DOMAIN s = 1..1 /\ 1..1 = {1} /\ s[1] \in S
    BY <2>1
  <2>3. s = [k \in 1..1 |-> s[k]]
    BY <2>2
  <2>4. s = <<s[1]>>
    BY <2>2, <2>3
  <2>. QED
    BY <2>2, <2>4
<1>. QED
  BY <1>1, <1>2

\* What closing and auditing the questions leave as it was.
Like(q, p) == /\ q.labels = p.labels /\ q.pieces = p.pieces
              /\ Uncertainly \in q.flags <=> Uncertainly \in p.flags

LEMMA ClosedIs ==
  ASSUME Loop
  PROVE  /\ Closed \in Seq(QuestionType) /\ DOMAIN Closed = DOMAIN All
         /\ All \in Seq(QuestionType)
         /\ \A k \in DOMAIN Closed : Like(Closed[k], All[k]) /\ Marker \notin Closed[k].flags
<1>1. PICK S : S = QuestionType
  OBVIOUS
<1> DEFINE tail == [k \in DOMAIN current |-> [current[k] EXCEPT !.flags = @ \ {Marker}]]
<1>2. stitched \in Seq(S) /\ current \in Seq(S)
  BY <1>1 DEF Loop
<1>3. ASSUME NEW q \in QuestionType, NEW p, p = [q EXCEPT !.flags = @ \ {Marker}]
      PROVE  p \in QuestionType /\ Like(p, q) /\ Marker \notin p.flags
  <2>1. PICK flags : flags = q.flags \ {Marker} /\ flags \in SUBSET Flags
    BY QuestionFields
  <2>2. p = [q EXCEPT !.flags = flags]
    BY <1>3, <2>1
  <2>3. p \in QuestionType /\ p.flags = flags /\ p.labels = q.labels /\ p.pieces = q.pieces
    <3>. HIDE DEF NumberType, SectionName, Flags, Pieces
    <3>. QED
      BY <2>1, <2>2 DEF QuestionType
  <2>4. Uncertainly # Marker
    BY DEF Uncertainly, Marker
  <2>. QED
    BY <2>1, <2>3, <2>4 DEF Like
<1>4. \A k \in DOMAIN current :
        tail[k] \in S /\ Like(tail[k], current[k]) /\ Marker \notin tail[k].flags
  BY <1>1, <1>2, <1>3
<1>5. tail \in Seq(S) /\ DOMAIN tail = DOMAIN current /\ Len(tail) = Len(current)
  <2>1. PICK n \in Nat : n = Len(current) /\ DOMAIN current = 1..n
    BY <1>2
  <2>2. DOMAIN tail = 1..n
    BY <2>1
  <2>3. PICK t : t = tail
    OBVIOUS
  <2>4. t = [k \in 1..n |-> t[k]]
    BY <2>1, <2>3
  <2>5. \A k \in 1..n : t[k] \in S
    BY <1>4, <2>1, <2>3
  <2>6. t \in Seq(S) /\ Len(t) = n
    BY <2>4, <2>5
  <2>. QED
    BY <2>1, <2>2, <2>3, <2>6
<1>6. Closed = stitched \o tail
  BY DEF Closed
<1>. HIDE DEF tail
<1>7. All = stitched \o current
  BY DEF All
<1>8. stitched \o tail \in Seq(S) /\ stitched \o current \in Seq(S)
  BY <1>2, <1>5
<1>9. DOMAIN (stitched \o tail) = DOMAIN (stitched \o current)
  BY <1>2, <1>5
<1>10. ASSUME NEW k \in DOMAIN (stitched \o tail)
       PROVE  /\ Like((stitched \o tail)[k], (stitched \o current)[k])
              /\ Marker \notin (stitched \o tail)[k].flags
  <2>1. CASE k \in DOMAIN stitched
    <3>1. (stitched \o tail)[k] = stitched[k] /\ (stitched \o current)[k] = stitched[k]
      BY <1>2, <1>5, <2>1
    <3>. QED
      BY <2>1, <3>1 DEF Like, Loop
  <2>2. CASE k \notin DOMAIN stitched
    <3>1. PICK j \in DOMAIN current : j = k - Len(stitched)
      BY <1>2, <1>5, <2>2
    <3>2. (stitched \o tail)[k] = tail[j] /\ (stitched \o current)[k] = current[j]
      BY <1>2, <1>5, <2>2, <3>1
    <3>. QED
      BY <1>4, <3>2
  <2>. QED
    BY <2>1, <2>2
<1>. QED
  BY <1>1, <1>6, <1>7, <1>8, <1>9, <1>10

-----------------------------------------------------------------------------
(* The audit *)

EarlierIn(s, i) == {j \in DOMAIN s : j < i /\ s[j].section = s[i].section}
LaterIn(s, i) == {j \in DOMAIN s : j > i /\ s[j].section = s[i].section}
NumberAt(s, f, i) ==
  LET before == IF EarlierIn(s, i) = {} THEN {} ELSE f[Max(EarlierIn(s, i))]
      after == IF LaterIn(s, i) = {} THEN {} ELSE s[Min(LaterIn(s, i))].number
  IN IF s[i].number # {} THEN s[i].number ELSE Inferred(before, after)

LEMMA InferredType ==
  ASSUME NEW before \in NumberType, NEW after \in NumberType
  PROVE  Inferred(before, after) \in NumberType
<1>1. CASE before = {}
  BY <1>1 DEF Inferred, NumberType
<1>2. ASSUME NEW n \in 1..Top, before = {n}
      PROVE  Inferred(before, after) \in NumberType
  <2>1. CASE n + 2 \in after
    <3>1. n + 2 \in 1..Top
      BY <2>1 DEF NumberType
    <3>2. n + 1 \in 1..Top
      BY <3>1, TopIs
    <3>3. Inferred(before, after) = {n + 1}
      BY <1>2, <2>1 DEF Inferred
    <3>. QED
      BY <3>2, <3>3 DEF NumberType
  <2>2. CASE n + 2 \notin after
    <3>1. Inferred(before, after) = {}
      BY <1>2, <2>2 DEF Inferred
    <3>. QED
      BY <3>1 DEF NumberType
  <2>. QED
    BY <2>1, <2>2
<1>. QED
  BY <1>1, <1>2 DEF NumberType

LEMMA EarlierIs ==
  ASSUME NEW s \in Seq(QuestionType), NEW i \in DOMAIN s, EarlierIn(s, i) # {}
  PROVE  Max(EarlierIn(s, i)) \in 1..(i - 1)
<1>1. EarlierIn(s, i) \in SUBSET (1..Len(s)) /\ Len(s) \in Nat
  BY DEF EarlierIn
<1>2. Max(EarlierIn(s, i)) \in EarlierIn(s, i)
  BY <1>1, MaxIs
<1>. QED
  BY <1>2 DEF EarlierIn

\* The number of each question, which may depend on that of an earlier one.
LEMMA NumbersExist ==
  ASSUME NEW s \in Seq(QuestionType)
  PROVE  \E f : f = [i \in DOMAIN s |-> NumberAt(s, f, i)]
<1>1. PICK n \in Nat : n = Len(s) /\ DOMAIN s = 1..n
  OBVIOUS
<1> DEFINE Body(f, m) == [i \in 1..m |-> NumberAt(s, f, i)]
           T == {m \in 0..n : \E f : f = Body(f, m)}
<1>2. 0 \in T
  <2>1. PICK f : f = [i \in 1..0 |-> {}]
    OBVIOUS
  <2>2. f = Body(f, 0)
    BY <2>1
  <2>. HIDE DEF Body
  <2>. QED
    BY <2>2
<1>3. ASSUME NEW m \in 1..n, m - 1 \in T
      PROVE  m \in T
  <2>1. PICK f : f = Body(f, m - 1)
    BY <1>3
  <2>2. PICK g : g = [i \in 1..m |-> IF i = m THEN NumberAt(s, f, m) ELSE f[i]]
    OBVIOUS
  <2>3. ASSUME NEW i \in 1..(m - 1)
        PROVE  g[i] = f[i] /\ f[i] = NumberAt(s, f, i)
    <3>1. i \in 1..m /\ i # m
      OBVIOUS
    <3>2. f[i] = NumberAt(s, f, i)
      BY <2>1
    <3>. QED
      BY <2>2, <3>1, <3>2
  <2>4. \A i \in 1..m : NumberAt(s, g, i) = NumberAt(s, f, i)
    <3>1. \A i \in 1..m : EarlierIn(s, i) # {} => Max(EarlierIn(s, i)) \in 1..(m - 1)
      <4>1. \A i \in 1..m : i \in DOMAIN s
        BY <1>1
      <4>2. \A i \in 1..m : EarlierIn(s, i) # {} => Max(EarlierIn(s, i)) \in 1..(i - 1)
        BY <4>1, EarlierIs
      <4>. QED
        BY <4>2
    <3>. QED
      BY <2>3, <3>1 DEF NumberAt
  <2>5. \A i \in 1..m : g[i] = NumberAt(s, g, i)
    <3>1. ASSUME NEW i \in 1..m
          PROVE  g[i] = NumberAt(s, f, i)
      <4>1. CASE i = m
        BY <2>2, <4>1
      <4>2. CASE i # m
        <5>1. i \in 1..(m - 1)
          BY <4>2
        <5>. QED
          BY <2>3, <5>1
      <4>. QED
        BY <4>1, <4>2
    <3>. QED
      BY <2>4, <3>1
  <2>6. g = Body(g, m)
    BY <2>2, <2>5
  <2>7. m \in 0..n
    OBVIOUS
  <2>. HIDE DEF Body
  <2>. QED
    BY <2>6, <2>7
<1>4. n \in T
  <2>. HIDE DEF T
  <2>1. \A k \in 0..n : k \in T
    BY <1>2, <1>3, UpTo
  <2>. QED
    BY <2>1
<1>. QED
  BY <1>1, <1>4

\* The audit gives the questions these numbers, and flags of its own.
Audit(s, number, more) ==
  /\ number = [i \in DOMAIN s |-> NumberAt(s, number, i)]
  /\ \A i \in DOMAIN s : more[i] \in SUBSET (Flags \ {Marker, Uncertainly})
  /\ \A i \in DOMAIN s :
       /\ number[i] # s[i].number => "NUMBER_INFERRED" \in more[i]
       /\ number[i] = {} => "MISSING_NUMBER" \in more[i] \/ "ORPHAN_FRAGMENT" \in s[i].flags
  /\ Audited(s) = [i \in DOMAIN s |-> [s[i] EXCEPT !.number = number[i],
                                                    !.flags = @ \cup more[i]]]

LEMMA AuditedIs ==
  ASSUME NEW s \in Seq(QuestionType)
  PROVE  \E number, more : Audit(s, number, more)
<1>1. PICK number : 
        /\ number = [i \in DOMAIN s |-> NumberAt(s, number, i)]
        /\ Audited(s) =
             [i \in DOMAIN s |->
               [s[i] EXCEPT !.number = number[i],
                            !.flags = @ \cup {f \in {"NUMBER_INFERRED"} : number[i] # s[i].number}
                                        \cup {f \in {"MISSING_NUMBER"} :
                                                number[i] = {} /\ "ORPHAN_FRAGMENT" \notin s[i].flags}
                                        \cup {f \in {"DUPLICATE_NUMBER"} :
                                                number[i] # {} /\ \E j \in EarlierIn(s, i) : number[j] = number[i]}
                                        \cup {f \in {"NUMBER_GAP"} :
                                                EarlierIn(s, i) # {}
                                                /\ Gaps(number[Max(EarlierIn(s, i))], number[i]) # {}}]]
  BY NumbersExist DEF Audited, NumberAt, EarlierIn, LaterIn
<1>2. PICK more : more = [i \in DOMAIN s |->
                            {f \in {"NUMBER_INFERRED"} : number[i] # s[i].number}
                            \cup {f \in {"MISSING_NUMBER"} :
                                    number[i] = {} /\ "ORPHAN_FRAGMENT" \notin s[i].flags}
                            \cup {f \in {"DUPLICATE_NUMBER"} :
                                    number[i] # {} /\ \E j \in EarlierIn(s, i) : number[j] = number[i]}
                            \cup {f \in {"NUMBER_GAP"} :
                                    EarlierIn(s, i) # {}
                                    /\ Gaps(number[Max(EarlierIn(s, i))], number[i]) # {}}]
  OBVIOUS
<1>3. \A i \in DOMAIN s : more[i] \in SUBSET (Flags \ {Marker, Uncertainly})
  BY <1>2 DEF Flags, Marker, Uncertainly
<1>4. \A i \in DOMAIN s :
        [s[i] EXCEPT !.number = number[i],
                     !.flags = @ \cup {f \in {"NUMBER_INFERRED"} : number[i] # s[i].number}
                                 \cup {f \in {"MISSING_NUMBER"} :
                                         number[i] = {} /\ "ORPHAN_FRAGMENT" \notin s[i].flags}
                                 \cup {f \in {"DUPLICATE_NUMBER"} :
                                         number[i] # {} /\ \E j \in EarlierIn(s, i) : number[j] = number[i]}
                                 \cup {f \in {"NUMBER_GAP"} :
                                         EarlierIn(s, i) # {}
                                         /\ Gaps(number[Max(EarlierIn(s, i))], number[i]) # {}}]
          = [s[i] EXCEPT !.number = number[i], !.flags = @ \cup more[i]]
  BY <1>2
<1>5. Audited(s) = [i \in DOMAIN s |-> [s[i] EXCEPT !.number = number[i],
                                                     !.flags = @ \cup more[i]]]
  BY <1>1, <1>4
<1>6. \A i \in DOMAIN s :
        /\ number[i] # s[i].number => "NUMBER_INFERRED" \in more[i]
        /\ number[i] = {} => "MISSING_NUMBER" \in more[i] \/ "ORPHAN_FRAGMENT" \in s[i].flags
  BY <1>2
<1>7. Audit(s, number, more)
  BY <1>1, <1>3, <1>5, <1>6 DEF Audit
<1>. QED
  BY <1>7

LEMMA AuditedType ==
  ASSUME NEW s \in Seq(QuestionType), \A k \in DOMAIN s : Marker \notin s[k].flags
  PROVE  /\ Audited(s) \in Seq(QuestionType) /\ DOMAIN Audited(s) = DOMAIN s
         /\ \A k \in DOMAIN s : Like(Audited(s)[k], s[k]) /\ Marker \notin Audited(s)[k].flags
<1>1. PICK n \in Nat : n = Len(s) /\ DOMAIN s = 1..n /\ \A k \in 1..n : s[k] \in QuestionType
  OBVIOUS
<1>0. PICK number, more : Audit(s, number, more)
  BY AuditedIs
<1>2. /\ number = [i \in DOMAIN s |-> NumberAt(s, number, i)]
      /\ \A i \in DOMAIN s : more[i] \in SUBSET (Flags \ {Marker, Uncertainly})
      /\ Audited(s) = [i \in DOMAIN s |-> [s[i] EXCEPT !.number = number[i],
                                                        !.flags = @ \cup more[i]]]
  BY <1>0 DEF Audit
<1>3. PICK T : T = {k \in 0..n : \A j \in 1..k : number[j] \in NumberType}
  OBVIOUS
<1>4. 0 \in T
  BY <1>3
<1>5. ASSUME NEW k \in 1..n, k - 1 \in T
      PROVE  k \in T
  <2>1. \A j \in 1..(k - 1) : number[j] \in NumberType
    BY <1>3, <1>5
  <2>2. number[k] = NumberAt(s, number, k)
    BY <1>1, <1>2
  <2>3. {} \in NumberType /\ s[k].number \in NumberType
    BY <1>1, QuestionFields DEF NumberType
  <2>4. PICK before : before = IF EarlierIn(s, k) = {} THEN {} ELSE number[Max(EarlierIn(s, k))]
    OBVIOUS
  <2>5. before \in NumberType
    <3>1. k \in DOMAIN s
      BY <1>1
    <3>. QED
      BY <2>1, <2>3, <2>4, <3>1, EarlierIs
  <2>6. PICK after : after = IF LaterIn(s, k) = {} THEN {} ELSE s[Min(LaterIn(s, k))].number
    OBVIOUS
  <2>7. after \in NumberType
    <3>1. CASE LaterIn(s, k) = {}
      BY <2>3, <2>6, <3>1
    <3>2. CASE LaterIn(s, k) # {}
      <4>1. LaterIn(s, k) \in SUBSET Nat
        BY <1>1 DEF LaterIn
      <4>2. Min(LaterIn(s, k)) \in DOMAIN s
        BY <3>2, <4>1, MinIs DEF LaterIn
      <4>. QED
        BY <1>1, <2>6, <3>2, <4>2, QuestionFields
    <3>. QED
      BY <3>1, <3>2
  <2>8. number[k] \in NumberType
    BY <2>2, <2>3, <2>4, <2>5, <2>6, <2>7, InferredType DEF NumberAt
  <2>9. \A j \in 1..k : j = k \/ j \in 1..(k - 1)
    OBVIOUS
  <2>10. k \in 0..n
    OBVIOUS
  <2>. QED
    BY <1>3, <2>1, <2>8, <2>9, <2>10
<1>6. \A j \in 1..n : number[j] \in NumberType
  <2>1. n \in T
    <3>1. \A k \in 0..n : k \in T
      BY <1>4, <1>5, UpTo
    <3>. QED
      BY <3>1
  <2>. QED
    BY <1>3, <2>1
<1>7. ASSUME NEW k \in 1..n
      PROVE  /\ [s[k] EXCEPT !.number = number[k], !.flags = @ \cup more[k]] \in QuestionType
             /\ Like([s[k] EXCEPT !.number = number[k], !.flags = @ \cup more[k]], s[k])
             /\ Marker \notin [s[k] EXCEPT !.number = number[k], !.flags = @ \cup more[k]].flags
  <2>1. PICK q \in QuestionType : q = s[k]
    BY <1>1
  <2>2. PICK num \in NumberType : num = number[k]
    BY <1>6
  <2>3. PICK flags : flags = q.flags \cup more[k]
    OBVIOUS
  <2>4. flags \in SUBSET Flags /\ Marker \notin flags /\ (Uncertainly \in flags <=> Uncertainly \in q.flags)
    BY <1>1, <1>2, <2>1, <2>3, QuestionFields
  <2>5. PICK p : p = [q EXCEPT !.number = num, !.flags = flags]
    OBVIOUS
  <2>6. p \in QuestionType /\ p.flags = flags /\ p.labels = q.labels /\ p.pieces = q.pieces
    <3>. HIDE DEF NumberType, SectionName, Flags, Pieces
    <3>. QED
      BY <2>4, <2>5 DEF QuestionType
  <2>. QED
    BY <2>1, <2>2, <2>3, <2>4, <2>5, <2>6 DEF Like
<1>8. Audited(s) \in Seq(QuestionType) /\ DOMAIN Audited(s) = DOMAIN s
  <2>1. PICK S : S = QuestionType
    OBVIOUS
  <2>2. \A k \in 1..n : [s[k] EXCEPT !.number = number[k], !.flags = @ \cup more[k]] \in S
    BY <1>7, <2>1
  <2>3. PICK t : t = [i \in 1..n |-> [s[i] EXCEPT !.number = number[i], !.flags = @ \cup more[i]]]
    OBVIOUS
  <2>4. t = [i \in 1..n |-> t[i]] /\ \A k \in 1..n : t[k] \in S
    BY <2>2, <2>3
  <2>5. t \in Seq(S) /\ DOMAIN t = 1..n
    BY <2>4
  <2>. QED
    BY <1>1, <1>2, <2>1, <2>3, <2>5
<1>9. \A k \in 1..n : Audited(s)[k] = [s[k] EXCEPT !.number = number[k], !.flags = @ \cup more[k]]
  BY <1>1, <1>2
<1>. QED
  BY <1>1, <1>7, <1>8, <1>9

-----------------------------------------------------------------------------
(* The steps of the loop *)

NewOf(item) == IF Continues(item) THEN Joined(current[1], item) ELSE Opened(item)

LEMMA NewIs ==
  ASSUME Loop, NEW item \in Reported
  PROVE  /\ NewOf(item) \in QuestionType
         /\ Continues(item) => current[1] \in QuestionType /\ current = <<current[1]>>
                               /\ DOMAIN current = {1}
<1>1. Continues(item) => current[1] \in QuestionType /\ current = <<current[1]>>
                         /\ DOMAIN current = {1}
  BY OneOrNone DEF Loop, Continues
<1>2. section \in SectionName
  BY DEF Loop
<1>. QED
  BY <1>1, <1>2, JoinedIs, OpenedIs DEF NewOf

\* An item is joined to the open question or closes it; the others stay.
LEMMA ItemTaken ==
  ASSUME Loop, NEW item \in Reported, TakeItem(item)
  PROVE  /\ Loop' /\ ~over /\ over' = over /\ first' = FALSE /\ section' = section
         /\ current' = <<NewOf(item)>>
         /\ IF Continues(item) THEN stitched' = stitched ELSE stitched' = Closed
         /\ All' = stitched' \o <<NewOf(item)>>
         /\ \A k \in DOMAIN stitched' : k \in DOMAIN All /\ Like(stitched'[k], All[k])
<1>1. PICK new \in QuestionType : new = NewOf(item)
  BY NewIs
<1>2. /\ current' = <<new>> /\ ~over /\ over' = over /\ first' = FALSE /\ section' = section
      /\ IF Continues(item) THEN stitched' = stitched ELSE stitched' = Closed
  BY <1>1 DEF TakeItem, NewOf
<1>3. /\ stitched' \in Seq(QuestionType)
      /\ \A k \in DOMAIN stitched' : Marker \notin stitched'[k].flags
  <2>1. CASE Continues(item)
    BY <1>2, <2>1 DEF Loop
  <2>2. CASE ~Continues(item)
    BY <1>2, <2>2, ClosedIs
  <2>. QED
    BY <2>1, <2>2
<1>4. <<new>> \in Seq(QuestionType) /\ Len(<<new>>) = 1
  <2>1. PICK S : S = QuestionType
    OBVIOUS
  <2>2. new \in S
    BY <1>1, <2>1
  <2>3. <<new>> \in Seq(S) /\ Len(<<new>>) = 1
    BY <2>2
  <2>. QED
    BY <2>1, <2>3
<1>5. Loop'
  <2>1. current' \in Seq(QuestionType) /\ Len(current') <= 1
    BY <1>2, <1>4
  <2>2. section' \in SectionName /\ first' \in BOOLEAN /\ over' \in BOOLEAN
    BY <1>2 DEF Loop
  <2>. QED
    BY <1>3, <2>1, <2>2 DEF Loop
<1>6. ASSUME NEW k \in DOMAIN stitched'
      PROVE  k \in DOMAIN All /\ Like(stitched'[k], All[k])
  <2>1. CASE Continues(item)
    <3>1. k \in DOMAIN (stitched \o current) /\ (stitched \o current)[k] = stitched[k]
      BY <1>2, <1>6, <2>1 DEF Loop
    <3>. QED
      BY <1>2, <2>1, <3>1 DEF All, Like
  <2>2. CASE ~Continues(item)
    BY <1>2, <1>6, <2>2, ClosedIs
  <2>. QED
    BY <2>1, <2>2
<1>7. All' = stitched' \o <<new>>
  BY <1>2 DEF All
<1>. QED
  BY <1>1, <1>2, <1>5, <1>6, <1>7

LEMMA PageTurned ==
  ASSUME Loop, NEW heading \in SectionName, TurnPage(heading)
  PROVE  Loop' /\ All' = All /\ ~over /\ over' = over /\ current' = current /\ first' = TRUE
BY DEF Loop, TurnPage, All

LEMMA DocumentEnds ==
  ASSUME Loop, Finish
  PROVE  /\ Loop' /\ current' = <<>> /\ over' = TRUE
         /\ DOMAIN All' = DOMAIN All
         /\ \A k \in DOMAIN All : Like(All'[k], All[k])
<1>1. /\ stitched' = Audited(Closed) /\ current' = <<>> /\ over' = TRUE
      /\ section' = section /\ first' = first
  BY DEF Finish
<1>2. PICK closed \in Seq(QuestionType) :
        /\ closed = Closed /\ DOMAIN closed = DOMAIN All
        /\ \A k \in DOMAIN closed : Like(closed[k], All[k]) /\ Marker \notin closed[k].flags
  BY ClosedIs
<1>3. /\ stitched' \in Seq(QuestionType) /\ DOMAIN stitched' = DOMAIN closed
      /\ \A k \in DOMAIN closed : Like(stitched'[k], closed[k]) /\ Marker \notin stitched'[k].flags
  BY <1>1, <1>2, AuditedType
<1>4. All' = stitched'
  <2>1. All' = stitched' \o <<>>
    BY <1>1 DEF All
  <2>2. stitched' \o <<>> = stitched'
    BY <1>3
  <2>. QED
    BY <2>1, <2>2
<1>5. Loop'
  <2>1. <<>> \in Seq(QuestionType) /\ Len(<<>>) = 0
    OBVIOUS
  <2>. QED
    BY <1>1, <1>3, <2>1 DEF Loop
<1>6. \A k \in DOMAIN All : Like(All'[k], All[k])
  BY <1>2, <1>3, <1>4 DEF Like
<1>. QED
  BY <1>1, <1>2, <1>3, <1>4, <1>5, <1>6

-----------------------------------------------------------------------------
(* The items of a page, as the rules read it *)

ItemType == [number : NumberType, starts : BOOLEAN, continues : BOOLEAN, labels : Seq(Nat),
             text : BOOLEAN, ends : BOOLEAN, answer : BOOLEAN, lines : Seq(Nat)]
PrintedLine == {line \in LineType : line.number \in NumberType}
Reading == [items : Seq(ItemType), open : Seq(ItemType)]

LEMMA ItemFields ==
  ASSUME NEW x \in ItemType
  PROVE  /\ x.number \in NumberType /\ x.starts \in BOOLEAN /\ x.continues \in BOOLEAN
         /\ x.labels \in Seq(Nat) /\ x.lines \in Seq(Nat)
         /\ x.text \in BOOLEAN /\ x.ends \in BOOLEAN /\ x.answer \in BOOLEAN
<1>. HIDE DEF NumberType
<1>. QED
  BY DEF ItemType

LEMMA ItemIs ==
  ASSUME NEW number \in NumberType, NEW starts \in BOOLEAN
  PROVE  /\ Item(number, starts) \in ItemType /\ Item(number, starts).number = number
         /\ Item(number, starts).starts = starts /\ Item(number, starts).labels = <<>>
         /\ Item(number, starts).lines = <<>>
<1>1. <<>> \in Seq(Nat)
  OBVIOUS
<1>. HIDE DEF NumberType
<1>. QED
  BY <1>1 DEF Item, ItemType

\* What a line adds to an item.
LEMMA ExtendedIs ==
  ASSUME NEW x \in ItemType, NEW line \in PrintedLine
  PROVE  /\ Extended(x, line) \in ItemType
         /\ Extended(x, line).number = x.number /\ Extended(x, line).starts = x.starts
         /\ Extended(x, line).lines = Append(x.lines, line.of)
         /\ Extended(x, line).labels = x.labels \o line.labels
<1>1. line.labels \in Seq(Nat) /\ line.of \in Nat /\ line.ends \in BOOLEAN
  BY LineFields DEF PrintedLine
<1>2. PICK ls : ls = Append(x.lines, line.of) /\ ls \in Seq(Nat)
  <2>1. x.lines \in Seq(Nat)
    BY ItemFields
  <2>2. Append(x.lines, line.of) \in Seq(Nat)
    BY <1>1, <2>1
  <2>. QED
    BY <2>2
<1>3. PICK labels : labels = x.labels \o line.labels /\ labels \in Seq(Nat)
  <2>1. x.labels \in Seq(Nat)
    BY ItemFields
  <2>2. x.labels \o line.labels \in Seq(Nat)
    BY <1>1, <2>1
  <2>. QED
    BY <2>2
<1>4. line.labels = <<>> => labels = x.labels
  BY <1>3, ItemFields
<1>5. Extended(x, line) \in {[x EXCEPT !.lines = ls, !.labels = labels]} \/ line.labels = <<>>
  BY <1>2, <1>3 DEF Extended, WithOptions, WithLine, ItemType
<1>6. line.labels = <<>> =>
        \/ Extended(x, line) = [x EXCEPT !.lines = ls, !.answer = TRUE]
        \/ Extended(x, line) = [x EXCEPT !.lines = ls]
        \/ Extended(x, line) = [x EXCEPT !.lines = ls, !.text = TRUE, !.ends = line.ends]
  BY <1>2 DEF Extended, WithAnswer, WithText, WithLine, ItemType
<1>. HIDE DEF NumberType
<1>7. CASE line.labels # <<>>
  BY <1>2, <1>3, <1>5, <1>7 DEF ItemType
<1>8. CASE line.labels = <<>>
  BY <1>1, <1>2, <1>3, <1>4, <1>6, <1>8 DEF ItemType
<1>. QED
  BY <1>7, <1>8

Asking(line) == [WithLine(Item(line.number, FALSE), line) EXCEPT !.text = TRUE, !.ends = line.ends]

LEMMA AskingIs ==
  ASSUME NEW line \in PrintedLine
  PROVE  /\ Asking(line) \in ItemType /\ Asking(line).number = line.number
         /\ Asking(line).starts = FALSE /\ Asking(line).labels = <<>>
         /\ Asking(line).lines = <<line.of>>
<1>1. line.number \in NumberType /\ line.of \in Nat /\ line.ends \in BOOLEAN
  BY LineFields DEF PrintedLine
<1>2. PICK x \in ItemType : x = Item(line.number, FALSE)
  BY <1>1, ItemIs
<1>3. x.number = line.number /\ x.starts = FALSE /\ x.labels = <<>> /\ x.lines = <<>>
  BY <1>1, <1>2, ItemIs
<1>4. PICK ls : ls = <<line.of>> /\ ls \in Seq(Nat) /\ ls = Append(x.lines, line.of)
  <2>1. PICK of \in Nat : of = line.of
    BY <1>1
  <2>2. <<of>> \in Seq(Nat) /\ <<of>> = Append(<<>>, of)
    OBVIOUS
  <2>. QED
    BY <1>3, <2>1, <2>2
<1>5. Asking(line) = [x EXCEPT !.lines = ls, !.text = TRUE, !.ends = line.ends]
  BY <1>2, <1>4 DEF Asking, WithLine, ItemType
<1>. HIDE DEF NumberType
<1>. QED
  BY <1>1, <1>3, <1>4, <1>5 DEF ItemType

LEMMA FinishedType ==
  ASSUME NEW acc \in Reading
  PROVE  Finished(acc) \in Seq(ItemType)
<1>1. acc.items \in Seq(ItemType) /\ acc.open \in Seq(ItemType)
  BY DEF Reading
<1>2. acc.items \o acc.open \in Seq(ItemType)
  BY <1>1
<1>. QED
  BY <1>1, <1>2 DEF Finished

LEMMA TakeLineType ==
  ASSUME NEW acc \in Reading, NEW line \in PrintedLine, NEW pageNo \in Nat
  PROVE  TakeLine(acc, line, pageNo) \in Reading
<1>1. acc.items \in Seq(ItemType) /\ acc.open \in Seq(ItemType)
  BY DEF Reading
<1>2. \A x \in ItemType : <<x>> \in Seq(ItemType)
  OBVIOUS
<1>3. acc.open # <<>> => Continue(acc, line) \in Reading
  <2>1. acc.open # <<>> => acc.open[1] \in ItemType
    BY <1>1
  <2>2. acc.open # <<>> => <<Extended(acc.open[1], line)>> \in Seq(ItemType)
    BY <1>2, <2>1, ExtendedIs
  <2>. QED
    BY <1>1, <2>2 DEF Continue, Reading
<1>4. StartQuestion(acc, line) \in Reading
  <2>1. <<Asking(line)>> \in Seq(ItemType)
    BY <1>2, AskingIs
  <2>. QED
    BY <2>1, FinishedType DEF StartQuestion, Asking, Reading
<1>5. StartFragment(acc, line, pageNo) \in Reading
  <2>1. {} \in NumberType /\ (pageNo > 1) \in BOOLEAN
    BY DEF NumberType
  <2>2. <<Extended(Item({}, pageNo > 1), line)>> \in Seq(ItemType)
    BY <1>2, <2>1, ItemIs, ExtendedIs
  <2>. QED
    BY <1>1, <2>2 DEF StartFragment, Reading
<1>. QED
  BY <1>3, <1>4, <1>5 DEF TakeLine

-----------------------------------------------------------------------------
(* Where in the paper a line stands *)

\* A place in the paper: the question, and how many options it has so far.
Place == [of : Nat, up : Nat]

\* A line at the place r that is printed after the place p.  A line that may be
\* read as the beginning of a question has no option that may be read there.
Follows(line, p, r) ==
  /\ line.section = {} /\ line.dense = <<>>
  /\ r.of = line.of
  /\ line.number = {} =>
       /\ p.of = r.of /\ r.up = p.up + Len(line.labels)
       /\ \A j \in DOMAIN line.labels : line.labels[j] = p.up + j
  /\ line.number # {} =>
       /\ r.up = 0 /\ ~line.answer
       /\ line.labels # <<>> => line.digits /\ Len(line.labels) = 1 /\ p.up = 0

\* The item x of a page that begins at the place lo.
PartOf(x, lo) ==
  /\ x.lines # <<>>
  /\ x.starts => x.number = {}
  /\ x.number = {} => /\ x.lines[1] = lo.of
                      /\ \A j \in DOMAIN x.labels : x.labels[j] = lo.up + j
  /\ x.number # {} => x.labels = UpToLabel(Len(x.labels))

\* The place hi to which it goes.
GoesTo(x, lo, hi) ==
  /\ hi.of = x.lines[1]
  /\ hi.up = (IF x.number = {} THEN lo.up ELSE 0) + Len(x.labels)

\* The items of the lines between the places lo and hi of a page.
Between(items, lo, hi) ==
  /\ \A k \in DOMAIN items : PartOf(items[k], lo) /\ (k > 1 => items[k].number # {})
  /\ IF items = <<>> THEN hi = lo ELSE GoesTo(items[Len(items)], lo, hi)

\* The same while the page is read.
ReadTo(acc, lo, hi) ==
  /\ \A k \in DOMAIN acc.items : PartOf(acc.items[k], lo) /\ (k > 1 => acc.items[k].number # {})
  /\ IF acc.open = <<>> THEN acc.items = <<>> /\ hi = lo
     ELSE /\ Len(acc.open) = 1
          /\ PartOf(acc.open[1], lo) /\ GoesTo(acc.open[1], lo, hi)
          /\ acc.open[1].number = {} => acc.items = <<>>

LEMMA PlaceFields ==
  ASSUME NEW p \in Place
  PROVE  p.of \in Nat /\ p.up \in Nat /\ \A r \in Place : p.of = r.of /\ p.up = r.up => p = r
BY DEF Place

LEMMA PlaceIs == \A of, up \in Nat : [of |-> of, up |-> up] \in Place
BY DEF Place

LEMMA FirstStays ==
  ASSUME NEW S, NEW s \in Seq(S), s # <<>>, NEW e \in S
  PROVE  Append(s, e) # <<>> /\ Append(s, e)[1] = s[1]
<1>1. Len(s) \in Nat /\ Len(s) # 0
  BY NothingLong
<1>2. 1 \in 1..Len(s)
  BY <1>1
<1>3. Len(Append(s, e)) = Len(s) + 1 /\ Append(s, e)[1] = s[1]
  BY <1>2
<1>4. Len(<<>>) = 0
  OBVIOUS
<1>. QED
  BY <1>1, <1>3, <1>4

LEMMA CountsOn ==
  ASSUME NEW s \in Seq(Nat), NEW t \in Seq(Nat), NEW base \in Nat,
         \A j \in DOMAIN s : s[j] = base + j, \A j \in DOMAIN t : t[j] = base + Len(s) + j
  PROVE  \A j \in DOMAIN (s \o t) : (s \o t)[j] = base + j
<1>1. PICK m \in Nat, n \in Nat : m = Len(s) /\ n = Len(t) /\ DOMAIN s = 1..m /\ DOMAIN t = 1..n
  OBVIOUS
<1>2. DOMAIN (s \o t) = 1..(m + n)
  BY <1>1
<1>3. ASSUME NEW j \in 1..(m + n)
      PROVE  (s \o t)[j] = base + j
  <2>1. CASE j <= m
    <3>1. j \in 1..m /\ (s \o t)[j] = s[j]
      BY <1>1, <2>1
    <3>. QED
      BY <1>1, <3>1
  <2>2. CASE j > m
    <3>1. PICK i \in 1..n : i = j - m
      BY <2>2
    <3>2. (s \o t)[j] = t[i]
      BY <1>1, <2>2, <3>1
    <3>3. t[i] = base + m + i
      BY <1>1, <3>1
    <3>. QED
      BY <3>1, <3>2, <3>3
  <2>3. j <= m \/ j > m
    OBVIOUS
  <2>. QED
    BY <2>1, <2>2, <2>3
<1>. QED
  BY <1>2, <1>3

LEMMA ExtendedGoesOn ==
  ASSUME NEW x \in ItemType, NEW line \in PrintedLine, NEW lo \in Place, NEW p \in Place,
         NEW r \in Place, PartOf(x, lo), GoesTo(x, lo, p), Follows(line, p, r),
         line.number = {} \/ IsOption(x, line) \/ line.answer
  PROVE  PartOf(Extended(x, line), lo) /\ GoesTo(Extended(x, line), lo, r)
<1>1. /\ lo.of \in Nat /\ lo.up \in Nat /\ p.of \in Nat /\ p.up \in Nat /\ r.of \in Nat /\ r.up \in Nat
      /\ x.labels \in Seq(Nat) /\ x.lines \in Seq(Nat) /\ line.labels \in Seq(Nat) /\ line.of \in Nat
  BY PlaceFields, ItemFields, LineFields DEF PrintedLine
<1>2. PICK y \in ItemType :
        /\ y = Extended(x, line)
        /\ y.number = x.number /\ y.starts = x.starts
        /\ y.lines = Append(x.lines, line.of) /\ y.labels = x.labels \o line.labels
  BY ExtendedIs
<1>3. line.number = {}
  <2>1. SUFFICES ASSUME line.number # {}
                 PROVE  FALSE
    OBVIOUS
  <2>2. IsOption(x, line) /\ line.labels # <<>> /\ Len(line.labels) = 1 /\ line.digits /\ p.up = 0
    BY <2>1 DEF Follows, IsOption
  <2>3. x.labels # <<>>
    BY <2>2 DEF IsOption
  <2>4. Len(x.labels) \in Nat /\ Len(x.labels) # 0
    BY <1>1, <2>3, NothingLong
  <2>5. p.up = (IF x.number = {} THEN lo.up ELSE 0) + Len(x.labels)
    BY DEF GoesTo
  <2>. QED
    BY <1>1, <2>2, <2>4, <2>5
<1>4. y.lines # <<>> /\ y.lines[1] = x.lines[1]
  <2>1. x.lines # <<>>
    BY DEF PartOf
  <2>2. PICK ls \in Seq(Nat), of \in Nat : ls = x.lines /\ of = line.of /\ ls # <<>>
    BY <1>1, <2>1
  <2>3. Append(ls, of) # <<>> /\ Append(ls, of)[1] = ls[1]
    BY <2>2, FirstStays
  <2>. QED
    BY <1>2, <2>2, <2>3
<1>5. PICK a \in Nat, b \in Nat, c \in Nat : /\ a = Len(x.labels) /\ b = Len(line.labels)
                                              /\ c = Len(y.labels) /\ c = a + b
  <2>1. PICK xs \in Seq(Nat), ls \in Seq(Nat) : xs = x.labels /\ ls = line.labels
    BY <1>1
  <2>2. Len(xs) \in Nat /\ Len(ls) \in Nat /\ Len(xs \o ls) \in Nat /\ Len(xs \o ls) = Len(xs) + Len(ls)
    OBVIOUS
  <2>. QED
    BY <1>2, <2>1, <2>2
<1>6. r.of = p.of /\ r.up = p.up + Len(line.labels)
      /\ \A j \in DOMAIN line.labels : line.labels[j] = p.up + j
  BY <1>3 DEF Follows
<1>7. GoesTo(y, lo, r)
  <2>1. PICK base \in Nat : base = IF x.number = {} THEN lo.up ELSE 0
    BY <1>1
  <2>2. p.of = x.lines[1] /\ p.up = base + Len(x.labels)
    BY <2>1 DEF GoesTo
  <2>3. r.of = y.lines[1]
    BY <1>4, <1>6, <2>2
  <2>4. PICK d \in Nat : d = p.up /\ d = base + a
    BY <1>5, <2>2
  <2>5. r.up = d + b
    BY <1>5, <1>6, <2>4
  <2>6. c = a + b /\ d = base + a
    BY <1>5, <2>4
  <2>7. d + b = base + c
    BY <2>6
  <2>8. r.up = base + Len(y.labels)
    BY <1>5, <2>5, <2>7
  <2>. QED
    BY <1>2, <2>1, <2>3, <2>8 DEF GoesTo
<1>8. PICK base \in Nat : /\ base = IF x.number = {} THEN lo.up ELSE 0
                          /\ p.up = base + Len(x.labels)
  BY <1>1 DEF GoesTo
<1>9. \A j \in DOMAIN x.labels : x.labels[j] = base + j
  <2>1. CASE x.number = {}
    BY <1>8, <2>1 DEF PartOf
  <2>2. CASE x.number # {}
    <3>1. x.labels = UpToLabel(Len(x.labels))
      BY <2>2 DEF PartOf
    <3>2. \A j \in 1..Len(x.labels) : UpToLabel(Len(x.labels))[j] = j
      BY DEF UpToLabel
    <3>3. DOMAIN x.labels = 1..Len(x.labels)
      BY <1>1
    <3>4. \A j \in DOMAIN x.labels : x.labels[j] = j /\ j \in Nat
      BY <3>1, <3>2, <3>3
    <3>. QED
      BY <1>8, <2>2, <3>4
  <2>. QED
    BY <2>1, <2>2
<1>10. \A j \in DOMAIN y.labels : y.labels[j] = base + j
  <2>1. PICK xs \in Seq(Nat), ls \in Seq(Nat) : xs = x.labels /\ ls = line.labels
    BY <1>1
  <2>2. \A j \in DOMAIN ls : ls[j] = base + Len(xs) + j
    BY <1>6, <1>8, <2>1
  <2>3. \A j \in DOMAIN (xs \o ls) : (xs \o ls)[j] = base + j
    BY ZenonT(60), <1>9, <2>1, <2>2, CountsOn
  <2>. QED
    BY <1>2, <2>1, <2>3
<1>11. y.number # {} => y.labels = UpToLabel(Len(y.labels))
  <2>1. y.number # {} => base = 0
    BY <1>2, <1>8
  <2>2. y.labels \in Seq(Nat)
    BY <1>2, ItemFields
  <2>. QED
    BY <1>10, <2>1, <2>2 DEF UpToLabel
<1>12. PartOf(y, lo)
  BY <1>2, <1>4, <1>8, <1>10, <1>11 DEF PartOf
<1>. QED
  BY <1>2, <1>7, <1>12

LEMMA ReadingFields ==
  ASSUME NEW acc \in Reading
  PROVE  /\ acc.items \in Seq(ItemType) /\ acc.open \in Seq(ItemType)
         /\ acc.open # <<>> => acc.open[1] \in ItemType
         /\ \A items, open : [items |-> items, open |-> open].items = items
                             /\ [items |-> items, open |-> open].open = open
<1>1. acc.items \in Seq(ItemType) /\ acc.open \in Seq(ItemType)
  BY DEF Reading
<1>2. PICK S : S = ItemType
  OBVIOUS
<1>3. \A s \in Seq(S) : s # <<>> => s[1] \in S
  OBVIOUS
<1>. QED
  BY <1>1, <1>2, <1>3

\* A line that goes on leaves the finished items as they are.
LEMMA ContinueGoesOn ==
  ASSUME NEW acc \in Reading, NEW line \in PrintedLine, NEW lo \in Place, NEW p \in Place,
         NEW r \in Place, ReadTo(acc, lo, p), Follows(line, p, r), acc.open # <<>>,
         line.number = {} \/ IsOption(acc.open[1], line) \/ line.answer
  PROVE  ReadTo(Continue(acc, line), lo, r)
<1>1. PICK x \in ItemType : x = acc.open[1]
  BY ReadingFields
<1>2. PICK y \in ItemType : y = Extended(x, line) /\ y.number = x.number
  BY ExtendedIs
<1>3. PartOf(x, lo) /\ GoesTo(x, lo, p) /\ (x.number = {} => acc.items = <<>>)
  BY <1>1 DEF ReadTo
<1>4. PartOf(y, lo) /\ GoesTo(y, lo, r)
  BY <1>1, <1>2, <1>3, ExtendedGoesOn
<1>5. PICK new : new = Continue(acc, line)
  OBVIOUS
<1>6. new.items = acc.items /\ new.open = <<y>>
  BY <1>1, <1>2, <1>5 DEF Continue, Reading
<1>7. <<y>> # <<>> /\ <<y>>[1] = y /\ Len(<<y>>) = 1
  OBVIOUS
<1>8. \A k \in DOMAIN acc.items : PartOf(acc.items[k], lo) /\ (k > 1 => acc.items[k].number # {})
  BY DEF ReadTo
<1>9. ReadTo(new, lo, r)
  BY <1>2, <1>3, <1>4, <1>6, <1>7, <1>8 DEF ReadTo
<1>. QED
  BY <1>5, <1>9

\* What is finished when a question begins or the page ends.
LEMMA FinishedIs ==
  ASSUME NEW acc \in Reading, NEW lo \in Place, NEW hi \in Place, ReadTo(acc, lo, hi)
  PROVE  Finished(acc) \in Seq(ItemType) /\ Between(Finished(acc), lo, hi)
<1>1. PICK S : S = ItemType
  OBVIOUS
<1>2. PICK items \in Seq(S) : items = acc.items
  BY <1>1, ReadingFields
<1>3. /\ \A k \in DOMAIN items : PartOf(items[k], lo) /\ (k > 1 => items[k].number # {})
      /\ lo.of \in Nat /\ lo.up \in Nat /\ hi.of \in Nat /\ hi.up \in Nat
  BY <1>2, PlaceFields DEF ReadTo
<1>4. CASE acc.open = <<>>
  <2>1. Finished(acc) = <<>> /\ items = <<>> /\ hi = lo
    BY <1>2, <1>4 DEF Finished, ReadTo
  <2>. QED
    BY <2>1 DEF Between
<1>5. CASE acc.open # <<>>
  <2>1. PICK x \in S : /\ x = acc.open[1] /\ Len(acc.open) = 1
                       /\ PartOf(x, lo) /\ GoesTo(x, lo, hi) /\ (x.number = {} => items = <<>>)
    BY <1>1, <1>2, <1>5, ReadingFields DEF ReadTo
  <2>2. acc.open = <<x>>
    <3>1. acc.open \in Seq(S) /\ Len(acc.open) <= 1
      BY <1>1, <2>1, ReadingFields
    <3>. QED
      BY <1>5, <2>1, <3>1, OneOrNone
  <2>3. CASE HasContent(x)
    <3>1. Finished(acc) = items \o <<x>>
      BY <1>2, <1>5, <2>1, <2>2, <2>3 DEF Finished
    <3>2. PICK n \in Nat : n = Len(items) /\ DOMAIN items = 1..n
      OBVIOUS
    <3>3. PICK all \in Seq(S) : all = items \o <<x>>
      <4>1. <<x>> \in Seq(S)
        OBVIOUS
      <4>2. items \o <<x>> \in Seq(S)
        BY <4>1
      <4>. QED
        BY <4>2
    <3>4. Len(all) = n + 1 /\ DOMAIN all = 1..(n + 1) /\ all[n + 1] = x
      BY <3>2, <3>3
    <3>5. \A k \in 1..n : all[k] = items[k]
      BY <3>2, <3>3
    <3>6. n > 0 => x.number # {}
      BY <2>1, <3>2
    <3>7. ASSUME NEW k \in 1..(n + 1)
          PROVE  PartOf(all[k], lo) /\ (k > 1 => all[k].number # {})
      <4>1. CASE k = n + 1
        BY <2>1, <3>4, <3>6, <4>1
      <4>2. CASE k # n + 1
        <5>1. k \in 1..n
          BY <4>2
        <5>. QED
          BY <1>3, <3>2, <3>5, <5>1
      <4>. QED
        BY <4>1, <4>2
    <3>8. all # <<>>
      <4>1. Len(<<>>) = 0
        OBVIOUS
      <4>. QED
        BY <3>4, <4>1
    <3>9. Between(all, lo, hi)
      BY <2>1, <3>4, <3>7, <3>8 DEF Between
    <3>. QED
      BY <1>1, <3>1, <3>3, <3>9
  <2>4. CASE ~HasContent(x)
    <3>1. Finished(acc) = items
      BY <1>2, <1>5, <2>1, <2>4 DEF Finished
    <3>2. x.labels = <<>> /\ x.number = {}
      BY <2>4 DEF HasContent
    <3>3. items = <<>>
      BY <2>1, <3>2
    <3>4. hi.of = lo.of /\ hi.up = lo.up + 0
      <4>1. Len(<<>>) = 0
        OBVIOUS
      <4>. QED
        BY <2>1, <3>2, <4>1 DEF GoesTo, PartOf
    <3>5. hi = lo
      BY <1>3, <3>4, PlaceFields
    <3>. QED
      BY <1>1, <3>1, <3>3, <3>5 DEF Between
  <2>. QED
    BY <2>3, <2>4
<1>. QED
  BY <1>4, <1>5

LEMMA AskingStarts ==
  ASSUME NEW acc \in Reading, NEW line \in PrintedLine, NEW lo \in Place, NEW p \in Place,
         NEW r \in Place, ReadTo(acc, lo, p), Follows(line, p, r), line.number # {}
  PROVE  ReadTo(StartQuestion(acc, line), lo, r)
<1>1. PICK y \in ItemType : /\ y = Asking(line) /\ y.number = line.number /\ y.starts = FALSE
                            /\ y.labels = <<>> /\ y.lines = <<line.of>>
  BY AskingIs
<1>2. PICK new : new = StartQuestion(acc, line)
  OBVIOUS
<1>3. new.items = Finished(acc) /\ new.open = <<y>>
  BY <1>1, <1>2 DEF StartQuestion, Asking
<1>4. <<y>> # <<>> /\ <<y>>[1] = y /\ Len(<<y>>) = 1
  OBVIOUS
<1>5. \A k \in DOMAIN new.items : PartOf(new.items[k], lo) /\ (k > 1 => new.items[k].number # {})
  BY <1>3, FinishedIs DEF Between
<1>6. Len(<<>>) = 0 /\ <<>> = UpToLabel(0) /\ <<line.of>> # <<>> /\ <<line.of>>[1] = line.of
  BY DEF UpToLabel
<1>7. PartOf(y, lo)
  BY <1>1, <1>6 DEF PartOf
<1>8. GoesTo(y, lo, r)
  <2>1. r.of = line.of /\ r.up = 0
    BY DEF Follows
  <2>. QED
    BY <1>1, <1>6, <2>1 DEF GoesTo
<1>9. ReadTo(new, lo, r)
  BY <1>1, <1>3, <1>4, <1>5, <1>7, <1>8 DEF ReadTo
<1>. QED
  BY <1>2, <1>9

LEMMA FragmentStarts ==
  ASSUME NEW acc \in Reading, NEW line \in PrintedLine, NEW lo \in Place, NEW p \in Place,
         NEW r \in Place, NEW pageNo \in Nat, ReadTo(acc, lo, p), Follows(line, p, r),
         acc.open = <<>>, line.number = {}
  PROVE  ReadTo(StartFragment(acc, line, pageNo), lo, r)
<1>1. /\ p = lo /\ acc.items = <<>> /\ lo.of \in Nat /\ lo.up \in Nat /\ r.of \in Nat /\ r.up \in Nat
      /\ line.labels \in Seq(Nat) /\ line.of \in Nat
  BY PlaceFields, LineFields DEF ReadTo, PrintedLine
<1>2. /\ r.of = line.of /\ p.of = r.of /\ r.up = p.up + Len(line.labels)
      /\ \A j \in DOMAIN line.labels : line.labels[j] = p.up + j
  BY DEF Follows
<1>3. CASE pageNo = 1 /\ line.labels = <<>>
  <2>1. r.up = lo.up + 0
    <3>1. Len(<<>>) = 0
      OBVIOUS
    <3>. QED
      BY <1>1, <1>2, <1>3, <3>1
  <2>2. r = lo
    BY <1>1, <1>2, <2>1, PlaceFields
  <2>. QED
    BY <1>1, <1>3, <2>2 DEF StartFragment
<1>4. CASE ~(pageNo = 1 /\ line.labels = <<>>)
  <2>1. {} \in NumberType /\ (pageNo > 1) \in BOOLEAN
    BY DEF NumberType
  <2>2. PICK x \in ItemType : /\ x = Item({}, pageNo > 1) /\ x.number = {}
                              /\ x.labels = <<>> /\ x.lines = <<>>
    BY <2>1, ItemIs
  <2>3. PICK y \in ItemType : /\ y = Extended(x, line) /\ y.number = {}
                              /\ y.lines = Append(x.lines, line.of) /\ y.labels = x.labels \o line.labels
    BY <2>2, ExtendedIs
  <2>4. y.labels = line.labels
    <3>1. PICK ls \in Seq(Nat) : ls = line.labels
      BY <1>1
    <3>2. <<>> \o ls = ls
      OBVIOUS
    <3>. QED
      BY <2>2, <2>3, <3>1, <3>2
  <2>5. y.lines = <<line.of>>
    BY <2>2, <2>3
  <2>6. PICK new : new = StartFragment(acc, line, pageNo)
    OBVIOUS
  <2>7. new.items = <<>> /\ new.open = <<y>>
    <3>1. new = [acc EXCEPT !.open = <<y>>]
      BY <1>4, <2>2, <2>3, <2>6 DEF StartFragment
    <3>. QED
      BY <1>1, <3>1 DEF Reading
  <2>8. <<y>> # <<>> /\ <<y>>[1] = y /\ Len(<<y>>) = 1 /\ <<line.of>> # <<>> /\ <<line.of>>[1] = line.of
    OBVIOUS
  <2>9. PartOf(y, lo)
    BY <1>1, <1>2, <2>3, <2>4, <2>5, <2>8 DEF PartOf
  <2>10. GoesTo(y, lo, r)
    BY <1>1, <1>2, <2>3, <2>4, <2>5, <2>8 DEF GoesTo
  <2>11. ReadTo(new, lo, r)
    <3>1. DOMAIN <<>> = {}
      OBVIOUS
    <3>. QED
      BY <2>7, <2>8, <2>9, <2>10, <3>1 DEF ReadTo
  <2>. QED
    BY <2>6, <2>11
<1>. QED
  BY <1>3, <1>4

LEMMA TakeLineGoesOn ==
  ASSUME NEW acc \in Reading, NEW line \in PrintedLine, NEW lo \in Place, NEW p \in Place,
         NEW r \in Place, NEW pageNo \in Nat, ReadTo(acc, lo, p), Follows(line, p, r)
  PROVE  ReadTo(TakeLine(acc, line, pageNo), lo, r)
<1>1. line.section = {}
  BY DEF Follows
<1>2. CASE acc.open # <<>> /\ (IsOption(acc.open[1], line) \/ line.answer)
  BY <1>1, <1>2, ContinueGoesOn DEF TakeLine
<1>3. CASE ~(acc.open # <<>> /\ (IsOption(acc.open[1], line) \/ line.answer)) /\ line.number # {}
  BY <1>1, <1>3, AskingStarts DEF TakeLine
<1>4. CASE /\ ~(acc.open # <<>> /\ (IsOption(acc.open[1], line) \/ line.answer))
           /\ line.number = {} /\ acc.open # <<>>
  BY <1>1, <1>4, ContinueGoesOn DEF TakeLine
<1>5. CASE /\ ~(acc.open # <<>> /\ (IsOption(acc.open[1], line) \/ line.answer))
           /\ line.number = {} /\ acc.open = <<>>
  BY <1>1, <1>5, FragmentStarts DEF TakeLine
<1>. QED
  BY <1>2, <1>3, <1>4, <1>5

-----------------------------------------------------------------------------
(* The items of a page of lines *)

\* LinesTaken takes the lines one after the other.
LEMMA LinesTakenIs ==
  ASSUME NEW ls \in Seq(PrintedLine), NEW pageNo \in Nat
  PROVE  \E g : /\ \A k \in 0..Len(ls) : g[k] \in Reading
                /\ g[0] = Unread
                /\ \A k \in 1..Len(ls) : g[k] = TakeLine(g[k - 1], ls[k], pageNo)
                /\ LinesTaken(ls, pageNo) = g[Len(ls)]
<1>1. PICK n \in Nat : n = Len(ls) /\ \A k \in 1..n : ls[k] \in PrintedLine
  OBVIOUS
<1>2. PICK A : A = Reading
  OBVIOUS
<1>3. PICK step : step = [k \in 1..n |-> [x \in A |-> TakeLine(x, ls[k], pageNo)]]
  OBVIOUS
<1>4. \A k \in 1..n, x \in A : TakeLine(x, ls[k], pageNo) \in A
  BY <1>1, <1>2, TakeLineType
<1>5. step \in [1..n -> [A -> A]]
  BY <1>3, <1>4
<1>6. PICK base : base = Unread
  OBVIOUS
<1>7. base \in A
  BY <1>2, <1>6 DEF Unread, Reading
<1>8. PICK f : Steps(f, n, A, base, step)
  BY <1>5, <1>7, Stepwise
<1>9. PICK g : /\ g = [k \in 0..Len(ls) |-> IF k = 0 THEN Unread
                                              ELSE TakeLine(g[k - 1], ls[k], pageNo)]
               /\ LinesTaken(ls, pageNo) = g[n]
  <2>1. \A k \in 1..n : k - 1 \in 0..n /\ f[k - 1] \in A /\ f[k] = TakeLine(f[k - 1], ls[k], pageNo)
    <3>1. \A k \in 1..n : k - 1 \in 0..n
      OBVIOUS
    <3>. QED
      BY <1>3, <1>8, <3>1 DEF Steps
  <2>2. f = [k \in 0..Len(ls) |-> IF k = 0 THEN Unread ELSE TakeLine(f[k - 1], ls[k], pageNo)]
    <3>1. f = [k \in 0..n |-> f[k]] /\ f[0] = base
      BY <1>8 DEF Steps
    <3>2. ASSUME NEW k \in 0..n
          PROVE  f[k] = IF k = 0 THEN base ELSE TakeLine(f[k - 1], ls[k], pageNo)
      <4>1. CASE k = 0
        BY <3>1, <4>1
      <4>2. CASE k # 0
        <5>1. k \in 1..n
          BY <4>2
        <5>. QED
          BY <2>1, <4>2, <5>1
      <4>. QED
        BY <4>1, <4>2
    <3>3. f = [k \in 0..n |-> IF k = 0 THEN base ELSE TakeLine(f[k - 1], ls[k], pageNo)]
      BY <3>1, <3>2
    <3>. QED
      BY <1>1, <1>6, <3>3
  <2>3. \E g : g = [k \in 0..Len(ls) |-> IF k = 0 THEN Unread ELSE TakeLine(g[k - 1], ls[k], pageNo)]
    BY <2>2
  <2>. QED
    BY <1>1, <2>3 DEF LinesTaken
<1>10. g[0] = base /\ g[0] \in A
  <2>1. 0 \in 0..n
    OBVIOUS
  <2>. QED
    BY <1>1, <1>6, <1>7, <1>9, <2>1
<1>11. ASSUME NEW k \in 1..n
       PROVE  g[k] = TakeLine(g[k - 1], ls[k], pageNo)
  <2>1. k \in 0..n /\ k # 0
    OBVIOUS
  <2>. QED
    BY <1>1, <1>9, <2>1
<1>12. \A k \in 1..n : g[k - 1] \in A => g[k] \in A
  BY <1>4, <1>11
<1>13. \A k \in 0..n : g[k] \in A
  BY <1>10, <1>12, StaysIn
<1>. QED
  BY <1>1, <1>2, <1>6, <1>9, <1>10, <1>11, <1>13

\* pos gives the places before and after each of the lines.
Run(ls, pos) ==
  /\ pos \in [0..Len(ls) -> Place]
  /\ \A k \in 1..Len(ls) : Follows(ls[k], pos[k - 1], pos[k])

LEMMA LinesReadTo ==
  ASSUME NEW ls \in Seq(PrintedLine), NEW pageNo \in Nat, NEW pos, Run(ls, pos)
  PROVE  /\ LinesTaken(ls, pageNo) \in Reading
         /\ ReadTo(LinesTaken(ls, pageNo), pos[0], pos[Len(ls)])
<1>1. PICK n \in Nat : n = Len(ls) /\ \A k \in 1..n : ls[k] \in PrintedLine
  OBVIOUS
<1>2. PICK g : /\ \A k \in 0..n : g[k] \in Reading
               /\ g[0] = Unread
               /\ \A k \in 1..n : g[k] = TakeLine(g[k - 1], ls[k], pageNo)
               /\ LinesTaken(ls, pageNo) = g[n]
  BY <1>1, LinesTakenIs
<1>3. \A k \in 0..n : pos[k] \in Place
  BY <1>1 DEF Run
<1>4. \A k \in 1..n : Follows(ls[k], pos[k - 1], pos[k])
  BY <1>1 DEF Run
<1>5. PICK T : T = {k \in 0..n : ReadTo(g[k], pos[0], pos[k])}
  OBVIOUS
<1>6. 0 \in T
  <2>1. 0 \in 0..n /\ DOMAIN <<>> = {}
    OBVIOUS
  <2>2. ReadTo(Unread, pos[0], pos[0])
    BY <2>1 DEF ReadTo, Unread
  <2>. QED
    BY <1>2, <1>5, <2>1, <2>2
<1>7. ASSUME NEW k \in 1..n, k - 1 \in T
      PROVE  k \in T
  <2>1. k - 1 \in 0..n /\ k \in 0..n /\ 0 \in 0..n
    OBVIOUS
  <2>2. ReadTo(g[k - 1], pos[0], pos[k - 1])
    BY <1>5, <1>7
  <2>3. ReadTo(g[k], pos[0], pos[k])
    BY <1>1, <1>2, <1>3, <1>4, <2>1, <2>2, TakeLineGoesOn
  <2>. QED
    BY <1>5, <2>1, <2>3
<1>8. n \in T
  <2>1. \A k \in 0..n : k \in T
    BY <1>6, <1>7, UpTo
  <2>. QED
    BY <2>1
<1>9. n \in 0..n
  OBVIOUS
<1>. QED
  BY <1>1, <1>2, <1>5, <1>8, <1>9

\* The last item is marked, and is otherwise what it was.
LEMMA MarkedIs ==
  ASSUME NEW items \in Seq(ItemType), NEW lo, NEW hi, Between(items, lo, hi)
  PROVE  MarkLast(items) \in Seq(ItemType) /\ Between(MarkLast(items), lo, hi)
<1>1. CASE items = <<>>
  BY <1>1 DEF MarkLast
<1>2. CASE items # <<>>
  <2>1. PICK S : S = ItemType
    OBVIOUS
  <2>2. PICK n \in Nat : n = Len(items) /\ DOMAIN items = 1..n /\ n \in 1..n
    <3>1. Len(items) \in Nat /\ Len(items) # 0
      BY <1>2, NothingLong
    <3>. QED
      BY <3>1
  <2>3. PICK x \in ItemType : x = items[n]
    BY <2>2
  <2>4. PICK c \in BOOLEAN : c = GoesOn(x)
    BY ItemFields DEF GoesOn
  <2>5. PICK y : y = [x EXCEPT !.continues = c]
    OBVIOUS
  <2>6. /\ y \in ItemType /\ y.number = x.number /\ y.starts = x.starts
        /\ y.labels = x.labels /\ y.lines = x.lines
    <3>. HIDE DEF NumberType
    <3>. QED
      BY <2>4, <2>5 DEF ItemType
  <2>7. PICK all : all = [items EXCEPT ![n] = y]
    OBVIOUS
  <2>8. MarkLast(items) = all
    BY <1>2, <2>2, <2>3, <2>4, <2>5, <2>7 DEF MarkLast
  <2>9. items \in Seq(S) /\ y \in S
    BY <2>1, <2>6
  <2>10. all \in Seq(S) /\ Len(all) = n /\ DOMAIN all = 1..n
    BY <2>2, <2>7, <2>9
  <2>11. all[n] = y /\ \A k \in 1..n : k # n => all[k] = items[k]
    BY <2>2, <2>7, <2>9
  <2>12. all # <<>>
    <3>1. DOMAIN <<>> = {}
      OBVIOUS
    <3>. QED
      BY <2>2, <2>10, <3>1
  <2>13. PartOf(items[n], lo) /\ (n > 1 => items[n].number # {}) /\ GoesTo(items[n], lo, hi)
    BY <1>2, <2>2 DEF Between
  <2>14. PartOf(y, lo) /\ (n > 1 => y.number # {}) /\ GoesTo(y, lo, hi)
    BY <2>3, <2>6, <2>13 DEF PartOf, GoesTo
  <2>15. ASSUME NEW k \in 1..n
         PROVE  PartOf(all[k], lo) /\ (k > 1 => all[k].number # {})
    <3>1. CASE k = n
      BY <2>11, <2>14, <3>1
    <3>2. CASE k # n
      BY <2>2, <2>11, <3>2 DEF Between
    <3>. QED
      BY <3>1, <3>2
  <2>16. Between(all, lo, hi)
    BY <2>10, <2>11, <2>12, <2>14, <2>15 DEF Between
  <2>. QED
    BY <2>1, <2>8, <2>10, <2>16
<1>. QED
  BY <1>1, <1>2

LEMMA NotTakenForKey ==
  ASSUME NEW ls \in Seq(PrintedLine), \A k \in DOMAIN ls : ls[k].dense = <<>>
  PROVE  ~TakenForKey(ls)
<1>1. PICK S : S = PairType
  OBVIOUS
<1>2. PICK n \in Nat : n = Len(ls) /\ DOMAIN ls = 1..n
  OBVIOUS
<1>3. PICK seqs : seqs = [i \in DOMAIN ls |-> ls[i].dense]
  OBVIOUS
<1>4. \A i \in 1..n : seqs[i] = <<>>
  BY <1>2, <1>3
<1>5. seqs \in Seq(Seq(S)) /\ Len(seqs) = n
  <2>1. PICK A : A = Seq(S) /\ <<>> \in A
    BY SequencesJoin
  <2>2. seqs = [i \in 1..n |-> seqs[i]] /\ \A i \in 1..n : seqs[i] \in A
    BY <1>2, <1>3, <1>4, <2>1
  <2>3. seqs \in Seq(A) /\ Len(seqs) = n
    BY <2>2
  <2>. QED
    BY <2>1, <2>3
<1>6. PICK f : Joining(f, Seq(S), seqs) /\ FlattenSeq(seqs) = f[Len(seqs)]
  BY <1>5, FlattenIs
<1>7. f[0] = <<>> /\ \A k \in 1..n : f[k] = f[k - 1] \o seqs[k]
  BY <1>5, <1>6 DEF Joining
<1>8. PICK A : A = {<<>>}
  OBVIOUS
<1>9. f[0] \in A /\ \A k \in 1..n : f[k - 1] \in A => f[k] \in A
  <2>1. <<>> \o <<>> = <<>>
    OBVIOUS
  <2>. QED
    BY <1>4, <1>7, <1>8, <2>1
<1>10. \A k \in 0..n : f[k] \in A
  BY <1>9, StaysIn
<1>11. n \in 0..n
  OBVIOUS
<1>12. Dense(ls) = <<>>
  BY <1>3, <1>5, <1>6, <1>8, <1>10, <1>11 DEF Dense
<1>13. Len(Dense(ls)) = 0
  BY <1>12
<1>. QED
  BY <1>13 DEF TakenForKey

\* The items of a page whose lines follow each other in the paper.
LEMMA ItemsAre ==
  ASSUME NEW ls \in Seq(PrintedLine), NEW pageNo \in Nat, NEW pos, Run(ls, pos)
  PROVE  /\ Items(ls, pageNo) \in Seq(ItemType)
         /\ Between(Items(ls, pageNo), pos[0], pos[Len(ls)])
<1>1. PICK n \in Nat : n = Len(ls) /\ DOMAIN ls = 1..n
  OBVIOUS
<1>2. pos[0] \in Place /\ pos[n] \in Place
  <2>1. 0 \in 0..n /\ n \in 0..n
    OBVIOUS
  <2>. QED
    BY <1>1, <2>1 DEF Run
<1>3. ~TakenForKey(ls)
  <2>1. \A k \in DOMAIN ls : ls[k].dense = <<>>
    BY <1>1 DEF Run, Follows
  <2>. QED
    BY <2>1, NotTakenForKey
<1>4. PICK acc \in Reading : acc = LinesTaken(ls, pageNo) /\ ReadTo(acc, pos[0], pos[n])
  BY <1>1, LinesReadTo
<1>5. Finished(acc) \in Seq(ItemType) /\ Between(Finished(acc), pos[0], pos[n])
  BY <1>2, <1>4, FinishedIs
<1>6. Items(ls, pageNo) = MarkLast(Finished(acc))
  BY <1>3, <1>4 DEF Items
<1>. QED
  BY <1>1, <1>5, <1>6, MarkedIs

-----------------------------------------------------------------------------
(* The papers of lines *)

\* The lines lead from the place p to the place r.
Leads(ls, p, r) == \E pos : Run(ls, pos) /\ pos[0] = p /\ pos[Len(ls)] = r

LEMMA LeadsOn ==
  ASSUME NEW ls \in Seq(PrintedLine), NEW ms \in Seq(PrintedLine), NEW p, NEW r, NEW q,
         Leads(ls, p, r), Leads(ms, r, q)
  PROVE  ls \o ms \in Seq(PrintedLine) /\ Leads(ls \o ms, p, q)
<1>1. PICK f : Run(ls, f) /\ f[0] = p /\ f[Len(ls)] = r
  BY DEF Leads
<1>2. PICK g : Run(ms, g) /\ g[0] = r /\ g[Len(ms)] = q
  BY DEF Leads
<1>3. PICK S : S = PrintedLine
  OBVIOUS
<1>4. ls \in Seq(S) /\ ms \in Seq(S)
  BY <1>3
<1>5. PICK m \in Nat, n \in Nat : m = Len(ls) /\ n = Len(ms)
  BY <1>4
<1>6. PICK both \in Seq(S) : both = ls \o ms /\ Len(both) = m + n
  <2>1. ls \o ms \in Seq(S) /\ Len(ls \o ms) = m + n
    BY <1>4, <1>5
  <2>. QED
    BY <2>1
<1>7. \A k \in 0..m : f[k] \in Place
  BY <1>1, <1>5 DEF Run
<1>8. \A k \in 0..n : g[k] \in Place
  BY <1>2, <1>5 DEF Run
<1>9. PICK h : h = [k \in 0..(m + n) |-> IF k <= m THEN f[k] ELSE g[k - m]]
  OBVIOUS
<1>10. ASSUME NEW k \in 0..(m + n)
       PROVE  h[k] \in Place
  <2>1. CASE k <= m
    <3>1. k \in 0..m
      BY <2>1
    <3>. QED
      BY <1>7, <1>9, <2>1, <3>1
  <2>2. CASE ~(k <= m)
    <3>1. k - m \in 0..n
      BY <2>2
    <3>. QED
      BY <1>8, <1>9, <2>2, <3>1
  <2>. QED
    BY <2>1, <2>2
<1>11. ASSUME NEW k \in 1..(m + n)
       PROVE  Follows(both[k], h[k - 1], h[k])
  <2>1. k \in 0..(m + n) /\ k - 1 \in 0..(m + n)
    OBVIOUS
  <2>2. CASE k <= m
    <3>1. k \in 1..m /\ k - 1 <= m
      BY <2>2
    <3>2. both[k] = ls[k]
      BY <1>4, <1>5, <1>6, <3>1
    <3>3. h[k] = f[k] /\ h[k - 1] = f[k - 1]
      BY <1>9, <2>1, <2>2, <3>1
    <3>. QED
      BY <1>1, <1>5, <3>1, <3>2, <3>3 DEF Run
  <2>3. CASE ~(k <= m)
    <3>1. PICK i \in 1..n : i = k - m
      BY <2>3
    <3>2. both[k] = ms[i]
      BY <1>4, <1>5, <1>6, <2>3, <3>1
    <3>3. h[k] = g[i]
      BY <1>9, <2>1, <2>3, <3>1
    <3>4. h[k - 1] = g[i - 1]
      <4>1. CASE k - 1 <= m
        <5>1. k - 1 = m /\ i - 1 = 0
          BY <2>3, <3>1, <4>1
        <5>. QED
          BY <1>1, <1>2, <1>5, <1>9, <2>1, <4>1, <5>1
      <4>2. CASE ~(k - 1 <= m)
        <5>1. (k - 1) - m = i - 1
          BY <3>1
        <5>. QED
          BY <1>9, <2>1, <4>2, <5>1
      <4>. QED
        BY <4>1, <4>2
    <3>. QED
      BY <1>2, <1>5, <3>1, <3>2, <3>3, <3>4 DEF Run
  <2>. QED
    BY <2>2, <2>3
<1>12. Run(both, h)
  <2>1. h \in [0..Len(both) -> Place]
    BY <1>6, <1>9, <1>10
  <2>. QED
    BY <1>6, <1>11, <2>1 DEF Run
<1>13. h[0] = p /\ h[m + n] = q
  <2>1. 0 \in 0..(m + n) /\ m + n \in 0..(m + n) /\ 0 <= m
    OBVIOUS
  <2>2. h[0] = p
    BY <1>1, <1>9, <2>1
  <2>3. CASE n = 0
    BY <1>1, <1>2, <1>5, <1>9, <2>1, <2>2, <2>3
  <2>4. CASE n # 0
    <3>1. ~(m + n <= m) /\ (m + n) - m = n
      BY <2>4
    <3>. QED
      BY <1>2, <1>5, <1>9, <2>1, <2>2, <3>1
  <2>. QED
    BY <2>3, <2>4
<1>14. Leads(both, p, q)
  BY <1>6, <1>12, <1>13 DEF Leads
<1>. QED
  BY <1>3, <1>6, <1>14

LEMMA LeadsInPlace ==
  ASSUME NEW ls \in Seq(PrintedLine), NEW p \in Place, \A k \in DOMAIN ls : Follows(ls[k], p, p)
  PROVE  Leads(ls, p, p)
<1>1. PICK n \in Nat : n = Len(ls) /\ DOMAIN ls = 1..n
  OBVIOUS
<1>2. PICK pos : pos = [k \in 0..n |-> p]
  OBVIOUS
<1>3. \A k \in 1..n : k \in 0..n /\ k - 1 \in 0..n
  OBVIOUS
<1>4. 0 \in 0..n /\ n \in 0..n
  OBVIOUS
<1>5. Run(ls, pos)
  BY <1>1, <1>2, <1>3 DEF Run
<1>. QED
  BY <1>1, <1>2, <1>4, <1>5 DEF Leads

LEMMA LeadsByOne ==
  ASSUME NEW line \in PrintedLine, NEW p \in Place, NEW r \in Place, Follows(line, p, r)
  PROVE  <<line>> \in Seq(PrintedLine) /\ Leads(<<line>>, p, r)
<1>1. PICK S : S = PrintedLine
  OBVIOUS
<1>2. <<line>> \in Seq(S) /\ Len(<<line>>) = 1 /\ <<line>>[1] = line
  BY <1>1
<1>3. PICK pos : pos = [k \in 0..1 |-> IF k = 0 THEN p ELSE r]
  OBVIOUS
<1>4. pos[0] = p /\ pos[1] = r /\ pos \in [0..1 -> Place]
  BY <1>3
<1>5. \A k \in 1..1 : k = 1 /\ k - 1 = 0
  OBVIOUS
<1>6. Run(<<line>>, pos)
  BY <1>2, <1>4, <1>5 DEF Run
<1>. QED
  BY <1>1, <1>2, <1>4, <1>6 DEF Leads

\* The fields of the lines of a paper.
LEMMA BlankIs ==
  /\ Blank \in LineType
  /\ Blank.section = {} /\ Blank.dense = <<>> /\ Blank.number = {} /\ Blank.labels = <<>>
  /\ Blank.digits = FALSE /\ Blank.answer = FALSE
<1>1. {} \in SectionType
  BY DEF SectionType
<1>2. <<>> \in Seq(PairType) /\ <<>> \in Seq(Nat) /\ {} \in SUBSET Nat
      /\ <<>> \in Seq([from : Nat, to : Nat, values : ValuesType])
  OBVIOUS
<1>. HIDE DEF PairType, ValuesType, SectionType
<1>. QED
  BY <1>1, <1>2 DEF Blank, LineType

LEMMA KindsOfLine ==
  ASSUME NEW k \in 1..2
  PROVE  /\ \A ends \in BOOLEAN :
              /\ Numbered(k, ends) \in PrintedLine
              /\ \A p \in Place : Follows(Numbered(k, ends), p, [of |-> k, up |-> 0])
         /\ \A ends \in BOOLEAN :
              /\ Unmarked(k, ends) \in PrintedLine
              /\ Follows(Unmarked(k, ends), [of |-> k, up |-> 0], [of |-> k, up |-> 0])
         /\ AnswerLine(k) \in PrintedLine
         /\ \A up \in Nat : Follows(AnswerLine(k), [of |-> k, up |-> up], [of |-> k, up |-> up])
         /\ Heading \in PrintedLine
         /\ Follows(Heading, [of |-> 0, up |-> 0], [of |-> 0, up |-> 0])
         /\ \A n \in 1..4 :
              /\ DigitOption(k, n) \in PrintedLine
              /\ Follows(DigitOption(k, n), [of |-> k, up |-> 0], [of |-> k, up |-> 0])
<1>1. PICK b \in LineType :
        /\ b = Blank /\ b.section = {} /\ b.dense = <<>> /\ b.number = {} /\ b.labels = <<>>
        /\ b.digits = FALSE /\ b.answer = FALSE
  BY BlankIs
<1>2. k \in Nat /\ {k} \in SUBSET Nat /\ {k} \in NumberType /\ {} \in NumberType
  BY TopIs DEF NumberType
<1>3. Len(<<>>) = 0 /\ DOMAIN <<>> = {}
  OBVIOUS
<1>4. ASSUME NEW ends \in BOOLEAN
      PROVE  /\ Numbered(k, ends) \in PrintedLine
             /\ \A p \in Place : Follows(Numbered(k, ends), p, [of |-> k, up |-> 0])
  <2>1. PICK l : l = [b EXCEPT !.number = {k}, !.ends = ends, !.of = k]
    OBVIOUS
  <2>2. /\ l \in LineType /\ l.number = {k} /\ l.of = k /\ l.section = {} /\ l.dense = <<>>
        /\ l.labels = <<>> /\ l.answer = FALSE
    <3>. HIDE DEF SectionType, PairType, ValuesType
    <3>. QED
      BY <1>1, <1>2, <2>1 DEF LineType
  <2>3. \A p \in Place : Follows(l, p, [of |-> k, up |-> 0])
    BY <2>2 DEF Follows
  <2>. QED
    BY <1>1, <1>2, <2>1, <2>2, <2>3 DEF Numbered, PrintedLine
<1>5. ASSUME NEW ends \in BOOLEAN
      PROVE  /\ Unmarked(k, ends) \in PrintedLine
             /\ Follows(Unmarked(k, ends), [of |-> k, up |-> 0], [of |-> k, up |-> 0])
  <2>1. PICK l : l = [b EXCEPT !.ends = ends, !.of = k]
    OBVIOUS
  <2>2. /\ l \in LineType /\ l.number = {} /\ l.of = k /\ l.section = {} /\ l.dense = <<>>
        /\ l.labels = <<>>
    <3>. HIDE DEF SectionType, PairType, ValuesType
    <3>. QED
      BY <1>1, <1>2, <2>1 DEF LineType
  <2>3. Follows(l, [of |-> k, up |-> 0], [of |-> k, up |-> 0])
    BY <1>3, <2>2 DEF Follows
  <2>. QED
    BY <1>1, <1>2, <2>1, <2>2, <2>3 DEF Unmarked, PrintedLine
<1>6. /\ AnswerLine(k) \in PrintedLine
      /\ \A up \in Nat : Follows(AnswerLine(k), [of |-> k, up |-> up], [of |-> k, up |-> up])
  <2>1. PICK l : l = [b EXCEPT !.answer = TRUE, !.of = k]
    OBVIOUS
  <2>2. /\ l \in LineType /\ l.number = {} /\ l.of = k /\ l.section = {} /\ l.dense = <<>>
        /\ l.labels = <<>>
    <3>. HIDE DEF SectionType, PairType, ValuesType
    <3>. QED
      BY <1>1, <1>2, <2>1 DEF LineType
  <2>3. \A up \in Nat : Follows(l, [of |-> k, up |-> up], [of |-> k, up |-> up])
    BY <1>3, <2>2 DEF Follows
  <2>. QED
    BY <1>1, <1>2, <2>1, <2>2, <2>3 DEF AnswerLine, PrintedLine
<1>7. Heading \in PrintedLine /\ Follows(Heading, [of |-> 0, up |-> 0], [of |-> 0, up |-> 0])
  <2>1. PICK l : l = [b EXCEPT !.ends = TRUE]
    OBVIOUS
  <2>2. /\ l \in LineType /\ l.number = {} /\ l.section = {} /\ l.dense = <<>>
        /\ l.labels = <<>> /\ l.of = b.of
    <3>. HIDE DEF SectionType, PairType, ValuesType
    <3>. QED
      BY <1>1, <1>2, <2>1 DEF LineType
  <2>3. b.of = 0
    BY <1>1 DEF Blank
  <2>4. Follows(l, [of |-> 0, up |-> 0], [of |-> 0, up |-> 0])
    BY <1>3, <2>2, <2>3 DEF Follows
  <2>. QED
    BY <1>1, <1>2, <2>1, <2>2, <2>4 DEF Heading, PrintedLine
<1>8. ASSUME NEW n \in 1..4
      PROVE  /\ DigitOption(k, n) \in PrintedLine
             /\ Follows(DigitOption(k, n), [of |-> k, up |-> 0], [of |-> k, up |-> 0])
  <2>1. PICK labels : labels = <<n>> /\ labels \in Seq(Nat) /\ Len(labels) = 1
    <3>1. <<n>> \in Seq(Nat) /\ Len(<<n>>) = 1
      OBVIOUS
    <3>. QED
      BY <3>1
  <2>2. {n} \in SUBSET Nat /\ {n} \in NumberType /\ {n} # {}
    BY TopIs DEF NumberType
  <2>3. PICK l : l = [b EXCEPT !.labels = labels, !.digits = TRUE, !.number = {n}, !.of = k]
    OBVIOUS
  <2>4. /\ l \in LineType /\ l.number = {n} /\ l.of = k /\ l.section = {} /\ l.dense = <<>>
        /\ l.labels = labels /\ l.answer = FALSE /\ l.digits = TRUE
    <3>. HIDE DEF SectionType, PairType, ValuesType
    <3>. QED
      BY <1>1, <1>2, <2>1, <2>2, <2>3 DEF LineType
  <2>5. Follows(l, [of |-> k, up |-> 0], [of |-> k, up |-> 0])
    BY <2>1, <2>2, <2>4 DEF Follows
  <2>. QED
    BY <1>1, <2>1, <2>2, <2>3, <2>4, <2>5 DEF DigitOption, PrintedLine
<1>. QED
  BY <1>4, <1>5, <1>6, <1>7, <1>8

LEMMA OptionsFollow ==
  ASSUME NEW k \in 1..2, NEW labels \in Seq(Nat), NEW up \in Nat, NEW to \in Nat,
         to = up + Len(labels), \A j \in DOMAIN labels : labels[j] = up + j
  PROVE  /\ Options(k, labels) \in PrintedLine
         /\ Follows(Options(k, labels), [of |-> k, up |-> up], [of |-> k, up |-> to])
<1>1. PICK b \in LineType : /\ b = Blank /\ b.section = {} /\ b.dense = <<>> /\ b.number = {}
  BY BlankIs
<1>2. k \in Nat /\ {} \in NumberType
  BY DEF NumberType
<1>3. PICK l : l = [b EXCEPT !.labels = labels, !.of = k]
  OBVIOUS
<1>4. /\ l \in LineType /\ l.number = {} /\ l.of = k /\ l.section = {} /\ l.dense = <<>>
      /\ l.labels = labels
  <2>. HIDE DEF SectionType, PairType, ValuesType
  <2>. QED
    BY <1>1, <1>2, <1>3 DEF LineType
<1>5. Follows(l, [of |-> k, up |-> up], [of |-> k, up |-> to])
  BY <1>4 DEF Follows
<1>. QED
  BY <1>1, <1>2, <1>3, <1>4, <1>5 DEF Options, PrintedLine

LEMMA OptionsLead ==
  ASSUME NEW k \in 1..2, NEW layout \in Layouts
  PROVE  /\ LayoutLines(k, layout) \in Seq(PrintedLine)
         /\ \E up \in Nat : Leads(LayoutLines(k, layout), [of |-> k, up |-> 0], [of |-> k, up |-> up])
<1>1. \A up \in Nat : [of |-> k, up |-> up] \in Place
  BY DEF Place
<1>2. 0 \in Nat /\ [of |-> k, up |-> 0] \in Place
  BY <1>1
<1>3. PICK S : S = PrintedLine
  OBVIOUS
<1>4. CASE layout = "none"
  <2>1. <<>> \in Seq(S) /\ DOMAIN <<>> = {}
    OBVIOUS
  <2>2. Leads(<<>>, [of |-> k, up |-> 0], [of |-> k, up |-> 0])
    BY <1>2, <1>3, <2>1, LeadsInPlace
  <2>3. LayoutLines(k, layout) = <<>>
    BY <1>4 DEF LayoutLines
  <2>. QED
    BY <1>2, <1>3, <2>1, <2>2, <2>3
<1>5. CASE layout = "one line"
  <2>1. PICK labels : labels = <<1, 2, 3, 4>>
    OBVIOUS
  <2>2. labels \in Seq(Nat) /\ 4 = 0 + Len(labels) /\ \A j \in DOMAIN labels : labels[j] = 0 + j
    BY <2>1
  <2>3. /\ Options(k, labels) \in PrintedLine
        /\ Follows(Options(k, labels), [of |-> k, up |-> 0], [of |-> k, up |-> 4])
    BY <2>2, OptionsFollow
  <2>4. /\ <<Options(k, labels)>> \in Seq(PrintedLine)
        /\ Leads(<<Options(k, labels)>>, [of |-> k, up |-> 0], [of |-> k, up |-> 4])
    BY <1>1, <2>3, LeadsByOne
  <2>5. LayoutLines(k, layout) = <<Options(k, labels)>>
    BY <1>5, <2>1 DEF LayoutLines
  <2>. QED
    BY <2>4, <2>5
<1>6. CASE layout = "two lines"
  <2>1. PICK a, b : a = <<1, 2>> /\ b = <<3, 4>>
    OBVIOUS
  <2>2. /\ a \in Seq(Nat) /\ 2 = 0 + Len(a) /\ \A j \in DOMAIN a : a[j] = 0 + j
        /\ b \in Seq(Nat) /\ 4 = 2 + Len(b) /\ \A j \in DOMAIN b : b[j] = 2 + j
    BY <2>1
  <2>3. PICK x \in PrintedLine, y \in PrintedLine :
          /\ x = Options(k, a) /\ Follows(x, [of |-> k, up |-> 0], [of |-> k, up |-> 2])
          /\ y = Options(k, b) /\ Follows(y, [of |-> k, up |-> 2], [of |-> k, up |-> 4])
    BY SMTT(30), <2>2, OptionsFollow
  <2>4. PICK ls : ls = <<x, y>>
    OBVIOUS
  <2>5. x \in S /\ y \in S
    BY <1>3
  <2>6. ls \in Seq(S) /\ Len(ls) = 2 /\ ls[1] = x /\ ls[2] = y
    BY <2>4, <2>5
  <2>7. PICK pos : pos = [n \in 0..2 |-> [of |-> k, up |-> 2 * n]]
    OBVIOUS
  <2>8. pos \in [0..2 -> Place]
    <3>1. \A n \in 0..2 : 2 * n \in Nat
      OBVIOUS
    <3>. QED
      BY <1>1, <2>7, <3>1
  <2>9. /\ pos[0] = [of |-> k, up |-> 0] /\ pos[1] = [of |-> k, up |-> 2]
        /\ pos[2] = [of |-> k, up |-> 4]
    BY <2>7
  <2>10. \A n \in 1..2 : Follows(ls[n], pos[n - 1], pos[n])
    <3>1. Follows(ls[1], pos[1 - 1], pos[1]) /\ Follows(ls[2], pos[2 - 1], pos[2])
      BY <2>3, <2>6, <2>9
    <3>2. 1..2 = {1, 2}
      OBVIOUS
    <3>. QED
      BY <3>1, <3>2
  <2>11. Run(ls, pos)
    BY <2>6, <2>8, <2>10 DEF Run
  <2>12. Leads(ls, [of |-> k, up |-> 0], [of |-> k, up |-> 4])
    BY <2>6, <2>9, <2>11 DEF Leads
  <2>13. LayoutLines(k, layout) = <<Options(k, <<1, 2>>), Options(k, <<3, 4>>)>>
    BY <1>6 DEF LayoutLines
  <2>14. LayoutLines(k, layout) = ls
    BY <2>1, <2>3, <2>4, <2>13
  <2>. QED
    BY <1>3, <2>6, <2>12, <2>14
<1>7. CASE layout = "stacked"
  <2>1. PICK ls : ls = [n \in 1..4 |-> Options(k, <<n>>)]
    OBVIOUS
  <2>2. ASSUME NEW n \in 1..4
        PROVE  /\ ls[n] \in PrintedLine
               /\ Follows(ls[n], [of |-> k, up |-> n - 1], [of |-> k, up |-> n])
    <3>1. PICK labels : labels = <<n>>
      OBVIOUS
    <3>2. /\ labels \in Seq(Nat) /\ n \in Nat /\ n - 1 \in Nat /\ n = (n - 1) + Len(labels)
          /\ \A j \in DOMAIN labels : labels[j] = (n - 1) + j
      BY <3>1
    <3>. QED
      BY <2>1, <3>1, <3>2, OptionsFollow
  <2>3. ls \in Seq(S) /\ Len(ls) = 4
    BY <1>3, <2>1, <2>2
  <2>4. PICK pos : pos = [n \in 0..4 |-> [of |-> k, up |-> n]]
    OBVIOUS
  <2>5. pos \in [0..4 -> Place]
    BY <1>1, <2>4
  <2>6. \A n \in 1..4 : pos[n - 1] = [of |-> k, up |-> n - 1] /\ pos[n] = [of |-> k, up |-> n]
    BY <2>4
  <2>7. Run(ls, pos)
    BY <2>2, <2>3, <2>5, <2>6 DEF Run
  <2>8. pos[0] = [of |-> k, up |-> 0] /\ pos[4] = [of |-> k, up |-> 4]
    BY <2>4
  <2>9. Leads(ls, [of |-> k, up |-> 0], [of |-> k, up |-> 4])
    BY <2>3, <2>7, <2>8 DEF Leads
  <2>10. LayoutLines(k, layout) = ls
    BY <1>7, <2>1 DEF LayoutLines
  <2>. QED
    BY <1>3, <2>3, <2>9, <2>10
<1>8. CASE layout = "digits"
  <2>1. PICK ls : ls = [n \in 1..4 |-> DigitOption(k, n)]
    OBVIOUS
  <2>2. \A n \in 1..4 : /\ ls[n] \in PrintedLine
                        /\ Follows(ls[n], [of |-> k, up |-> 0], [of |-> k, up |-> 0])
    BY <2>1, KindsOfLine
  <2>3. ls \in Seq(S) /\ DOMAIN ls = 1..4
    BY <1>3, <2>1, <2>2
  <2>4. Leads(ls, [of |-> k, up |-> 0], [of |-> k, up |-> 0])
    BY <1>2, <1>3, <2>2, <2>3, LeadsInPlace
  <2>5. LayoutLines(k, layout) = ls
    BY <1>8, <2>1 DEF LayoutLines
  <2>. QED
    BY <1>2, <1>3, <2>3, <2>4, <2>5
<1>. QED
  BY <1>4, <1>5, <1>6, <1>7, <1>8, LayoutAssumption

LEMMA QuestionLeads ==
  ASSUME NEW k \in 1..2, NEW ls \in PrintedQuestions(k), NEW p \in Place
  PROVE  ls \in Seq(PrintedLine) /\ \E r \in Place : Leads(ls, p, r)
<1>1. PICK text \in Texts, layout \in Layouts, answer \in BOOLEAN :
        ls = PrintedLines(k, text, layout, answer)
  BY DEF PrintedQuestions
<1>2. PICK S : S = PrintedLine
  OBVIOUS
<1>3. PICK m \in Nat : /\ m = Len(text) - 1 /\ text[1] \in BOOLEAN
                       /\ \A n \in 1..m : text[n + 1] \in BOOLEAN
  <2>1. CASE text = <<TRUE>>
    <3>1. Len(text) - 1 = 0 /\ text[1] \in BOOLEAN
      BY <2>1
    <3>. QED
      BY <3>1
  <2>2. CASE text = <<FALSE, TRUE>>
    <3>1. Len(text) - 1 = 1 /\ text[1] \in BOOLEAN /\ text[2] \in BOOLEAN
      BY <2>2
    <3>2. \A n \in 1..1 : n + 1 = 2
      OBVIOUS
    <3>. QED
      BY <3>1, <3>2
  <2>3. CASE text = <<TRUE, FALSE>>
    <3>1. Len(text) - 1 = 1 /\ text[1] \in BOOLEAN /\ text[2] \in BOOLEAN
      BY <2>3
    <3>2. \A n \in 1..1 : n + 1 = 2
      OBVIOUS
    <3>. QED
      BY <3>1, <3>2
  <2>. QED
    BY <2>1, <2>2, <2>3 DEF Texts
<1>4. PICK start \in Place : start = [of |-> k, up |-> 0]
  <2>1. k \in Nat /\ 0 \in Nat
    OBVIOUS
  <2>2. [of |-> k, up |-> 0] \in Place
    BY <2>1, PlaceIs
  <2>. QED
    BY <2>2
<1>5. PICK a : /\ a = <<Numbered(k, text[1])>> /\ a \in Seq(PrintedLine) /\ Leads(a, p, start)
  BY <1>3, <1>4, KindsOfLine, LeadsByOne
<1>6. PICK b : /\ b = [n \in 1..(Len(text) - 1) |-> Unmarked(k, text[n + 1])]
               /\ b \in Seq(PrintedLine) /\ Leads(b, start, start)
  <2>1. PICK b : b = [n \in 1..m |-> Unmarked(k, text[n + 1])]
    OBVIOUS
  <2>2. \A n \in 1..m : b[n] \in S /\ Follows(b[n], start, start)
    BY <1>2, <1>3, <1>4, <2>1, KindsOfLine
  <2>3. b \in Seq(S) /\ DOMAIN b = 1..m
    BY <2>1, <2>2
  <2>. QED
    BY <1>2, <1>3, <1>4, <2>1, <2>2, <2>3, LeadsInPlace
<1>7. PICK c : c = LayoutLines(k, layout)
  OBVIOUS
<1>8. PICK r \in Place : /\ \E up \in Nat : r = [of |-> k, up |-> up]
                         /\ c \in Seq(PrintedLine) /\ Leads(c, start, r)
  <2>1. PICK up \in Nat : c \in Seq(PrintedLine) /\ Leads(c, start, [of |-> k, up |-> up])
    BY <1>4, <1>7, OptionsLead
  <2>2. k \in Nat
    OBVIOUS
  <2>3. [of |-> k, up |-> up] \in Place
    BY <2>2, PlaceIs
  <2>. QED
    BY <2>1, <2>3
<1>9. PICK d : /\ d = (IF answer THEN <<AnswerLine(k)>> ELSE <<>>)
               /\ d \in Seq(PrintedLine) /\ Leads(d, r, r)
  <2>1. AnswerLine(k) \in PrintedLine /\ Follows(AnswerLine(k), r, r)
    BY <1>8, KindsOfLine
  <2>2. <<AnswerLine(k)>> \in Seq(PrintedLine) /\ Leads(<<AnswerLine(k)>>, r, r)
    BY <2>1, LeadsByOne
  <2>3. <<>> \in Seq(S) /\ DOMAIN <<>> = {}
    OBVIOUS
  <2>4. Leads(<<>>, r, r)
    BY <1>2, <2>3, LeadsInPlace
  <2>. QED
    BY <1>2, <2>2, <2>3, <2>4
<1>10. a \o b \in Seq(PrintedLine) /\ Leads(a \o b, p, start)
  BY <1>5, <1>6, LeadsOn
<1>11. (a \o b) \o c \in Seq(PrintedLine) /\ Leads((a \o b) \o c, p, r)
  BY <1>7, <1>8, <1>10, LeadsOn
<1>12. ((a \o b) \o c) \o d \in Seq(PrintedLine) /\ Leads(((a \o b) \o c) \o d, p, r)
  BY <1>9, <1>11, LeadsOn
<1>13. ls = ((a \o b) \o c) \o d
  BY <1>1, <1>5, <1>6, <1>7, <1>9 DEF PrintedLines
<1>. QED
  BY <1>12, <1>13

\* Every paper of lines runs from before the first question to its end.
LEMMA PapersRun ==
  ASSUME NEW ls \in Papers
  PROVE  ls \in Seq(PrintedLine) /\ ls # <<>> /\ \E pos : Run(ls, pos) /\ pos[0] = [of |-> 0, up |-> 0]
<1>1. PICK p \in PrintedQuestions(1), q \in PrintedQuestions(2) : ls = <<Heading>> \o p \o q
  BY DEF Papers
<1>2. PICK start \in Place : start = [of |-> 0, up |-> 0]
  BY PlaceIs
<1>3. <<Heading>> \in Seq(PrintedLine) /\ Leads(<<Heading>>, start, start)
  <2>1. 1 \in 1..2
    OBVIOUS
  <2>. QED
    BY <1>2, <2>1, KindsOfLine, LeadsByOne
<1>4. PICK r \in Place : p \in Seq(PrintedLine) /\ Leads(p, start, r)
  <2>1. 1 \in 1..2
    OBVIOUS
  <2>. QED
    BY <1>2, <2>1, QuestionLeads
<1>5. PICK e \in Place : q \in Seq(PrintedLine) /\ Leads(q, r, e)
  <2>1. 2 \in 1..2
    OBVIOUS
  <2>. QED
    BY <1>4, <2>1, QuestionLeads
<1>6. PICK front \in Seq(PrintedLine) : front = <<Heading>> \o p /\ Leads(front, start, r)
  BY <1>3, <1>4, LeadsOn
<1>7. front \o q \in Seq(PrintedLine) /\ Leads(front \o q, start, e)
  BY <1>5, <1>6, LeadsOn
<1>8. ls = front \o q
  BY <1>1, <1>6
<1>9. ls # <<>>
  <2>1. PICK S : S = PrintedLine
    OBVIOUS
  <2>2. <<Heading>> \in Seq(S) /\ Len(<<Heading>>) = 1 /\ p \in Seq(S) /\ q \in Seq(S)
    BY <1>3, <1>4, <1>5, <2>1
  <2>3. Len(front) >= 1 /\ front \in Seq(S)
    BY <1>6, <2>1, <2>2
  <2>4. Len(front \o q) >= 1
    BY <2>2, <2>3
  <2>5. Len(<<>>) = 0
    OBVIOUS
  <2>. QED
    BY <1>8, <2>4, <2>5
<1>. QED
  BY <1>2, <1>7, <1>8, <1>9 DEF Leads

-----------------------------------------------------------------------------
(* Every fragment is in a question *)

LEMMA SameElements ==
  ASSUME NEW S, NEW s \in Seq(S), NEW t \in Seq(S), Len(s) = Len(t),
         \A k \in 1..Len(s) : s[k] = t[k]
  PROVE  s = t
OBVIOUS

LEMMA OneMore ==
  ASSUME NEW S, NEW s \in Seq(S), NEW t \in Seq(S), NEW e \in S
  PROVE  s \o Append(t, e) = Append(s \o t, e) /\ s \o <<e>> = Append(s, e)
<1>1. PICK m \in Nat, n \in Nat : m = Len(s) /\ n = Len(t)
  OBVIOUS
<1>2. PICK u : u = Append(t, e)
  OBVIOUS
<1>3. u \in Seq(S) /\ Len(u) = n + 1 /\ u[n + 1] = e /\ \A k \in 1..n : u[k] = t[k]
  BY <1>1, <1>2
<1>4. PICK v : v = s \o t
  OBVIOUS
<1>5. /\ v \in Seq(S) /\ Len(v) = m + n /\ \A k \in 1..m : v[k] = s[k]
      /\ \A k \in (m + 1)..(m + n) : v[k] = t[k - m]
  BY <1>1, <1>4
<1>6. PICK x, y : x = s \o u /\ y = Append(v, e)
  OBVIOUS
<1>7. /\ x \in Seq(S) /\ Len(x) = m + (n + 1) /\ \A k \in 1..m : x[k] = s[k]
      /\ \A k \in (m + 1)..(m + (n + 1)) : x[k] = u[k - m]
  <2>1. PICK w \in Nat : w = Len(u)
    BY <1>3
  <2>2. u \in Seq(S)
    BY <1>3
  <2>3. /\ x \in Seq(S) /\ Len(x) = m + w /\ \A k \in 1..m : x[k] = s[k]
        /\ \A k \in (m + 1)..(m + w) : x[k] = u[k - m]
    BY <1>1, <1>6, <2>1, <2>2
  <2>4. w = n + 1
    BY <1>3, <2>1
  <2>. QED
    BY <2>3, <2>4
<1>8. /\ y \in Seq(S) /\ Len(y) = m + n + 1 /\ \A k \in 1..(m + n) : y[k] = v[k]
      /\ y[m + n + 1] = e
  BY <1>1, <1>5, <1>6
<1>9. ASSUME NEW k \in 1..(m + n + 1)
      PROVE  x[k] = y[k]
  <2>1. CASE k <= m
    <3>1. k \in 1..m /\ k \in 1..(m + n)
      BY <2>1
    <3>. QED
      BY <1>5, <1>7, <1>8, <3>1
  <2>2. CASE k > m /\ k <= m + n
    <3>1. /\ k \in (m + 1)..(m + n) /\ k \in 1..(m + n) /\ k \in (m + 1)..(m + (n + 1))
          /\ k - m \in 1..n
      BY <2>2
    <3>2. x[k] = u[k - m] /\ u[k - m] = t[k - m]
      BY <1>3, <1>7, <3>1
    <3>3. y[k] = v[k] /\ v[k] = t[k - m]
      BY <1>5, <1>8, <3>1
    <3>. QED
      BY <3>2, <3>3
  <2>3. CASE k > m + n
    <3>1. k = m + n + 1 /\ k \in (m + 1)..(m + (n + 1)) /\ k - m = n + 1
      BY <2>3
    <3>2. x[k] = u[n + 1]
      BY <1>7, <3>1
    <3>. QED
      BY <1>3, <1>8, <3>1, <3>2
  <2>4. k <= m \/ (k > m /\ k <= m + n) \/ k > m + n
    OBVIOUS
  <2>. QED
    BY <2>1, <2>2, <2>3, <2>4
<1>10. x = y
  <2>1. Len(x) = m + n + 1
    BY <1>7
  <2>. QED
    BY <1>7, <1>8, <1>9, <2>1, SameElements
<1>11. s \o <<e>> = Append(s, e)
  OBVIOUS
<1>. QED
  BY <1>2, <1>4, <1>6, <1>10, <1>11

LEMMA FlattenMore ==
  ASSUME NEW S, NEW seqs \in Seq(Seq(S)), NEW more \in Seq(Seq(S)),
         Len(more) = Len(seqs) + 1, \A k \in 1..Len(seqs) : more[k] = seqs[k]
  PROVE  FlattenSeq(more) = FlattenSeq(seqs) \o more[Len(more)]
<1>1. PICK n \in Nat : n = Len(seqs) /\ Len(more) = n + 1
  OBVIOUS
<1>2. PICK f : Joining(f, Seq(S), seqs) /\ FlattenSeq(seqs) = f[n]
  BY <1>1, FlattenIs
<1>3. PICK g : Joining(g, Seq(S), more) /\ FlattenSeq(more) = g[n + 1]
  BY <1>1, FlattenIs
<1>4. f[0] = <<>> /\ g[0] = <<>>
  BY <1>2, <1>3 DEF Joining
<1>5. /\ \A k \in 1..n : f[k] = f[k - 1] \o seqs[k]
      /\ \A k \in 1..(n + 1) : g[k] = g[k - 1] \o more[k]
  BY <1>1, <1>2, <1>3 DEF Joining
<1>6. PICK T : T = {k \in 0..n : f[k] = g[k]}
  OBVIOUS
<1>7. 0 \in T
  BY <1>4, <1>6
<1>8. ASSUME NEW k \in 1..n, k - 1 \in T
      PROVE  k \in T
  <2>1. k \in 1..(n + 1) /\ k \in 0..n
    OBVIOUS
  <2>2. f[k - 1] = g[k - 1]
    BY <1>6, <1>8
  <2>3. more[k] = seqs[k]
    BY <1>1
  <2>. QED
    BY <1>5, <1>6, <2>1, <2>2, <2>3
<1>9. n \in T
  <2>1. \A k \in 0..n : k \in T
    BY <1>7, <1>8, UpTo
  <2>2. n \in 0..n
    OBVIOUS
  <2>. QED
    BY <2>1, <2>2
<1>10. n + 1 \in 1..(n + 1) /\ (n + 1) - 1 = n
  OBVIOUS
<1>. QED
  BY <1>1, <1>2, <1>3, <1>5, <1>6, <1>9, <1>10

\* The fragments of the questions, one after the other.
PiecesOf(s) == FlattenSeq([k \in DOMAIN s |-> s[k].pieces])

LEMMA PiecesOfType ==
  ASSUME NEW s \in Seq(QuestionType)
  PROVE  /\ [k \in DOMAIN s |-> s[k].pieces] \in Seq(Seq(PieceType))
         /\ Len([k \in DOMAIN s |-> s[k].pieces]) = Len(s)
         /\ PiecesOf(s) \in Seq(PieceType)
<1>1. PICK S : S = PieceType
  OBVIOUS
<1>2. PICK A : A = Seq(S)
  OBVIOUS
<1>3. PICK n \in Nat : n = Len(s) /\ DOMAIN s = 1..n /\ \A k \in 1..n : s[k] \in QuestionType
  OBVIOUS
<1>4. \A k \in 1..n : s[k].pieces \in A
  BY <1>1, <1>2, <1>3, QuestionFields DEF Pieces
<1>5. PICK seqs : seqs = [k \in 1..n |-> s[k].pieces]
  OBVIOUS
<1>6. seqs = [k \in 1..n |-> seqs[k]] /\ \A k \in 1..n : seqs[k] \in A
  BY <1>4, <1>5
<1>7. seqs \in Seq(A) /\ Len(seqs) = n
  BY <1>6
<1>8. FlattenSeq(seqs) \in Seq(S)
  BY <1>2, <1>7, FlattenType
<1>. QED
  BY <1>1, <1>2, <1>3, <1>5, <1>7, <1>8 DEF PiecesOf

LEMMA PiecesOfMore ==
  ASSUME NEW s \in Seq(QuestionType), NEW q \in QuestionType
  PROVE  PiecesOf(s \o <<q>>) = PiecesOf(s) \o q.pieces
<1>1. PICK S : S = QuestionType
  OBVIOUS
<1>2. PICK n \in Nat : n = Len(s) /\ DOMAIN s = 1..n
  OBVIOUS
<1>3. PICK t : t = s \o <<q>>
  OBVIOUS
<1>4. s \in Seq(S) /\ <<q>> \in Seq(S)
  BY <1>1
<1>5. /\ t \in Seq(S) /\ Len(t) = n + 1 /\ DOMAIN t = 1..(n + 1) /\ t[n + 1] = q
      /\ \A k \in 1..n : t[k] = s[k]
  BY <1>2, <1>3, <1>4
<1>6. PICK seqs : seqs = [k \in DOMAIN s |-> s[k].pieces]
  OBVIOUS
<1>7. PICK more : more = [k \in DOMAIN t |-> t[k].pieces]
  OBVIOUS
<1>8. PICK A : A = Seq(PieceType)
  OBVIOUS
<1>9. seqs \in Seq(A) /\ Len(seqs) = n /\ more \in Seq(A) /\ Len(more) = n + 1
  BY <1>1, <1>2, <1>5, <1>6, <1>7, <1>8, PiecesOfType
<1>10. \A k \in 1..n : more[k] = seqs[k]
  BY <1>2, <1>5, <1>6, <1>7
<1>11. more[n + 1] = q.pieces
  BY <1>5, <1>7
<1>12. FlattenSeq(more) = FlattenSeq(seqs) \o more[n + 1]
  BY <1>8, <1>9, <1>10, FlattenMore
<1>. QED
  BY <1>3, <1>6, <1>7, <1>11, <1>12 DEF PiecesOf

LEMMA PiecesOfLike ==
  ASSUME NEW s, NEW t, DOMAIN s = DOMAIN t, \A k \in DOMAIN s : Like(s[k], t[k])
  PROVE  PiecesOf(s) = PiecesOf(t)
<1>1. [k \in DOMAIN s |-> s[k].pieces] = [k \in DOMAIN t |-> t[k].pieces]
  BY DEF Like
<1>. QED
  BY <1>1 DEF PiecesOf

\* An item adds its fragment at the end.
LEMMA PieceAdded ==
  ASSUME Loop, NEW item \in Reported, TakeItem(item)
  PROVE  PiecesOf(All)' = Append(PiecesOf(All), item.piece)
<1>1. PICK S : S = PieceType
  OBVIOUS
<1>2. PICK p \in S : p = item.piece
  BY <1>1, ReportedFields
<1>3. PICK new \in QuestionType : new = NewOf(item)
  BY NewIs
<1>4. /\ All' = stitched' \o <<new>>
      /\ IF Continues(item) THEN stitched' = stitched ELSE stitched' = Closed
  BY <1>3, ItemTaken
<1>5. CASE Continues(item)
  <2>1. PICK c \in QuestionType : c = current[1] /\ current = <<c>>
    BY <1>5, NewIs
  <2>2. new.pieces = Append(c.pieces, p)
    BY <1>2, <1>3, <1>5, <2>1, JoinedIs DEF NewOf
  <2>3. stitched \in Seq(QuestionType) /\ All = stitched \o <<c>>
    BY <2>1 DEF Loop, All
  <2>4. PiecesOf(All) = PiecesOf(stitched) \o c.pieces
    BY <2>3, PiecesOfMore
  <2>5. PiecesOf(All') = PiecesOf(stitched) \o new.pieces
    BY <1>4, <1>5, <2>3, PiecesOfMore
  <2>6. PICK s \in Seq(S), t \in Seq(S) : s = PiecesOf(stitched) /\ t = c.pieces
    BY <1>1, <2>3, PiecesOfType, QuestionFields DEF Pieces
  <2>7. s \o Append(t, p) = Append(s \o t, p)
    BY <2>6, OneMore
  <2>. QED
    BY <1>2, <2>2, <2>4, <2>5, <2>6, <2>7 DEF PiecesOf
<1>6. CASE ~Continues(item)
  <2>1. new.pieces = <<p>>
    BY <1>2, <1>3, <1>6, OpenedIs DEF NewOf, Loop
  <2>2. Closed \in Seq(QuestionType) /\ PiecesOf(Closed) = PiecesOf(All)
    BY ClosedIs, PiecesOfLike
  <2>3. PiecesOf(All') = PiecesOf(All) \o <<p>>
    BY <1>4, <1>6, <2>1, <2>2, PiecesOfMore
  <2>4. PICK s \in Seq(S) : s = PiecesOf(All)
    BY <1>1, <2>2, PiecesOfType
  <2>5. s \o <<p>> = Append(s, p)
    BY <2>4, OneMore
  <2>. QED
    BY <1>2, <2>3, <2>4, <2>5 DEF PiecesOf
<1>. QED
  BY <1>5, <1>6

LEMMA NothingLostIs == NothingLost <=> [k \in DOMAIN PiecesOf(All) |-> PiecesOf(All)[k].question] = seen
BY DEF NothingLost, PiecesOf

LEMMA TakeLosesNothing ==
  ASSUME Loop, NEW item \in Reported, TakeItem(item), NothingLost,
         seen' = Append(seen, item.piece.question)
  PROVE  NothingLost'
<1>1. PICK S : S = PieceType
  OBVIOUS
<1>2. PICK p \in S : p = item.piece
  BY <1>1, ReportedFields
<1>3. PICK ps \in Seq(S) : ps = PiecesOf(All)
  BY <1>1, ClosedIs, PiecesOfType
<1>4. PICK more : more = PiecesOf(All)' /\ more = Append(ps, p)
  BY <1>2, <1>3, PieceAdded
<1>5. PICK n \in Nat : n = Len(ps) /\ DOMAIN ps = 1..n
  BY <1>3
<1>6. DOMAIN more = 1..(n + 1) /\ more[n + 1] = p /\ \A k \in 1..n : more[k] = ps[k]
  BY <1>3, <1>4, <1>5
<1>7. seen = [k \in 1..n |-> ps[k].question]
  BY <1>3, <1>5, NothingLostIs
<1>8. Len(seen) = n
  BY <1>7
<1>9. seen' = [k \in 1..(n + 1) |-> IF k = n + 1 THEN p.question ELSE seen[k]]
  BY <1>2, <1>7, <1>8
<1>10. seen' = [k \in 1..(n + 1) |-> more[k].question]
  <2>1. ASSUME NEW k \in 1..(n + 1)
        PROVE  (IF k = n + 1 THEN p.question ELSE seen[k]) = more[k].question
    <3>1. CASE k = n + 1
      BY <1>6, <3>1
    <3>2. CASE k # n + 1
      <4>1. k \in 1..n
        BY <3>2
      <4>. QED
        BY <1>6, <1>7, <3>2, <4>1
    <3>. QED
      BY <3>1, <3>2
  <2>. QED
    BY <1>9, <2>1
<1>. QED
  BY <1>4, <1>6, <1>10 DEF NothingLost, PiecesOf

-----------------------------------------------------------------------------
(* How far the open question goes, and the labels of its options *)

OnePrinted(q) ==
  Uncertainly \notin q.flags => \A p, r \in ToSet(q.pieces) : p.question = r.question
InOrder(q) == q.pieces[1].begins => q.labels = [n \in DOMAIN q.labels |-> n]

LEMMA CertainIs == CertainStitchIsTrue <=> \A k \in DOMAIN All : OnePrinted(All[k])
BY DEF CertainStitchIsTrue, OnePrinted, Uncertainly

LEMMA LabelsAre == LabelsInOrder <=> \A k \in DOMAIN All : InOrder(All[k])
BY DEF LabelsInOrder, InOrder

\* The open question ends with a fragment of the printed question "of".  If it
\* has its beginning, it has the options of that question printed so far.
Reach(of, up) ==
  current # <<>> =>
    LET q == current[1]
    IN /\ q.pieces[Len(q.pieces)].question = of
       /\ q.pieces[1].begins => Len(q.labels) >= up

LEMMA LastPiece ==
  ASSUME NEW q \in QuestionType, NEW p \in PieceType
  PROVE  /\ Append(q.pieces, p)[1] = q.pieces[1]
         /\ Append(q.pieces, p)[Len(Append(q.pieces, p))] = p
         /\ q.pieces[Len(q.pieces)] \in ToSet(q.pieces)
         /\ ToSet(Append(q.pieces, p)) = ToSet(q.pieces) \cup {p}
<1>1. PICK S : S = PieceType
  OBVIOUS
<1>2. PICK ps \in Seq(S) : ps = q.pieces /\ ps # <<>>
  BY <1>1, QuestionFields DEF Pieces
<1>3. PICK n \in Nat : n = Len(ps) /\ n # 0
  BY <1>2, NothingLong
<1>4. p \in S
  BY <1>1
<1>5. PICK w : w = Append(ps, p)
  OBVIOUS
<1>6. Len(w) = n + 1 /\ DOMAIN w = 1..(n + 1) /\ w[n + 1] = p /\ \A k \in 1..n : w[k] = ps[k]
  BY <1>3, <1>4, <1>5
<1>7. w[1] = ps[1] /\ DOMAIN ps = 1..n /\ n \in 1..n
  BY <1>3, <1>6
<1>8. ps[n] \in ToSet(ps)
  BY <1>7 DEF ToSet
<1>9. ToSet(w) = ToSet(ps) \cup {p}
  <2>1. ASSUME NEW e \in ToSet(w)
        PROVE  e \in ToSet(ps) \cup {p}
    <3>1. PICK k \in 1..(n + 1) : e = w[k]
      BY <1>6 DEF ToSet
    <3>2. CASE k = n + 1
      BY <1>6, <3>1, <3>2
    <3>3. CASE k # n + 1
      <4>1. k \in 1..n
        BY <3>3
      <4>. QED
        BY <1>6, <1>7, <3>1, <4>1 DEF ToSet
    <3>. QED
      BY <3>2, <3>3
  <2>2. \A e \in ToSet(ps) : \E k \in 1..n : e = ps[k]
    BY <1>7 DEF ToSet
  <2>3. \A k \in 1..n : k \in 1..(n + 1) /\ w[k] = ps[k]
    BY <1>6
  <2>4. \A e \in ToSet(ps) : e \in ToSet(w)
    BY <1>6, <2>2, <2>3 DEF ToSet
  <2>5. p \in ToSet(w)
    <3>1. n + 1 \in 1..(n + 1)
      OBVIOUS
    <3>. QED
      BY <1>6, <3>1 DEF ToSet
  <2>. QED
    BY <2>1, <2>4, <2>5
<1>. QED
  BY <1>2, <1>3, <1>5, <1>6, <1>7, <1>8, <1>9

\* What is said of the questions after a step, from the closed ones and the new.
LEMMA AllAre ==
  ASSUME Loop, NEW item \in Reported, TakeItem(item), NEW k \in DOMAIN All'
  PROVE  \/ All'[k] = NewOf(item)
         \/ \E j \in DOMAIN All : Like(All'[k], All[j])
<1>1. PICK S : S = QuestionType
  OBVIOUS
<1>2. PICK new \in S : new = NewOf(item)
  BY <1>1, NewIs
<1>3. /\ stitched' \in Seq(S) /\ All' = stitched' \o <<new>>
      /\ \A i \in DOMAIN stitched' : i \in DOMAIN All /\ Like(stitched'[i], All[i])
  BY <1>1, <1>2, ItemTaken DEF Loop
<1>4. PICK s, t : s \in Seq(S) /\ s = stitched' /\ t = All' /\ t = s \o <<new>>
  BY <1>3
<1>5. PICK n \in Nat : n = Len(s) /\ DOMAIN s = 1..n
  BY <1>4
<1>6. DOMAIN t = 1..(n + 1) /\ t[n + 1] = new /\ \A i \in 1..n : t[i] = s[i]
  BY <1>4, <1>5
<1>7. k \in 1..(n + 1)
  BY <1>4, <1>6
<1>8. CASE k = n + 1
  BY <1>2, <1>4, <1>6, <1>8
<1>9. CASE k # n + 1
  <2>1. k \in 1..n
    BY <1>7, <1>9
  <2>. QED
    BY <1>3, <1>4, <1>5, <1>6, <2>1
<1>. QED
  BY <1>8, <1>9

LEMMA OpenIsOne ==
  ASSUME Loop, NEW c \in QuestionType, current = <<c>>
  PROVE  \E k \in DOMAIN All : All[k] = c
<1>1. PICK S : S = QuestionType
  OBVIOUS
<1>2. PICK s, t : s \in Seq(S) /\ s = stitched /\ t = All /\ t = s \o <<c>>
  BY <1>1 DEF Loop, All
<1>3. PICK n \in Nat : n = Len(s)
  BY <1>2
<1>4. n + 1 \in DOMAIN t /\ t[n + 1] = c
  BY <1>1, <1>2, <1>3
<1>. QED
  BY <1>2, <1>4

\* The item "item" is of the printed question "of" and ends with its option
\* "up", when the one before it ended with the option lo.up of lo.of.
Fits(item, lo, of, up) ==
  /\ item.piece.question = of
  /\ item.piece.begins =>
       item.labels = UpToLabel(Len(item.labels)) /\ up <= Len(item.labels)
  /\ Continues(item) =>
       /\ up <= lo.up + Len(item.labels)
       /\ \A j \in DOMAIN item.labels : 1 <= item.labels[j] /\ item.labels[j] <= lo.up + j

LEMMA OpenedFits ==
  ASSUME Loop, NEW item \in Reported, TakeItem(item), NEW lo \in Place, NEW of \in Nat,
         NEW up \in Nat, Fits(item, lo, of, up), ~Continues(item)
  PROVE  Reach(of, up)' /\ InOrder(NewOf(item))
<1>1. PICK new \in QuestionType : new = Opened(item)
  BY OpenedIs DEF Loop
<1>2. new.pieces = <<item.piece>> /\ new.labels = item.labels
  BY <1>1, OpenedIs DEF Loop
<1>3. NewOf(item) = new /\ current' = <<new>>
  BY <1>1, ItemTaken DEF NewOf
<1>4. Len(<<item.piece>>) = 1 /\ <<item.piece>>[1] = item.piece /\ <<new>>[1] = new
  OBVIOUS
<1>5. Reach(of, up)'
  <2>1. new.pieces[Len(new.pieces)].question = of
    BY <1>2, <1>4 DEF Fits
  <2>2. PICK m \in Nat : m = Len(item.labels)
    BY ReportedFields
  <2>3. new.pieces[1].begins => Len(new.labels) >= up
    BY <1>2, <1>4, <2>2 DEF Fits
  <2>. QED
    BY <1>3, <1>4, <2>1, <2>3 DEF Reach
<1>6. InOrder(new)
  <2>1. PICK m \in Nat : m = Len(item.labels) /\ DOMAIN item.labels = 1..m
    BY ReportedFields
  <2>. QED
    BY <1>2, <1>4, <2>1 DEF Fits, InOrder, UpToLabel
<1>. QED
  BY <1>3, <1>5, <1>6

LEMMA JoinedFits ==
  ASSUME Loop, NEW item \in Reported, TakeItem(item), NEW lo \in Place, NEW of \in Nat,
         NEW up \in Nat, Fits(item, lo, of, up), Reach(lo.of, lo.up), LabelsInOrder,
         Continues(item)
  PROVE  Reach(of, up)' /\ InOrder(NewOf(item))
<1>1. PICK c \in QuestionType : c = current[1] /\ current = <<c>>
  BY NewIs
<1>2. PICK new \in QuestionType : new = Joined(c, item)
  BY <1>1, JoinedIs
<1>3. new.pieces = Append(c.pieces, item.piece) /\ new.labels = MergedLabels(c.labels, item.labels)
  BY <1>2, JoinedIs
<1>4. NewOf(item) = new /\ current' = <<new>>
  BY <1>1, <1>2, ItemTaken DEF NewOf
<1>5. new.pieces[1] = c.pieces[1] /\ new.pieces[Len(new.pieces)] = item.piece
  BY <1>3, LastPiece, ReportedFields
<1>6. <<new>>[1] = new /\ <<c>> # <<>> /\ <<c>>[1] = c
  OBVIOUS
<1>7. CASE ~c.pieces[1].begins
  <2>1. InOrder(new)
    BY <1>5, <1>7 DEF InOrder
  <2>2. Reach(of, up)'
    BY <1>4, <1>5, <1>6, <1>7 DEF Reach, Fits
  <2>. QED
    BY <1>4, <2>1, <2>2
<1>8. CASE c.pieces[1].begins
  <2>1. PICK m \in Nat, n \in Nat, u \in Nat :
          /\ m = Len(c.labels) /\ n = Len(item.labels) /\ u = lo.up
          /\ DOMAIN c.labels = 1..m /\ DOMAIN item.labels = 1..n
    <3>1. c.labels \in Seq(Nat) /\ item.labels \in Seq(Nat)
      BY QuestionFields, ReportedFields
    <3>2. Len(c.labels) \in Nat /\ Len(item.labels) \in Nat
      BY <3>1
    <3>3. DOMAIN c.labels = 1..Len(c.labels) /\ DOMAIN item.labels = 1..Len(item.labels)
      BY <3>1
    <3>4. lo.up \in Nat
      BY PlaceFields
    <3>. QED
      BY <3>2, <3>3, <3>4
  <2>2. m >= u
    BY <1>1, <1>6, <1>8, <2>1 DEF Reach
  <2>3. c.labels = UpToLabel(m)
    <3>1. InOrder(c)
      BY <1>1, OpenIsOne, LabelsAre
    <3>. QED
      BY <1>8, <2>1, <3>1 DEF InOrder, UpToLabel
  <2>4. up <= u + n /\ \A j \in 1..n : 1 <= item.labels[j] /\ item.labels[j] <= u + j
    BY <2>1 DEF Fits
  <2>5. PICK ls \in Seq(Nat) : ls = item.labels
    BY ReportedFields
  <2>6. \A j \in 1..Len(ls) : 1 <= ls[j] /\ ls[j] <= m + j
    <3>1. \A j \in 1..n : ls[j] \in Nat
      BY <2>1, <2>5
    <3>. QED
      BY SMTT(30), <2>1, <2>2, <2>4, <2>5, <3>1
  <2>7. MergedLabels(UpToLabel(m), ls) = UpToLabel(m + n)
    BY <2>1, <2>5, <2>6, MergedInOrder
  <2>8. new.labels = UpToLabel(m + n)
    BY <1>3, <2>3, <2>5, <2>7
  <2>9. Len(UpToLabel(m + n)) = m + n /\ DOMAIN UpToLabel(m + n) = 1..(m + n)
    BY DEF UpToLabel
  <2>10. m + n >= up
    BY <2>2, <2>4
  <2>11. InOrder(new)
    BY <2>8, <2>9 DEF InOrder, UpToLabel
  <2>12. Reach(of, up)'
    BY <1>4, <1>5, <1>6, <2>8, <2>9, <2>10 DEF Reach, Fits
  <2>. QED
    BY <1>4, <2>11, <2>12
<1>. QED
  BY <1>7, <1>8

LEMMA TakeFits ==
  ASSUME Loop, NEW item \in Reported, TakeItem(item), NEW lo \in Place, NEW of \in Nat,
         NEW up \in Nat, Fits(item, lo, of, up), Reach(lo.of, lo.up), LabelsInOrder
  PROVE  Reach(of, up)' /\ LabelsInOrder'
<1>1. Reach(of, up)' /\ InOrder(NewOf(item))
  BY OpenedFits, JoinedFits
<1>2. ASSUME NEW k \in DOMAIN All'
      PROVE  InOrder(All'[k])
  <2>1. CASE All'[k] = NewOf(item)
    BY <1>1, <2>1
  <2>2. ASSUME NEW j \in DOMAIN All, Like(All'[k], All[j])
        PROVE  InOrder(All'[k])
    BY <2>2, LabelsAre DEF InOrder, Like
  <2>. QED
    BY <2>1, <2>2, AllAre
<1>3. LabelsInOrder'
  BY <1>2 DEF LabelsInOrder, InOrder
<1>. QED
  BY <1>1, <1>3

\* An item that is joined with certainty is of the question that is open.
LEMMA TakeCertain ==
  ASSUME Loop, NEW item \in Reported, TakeItem(item), NEW lo \in Place, Reach(lo.of, lo.up),
         CertainStitchIsTrue,
         Continues(item) /\ Certain(current[1], item) => item.piece.question = lo.of
  PROVE  CertainStitchIsTrue'
<1>1. OnePrinted(NewOf(item))
  <2>1. CASE ~Continues(item)
    <3>1. NewOf(item).pieces = <<item.piece>>
      BY <2>1, OpenedIs DEF NewOf, Loop
    <3>2. ToSet(<<item.piece>>) = {item.piece}
      BY DEF ToSet
    <3>. QED
      BY <3>1, <3>2 DEF OnePrinted
  <2>2. CASE Continues(item)
    <3>1. PICK c \in QuestionType : c = current[1] /\ current = <<c>>
      BY <2>2, NewIs
    <3>2. PICK new \in QuestionType : new = Joined(c, item) /\ new = NewOf(item)
      BY <2>2, <3>1, JoinedIs DEF NewOf
    <3>3. /\ new.pieces = Append(c.pieces, item.piece)
          /\ Uncertainly \in new.flags <=> (Uncertainly \in c.flags \/ ~Certain(c, item))
      BY <3>2, JoinedIs
    <3>4. /\ ToSet(new.pieces) = ToSet(c.pieces) \cup {item.piece}
          /\ c.pieces[Len(c.pieces)] \in ToSet(c.pieces)
      BY <3>3, LastPiece, ReportedFields
    <3>5. OnePrinted(c)
      BY <3>1, OpenIsOne, CertainIs
    <3>6. c.pieces[Len(c.pieces)].question = lo.of
      <4>1. <<c>> # <<>> /\ <<c>>[1] = c
        OBVIOUS
      <4>. QED
        BY <3>1, <4>1 DEF Reach
    <3>7. Uncertainly \notin new.flags =>
            /\ item.piece.question = lo.of
            /\ \A p \in ToSet(c.pieces) : p.question = lo.of
      BY <2>2, <3>1, <3>3, <3>4, <3>5, <3>6 DEF OnePrinted
    <3>. QED
      BY <3>2, <3>4, <3>7 DEF OnePrinted
  <2>. QED
    BY <2>1, <2>2
<1>2. ASSUME NEW k \in DOMAIN All'
      PROVE  OnePrinted(All'[k])
  <2>1. CASE All'[k] = NewOf(item)
    BY <1>1, <2>1
  <2>2. ASSUME NEW j \in DOMAIN All, Like(All'[k], All[j])
        PROVE  OnePrinted(All'[k])
    BY <2>2, CertainIs DEF OnePrinted, Like
  <2>. QED
    BY <2>1, <2>2, AllAre
<1>. QED
  BY <1>2 DEF CertainStitchIsTrue, OnePrinted, Uncertainly

-----------------------------------------------------------------------------
(* The order of the questions *)

\* The printed question of the last fragment of a question, and of the k-th of them.
LastOf(q) == q.pieces[Len(q.pieces)].question
LastAt(s, k) == IF k = 0 THEN 0 ELSE LastOf(s[k])

\* A question that is numbered, or has its beginning, is the one after "before".
Begins(q, before) ==
  /\ q.pieces[1].question = (IF q.pieces[1].begins THEN before + 1 ELSE before)
  /\ q.number # {} => q.pieces[1].begins /\ q.number = {q.pieces[1].question}

\* The questions count on from each other, and the last one ends with "of".
InSequence(s, of) ==
  /\ of = LastAt(s, Len(s))
  /\ \A k \in DOMAIN s : Begins(s[k], LastAt(s, k - 1))

\* The same of a fragment that follows one of the printed question "of".
GoesAfter(item, of) ==
  /\ item.piece.question = (IF item.piece.begins THEN of + 1 ELSE of)
  /\ item.number # {} => item.piece.begins /\ item.number = {item.piece.question}

\* Closing changes neither numbers nor sections.
LEMMA ClosedKeeps ==
  ASSUME Loop, NEW k \in DOMAIN All
  PROVE  /\ Closed[k].number = All[k].number /\ Closed[k].section = All[k].section
         /\ Closed[k].pieces = All[k].pieces
<1>1. PICK S : S = QuestionType
  OBVIOUS
<1>2. PICK m \in Nat, n \in Nat :
        /\ stitched \in Seq(S) /\ current \in Seq(S) /\ m = Len(stitched) /\ n = Len(current)
        /\ DOMAIN stitched = 1..m /\ DOMAIN current = 1..n
  <2>1. stitched \in Seq(S) /\ current \in Seq(S)
    BY <1>1 DEF Loop
  <2>. QED
    BY <2>1
<1>3. PICK tail : tail = [i \in DOMAIN current |-> [current[i] EXCEPT !.flags = @ \ {Marker}]]
  OBVIOUS
<1>4. \A i \in 1..n : tail[i] \in S /\ tail[i].number = current[i].number
                      /\ tail[i].section = current[i].section /\ tail[i].pieces = current[i].pieces
  <2>1. ASSUME NEW q \in QuestionType, NEW p, p = [q EXCEPT !.flags = @ \ {Marker}]
        PROVE  /\ p \in QuestionType /\ p.number = q.number /\ p.section = q.section
               /\ p.pieces = q.pieces
    <3>1. PICK flags : flags = q.flags \ {Marker} /\ flags \in SUBSET Flags
      BY QuestionFields
    <3>2. p = [q EXCEPT !.flags = flags]
      BY <2>1, <3>1
    <3>. HIDE DEF NumberType, SectionName, Flags, Pieces
    <3>. QED
      BY <3>1, <3>2 DEF QuestionType
  <2>2. \A i \in 1..n : current[i] \in QuestionType
    BY <1>1, <1>2
  <2>3. \A i \in 1..n : tail[i] = [current[i] EXCEPT !.flags = @ \ {Marker}]
    BY <1>2, <1>3
  <2>. QED
    BY <1>1, <2>1, <2>2, <2>3
<1>5. tail \in Seq(S) /\ Len(tail) = n
  <2>1. tail = [i \in 1..n |-> tail[i]]
    BY <1>2, <1>3
  <2>. QED
    BY <1>4, <2>1
<1>6. PICK a, b : a = stitched \o current /\ b = stitched \o tail
  OBVIOUS
<1>7. a = All /\ b = Closed
  BY <1>3, <1>6 DEF All, Closed
<1>8. /\ DOMAIN a = 1..(m + n)
      /\ \A i \in 1..m : a[i] = stitched[i] /\ b[i] = stitched[i]
      /\ \A i \in 1..n : a[m + i] = current[i] /\ b[m + i] = tail[i]
  BY <1>2, <1>5, <1>6
<1>9. k \in 1..m \/ \E i \in 1..n : k = m + i
  <2>1. k \in 1..(m + n)
    BY <1>7, <1>8
  <2>2. k \in 1..m \/ (k - m \in 1..n /\ k = m + (k - m))
    BY <2>1
  <2>. QED
    BY <2>2
<1>. QED
  BY <1>4, <1>7, <1>8, <1>9

LEMMA Continued ==
  ASSUME NEW s \in Seq(QuestionType), NEW q \in QuestionType, NEW new \in QuestionType,
         NEW piece \in PieceType, NEW of,
         new.number = q.number, new.pieces = Append(q.pieces, piece),
         InSequence(s \o <<q>>, of)
  PROVE  InSequence(s \o <<new>>, piece.question)
<1>1. PICK S : S = QuestionType
  OBVIOUS
<1>2. s \in Seq(S) /\ q \in S /\ new \in S
  BY <1>1
<1>3. PICK n \in Nat : n = Len(s) /\ DOMAIN s = 1..n
  BY <1>2
<1>4. PICK a, b : a = s \o <<q>> /\ b = s \o <<new>>
  OBVIOUS
<1>5. /\ DOMAIN a = 1..(n + 1) /\ DOMAIN b = 1..(n + 1) /\ Len(b) = n + 1
      /\ a[n + 1] = q /\ b[n + 1] = new /\ \A k \in 1..n : a[k] = s[k] /\ b[k] = s[k]
  BY <1>2, <1>3, <1>4
<1>6. new.pieces[1] = q.pieces[1] /\ new.pieces[Len(new.pieces)] = piece
  BY LastPiece
<1>7. ASSUME NEW k \in 1..(n + 1)
      PROVE  Begins(b[k], LastAt(b, k - 1))
  <2>1. Begins(a[k], LastAt(a, k - 1))
    BY <1>4, <1>5 DEF InSequence
  <2>2. LastAt(a, k - 1) = LastAt(b, k - 1)
    <3>1. k - 1 = 0 \/ k - 1 \in 1..n
      OBVIOUS
    <3>. QED
      BY <1>5, <3>1 DEF LastAt
  <2>3. CASE k = n + 1
    BY <1>5, <1>6, <2>1, <2>2, <2>3 DEF Begins
  <2>4. CASE k # n + 1
    <3>1. k \in 1..n
      BY <2>4
    <3>. QED
      BY <1>5, <2>1, <2>2, <3>1
  <2>. QED
    BY <2>3, <2>4
<1>8. piece.question = LastAt(b, Len(b))
  <2>1. n + 1 # 0
    OBVIOUS
  <2>. QED
    BY <1>5, <1>6, <2>1 DEF LastAt, LastOf
<1>. QED
  BY <1>4, <1>5, <1>7, <1>8 DEF InSequence

LEMMA OneAdded ==
  ASSUME NEW S, NEW s \in Seq(S), NEW x \in S, NEW n, n = Len(s), NEW b, b = s \o <<x>>
  PROVE  /\ DOMAIN b = 1..(n + 1) /\ Len(b) = n + 1
         /\ b[n + 1] = x /\ \A k \in 1..n : b[k] = s[k]
OBVIOUS

LEMMA Begun ==
  ASSUME NEW s \in Seq(QuestionType), NEW t \in Seq(QuestionType), NEW new \in QuestionType,
         NEW item \in Reported, NEW of, DOMAIN t = DOMAIN s,
         \A k \in DOMAIN s : t[k].number = s[k].number /\ t[k].pieces = s[k].pieces,
         new.number = item.number, new.pieces = <<item.piece>>,
         InSequence(s, of), GoesAfter(item, of)
  PROVE  InSequence(t \o <<new>>, item.piece.question)
<1>1. PICK S : S = QuestionType
  OBVIOUS
<1>2. s \in Seq(S) /\ t \in Seq(S) /\ new \in S
  BY <1>1
<1>3. PICK n \in Nat : n = Len(s) /\ DOMAIN s = 1..n /\ DOMAIN t = 1..n /\ Len(t) = n
  <2>1. PICK n \in Nat, m \in Nat : n = Len(s) /\ DOMAIN s = 1..n /\ m = Len(t) /\ DOMAIN t = 1..m
    BY <1>2
  <2>2. n = m
    BY <2>1
  <2>. QED
    BY <2>1, <2>2
<1>4. PICK b : b = t \o <<new>>
  OBVIOUS
<1>5. /\ DOMAIN b = 1..(n + 1) /\ Len(b) = n + 1
      /\ b[n + 1] = new /\ \A k \in 1..n : b[k] = t[k]
  BY <1>2, <1>3, <1>4, OneAdded
<1>6. \A k \in 0..n : LastAt(b, k) = LastAt(s, k)
  <2>1. \A k \in 1..n : LastOf(t[k]) = LastOf(s[k])
    BY <1>3 DEF LastOf
  <2>2. \A k \in 1..n : LastAt(b, k) = LastAt(s, k)
    <3>1. \A k \in 1..n : k # 0
      OBVIOUS
    <3>. QED
      BY <1>5, <2>1, <3>1 DEF LastAt
  <2>3. LastAt(b, 0) = LastAt(s, 0)
    BY DEF LastAt
  <2>4. \A k \in 0..n : k = 0 \/ k \in 1..n
    OBVIOUS
  <2>. QED
    BY <2>2, <2>3, <2>4
<1>7. of = LastAt(b, n)
  <2>1. n \in 0..n
    OBVIOUS
  <2>. QED
    BY <1>3, <1>6, <2>1 DEF InSequence
<1>8. Len(<<item.piece>>) = 1 /\ <<item.piece>>[1] = item.piece
  OBVIOUS
<1>9. Begins(new, of)
  <2>1. new.pieces[1] = item.piece
    BY <1>8
  <2>2. item.piece.question = (IF item.piece.begins THEN of + 1 ELSE of)
    BY DEF GoesAfter
  <2>3. item.number # {} => item.piece.begins /\ item.number = {item.piece.question}
    BY DEF GoesAfter
  <2>4. new.pieces[1].question = (IF new.pieces[1].begins THEN of + 1 ELSE of)
    BY <2>1, <2>2
  <2>5. new.number # {} =>
          new.pieces[1].begins /\ new.number = {new.pieces[1].question}
    BY <2>1, <2>3
  <2>. QED
    BY <2>4, <2>5 DEF Begins
<1>10. ASSUME NEW k \in 1..(n + 1)
       PROVE  Begins(b[k], LastAt(b, k - 1))
  <2>1. CASE k = n + 1
    <3>1. k - 1 = n
      BY <2>1
    <3>. QED
      BY <1>5, <1>7, <1>9, <2>1, <3>1
  <2>2. CASE k # n + 1
    <3>1. k \in 1..n /\ k - 1 \in 0..n
      BY <2>2
    <3>2. Begins(s[k], LastAt(s, k - 1))
      BY <1>3, <3>1 DEF InSequence
    <3>3. Begins(t[k], LastAt(s, k - 1))
      BY <1>3, <3>1, <3>2 DEF Begins
    <3>. QED
      BY <1>5, <1>6, <3>1, <3>3
  <2>. QED
    BY <2>1, <2>2
<1>11. item.piece.question = LastAt(b, Len(b))
  <2>1. n + 1 # 0
    OBVIOUS
  <2>. QED
    BY <1>5, <1>8, <2>1 DEF LastAt, LastOf
<1>. QED
  BY <1>4, <1>5, <1>10, <1>11 DEF InSequence

LEMMA TakeInSequence ==
  ASSUME Loop, NEW item \in Reported, TakeItem(item), NEW of, GoesAfter(item, of),
         InSequence(All, of)
  PROVE  InSequence(All', item.piece.question)
<1>1. All' = stitched' \o <<NewOf(item)>>
  BY ItemTaken
<1>2. CASE Continues(item)
  <2>1. PICK c \in QuestionType : c = current[1] /\ current = <<c>>
    BY <1>2, NewIs
  <2>2. PICK new \in QuestionType : new = NewOf(item) /\ new = Joined(c, item)
    BY <1>2, <2>1, NewIs DEF NewOf
  <2>3. new.number = c.number /\ new.pieces = Append(c.pieces, item.piece)
    BY <2>2, JoinedIs
  <2>4. stitched' = stitched /\ stitched \in Seq(QuestionType)
    BY <1>2, ItemTaken DEF Loop
  <2>5. InSequence(stitched \o <<c>>, of)
    BY <2>1 DEF All
  <2>6. item.piece \in PieceType
    BY ReportedFields
  <2>7. InSequence(stitched \o <<new>>, item.piece.question)
    BY <2>3, <2>4, <2>5, <2>6, Continued
  <2>. QED
    BY <1>1, <2>2, <2>4, <2>7
<1>3. CASE ~Continues(item)
  <2>1. PICK new \in QuestionType :
          new = NewOf(item) /\ new.number = item.number /\ new.pieces = <<item.piece>>
    BY <1>3, OpenedIs DEF NewOf, Loop
  <2>2. stitched' = Closed
    BY <1>3, ItemTaken
  <2>3. Closed \in Seq(QuestionType) /\ All \in Seq(QuestionType) /\ DOMAIN Closed = DOMAIN All
    BY ClosedIs
  <2>4. \A k \in DOMAIN All : Closed[k].number = All[k].number /\ Closed[k].pieces = All[k].pieces
    BY ClosedKeeps
  <2>5. InSequence(Closed \o <<new>>, item.piece.question)
    BY <2>1, <2>3, <2>4, Begun
  <2>. QED
    BY <1>1, <2>1, <2>2, <2>5
<1>. QED
  BY <1>2, <1>3

-----------------------------------------------------------------------------
(* The invariant *)

\* A document of fragments.
FragmentsRead ==
  /\ lines = <<>> /\ pending = <<>>
  /\ question \in 0..QuestionCount /\ cut \in BOOLEAN /\ printed \in Nat /\ spurious \in Nat
  /\ current # <<>> /\ Marker \in current[1].flags /\ ~cut => spurious >= 1
  /\ Reach(question, printed)

\* A paper of lines: the items taken so far end at the place lo.
LinesRead(pos, lo) ==
  /\ lines \in Seq(PrintedLine) /\ lines # <<>> /\ Run(lines, pos)
  /\ at \in 0..Len(lines) /\ pending \in Seq(ItemType)
  /\ lo \in Place /\ Reach(lo.of, lo.up) /\ Between(pending, lo, pos[at])

Reads == FragmentsRead \/ \E pos, lo : LinesRead(pos, lo)

Stitched == /\ Loop /\ page \in Nat
            /\ NothingLost /\ LabelsInOrder
            /\ MaxSpurious <= 1 => CertainStitchIsTrue

LEMMA NewMarker ==
  ASSUME Loop, NEW item \in Reported
  PROVE  Marker \in NewOf(item).flags <=> item.continues
<1>1. CASE Continues(item)
  <2>1. PICK c \in QuestionType : c = current[1]
    BY <1>1, NewIs
  <2>2. Marker \in Joined(c, item).flags <=> item.continues
    BY JoinedIs
  <2>. QED
    BY <1>1, <2>1, <2>2 DEF NewOf
<1>2. CASE ~Continues(item)
  BY <1>2, OpenedIs DEF NewOf, Loop
<1>. QED
  BY <1>1, <1>2

LEMMA InitRead ==
  ASSUME Init
  PROVE  /\ Stitched /\ All = <<>> /\ pending = <<>> /\ question = 0 /\ ~over
         /\ \/ FragmentsRead
            \/ lines \in Papers /\ \E pos, lo : LinesRead(pos, lo) /\ pos[0] = lo /\ lo.of = 0
<1>1. /\ section = "" /\ first = TRUE /\ current = <<>> /\ stitched = <<>> /\ over = FALSE
      /\ question = 0 /\ cut = FALSE /\ printed = 0 /\ spurious = 0
      /\ seen = <<>> /\ at = 0 /\ pending = <<>>
      /\ \/ lines = <<>> /\ page = 1
         \/ lines \in Papers /\ page = 0
  BY DEF Init, StitchInit
<1>2. <<>> \in Seq(QuestionType) /\ Len(<<>>) = 0 /\ DOMAIN <<>> = {} /\ <<>> \in Seq(ItemType)
      /\ <<>> \o <<>> = <<>>
  OBVIOUS
<1>3. Loop
  <2>1. section \in SectionName /\ first \in BOOLEAN /\ over \in BOOLEAN
    BY <1>1 DEF SectionName
  <2>2. stitched \in Seq(QuestionType) /\ current \in Seq(QuestionType) /\ Len(current) <= 1
    <3>1. stitched = <<>> /\ current = <<>>
      BY <1>1
    <3>. QED
      BY <1>2, <3>1
  <2>3. DOMAIN stitched = {}
    <3>1. stitched = <<>>
      BY <1>1
    <3>. QED
      BY <1>2, <3>1
  <2>. QED
    BY <2>1, <2>2, <2>3 DEF Loop
<1>4. All = <<>> /\ page \in Nat
  <2>1. stitched = <<>> /\ current = <<>>
    BY <1>1
  <2>2. page = 0 \/ page = 1
    BY <1>1
  <2>3. All = <<>> \o <<>>
    BY <2>1 DEF All
  <2>. QED
    BY <1>2, <2>2, <2>3
<1>5. LabelsInOrder /\ CertainStitchIsTrue
  BY <1>2, <1>4, LabelsAre, CertainIs
<1>6. NothingLost
  <2>1. PiecesOf(<<>>) = <<>>
    <3>1. PiecesOf(<<>>) \in Seq(PieceType)
      BY <1>2, PiecesOfType
    <3>2. PICK seqs : seqs = [k \in DOMAIN <<>> |-> <<>>[k].pieces]
      OBVIOUS
    <3>3. seqs = <<>> /\ seqs \in Seq(Seq(PieceType))
      BY <1>2, <3>2
    <3>4. PICK f : Joining(f, Seq(PieceType), seqs) /\ FlattenSeq(seqs) = f[Len(seqs)]
      BY <3>3, FlattenIs
    <3>. QED
      BY <1>2, <3>2, <3>3, <3>4 DEF PiecesOf, Joining
  <2>2. PICK ps : ps = PiecesOf(All) /\ ps = <<>>
    BY <1>4, <2>1
  <2>3. [k \in DOMAIN ps |-> ps[k].question] = <<>>
    BY <1>2, <2>2
  <2>. QED
    BY <1>1, <2>2, <2>3, NothingLostIs
<1>7. \A of, up : Reach(of, up)
  BY <1>1 DEF Reach
<1>8. CASE lines = <<>>
  <2>1. 0 \in 0..QuestionCount
    BY TopIs
  <2>2. FragmentsRead
    BY <1>1, <1>7, <1>8, <2>1 DEF FragmentsRead
  <2>. QED
    BY <1>1, <1>3, <1>4, <1>5, <1>6, <2>2 DEF Stitched
<1>9. CASE lines \in Papers
  <2>1. PICK lo \in Place : lo = [of |-> 0, up |-> 0]
    BY PlaceIs
  <2>2. PICK pos : /\ lines \in Seq(PrintedLine) /\ lines # <<>>
                   /\ Run(lines, pos) /\ pos[0] = lo
    BY <1>9, <2>1, PapersRun
  <2>3. at \in 0..Len(lines)
    <3>1. Len(lines) \in Nat
      BY <2>2
    <3>2. at = 0
      BY <1>1
    <3>. QED
      BY <3>1, <3>2
  <2>4. Between(pending, lo, pos[at])
    BY <1>1, <1>2, <2>2 DEF Between
  <2>5. LinesRead(pos, lo)
    BY <1>1, <1>2, <1>7, <2>1, <2>2, <2>3, <2>4 DEF LinesRead
  <2>6. lo.of = 0
    BY <2>1
  <2>. QED
    BY <1>1, <1>3, <1>4, <1>5, <1>6, <1>9, <2>2, <2>5, <2>6 DEF Stitched
<1>. QED
  BY <1>1, <1>8, <1>9

LEMMA InitInv ==
  ASSUME Init
  PROVE  Stitched /\ Reads
BY InitRead DEF Reads

LEMMA FragmentTaken ==
  ASSUME Stitched, FragmentsRead, Fragment
  PROVE  /\ Stitched' /\ FragmentsRead'
         /\ \E item \in Reported : /\ TakeItem(item) /\ GoesAfter(item, question)
                                   /\ item.piece.question = question'
<1>1. Loop /\ FragmentsRead
  BY DEF Stitched
<1>0. PICK goesOn, continues, starts, alike, again \in BOOLEAN, to \in 0..OptionCount :
        LET of == IF cut THEN question ELSE question + 1
            from == IF cut THEN printed ELSE 0
        IN \E number \in SUBSET (IF cut THEN {} ELSE {of}), flags \in SUBSET {"LOW_GROUNDING"} :
             /\ goesOn => page < MaxPages
             /\ to >= from /\ (goesOn \/ to = OptionCount)
             /\ (starts \/ alike) => first
             /\ again => from > 0 /\ to > from
             /\ spurious' = spurious + Count(continues /\ ~goesOn) + Count(starts /\ ~cut)
             /\ spurious' <= MaxSpurious
             /\ madeUp' = madeUp + Cardinality(flags) /\ madeUp' <= MaxUngrounded
             /\ TakeItem([number |-> number, starts |-> starts, continues |-> continues,
                          alike |-> alike, labels |-> Labels(from, to, again),
                          flags |-> flags,
                          piece |-> [question |-> of, begins |-> ~cut, grounded |-> flags = {},
                                     lines |-> <<>>]])
             /\ question' = of /\ cut' = goesOn /\ printed' = to
             /\ seen' = Append(seen, of)
             /\ UNCHANGED <<page, lines, at, pending, breaks>>
  BY DEF Fragment
<1> DEFINE of0 == IF cut THEN question ELSE question + 1
           from0 == IF cut THEN printed ELSE 0
<1>2c. PICK number \in SUBSET (IF cut THEN {} ELSE {of0}), flags \in SUBSET {"LOW_GROUNDING"} :
        /\ to >= from0 /\ (again => from0 > 0 /\ to > from0)
        /\ spurious' = spurious + Count(continues /\ ~goesOn) + Count(starts /\ ~cut)
        /\ spurious' <= MaxSpurious
        /\ TakeItem([number |-> number, starts |-> starts, continues |-> continues,
                     alike |-> alike, labels |-> Labels(from0, to, again), flags |-> flags,
                     piece |-> [question |-> of0, begins |-> ~cut, grounded |-> flags = {},
                                lines |-> <<>>]])
        /\ question' = of0 /\ cut' = goesOn /\ printed' = to
        /\ seen' = Append(seen, of0)
        /\ page' = page /\ lines' = lines /\ pending' = pending
  BY <1>0
<1>2. PICK of, from, item :
        /\ of = (IF cut THEN question ELSE question + 1)
        /\ from = (IF cut THEN printed ELSE 0)
        /\ number \in SUBSET (IF cut THEN {} ELSE {of})
        /\ to >= from /\ (again => from > 0 /\ to > from)
        /\ spurious' = spurious + Count(continues /\ ~goesOn) + Count(starts /\ ~cut)
        /\ spurious' <= MaxSpurious
        /\ item = [number |-> number, starts |-> starts, continues |-> continues,
                   alike |-> alike, labels |-> Labels(from, to, again), flags |-> flags,
                   piece |-> [question |-> of, begins |-> ~cut, grounded |-> flags = {},
                              lines |-> <<>>]]
        /\ TakeItem(item)
        /\ question' = of /\ cut' = goesOn /\ printed' = to
        /\ seen' = Append(seen, of)
        /\ page' = page /\ lines' = lines /\ pending' = pending
  BY <1>2c
<1> HIDE DEF of0, from0
<1>2a. to >= from /\ (again => from > 0 /\ to > from)
  BY <1>2
<1>2b. cut \/ question < QuestionCount
  BY DEF Fragment
<1>3. /\ question \in 0..QuestionCount /\ cut \in BOOLEAN /\ printed \in Nat /\ spurious \in Nat
      /\ QuestionCount \in Nat /\ OptionCount \in Nat /\ MaxSpurious \in Nat
  BY <1>1, BoundAssumption DEF FragmentsRead
<1>4. of \in 0..QuestionCount /\ from \in Nat /\ to \in Nat /\ (~cut => of \in 1..QuestionCount)
  <2>1. of = (IF cut THEN question ELSE question + 1) /\ from = (IF cut THEN printed ELSE 0)
    BY <1>2
  <2>. QED
    BY <1>2b, <1>3, <2>1
<1>5. PICK labels \in Seq(Nat) :
        /\ labels = Labels(from, to, again) /\ Len(labels) = to - from /\ to - from \in Nat
        /\ \A j \in 1..(to - from) : labels[j] = IF again THEN j ELSE from + j
  <2>1. PICK m \in Nat : m = to - from
    <3>1. to - from \in Nat
      BY <1>2a, <1>4
    <3>. QED
      BY <3>1
  <2>2. PICK labels : labels = [k \in 1..m |-> IF again THEN k ELSE from + k]
    OBVIOUS
  <2>3. \A k \in 1..m : (IF again THEN k ELSE from + k) \in Nat
    BY <1>4
  <2>4. labels \in Seq(Nat) /\ Len(labels) = m
    BY <2>2, <2>3
  <2>5. labels = Labels(from, to, again)
    BY <2>1, <2>2 DEF Labels
  <2>. QED
    BY <2>1, <2>2, <2>4, <2>5
<1>6. PICK piece \in PieceType :
        /\ piece = [question |-> of, begins |-> ~cut, grounded |-> flags = {}, lines |-> <<>>]
        /\ piece.question = of /\ piece.begins = ~cut
  <2>0. of \in Nat
    BY <1>4
  <2>1. <<>> \in Seq(Nat) /\ of \in Nat /\ (~cut) \in BOOLEAN /\ (flags = {}) \in BOOLEAN
    BY <2>0
  <2>2. [question |-> of, begins |-> ~cut, grounded |-> flags = {}, lines |-> <<>>] \in PieceType
    BY <2>1 DEF PieceType
  <2>. QED
    BY <2>2
<1>7. number \in NumberType
  <2>1. number = {} \/ (~cut /\ number = {of})
    BY <1>2
  <2>2. ~cut => of \in 1..Top
    BY <1>4, TopIs
  <2>. QED
    BY <2>1, <2>2 DEF NumberType
<1>8. /\ item \in Reported /\ item.piece = piece /\ item.labels = labels
      /\ item.starts = starts /\ item.continues = continues
  <2>. HIDE DEF NumberType, PieceType
  <2>. QED
    BY <1>2, <1>5, <1>6, <1>7 DEF Reported
<1>9. PICK lo \in Place : lo = [of |-> question, up |-> printed] /\ lo.of = question /\ lo.up = printed
  <2>1. question \in Nat
    BY <1>3
  <2>2. [of |-> question, up |-> printed] \in Place
    BY <1>3, <2>1, PlaceIs
  <2>. QED
    BY <2>2
<1>10. Reach(lo.of, lo.up)
  BY <1>1, <1>9 DEF FragmentsRead
<1>11. Fits(item, lo, of, to)
  <2>1. ~cut => labels = UpToLabel(to) /\ Len(labels) = to
    <3>1. SUFFICES ASSUME ~cut
                   PROVE  labels = UpToLabel(to) /\ Len(labels) = to
      OBVIOUS
    <3>2. from = 0 /\ ~again /\ to - from = to
      BY <1>2, <1>2a, <1>4, <3>1
    <3>3. Len(labels) = to /\ \A j \in 1..to : labels[j] = j
      BY <1>5, <3>2
    <3>4. labels = [j \in 1..to |-> labels[j]]
      BY <3>3
    <3>. QED
      BY <3>3, <3>4 DEF UpToLabel
  <2>0. from = (IF cut THEN printed ELSE 0)
    BY <1>2
  <2>2. to <= printed + (to - from)
    BY <1>3, <1>4, <2>0
  <2>3. \A j \in 1..(to - from) : 1 <= labels[j] /\ labels[j] <= printed + j
    BY <1>3, <1>4, <1>5, <2>0
  <2>4. DOMAIN labels = 1..(to - from)
    BY <1>5
  <2>5. item.piece.begins => item.labels = UpToLabel(Len(item.labels)) /\ to <= Len(item.labels)
    <3>1. SUFFICES ASSUME item.piece.begins
                   PROVE  item.labels = UpToLabel(Len(item.labels)) /\ to <= Len(item.labels)
      OBVIOUS
    <3>2. ~cut
      BY <1>6, <1>8, <3>1
    <3>3. item.labels = UpToLabel(to) /\ Len(item.labels) = to /\ to <= to
      BY <1>4, <1>8, <2>1, <3>2
    <3>. QED
      BY <3>3
  <2>6. to <= lo.up + Len(item.labels)
    <3>1. PICK w \in Nat : w = to - from /\ w = Len(item.labels)
      BY <1>5, <1>8
    <3>2. to <= printed + w
      BY <2>2, <3>1
    <3>. QED
      BY <1>9, <3>1, <3>2
  <2>7. \A j \in DOMAIN item.labels : 1 <= item.labels[j] /\ item.labels[j] <= lo.up + j
    BY <1>8, <1>9, <2>3, <2>4
  <2>. QED
    BY <1>6, <1>8, <2>5, <2>6, <2>7 DEF Fits
<1>12. Loop' /\ current' = <<NewOf(item)>> /\ NewOf(item) \in QuestionType
  BY <1>1, <1>2, <1>8, ItemTaken, NewIs
<1>13. Reach(of, to)' /\ LabelsInOrder'
  <2>1. of \in Nat
    BY <1>4
  <2>. QED
    BY <1>1, <1>2, <1>4, <1>8, <1>10, <1>11, <2>1, TakeFits DEF Stitched
<1>14. NothingLost'
  BY <1>1, <1>2, <1>6, <1>8, TakeLosesNothing DEF Stitched
<1>15. spurious' \in Nat /\ (continues /\ ~goesOn => spurious' >= 1)
       /\ (starts /\ ~cut /\ spurious >= 1 => spurious' >= 2)
  BY <1>2, <1>3 DEF Count
<1>16. MaxSpurious <= 1 => CertainStitchIsTrue'
  <2>1. SUFFICES ASSUME MaxSpurious <= 1
                 PROVE  CertainStitchIsTrue'
    OBVIOUS
  <2>2. Continues(item) /\ Certain(current[1], item) => item.piece.question = lo.of
    <3>1. SUFFICES ASSUME Continues(item), Certain(current[1], item)
                   PROVE  item.piece.question = lo.of
      OBVIOUS
    <3>2. current # <<>> /\ Marker \in current[1].flags /\ starts
      BY <1>8, <3>1 DEF Continues, Certain
    <3>3. cut
      <4>1. SUFFICES ASSUME ~cut
                     PROVE  FALSE
        OBVIOUS
      <4>2. spurious >= 1
        BY <1>1, <3>2, <4>1 DEF FragmentsRead
      <4>3. spurious' >= 2
        BY <1>15, <3>2, <4>1, <4>2
      <4>. QED
        BY <1>2, <1>3, <1>15, <2>1, <4>3
    <3>. QED
      BY <1>2, <1>6, <1>8, <1>9, <3>3
  <2>3. CertainStitchIsTrue
    BY <2>1 DEF Stitched
  <2>. QED
    BY <1>1, <1>2, <1>8, <1>10, <2>2, <2>3, TakeCertain
<1>17. Stitched'
  BY <1>2, <1>12, <1>13, <1>14, <1>16 DEF Stitched
<1>18. current' # <<>> /\ Marker \in current'[1].flags /\ ~cut' => spurious' >= 1
  <2>1. current'[1] = NewOf(item)
    BY <1>12
  <2>2. Marker \in NewOf(item).flags <=> continues
    BY <1>1, <1>8, NewMarker
  <2>. QED
    BY <1>2, <1>15, <2>1, <2>2
<1>19. FragmentsRead'
  BY <1>1, <1>2, <1>4, <1>13, <1>15, <1>18 DEF FragmentsRead, Reach
<1>20. GoesAfter(item, question)
  <2>1. item.piece.question = (IF item.piece.begins THEN question + 1 ELSE question)
    BY <1>2, <1>3, <1>6, <1>8
  <2>2. number # {} => ~cut /\ number = {of}
    BY <1>2
  <2>3. item.number = number
    BY <1>2
  <2>. QED
    BY <1>6, <1>8, <2>1, <2>2, <2>3 DEF GoesAfter
<1>21. item.piece.question = question'
  BY <1>2, <1>6, <1>8
<1>. QED
  BY <1>2, <1>8, <1>17, <1>19, <1>20, <1>21

LEMMA FragmentInv ==
  ASSUME Stitched, Reads, Fragment
  PROVE  Stitched' /\ Reads'
<1>1. FragmentsRead
  BY DEF Reads, LinesRead, Fragment
<1>2. FragmentsRead' /\ Stitched'
  BY <1>1, FragmentTaken
<1>. QED
  BY <1>2 DEF Reads

\* A part of the lines of a paper runs from the line before it to its last one.
LEMMA PartRuns ==
  ASSUME NEW ls \in Seq(PrintedLine), NEW pos, Run(ls, pos), NEW a \in 0..Len(ls),
         NEW n \in 1..(Len(ls) - a)
  PROVE  /\ SubSeq(ls, a + 1, a + n) \in Seq(PrintedLine)
         /\ \E f : /\ Run(SubSeq(ls, a + 1, a + n), f)
                   /\ f[0] = pos[a] /\ f[Len(SubSeq(ls, a + 1, a + n))] = pos[a + n]
<1>1. PICK S : S = PrintedLine
  OBVIOUS
<1>2. PICK m \in Nat : m = Len(ls) /\ a + n <= m
  OBVIOUS
<1>3. PICK part : part = SubSeq(ls, a + 1, a + n)
  OBVIOUS
<1>4. part \in Seq(S) /\ Len(part) = n /\ \A k \in 1..n : part[k] = ls[a + k]
  <2>1. ls \in Seq(S)
    BY <1>1
  <2>2. part = [k \in 1..n |-> ls[a + k]]
    BY <1>2, <1>3, <2>1
  <2>3. \A k \in 1..n : a + k \in 1..m
    BY <1>2
  <2>4. \A k \in 1..n : ls[a + k] \in S
    BY <1>2, <2>1, <2>3
  <2>. QED
    BY <2>2, <2>4
<1>5. PICK f : f = [k \in 0..n |-> pos[a + k]]
  OBVIOUS
<1>6. f \in [0..n -> Place]
  <2>1. \A k \in 0..n : a + k \in 0..m
    BY <1>2
  <2>2. \A k \in 0..n : pos[a + k] \in Place
    BY <1>2, <2>1 DEF Run
  <2>. QED
    BY <1>5, <2>2
<1>7. ASSUME NEW k \in 1..n
      PROVE  Follows(part[k], f[k - 1], f[k])
  <2>1. a + k \in 1..m /\ k \in 0..n /\ k - 1 \in 0..n /\ a + (k - 1) = (a + k) - 1
    BY <1>2
  <2>2. Follows(ls[a + k], pos[(a + k) - 1], pos[a + k])
    BY <1>2, <2>1 DEF Run
  <2>. QED
    BY <1>4, <1>5, <2>1, <2>2
<1>8. Run(part, f)
  BY <1>4, <1>6, <1>7 DEF Run
<1>9. f[0] = pos[a] /\ f[n] = pos[a + n]
  <2>1. 0 \in 0..n /\ n \in 0..n /\ a + 0 = a
    OBVIOUS
  <2>. QED
    BY <1>5, <2>1
<1>. QED
  BY <1>1, <1>3, <1>4, <1>8, <1>9

LEMMA PageRead ==
  ASSUME Stitched, NEW pos, NEW lo, LinesRead(pos, lo), ReadPage
  PROVE  Stitched' /\ LinesRead(pos, lo)'
<1>1. PICK n \in 1..(Len(lines) - at) :
        /\ pending' = Items(SubSeq(lines, at + 1, at + n), page + 1) /\ at' = at + n
        /\ lines # <<>> /\ pending = <<>> /\ page' = page + 1 /\ TurnPage("")
        /\ lines' = lines /\ seen' = seen
  BY DEF ReadPage
<1>3. Loop' /\ All' = All /\ current' = current
  <2>1. "" \in SectionName
    BY DEF SectionName
  <2>. QED
    BY <1>1, <2>1, PageTurned DEF Stitched
<1>4. Stitched'
  <2>1. page' \in Nat
    <3>1. page \in Nat
      BY DEF Stitched
    <3>2. page' = page + 1
      BY <1>1
    <3>. QED
      BY <3>1, <3>2
  <2>. QED
    <3>1. NothingLost'
      BY <1>1, <1>3 DEF Stitched, NothingLost
    <3>2. LabelsInOrder'
      BY <1>3 DEF Stitched, LabelsInOrder
    <3>3. MaxSpurious <= 1 => CertainStitchIsTrue'
      BY <1>3 DEF Stitched, CertainStitchIsTrue
    <3>. QED
      BY <1>3, <2>1, <3>1, <3>2, <3>3 DEF Stitched
<1>5. /\ lines \in Seq(PrintedLine) /\ Run(lines, pos) /\ at \in 0..Len(lines) /\ lo \in Place
      /\ Between(pending, lo, pos[at]) /\ Reach(lo.of, lo.up)
  BY DEF LinesRead
<1>6. PICK part, f :
        /\ part \in Seq(PrintedLine)
        /\ part = SubSeq(lines, at + 1, at + n) /\ Run(part, f)
        /\ f[0] = pos[at] /\ f[Len(part)] = pos[at + n]
  <2>1. /\ SubSeq(lines, at + 1, at + n) \in Seq(PrintedLine)
        /\ \E f : /\ Run(SubSeq(lines, at + 1, at + n), f)
                  /\ f[0] = pos[at] /\ f[Len(SubSeq(lines, at + 1, at + n))] = pos[at + n]
    BY <1>5, PartRuns
  <2>2. PICK part : part = SubSeq(lines, at + 1, at + n)
    OBVIOUS
  <2>3. part \in Seq(PrintedLine)
    BY <2>1, <2>2
  <2>4. PICK f : Run(part, f) /\ f[0] = pos[at] /\ f[Len(part)] = pos[at + n]
    BY <2>1, <2>2
  <2>. QED
    BY <2>2, <2>3, <2>4
<1>7. pos[at] = lo
  BY <1>1, <1>5 DEF Between
<1>8. pending' \in Seq(ItemType) /\ Between(pending', lo, pos[at'])
  <2>1. page + 1 \in Nat
    BY DEF Stitched
  <2>2. Items(part, page + 1) \in Seq(ItemType) /\ Between(Items(part, page + 1), f[0], f[Len(part)])
    BY <1>6, <2>1, ItemsAre
  <2>. QED
    BY <1>1, <1>6, <1>7, <2>2
<1>9. at' \in 0..Len(lines)
  <2>1. PICK m \in Nat : m = Len(lines)
    BY <1>5
  <2>2. at \in 0..m /\ n \in 1..(m - at)
    BY <1>5, <2>1
  <2>3. at + n \in 0..m
    BY <2>2
  <2>. QED
    BY <1>1, <2>1, <2>3
<1>10. Reach(lo.of, lo.up)'
  BY <1>3, <1>5 DEF Reach
<1>11. LinesRead(pos, lo)'
  BY <1>1, <1>5, <1>8, <1>9, <1>10 DEF LinesRead, Reach
<1>. QED
  BY <1>4, <1>11

LEMMA ReadPageInv ==
  ASSUME Stitched, Reads, ReadPage
  PROVE  Stitched' /\ Reads'
<1>1. PICK pos, lo : LinesRead(pos, lo)
  BY DEF Reads, FragmentsRead, ReadPage
<1>2. Stitched' /\ LinesRead(pos, lo)'
  BY <1>1, PageRead
<1>. QED
  BY <1>2 DEF Reads

\* The first of the items of a page, and the place from which the others go on.
LEMMA PendingTaken ==
  ASSUME NEW items \in Seq(ItemType), items # <<>>, NEW lo \in Place, NEW hi \in Place,
         Between(items, lo, hi)
  PROVE  /\ Head(items) \in ItemType /\ PartOf(Head(items), lo) /\ Tail(items) \in Seq(ItemType)
         /\ \E mid \in Place : GoesTo(Head(items), lo, mid) /\ Between(Tail(items), mid, hi)
<1>1. PICK S : S = ItemType
  OBVIOUS
<1>2. items \in Seq(S)
  BY <1>1
<1>3. PICK n \in Nat : n = Len(items) /\ n >= 1 /\ DOMAIN items = 1..n
  <2>1. Len(items) # 0 /\ Len(items) \in Nat
    BY <1>2, NothingLong
  <2>. QED
    BY <1>2, <2>1
<1>4. PICK x, rest : x = Head(items) /\ rest = Tail(items)
  OBVIOUS
<1>5. /\ x = items[1] /\ x \in S /\ rest \in Seq(S) /\ Len(rest) = n - 1
      /\ \A k \in 1..(n - 1) : rest[k] = items[k + 1]
  BY <1>2, <1>3, <1>4
<1>6. \A k \in 1..n : PartOf(items[k], lo) /\ (k > 1 => items[k].number # {})
  BY <1>3 DEF Between
<1>7. PartOf(x, lo)
  <2>1. 1 \in 1..n
    BY <1>3
  <2>. QED
    BY <1>5, <1>6, <2>1
<1>8. GoesTo(items[n], lo, hi)
  BY <1>3 DEF Between
<1>9. PICK mid \in Place : GoesTo(x, lo, mid)
  <2>1. PICK of \in Nat : of = x.lines[1]
    <3>1. x.lines \in Seq(Nat) /\ x.lines # <<>>
      BY <1>1, <1>5, <1>7, ItemFields DEF PartOf
    <3>2. x.lines[1] \in Nat
      BY <3>1
    <3>. QED
      BY <3>2
  <2>2. PICK m \in Nat, base \in Nat : m = Len(x.labels) /\ base = IF x.number = {} THEN lo.up ELSE 0
    <3>1. x.labels \in Seq(Nat) /\ lo.up \in Nat
      BY <1>1, <1>5, ItemFields, PlaceFields
    <3>2. Len(x.labels) \in Nat
      BY <3>1
    <3>. QED
      BY <3>1, <3>2
  <2>3. PICK mid \in Place : mid = [of |-> of, up |-> base + m]
    <3>1. base + m \in Nat
      OBVIOUS
    <3>2. [of |-> of, up |-> base + m] \in Place
      BY <3>1, PlaceIs
    <3>. QED
      BY <3>2
  <2>4. mid.of = of /\ mid.up = base + m
    BY <2>3
  <2>5. GoesTo(x, lo, mid)
    BY <2>1, <2>2, <2>4 DEF GoesTo
  <2>. QED
    BY <2>5
<1>10. ASSUME NEW k \in 1..(n - 1)
       PROVE  PartOf(rest[k], mid) /\ rest[k].number # {}
  <2>1. k + 1 \in 1..n /\ k + 1 > 1
    BY <1>3
  <2>2. PartOf(items[k + 1], lo) /\ items[k + 1].number # {}
    BY <1>6, <2>1
  <2>. QED
    BY <1>5, <2>2 DEF PartOf
<1>11. DOMAIN rest = 1..(n - 1)
  BY <1>3, <1>5
<1>12. CASE n = 1
  <2>1. rest = <<>>
    BY <1>5, <1>12, NothingLong
  <2>2. hi = mid
    <3>1. GoesTo(x, lo, hi)
      BY <1>5, <1>8, <1>12
    <3>. QED
      BY <1>9, <3>1, PlaceFields DEF GoesTo
  <2>3. DOMAIN <<>> = {}
    OBVIOUS
  <2>4. Between(rest, mid, hi)
    BY <2>1, <2>2, <2>3 DEF Between
  <2>. QED
    BY <1>1, <1>4, <1>5, <1>7, <1>9, <2>4
<1>13. CASE n # 1
  <2>1. n - 1 \in 1..(n - 1) /\ (n - 1) + 1 = n
    BY <1>3, <1>13
  <2>2. rest[n - 1] = items[n] /\ rest[n - 1].number # {}
    <3>1. rest[n - 1] = items[(n - 1) + 1]
      BY <1>5, <2>1
    <3>. QED
      BY <1>10, <2>1, <3>1
  <2>3. GoesTo(rest[n - 1], mid, hi)
    BY <1>8, <2>2 DEF GoesTo
  <2>4. rest # <<>>
    <3>1. Len(<<>>) = 0
      OBVIOUS
    <3>. QED
      BY <1>3, <1>5, <1>13, <3>1
  <2>5. Between(rest, mid, hi)
    BY <1>5, <1>10, <1>11, <2>3, <2>4 DEF Between
  <2>. QED
    BY <1>1, <1>4, <1>5, <1>7, <1>9, <2>5
<1>. QED
  BY <1>12, <1>13

\* The item the stitcher takes for the first of the pending ones.
TakenItem(x) ==
  [number |-> x.number, starts |-> x.starts, continues |-> x.continues, alike |-> FALSE,
   labels |-> x.labels, flags |-> {},
   piece |-> [question |-> x.lines[1], begins |-> x.number # {}, grounded |-> TRUE,
              lines |-> x.lines]]

LEMMA TakenIs ==
  ASSUME NEW x \in ItemType, x.lines # <<>>
  PROVE  /\ TakenItem(x) \in Reported /\ TakenItem(x).number = x.number
         /\ TakenItem(x).starts = x.starts /\ TakenItem(x).labels = x.labels
         /\ TakenItem(x).alike = FALSE
         /\ TakenItem(x).piece.question = x.lines[1]
         /\ TakenItem(x).piece.begins <=> x.number # {}
<1>1. /\ x.number \in NumberType /\ x.starts \in BOOLEAN /\ x.continues \in BOOLEAN
      /\ x.labels \in Seq(Nat) /\ x.lines \in Seq(Nat)
  BY ItemFields
<1>2. PICK of \in Nat : of = x.lines[1]
  <2>1. x.lines[1] \in Nat
    BY <1>1
  <2>. QED
    BY <2>1
<1>3. PICK piece \in PieceType :
        /\ piece = [question |-> of, begins |-> x.number # {}, grounded |-> TRUE, lines |-> x.lines]
        /\ piece.question = of /\ piece.begins = (x.number # {})
  <2>1. (x.number # {}) \in BOOLEAN
    OBVIOUS
  <2>2. [question |-> of, begins |-> x.number # {}, grounded |-> TRUE, lines |-> x.lines]
          \in PieceType
    BY <1>1, <2>1 DEF PieceType
  <2>. QED
    BY <2>2
<1>4. TakenItem(x) = [number |-> x.number, starts |-> x.starts, continues |-> x.continues,
                      alike |-> FALSE, labels |-> x.labels, flags |-> {}, piece |-> piece]
  BY <1>2, <1>3 DEF TakenItem
<1>5. TakenItem(x) \in Reported
  <2>. HIDE DEF NumberType, PieceType
  <2>. QED
    BY <1>1, <1>4 DEF Reported
<1>6. /\ TakenItem(x).number = x.number /\ TakenItem(x).starts = x.starts
      /\ TakenItem(x).labels = x.labels /\ TakenItem(x).alike = FALSE
      /\ TakenItem(x).piece = piece
  BY <1>4
<1>7. TakenItem(x).piece.question = x.lines[1]
  BY <1>2, <1>3, <1>6
<1>8. TakenItem(x).piece.begins <=> x.number # {}
  BY <1>3, <1>6
<1>. QED
  BY <1>5, <1>6, <1>7, <1>8

LEMMA TakenFits ==
  ASSUME NEW x \in ItemType, NEW lo \in Place, NEW mid \in Place, PartOf(x, lo), GoesTo(x, lo, mid)
  PROVE  /\ Fits(TakenItem(x), lo, mid.of, mid.up)
         /\ x.starts => TakenItem(x).piece.question = lo.of
<1>1. PICK item \in Reported :
        /\ item = TakenItem(x) /\ item.number = x.number /\ item.starts = x.starts
        /\ item.labels = x.labels /\ item.piece.question = x.lines[1]
        /\ item.piece.begins <=> x.number # {}
  BY TakenIs DEF PartOf
<1>2. PICK ls \in Seq(Nat), m \in Nat, u \in Nat :
        ls = x.labels /\ m = Len(ls) /\ DOMAIN ls = 1..m /\ u = lo.up
  <2>1. PICK ls \in Seq(Nat) : ls = x.labels
    BY ItemFields
  <2>2. Len(ls) \in Nat /\ DOMAIN ls = 1..Len(ls)
    BY <2>1
  <2>. QED
    BY <2>1, <2>2, PlaceFields
<1>3. mid.of = x.lines[1] /\ mid.up = (IF x.number = {} THEN u ELSE 0) + m
  BY <1>2 DEF GoesTo
<1>4. x.starts => x.number = {}
  BY DEF PartOf
<1>5. ASSUME item.piece.begins
      PROVE  item.labels = UpToLabel(Len(item.labels)) /\ mid.up <= Len(item.labels)
  <2>1. x.number # {}
    BY <1>1, <1>5
  <2>2. x.labels = UpToLabel(Len(x.labels))
    BY <2>1 DEF PartOf
  <2>3. mid.up = m
    BY <1>2, <1>3, <2>1
  <2>. QED
    BY <1>1, <1>2, <2>2, <2>3
<1>6. ASSUME Continues(item)
      PROVE  /\ mid.up <= lo.up + Len(item.labels)
             /\ \A j \in DOMAIN item.labels : 1 <= item.labels[j] /\ item.labels[j] <= lo.up + j
  <2>1. x.number = {}
    BY <1>1, <1>4, <1>6 DEF Continues, Certain, Uncertain
  <2>2. \A j \in DOMAIN x.labels : x.labels[j] = lo.up + j
    BY <2>1 DEF PartOf
  <2>3. mid.up = u + m
    BY <1>3, <2>1
  <2>4. \A j \in 1..m : ls[j] = u + j
    BY <1>2, <2>2
  <2>5. \A j \in 1..m : 1 <= ls[j] /\ ls[j] <= u + j
    BY <1>2, <2>4
  <2>6. u + m <= u + m
    BY <1>2
  <2>. QED
    BY <1>1, <1>2, <2>3, <2>5, <2>6
<1>7. x.starts => x.lines[1] = lo.of
  BY <1>4 DEF PartOf
<1>. QED
  BY <1>1, <1>3, <1>5, <1>6, <1>7 DEF Fits

LEMMA ItemOfPageTaken ==
  ASSUME Stitched, NEW pos, NEW lo, LinesRead(pos, lo), TakePending
  PROVE  /\ Stitched'
         /\ \E mid : mid.of = Head(pending).lines[1] /\ LinesRead(pos, mid)'
<1>1. PICK x : x = Head(pending)
  OBVIOUS
<1>2. /\ pending # <<>> /\ TakeItem(TakenItem(x)) /\ seen' = Append(seen, x.lines[1])
      /\ pending' = Tail(pending) /\ page' = page /\ lines' = lines /\ at' = at
  BY <1>1 DEF TakePending, TakenItem
<1>4. /\ lines \in Seq(PrintedLine) /\ lines # <<>> /\ Run(lines, pos)
      /\ at \in 0..Len(lines) /\ pending \in Seq(ItemType)
      /\ lo \in Place /\ Reach(lo.of, lo.up) /\ Between(pending, lo, pos[at])
  BY DEF LinesRead
<1>5. pos[at] \in Place
  BY <1>4 DEF Run
<1>6. x \in ItemType /\ PartOf(x, lo) /\ Tail(pending) \in Seq(ItemType)
  BY <1>1, <1>2, <1>4, <1>5, PendingTaken
<1>7. PICK mid \in Place : GoesTo(x, lo, mid) /\ Between(Tail(pending), mid, pos[at])
  BY <1>1, <1>2, <1>4, <1>5, PendingTaken
<1>8. PICK item \in Reported :
        /\ item = TakenItem(x) /\ item.starts = x.starts /\ item.piece.question = x.lines[1]
  BY <1>6, TakenIs DEF PartOf
<1>9. Fits(item, lo, mid.of, mid.up) /\ (item.starts => item.piece.question = lo.of)
  BY <1>4, <1>6, <1>7, <1>8, TakenFits
<1>10. Loop /\ TakeItem(item) /\ mid.of \in Nat /\ mid.up \in Nat
  BY <1>2, <1>8, PlaceFields DEF Stitched
<1>11. Reach(mid.of, mid.up)' /\ LabelsInOrder'
  BY <1>4, <1>9, <1>10, TakeFits DEF Stitched
<1>12. Loop' /\ NothingLost'
  BY <1>2, <1>8, <1>10, ItemTaken, TakeLosesNothing DEF Stitched
<1>13. MaxSpurious <= 1 => CertainStitchIsTrue'
  <2>1. SUFFICES ASSUME MaxSpurious <= 1
                 PROVE  CertainStitchIsTrue'
    OBVIOUS
  <2>2. CertainStitchIsTrue
    BY <2>1 DEF Stitched
  <2>3. Continues(item) /\ Certain(current[1], item) => item.piece.question = lo.of
    BY <1>9 DEF Certain
  <2>. QED
    BY <1>4, <1>10, <2>2, <2>3, TakeCertain
<1>14. Stitched'
  BY <1>2, <1>11, <1>12, <1>13 DEF Stitched
<1>15. LinesRead(pos, mid)'
  BY <1>2, <1>4, <1>6, <1>7, <1>11 DEF LinesRead, Reach
<1>16. mid.of = Head(pending).lines[1]
  BY <1>1, <1>7 DEF GoesTo
<1>. QED
  BY <1>14, <1>15, <1>16

LEMMA TakePendingInv ==
  ASSUME Stitched, Reads, TakePending
  PROVE  Stitched' /\ Reads'
<1>1. PICK pos, lo : LinesRead(pos, lo)
  BY DEF Reads, FragmentsRead, TakePending
<1>2. PICK mid : Stitched' /\ LinesRead(pos, mid)'
  BY <1>1, ItemOfPageTaken
<1>. QED
  BY <1>2 DEF Reads

LEMMA NextPageInv ==
  ASSUME Stitched, Reads, NextPage
  PROVE  Stitched' /\ Reads'
<1>1. PICK heading \in SectionName : TurnPage(heading)
  BY DEF NextPage, SectionName
<1>2. /\ page' = page + 1 /\ lines = <<>> /\ lines' = lines /\ pending' = pending
      /\ question' = question /\ cut' = cut /\ printed' = printed /\ spurious' = spurious
      /\ seen' = seen
  BY DEF NextPage
<1>3. Loop' /\ All' = All /\ current' = current
  BY <1>1, PageTurned DEF Stitched
<1>4. page' \in Nat
  <2>1. page \in Nat
    BY DEF Stitched
  <2>. QED
    BY <1>2, <2>1
<1>5. Stitched'
  BY <1>2, <1>3, <1>4 DEF Stitched, NothingLost, LabelsInOrder, CertainStitchIsTrue
<1>6. FragmentsRead
  BY <1>2 DEF Reads, LinesRead
<1>7. FragmentsRead'
  BY <1>2, <1>3, <1>6 DEF FragmentsRead, Reach
<1>. QED
  BY <1>5, <1>7 DEF Reads

\* The end of the document closes the open question and audits all.
LEMMA EndsInv ==
  ASSUME Stitched, Reads, Finish, UNCHANGED paper
  PROVE  Stitched' /\ Reads'
<1>1. /\ question' = question /\ cut' = cut /\ printed' = printed /\ page' = page
      /\ spurious' = spurious /\ seen' = seen /\ lines' = lines /\ at' = at /\ pending' = pending
  BY DEF paper
<1>2. /\ Loop' /\ current' = <<>> /\ DOMAIN All' = DOMAIN All
      /\ \A k \in DOMAIN All : Like(All'[k], All[k])
  BY DocumentEnds DEF Stitched
<1>3. NothingLost'
  <2>1. PiecesOf(All') = PiecesOf(All)
    BY <1>2, PiecesOfLike
  <2>2. [k \in DOMAIN PiecesOf(All) |-> PiecesOf(All)[k].question] = seen
    BY NothingLostIs DEF Stitched
  <2>. QED
    BY <1>1, <2>1, <2>2 DEF NothingLost, PiecesOf
<1>4. LabelsInOrder'
  <2>1. \A k \in DOMAIN All : InOrder(All[k])
    BY LabelsAre DEF Stitched
  <2>2. \A k \in DOMAIN All' : InOrder(All'[k])
    BY <1>2, <2>1 DEF InOrder, Like
  <2>. QED
    BY <2>2 DEF LabelsInOrder, InOrder
<1>5. MaxSpurious <= 1 => CertainStitchIsTrue'
  <2>1. SUFFICES ASSUME MaxSpurious <= 1
                 PROVE  CertainStitchIsTrue'
    OBVIOUS
  <2>2. \A k \in DOMAIN All : OnePrinted(All[k])
    BY <2>1, CertainIs DEF Stitched
  <2>3. \A k \in DOMAIN All' : OnePrinted(All'[k])
    BY <1>2, <2>2 DEF OnePrinted, Like
  <2>. QED
    BY <2>3 DEF CertainStitchIsTrue, OnePrinted, Uncertainly
<1>6. Stitched'
  BY <1>1, <1>2, <1>3, <1>4, <1>5 DEF Stitched
<1>7. CASE FragmentsRead
  <2>1. FragmentsRead'
    BY <1>1, <1>2, <1>7 DEF FragmentsRead, Reach
  <2>. QED
    BY <1>6, <2>1 DEF Reads
<1>8. ASSUME NEW pos, NEW lo, LinesRead(pos, lo)
      PROVE  Reads'
  <2>1. LinesRead(pos, lo)'
    BY <1>1, <1>2, <1>8 DEF LinesRead, Reach
  <2>. QED
    BY <2>1 DEF Reads
<1>. QED
  BY <1>6, <1>7, <1>8 DEF Reads

LEMMA StutterInv ==
  ASSUME Stitched, Reads, UNCHANGED vars
  PROVE  Stitched' /\ Reads'
<1>1. /\ section' = section /\ first' = first /\ current' = current /\ stitched' = stitched
      /\ over' = over
  BY DEF vars, stitching
<1>2. /\ question' = question /\ cut' = cut /\ printed' = printed /\ page' = page
      /\ spurious' = spurious /\ seen' = seen /\ lines' = lines /\ at' = at /\ pending' = pending
  BY DEF vars, paper
<1>3. All' = All /\ Loop'
  BY <1>1 DEF All, Loop, Stitched
<1>4. Stitched'
  BY <1>2, <1>3 DEF Stitched, NothingLost, LabelsInOrder, CertainStitchIsTrue
<1>5. CASE FragmentsRead
  <2>1. FragmentsRead'
    BY <1>1, <1>2, <1>5 DEF FragmentsRead, Reach
  <2>. QED
    BY <1>4, <2>1 DEF Reads
<1>6. ASSUME NEW pos, NEW lo, LinesRead(pos, lo)
      PROVE  Reads'
  <2>1. LinesRead(pos, lo)'
    BY <1>1, <1>2, <1>6 DEF LinesRead, Reach
  <2>. QED
    BY <2>1 DEF Reads
<1>. QED
  BY <1>4, <1>5, <1>6 DEF Reads

\* The induction: every fragment and every line of the paper is accounted for.
THEOREM ReadsAreStitched == Spec => [](Stitched /\ Reads)
<1>1. Init => Stitched /\ Reads
  BY InitInv
<1>2. Stitched /\ Reads /\ [Next]_vars => (Stitched /\ Reads)'
  <2>1. SUFFICES ASSUME Stitched, Reads, [Next]_vars
                 PROVE  Stitched' /\ Reads'
    OBVIOUS
  <2>2. CASE Fragment
    BY <2>1, <2>2, FragmentInv
  <2>3. CASE NextPage
    BY <2>1, <2>3, NextPageInv
  <2>4. CASE End
    BY <2>1, <2>4, EndsInv DEF End
  <2>5. CASE ReadPage
    BY <2>1, <2>5, ReadPageInv
  <2>6. CASE TakePending
    BY <2>1, <2>6, TakePendingInv
  <2>7. CASE EndOfLines
    BY <2>1, <2>7, EndsInv DEF EndOfLines
  <2>8. CASE UNCHANGED vars
    BY <2>1, <2>8, StutterInv
  <2>. QED
    BY <2>1, <2>2, <2>3, <2>4, <2>5, <2>6, <2>7, <2>8 DEF Next
<1>. QED
  BY <1>1, <1>2, PTL DEF Spec

-----------------------------------------------------------------------------
(* The properties of the runs *)

\* In whatever pieces the document arrives, the questions hold its fragments, all
\* of them and in the order of the pages (NothingLost of MCStitcher).
THEOREM FragmentsAreKept == Spec => []NothingLost
<1>1. Stitched => NothingLost
  BY DEF Stitched
<1>. QED
  BY <1>1, ReadsAreStitched, PTL

\* However the later fragments of a question label their options, and wherever
\* the pages of a paper of lines end, a question that has its beginning has the
\* labels A, B, C, ... (LabelsInOrder).
THEOREM LabelsStayInOrder == Spec => []LabelsInOrder
<1>1. Stitched => LabelsInOrder
  BY DEF Stitched
<1>. QED
  BY <1>1, ReadsAreStitched, PTL

\* With at most one untrue flag in the document, fragments that were joined with
\* certainty are of one printed question (CertainStitchIsTrue).
THEOREM CertainStitchesAreTrue ==
  ASSUME MaxSpurious <= 1
  PROVE  Spec => []CertainStitchIsTrue
<1>1. Stitched => CertainStitchIsTrue
  BY DEF Stitched
<1>. QED
  BY <1>1, ReadsAreStitched, PTL

LEMMA AtMostOneNumber ==
  ASSUME NEW number \in NumberType
  PROVE  number \subseteq 1..Top /\ Cardinality(number) <= 1
<1>1. number = {} \/ \E n \in 1..Top : number = {n}
  BY DEF NumberType
<1>2. CASE number = {}
  BY <1>2, FS_EmptySet
<1>3. ASSUME NEW n \in 1..Top, number = {n}
      PROVE  number \subseteq 1..Top /\ Cardinality(number) <= 1
  <2>1. Cardinality(number) = 1
    BY <1>3, FS_Singleton
  <2>. QED
    BY <1>3, <2>1
<1>. QED
  BY <1>1, <1>2, <1>3

\* A question has at most one number, never one that the paper cannot have, and
\* at least one fragment, and no closed question has the temporary marker, through
\* every join and after the audit (TypeOK).
THEOREM TypesAreKept == Spec => []TypeOK
<1>1. ASSUME Loop
      PROVE  TypeOK
  <2>1. ASSUME NEW k \in DOMAIN All
        PROVE  /\ All[k].flags \subseteq Flags
               /\ All[k].number \subseteq 1..Max({QuestionCount, FullOptions})
               /\ Cardinality(All[k].number) <= 1
               /\ All[k].pieces # <<>>
    <3>1. PICK S : S = QuestionType
      OBVIOUS
    <3>2. All \in Seq(S)
      BY <1>1, <3>1, ClosedIs
    <3>3. PICK q \in QuestionType : q = All[k]
      <4>1. All[k] \in S
        BY <2>1, <3>2
      <4>. QED
        BY <3>1, <4>1
    <3>4. q.number \in NumberType /\ q.flags \in SUBSET Flags /\ q.pieces # <<>>
      BY QuestionFields DEF Pieces
    <3>5. q.number \subseteq 1..Top /\ Cardinality(q.number) <= 1
      BY <3>4, AtMostOneNumber
    <3>6. q.flags \subseteq Flags
      <4>. HIDE DEF Flags
      <4>. QED
        BY <3>4
    <3>. QED
      BY <3>3, <3>4, <3>5, <3>6, TopIs
  <2>2. section \in {"", "Section A"} /\ first \in BOOLEAN /\ over \in BOOLEAN
    BY <1>1 DEF Loop, SectionName
  <2>3. Len(current) <= 1 /\ \A k \in DOMAIN stitched : Marker \notin stitched[k].flags
    BY <1>1 DEF Loop
  <2>. QED
    BY <2>1, <2>2, <2>3 DEF TypeOK
<1>2. Stitched => TypeOK
  BY <1>1 DEF Stitched
<1>. QED
  BY <1>2, ReadsAreStitched, PTL

-----------------------------------------------------------------------------
(* The confidence of a question *)

LEMMA ClampedIs ==
  ASSUME NEW n \in Int
  PROVE  Clamped(n) = IF n < 0 THEN 0 ELSE IF n > 1000 THEN 1000 ELSE n
<1>1. \E x \in {1000, n} : \A y \in {1000, n} : x <= y
  OBVIOUS
<1>2. PICK m : m = Min({1000, n})
  OBVIOUS
<1>3. m \in {1000, n} /\ \A y \in {1000, n} : m <= y
  BY <1>1, <1>2 DEF Min
<1>4. m \in Int /\ m = IF n > 1000 THEN 1000 ELSE n
  BY <1>3
<1>5. Clamped(n) = IF 0 >= m THEN 0 ELSE m
  BY <1>2, <1>4, MaxOfTwo DEF Clamped
<1>. QED
  BY <1>4, <1>5

LEMMA LessIs ==
  ASSUME NEW points \in Nat, NEW b \in BOOLEAN
  PROVE  Less(b, points) \in 0..points /\ Less(TRUE, points) = points /\ Less(FALSE, points) = 0
BY DEF Less

Thousandths == 0..1000

LEMMA CompletenessIs ==
  ASSUME NEW hasText \in BOOLEAN, NEW mcq \in BOOLEAN, NEW labels, NEW number, NEW flags
  PROVE  Completeness(hasText, mcq, labels, number, flags) \in Thousandths
<1>1. PICK a \in 0..400 : a = Less(~hasText, 400)
  BY DEF Less
<1>2. PICK b \in 0..400 : b = Less(TooFew(mcq, labels), 400)
  BY DEF Less
<1>3. PICK c \in 0..200 : c = IF Twice(labels) THEN 200 ELSE Less(Unordered(labels), 100)
  BY DEF Less
<1>4. PICK d \in 0..200 : d = Less(number = {} /\ "MISSING_NUMBER" \in flags, 200)
  BY DEF Less
<1>5. PICK n \in Int : n = 1000 - a - b - c - d
  OBVIOUS
<1>6. Completeness(hasText, mcq, labels, number, flags) = Clamped(n)
  BY <1>1, <1>2, <1>3, <1>4, <1>5 DEF Completeness
<1>. QED
  BY <1>6, ClampedIs DEF Thousandths

LEMMA ConsistencyIs ==
  ASSUME NEW flags
  PROVE  Consistency(flags) \in Thousandths
<1>1. PICK a \in 0..300 : a = Less("NUMBER_GAP" \in flags, 300)
  BY DEF Less
<1>2. PICK b \in 0..500 : b = Less("DUPLICATE_NUMBER" \in flags, 500)
  BY DEF Less
<1>3. Consistency(flags) = Clamped(1000 - a - b)
  BY <1>1, <1>2 DEF Consistency
<1>. QED
  BY SMTT(30), <1>3, ClampedIs DEF Thousandths

\* The weighed scores, without the penalty.
Weighed(quality, completeness, self, consistency) ==
  (300 * quality + 250 * DefaultGrounding + 250 * completeness
   + 100 * self + 100 * consistency + 500) \div 1000

LEMMA WeighedIs ==
  ASSUME NEW quality \in Thousandths, NEW completeness \in Thousandths, NEW self \in Thousandths,
         NEW consistency \in Thousandths
  PROVE  \E w \in Int : /\ w = Weighed(quality, completeness, self, consistency)
                        /\ w <= 975
<1>1. /\ quality \in Int /\ completeness \in Int /\ self \in Int /\ consistency \in Int
      /\ quality <= 1000 /\ completeness <= 1000 /\ self <= 1000 /\ consistency <= 1000
  BY DEF Thousandths
<1>2. PICK n \in Int :
        n = 300 * quality + 250 * 900 + 250 * completeness + 100 * self + 100 * consistency + 500
  BY SMT, <1>1
<1>3. n <= 975500
  BY SMT, <1>1, <1>2
<1>4. n \div 1000 \in Int /\ n \div 1000 <= 975
  BY SMT, <1>3
<1>5. Weighed(quality, completeness, self, consistency) = n \div 1000
  BY SMT, <1>2 DEF Weighed, DefaultGrounding
<1>. QED
  BY <1>4, <1>5

LEMMA FullyWeighed == Weighed(1000, 1000, 1000, 1000) = 975
BY SMT DEF Weighed, DefaultGrounding

\* A stitch marked uncertain keeps a question from being extracted, whatever the
\* quality of the page and whatever the model says of itself.
LEMMA UncertainIsNotExtracted ==
  ASSUME NEW hasText \in BOOLEAN, NEW mcq \in BOOLEAN, NEW labels, NEW number, NEW flags,
         NEW quality \in Thousandths, NEW self \in Thousandths, Uncertainly \in flags
  PROVE  Evaluated(hasText, mcq, labels, number, flags, quality, self).status # "extracted"
<1>1. PICK all : all = flags \cup Detected(hasText, mcq, labels)
  OBVIOUS
<1>2. "STITCH_UNCERTAIN" \in all
  BY <1>1 DEF Uncertainly
<1>3. PICK p \in Int : p = Penalty(all) /\ p >= 150
  <2>1. PICK a \in 0..50 : a = Less("CROSS_PAGE_STITCHED" \in all, 50)
    BY DEF Less
  <2>2. Less("STITCH_UNCERTAIN" \in all, 150) = 150
    BY <1>2 DEF Less
  <2>3. PICK b \in 0..100 : b = Less("LLM_FALLBACK_USED" \in all, 100)
    BY DEF Less
  <2>4. PICK c \in 0..50 : c = Less("FIGURE_UNVERIFIED" \in all, 50)
    BY DEF Less
  <2>5. PICK d \in 0..50 : d = Less("TABLE_UNVERIFIED" \in all, 50)
    BY DEF Less
  <2>6. Penalty(all) = a + 150 + b + c + d
    BY <2>1, <2>2, <2>3, <2>4, <2>5 DEF Penalty, StitchPenalty
  <2>7. a + 150 + b + c + d >= 150 /\ a + 150 + b + c + d \in Int
    OBVIOUS
  <2>. QED
    BY <2>6, <2>7
<1>4. PICK c \in Thousandths : c = Completeness(hasText, mcq, labels, number, flags)
  BY CompletenessIs
<1>5. PICK w \in Int : w = Weighed(quality, c, self, Consistency(all)) /\ w <= 975
  <2>1. PICK d \in Thousandths : d = Consistency(all)
    BY ConsistencyIs
  <2>2. \E w \in Int : w = Weighed(quality, c, self, d) /\ w <= 975
    BY WeighedIs
  <2>. QED
    BY <2>1, <2>2
<1>6. PICK score : score = Score(quality, c, self, all)
  OBVIOUS
<1>7. score = Clamped(w - p)
  BY <1>3, <1>5, <1>6 DEF Score, Weighed
<1>8. score \in 0..825
  <2>1. w - p \in Int /\ w - p <= 825
    BY <1>3, <1>5
  <2>. QED
    BY <1>7, <2>1, ClampedIs
<1>9. QuestionStatus(score, all) # "extracted"
  BY <1>8 DEF QuestionStatus, ExtractedMin, PartialMin
<1>. QED
  BY <1>1, <1>4, <1>6, <1>9 DEF Evaluated

\* With at most one untrue flag in the document, a question into which fragments
\* of two printed ones were joined is not reported as extracted: its stitch is
\* uncertain, and that alone costs more than the threshold leaves
\* (MixedIsNotExtracted).
THEOREM MixedAreNotExtracted ==
  ASSUME MaxSpurious <= 1
  PROVE  Spec => []MixedIsNotExtracted
<1>1. ASSUME Stitched, NEW k \in DOMAIN stitched, MixedUp(stitched[k]), NEW mcq \in BOOLEAN,
             NEW quality \in Scores, NEW self \in Scores
      PROVE  Rated(stitched[k], TRUE, mcq, quality, self).status # "extracted"
  <2>1. k \in DOMAIN All /\ All[k] = stitched[k]
    <3>1. PICK S : S = QuestionType
      OBVIOUS
    <3>2. stitched \in Seq(S) /\ current \in Seq(S)
      BY <1>1, <3>1 DEF Stitched, Loop
    <3>. QED
      BY <1>1, <3>2 DEF All
  <2>2. OnePrinted(stitched[k])
    BY <1>1, <2>1, CertainIs DEF Stitched
  <2>3. Uncertainly \in stitched[k].flags
    BY <1>1, <2>2 DEF OnePrinted, MixedUp
  <2>4. quality \in Thousandths /\ self \in Thousandths
    BY <1>1 DEF Scores, Thousandths
  <2>5. TRUE \in BOOLEAN
    OBVIOUS
  <2>. QED
    BY Zenon, <1>1, <2>3, <2>4, <2>5, UncertainIsNotExtracted DEF Rated
<1>2. Stitched => MixedIsNotExtracted
  BY <1>1 DEF MixedIsNotExtracted
<1>. QED
  BY <1>2, ReadsAreStitched, PTL

LEMMA EvaluatedIs ==
  ASSUME NEW hasText \in BOOLEAN, NEW mcq \in BOOLEAN, NEW labels, NEW number, NEW flags,
         NEW quality, NEW self
  PROVE  Evaluated(hasText, mcq, labels, number, flags, quality, self).status
           = QuestionStatus(Score(quality, Completeness(hasText, mcq, labels, number, flags), self,
                                  flags \cup Detected(hasText, mcq, labels)),
                            flags \cup Detected(hasText, mcq, labels))
BY DEF Evaluated

Perfect(score) == score = 1000

LEMMA CertainIsExtracted ==
  ASSUME NEW m \in Nat, m >= 2, NEW number, number # {},
         NEW flags, flags \subseteq {"CROSS_PAGE_STITCHED"}, NEW best, Perfect(best)
  PROVE  Evaluated(TRUE, TRUE, UpToLabel(m), number, flags, best, best).status = "extracted"
<1>1. PICK labels : labels = UpToLabel(m)
  OBVIOUS
<1>2. labels = [j \in 1..m |-> j] /\ Len(labels) = m /\ DOMAIN labels = 1..m
  BY <1>1 DEF UpToLabel
<1>3. ~TooFew(TRUE, labels)
  <2>1. ~(Len(labels) < 2)
    BY <1>2
  <2>. QED
    BY <2>1 DEF TooFew
<1>4. ~Unordered(labels)
  BY <1>2 DEF Unordered
<1>5. ~Twice(labels)
  <2>1. ToSet(labels) = 1..m
    BY <1>2 DEF ToSet
  <2>2. Cardinality(1..m) = m
    BY FS_Interval
  <2>. QED
    BY <1>2, <2>1, <2>2 DEF Twice
<1>6. Detected(TRUE, TRUE, labels) = {}
  BY <1>3, <1>4, <1>5 DEF Detected
<1>7. Completeness(TRUE, TRUE, labels, number, flags) = best
  <2>1. Completeness(TRUE, TRUE, labels, number, flags) = Clamped(1000 - 0 - 0 - 0 - 0)
    BY <1>3, <1>4, <1>5 DEF Completeness, Less
  <2>2. Clamped(1000 - 0 - 0 - 0 - 0) = best
    BY ClampedIs DEF Perfect
  <2>. QED
    BY Zenon, <2>1, <2>2
<1>8. Consistency(flags) = 1000
  <2>1. Consistency(flags) = Clamped(1000 - 0 - 0)
    BY DEF Consistency, Less
  <2>. QED
    BY <2>1, ClampedIs
<1>9. PICK p \in 0..50 : p = Penalty(flags)
  <2>1. PICK a \in 0..50 : a = Less("CROSS_PAGE_STITCHED" \in flags, 50)
    BY DEF Less
  <2>2. Penalty(flags) = a + 0 + 0 + 0 + 0
    BY <2>1 DEF Penalty, StitchPenalty, Less
  <2>. QED
    BY <2>2
<1>10. PICK score : score = Score(best, best, best, flags)
  OBVIOUS
<1>11. score = Clamped(975 - p)
  <2>1. Weighed(1000, 1000, 1000, 1000) = 975
    BY FullyWeighed
  <2>. QED
    BY <1>8, <1>9, <1>10, <2>1 DEF Score, Weighed, Perfect
<1>12. score \in 925..975
  BY <1>11, ClampedIs
<1>13. flags \cap Critical = {}
  BY DEF Critical
<1>14. QuestionStatus(score, flags) = "extracted"
  BY <1>12, <1>13 DEF QuestionStatus, ExtractedMin, PartialMin
<1>15. flags = flags \cup Detected(TRUE, TRUE, labels)
  <2>1. flags \cup {} = flags
    OBVIOUS
  <2>. QED
    BY Zenon, <1>6, <2>1
<1>16. TRUE \in BOOLEAN
  OBVIOUS
<1>17. QuestionStatus(Score(best, best, best, flags), flags) = "extracted"
  BY <1>10, <1>14
<1>18. Evaluated(TRUE, TRUE, labels, number, flags, best, best).status
         = QuestionStatus(Score(best, Completeness(TRUE, TRUE, labels, number, flags), best,
                                flags \cup Detected(TRUE, TRUE, labels)),
                          flags \cup Detected(TRUE, TRUE, labels))
  BY DEF Evaluated
<1>. QED
  BY Zenon, <1>1, <1>7, <1>15, <1>17, <1>18

Extracted(q) == Rated(q, TRUE, TRUE, 1000, 1000).status = "extracted"

Whole(q) == /\ q.pieces[1].begins /\ q.number # {} /\ q.flags \subseteq {"CROSS_PAGE_STITCHED"}
            /\ Len(q.labels) >= 2

LEMMA WholeIs ==
  WholeIsExtracted <=>
    (over => \A k \in DOMAIN stitched : Whole(stitched[k]) => Extracted(stitched[k]))
<1>1. WholeIsExtracted <=>
        (over => \A k \in DOMAIN stitched :
          /\ stitched[k].pieces[1].begins /\ stitched[k].number # {}
          /\ stitched[k].flags \subseteq {"CROSS_PAGE_STITCHED"}
          /\ Len(stitched[k].labels) >= 2
          => Extracted(stitched[k]))
  BY DEF WholeIsExtracted, Extracted
<1>. QED
  BY Zenon, <1>1 DEF Whole

\* A question that has its beginning, its number and two options or more, and no
\* flag but that of a certain stitch, is extracted: its labels are in order, and
\* the penalty for the stitch is less than the threshold leaves (WholeIsExtracted).
THEOREM WholeAreExtracted == Spec => []WholeIsExtracted
<1>1. ASSUME Stitched, NEW k \in DOMAIN stitched, Whole(stitched[k])
      PROVE  Extracted(stitched[k])
  <2>1. PICK S : S = QuestionType
    OBVIOUS
  <2>2. stitched \in Seq(S) /\ current \in Seq(S)
    BY <1>1, <2>1 DEF Stitched, Loop
  <2>3. k \in DOMAIN All /\ All[k] = stitched[k] /\ stitched[k] \in S
    BY <1>1, <2>2 DEF All
  <2>4. PICK q \in QuestionType : q = stitched[k]
    BY <2>1, <2>3
  <2>5. PICK labels \in Seq(Nat), m \in Nat :
          labels = q.labels /\ m = Len(labels) /\ DOMAIN labels = 1..m
    <3>1. PICK labels \in Seq(Nat) : labels = q.labels
      BY QuestionFields
    <3>2. Len(labels) \in Nat /\ DOMAIN labels = 1..Len(labels)
      BY <3>1
    <3>. QED
      BY <3>1, <3>2
  <2>6. labels = UpToLabel(m)
    <3>1. InOrder(q)
      BY <1>1, <2>3, <2>4, LabelsAre DEF Stitched
    <3>. QED
      BY <1>1, <2>4, <2>5, <3>1 DEF InOrder, UpToLabel, Whole
  <2>7. m >= 2 /\ q.number # {} /\ q.flags \subseteq {"CROSS_PAGE_STITCHED"}
    BY <1>1, <2>4, <2>5 DEF Whole
  <2>8. PICK best : Perfect(best)
    BY DEF Perfect
  <2>9. Evaluated(TRUE, TRUE, UpToLabel(m), q.number, q.flags, best, best).status = "extracted"
    BY Zenon, <2>7, <2>8, CertainIsExtracted
  <2>10. Rated(stitched[k], TRUE, TRUE, best, best).status = "extracted"
    BY Zenon, <2>4, <2>5, <2>6, <2>9 DEF Rated
  <2>. QED
    BY ZenonT(30), <2>8, <2>10 DEF Extracted, Perfect
<1>2. Stitched => WholeIsExtracted
  BY Zenon, <1>1, WholeIs
<1>. QED
  BY <1>2, ReadsAreStitched, PTL

-----------------------------------------------------------------------------
(* The numbers of a paper in which no option looks like the number of one *)

\* The questions that the lines begin are counted on from the question "of".
LinesCount(ls, of) ==
  \A k \in DOMAIN ls :
    ls[k].number # {} => /\ ls[k].number = {ls[k].of}
                         /\ ls[k].of = (IF k = 1 THEN of ELSE ls[k - 1].of) + 1

\* And so are those of the items of a page.
ItemsCount(items, of) ==
  \A k \in DOMAIN items :
    items[k].number # {} =>
      /\ items[k].number = {items[k].lines[1]}
      /\ items[k].lines[1] = (IF k = 1 THEN of ELSE items[k - 1].lines[1]) + 1

LEMMA SameCount ==
  ASSUME NEW s \in Seq(ItemType), NEW t \in Seq(ItemType), NEW of, Len(s) = Len(t),
         \A k \in 1..Len(s) : s[k].number = t[k].number /\ s[k].lines[1] = t[k].lines[1],
         ItemsCount(s, of)
  PROVE  ItemsCount(t, of)
<1>1. PICK n \in Nat : n = Len(s) /\ n = Len(t) /\ DOMAIN s = 1..n /\ DOMAIN t = 1..n
  OBVIOUS
<1>2. SUFFICES ASSUME NEW k \in 1..n, t[k].number # {}
               PROVE  /\ t[k].number = {t[k].lines[1]}
                      /\ t[k].lines[1] = (IF k = 1 THEN of ELSE t[k - 1].lines[1]) + 1
  BY <1>1 DEF ItemsCount
<1>3. s[k].number = t[k].number /\ s[k].lines[1] = t[k].lines[1]
  BY <1>1
<1>4. /\ s[k].number = {s[k].lines[1]}
      /\ s[k].lines[1] = (IF k = 1 THEN of ELSE s[k - 1].lines[1]) + 1
  BY <1>1, <1>2, <1>3 DEF ItemsCount
<1>5. k # 1 => s[k - 1].lines[1] = t[k - 1].lines[1]
  <2>1. k # 1 => k - 1 \in 1..n
    OBVIOUS
  <2>. QED
    BY <1>1, <2>1
<1>. QED
  BY <1>3, <1>4, <1>5

LEMMA CountOneMore ==
  ASSUME NEW items \in Seq(ItemType), NEW x \in ItemType, NEW of, ItemsCount(items, of), NEW last,
         last = (IF items = <<>> THEN of ELSE items[Len(items)].lines[1]),
         x.number # {} => x.number = {x.lines[1]} /\ x.lines[1] = last + 1
  PROVE  items \o <<x>> \in Seq(ItemType) /\ ItemsCount(items \o <<x>>, of)
<1>1. PICK S : S = ItemType
  OBVIOUS
<1>2. items \in Seq(S) /\ x \in S
  BY <1>1
<1>3. PICK n \in Nat : n = Len(items) /\ DOMAIN items = 1..n /\ (n = 0 <=> items = <<>>)
  <2>1. Len(items) \in Nat /\ DOMAIN items = 1..Len(items) /\ (Len(items) = 0 <=> items = <<>>)
    BY <1>2, NothingLong
  <2>. QED
    BY <2>1
<1>4. PICK more : more = items \o <<x>>
  OBVIOUS
<1>5. /\ more \in Seq(S) /\ DOMAIN more = 1..(n + 1) /\ more[n + 1] = x
      /\ \A k \in 1..n : more[k] = items[k]
  BY <1>2, <1>3, <1>4
<1>6. ASSUME NEW k \in 1..(n + 1), more[k].number # {}
      PROVE  /\ more[k].number = {more[k].lines[1]}
             /\ more[k].lines[1] = (IF k = 1 THEN of ELSE more[k - 1].lines[1]) + 1
  <2>1. CASE k = n + 1
    <3>1. CASE n = 0
      BY <1>3, <1>5, <1>6, <2>1, <3>1
    <3>2. CASE n # 0
      <4>1. n \in 1..n /\ k - 1 = n /\ k # 1
        BY <2>1, <3>2
      <4>2. more[k - 1] = items[n] /\ last = items[n].lines[1]
        BY <1>3, <1>5, <3>2, <4>1
      <4>. QED
        BY <1>5, <1>6, <2>1, <4>1, <4>2
    <3>. QED
      BY <3>1, <3>2
  <2>2. CASE k # n + 1
    <3>1. k \in 1..n /\ (k # 1 => k - 1 \in 1..n)
      BY <2>2
    <3>. QED
      BY <1>3, <1>5, <1>6, <3>1 DEF ItemsCount
  <2>. QED
    BY <2>1, <2>2
<1>7. ItemsCount(more, of)
  BY <1>5, <1>6 DEF ItemsCount
<1>. QED
  BY <1>1, <1>4, <1>5, <1>7

LEMMA OpenItem ==
  ASSUME NEW acc \in Reading, NEW lo, NEW hi, ReadTo(acc, lo, hi), acc.open # <<>>
  PROVE  \E x \in ItemType : /\ acc.open = <<x>> /\ PartOf(x, lo) /\ GoesTo(x, lo, hi)
                             /\ x.number = {} => acc.items = <<>>
<1>1. PICK S : S = ItemType
  OBVIOUS
<1>2. acc.open \in Seq(S) /\ Len(acc.open) <= 1
  <2>1. acc.open \in Seq(S)
    BY <1>1, ReadingFields
  <2>2. Len(acc.open) = 1
    BY DEF ReadTo
  <2>. QED
    BY <2>1, <2>2
<1>3. acc.open[1] \in S /\ acc.open = <<acc.open[1]>>
  BY <1>2, OneOrNone
<1>. QED
  BY <1>1, <1>3 DEF ReadTo

\* The numbers of what has been read, the open item included.
ReadCounts(acc, of) == ItemsCount(acc.items \o acc.open, of)

LEMMA FinishedCounts ==
  ASSUME NEW acc \in Reading, NEW lo \in Place, NEW hi \in Place, ReadTo(acc, lo, hi),
         ReadCounts(acc, lo.of)
  PROVE  ItemsCount(Finished(acc), lo.of)
<1>1. DOMAIN <<>> = {} /\ acc.items \in Seq(ItemType)
  BY ReadingFields
<1>2. CASE acc.open # <<>> /\ HasContent(acc.open[1])
  BY <1>2 DEF Finished, ReadCounts
<1>3. CASE ~(acc.open # <<>> /\ HasContent(acc.open[1]))
  <2>1. Finished(acc) = acc.items
    BY <1>3 DEF Finished
  <2>2. acc.items = <<>>
    <3>1. CASE acc.open = <<>>
      BY <3>1 DEF ReadTo
    <3>2. CASE acc.open # <<>>
      <4>1. acc.open[1].number = {}
        BY <1>3, <3>2 DEF HasContent
      <4>. QED
        BY <3>2, <4>1 DEF ReadTo
    <3>. QED
      BY <3>1, <3>2
  <2>. QED
    BY <1>1, <2>1, <2>2 DEF ItemsCount
<1>. QED
  BY <1>2, <1>3

LEMMA ContinueCounts ==
  ASSUME NEW acc \in Reading, NEW line \in PrintedLine, NEW lo \in Place, NEW p \in Place,
         ReadTo(acc, lo, p), acc.open # <<>>, ReadCounts(acc, lo.of)
  PROVE  ReadCounts(Continue(acc, line), lo.of)
<1>1. PICK S : S = ItemType
  OBVIOUS
<1>2. PICK x \in ItemType : acc.open = <<x>> /\ PartOf(x, lo)
  BY OpenItem
<1>3. PICK y \in ItemType : /\ y = Extended(x, line) /\ y.number = x.number
                            /\ y.lines = Append(x.lines, line.of)
  BY ExtendedIs
<1>4. x.lines[1] = y.lines[1]
  <2>1. PICK ls \in Seq(Nat), of \in Nat : ls = x.lines /\ of = line.of /\ ls # <<>>
    BY <1>2, ItemFields, LineFields DEF PartOf, PrintedLine
  <2>. QED
    BY <1>3, <2>1, FirstStays
<1>5. PICK items \in Seq(S) : items = acc.items
  BY <1>1, ReadingFields
<1>6. PICK n \in Nat : n = Len(items) /\ DOMAIN items = 1..n
  OBVIOUS
<1>7. x \in S /\ y \in S
  BY <1>1
<1>8. PICK s, t : s = items \o <<x>> /\ t = items \o <<y>>
  OBVIOUS
<1>9. /\ s \in Seq(S) /\ t \in Seq(S) /\ Len(s) = n + 1 /\ Len(t) = n + 1
      /\ s[n + 1] = x /\ t[n + 1] = y
      /\ \A k \in 1..n : s[k] = items[k] /\ t[k] = items[k]
  BY <1>6, <1>7, <1>8
<1>10. \A k \in 1..(n + 1) : s[k].number = t[k].number /\ s[k].lines[1] = t[k].lines[1]
  <2>1. \A k \in 1..(n + 1) : k \in 1..n \/ k = n + 1
    OBVIOUS
  <2>. QED
    BY <1>3, <1>4, <1>9, <2>1
<1>11. ItemsCount(s, lo.of)
  BY <1>2, <1>5, <1>8 DEF ReadCounts
<1>12. ItemsCount(t, lo.of)
  BY <1>1, <1>9, <1>10, <1>11, SameCount
<1>13. Continue(acc, line).items = items /\ Continue(acc, line).open = <<y>>
  BY <1>2, <1>3, <1>5 DEF Continue, Reading
<1>. QED
  BY <1>8, <1>12, <1>13 DEF ReadCounts

LEMMA AskingCounts ==
  ASSUME NEW acc \in Reading, NEW line \in PrintedLine, NEW lo \in Place, NEW p \in Place,
         ReadTo(acc, lo, p), ReadCounts(acc, lo.of),
         line.number = {line.of}, line.of = p.of + 1
  PROVE  ReadCounts(StartQuestion(acc, line), lo.of)
<1>1. PICK y \in ItemType : /\ y = Asking(line) /\ y.number = line.number /\ y.lines = <<line.of>>
  BY AskingIs
<1>2. y.lines[1] = line.of
  BY <1>1
<1>3. PICK items \in Seq(ItemType) : /\ items = Finished(acc) /\ Between(items, lo, p)
                                     /\ ItemsCount(items, lo.of)
  BY FinishedIs, FinishedCounts
<1>4. p.of = (IF items = <<>> THEN lo.of ELSE items[Len(items)].lines[1])
  BY <1>3 DEF Between, GoesTo
<1>5. ItemsCount(items \o <<y>>, lo.of)
  BY <1>1, <1>2, <1>3, <1>4, CountOneMore
<1>6. StartQuestion(acc, line).items = items /\ StartQuestion(acc, line).open = <<y>>
  BY <1>1, <1>3 DEF StartQuestion, Asking
<1>. QED
  BY <1>5, <1>6 DEF ReadCounts

LEMMA FragmentCounts ==
  ASSUME NEW acc \in Reading, NEW line \in PrintedLine, NEW lo \in Place, NEW p \in Place,
         NEW pageNo \in Nat, ReadTo(acc, lo, p), acc.open = <<>>, ReadCounts(acc, lo.of)
  PROVE  ReadCounts(StartFragment(acc, line, pageNo), lo.of)
<1>1. CASE pageNo = 1 /\ line.labels = <<>>
  BY <1>1 DEF StartFragment
<1>2. CASE ~(pageNo = 1 /\ line.labels = <<>>)
  <2>1. {} \in NumberType /\ (pageNo > 1) \in BOOLEAN
    BY DEF NumberType
  <2>2. PICK x \in ItemType : x = Item({}, pageNo > 1) /\ x.number = {}
    BY <2>1, ItemIs
  <2>3. PICK y \in ItemType : y = Extended(x, line) /\ y.number = {}
    BY <2>2, ExtendedIs
  <2>4. PICK new : new = StartFragment(acc, line, pageNo)
    OBVIOUS
  <2>5. new.items = <<>> /\ new.open = <<y>>
    <3>1. new = [acc EXCEPT !.open = <<y>>]
      BY <1>2, <2>2, <2>3, <2>4 DEF StartFragment
    <3>. QED
      BY <3>1 DEF Reading, ReadTo
  <2>6. <<>> \in Seq(ItemType) /\ DOMAIN <<>> = {}
    OBVIOUS
  <2>7. ItemsCount(<<>>, lo.of)
    BY <2>6 DEF ItemsCount
  <2>8. ItemsCount(<<>> \o <<y>>, lo.of)
    BY <2>3, <2>6, <2>7, CountOneMore
  <2>. QED
    BY <2>4, <2>5, <2>8 DEF ReadCounts
<1>. QED
  BY <1>1, <1>2

LEMMA TakeLineCounts ==
  ASSUME NEW acc \in Reading, NEW line \in PrintedLine, NEW lo \in Place, NEW p \in Place,
         NEW r, NEW pageNo \in Nat, ReadTo(acc, lo, p), Follows(line, p, r), ReadCounts(acc, lo.of),
         line.number # {} => line.number = {line.of} /\ line.of = p.of + 1
  PROVE  ReadCounts(TakeLine(acc, line, pageNo), lo.of)
<1>1. line.section = {}
  BY DEF Follows
<1>2. CASE acc.open # <<>> /\ (IsOption(acc.open[1], line) \/ line.answer)
  BY <1>1, <1>2, ContinueCounts DEF TakeLine
<1>3. CASE ~(acc.open # <<>> /\ (IsOption(acc.open[1], line) \/ line.answer)) /\ line.number # {}
  BY <1>1, <1>3, AskingCounts DEF TakeLine
<1>4. CASE /\ ~(acc.open # <<>> /\ (IsOption(acc.open[1], line) \/ line.answer))
           /\ line.number = {} /\ acc.open # <<>>
  BY <1>1, <1>4, ContinueCounts DEF TakeLine
<1>5. CASE /\ ~(acc.open # <<>> /\ (IsOption(acc.open[1], line) \/ line.answer))
           /\ line.number = {} /\ acc.open = <<>>
  BY <1>1, <1>5, FragmentCounts DEF TakeLine
<1>. QED
  BY <1>2, <1>3, <1>4, <1>5

LEMMA MarkedCounts ==
  ASSUME NEW items \in Seq(ItemType), NEW of, ItemsCount(items, of)
  PROVE  ItemsCount(MarkLast(items), of)
<1>1. CASE items = <<>>
  BY <1>1 DEF MarkLast
<1>2. CASE items # <<>>
  <2>1. PICK S : S = ItemType
    OBVIOUS
  <2>2. PICK n \in Nat : n = Len(items) /\ DOMAIN items = 1..n /\ n \in 1..n
    <3>1. Len(items) \in Nat /\ Len(items) # 0
      BY <1>2, NothingLong
    <3>. QED
      BY <3>1
  <2>3. PICK x \in ItemType : x = items[n]
    BY <2>2
  <2>4. PICK c \in BOOLEAN : c = GoesOn(x)
    BY ItemFields DEF GoesOn
  <2>5. PICK y : y = [x EXCEPT !.continues = c]
    OBVIOUS
  <2>6. y \in ItemType /\ y.number = x.number /\ y.lines = x.lines
    <3>. HIDE DEF NumberType
    <3>. QED
      BY <2>4, <2>5 DEF ItemType
  <2>7. PICK all : all = [items EXCEPT ![n] = y]
    OBVIOUS
  <2>8. MarkLast(items) = all
    BY <1>2, <2>2, <2>3, <2>4, <2>5, <2>7 DEF MarkLast
  <2>9. items \in Seq(S) /\ y \in S
    BY <2>1, <2>6
  <2>10. all \in Seq(S) /\ Len(all) = n
    BY <2>2, <2>7, <2>9
  <2>11. all[n] = y /\ \A k \in 1..n : k # n => all[k] = items[k]
    BY <2>2, <2>7, <2>9
  <2>12. \A k \in 1..n : items[k].number = all[k].number /\ items[k].lines[1] = all[k].lines[1]
    BY <2>3, <2>6, <2>11
  <2>. QED
    BY <2>1, <2>2, <2>8, <2>10, <2>12, SameCount
<1>. QED
  BY <1>1, <1>2

\* The numbers of the items of a page whose lines go on from those before it.
LEMMA PageCounts ==
  ASSUME NEW ls \in Seq(PrintedLine), NEW pageNo \in Nat, NEW pos, Run(ls, pos),
         LinesCount(ls, pos[0].of)
  PROVE  ItemsCount(Items(ls, pageNo), pos[0].of)
<1>1. PICK n \in Nat : n = Len(ls) /\ DOMAIN ls = 1..n /\ \A k \in 1..n : ls[k] \in PrintedLine
  OBVIOUS
<1>2. PICK g : /\ \A k \in 0..n : g[k] \in Reading
               /\ g[0] = Unread
               /\ \A k \in 1..n : g[k] = TakeLine(g[k - 1], ls[k], pageNo)
               /\ LinesTaken(ls, pageNo) = g[n]
  BY <1>1, LinesTakenIs
<1>3. (\A k \in 0..n : pos[k] \in Place) /\ 0 \in 0..n /\ n \in 0..n
  BY <1>1 DEF Run
<1>4. \A k \in 1..n : Follows(ls[k], pos[k - 1], pos[k])
  BY <1>1 DEF Run
<1>5. PICK T : T = {k \in 0..n : ReadTo(g[k], pos[0], pos[k]) /\ ReadCounts(g[k], pos[0].of)}
  OBVIOUS
<1>6. 0 \in T
  <2>1. DOMAIN <<>> = {} /\ <<>> \o <<>> = <<>>
    OBVIOUS
  <2>2. ReadTo(Unread, pos[0], pos[0])
    BY <2>1 DEF ReadTo, Unread
  <2>3. ReadCounts(Unread, pos[0].of)
    BY <2>1 DEF ReadCounts, Unread, ItemsCount
  <2>. QED
    BY <1>2, <1>3, <1>5, <2>2, <2>3
<1>7. ASSUME NEW k \in 1..n, k - 1 \in T
      PROVE  k \in T
  <2>1. k - 1 \in 0..n /\ k \in 0..n
    OBVIOUS
  <2>2. ReadTo(g[k - 1], pos[0], pos[k - 1]) /\ ReadCounts(g[k - 1], pos[0].of)
    BY <1>5, <1>7
  <2>3. ReadTo(g[k], pos[0], pos[k])
    BY <1>1, <1>2, <1>3, <1>4, <2>1, <2>2, TakeLineGoesOn
  <2>4. pos[k - 1].of = (IF k = 1 THEN pos[0].of ELSE ls[k - 1].of)
    <3>1. CASE k = 1
      BY <3>1
    <3>2. CASE k # 1
      <4>1. k - 1 \in 1..n
        BY <3>2
      <4>. QED
        BY <1>4, <3>2, <4>1 DEF Follows
    <3>. QED
      BY <3>1, <3>2
  <2>5. ls[k].number # {} => ls[k].number = {ls[k].of} /\ ls[k].of = pos[k - 1].of + 1
    BY <1>1, <2>4 DEF LinesCount
  <2>6. ReadCounts(g[k], pos[0].of)
    <3>1. PICK acc \in Reading, line \in PrintedLine, lo \in Place, p \in Place :
            acc = g[k - 1] /\ line = ls[k] /\ lo = pos[0] /\ p = pos[k - 1]
      BY <1>1, <1>2, <1>3, <2>1
    <3>2. /\ ReadTo(acc, lo, p) /\ ReadCounts(acc, lo.of) /\ Follows(line, p, pos[k])
          /\ line.number # {} => line.number = {line.of} /\ line.of = p.of + 1
      BY <1>4, <2>2, <2>5, <3>1
    <3>3. ReadCounts(TakeLine(acc, line, pageNo), lo.of)
      BY <3>2, TakeLineCounts
    <3>. QED
      BY <1>2, <3>1, <3>3
  <2>. QED
    BY <1>5, <2>1, <2>3, <2>6
<1>8. n \in T
  <2>1. \A k \in 0..n : k \in T
    BY <1>6, <1>7, UpTo
  <2>. QED
    BY <1>3, <2>1
<1>9. PICK acc \in Reading : /\ acc = LinesTaken(ls, pageNo) /\ ReadTo(acc, pos[0], pos[n])
                             /\ ReadCounts(acc, pos[0].of)
  BY <1>2, <1>3, <1>5, <1>8
<1>10. ~TakenForKey(ls)
  <2>1. \A k \in DOMAIN ls : ls[k].dense = <<>>
    BY <1>1, <1>4 DEF Follows
  <2>. QED
    BY <2>1, NotTakenForKey
<1>11. Items(ls, pageNo) = MarkLast(Finished(acc))
  BY <1>9, <1>10 DEF Items
<1>12. Finished(acc) \in Seq(ItemType) /\ ItemsCount(Finished(acc), pos[0].of)
  BY <1>3, <1>9, FinishedIs, FinishedCounts
<1>. QED
  BY <1>11, <1>12, MarkedCounts

LEMMA NumbersOfLines ==
  ASSUME NEW k
  PROVE  /\ \A ends : Numbered(k, ends).number = {k} /\ Numbered(k, ends).of = k
         /\ \A ends : Unmarked(k, ends).number = {} /\ Unmarked(k, ends).of = k
         /\ \A labels : Options(k, labels).number = {} /\ Options(k, labels).of = k
         /\ AnswerLine(k).number = {} /\ AnswerLine(k).of = k
         /\ Heading.number = {} /\ Heading.of = 0
<1>1. \A ends : Numbered(k, ends).number = {k} /\ Numbered(k, ends).of = k
  BY DEF Numbered, Blank
<1>2. \A ends : Unmarked(k, ends).number = {} /\ Unmarked(k, ends).of = k
  BY DEF Unmarked, Blank
<1>3. \A labels : Options(k, labels).number = {} /\ Options(k, labels).of = k
  BY DEF Options, Blank
<1>4. AnswerLine(k).number = {} /\ AnswerLine(k).of = k
  BY DEF AnswerLine, Blank
<1>5. Heading.number = {} /\ Heading.of = 0
  BY DEF Heading, Blank
<1>. QED
  BY <1>1, <1>2, <1>3, <1>4, <1>5

\* The lines of the question k that do not begin it.
LinesOf(k) == {line \in PrintedLine : line.number = {} /\ line.of = k}

LEMMA LayoutNumbers ==
  ASSUME NEW k \in 1..2, NEW layout \in Layouts, "digits" \notin Layouts
  PROVE  LayoutLines(k, layout) \in Seq(LinesOf(k))
<1>1. PICK S : S = LinesOf(k)
  OBVIOUS
<1>2. ASSUME NEW ls \in Seq(Nat), NEW from \in Nat, \A j \in DOMAIN ls : ls[j] = from + j
      PROVE  Options(k, ls) \in S
  <2>1. PICK to \in Nat : to = from + Len(ls)
    OBVIOUS
  <2>2. Options(k, ls) \in PrintedLine
    BY <1>2, <2>1, OptionsFollow
  <2>. QED
    BY <1>1, <2>2, NumbersOfLines DEF LinesOf
<1>3. CASE layout = "none"
  BY <1>1, <1>3 DEF LayoutLines
<1>4. CASE layout = "one line"
  <2>1. PICK ls : ls = <<1, 2, 3, 4>>
    OBVIOUS
  <2>2. ls \in Seq(Nat) /\ 0 \in Nat /\ \A j \in DOMAIN ls : ls[j] = 0 + j
    BY <2>1
  <2>3. Options(k, ls) \in S
    BY <1>2, <2>2
  <2>4. LayoutLines(k, layout) = <<Options(k, ls)>>
    BY <1>4, <2>1 DEF LayoutLines
  <2>. QED
    BY <1>1, <2>3, <2>4
<1>5. CASE layout = "two lines"
  <2>1. PICK a, b : a = <<1, 2>> /\ b = <<3, 4>>
    OBVIOUS
  <2>2. /\ a \in Seq(Nat) /\ 0 \in Nat /\ \A j \in DOMAIN a : a[j] = 0 + j
        /\ b \in Seq(Nat) /\ 2 \in Nat /\ \A j \in DOMAIN b : b[j] = 2 + j
    BY <2>1
  <2>3. PICK x \in S, y \in S : x = Options(k, a) /\ y = Options(k, b)
    BY <1>2, <2>2
  <2>4. LayoutLines(k, layout) = <<Options(k, <<1, 2>>), Options(k, <<3, 4>>)>>
    BY <1>5 DEF LayoutLines
  <2>5. LayoutLines(k, layout) = <<x, y>>
    BY <2>1, <2>3, <2>4
  <2>. QED
    BY <1>1, <2>5
<1>6. CASE layout = "stacked"
  <2>1. ASSUME NEW n \in 1..4
        PROVE  Options(k, <<n>>) \in S
    <3>1. PICK ls, from : ls = <<n>> /\ from = n - 1
      OBVIOUS
    <3>2. ls \in Seq(Nat) /\ from \in Nat /\ \A j \in DOMAIN ls : ls[j] = from + j
      BY <3>1
    <3>. QED
      BY <1>2, <3>1, <3>2
  <2>2. PICK ls : ls = [n \in 1..4 |-> Options(k, <<n>>)]
    OBVIOUS
  <2>3. ls = [n \in 1..4 |-> ls[n]] /\ \A n \in 1..4 : ls[n] \in S
    BY <2>1, <2>2
  <2>4. ls \in Seq(S)
    BY <2>3
  <2>5. LayoutLines(k, layout) = ls
    BY <1>6, <2>2 DEF LayoutLines
  <2>. QED
    BY <1>1, <2>4, <2>5
<1>. QED
  BY <1>3, <1>4, <1>5, <1>6, LayoutAssumption

LEMMA QuestionNumbers ==
  ASSUME NEW k \in 1..2, NEW ls \in PrintedQuestions(k), "digits" \notin Layouts
  PROVE  \E line \in PrintedLine, others \in Seq(LinesOf(k)) :
           ls = <<line>> \o others /\ line.number = {k} /\ line.of = k
<1>1. PICK text \in Texts, layout \in Layouts, answer \in BOOLEAN :
        ls = PrintedLines(k, text, layout, answer)
  BY DEF PrintedQuestions
<1>2. PICK S : S = LinesOf(k)
  OBVIOUS
<1>3. PICK m \in Nat : /\ m = Len(text) - 1 /\ text[1] \in BOOLEAN
                       /\ \A n \in 1..m : text[n + 1] \in BOOLEAN
  <2>1. CASE text = <<TRUE>>
    <3>1. Len(text) - 1 = 0 /\ text[1] \in BOOLEAN
      BY <2>1
    <3>. QED
      BY <3>1
  <2>2. ASSUME Len(text) - 1 = 1, text[1] \in BOOLEAN, text[2] \in BOOLEAN
        PROVE  \E m \in Nat : /\ m = Len(text) - 1 /\ text[1] \in BOOLEAN
                              /\ \A n \in 1..m : text[n + 1] \in BOOLEAN
    <3>1. \A n \in 1..1 : n + 1 = 2
      OBVIOUS
    <3>. QED
      BY <2>2, <3>1
  <2>3. CASE text = <<FALSE, TRUE>>
    <3>1. Len(text) - 1 = 1 /\ text[1] \in BOOLEAN /\ text[2] \in BOOLEAN
      BY <2>3
    <3>. QED
      BY <2>2, <3>1
  <2>4. CASE text = <<TRUE, FALSE>>
    <3>1. Len(text) - 1 = 1 /\ text[1] \in BOOLEAN /\ text[2] \in BOOLEAN
      BY <2>4
    <3>. QED
      BY <2>2, <3>1
  <2>. QED
    BY <2>1, <2>3, <2>4 DEF Texts
<1>4. PICK line \in PrintedLine : line = Numbered(k, text[1]) /\ line.number = {k} /\ line.of = k
  BY <1>3, KindsOfLine, NumbersOfLines
<1>5. PICK b \in Seq(S) : b = [n \in 1..(Len(text) - 1) |-> Unmarked(k, text[n + 1])]
  <2>1. PICK b : b = [n \in 1..m |-> Unmarked(k, text[n + 1])]
    OBVIOUS
  <2>2. \A n \in 1..m : Unmarked(k, text[n + 1]) \in S
    BY <1>2, <1>3, KindsOfLine, NumbersOfLines DEF LinesOf
  <2>3. b = [n \in 1..m |-> b[n]] /\ \A n \in 1..m : b[n] \in S
    BY <2>1, <2>2
  <2>4. b \in Seq(S)
    BY <2>3
  <2>. QED
    BY <1>3, <2>1, <2>4
<1>6. PICK c \in Seq(S) : c = LayoutLines(k, layout)
  BY <1>2, LayoutNumbers
<1>7. PICK d \in Seq(S) : d = (IF answer THEN <<AnswerLine(k)>> ELSE <<>>)
  <2>1. PICK last \in S : last = AnswerLine(k)
    BY <1>2, KindsOfLine, NumbersOfLines DEF LinesOf
  <2>2. <<last>> \in Seq(S) /\ <<>> \in Seq(S)
    OBVIOUS
  <2>. QED
    BY <2>1, <2>2
<1>8. PICK others \in Seq(S) : others = (b \o c) \o d
  <2>1. b \o c \in Seq(S)
    OBVIOUS
  <2>2. (b \o c) \o d \in Seq(S)
    BY <2>1
  <2>. QED
    BY <2>2
<1>9. ls = <<line>> \o b \o c \o d
  BY <1>1, <1>4, <1>5, <1>6, <1>7 DEF PrintedLines
<1>10. ls = <<line>> \o others
  <2>1. PICK P : P = PrintedLine
    OBVIOUS
  <2>2. S \subseteq P
    BY <1>2, <2>1 DEF LinesOf
  <2>3. b \in Seq(P) /\ c \in Seq(P) /\ d \in Seq(P) /\ <<line>> \in Seq(P)
    BY <2>1, <2>2
  <2>4. <<line>> \o b \o c \o d = <<line>> \o ((b \o c) \o d)
    <3>1. (<<line>> \o b) \o c = <<line>> \o (b \o c)
      BY <2>3, ConcatAssociative
    <3>2. b \o c \in Seq(P)
      BY <2>3
    <3>3. (<<line>> \o (b \o c)) \o d = <<line>> \o ((b \o c) \o d)
      BY <2>3, <3>2, ConcatAssociative
    <3>. QED
      BY <3>1, <3>3
  <2>. QED
    BY <1>8, <1>9, <2>4
<1>. QED
  BY <1>2, <1>4, <1>10

LEMMA QuestionCounts ==
  ASSUME NEW k \in 1..2, NEW ls \in PrintedQuestions(k), "digits" \notin Layouts
  PROVE  /\ ls \in Seq(PrintedLine) /\ Len(ls) >= 1 /\ ls[Len(ls)].of = k
         /\ LinesCount(ls, k - 1)
<1>1. PICK S, P : S = LinesOf(k) /\ P = PrintedLine
  OBVIOUS
<1>2. PICK line \in P, others \in Seq(S) :
        ls = <<line>> \o others /\ line.number = {k} /\ line.of = k
  BY <1>1, QuestionNumbers
<1>3. PICK m \in Nat : m = Len(others) /\ \A j \in 1..m : others[j] \in S
  OBVIOUS
<1>4. S \subseteq P /\ \A x \in S : x.number = {} /\ x.of = k
  BY <1>1 DEF LinesOf
<1>5. /\ ls \in Seq(P) /\ Len(ls) = m + 1 /\ DOMAIN ls = 1..(m + 1)
      /\ ls[1] = line /\ \A j \in 1..(m + 1) : j # 1 => ls[j] = others[j - 1]
  <2>1. others \in Seq(P) /\ <<line>> \in Seq(P) /\ Len(<<line>>) = 1 /\ <<line>>[1] = line
    BY <1>4
  <2>. QED
    BY <1>2, <1>3, <2>1
<1>6. \A j \in 1..(m + 1) : ls[j].of = k /\ (ls[j].number # {} => j = 1)
  <2>1. \A j \in 1..(m + 1) : j # 1 => j - 1 \in 1..m
    OBVIOUS
  <2>2. \A j \in 1..(m + 1) : j # 1 => ls[j] \in S
    BY <1>3, <1>5, <2>1
  <2>. QED
    BY <1>2, <1>4, <1>5, <2>2
<1>7. LinesCount(ls, k - 1)
  <2>1. (k - 1) + 1 = k /\ 1 \in 1..(m + 1)
    OBVIOUS
  <2>. QED
    BY <1>2, <1>5, <1>6, <2>1 DEF LinesCount
<1>8. m + 1 \in 1..(m + 1) /\ m + 1 >= 1
  OBVIOUS
<1>. QED
  BY <1>1, <1>5, <1>6, <1>7, <1>8

LEMMA CountsJoin ==
  ASSUME NEW a \in Seq(PrintedLine), NEW b \in Seq(PrintedLine), NEW of,
         Len(a) >= 1, Len(b) >= 1, LinesCount(a, of), LinesCount(b, a[Len(a)].of)
  PROVE  /\ a \o b \in Seq(PrintedLine) /\ Len(a \o b) >= 1
         /\ (a \o b)[Len(a \o b)].of = b[Len(b)].of
         /\ LinesCount(a \o b, of)
<1>1. PICK S : S = PrintedLine
  OBVIOUS
<1>2. PICK m \in Nat, n \in Nat : m = Len(a) /\ n = Len(b) /\ m >= 1 /\ n >= 1
  OBVIOUS
<1>3. PICK c : c = a \o b
  OBVIOUS
<1>4. /\ c \in Seq(S) /\ Len(c) = m + n /\ DOMAIN c = 1..(m + n)
      /\ DOMAIN a = 1..m /\ DOMAIN b = 1..n
      /\ \A j \in 1..m : c[j] = a[j]
      /\ \A j \in 1..n : c[m + j] = b[j]
  BY <1>1, <1>2, <1>3
<1>5. ASSUME NEW j \in 1..(m + n), c[j].number # {}
      PROVE  /\ c[j].number = {c[j].of}
             /\ c[j].of = (IF j = 1 THEN of ELSE c[j - 1].of) + 1
  <2>1. CASE j <= m
    <3>1. j \in 1..m /\ (j # 1 => j - 1 \in 1..m)
      BY <2>1
    <3>. QED
      BY <1>4, <1>5, <3>1 DEF LinesCount
  <2>2. CASE j = m + 1
    <3>1. 1 \in 1..n /\ m \in 1..m /\ j # 1 /\ j - 1 = m
      BY <1>2, <2>2
    <3>2. c[j] = b[1] /\ c[j - 1] = a[m]
      BY <1>4, <2>2, <3>1
    <3>3. b[1].number # {} => b[1].number = {b[1].of} /\ b[1].of = a[m].of + 1
      BY <1>2, <1>4, <3>1 DEF LinesCount
    <3>. QED
      BY <1>5, <3>1, <3>2, <3>3
  <2>3. CASE j > m + 1
    <3>1. PICK i \in 1..n : j = m + i /\ i # 1 /\ i - 1 \in 1..n /\ j - 1 = m + (i - 1) /\ j # 1
      <4>1. j - m \in 1..n /\ j = m + (j - m) /\ j - m # 1 /\ (j - m) - 1 \in 1..n
            /\ j - 1 = m + ((j - m) - 1) /\ j # 1
        BY <1>2, <2>3
      <4>. QED
        BY <4>1
    <3>2. c[j] = b[i] /\ c[j - 1] = b[i - 1]
      BY <1>4, <3>1
    <3>3. b[i].number = {b[i].of} /\ b[i].of = b[i - 1].of + 1
      BY <1>4, <1>5, <3>1, <3>2 DEF LinesCount
    <3>. QED
      BY <3>1, <3>2, <3>3
  <2>. QED
    BY <1>2, <2>1, <2>2, <2>3
<1>6. LinesCount(c, of)
  BY <1>4, <1>5 DEF LinesCount
<1>7. c[m + n].of = b[n].of /\ m + n >= 1
  <2>1. n \in 1..n /\ m + n >= 1
    BY <1>2
  <2>. QED
    BY <1>4, <2>1
<1>. QED
  BY <1>1, <1>2, <1>3, <1>4, <1>6, <1>7

\* The lines of a paper number its two questions 1 and 2.
LEMMA PaperCounts ==
  ASSUME NEW ls \in Papers, "digits" \notin Layouts
  PROVE  LinesCount(ls, 0) /\ ls[Len(ls)].of = 2
<1>1. PICK p \in PrintedQuestions(1), q \in PrintedQuestions(2) : ls = <<Heading>> \o p \o q
  BY DEF Papers
<1>2. 1 \in 1..2 /\ 2 \in 1..2 /\ 1 - 1 = 0 /\ 2 - 1 = 1
  OBVIOUS
<1>3. p \in Seq(PrintedLine) /\ Len(p) >= 1 /\ p[Len(p)].of = 1 /\ LinesCount(p, 0)
  BY <1>2, QuestionCounts
<1>4. q \in Seq(PrintedLine) /\ Len(q) >= 1 /\ q[Len(q)].of = 2 /\ LinesCount(q, 1)
  BY <1>2, QuestionCounts
<1>5. PICK h \in Seq(PrintedLine) :
        h = <<Heading>> /\ Len(h) >= 1 /\ h[Len(h)].of = 0 /\ LinesCount(h, 0)
  <2>1. PICK line \in PrintedLine : line = Heading /\ line.number = {} /\ line.of = 0
    BY <1>2, KindsOfLine, NumbersOfLines
  <2>2. PICK S : S = PrintedLine
    OBVIOUS
  <2>3. PICK h : h = <<line>>
    OBVIOUS
  <2>4. line \in S
    BY <2>2
  <2>5. h \in Seq(S) /\ Len(h) = 1 /\ h[1] = line /\ DOMAIN h = {1}
    BY <2>3, <2>4
  <2>6. LinesCount(h, 0)
    BY <2>1, <2>5 DEF LinesCount
  <2>7. Len(h) >= 1 /\ h[Len(h)].of = 0 /\ h = <<Heading>>
    BY <2>1, <2>3, <2>5
  <2>. QED
    BY <2>2, <2>5, <2>6, <2>7
<1>6. /\ h \o p \in Seq(PrintedLine) /\ Len(h \o p) >= 1 /\ (h \o p)[Len(h \o p)].of = 1
      /\ LinesCount(h \o p, 0)
  BY <1>3, <1>5, CountsJoin
<1>7. /\ ((h \o p) \o q)[Len((h \o p) \o q)].of = 2 /\ LinesCount((h \o p) \o q, 0)
  BY <1>4, <1>6, CountsJoin
<1>8. ls = (h \o p) \o q
  BY <1>1, <1>5
<1>. QED
  BY <1>7, <1>8

\* The lines of a page are counted on from the line before it.
LEMMA PartCounts ==
  ASSUME NEW ls \in Seq(PrintedLine), NEW pos, Run(ls, pos), LinesCount(ls, pos[0].of),
         NEW a \in 0..Len(ls), NEW n \in 1..(Len(ls) - a)
  PROVE  LinesCount(SubSeq(ls, a + 1, a + n), pos[a].of)
<1>1. PICK S : S = PrintedLine
  OBVIOUS
<1>2. PICK m \in Nat : m = Len(ls) /\ a + n <= m /\ DOMAIN ls = 1..m
  OBVIOUS
<1>3. PICK part : part = SubSeq(ls, a + 1, a + n)
  OBVIOUS
<1>4. DOMAIN part = 1..n /\ \A k \in 1..n : part[k] = ls[a + k]
  <2>1. ls \in Seq(S)
    BY <1>1
  <2>2. part = [k \in 1..n |-> ls[a + k]]
    BY <1>2, <1>3, <2>1
  <2>. QED
    BY <2>2
<1>5. pos[a].of = (IF a = 0 THEN pos[0].of ELSE ls[a].of)
  <2>1. CASE a = 0
    BY <2>1
  <2>2. CASE a # 0
    <3>1. a \in 1..m
      BY <1>2, <2>2
    <3>. QED
      BY <1>2, <2>2, <3>1 DEF Run, Follows
  <2>. QED
    BY <2>1, <2>2
<1>6. ASSUME NEW k \in 1..n, part[k].number # {}
      PROVE  /\ part[k].number = {part[k].of}
             /\ part[k].of = (IF k = 1 THEN pos[a].of ELSE part[k - 1].of) + 1
  <2>1. PICK i \in 1..m : i = a + k /\ part[k] = ls[i]
    <3>1. a + k \in 1..m
      BY <1>2
    <3>. QED
      BY <1>4, <3>1
  <2>1a. /\ ls[i].number = {ls[i].of}
         /\ ls[i].of = (IF i = 1 THEN pos[0].of ELSE ls[i - 1].of) + 1
    BY <1>2, <1>6, <2>1 DEF LinesCount
  <2>2. /\ part[k].number = {part[k].of}
        /\ part[k].of = (IF a + k = 1 THEN pos[0].of ELSE ls[(a + k) - 1].of) + 1
    BY <2>1, <2>1a
  <2>3. CASE k = 1
    <3>1. (a + k = 1 <=> a = 0) /\ (a + k) - 1 = a
      BY <2>3
    <3>. QED
      BY <1>5, <2>2, <2>3, <3>1
  <2>4. CASE k # 1
    <3>1. k - 1 \in 1..n /\ a + k # 1 /\ (a + k) - 1 = a + (k - 1)
      BY <2>4
    <3>2. part[k - 1] = ls[(a + k) - 1]
      BY <1>4, <3>1
    <3>. QED
      BY <2>2, <2>4, <3>1, <3>2
  <2>. QED
    BY <2>3, <2>4
<1>. QED
  BY <1>3, <1>4, <1>6 DEF LinesCount

-----------------------------------------------------------------------------
(* A document without a warning *)

\* A number is inferred after the question k - 1 and before the question k + 1
\* if all questions count as one section.
LEMMA InferredIsNext ==
  ASSUME NEW s \in Seq(QuestionType), NEW n \in Nat, n = Len(s), NEW number, NEW k \in 1..n,
         \A j, l \in 1..n : s[j].section = s[l].section,
         s[k].number = {}, NumberAt(s, number, k) # {},
         k # 1 => number[k - 1] = {k - 1}
  PROVE  /\ k # 1 /\ k + 1 \in 1..n /\ k + 1 \in s[k + 1].number
         /\ NumberAt(s, number, k) = {k}
<1>1. DOMAIN s = 1..n
  OBVIOUS
<1>2. PICK before, after :
        /\ before = (IF EarlierIn(s, k) = {} THEN {} ELSE number[Max(EarlierIn(s, k))])
        /\ after = (IF LaterIn(s, k) = {} THEN {} ELSE s[Min(LaterIn(s, k))].number)
        /\ NumberAt(s, number, k) = Inferred(before, after)
  BY DEF NumberAt
<1>3. PICK m \in before : m + 2 \in after
  BY <1>2 DEF Inferred
<1>4. EarlierIn(s, k) # {} /\ LaterIn(s, k) # {}
  BY <1>2, <1>3
<1>5. EarlierIn(s, k) = 1..(k - 1) /\ LaterIn(s, k) = (k + 1)..n
  <2>1. EarlierIn(s, k) = {j \in 1..n : j < k} /\ LaterIn(s, k) = {j \in 1..n : j > k}
    BY <1>1 DEF EarlierIn, LaterIn
  <2>. QED
    BY <2>1
<1>6. k - 1 \in 1..(k - 1) /\ k + 1 \in (k + 1)..n /\ k + 1 \in 1..n /\ k # 1 /\ k - 1 \in Nat
  BY <1>4, <1>5
<1>7. Max(1..(k - 1)) = k - 1
  <2>1. PICK T : T = 1..(k - 1)
    OBVIOUS
  <2>2. T \in SUBSET (1..(k - 1)) /\ T # {} /\ k - 1 \in T
    BY <1>6, <2>1
  <2>3. Max(T) \in T /\ \A j \in T : j <= Max(T)
    BY <1>6, <2>2, MaxIs
  <2>4. PICK x \in 1..(k - 1) : x = Max(T)
    BY <2>1, <2>3
  <2>5. k - 1 <= x
    BY <2>2, <2>3, <2>4
  <2>. QED
    BY <2>1, <2>4, <2>5
<1>8. Min((k + 1)..n) = k + 1
  <2>1. PICK T : T = (k + 1)..n
    OBVIOUS
  <2>2. T \in SUBSET Nat /\ T # {} /\ k + 1 \in T
    BY <1>6, <2>1
  <2>3. Min(T) \in T /\ \A j \in T : Min(T) <= j
    BY <2>2, MinIs
  <2>4. PICK x \in (k + 1)..n : x = Min(T)
    BY <2>1, <2>3
  <2>5. x <= k + 1
    BY <2>2, <2>3, <2>4
  <2>. QED
    BY <2>1, <2>4, <2>5
<1>9. before = {k - 1} /\ after = s[k + 1].number
  BY <1>2, <1>4, <1>5, <1>6, <1>7, <1>8
<1>10. m = k - 1 /\ m + 2 = k + 1 /\ m + 1 = k
  BY <1>3, <1>9
<1>11. Inferred(before, after) = {k}
  <2>1. {i \in before : i + 2 \in after} = {m}
    BY <1>3, <1>9, <1>10
  <2>2. {i + 1 : i \in {m}} = {k}
    BY <1>10
  <2>. QED
    BY <2>1, <2>2 DEF Inferred
<1>. QED
  BY <1>2, <1>3, <1>6, <1>9, <1>10, <1>11

\* Each question has a number, its own or one that is inferred in the only
\* section, and holds fragments of one printed question only.
Unwarned(s, number) ==
  /\ \A k \in DOMAIN s : number[k] = NumberAt(s, number, k) /\ number[k] # {}
  /\ \A k \in DOMAIN s : number[k] # s[k].number =>
       \A j, l \in DOMAIN s : s[j].section = s[l].section
  /\ \A k \in DOMAIN s : \A p, r \in ToSet(s[k].pieces) : p.question = r.question

LEMMA NumbersInSequence ==
  ASSUME NEW s \in Seq(QuestionType), NEW n \in Nat, n = Len(s), NEW asked, InSequence(s, asked),
         NEW number, Unwarned(s, number)
  PROVE  /\ asked = n
         /\ \A k \in 1..n : number[k] = {k} /\ \A p \in ToSet(s[k].pieces) : p.question = k
<1>1. DOMAIN s = 1..n /\ \A k \in 1..n : s[k] \in QuestionType
  OBVIOUS
<1>1a. /\ \A k \in 1..n : number[k] = NumberAt(s, number, k) /\ number[k] # {}
       /\ \A k \in 1..n : number[k] # s[k].number =>
            \A j, l \in 1..n : s[j].section = s[l].section
       /\ \A k \in 1..n : \A p, r \in ToSet(s[k].pieces) : p.question = r.question
  BY <1>1 DEF Unwarned
<1>2. ASSUME NEW k \in 1..n
      PROVE  /\ s[k].pieces[1].question = LastOf(s[k]) /\ LastOf(s[k]) \in Nat
             /\ \A p \in ToSet(s[k].pieces) : p.question = LastOf(s[k])
  <2>1. PICK P : P = PieceType
    OBVIOUS
  <2>2. PICK ps \in Seq(P) : ps = s[k].pieces /\ ps # <<>>
    BY <1>1, <2>1, QuestionFields DEF Pieces
  <2>3. PICK m \in Nat : m = Len(ps) /\ DOMAIN ps = 1..m /\ m # 0
    BY <2>2, NothingLong
  <2>4. 1 \in 1..m /\ m \in 1..m
    BY <2>3
  <2>5. ps[1] \in ToSet(ps) /\ ps[m] \in ToSet(ps) /\ ps[m] \in PieceType
    BY <2>1, <2>3, <2>4 DEF ToSet
  <2>6. ps[m].question \in Nat
    BY <2>5 DEF PieceType
  <2>. QED
    BY <1>1a, <2>2, <2>3, <2>5, <2>6 DEF LastOf
<1>3. PICK T : T = {k \in 0..n : LastAt(s, k) = k /\ (k # 0 => number[k] = {k})}
  OBVIOUS
<1>4. 0 \in T
  <2>1. LastAt(s, 0) = 0 /\ 0 \in 0..n
    BY DEF LastAt
  <2>. QED
    BY <1>3, <2>1
<1>5. ASSUME NEW k \in 1..n, k - 1 \in T
      PROVE  k \in T
  <2>1. LastAt(s, k - 1) = k - 1 /\ (k # 1 => number[k - 1] = {k - 1})
    BY <1>3, <1>5
  <2>2. Begins(s[k], k - 1)
    BY <1>1, <2>1 DEF InSequence
  <2>3. LastAt(s, k) = LastOf(s[k]) /\ (k - 1) + 1 = k /\ k \in 0..n
    BY DEF LastAt
  <2>4. CASE s[k].number # {}
    <3>1. s[k].pieces[1].question = k /\ s[k].number = {k}
      BY <2>2, <2>3, <2>4 DEF Begins
    <3>2. number[k] = {k}
      BY <1>1a, <2>4, <3>1 DEF NumberAt
    <3>. QED
      BY <1>2, <1>3, <2>3, <3>1, <3>2
  <2>5. CASE s[k].number = {}
    <3>1. number[k] # s[k].number
      BY <1>1a, <2>5
    <3>2. \A j, l \in 1..n : s[j].section = s[l].section
      BY <1>1a, <3>1
    <3>3. number[k] = NumberAt(s, number, k) /\ NumberAt(s, number, k) # {}
      BY <1>1a
    <3>4. /\ k + 1 \in 1..n /\ k + 1 \in s[k + 1].number
          /\ NumberAt(s, number, k) = {k}
      BY <2>1, <2>5, <3>2, <3>3, InferredIsNext
    <3>5. Begins(s[k + 1], LastAt(s, k))
      <4>1. (k + 1) - 1 = k
        OBVIOUS
      <4>2. Begins(s[k + 1], LastAt(s, (k + 1) - 1))
        BY <1>1, <3>4 DEF InSequence
      <4>. QED
        BY <4>1, <4>2
    <3>6. k + 1 = LastAt(s, k) + 1
      BY <3>4, <3>5 DEF Begins
    <3>7. LastAt(s, k) = k
      <4>1. LastAt(s, k) \in Nat
        BY <1>2, <2>3
      <4>. QED
        BY <3>6, <4>1
    <3>. QED
      BY <1>3, <2>3, <3>3, <3>4, <3>7
  <2>. QED
    BY <2>4, <2>5
<1>6. \A k \in 0..n : LastAt(s, k) = k /\ (k # 0 => number[k] = {k})
  <2>1. \A k \in 0..n : k \in T
    BY <1>4, <1>5, UpTo
  <2>. QED
    BY <1>3, <2>1
<1>7. asked = n
  <2>1. n \in 0..n
    OBVIOUS
  <2>. QED
    BY <1>6, <2>1 DEF InSequence
<1>8. \A k \in 1..n : k \in 0..n /\ k # 0 /\ LastAt(s, k) = LastOf(s[k])
  BY DEF LastAt
<1>. QED
  BY <1>2, <1>6, <1>7, <1>8

\* What the audit says of a question, from its number and its flags.
LEMMA AuditSays ==
  ASSUME NEW s \in Seq(QuestionType), NEW n \in Nat, n = Len(s), NEW number, NEW more,
         Audit(s, number, more), NEW k \in 1..n
  PROVE  /\ Audited(s)[k].number = number[k]
         /\ Audited(s)[k].flags = s[k].flags \cup more[k]
         /\ Audited(s)[k].section = s[k].section /\ Audited(s)[k].pieces = s[k].pieces
         /\ number[k] = NumberAt(s, number, k)
         /\ number[k] # s[k].number => "NUMBER_INFERRED" \in more[k]
         /\ number[k] = {} => "MISSING_NUMBER" \in more[k] \/ "ORPHAN_FRAGMENT" \in s[k].flags
<1>1. DOMAIN s = 1..n /\ s[k] \in QuestionType
  OBVIOUS
<1>2. /\ number = [i \in DOMAIN s |-> NumberAt(s, number, i)]
      /\ Audited(s) = [i \in DOMAIN s |-> [s[i] EXCEPT !.number = number[i],
                                                        !.flags = @ \cup more[i]]]
      /\ number[k] # s[k].number => "NUMBER_INFERRED" \in more[k]
      /\ number[k] = {} => "MISSING_NUMBER" \in more[k] \/ "ORPHAN_FRAGMENT" \in s[k].flags
  BY <1>1 DEF Audit
<1>3. PICK q \in QuestionType : q = s[k]
  BY <1>1
<1>4. PICK p : p = [q EXCEPT !.number = number[k], !.flags = @ \cup more[k]]
  OBVIOUS
<1>5. Audited(s)[k] = p
  BY <1>1, <1>2, <1>3, <1>4
<1>6. /\ p.number = number[k] /\ p.flags = q.flags \cup more[k]
      /\ p.section = q.section /\ p.pieces = q.pieces
  <2>. HIDE DEF NumberType, SectionName, Flags, Pieces
  <2>. QED
    BY <1>4 DEF QuestionType
<1>7. number[k] = NumberAt(s, number, k)
  BY <1>1, <1>2
<1>. QED
  BY <1>2, <1>3, <1>5, <1>6, <1>7

LEMMA CleanAtTheEnd ==
  ASSUME Loop, Finish, UNCHANGED lines, InSequence(All, Asked), CertainStitchIsTrue
  PROVE  CleanIsTrue'
<1>1. PICK s \in Seq(QuestionType) :
        /\ s = Closed /\ DOMAIN s = DOMAIN All /\ All \in Seq(QuestionType)
        /\ \A k \in DOMAIN s : Like(s[k], All[k]) /\ Marker \notin s[k].flags
  BY ClosedIs
<1>2. PICK n \in Nat : n = Len(s) /\ DOMAIN s = 1..n
  OBVIOUS
<1>3. InSequence(s, Asked)
  <2>1. \A k \in 1..n : s[k].number = All[k].number /\ s[k].pieces = All[k].pieces
    BY <1>1, <1>2, ClosedKeeps
  <2>2. \A k \in 1..n : LastOf(s[k]) = LastOf(All[k])
    BY <2>1 DEF LastOf
  <2>3. Len(All) = n
    <3>1. PICK m \in Nat : m = Len(All) /\ DOMAIN All = 1..m
      BY <1>1
    <3>2. 1..m = 1..n
      BY <1>1, <1>2, <3>1
    <3>3. m = n
      BY <3>2
    <3>. QED
      BY <3>1, <3>3
  <2>4. \A k \in 0..n : LastAt(s, k) = LastAt(All, k)
    <3>1. \A k \in 0..n : k = 0 \/ k \in 1..n
      OBVIOUS
    <3>. QED
      BY <2>2, <3>1 DEF LastAt
  <2>5. ASSUME NEW k \in 1..n
        PROVE  Begins(s[k], LastAt(s, k - 1))
    <3>1. k - 1 \in 0..n
      OBVIOUS
    <3>2. Begins(All[k], LastAt(All, k - 1))
      BY <1>1, <1>2 DEF InSequence
    <3>. QED
      BY <2>1, <2>4, <3>1, <3>2 DEF Begins
  <2>6. Asked = LastAt(s, n)
    <3>1. n \in 0..n
      OBVIOUS
    <3>. QED
      BY <2>3, <2>4, <3>1 DEF InSequence
  <2>. QED
    BY <1>2, <2>5, <2>6 DEF InSequence
<1>4. PICK number, more : Audit(s, number, more)
  BY AuditedIs
<1>5. PICK t : t = stitched' /\ t = Audited(s) /\ over' = TRUE
  BY <1>1 DEF Finish
<1>6. DOMAIN t = 1..n /\ Len(t) = n
  <2>1. t \in Seq(QuestionType) /\ DOMAIN t = 1..n
    BY <1>1, <1>2, <1>5, AuditedType
  <2>2. PICK m \in Nat : m = Len(t) /\ DOMAIN t = 1..m
    BY <2>1
  <2>3. m = n
    BY <2>1, <2>2
  <2>. QED
    BY <2>2, <2>3
<1>7. \A k \in 1..n :
        /\ t[k].number = number[k] /\ t[k].flags = s[k].flags \cup more[k]
        /\ t[k].section = s[k].section /\ t[k].pieces = s[k].pieces
        /\ number[k] = NumberAt(s, number, k)
        /\ number[k] # s[k].number => "NUMBER_INFERRED" \in more[k]
        /\ number[k] = {} => "MISSING_NUMBER" \in more[k] \/ "ORPHAN_FRAGMENT" \in s[k].flags
  BY <1>2, <1>4, <1>5, AuditSays
<1>8a. PICK mixed \in BOOLEAN : mixed <=> \E k, l \in 1..n : t[k].section # t[l].section
  OBVIOUS
<1>8b. PICK doubts : doubts = IF mixed THEN Warnings \cup {"NUMBER_INFERRED"} ELSE Warnings
  OBVIOUS
<1>9. ASSUME \A k \in 1..n : t[k].flags \cap doubts = {}
      PROVE  /\ Asked = n
             /\ \A k \in 1..n : /\ t[k].number = {k}
                                /\ \A p \in ToSet(t[k].pieces) : p.question = k
  <2>1. /\ "MISSING_NUMBER" \in doubts /\ "ORPHAN_FRAGMENT" \in doubts /\ Uncertainly \in doubts
        /\ mixed => "NUMBER_INFERRED" \in doubts
    BY <1>8b DEF Warnings, Flags, Marker, Uncertainly
  <2>2. \A k \in 1..n : number[k] = NumberAt(s, number, k) /\ number[k] # {}
    BY <1>7, <1>9, <2>1
  <2>3. ASSUME NEW k \in 1..n, number[k] # s[k].number
        PROVE  \A j, l \in 1..n : s[j].section = s[l].section
    <3>2. "NUMBER_INFERRED" \in t[k].flags
      BY <1>7, <2>3
    <3>3. ~mixed
      BY <1>9, <2>1, <3>2
    <3>. QED
      BY <1>7, <1>8a, <3>3
  <2>4. ASSUME NEW k \in 1..n
        PROVE  \A p, r \in ToSet(s[k].pieces) : p.question = r.question
    <3>1. OnePrinted(All[k])
      BY <1>1, <1>2, CertainIs
    <3>2. Uncertainly \notin s[k].flags
      BY <1>7, <1>9, <2>1
    <3>. QED
      BY <1>1, <1>2, <3>1, <3>2 DEF OnePrinted, Like
  <2>5. PICK asked : asked = Asked
    OBVIOUS
  <2>6. InSequence(s, asked)
    BY <1>3, <2>5
  <2>7. /\ asked = n
        /\ \A k \in 1..n : number[k] = {k} /\ \A p \in ToSet(s[k].pieces) : p.question = k
    <3>1. Unwarned(s, number)
      BY <1>2, <2>2, <2>3, <2>4 DEF Unwarned
    <3>. QED
      BY <1>2, <2>6, <3>1, NumbersInSequence
  <2>. QED
    BY <1>7, <2>5, <2>7
<1>10. Asked' = Asked
  BY DEF Asked
<1>11. Mixed' <=> mixed
  BY <1>5, <1>6, <1>8a DEF Mixed
<1>. QED
  BY <1>5, <1>6, <1>8b, <1>9, <1>10, <1>11 DEF CleanIsTrue

-----------------------------------------------------------------------------
(* The order of the questions, as an invariant *)

FragmentsInSequence == FragmentsRead /\ (~over => InSequence(All, question))

LinesInSequence(pos, lo) ==
  /\ LinesRead(pos, lo) /\ pos[0].of = 0
  /\ LinesCount(lines, 0) /\ lines[Len(lines)].of = 2 /\ ItemsCount(pending, lo.of)
  /\ ~over => InSequence(All, lo.of)

ReadsInSequence == FragmentsInSequence \/ \E pos, lo : LinesInSequence(pos, lo)

LEMMA InitInSequence ==
  ASSUME Init, "digits" \notin Layouts
  PROVE  ReadsInSequence
<1>1. All = <<>> /\ pending = <<>> /\ question = 0
  BY InitRead
<1>2. DOMAIN <<>> = {} /\ Len(<<>>) = 0
  OBVIOUS
<1>3. InSequence(All, 0)
  BY <1>1, <1>2 DEF InSequence, LastAt
<1>4. CASE FragmentsRead
  BY <1>1, <1>3, <1>4 DEF ReadsInSequence, FragmentsInSequence
<1>5. ASSUME lines \in Papers, NEW pos, NEW lo, LinesRead(pos, lo), pos[0] = lo, lo.of = 0
      PROVE  ReadsInSequence
  <2>1. LinesCount(lines, 0) /\ lines[Len(lines)].of = 2
    BY <1>5, PaperCounts
  <2>2. ItemsCount(pending, lo.of)
    BY <1>1, <1>2 DEF ItemsCount
  <2>3. LinesInSequence(pos, lo)
    BY <1>3, <1>5, <2>1, <2>2 DEF LinesInSequence
  <2>. QED
    BY <2>3 DEF ReadsInSequence
<1>. QED
  BY <1>4, <1>5, InitRead

LEMMA FragmentInSequence ==
  ASSUME Stitched, ReadsInSequence, Fragment
  PROVE  ReadsInSequence'
<1>1. FragmentsInSequence
  BY DEF ReadsInSequence, LinesInSequence, LinesRead, Fragment
<1>2. FragmentsRead /\ (~over => InSequence(All, question))
  BY <1>1 DEF FragmentsInSequence
<1>3. PICK item \in Reported : /\ TakeItem(item) /\ GoesAfter(item, question)
                               /\ item.piece.question = question'
  BY <1>2, FragmentTaken
<1>4. Loop
  BY DEF Stitched
<1>5. ~over /\ over' = over
  BY <1>3, <1>4, ItemTaken
<1>6. InSequence(All', question')
  BY <1>2, <1>3, <1>4, <1>5, TakeInSequence
<1>7. FragmentsRead'
  BY <1>2, FragmentTaken
<1>. QED
  BY <1>6, <1>7 DEF ReadsInSequence, FragmentsInSequence

LEMMA NextPageInSequence ==
  ASSUME Stitched, ReadsInSequence, NextPage
  PROVE  ReadsInSequence'
<1>1. FragmentsInSequence
  BY DEF ReadsInSequence, LinesInSequence, LinesRead, NextPage
<1>2. FragmentsRead /\ (~over => InSequence(All, question))
  BY <1>1 DEF FragmentsInSequence
<1>3. PICK heading \in SectionName : TurnPage(heading)
  BY DEF NextPage, SectionName
<1>4. All' = All /\ ~over /\ over' = over
  BY <1>3, PageTurned DEF Stitched
<1>5. question' = question /\ lines' = lines /\ lines = <<>>
  BY DEF NextPage
<1>6. FragmentsRead'
  BY <1>2, <1>5, NextPageInv DEF Reads, LinesRead
<1>. QED
  BY <1>2, <1>4, <1>5, <1>6 DEF ReadsInSequence, FragmentsInSequence

LEMMA ReadPageInSequence ==
  ASSUME Stitched, ReadsInSequence, ReadPage
  PROVE  ReadsInSequence'
<1>1. PICK pos, lo : LinesInSequence(pos, lo)
  BY DEF ReadsInSequence, FragmentsInSequence, FragmentsRead, ReadPage
<1>2. /\ LinesRead(pos, lo) /\ pos[0].of = 0
      /\ LinesCount(lines, 0) /\ lines[Len(lines)].of = 2
      /\ ~over => InSequence(All, lo.of)
  BY <1>1 DEF LinesInSequence
<1>3. PICK n \in 1..(Len(lines) - at) :
        /\ pending' = Items(SubSeq(lines, at + 1, at + n), page + 1)
        /\ pending = <<>> /\ TurnPage("") /\ lines' = lines
  BY DEF ReadPage
<1>4. "" \in SectionName
  BY DEF SectionName
<1>5. All' = All /\ ~over /\ over' = over
  BY <1>3, <1>4, PageTurned DEF Stitched
<1>6. LinesRead(pos, lo)'
  BY <1>2, PageRead
<1>7. /\ lines \in Seq(PrintedLine) /\ Run(lines, pos) /\ at \in 0..Len(lines)
      /\ pos[at] = lo
  BY <1>2, <1>3 DEF LinesRead, Between
<1>8. ItemsCount(pending', lo.of)
  <2>1. PICK part, f :
          /\ part \in Seq(PrintedLine)
          /\ part = SubSeq(lines, at + 1, at + n) /\ Run(part, f) /\ f[0] = pos[at]
    <3>1. /\ SubSeq(lines, at + 1, at + n) \in Seq(PrintedLine)
          /\ \E f : /\ Run(SubSeq(lines, at + 1, at + n), f)
                    /\ f[0] = pos[at] /\ f[Len(SubSeq(lines, at + 1, at + n))] = pos[at + n]
      BY <1>7, PartRuns
    <3>2. PICK part : part = SubSeq(lines, at + 1, at + n)
      OBVIOUS
    <3>3. part \in Seq(PrintedLine)
      BY <3>1, <3>2
    <3>4. PICK f : Run(part, f) /\ f[0] = pos[at]
      BY <3>1, <3>2
    <3>. QED
      BY <3>2, <3>3, <3>4
  <2>2. LinesCount(SubSeq(lines, at + 1, at + n), pos[at].of)
    BY <1>2, <1>7, PartCounts
  <2>3. LinesCount(part, f[0].of)
    BY <2>1, <2>2
  <2>4. page + 1 \in Nat
    BY DEF Stitched
  <2>5. ItemsCount(Items(part, page + 1), f[0].of)
    BY <2>1, <2>3, <2>4, PageCounts
  <2>. QED
    BY <1>3, <1>7, <2>1, <2>5
<1>9. LinesInSequence(pos, lo)'
  BY <1>2, <1>3, <1>5, <1>6, <1>8 DEF LinesInSequence
<1>. QED
  BY <1>9 DEF ReadsInSequence

\* The item that is taken goes on from the place of the ones before it.
LEMMA TakenGoesAfter ==
  ASSUME NEW items \in Seq(ItemType), items # <<>>, NEW lo \in Place, PartOf(Head(items), lo),
         ItemsCount(items, lo.of)
  PROVE  /\ TakenItem(Head(items)) \in Reported /\ GoesAfter(TakenItem(Head(items)), lo.of)
         /\ TakenItem(Head(items)).piece.question = Head(items).lines[1]
         /\ ItemsCount(Tail(items), Head(items).lines[1])
<1>1. PICK S : S = ItemType
  OBVIOUS
<1>2. PICK n \in Nat : n = Len(items) /\ DOMAIN items = 1..n /\ n # 0 /\ items \in Seq(S)
  <2>1. items \in Seq(S)
    BY <1>1
  <2>. QED
    BY <2>1, NothingLong
<1>3. PICK x, rest : x = Head(items) /\ rest = Tail(items)
  OBVIOUS
<1>4. /\ x = items[1] /\ x \in S /\ 1 \in 1..n /\ DOMAIN rest = 1..(n - 1)
      /\ \A k \in 1..(n - 1) : rest[k] = items[k + 1]
  BY <1>2, <1>3
<1>5. PICK item \in Reported :
        /\ item = TakenItem(x) /\ item.number = x.number /\ item.piece.question = x.lines[1]
        /\ item.piece.begins <=> x.number # {}
  BY <1>1, <1>3, <1>4, TakenIs DEF PartOf
<1>6. x.number # {} => x.number = {x.lines[1]} /\ x.lines[1] = lo.of + 1
  BY <1>2, <1>4 DEF ItemsCount
<1>7. x.number = {} => x.lines[1] = lo.of
  BY <1>3 DEF PartOf
<1>8. GoesAfter(item, lo.of)
  BY <1>5, <1>6, <1>7 DEF GoesAfter
<1>9. ASSUME NEW k \in 1..(n - 1), rest[k].number # {}
      PROVE  /\ rest[k].number = {rest[k].lines[1]}
             /\ rest[k].lines[1] = (IF k = 1 THEN x.lines[1] ELSE rest[k - 1].lines[1]) + 1
  <2>1. k + 1 \in 1..n /\ k + 1 # 1 /\ (k + 1) - 1 = k /\ rest[k] = items[k + 1]
    BY <1>2, <1>4
  <2>2. /\ items[k + 1].number = {items[k + 1].lines[1]}
        /\ items[k + 1].lines[1] = items[k].lines[1] + 1
    BY <1>2, <1>9, <2>1 DEF ItemsCount
  <2>3. items[k] = (IF k = 1 THEN x ELSE rest[k - 1])
    <3>1. k # 1 => k - 1 \in 1..(n - 1) /\ (k - 1) + 1 = k
      BY <1>2
    <3>. QED
      BY <1>4, <3>1
  <2>. QED
    BY <2>1, <2>2, <2>3
<1>10. ItemsCount(rest, x.lines[1])
  BY <1>4, <1>9 DEF ItemsCount
<1>. QED
  BY <1>3, <1>5, <1>8, <1>10

LEMMA TakePendingInSequence ==
  ASSUME Stitched, ReadsInSequence, TakePending
  PROVE  ReadsInSequence'
<1>1. PICK pos, lo : LinesInSequence(pos, lo)
  BY DEF ReadsInSequence, FragmentsInSequence, FragmentsRead, TakePending
<1>2. /\ LinesRead(pos, lo) /\ pos[0].of = 0
      /\ LinesCount(lines, 0) /\ lines[Len(lines)].of = 2 /\ ItemsCount(pending, lo.of)
      /\ ~over => InSequence(All, lo.of)
  BY <1>1 DEF LinesInSequence
<1>3. /\ pending # <<>> /\ TakeItem(TakenItem(Head(pending)))
      /\ pending' = Tail(pending) /\ lines' = lines
  BY DEF TakePending, TakenItem
<1>4. /\ Run(lines, pos) /\ at \in 0..Len(lines) /\ pending \in Seq(ItemType)
      /\ lo \in Place /\ Between(pending, lo, pos[at])
  BY <1>2 DEF LinesRead
<1>5. pos[at] \in Place
  BY <1>4 DEF Run
<1>6. PartOf(Head(pending), lo)
  BY <1>3, <1>4, <1>5, PendingTaken
<1>7. PICK item \in Reported :
        /\ item = TakenItem(Head(pending)) /\ GoesAfter(item, lo.of)
        /\ item.piece.question = Head(pending).lines[1]
        /\ ItemsCount(Tail(pending), Head(pending).lines[1])
  BY <1>2, <1>3, <1>4, <1>6, TakenGoesAfter
<1>8. Loop /\ ~over /\ over' = over
  BY <1>3, <1>7, ItemTaken DEF Stitched
<1>9. PICK mid : mid.of = Head(pending).lines[1] /\ LinesRead(pos, mid)'
  BY <1>2, ItemOfPageTaken
<1>10. InSequence(All', mid.of)
  BY <1>2, <1>3, <1>7, <1>8, <1>9, TakeInSequence
<1>11. ItemsCount(pending', mid.of)
  BY <1>3, <1>7, <1>9
<1>12. LinesInSequence(pos, mid)'
  BY <1>2, <1>3, <1>9, <1>10, <1>11 DEF LinesInSequence
<1>. QED
  BY <1>12 DEF ReadsInSequence

LEMMA EndsInSequence ==
  ASSUME Stitched, ReadsInSequence, MaxSpurious <= 1, End \/ EndOfLines
  PROVE  ReadsInSequence' /\ CleanIsTrue'
<1>1. Loop /\ Finish /\ UNCHANGED paper /\ CertainStitchIsTrue
  BY DEF Stitched, End, EndOfLines
<1>2. /\ question' = question /\ cut' = cut /\ printed' = printed
      /\ spurious' = spurious /\ lines' = lines /\ at' = at /\ pending' = pending
  BY <1>1 DEF paper
<1>3. ~over /\ over' = TRUE /\ current' = <<>>
  BY <1>1, DocumentEnds DEF Finish
<1>4. CASE FragmentsInSequence
  <2>1. FragmentsRead /\ InSequence(All, question)
    BY <1>3, <1>4 DEF FragmentsInSequence
  <2>2. question = Asked
    BY <2>1 DEF End, EndOfLines, FragmentsRead, Asked
  <2>3. CleanIsTrue'
    BY <1>1, <1>2, <2>1, <2>2, CleanAtTheEnd
  <2>4. FragmentsRead'
    BY <1>2, <1>3, <2>1 DEF FragmentsRead, Reach
  <2>. QED
    BY <1>3, <2>3, <2>4 DEF ReadsInSequence, FragmentsInSequence
<1>5. ASSUME NEW pos, NEW lo, LinesInSequence(pos, lo)
      PROVE  ReadsInSequence' /\ CleanIsTrue'
  <2>1. /\ LinesRead(pos, lo) /\ pos[0].of = 0
        /\ LinesCount(lines, 0) /\ lines[Len(lines)].of = 2 /\ ItemsCount(pending, lo.of)
        /\ InSequence(All, lo.of)
    BY <1>3, <1>5 DEF LinesInSequence
  <2>2. /\ lines \in Seq(PrintedLine) /\ lines # <<>> /\ Run(lines, pos)
        /\ Between(pending, lo, pos[at])
    BY <2>1 DEF LinesRead
  <2>3. at = Len(lines) /\ pending = <<>>
    BY <2>2 DEF End, EndOfLines
  <2>4. pos[at] = lo
    BY <2>2, <2>3 DEF Between
  <2>5. lines[Len(lines)].of = lo.of
    <3>1. PICK S : S = PrintedLine
      OBVIOUS
    <3>2. PICK n \in Nat : n = Len(lines) /\ n # 0
      <4>1. lines \in Seq(S) /\ lines # <<>>
        BY <2>2, <3>1
      <4>. QED
        BY <4>1, NothingLong
    <3>3. n \in 1..n
      BY <3>2
    <3>4. Follows(lines[n], pos[n - 1], pos[n])
      BY <2>2, <3>2, <3>3 DEF Run
    <3>. QED
      BY <2>3, <2>4, <3>2, <3>4 DEF Follows
  <2>6. lo.of = Asked
    BY <2>1, <2>2, <2>5 DEF Asked
  <2>7. CleanIsTrue'
    BY <1>1, <1>2, <2>1, <2>6, CleanAtTheEnd
  <2>8. LinesRead(pos, lo)'
    BY <1>2, <1>3, <2>1 DEF LinesRead, Reach
  <2>9. LinesInSequence(pos, lo)'
    BY <1>2, <1>3, <2>1, <2>8 DEF LinesInSequence
  <2>. QED
    BY <2>7, <2>9 DEF ReadsInSequence
<1>. QED
  BY <1>4, <1>5 DEF ReadsInSequence

LEMMA StutterInSequence ==
  ASSUME ReadsInSequence, CleanIsTrue, UNCHANGED vars
  PROVE  ReadsInSequence' /\ CleanIsTrue'
<1>1. /\ section' = section /\ first' = first /\ current' = current /\ stitched' = stitched
      /\ over' = over
  BY DEF vars, stitching
<1>2. /\ question' = question /\ cut' = cut /\ printed' = printed /\ page' = page
      /\ spurious' = spurious /\ lines' = lines /\ at' = at /\ pending' = pending
  BY DEF vars, paper
<1>3. All' = All
  BY <1>1 DEF All
<1>4. CleanIsTrue'
  BY <1>1, <1>2 DEF CleanIsTrue, Mixed, Asked
<1>5. CASE FragmentsInSequence
  <2>1. FragmentsInSequence'
    BY <1>1, <1>2, <1>3, <1>5 DEF FragmentsInSequence, FragmentsRead, Reach
  <2>. QED
    BY <1>4, <2>1 DEF ReadsInSequence
<1>6. ASSUME NEW pos, NEW lo, LinesInSequence(pos, lo)
      PROVE  ReadsInSequence'
  <2>1. LinesRead(pos, lo)'
    BY <1>1, <1>2, <1>6 DEF LinesInSequence, LinesRead, Reach
  <2>2. LinesInSequence(pos, lo)'
    BY <1>1, <1>2, <1>3, <1>6, <2>1 DEF LinesInSequence
  <2>. QED
    BY <2>2 DEF ReadsInSequence
<1>. QED
  BY <1>4, <1>5, <1>6 DEF ReadsInSequence

\* In a document that is read to its end without a warning each printed question
\* is one question, with its own number and all of its fragments, if no option
\* begins like a number and at most one flag is untrue (CleanIsTrue): the numbers
\* that the model or the lines give, those the audit infers between two of them
\* and the order in which the fragments come leave no other paper.
THEOREM CleanDocumentsAreTrue ==
  ASSUME MaxSpurious <= 1, "digits" \notin Layouts
  PROVE  Spec => []CleanIsTrue
<1>1. Init => Stitched /\ ReadsInSequence /\ CleanIsTrue
  <2>1. SUFFICES ASSUME Init
                 PROVE  Stitched /\ ReadsInSequence /\ CleanIsTrue
    OBVIOUS
  <2>2. Stitched /\ ~over
    BY <2>1, InitRead
  <2>3. CleanIsTrue
    BY <2>2 DEF CleanIsTrue
  <2>. QED
    BY <2>1, <2>2, <2>3, InitInSequence
<1>2. Stitched /\ ReadsInSequence /\ CleanIsTrue /\ [Next]_vars
      => (Stitched /\ ReadsInSequence /\ CleanIsTrue)'
  <2>1. SUFFICES ASSUME Stitched, ReadsInSequence, CleanIsTrue, [Next]_vars
                 PROVE  Stitched' /\ ReadsInSequence' /\ CleanIsTrue'
    OBVIOUS
  <2>2. Reads
    BY <2>1 DEF ReadsInSequence, FragmentsInSequence, LinesInSequence, Reads
  <2>3. ~over' => CleanIsTrue'
    BY DEF CleanIsTrue
  <2>4. CASE Fragment
    <3>1. ~over'
      BY <2>4 DEF Fragment, TakeItem
    <3>. QED
      BY <2>1, <2>2, <2>3, <2>4, <3>1, FragmentInv, FragmentInSequence
  <2>5. CASE NextPage
    <3>1. ~over'
      <4>1. PICK heading : TurnPage(heading)
        BY <2>5 DEF NextPage
      <4>. QED
        BY <4>1 DEF TurnPage
    <3>. QED
      BY <2>1, <2>2, <2>3, <2>5, <3>1, NextPageInv, NextPageInSequence
  <2>6. CASE ReadPage
    <3>1. ~over'
      BY <2>6 DEF ReadPage, TurnPage
    <3>. QED
      BY <2>1, <2>2, <2>3, <2>6, <3>1, ReadPageInv, ReadPageInSequence
  <2>7. CASE TakePending
    <3>1. ~over'
      BY <2>7 DEF TakePending, TakeItem
    <3>. QED
      BY <2>1, <2>2, <2>3, <2>7, <3>1, TakePendingInv, TakePendingInSequence
  <2>8. CASE End \/ EndOfLines
    BY <2>1, <2>2, <2>8, EndsInv, EndsInSequence DEF End, EndOfLines
  <2>9. CASE UNCHANGED vars
    BY <2>1, <2>2, <2>9, StutterInv, StutterInSequence
  <2>. QED
    BY <2>1, <2>4, <2>5, <2>6, <2>7, <2>8, <2>9 DEF Next
<1>. QED
  BY <1>1, <1>2, PTL DEF Spec
=============================================================================
