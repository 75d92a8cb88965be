-------------------------- MODULE AnswerMatchProofs --------------------------
(* Theorems about match_question_answers for every paper and every key: what  *)
(* an answer says of the entry it was taken from, and what it does not depend *)
(* on.                                                                        *)
EXTENDS MCAnswerMatch, KeyPageProofs

-----------------------------------------------------------------------------
(* An answer and the entry it was taken from *)

\* The entries of the linked keys, and then those of the own key.
All(keys, own) == keys \o own

ByKey(answer) == answer.status = "matched" /\ answer.source.kind # "inline"

LEMMA SelectedType ==
  ASSUME NEW S, NEW keys \in Seq(S), NEW own \in Seq(S), NEW q
  PROVE  /\ All(keys, own) \in Seq(S)
         /\ Selected(q, keys, own) \in SUBSET Range(All(keys, own))
<1>1. keys \o own \in Seq(S)
  OBVIOUS
<1>2. \A k \in DOMAIN keys : k \in DOMAIN (keys \o own) /\ (keys \o own)[k] = keys[k]
  OBVIOUS
<1>3. \A k \in DOMAIN own : /\ Len(keys) + k \in DOMAIN (keys \o own)
                            /\ (keys \o own)[Len(keys) + k] = own[k]
  OBVIOUS
<1>4. Range(keys) \subseteq Range(keys \o own) /\ Range(own) \subseteq Range(keys \o own)
  BY <1>2, <1>3 DEF Range
<1>5. Candidates(keys, q) \in SUBSET Range(keys) /\ Candidates(own, q) \in SUBSET Range(own)
  BY CandidatesType
<1>. QED
  BY <1>1, <1>4, <1>5 DEF Selected, All

LEMMA KeyAnswerIs ==
  ASSUME NEW q, NEW e, NEW kind, NEW value, value = ToLetters(e.values, q.labels)
  PROVE  /\ InRange(value, q.labels) =>
              /\ KeyAnswer(q, e, kind).status = "matched" /\ KeyAnswer(q, e, kind).value = value
              /\ KeyAnswer(q, e, kind).source = Source(kind, e.id)
         /\ ~InRange(value, q.labels) =>
              /\ KeyAnswer(q, e, kind).status = "invalid" /\ KeyAnswer(q, e, kind).value = {}
              /\ KeyAnswer(q, e, kind).source = Source("none", 0)
BY DEF KeyAnswer, Assigned, NoAnswer

\* An answer is given for the first of the chosen entries, if they are not refused.
LEMMA TakenFrom ==
  ASSUME NEW S, NEW keys \in Seq(S), NEW own \in Seq(S), NEW q, NEW repeated,
         NEW answer, answer = AnswerOf(q, repeated, keys, own),
         NEW chosen, chosen = Selected(q, keys, own),
         NEW entries, entries = All(keys, own),
         q.num # 0, chosen # {}, ~Ambiguous(q, repeated, chosen), ~Conflicting(chosen)
  PROVE  \E e \in chosen : /\ e = entries[Best(entries, chosen)]
                           /\ answer = KeyAnswer(q, e, Kind(q, keys))
<1>1. entries \in Seq(S)
  BY SelectedType
<1>2. chosen \cap Range(entries) # {}
  BY <1>1, SelectedType
<1>3. Best(entries, chosen) \in DOMAIN entries /\ entries[Best(entries, chosen)] \in chosen
  BY <1>1, <1>2, BestIsFirst
<1>4. answer = KeyAnswer(q, entries[Best(entries, chosen)], Kind(q, keys))
  BY <1>1, <1>3 DEF AnswerOf, All
<1>. QED
  BY <1>1, <1>3, <1>4

\* Of a question without a number or without entries no key is asked, and of
\* entries that are refused none is taken.
LEMMA NotTaken ==
  ASSUME NEW keys, NEW own, NEW q, NEW repeated,
         NEW chosen, chosen = Selected(q, keys, own),
         \/ q.num = 0 \/ chosen = {} \/ Ambiguous(q, repeated, chosen) \/ Conflicting(chosen)
  PROVE  /\ ~ByKey(AnswerOf(q, repeated, keys, own))
         /\ AnswerOf(q, repeated, keys, own).source.entry = 0
<1>1. /\ \A status : NoAnswer(status).source = Source("none", 0) /\ NoAnswer(status).status = status
      /\ InlineAnswer(q).source.entry = 0 /\ ~ByKey(InlineAnswer(q))
  BY DEF NoAnswer, InlineAnswer, Assigned, Source, ByKey
<1>2. AnswerOf(q, repeated, keys, own) \in
        {NoAnswer("not_found"), InlineAnswer(q), NoAnswer("ambiguous"), NoAnswer("conflict")}
  BY DEF AnswerOf
<1>. QED
  BY <1>1, <1>2 DEF Source, ByKey

\* An answer of a key is the value of the first chosen entry, which is in range.
LEMMA TakenAnswer ==
  ASSUME NEW S, NEW keys \in Seq(S), NEW own \in Seq(S), NEW q, NEW repeated,
         NEW answer, answer = AnswerOf(q, repeated, keys, own),
         NEW chosen, chosen = Selected(q, keys, own),
         NEW entries, entries = All(keys, own),
         ByKey(answer) \/ answer.source.entry # 0
  PROVE  /\ q.num # 0 /\ ~Ambiguous(q, repeated, chosen) /\ ~Conflicting(chosen)
         /\ \E e \in chosen :
              /\ e = entries[Best(entries, chosen)]
              /\ answer.status = "matched" /\ answer.source.entry = e.id
              /\ answer.value = ToLetters(e.values, q.labels)
              /\ InRange(answer.value, q.labels)
<1>1. /\ q.num # 0 /\ chosen # {}
      /\ ~Ambiguous(q, repeated, chosen) /\ ~Conflicting(chosen)
  BY NotTaken
<1>2. PICK e \in chosen : /\ e = entries[Best(entries, chosen)]
                          /\ answer = KeyAnswer(q, e, Kind(q, keys))
  BY <1>1, TakenFrom
<1>3. PICK value : value = ToLetters(e.values, q.labels)
  OBVIOUS
<1>4. PICK kind : kind = Kind(q, keys)
  OBVIOUS
<1>5. answer = KeyAnswer(q, e, kind)
  BY <1>2, <1>4
<1>6. InRange(value, q.labels)
  <2> SUFFICES ASSUME ~InRange(value, q.labels)
               PROVE  FALSE
    OBVIOUS
  <2>1. answer.status = "invalid" /\ answer.source = Source("none", 0)
    BY <1>3, <1>5, KeyAnswerIs
  <2>. QED
    BY <2>1 DEF Source, ByKey
<1>7. answer.status = "matched" /\ answer.value = value /\ answer.source = Source(kind, e.id)
  BY <1>3, <1>5, <1>6, KeyAnswerIs
<1>8. answer.source.entry = e.id
  BY <1>7 DEF Source
<1>. QED
  BY <1>1, <1>2, <1>3, <1>6, <1>7, <1>8

LEMMA PrintedAnswer ==
  ASSUME NEW S, NEW keys \in Seq(S), NEW own \in Seq(S), NEW q, NEW repeated,
         NEW answer, answer = AnswerOf(q, repeated, keys, own),
         answer.status = "matched", answer.source.kind = "inline"
  PROVE  q.inline # {} /\ answer = InlineAnswer(q)
<1>1. PICK chosen, entries : chosen = Selected(q, keys, own) /\ entries = All(keys, own)
  OBVIOUS
<1>2. \A status : NoAnswer(status).status = status
  BY DEF NoAnswer
<1>3. CASE q.num # 0 /\ chosen # {} /\ ~Ambiguous(q, repeated, chosen) /\ ~Conflicting(chosen)
  <2>1. PICK e \in chosen : answer = KeyAnswer(q, e, Kind(q, keys))
    BY <1>1, <1>3, TakenFrom
  <2>. QED
    BY <2>1 DEF KeyAnswer, Assigned, NoAnswer, Source, Kind
<1>4. CASE \/ q.num = 0 \/ chosen = {} \/ Ambiguous(q, repeated, chosen) \/ Conflicting(chosen)
  BY <1>1, <1>2, <1>4 DEF AnswerOf
<1>. QED
  BY <1>3, <1>4

-----------------------------------------------------------------------------
(* What the answers of a paper are *)

\* The values of a mapped answer are those of the key, or a letter for each.
LEMMA LettersOfSome ==
  ASSUME NEW values, values # {}, NEW labels
  PROVE  ToLetters(values, labels) # {}
BY DEF ToLetters

\* Whatever the keys hold, an answer that is assigned is some value, and one of
\* the question's options (AnswersAreOptions of MCAnswerMatch).
THEOREM AssignedAreOptions ==
  ASSUME NEW S, NEW keys \in Seq(S), NEW own \in Seq(S), NEW asked,
         \A e \in Range(All(keys, own)) : e.values # {}
  PROVE  \A i \in DOMAIN asked :
           LET answer == Answers(asked, keys, own)[i]
           IN answer.status = "matched" =>
                /\ answer.value # {}
                /\ asked[i].labels # {} => answer.value \subseteq asked[i].labels
<1> SUFFICES ASSUME NEW i \in DOMAIN asked, NEW q, q = asked[i],
                    NEW answer, answer = AnswerOf(q, Repeated(asked, i), keys, own),
                    answer.status = "matched"
             PROVE  answer.value # {} /\ (q.labels # {} => answer.value \subseteq q.labels)
  BY DEF Answers
<1>1. CASE ByKey(answer)
  <2>1. PICK repeated, chosen, entries :
          /\ repeated = Repeated(asked, i)
          /\ chosen = Selected(q, keys, own) /\ entries = All(keys, own)
    OBVIOUS
  <2>2. PICK e \in chosen : /\ answer.value = ToLetters(e.values, q.labels)
                            /\ InRange(answer.value, q.labels)
    BY <1>1, <2>1, TakenAnswer
  <2>3. e.values # {}
    BY <2>1, <2>2, SelectedType
  <2>. QED
    BY <2>2, <2>3, LettersOfSome DEF InRange
<1>2. CASE ~ByKey(answer)
  <2>1. PICK repeated : repeated = Repeated(asked, i)
    OBVIOUS
  <2>2. answer.source.kind = "inline"
    BY <1>2 DEF ByKey
  <2>3. q.inline # {} /\ answer = InlineAnswer(q)
    BY <2>1, <2>2, PrintedAnswer
  <2>. QED
    BY <2>3, LettersOfSome DEF InlineAnswer, NoAnswer, Assigned, InRange
<1>. QED
  BY <1>1, <1>2

\* The answers depend on which entries the linked keys have, not on the order in
\* which the database returns them, or on how often (OrderIsIrrelevant).
THEOREM OrderDoesNotMatter ==
  ASSUME NEW S, NEW keys \in Seq(S), NEW other \in Seq(S), Range(keys) = Range(other),
         NEW own \in Seq(S), NEW asked
  PROVE  \A i \in DOMAIN asked :
           /\ Answers(asked, keys, own)[i].status = Answers(asked, other, own)[i].status
           /\ Answers(asked, keys, own)[i].value = Answers(asked, other, own)[i].value
<1> SUFFICES ASSUME NEW i \in DOMAIN asked, NEW q, q = asked[i],
                    NEW repeated, repeated = Repeated(asked, i),
                    NEW answer, answer = AnswerOf(q, repeated, keys, own),
                    NEW second, second = AnswerOf(q, repeated, other, own)
             PROVE  answer.status = second.status /\ answer.value = second.value
  BY DEF Answers
<1>1. Candidates(keys, q) = Candidates(other, q)
  BY DEF Candidates
<1>2. PICK chosen, kind, one, two :
        /\ chosen = Selected(q, keys, own) /\ kind = Kind(q, keys)
        /\ one = All(keys, own) /\ two = All(other, own)
  OBVIOUS
<1>3. chosen = Selected(q, other, own) /\ kind = Kind(q, other)
  BY <1>1, <1>2 DEF Selected, Kind
<1>4. CASE q.num # 0 /\ chosen # {} /\ ~Ambiguous(q, repeated, chosen) /\ ~Conflicting(chosen)
  <2>1. PICK e \in chosen : answer = KeyAnswer(q, e, kind)
    BY <1>2, <1>4, TakenFrom
  <2>2. PICK f \in chosen : second = KeyAnswer(q, f, kind)
    BY <1>2, <1>3, <1>4, TakenFrom
  <2>3. e.values = f.values
    BY <1>4, <2>1, <2>2 DEF Conflicting
  <2>4. PICK value : value = ToLetters(e.values, q.labels)
    OBVIOUS
  <2>5. value = ToLetters(f.values, q.labels)
    BY <2>3, <2>4
  <2>6. CASE InRange(value, q.labels)
    <3>1. answer.status = "matched" /\ answer.value = value
      BY <2>1, <2>4, <2>6, KeyAnswerIs
    <3>2. second.status = "matched" /\ second.value = value
      BY <2>2, <2>5, <2>6, KeyAnswerIs
    <3>. QED
      BY <3>1, <3>2
  <2>7. CASE ~InRange(value, q.labels)
    <3>1. answer.status = "invalid" /\ answer.value = {}
      BY <2>1, <2>4, <2>7, KeyAnswerIs
    <3>2. second.status = "invalid" /\ second.value = {}
      BY <2>2, <2>5, <2>7, KeyAnswerIs
    <3>. QED
      BY <3>1, <3>2
  <2>. QED
    BY <2>6, <2>7
<1>5. CASE \/ q.num = 0 \/ chosen = {} \/ Ambiguous(q, repeated, chosen) \/ Conflicting(chosen)
  BY <1>2, <1>3, <1>5 DEF AnswerOf
<1>. QED
  BY <1>4, <1>5

\* A question whose number another question has as well takes its answer from an
\* entry only when the section of the two is known and the same: it is never
\* guessed between them (SharedNumberNeedsSection).
THEOREM NeverGuessed ==
  ASSUME NEW S, NEW keys \in Seq(S), NEW own \in Seq(S), NEW asked
  PROVE  \A i \in DOMAIN asked :
           LET answer == Answers(asked, keys, own)[i]
           IN Repeated(asked, i) /\ ByKey(answer) =>
                \E e \in Range(All(keys, own)) :
                  /\ e.id = answer.source.entry
                  /\ e.section # {} /\ asked[i].section # {}
                  /\ SectionsMatch(asked[i].section, e.section)
<1> SUFFICES ASSUME NEW i \in DOMAIN asked, NEW q, q = asked[i],
                    NEW answer, answer = AnswerOf(q, Repeated(asked, i), keys, own),
                    ByKey(answer)
             PROVE  Repeated(asked, i) => \E e \in Range(All(keys, own)) :
                      /\ e.id = answer.source.entry
                      /\ e.section # {} /\ q.section # {} /\ SectionsMatch(q.section, e.section)
  BY DEF Answers
<1>1. PICK repeated, chosen, entries :
        /\ repeated = Repeated(asked, i)
        /\ chosen = Selected(q, keys, own) /\ entries = All(keys, own)
  OBVIOUS
<1>2. ~Ambiguous(q, repeated, chosen)
  BY <1>1, TakenAnswer
<1>3. PICK e \in chosen : answer.source.entry = e.id
  BY <1>1, TakenAnswer
<1>4. Repeated(asked, i) => e.section # {} /\ q.section # {} /\ SectionsMatch(q.section, e.section)
  BY <1>1, <1>2, <1>3 DEF Ambiguous, SectionsMatch
<1>5. e \in Range(entries)
  BY <1>1, <1>3, SelectedType
<1>. QED
  BY <1>1, <1>3, <1>4, <1>5

LEMMA StatusIsAnswerStatus ==
  ASSUME NEW S, NEW keys \in Seq(S), NEW own \in Seq(S), NEW q, NEW repeated
  PROVE  AnswerOf(q, repeated, keys, own).status \in AnswerStatus
<1>1. PICK chosen, entries, answer :
        /\ chosen = Selected(q, keys, own) /\ entries = All(keys, own)
        /\ answer = AnswerOf(q, repeated, keys, own)
  OBVIOUS
<1>2. /\ \A status : NoAnswer(status).status = status
      /\ InlineAnswer(q).status \in {"matched", "invalid"}
  BY DEF NoAnswer, InlineAnswer, Assigned
<1>3. CASE q.num # 0 /\ chosen # {} /\ ~Ambiguous(q, repeated, chosen) /\ ~Conflicting(chosen)
  <2>1. PICK e \in chosen : answer = KeyAnswer(q, e, Kind(q, keys))
    BY <1>1, <1>3, TakenFrom
  <2>2. answer.status \in {"matched", "invalid"}
    BY <2>1, KeyAnswerIs
  <2>. QED
    BY <1>1, <2>2 DEF AnswerStatus
<1>4. CASE \/ q.num = 0 \/ chosen = {} \/ Ambiguous(q, repeated, chosen) \/ Conflicting(chosen)
  BY <1>1, <1>2, <1>4 DEF AnswerOf, AnswerStatus
<1>. QED
  BY <1>3, <1>4

\* An entry whose status is matched has answered a question, and an unmatched one
\* has answered none and was not refused together with others (StatusesTell).
THEOREM MatchStatusesTell ==
  ASSUME NEW S, NEW keys \in Seq(S), NEW own \in Seq(S),
         NEW n \in Nat, NEW asked, DOMAIN asked = 1..n, NEW id, id # 0
  PROVE  /\ EntryStatus(asked, keys, own, id) = "matched" =>
              \E i \in DOMAIN asked :
                /\ ByKey(Answers(asked, keys, own)[i])
                /\ Answers(asked, keys, own)[i].source.entry = id
         /\ EntryStatus(asked, keys, own, id) = "unmatched" =>
              \A i \in DOMAIN asked :
                /\ Answers(asked, keys, own)[i].source.entry # id
                /\ Answers(asked, keys, own)[i].status \in {"ambiguous", "conflict"} =>
                     id \notin Marks(asked, keys, own, i)
<1> DEFINE markers == {i \in DOMAIN asked : id \in Marks(asked, keys, own, i)}
           last == CHOOSE i \in markers : \A j \in markers : j <= i
<1>1. PICK given : given = Answers(asked, keys, own)
  OBVIOUS
<1>2. \A i \in DOMAIN asked : given[i].status \in AnswerStatus
  BY <1>1, StatusIsAnswerStatus DEF Answers
<1>3. ASSUME markers # {}
      PROVE  last \in markers
  <2>1. markers \in SUBSET (1..n)
    OBVIOUS
  <2>. HIDE DEF markers
  <2>2. \E k \in markers : \A j \in markers : j <= k
    BY <1>3, <2>1, LastPlace
  <2>. QED
    BY <2>2
<1>4. EntryStatus(asked, keys, own, id) =
        IF markers = {} THEN "unmatched" ELSE given[last].status
  BY <1>1 DEF EntryStatus
<1>. HIDE DEF last
<1>5. ASSUME EntryStatus(asked, keys, own, id) = "matched"
      PROVE  \E i \in DOMAIN asked : ByKey(given[i]) /\ given[i].source.entry = id
  <2>1. last \in markers /\ given[last].status = "matched"
    BY <1>3, <1>4, <1>5
  <2>2. PICK i \in DOMAIN asked : i = last /\ id \in Marks(asked, keys, own, i)
    BY <2>1
  <2>. HIDE DEF markers
  <2>3. PICK q, repeated, chosen, entries, answer :
          /\ q = asked[i] /\ repeated = Repeated(asked, i)
          /\ chosen = Selected(q, keys, own) /\ entries = All(keys, own)
          /\ answer = AnswerOf(q, repeated, keys, own)
    OBVIOUS
  <2>4. given[i] = answer /\ answer.status = "matched"
    BY <1>1, <2>1, <2>2, <2>3 DEF Answers
  <2>5. q.num # 0 /\ chosen # {} /\ id = entries[Best(entries, chosen)].id
    BY <1>1, <2>2, <2>3, <2>4 DEF Marks, All
  <2>6. ~Ambiguous(q, repeated, chosen) /\ ~Conflicting(chosen)
    BY <2>3, <2>4, <2>5 DEF AnswerOf, NoAnswer
  <2>7. PICK e \in chosen : e = entries[Best(entries, chosen)] /\ answer = KeyAnswer(q, e, Kind(q, keys))
    BY <2>3, <2>5, <2>6, TakenFrom
  <2>8. answer.source = Source(Kind(q, keys), e.id)
    BY <2>4, <2>7, KeyAnswerIs
  <2>9. ByKey(answer) /\ answer.source.entry = id
    BY <2>4, <2>5, <2>7, <2>8 DEF ByKey, Source, Kind
  <2>. QED
    BY <2>4, <2>9
<1>6. ASSUME EntryStatus(asked, keys, own, id) = "unmatched", NEW i \in DOMAIN asked
      PROVE  given[i].source.entry # id /\ id \notin Marks(asked, keys, own, i)
  <2>1. markers = {}
    <3>1. SUFFICES ASSUME markers # {}
                   PROVE  FALSE
      OBVIOUS
    <3>2. given[last].status \in AnswerStatus /\ given[last].status = "unmatched"
      BY <1>2, <1>3, <1>4, <1>6, <3>1
    <3>. QED
      BY <3>2 DEF AnswerStatus
  <2>2. id \notin Marks(asked, keys, own, i)
    BY <1>6, <2>1
  <2>. HIDE DEF markers
  <2>3. PICK q, repeated, chosen, entries, answer :
          /\ q = asked[i] /\ repeated = Repeated(asked, i)
          /\ chosen = Selected(q, keys, own) /\ entries = All(keys, own)
          /\ answer = AnswerOf(q, repeated, keys, own)
    OBVIOUS
  <2>4. given[i] = answer
    BY <1>1, <1>6, <2>3 DEF Answers
  <2>5. ASSUME answer.source.entry = id
        PROVE  FALSE
    <3>1. q.num # 0 /\ \E e \in chosen : /\ e = entries[Best(entries, chosen)]
                                         /\ answer.status = "matched" /\ answer.source.entry = e.id
      BY <2>3, <2>5, TakenAnswer
    <3>2. chosen # {} /\ answer.status = "matched" /\ id = entries[Best(entries, chosen)].id
      BY <2>5, <3>1
    <3>3. id \in Marks(asked, keys, own, i)
      BY <1>1, <2>3, <2>4, <3>1, <3>2 DEF Marks, All
    <3>. QED
      BY <2>2, <3>3
  <2>. QED
    BY <2>2, <2>4, <2>5
<1>. QED
  BY <1>1, <1>5, <1>6

-----------------------------------------------------------------------------
(* The keys of the papers *)

NamedEntry == [id : Nat \ {0}, num : Nat, section : SectionType, values : ValuesType]
PoolOf(keys, own) == Range(keys) \cup Range(own)

\* The inductive invariant of the run: the entries have values, and an id is
\* the id of one entry; a question's answer is what the theorems say.
KeysAreNamed ==
  /\ DOMAIN questions = 1..2
  /\ \A i \in 1..2 : {"num", "section", "labels", "inline"} \subseteq DOMAIN questions[i]
  /\ linked \in Seq(NamedEntry) /\ same \in Seq(NamedEntry)
  /\ \A e, f \in PoolOf(linked, same) : e.id = f.id => e = f

LEMMA ClaimsType ==
  ASSUME NEW line \in LineType
  PROVE  Claims(line) \in Seq(PairType)
<1>1. CASE line.range # <<>>
  <2>1. PICK R : R = [from : Nat, to : Nat, values : ValuesType]
    OBVIOUS
  <2>2. line.range \in Seq(R)
    BY <2>1, LineFields
  <2>3. line.range[1] \in R
    BY <1>1, <2>2
  <2>. QED
    BY <1>1, <2>1, <2>3, RangePairs DEF Claims
<1>2. CASE line.range = <<>>
  BY <1>2, LineFields DEF Claims
<1>. QED
  BY <1>1, <1>2

LEMMA SectionOverType ==
  ASSUME NEW text \in Seq(LineType), NEW i \in DOMAIN text
  PROVE  SectionOver(text, i) \in SectionType
<1>1. PICK named : named = {k \in 1..i : text[k].section # {}}
  OBVIOUS
<1>2. CASE named = {}
  BY <1>1, <1>2 DEF SectionOver, SectionType
<1>3. CASE named # {}
  <2>1. i \in Nat /\ named \in SUBSET (1..i) /\ 1..i \subseteq DOMAIN text
    BY <1>1
  <2>2. Max(named) \in DOMAIN text
    BY <1>3, <2>1, MaxIs
  <2>3. text[Max(named)] \in LineType
    BY <2>2
  <2>. QED
    BY <1>1, <1>3, <2>3, LineFields DEF SectionOver
<1>. QED
  BY <1>2, <1>3

LEMMA EntriesType ==
  ASSUME NEW text \in Seq(LineType)
  PROVE  Entries(text) \in Seq(EntryType)
<1>1. PICK E : E = Seq(EntryType)
  OBVIOUS
<1> DEFINE One(i) == [k \in DOMAIN Claims(text[i]) |->
                        [num |-> Claims(text[i])[k].num, section |-> SectionOver(text, i),
                         values |-> Claims(text[i])[k].values]]
<1>2. ASSUME NEW i \in DOMAIN text
      PROVE  One(i) \in E
  <2>1. PICK claims \in Seq(PairType) : claims = Claims(text[i])
    BY ClaimsType
  <2>2. PICK heading \in SectionType : heading = SectionOver(text, i)
    BY SectionOverType
  <2>3. \A k \in DOMAIN claims :
          [num |-> claims[k].num, section |-> heading, values |-> claims[k].values] \in EntryType
    <3>1. \A k \in DOMAIN claims : claims[k] \in PairType
      OBVIOUS
    <3>. QED
      BY <3>1 DEF PairType, EntryType
  <2>4. [k \in DOMAIN claims |->
           [num |-> claims[k].num, section |-> heading, values |-> claims[k].values]]
          \in Seq(EntryType)
    BY <2>3
  <2>. QED
    BY <1>1, <2>1, <2>2, <2>4
<1>3. Entries(text) = FlattenSeq([i \in DOMAIN text |-> One(i)])
  BY DEF Entries
<1>. HIDE DEF One
<1>4. [i \in DOMAIN text |-> One(i)] \in Seq(E)
  BY <1>2
<1>. QED
  BY <1>1, <1>3, <1>4, FlattenType

LEMMA HeadingsOnType ==
  ASSUME NEW lines \in Seq(LineType)
  PROVE  HeadingsOn(lines) \subseteq SectionType
<1>1. \A i \in DOMAIN lines : lines[i].section \in SectionType
  BY LineFields
<1>2. {} \in SectionType /\ KeyHeading \in SectionType
  BY InputAssumption DEF SectionType
<1>. QED
  BY <1>1, <1>2 DEF HeadingsOn

LEMMA ReadingsType ==
  ASSUME NEW lines \in Seq(LineType)
  PROVE  Readings(lines) \subseteq PageType
<1>1. ReadByRules(lines) \in PageType
  <2>1. TakenForKey(lines) \in BOOLEAN
    BY DEF TakenForKey
  <2>2. {} \in SectionType
    BY DEF SectionType
  <2>3. PICK entries \in Seq(EntryType) : entries = DenseEntries(lines)
    BY DenseEntriesType
  <2>4. PICK heading \in SectionType : heading = IF TakenForKey(lines) THEN {} ELSE LastHeading(lines)
    BY <2>2, LastHeadingType
  <2>. HIDE DEF LineType, EntryType, SectionType
  <2>. QED
    BY <2>1, <2>3, <2>4 DEF ReadByRules, PageType
<1>2. ReadByModel(lines) \subseteq PageType
  <2>1. PICK E : E = Seq(EntryType)
    OBVIOUS
  <2>2. {<<>>, Entries(lines)} \subseteq E
    BY <2>1, EntriesType
  <2>3. \A r \in E, h \in SectionType :
          [lines |-> lines, reported |-> r, isKey |-> TRUE, heading |-> h] \in PageType
    BY <2>1 DEF PageType
  <2>. QED
    BY <2>2, <2>3, HeadingsOnType DEF ReadByModel
<1>. QED
  BY <1>1, <1>2 DEF Readings

LEMMA KeyPagesType ==
  ASSUME NEW some \in KeyPages
  PROVE  some \in Seq(PageType)
<1>1. KeyTexts \subseteq Seq(LineType)
  <2>1. ASSUME NEW text \in KeyTexts
        PROVE  text \in Seq(LineType)
    <3>1. PICK n \in 1..MaxLines : text \in [1..n -> KeyLine]
      BY <2>1 DEF KeyTexts
    <3>2. n \in Nat /\ KeyLine \subseteq LineType
      BY InputAssumption
    <3>3. text \in [1..n -> LineType]
      BY <3>1, <3>2
    <3>. QED
      BY <3>2, <3>3
  <2>. QED
    BY <2>1
<1>2. PICK P : P = Seq(PageType)
  OBVIOUS
<1>3. ASSUME NEW text \in KeyTexts, NEW k \in 1..Len(text) - 1,
             NEW p \in Readings(SubSeq(text, 1, k)),
             NEW q \in Readings(SubSeq(text, k + 1, Len(text)))
      PROVE  <<p, q>> \in P
  <2>1. text \in Seq(LineType)
    BY <1>1
  <2>2. SubSeq(text, 1, k) \in Seq(LineType) /\ SubSeq(text, k + 1, Len(text)) \in Seq(LineType)
    BY <2>1
  <2>3. p \in PageType /\ q \in PageType
    BY <2>2, ReadingsType
  <2>. QED
    BY <1>2, <2>3
<1>4. ASSUME NEW text \in KeyTexts, NEW p \in Readings(text)
      PROVE  <<p>> \in P
  BY <1>1, <1>2, ReadingsType
<1>5. \A text \in KeyTexts : Uncut(text) \subseteq P
  BY <1>4 DEF Uncut
<1>6. ASSUME NEW text \in KeyTexts, NEW k \in 1..Len(text) - 1
      PROVE  Cut(text, k) \subseteq P
  BY <1>3 DEF Cut
<1>7. \A text \in KeyTexts : CutAnywhere(text) \subseteq P
  BY <1>6 DEF CutAnywhere
<1>8. PICK text \in KeyTexts : some \in Uncut(text) \cup CutAnywhere(text)
  BY DEF KeyPages
<1>. QED
  BY <1>2, <1>5, <1>7, <1>8

LEMMA NumberedType ==
  ASSUME NEW es \in Seq(EntryType)
  PROVE  /\ Numbered(es) \in Seq(NamedEntry)
         /\ \A e, f \in Range(Numbered(es)) : e.id = f.id => e = f
<1>1. ASSUME NEW i \in DOMAIN es
      PROVE  [id |-> i, num |-> es[i].num, section |-> es[i].section, values |-> es[i].values]
               \in NamedEntry
  <2>1. es[i] \in EntryType /\ i \in Nat \ {0}
    OBVIOUS
  <2>. QED
    BY <2>1 DEF EntryType, NamedEntry
<1>2. Numbered(es) \in Seq(NamedEntry)
  BY <1>1 DEF Numbered
<1>3. \A i \in DOMAIN es : Numbered(es)[i].id = i
  BY DEF Numbered
<1>4. DOMAIN Numbered(es) = DOMAIN es
  BY DEF Numbered
<1>. QED
  BY <1>2, <1>3, <1>4 DEF Range

-----------------------------------------------------------------------------
(* The answers of every paper *)

LEMMA NoEntries ==
  ASSUME NEW S
  PROVE  <<>> \in Seq(S) /\ Range(<<>>) = {}
BY DEF Range

LEMMA GivenKeysAreNamed ==
  ASSUME Given
  PROVE  KeysAreNamed
<1>1. DOMAIN questions = 1..2
  BY DEF Given
<1>2. \A i \in 1..2 : {"num", "section", "labels", "inline"} \subseteq DOMAIN questions[i]
  <2>1. questions[1] \in First /\ questions[2] \in Second
    BY DEF Given
  <2>. QED
    BY <2>1 DEF First, Second
<1>3. Entry(1) \cup Entry(2) \cup Entry(3) \subseteq NamedEntry
  BY InputAssumption DEF Entry, NamedEntry
<1>4. \A k \in 1..3 : \A e \in Entry(k) : e.id = k
  BY DEF Entry
<1> DEFINE Named(keys) == /\ keys \in Seq(NamedEntry)
                          /\ Range(keys) \subseteq Entry(1) \cup Entry(2)
                          /\ \A e, f \in Range(keys) : e.id = f.id => e = f
           Own(keys) == keys \in Seq(NamedEntry) /\ \A e, f \in Range(keys) : e \in Entry(3) /\ e = f
<1>5. Named(linked)
  <2>1. CASE linked = <<>>
    BY <2>1, NoEntries
  <2>2. ASSUME NEW e \in Entry(1), linked = <<e>>
        PROVE  Named(linked)
    BY <1>3, <2>2 DEF Range
  <2>3. ASSUME NEW e \in Entry(1), NEW f \in Entry(2), linked = <<e, f>>
        PROVE  Named(linked)
    <3>1. Range(linked) = {e, f}
      BY <2>3 DEF Range
    <3>2. e.id # f.id
      BY <1>4
    <3>3. linked \in Seq(NamedEntry)
      BY <1>3, <2>3
    <3>. QED
      BY <3>1, <3>2, <3>3
  <2>. QED
    BY <2>1, <2>2, <2>3 DEF Given, LinkedKeys
<1>6. Own(same)
  <2>1. CASE same = <<>>
    BY <2>1, NoEntries
  <2>2. ASSUME NEW e \in Entry(3), same = <<e>>
        PROVE  Own(same)
    BY <1>3, <2>2 DEF Range
  <2>. QED
    BY <2>1, <2>2 DEF Given, OwnKeys
<1>7. \A e, f \in PoolOf(linked, same) : e.id = f.id => e = f
  BY <1>4, <1>5, <1>6 DEF PoolOf
<1>. QED
  BY <1>1, <1>2, <1>5, <1>6, <1>7 DEF KeysAreNamed

LEMMA ReadKeysAreNamed ==
  ASSUME Read
  PROVE  KeysAreNamed
<1>1. DOMAIN questions = 1..2
  BY DEF Read, PrintedQuestions
<1>2. \A i \in 1..2 : {"num", "section", "labels", "inline"} \subseteq DOMAIN questions[i]
  <2>1. questions[1] \in PrintedWith({1}) /\ questions[2] \in PrintedWith({1, 2})
    BY DEF Read, PrintedQuestions
  <2>. QED
    BY <2>1 DEF PrintedWith
<1>3. pages \in Seq(PageType)
  BY KeyPagesType DEF Read
<1>4. CASE linked = <<>> /\ same = Numbered(DocumentEntries(pages, FALSE, TRUE))
  <2>1. DocumentEntries(pages, FALSE, TRUE) \in Seq(EntryType)
    BY <1>3, DocumentEntriesType
  <2>. QED
    BY <1>1, <1>2, <1>4, <2>1, NumberedType, NoEntries DEF KeysAreNamed, PoolOf
<1>5. CASE same = <<>> /\ linked = Numbered(DocumentEntries(pages, TRUE, TRUE))
  <2>1. DocumentEntries(pages, TRUE, TRUE) \in Seq(EntryType)
    BY <1>3, DocumentEntriesType
  <2>. QED
    BY <1>1, <1>2, <1>5, <2>1, NumberedType, NoEntries DEF KeysAreNamed, PoolOf
<1>. QED
  BY <1>4, <1>5 DEF Read

-----------------------------------------------------------------------------
(* What a run of match_question_answers leaves *)

\* A paper that is loaded again differs in the printed answers alone.
SameButInline(payload) ==
  /\ DOMAIN payload = 1..2
  /\ \A i \in 1..2 : /\ payload[i].num = questions[i].num
                     /\ payload[i].section = questions[i].section
                     /\ payload[i].labels = questions[i].labels

LEMMA SameSelection ==
  ASSUME NEW p, NEW q, p.num = q.num, p.section = q.section, NEW keys, NEW own
  PROVE  Selected(p, keys, own) = Selected(q, keys, own) /\ Kind(p, keys) = Kind(q, keys)
<1>1. \A pool : Candidates(pool, p) = Candidates(pool, q)
  BY DEF Candidates
<1>. QED
  BY <1>1 DEF Selected, Kind

\* A printed answer matters only where no entry is chosen.
LEMMA SameWithoutInline ==
  ASSUME NEW S, NEW keys \in Seq(S), NEW own \in Seq(S),
         NEW p, NEW q, p.num = q.num, p.section = q.section, p.labels = q.labels,
         NEW repeated, q.num # 0, Selected(q, keys, own) # {}
  PROVE  AnswerOf(p, repeated, keys, own) = AnswerOf(q, repeated, keys, own)
<1>1. PICK chosen, kind : /\ chosen = Selected(q, keys, own) /\ chosen = Selected(p, keys, own)
                          /\ kind = Kind(q, keys) /\ kind = Kind(p, keys)
  BY SameSelection
<1>2. Ambiguous(p, repeated, chosen) = Ambiguous(q, repeated, chosen)
  BY DEF Ambiguous
<1>3. \A e : KeyAnswer(p, e, kind) = KeyAnswer(q, e, kind)
  BY DEF KeyAnswer
<1>4. PICK one, two, entries : /\ one = AnswerOf(p, repeated, keys, own)
                               /\ two = AnswerOf(q, repeated, keys, own)
                               /\ entries = All(keys, own)
  OBVIOUS
<1>5. CASE Ambiguous(q, repeated, chosen) \/ Conflicting(chosen)
  BY <1>1, <1>2, <1>5 DEF AnswerOf
<1>6. CASE ~ (Ambiguous(q, repeated, chosen) \/ Conflicting(chosen))
  <2>1. /\ chosen # {} /\ p.num # 0 /\ ~Conflicting(chosen)
        /\ ~Ambiguous(p, repeated, chosen) /\ ~Ambiguous(q, repeated, chosen)
    BY <1>1, <1>2, <1>6
  <2>2. \E e \in chosen : e = entries[Best(entries, chosen)] /\ one = KeyAnswer(p, e, Kind(p, keys))
    <3>1. one = AnswerOf(p, repeated, keys, own) /\ chosen = Selected(p, keys, own)
      BY <1>1, <1>4
    <3>. QED
      BY <1>4, <2>1, <3>1, TakenFrom
  <2>3. \E f \in chosen : f = entries[Best(entries, chosen)] /\ two = KeyAnswer(q, f, Kind(q, keys))
    <3>1. two = AnswerOf(q, repeated, keys, own) /\ chosen = Selected(q, keys, own)
      BY <1>1, <1>4
    <3>. QED
      BY <1>4, <2>1, <3>1, TakenFrom
  <2>. QED
    BY <1>1, <1>3, <1>4, <2>2, <2>3
<1>. QED
  BY <1>5, <1>6

LEMMA SameMarks ==
  ASSUME NEW S, NEW keys \in Seq(S), NEW own \in Seq(S),
         NEW payload, DOMAIN questions = 1..2, SameButInline(payload), NEW i \in 1..2
  PROVE  Marks(payload, keys, own, i) = Marks(questions, keys, own, i)
<1>1. Repeated(payload, i) = Repeated(questions, i)
  BY DEF SameButInline, Repeated
<1>2. PICK p, q, repeated : /\ p = payload[i] /\ q = questions[i]
                            /\ repeated = Repeated(payload, i) /\ repeated = Repeated(questions, i)
  BY <1>1
<1>3. p.num = q.num /\ p.section = q.section /\ p.labels = q.labels
  BY <1>2 DEF SameButInline
<1>4. PICK chosen : chosen = Selected(q, keys, own) /\ chosen = Selected(p, keys, own)
  BY <1>3, SameSelection
<1>5. /\ Answers(payload, keys, own)[i] = AnswerOf(p, repeated, keys, own)
      /\ Answers(questions, keys, own)[i] = AnswerOf(q, repeated, keys, own)
  BY <1>2 DEF Answers, SameButInline
<1>6. CASE q.num = 0 \/ chosen = {}
  BY <1>2, <1>3, <1>4, <1>6 DEF Marks
<1>7. CASE q.num # 0 /\ chosen # {}
  <2>1. PICK status : /\ status = AnswerOf(p, repeated, keys, own).status
                      /\ status = AnswerOf(q, repeated, keys, own).status
    BY <1>3, <1>4, <1>7, SameWithoutInline
  <2>2. PICK marks : marks = IF status \in {"ambiguous", "conflict"} THEN {e.id : e \in chosen}
                             ELSE {(keys \o own)[Best(keys \o own, chosen)].id}
    OBVIOUS
  <2>3. Marks(payload, keys, own, i) = marks
    BY <1>2, <1>3, <1>4, <1>5, <1>7, <2>1, <2>2 DEF Marks
  <2>4. Marks(questions, keys, own, i) = marks
    BY <1>2, <1>4, <1>5, <1>7, <2>1, <2>2 DEF Marks
  <2>. QED
    BY <2>3, <2>4
<1>. QED
  BY <1>6, <1>7

LEMMA PoolIsRange ==
  ASSUME NEW S, NEW keys \in Seq(S), NEW own \in Seq(S)
  PROVE  Range(All(keys, own)) = PoolOf(keys, own)
<1>1. keys \o own \in Seq(S) /\ Len(keys \o own) = Len(keys) + Len(own)
  OBVIOUS
<1>2. \A k \in DOMAIN (keys \o own) :
        \/ k \in DOMAIN keys /\ (keys \o own)[k] = keys[k]
        \/ k - Len(keys) \in DOMAIN own /\ (keys \o own)[k] = own[k - Len(keys)]
  OBVIOUS
<1>3. \A k \in DOMAIN keys : k \in DOMAIN (keys \o own) /\ (keys \o own)[k] = keys[k]
  OBVIOUS
<1>4. \A k \in DOMAIN own : /\ Len(keys) + k \in DOMAIN (keys \o own)
                            /\ (keys \o own)[Len(keys) + k] = own[k]
  OBVIOUS
<1>5. Range(keys \o own) \subseteq PoolOf(keys, own)
  BY <1>2 DEF Range, PoolOf
<1>6. PoolOf(keys, own) \subseteq Range(keys \o own)
  BY <1>3, <1>4 DEF Range, PoolOf
<1>. QED
  BY <1>5, <1>6 DEF All

LEMMA ComputedOptions ==
  ASSUME KeysAreNamed, NEW payload, SameButInline(payload), Compute(payload)
  PROVE  AnswersAreOptions'
<1>1. PICK computed : computed = Answers(payload, linked, same)
  OBVIOUS
<1>2. answers' = computed /\ questions' = questions
  BY <1>1 DEF Compute
<1>3. \A e \in Range(All(linked, same)) : e.values # {}
  <2>1. \A e \in NamedEntry : e.values # {}
    BY DEF NamedEntry, ValuesType
  <2>2. Range(All(linked, same)) \subseteq NamedEntry
    BY SelectedType DEF KeysAreNamed, Range
  <2>. QED
    BY <2>1, <2>2
<1>4. linked \in Seq(NamedEntry) /\ same \in Seq(NamedEntry)
  BY DEF KeysAreNamed
<1>5. \A i \in DOMAIN payload :
        computed[i].status = "matched" =>
          /\ computed[i].value # {}
          /\ payload[i].labels # {} => computed[i].value \subseteq payload[i].labels
  BY <1>1, <1>3, <1>4, AssignedAreOptions
<1>6. DOMAIN computed = 1..2 /\ DOMAIN payload = 1..2
  BY <1>1 DEF Answers, SameButInline
<1>. QED
  BY <1>2, <1>5, <1>6 DEF AnswersAreOptions, SameButInline

LEMMA ComputedBySection ==
  ASSUME KeysAreNamed, NEW payload, SameButInline(payload), Compute(payload)
  PROVE  SharedNumberNeedsSection'
<1>1. PICK computed : computed = Answers(payload, linked, same)
  OBVIOUS
<1>2. answers' = computed /\ questions' = questions /\ linked' = linked /\ same' = same
  BY <1>1 DEF Compute
<1>3. linked \in Seq(NamedEntry) /\ same \in Seq(NamedEntry)
  BY DEF KeysAreNamed
<1>4. DOMAIN computed = 1..2 /\ DOMAIN payload = 1..2 /\ DOMAIN questions = 1..2
  BY <1>1 DEF Answers, SameButInline, KeysAreNamed
<1>5. ASSUME NEW i \in 1..2, Repeated(questions, i), ByKey(computed[i])
      PROVE  /\ questions[i].section # {} /\ EntryOf(i)'.section # {}
             /\ SectionsMatch(questions[i].section, EntryOf(i)'.section)
  <2>1. Repeated(payload, i)
    BY <1>4, <1>5 DEF Repeated, SameButInline
  <2>2. PICK e \in Range(All(linked, same)) :
          /\ e.id = computed[i].source.entry
          /\ e.section # {} /\ payload[i].section # {}
          /\ SectionsMatch(payload[i].section, e.section)
    BY <1>1, <1>3, <1>4, <1>5, <2>1, NeverGuessed
  <2>3. e \in PoolOf(linked, same)
    BY <1>3, <2>2, PoolIsRange
  <2>4. PICK pool : pool = PoolOf(linked, same)
    OBVIOUS
  <2>5. EntryOf(i)' = CHOOSE f \in pool : f.id = computed[i].source.entry
    BY <1>2, <2>4 DEF EntryOf, PoolOf, Range
  <2>6. EntryOf(i)' = e
    BY <2>2, <2>3, <2>4, <2>5 DEF KeysAreNamed
  <2>. QED
    BY <2>2, <2>6 DEF SameButInline
<1>. QED
  BY <1>2, <1>4, <1>5 DEF SharedNumberNeedsSection, FromKey, ByKey

LEMMA ComputedStatuses ==
  ASSUME KeysAreNamed, NEW payload, SameButInline(payload), Compute(payload)
  PROVE  StatusesTell'
<1>1. PICK computed : computed = Answers(payload, linked, same)
  OBVIOUS
<1>2. /\ answers' = computed /\ questions' = questions /\ linked' = linked /\ same' = same
      /\ statuses' = [id \in EntryIds |-> EntryStatus(payload, linked, same, id)]
  BY <1>1 DEF Compute
<1>3. linked \in Seq(NamedEntry) /\ same \in Seq(NamedEntry)
  BY DEF KeysAreNamed
<1>4. DOMAIN computed = 1..2 /\ DOMAIN payload = 1..2 /\ DOMAIN questions = 1..2
  BY <1>1 DEF Answers, SameButInline, KeysAreNamed
<1>5. \A id \in EntryIds : id # 0
  <2>1. \A i \in DOMAIN linked : linked[i] \in NamedEntry
    BY <1>3
  <2>2. \A i \in DOMAIN same : same[i] \in NamedEntry
    BY <1>3
  <2>3. \A e \in NamedEntry : e.id # 0
    BY DEF NamedEntry
  <2>. QED
    BY <2>1, <2>2, <2>3 DEF EntryIds
<1>6. ASSUME NEW id \in EntryIds
      PROVE  /\ EntryStatus(payload, linked, same, id) = "matched" =>
                  \E i \in 1..2 : ByKey(computed[i]) /\ computed[i].source.entry = id
             /\ EntryStatus(payload, linked, same, id) = "unmatched" =>
                  \A i \in 1..2 : /\ computed[i].source.entry # id
                                  /\ computed[i].status = "conflict" =>
                                       id \notin Marks(questions, linked, same, i)
  <2>1. 2 \in Nat /\ id # 0
    BY <1>5
  <2>2. PICK n \in Nat : n = 2
    OBVIOUS
  <2>3. DOMAIN payload = 1..n
    BY <1>4, <2>2
  <2>4. /\ EntryStatus(payload, linked, same, id) = "matched" =>
             \E i \in DOMAIN payload :
               /\ ByKey(Answers(payload, linked, same)[i])
               /\ Answers(payload, linked, same)[i].source.entry = id
        /\ EntryStatus(payload, linked, same, id) = "unmatched" =>
             \A i \in DOMAIN payload :
               /\ Answers(payload, linked, same)[i].source.entry # id
               /\ Answers(payload, linked, same)[i].status \in {"ambiguous", "conflict"} =>
                    id \notin Marks(payload, linked, same, i)
    BY <1>3, <2>1, <2>3, MatchStatusesTell
  <2>5. \A i \in 1..2 : Marks(payload, linked, same, i) = Marks(questions, linked, same, i)
    BY <1>3, <1>4, SameMarks
  <2>. QED
    BY <1>1, <1>4, <2>4, <2>5
<1>. QED
  BY <1>2, <1>4, <1>6 DEF StatusesTell, FromKey, ByKey

LEMMA TurnedIsTheSame ==
  ASSUME NEW S, NEW keys \in Seq(S)
  PROVE  Turned(keys) \in Seq(S) /\ Range(Turned(keys)) = Range(keys)
<1>1. \A k \in DOMAIN keys : Len(keys) + 1 - k \in DOMAIN keys
  OBVIOUS
<1>2. Turned(keys) \in Seq(S) /\ DOMAIN Turned(keys) = DOMAIN keys
  BY <1>1 DEF Turned
<1>3. \A k \in DOMAIN keys : /\ Turned(keys)[k] = keys[Len(keys) + 1 - k]
                             /\ Turned(keys)[Len(keys) + 1 - k] = keys[k]
  BY <1>1 DEF Turned
<1>4. PICK turned : turned = Turned(keys)
  OBVIOUS
<1>5. \A x : (\E k \in DOMAIN turned : x = turned[k]) <=> (\E k \in DOMAIN keys : x = keys[k])
  BY ZenonT(60), <1>1, <1>2, <1>3, <1>4
<1>6. Range(turned) = Range(keys)
  BY <1>5 DEF Range
<1>. QED
  BY <1>2, <1>4, <1>6

LEMMA ComputedInAnyOrder ==
  ASSUME KeysAreNamed, Compute(questions)
  PROVE  OrderIsIrrelevant'
<1>1. PICK computed, other : /\ computed = Answers(questions, linked, same)
                             /\ other = Answers(questions, Turned(linked), same)
  OBVIOUS
<1>2. answers' = computed /\ questions' = questions /\ linked' = linked /\ same' = same
  BY <1>1 DEF Compute
<1>3. Answers(questions, Turned(linked), same)' = other
  BY <1>1, <1>2
<1>4. linked \in Seq(NamedEntry) /\ same \in Seq(NamedEntry)
  BY DEF KeysAreNamed
<1>5. PICK turned \in Seq(NamedEntry) : turned = Turned(linked) /\ Range(turned) = Range(linked)
  BY <1>4, TurnedIsTheSame
<1>6. \A i \in DOMAIN questions : /\ computed[i].status = other[i].status
                                  /\ computed[i].value = other[i].value
  BY <1>1, <1>4, <1>5, OrderDoesNotMatter
<1>7. DOMAIN computed = DOMAIN questions
  BY <1>1 DEF Answers
<1>. QED
  BY <1>2, <1>3, <1>6, <1>7 DEF OrderIsIrrelevant

Inv == /\ KeysAreNamed /\ pass \in 0..2
       /\ AnswersAreOptions /\ OrderIsIrrelevant /\ SharedNumberNeedsSection /\ StatusesTell

LEMMA InitInv == Init => Inv
<1> SUFFICES ASSUME Init
             PROVE  Inv
  OBVIOUS
<1>1. KeysAreNamed
  BY GivenKeysAreNamed, ReadKeysAreNamed DEF Init
<1>2. answers = <<>> /\ statuses = <<>> /\ pass = 0 /\ DOMAIN <<>> = {}
  BY DEF Init
<1>. QED
  BY <1>1, <1>2 DEF Inv, AnswersAreOptions, OrderIsIrrelevant, SharedNumberNeedsSection, StatusesTell

LEMMA ComputeInv ==
  ASSUME Inv, NEW payload, SameButInline(payload), Compute(payload),
         \/ pass = 0 /\ payload = questions
         \/ pass = 1
  PROVE  Inv'
<1>1. KeysAreNamed' /\ pass' \in 0..2
  BY DEF Inv, Compute, KeysAreNamed, PoolOf, Range
<1>2. OrderIsIrrelevant'
  <2>1. CASE pass = 0 /\ payload = questions
    BY <2>1, ComputedInAnyOrder DEF Inv
  <2>2. CASE pass = 1
    BY <2>2 DEF Compute, OrderIsIrrelevant
  <2>. QED
    BY <2>1, <2>2
<1>3. AnswersAreOptions' /\ SharedNumberNeedsSection' /\ StatusesTell'
  BY ComputedOptions, ComputedBySection, ComputedStatuses DEF Inv
<1>. QED
  BY <1>1, <1>2, <1>3 DEF Inv

LEMMA NextInv == Inv /\ [Next]_vars => Inv'
<1> SUFFICES ASSUME Inv, [Next]_vars
             PROVE  Inv'
  OBVIOUS
<1>1. CASE Finalize
  <2>1. SameButInline(questions)
    BY DEF Inv, KeysAreNamed, SameButInline
  <2>. QED
    BY <1>1, <2>1, ComputeInv DEF Finalize
<1>2. CASE ReconcileAgain
  <2>1. PICK payload : /\ payload = [i \in DOMAIN questions |-> Reloaded(questions[i], answers[i])]
                       /\ Compute(payload) /\ pass = 1
    BY <1>2 DEF ReconcileAgain
  <2>2. SameButInline(payload)
    BY <2>1 DEF Inv, KeysAreNamed, SameButInline, Reloaded
  <2>. QED
    BY <2>1, <2>2, ComputeInv
<1>3. CASE UNCHANGED vars
  <2>1. /\ questions' = questions /\ linked' = linked /\ same' = same /\ pages' = pages
        /\ answers' = answers /\ statuses' = statuses /\ pass' = pass
    BY <1>3 DEF vars
  <2>2. KeysAreNamed' /\ pass' \in 0..2
    BY <2>1 DEF Inv, KeysAreNamed
  <2>3. AnswersAreOptions' /\ OrderIsIrrelevant'
    BY <2>1 DEF Inv, AnswersAreOptions, OrderIsIrrelevant
  <2>4. SharedNumberNeedsSection'
    <3>1. \A i : EntryOf(i)' = EntryOf(i)
      BY <2>1 DEF EntryOf
    <3>2. \A i : FromKey(i)' = FromKey(i) /\ Repeated(questions, i)' = Repeated(questions, i)
      BY <2>1 DEF FromKey
    <3>. QED
      BY <2>1, <3>1, <3>2 DEF Inv, SharedNumberNeedsSection
  <2>5. StatusesTell'
    BY <2>1 DEF Inv, StatusesTell, FromKey
  <2>. QED
    BY <2>2, <2>3, <2>4, <2>5 DEF Inv
<1>. QED
  BY <1>1, <1>2, <1>3 DEF Next

LEMMA SpecInv == Spec => []Inv
BY InitInv, NextInv, PTL DEF Spec

\* Whatever keys a paper has, given or read from their pages, and after its
\* finalization as after a reconciliation, each of its answers that is assigned
\* is one of the question's options.
THEOREM OptionsAreAssigned == Spec => []AnswersAreOptions
BY SpecInv, PTL DEF Inv

\* After a finalization no status and no value depends on the order in which the
\* database returned the entries of the linked keys.
THEOREM OrderNeverMatters == Spec => []OrderIsIrrelevant
BY SpecInv, PTL DEF Inv

\* In no paper does one of two questions with the same number get an answer from
\* a key without the section of the two being known and the same.
THEOREM SectionIsNeeded == Spec => []SharedNumberNeedsSection
BY SpecInv, PTL DEF Inv

\* The match_status that a finalization or a reconciliation writes to an entry
\* says what happened to it.
THEOREM StatusesAreTrue == Spec => []StatusesTell
BY SpecInv, PTL DEF Inv
=============================================================================
