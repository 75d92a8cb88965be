--------------------------- MODULE MCAnswerMatch ---------------------------
(***************************************************************************)
(* match_question_answers on every small paper and key: two questions of   *)
(* which the second may repeat the first one's number or lack one, up to   *)
(* two entries of linked keys and one of the paper's own key.  A run       *)
(* finalizes the paper and then reconciles it, with nothing changed.       *)
(*                                                                         *)
(* Or the key is read from its pages: a few lines with sections and        *)
(* entries in any layout, cut anywhere into two pages, which the rules or  *)
(* a model report; the questions of the paper are printed in a section     *)
(* ("home") that may not have been read.                                   *)
(***************************************************************************)
EXTENDS KeyPage, FiniteSets

CONSTANTS Headings,    \* the sections, as sets of words
          KeyValues,   \* the values an entry may have
          KeyLine,     \* the lines of a key that is read from its pages ...
          MaxLines,    \* ... and a bound on their number
          Printed,     \* the answers printed beside a question
          MaxLinked    \* bound on the entries of linked keys

ASSUME InputAssumption ==
  /\ Headings \subseteq SectionType /\ KeyValues \subseteq ValuesType
  /\ KeyLine \subseteq LineType /\ MaxLines \in Nat
  /\ KeyHeading \in SectionType

VARIABLES questions, linked, same,
          pages,       \* the pages a key is read from (<<>>: the keys are given)
          answers,     \* <<>> before finalization
          statuses,    \* the match_status of each entry id
          pass         \* how often the answers were computed

vars == <<questions, linked, same, pages, answers, statuses, pass>>

MCHeadings == {{}, {"physics"}, {"physics", "optics"}, {"chemistry"}}
MCKeyValues == {{Letter(1)}, {Digit(1)}, {Digit(2), Digit(3)}}
MCPrinted == {{}, {Digit(2)}, {Letter(3)}}

Labels == {{}, {Letter(1), Letter(2)}}
First == [num : {1}, section : Headings, labels : Labels, inline : Printed]
Second == [num : {0, 1, 2}, section : Headings, labels : {{Letter(1), Letter(2)}}, inline : {{}}]
Entry(id) == [id : {id}, num : {1}, section : Headings, values : KeyValues]
LinkedKeys == {<<>>} \cup {<<e>> : e \in Entry(1)}
              \cup (IF MaxLinked = 2 THEN {<<e, f>> : e \in Entry(1), f \in Entry(2)} ELSE {})
OwnKeys == {<<>>} \cup {<<e>> : e \in Entry(3)}

-----------------------------------------------------------------------------
(* A printed key, and how it is reported *)

Physics == {"physics"}
Chemistry == {"chemistry"}
Pair(n, v) == [num |-> n, values |-> {v}]
Pairs(v, w) == <<Pair(1, v), Pair(2, w)>>

Title == [Blank EXCEPT !.title = TRUE]
Section(s) == [Blank EXCEPT !.section = s]
Single(n, v) == [Blank EXCEPT !.pairs = <<Pair(n, v)>>, !.dense = <<Pair(n, v)>>]   \* "1. A"
Inline(v, w) == [Blank EXCEPT !.pairs = Pairs(v, w), !.dense = Pairs(v, w)]         \* "1-A 2-B"
TableRow(v, w) == [Blank EXCEPT !.pairs = Pairs(v, w)]                              \* "1 A 2 B"
\* "1-2: A", in which the rules see the answer 2 to question 1.
RangeOfTwo(v) == [Blank EXCEPT !.range = <<[from |-> 1, to |-> 2, values |-> {v}]>>,
                               !.dense = <<Pair(1, Digit(2))>>]
\* "1. A body of mass 2 kg", a question, in which they see the answer A.
Stem(n) == [Blank EXCEPT !.dense = <<Pair(n, Letter(1))>>, !.of = n]

A == Letter(1)
B == Letter(2)
MCKeyLine == {Title, Section(Physics), Section(Chemistry), Single(1, A),
              Inline(A, B), TableRow(B, A), RangeOfTwo(B)}
MCStemLine == {Stem(1), Single(1, B), Single(2, A)}

\* What a printed key says: a line's entries are of the section named last
\* above it, on whatever page.
Claims(line) ==
  IF line.range = <<>> THEN line.pairs
  ELSE LET r == line.range[1]
       IN [k \in 1..(r.to - r.from + 1) |-> [num |-> r.from + k - 1, values |-> r.values]]
SectionOver(text, i) ==
  LET named == {k \in 1..i : text[k].section # {}}
  IN IF named = {} THEN {} ELSE text[Max(named)].section
Entries(text) ==
  FlattenSeq([i \in DOMAIN text |->
    [k \in DOMAIN Claims(text[i]) |->
       [num |-> Claims(text[i])[k].num, section |-> SectionOver(text, i),
        values |-> Claims(text[i])[k].values]]])

\* No number is printed twice in a section.
KeyTexts ==
  {text \in UNION {[1..n -> KeyLine] : n \in 1..MaxLines} :
     \A i, j \in DOMAIN Entries(text) :
       /\ i # j
       /\ Entries(text)[i].num = Entries(text)[j].num
       => Entries(text)[i].section # Entries(text)[j].section}

HeadingsOn(lines) ==
  {{}} \cup {lines[i].section : i \in DOMAIN lines}
       \cup (IF TitleAtTop(lines) THEN {KeyHeading} ELSE {})

\* A model reports the entries of a page or leaves them to the parser.
ReadByModel(lines) ==
  {[lines |-> lines, reported |-> r, isKey |-> TRUE, heading |-> h] :
     r \in {<<>>, Entries(lines)}, h \in HeadingsOn(lines)}

Readings(lines) == IF lines = <<>> THEN {} ELSE {ReadByRules(lines)} \cup ReadByModel(lines)
Uncut(text) == {<<p>> : p \in Readings(text)}
Cut(text, k) == {<<p, q>> : p \in Readings(SubSeq(text, 1, k)),
                            q \in Readings(SubSeq(text, k + 1, Len(text)))}
CutAnywhere(text) == UNION {Cut(text, k) : k \in 1..Len(text) - 1}
KeyPages == UNION {Uncut(text) \cup CutAnywhere(text) : text \in KeyTexts}

Homes == {{}, Physics, Chemistry}
PrintedWith(numbers) ==
  {q \in [num : numbers, section : Homes, home : Homes, labels : {{A, B}}, inline : {{}}] :
     q.section \in {{}, q.home}}
PrintedQuestions ==
  {qs \in PrintedWith({1}) \X PrintedWith({1, 2}) :
     qs[1].home # Chemistry /\ (qs[1].num # qs[2].num \/ qs[1].home # qs[2].home)}

Numbered(es) == [i \in DOMAIN es |->
                  [id |-> i, num |-> es[i].num, section |-> es[i].section, values |-> es[i].values]]

EntryIds == {linked[i].id : i \in DOMAIN linked} \cup {same[i].id : i \in DOMAIN same}

Given ==
  /\ questions \in First \X Second
  /\ linked \in LinkedKeys
  /\ same \in OwnKeys
  /\ pages = <<>>

\* The key is the paper's own or a linked document, uploaded as an answer key.
Read ==
  /\ questions \in PrintedQuestions
  /\ pages \in KeyPages
  /\ \/ linked = <<>> /\ same = Numbered(DocumentEntries(pages, FALSE, TRUE))
     \/ same = <<>> /\ linked = Numbered(DocumentEntries(pages, TRUE, TRUE))

Init ==
  /\ Given \/ Read
  /\ answers = <<>>
  /\ statuses = <<>>
  /\ pass = 0

Compute(payload) ==
  /\ answers' = Answers(payload, linked, same)
  /\ statuses' = [id \in EntryIds |-> EntryStatus(payload, linked, same, id)]
  /\ pass' = pass + 1
  /\ UNCHANGED <<questions, linked, same, pages>>

Finalize == pass = 0 /\ Compute(questions)
ReconcileAgain ==
  /\ pass = 1 /\ pages = <<>>
  /\ Compute([i \in DOMAIN questions |-> Reloaded(questions[i], answers[i])])

Next == Finalize \/ ReconcileAgain
Spec == Init /\ [][Next]_vars

-----------------------------------------------------------------------------
FromKey(i) == answers[i].status = "matched" /\ answers[i].source.kind # "inline"
EntryOf(i) == CHOOSE e \in {linked[k] : k \in DOMAIN linked} \cup {same[k] : k \in DOMAIN same} :
                e.id = answers[i].source.entry

\* An answer that is assigned is one of the question's options, whether it was
\* read as a letter or mapped from a digit (match.py: out-of-range -> invalid).
AnswersAreOptions ==
  \A i \in DOMAIN answers :
    answers[i].status = "matched" =>
      /\ answers[i].value # {}
      /\ questions[i].labels # {} => answers[i].value \subseteq questions[i].labels

Turned(pool) == [k \in DOMAIN pool |-> pool[Len(pool) + 1 - k]]

\* The entries of linked keys come in the order the database happens to return
\* them: no question's status or value depends on it.
OrderIsIrrelevant ==
  LET other == Answers(questions, Turned(linked), same)
  IN pass = 1 => \A i \in DOMAIN answers :
       answers[i].status = other[i].status /\ answers[i].value = other[i].value

\* Of questions that share a number, one gets an answer from a key only when
\* its section matches that of the entry: never a guess between them.
SharedNumberNeedsSection ==
  \A i \in DOMAIN answers :
    Repeated(questions, i) /\ FromKey(i) =>
      /\ questions[i].section # {} /\ EntryOf(i).section # {}
      /\ SectionsMatch(questions[i].section, EntryOf(i).section)

\* What an entry's match_status says happened: an unmatched entry answers no
\* question and contradicts none, a matched one answers some question.
StatusesTell ==
  \A id \in DOMAIN statuses :
    /\ statuses[id] = "matched" => \E i \in DOMAIN answers : FromKey(i) /\ answers[i].source.entry = id
    /\ statuses[id] = "unmatched" =>
         \A i \in DOMAIN answers :
           /\ answers[i].source.entry # id
           /\ answers[i].status = "conflict" => id \notin Marks(questions, linked, same, i)

TextOf(some) == FlattenSeq([k \in DOMAIN some |-> some[k].lines])
PrintedText == TextOf(pages)

\* A page whose heading was read begins in that section.
BeginsInSection(k) ==
  LET above == LastHeading(TextOf(SubSeq(pages, 1, k - 1)))
  IN pages[k].heading \in {{}, KeyHeading, above}
     \/ pages[k].lines[1].section = pages[k].heading

Recognised(k) == linked # <<>> \/ IsKeyPage(pages[k], TRUE) \/ pages[k].reported # <<>>

\* The rules find no pair in the text of a question.
NoPairInText == \A i \in DOMAIN PrintedText : PrintedText[i].of = 0

\* Of the answers of a printed key none is given to a question that the key
\* answers otherwise, in whatever layout and on however many pages it is
\* printed, whoever reported its entries and whether or not the section of the
\* question was read, as long as each page is taken for a key, its heading is not
\* one further down the page and no question's text looks like an entry.
AnswersAsPrinted ==
  /\ pages # <<>> /\ NoPairInText
  /\ \A k \in DOMAIN pages : Recognised(k) /\ BeginsInSection(k)
  =>
    \A i \in DOMAIN answers, e \in ToSet(Entries(PrintedText)) :
      FromKey(i) /\ e.num = questions[i].num /\ e.section = questions[i].home =>
        answers[i].value = e.values

-----------------------------------------------------------------------------
(* What the documents of the repository say, and the code does not do *)

\* SPEC.md 9.6: when sources disagree the question is in conflict, so a matched
\* answer is contradicted by no other source.
SourcesAgree ==
  \A i \in DOMAIN answers :
    FromKey(i) =>
      \A k \in DOMAIN same :
        same[k].num = questions[i].num /\ SectionsMatch(same[k].section, questions[i].section)
          => ToLetters(same[k].values, questions[i].labels) = answers[i].value

\* SPEC.md 9.4: a key entry matches by section and number, by number alone only
\* when it has no section; so an entry of another section answers nothing.
SectionRespected ==
  \A i \in DOMAIN answers :
    FromKey(i) /\ questions[i].section # {} /\ EntryOf(i).section # {} =>
      SectionsMatch(questions[i].section, EntryOf(i).section)

\* SPEC.md 11: reconciliation is idempotent, so one that finds the same
\* questions and keys as the finalization before leaves the answers alone.
ReconcileIsIdempotent == pass = 2 => answers = Answers(questions, linked, same)

\* SPEC.md 9.5: a question for which no key has an entry has no answer; so every
\* answer of the own key is printed in it.  The rules take the first letter of
\* a question's text for one.
AnswersArePrinted ==
  pages # <<>> =>
    \A i \in DOMAIN answers :
      FromKey(i) => \E e \in ToSet(Entries(PrintedText)) :
        e.num = questions[i].num /\ e.values = answers[i].value

\* SPEC.md 9.2: sections are tracked, also by a page whose heading is further down.
SectionsAreTracked ==
  pages # <<>> =>
    \A i \in DOMAIN answers, e \in ToSet(Entries(PrintedText)) :
      FromKey(i) /\ e.num = questions[i].num /\ e.section = questions[i].home =>
        answers[i].value = e.values
=============================================================================
