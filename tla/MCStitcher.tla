----------------------------- MODULE MCStitcher -----------------------------
(***************************************************************************)
(* Printed papers for the stitcher, and extractors that misread them.  The *)
(* paper has the questions 1..QuestionCount in this order, each of them    *)
(* with the options A, B, ...; any of them may be cut at a page break, more *)
(* than once.  An extractor may fail to read any number, any continuation  *)
(* flag and any heading, may start the labels of a later fragment at A     *)
(* again, may report up to MaxSpurious continuation flags that are not     *)
(* true, and may make up the text of up to MaxUngrounded fragments, which  *)
(* the grounding check of process_page flags LOW_GROUNDING.                *)
(*                                                                         *)
(* Or the paper is a sequence of lines, cut into pages anywhere, and the   *)
(* rules of RulesPage read it: two questions with a text of one or two     *)
(* lines, their options in one of Layouts, and perhaps a printed answer.   *)
(***************************************************************************)
EXTENDS Stitcher, RulesPage

CONSTANTS QuestionCount, OptionCount, MaxPages, MaxSpurious, MaxUngrounded,
          Layouts      \* of the options of a question in a paper of lines

ASSUME BoundAssumption ==
  {QuestionCount, OptionCount, MaxPages, MaxSpurious, MaxUngrounded} \subseteq Nat
ASSUME LayoutAssumption == Layouts \subseteq {"none", "one line", "two lines", "stacked", "digits"}

VARIABLES
  question,  \* the question the last fragment is of
  cut,       \* it goes on on the next page
  printed,   \* how many of its options have been printed
  page,      \* the page being read
  spurious,  \* flags reported that are not true
  madeUp,    \* fragments that are not on their page
  seen,      \* the fragments so far: the question each is of
  lines,     \* the lines of the paper (<<>>: it has none) ...
  at,        \* ... how many of them have been read ...
  pending,   \* ... and the items of the page that are not yet taken
  breaks     \* the lines with which pages end

paper == <<question, cut, printed, page, spurious, madeUp, seen, lines, at, pending, breaks>>
vars == <<stitching, paper>>

Texts == {<<TRUE>>, <<FALSE, TRUE>>, <<TRUE, FALSE>>}
Numbered(k, ends) == [Blank EXCEPT !.number = {k}, !.ends = ends, !.of = k]
Unmarked(k, ends) == [Blank EXCEPT !.ends = ends, !.of = k]
Options(k, labels) == [Blank EXCEPT !.labels = labels, !.of = k]
\* "1) ..." is an option and a number.
DigitOption(k, n) == [Blank EXCEPT !.labels = <<n>>, !.digits = TRUE, !.number = {n}, !.of = k]
AnswerLine(k) == [Blank EXCEPT !.answer = TRUE, !.of = k]

LayoutLines(k, layout) ==
  CASE layout = "none" -> <<>>
    [] layout = "one line" -> <<Options(k, <<1, 2, 3, 4>>)>>
    [] layout = "two lines" -> <<Options(k, <<1, 2>>), Options(k, <<3, 4>>)>>
    [] layout = "stacked" -> [n \in 1..4 |-> Options(k, <<n>>)]
    [] layout = "digits" -> [n \in 1..4 |-> DigitOption(k, n)]

PrintedLines(k, text, layout, answer) ==
  <<Numbered(k, text[1])>> \o [n \in 1..(Len(text) - 1) |-> Unmarked(k, text[n + 1])]
  \o LayoutLines(k, layout) \o (IF answer THEN <<AnswerLine(k)>> ELSE <<>>)
PrintedQuestions(k) == {PrintedLines(k, t, l, a) : t \in Texts, l \in Layouts, a \in BOOLEAN}
Heading == [Blank EXCEPT !.ends = TRUE]
Papers == {<<Heading>> \o p \o q : p \in PrintedQuestions(1), q \in PrintedQuestions(2)}

Init == /\ StitchInit
        /\ question = 0 /\ cut = FALSE /\ printed = 0 /\ spurious = 0 /\ madeUp = 0
        /\ seen = <<>> /\ at = 0 /\ pending = <<>> /\ breaks = {}
        /\ \/ lines = <<>> /\ page = 1
           \/ lines \in Papers /\ page = 0

Count(b) == IF b THEN 1 ELSE 0
Labels(from, to, again) == [k \in 1..(to - from) |-> IF again THEN k ELSE from + k]

\* The next fragment: the rest of the question that was cut, or a new question.
\* "starts" and "alike" are only looked at in the first item of a page.
Fragment ==
  /\ lines = <<>>
  /\ cut => first
  /\ cut \/ question < QuestionCount
  /\ \E goesOn, continues, starts, alike, again \in BOOLEAN, to \in 0..OptionCount :
       LET of == IF cut THEN question ELSE question + 1
           from == IF cut THEN printed ELSE 0
       IN \E number \in SUBSET (IF cut THEN {} ELSE {of}), flags \in SUBSET {"LOW_GROUNDING"} :
            /\ goesOn => page < MaxPages
            /\ to >= from /\ (goesOn \/ to = OptionCount)
            /\ (starts \/ alike) => first
            /\ again => from > 0 /\ to > from
            /\ spurious' = spurious + Count(continues /\ ~goesOn) + Count(starts /\ ~cut)
            /\ spurious' <= MaxSpurious
            /\ madeUp' = madeUp + Cardinality(flags) /\ madeUp' <= MaxUngrounded
            /\ TakeItem([number |-> number, starts |-> starts, continues |-> continues,
                         alike |-> alike, labels |-> Labels(from, to, again),
                         flags |-> flags,
                         piece |-> [question |-> of, begins |-> ~cut, grounded |-> flags = {},
                                    lines |-> <<>>]])
            /\ question' = of /\ cut' = goesOn /\ printed' = to
            /\ seen' = Append(seen, of)
            /\ UNCHANGED <<page, lines, at, pending, breaks>>

NextPage ==
  /\ lines = <<>> /\ page < MaxPages
  /\ \E heading \in {"", "Section A"} : TurnPage(heading)
  /\ page' = page + 1
  /\ UNCHANGED <<question, cut, printed, spurious, madeUp, seen, lines, at, pending, breaks>>

End == lines = <<>> /\ question = QuestionCount /\ ~cut /\ Finish /\ UNCHANGED paper

\* The next page of a paper of lines, as the rules read it ...
ReadPage ==
  /\ lines # <<>> /\ pending = <<>> /\ page < MaxPages
  /\ \E n \in 1..(Len(lines) - at) :
       /\ pending' = Items(SubSeq(lines, at + 1, at + n), page + 1)
       /\ at' = at + n
  /\ breaks' = breaks \cup {at'}
  /\ page' = page + 1 /\ TurnPage("")
  /\ UNCHANGED <<question, cut, printed, spurious, madeUp, seen, lines>>

\* ... and the next of its items.
TakePending ==
  /\ pending # <<>>
  /\ LET item == Head(pending)
     IN /\ TakeItem([number |-> item.number, starts |-> item.starts, continues |-> item.continues,
                     alike |-> FALSE, labels |-> item.labels, flags |-> {},
                     piece |-> [question |-> item.lines[1], begins |-> item.number # {},
                                grounded |-> TRUE, lines |-> item.lines]])
        /\ seen' = Append(seen, item.lines[1])
  /\ pending' = Tail(pending)
  /\ UNCHANGED <<question, cut, printed, page, spurious, madeUp, lines, at, breaks>>

EndOfLines == lines # <<>> /\ at = Len(lines) /\ pending = <<>> /\ Finish /\ UNCHANGED paper

Next == Fragment \/ NextPage \/ End \/ ReadPage \/ TakePending \/ EndOfLines
Spec == Init /\ [][Next]_vars

-----------------------------------------------------------------------------
(* Properties *)

Flags == {Marker, "CROSS_PAGE_STITCHED", "STITCH_UNCERTAIN", "ORPHAN_FRAGMENT",
          "NUMBER_INFERRED", "MISSING_NUMBER", "DUPLICATE_NUMBER", "NUMBER_GAP",
          "LOW_GROUNDING"}
Warnings == Flags \ {Marker, "CROSS_PAGE_STITCHED", "NUMBER_INFERRED"}
All == stitched \o current

\* Values are of their types, and a question has at most one number.
TypeOK ==
  /\ section \in {"", "Section A"} /\ first \in BOOLEAN /\ over \in BOOLEAN
  /\ Len(current) <= 1
  /\ \A k \in DOMAIN All : /\ All[k].flags \subseteq Flags
                           /\ All[k].number \subseteq 1..Max({QuestionCount, FullOptions})
                           /\ Cardinality(All[k].number) <= 1
                           /\ All[k].pieces # <<>>
  /\ \A k \in DOMAIN stitched : Marker \notin stitched[k].flags

\* Every fragment of the document is in one question, in the order of the pages,
\* the fragments of a question that is open at the end included.
NothingLost ==
  LET pieces == FlattenSeq([k \in DOMAIN All |-> All[k].pieces])
  IN [k \in DOMAIN pieces |-> pieces[k].question] = seen

\* A stitch that is not marked uncertain joins fragments of one question: with a
\* single untrue flag no two questions are taken for one unnoticed.
CertainStitchIsTrue ==
  \A k \in DOMAIN All :
    "STITCH_UNCERTAIN" \notin All[k].flags =>
      \A p, r \in ToSet(All[k].pieces) : p.question = r.question

\* The labels of a question that has its beginning are A, B, C, ... without a
\* repetition, however the later pages label their options.
LabelsInOrder ==
  \A k \in DOMAIN All :
    All[k].pieces[1].begins => All[k].labels = [n \in DOMAIN All[k].labels |-> n]

Asked == IF lines = <<>> THEN QuestionCount ELSE 2

\* The headings of some pages were read and those of others were not.  The pages
\* without one then count as one section, whatever lies between them, and a
\* number may be inferred between neighbours that are pages apart.
Mixed == \E k, l \in DOMAIN stitched : stitched[k].section # stitched[l].section

\* A document without a warning is the paper as printed: each of its questions
\* once, whole and with its own number.
CleanIsTrue ==
  LET doubts == IF Mixed THEN Warnings \cup {"NUMBER_INFERRED"} ELSE Warnings
  IN over /\ (\A k \in DOMAIN stitched : stitched[k].flags \cap doubts = {}) =>
       /\ Len(stitched) = Asked
       /\ \A k \in DOMAIN stitched :
            /\ stitched[k].number = {k}
            /\ \A p \in ToSet(stitched[k].pieces) : p.question = k

Breaks == breaks \ {Len(lines)}

\* A paper of lines that the rules have read and the stitcher joined is the one
\* printed: each question with its number, with all its lines and no others and
\* with its options in order, wherever the pages end, unless one of them ends
\* between a question and its printed answer.  The stitch is only uncertain when
\* a page ends with a sentence before the options.
LinesAsPrinted ==
  over /\ lines # <<>> /\ (\A b \in Breaks : ~lines[b + 1].answer) =>
    /\ Len(stitched) = Asked
    /\ \A k \in DOMAIN stitched :
         LET own == SelectSeq(lines, LAMBDA line : line.of = k)
         IN /\ stitched[k].number = {k}
            /\ FlattenSeq([i \in DOMAIN stitched[k].pieces |-> stitched[k].pieces[i].lines])
                 = [i \in DOMAIN own |-> k]
            /\ stitched[k].labels = FlattenSeq([i \in DOMAIN own |-> own[i].labels])
            /\ "STITCH_UNCERTAIN" \in stitched[k].flags => \E b \in Breaks :
                 lines[b].of = k /\ lines[b].ends /\ lines[b + 1].of = k

Scores == {0, 500, 850, 1000}
MixedUp(q) == \E p, r \in ToSet(q.pieces) : p.question # r.question

\* A question into which fragments of two printed ones were joined is not
\* reported as extracted, however sure the OCR and the model are of themselves.
MixedIsNotExtracted ==
  over => \A k \in {l \in DOMAIN stitched : MixedUp(stitched[l])} :
    \A mcq \in BOOLEAN, quality, self \in Scores :
      Rated(stitched[k], TRUE, mcq, quality, self).status # "extracted"

\* A question that was printed across pages and read with both flags at every
\* break, its number and its labels in order, from clean text, is extracted: the
\* penalty for a certain stitch sends nobody to review.
WholeIsExtracted ==
  over => \A k \in DOMAIN stitched :
    /\ stitched[k].pieces[1].begins /\ stitched[k].number # {}
    /\ stitched[k].flags \subseteq {"CROSS_PAGE_STITCHED"}
    /\ Len(stitched[k].labels) >= 2
    => Rated(stitched[k], TRUE, TRUE, 1000, 1000).status = "extracted"

-----------------------------------------------------------------------------
(* What the documents of the repository say, and the code does not do *)

\* SPEC.md 8.4 and 10: text that the page does not bear out is flagged
\* LOW_GROUNDING, and such a question needs a review whatever its score.  The
\* flag of a continuation is lost when it is joined.
UngroundedIsReviewed ==
  over => \A k \in DOMAIN stitched :
    (\E p \in ToSet(stitched[k].pieces) : ~p.grounded) =>
      Rated(stitched[k], TRUE, TRUE, 1000, 1000).status = "needs_review"
=============================================================================
