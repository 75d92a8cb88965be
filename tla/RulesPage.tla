------------------------------ MODULE RulesPage ------------------------------
(***************************************************************************)
(* RulesExtractor.extract_page of app/pipeline/extractors/rules.py: the    *)
(* items of a page of questions from its lines.  It is used where there is *)
(* no model, and falls in for a model that fails.                          *)
(*                                                                         *)
(* An item has the number of the question (a set of at most one), the      *)
(* labels of its options, whether the last line of its text ends a         *)
(* sentence, and the lines that went into it.                              *)
(***************************************************************************)
EXTENDS KeyPage

Item(number, starts) ==
  [number |-> number, starts |-> starts, continues |-> FALSE, labels |-> <<>>,
   text |-> FALSE, ends |-> FALSE, answer |-> FALSE, lines |-> <<>>]

\* The items that are finished and the one that is open, a sequence of at most one.
Unread == [items |-> <<>>, open |-> <<>>]

\* An item with neither text, options nor number is dropped.
HasTextOrNumber(item) == item.text \/ item.number # {}
HasContent(item) == item.text \/ item.labels # <<>> \/ item.number # {}
Finished(acc) ==
  IF acc.open # <<>> /\ HasContent(acc.open[1]) THEN acc.items \o acc.open ELSE acc.items

WithLine(item, line) == [item EXCEPT !.lines = Append(@, line.of)]
WithOptions(item, line) == [WithLine(item, line) EXCEPT !.labels = @ \o line.labels]
WithAnswer(item, line) == [WithLine(item, line) EXCEPT !.answer = TRUE]
\* A line without a mark goes to the last option, or to the text before the options.
WithText(item, line) ==
  IF item.labels # <<>> THEN WithLine(item, line)
  ELSE [WithLine(item, line) EXCEPT !.text = TRUE, !.ends = line.ends]

\* Inside a question: several options on one line, one with a letter, or one
\* with a digit once there are options.  Otherwise a digit is a number.
IsOption(item, line) ==
  line.labels # <<>> /\ (~line.digits \/ Len(line.labels) >= 2 \/ item.labels # <<>>)

\* What a line adds to an item when it starts no question.
Extended(item, line) ==
  IF line.labels # <<>> THEN WithOptions(item, line)
  ELSE IF line.answer THEN WithAnswer(item, line)
  ELSE WithText(item, line)

Continue(acc, line) == [acc EXCEPT !.open = <<Extended(@[1], line)>>]
StartQuestion(acc, line) ==
  [items |-> Finished(acc),
   open |-> <<[WithLine(Item(line.number, FALSE), line) EXCEPT !.text = TRUE, !.ends = line.ends]>>]
\* What stands above the first question of a page goes on from the page before;
\* on the first page it is a title, unless it is an option.
StartFragment(acc, line, pageNo) ==
  IF pageNo = 1 /\ line.labels = <<>> THEN acc
  ELSE [acc EXCEPT !.open = <<Extended(Item({}, pageNo > 1), line)>>]

TakeLine(acc, line, pageNo) ==
  IF line.section # {} THEN acc
  ELSE IF acc.open # <<>> /\ (IsOption(acc.open[1], line) \/ line.answer) THEN Continue(acc, line)
  ELSE IF line.number # {} THEN StartQuestion(acc, line)
  ELSE IF acc.open # <<>> THEN Continue(acc, line)
  ELSE StartFragment(acc, line, pageNo)

\* A question with one to three options, or text that stops in mid-sentence,
\* goes on on the next page.
FullOptions == 4
GoesOn(item) ==
  \/ item.labels # <<>> /\ Len(item.labels) < FullOptions
  \/ item.text /\ ~item.ends /\ item.labels = <<>>

MarkLast(items) ==
  IF items = <<>> THEN items
  ELSE [items EXCEPT ![Len(items)].continues = GoesOn(items[Len(items)])]

\* The lines of the page, one after the other.
LinesTaken(lines, pageNo) ==
  LET taken[k \in 0..Len(lines)] ==
        IF k = 0 THEN Unread ELSE TakeLine(taken[k - 1], lines[k], pageNo)
  IN taken[Len(lines)]

\* A page taken for an answer key has no items.
Items(lines, pageNo) ==
  IF TakenForKey(lines) THEN <<>> ELSE MarkLast(Finished(LinesTaken(lines, pageNo)))
=============================================================================
