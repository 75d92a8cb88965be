------------------------------ MODULE KeyPage ------------------------------
(***************************************************************************)
(* How the entries of an answer key are read off a page: the parser of     *)
(* app/pipeline/answer_key/parse.py, which keeps track of the sections,    *)
(* the entries that the extractor reports, and what finalize_document      *)
(* makes of the two.                                                       *)
(*                                                                         *)
(* A line of a page is what the patterns of the code find in it.           *)
(***************************************************************************)
EXTENDS AnswerMatch, SequencesExt

Blank == [title |-> FALSE,      \* is_answer_key_heading
          section |-> {},       \* match_section_heading: the words, {}: none
          range |-> <<>>,       \* RANGE_PATTERN: at most one [from, to, values]
          pairs |-> <<>>,       \* pairs, a single entry or a table row: [num, values]
          dense |-> <<>>,       \* ANSWER_KEY_PAIR_REGEX, which sees pairs in any text
          number |-> {},        \* match_question_number
          labels |-> <<>>,      \* parse_inline_options, match_stacked_option
          digits |-> FALSE,     \* the label is a digit, which may also be a number
          answer |-> FALSE,     \* INLINE_ANSWER_REGEX
          ends |-> FALSE,       \* its last character ends a sentence
          of |-> 0]             \* history: the question the line was printed for

SectionType == SUBSET STRING
ValuesType == (SUBSET [kind : {"letter", "digit"}, rank : Nat]) \ {{}}
PairType == [num : Nat, values : ValuesType]
EntryType == [num : Nat, section : SectionType, values : ValuesType]
LineType == [title : BOOLEAN, section : SectionType,
             range : Seq([from : Nat, to : Nat, values : ValuesType]),
             pairs : Seq(PairType), dense : Seq(PairType), number : SUBSET Nat,
             labels : Seq(Nat), digits : BOOLEAN, answer : BOOLEAN, ends : BOOLEAN, of : Nat]

-----------------------------------------------------------------------------
(* parse_answer_key_text *)

RangeMax == 50
Expands(r) == r.from < r.to /\ r.to - r.from <= RangeMax

\* The pairs of a line; a range that does not expand is read like any other line.
PairsOf(line) ==
  IF line.range # <<>> /\ Expands(line.range[1])
  THEN LET r == line.range[1]
       IN [k \in 1..(r.to - r.from + 1) |-> [num |-> r.from + k - 1, values |-> r.values]]
  ELSE line.pairs

TakenAnywhere(entries, section, num) == \E i \in DOMAIN entries : entries[i].num = num
Taken(entries, section, num) ==
  \E i \in DOMAIN entries : entries[i].section = section /\ entries[i].num = num

\* add_entry: of two entries for a number of a section the first one stands.
AddEntry(entries, section, pair) ==
  IF Taken(entries, section, pair.num) THEN entries
  ELSE Append(entries, [num |-> pair.num, section |-> section, values |-> pair.values])

AddPairs(entries, section, pairs) ==
  LET added[k \in 0..Len(pairs)] ==
        IF k = 0 THEN entries ELSE AddEntry(added[k - 1], section, pairs[k])
  IN added[Len(pairs)]

ReadLine(acc, line) ==
  IF line.section # {} THEN [acc EXCEPT !.section = line.section]
  ELSE [acc EXCEPT !.entries = AddPairs(@, acc.section, PairsOf(line))]

\* The section of the page's heading holds until a line names another one.
Parsed(lines, heading) ==
  LET read[k \in 0..Len(lines)] ==
        IF k = 0 THEN [section |-> heading, entries |-> <<>>] ELSE ReadLine(read[k - 1], lines[k])
  IN read[Len(lines)].entries

\* merge_llm_answer_key_entries: what the extractor reports fills the gaps.
Fill(entries, e) ==
  IF e.num = 0 \/ Taken(entries, e.section, e.num) THEN entries ELSE Append(entries, e)
Merged(entries, reported) ==
  LET filled[k \in 0..Len(reported)] ==
        IF k = 0 THEN entries ELSE Fill(filled[k - 1], reported[k])
  IN filled[Len(reported)]

-----------------------------------------------------------------------------
(* detect.py, and the key reader of the rules extractor *)

\* DENSE_KEY_PAIR_PATTERN of detect.py finds what ANSWER_KEY_PAIR_REGEX does.
Dense(lines) == FlattenSeq([i \in DOMAIN lines |-> lines[i].dense])
TitleAtTop(lines) == \E i \in DOMAIN lines : i <= 5 /\ lines[i].title
KeyHeading == {"answer key"}

\* is_answer_key_page; short: the lines of the page are short on average.
IsKeyPage(page, short) ==
  \/ page.isKey \/ page.heading = KeyHeading
  \/ TitleAtTop(page.lines)
  \/ Len(Dense(page.lines)) >= 10 \/ (Len(Dense(page.lines)) >= 6 /\ short)

\* _try_parse_answer_key_page: it knows no sections.
DenseEntries(lines) ==
  LET pairs == Dense(lines)
  IN [i \in DOMAIN pairs |-> [num |-> pairs[i].num, section |-> {}, values |-> pairs[i].values]]

\* The page is taken for an answer key, and no question is looked for on it.
TakenForKey(lines) ==
  LET n == Len(Dense(lines))
  IN n > 0 /\ (TitleAtTop(lines) \/ (n >= 3 /\ 2 * n >= Len(lines)))

LastHeading(lines) ==
  LET headings == {i \in DOMAIN lines : lines[i].section # {}}
  IN IF headings = {} THEN {} ELSE lines[Max(headings)].section

\* RulesExtractor.extract_page, as far as answer keys go: a page of questions gets
\* the last heading on it, a page taken for a key gets none.
ReadByRules(lines) ==
  [lines |-> lines, reported |-> DenseEntries(lines), isKey |-> TakenForKey(lines),
   heading |-> IF TakenForKey(lines) THEN {} ELSE LastHeading(lines)]

-----------------------------------------------------------------------------
(* finalize_document: the entries of a document, page by page *)

EntriesOf(page, hinted, short) ==
  IF IsKeyPage(page, short) \/ hinted \/ page.reported # <<>>
  THEN Merged(Parsed(page.lines, page.heading), page.reported)
  ELSE <<>>

DocumentEntries(pages, hinted, short) ==
  FlattenSeq([k \in DOMAIN pages |-> EntriesOf(pages[k], hinted, short)])
=============================================================================
