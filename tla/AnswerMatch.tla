---------------------------- MODULE AnswerMatch ----------------------------
(***************************************************************************)
(* match_question_answers of app/pipeline/answer_key/match.py: the answers *)
(* of a document's questions from the entries of the linked answer keys,   *)
(* the entries of the document itself and the answers printed beside the   *)
(* questions.  The function is pure; finalize_document and the two         *)
(* reconciliations call it (module Reconcile).                             *)
(*                                                                         *)
(* A question is [num, section, labels, inline], a key entry               *)
(* [id, num, section, values].  A number of 0 is a missing number_norm, a  *)
(* section is the set of the words of its heading ({}: none), labels are   *)
(* the labels of the options, and inline is the answer printed beside the  *)
(* question, as a set of at most one value.                                *)
(***************************************************************************)
EXTENDS Naturals, Sequences, Functions

\* A value as normalize_answer_string leaves it: a letter or a digit, by rank.
Letter(k) == [kind |-> "letter", rank |-> k]
Digit(k) == [kind |-> "digit", rank |-> k]

\* DIGIT_TO_LETTER_MAP has the digits 1 to 8.
MappedRank == 1..8

\* map_digits_to_letters_if_applicable: digits become letters when all labels
\* are letters, all values are such digits, and all their letters are labels.
ToLetters(values, labels) ==
  LET letters == {Letter(v.rank) : v \in values}
  IN IF /\ labels # {} /\ \A l \in labels : l.kind = "letter"
        /\ \A v \in values : v.kind = "digit" /\ v.rank \in MappedRank
        /\ letters \subseteq labels
     THEN letters
     ELSE values

\* Headings match when they are equal or one contains the other.
SectionsMatch(s, t) == s = t \/ (s # {} /\ t # {} /\ (s \subseteq t \/ t \subseteq s))

\* find_candidates: the entries with the question's number whose section
\* matches or, if there are none, all entries with its number.
Candidates(pool, q) ==
  LET numbered == {e \in Range(pool) : e.num = q.num}
      exact == {e \in numbered : /\ e.section # {} /\ q.section # {}
                                 /\ SectionsMatch(e.section, q.section)}
  IN IF exact # {} THEN exact ELSE numbered

\* Precedence: the linked keys, then the document's own key.
Selected(q, linked, same) ==
  IF Candidates(linked, q) # {} THEN Candidates(linked, q) ELSE Candidates(same, q)
AlwaysOwnKey(q, linked) == "answer_key"
Kind(q, linked) == IF Candidates(linked, q) # {} THEN "linked_document" ELSE "answer_key"

\* best_candidate: the place of the first of them.
Best(entries, chosen) ==
  CHOOSE k \in DOMAIN entries :
    entries[k] \in chosen /\ \A j \in 1..(k - 1) : entries[j] \notin chosen

InRangeAny(values, labels) == TRUE
InRange(values, labels) == labels = {} \/ values \subseteq labels

RepeatedAcrossSections(q, repeated, chosen) ==
  /\ repeated
  /\ \E e \in chosen : /\ e.section # {} /\ q.section # {}
                       /\ ~SectionsMatch(e.section, q.section)
\* is_number_ambiguous; repeated: another question has the same number.
Ambiguous(q, repeated, chosen) ==
  /\ repeated
  /\ \E e \in chosen : \/ e.section = {} \/ q.section = {}
                       \/ ~SectionsMatch(e.section, q.section)

NeverConflicting(chosen) == FALSE
Conflicting(chosen) == \E e, f \in chosen : e.values # f.values

(***************************************************************************)
(* QuestionMatchResult: the columns of the question, and the entry behind  *)
(* the answer (0: none).                                                   *)
(***************************************************************************)
AnswerStatus == {"matched", "not_found", "ambiguous", "conflict", "invalid"}
Source(kind, entry) == [kind |-> kind, entry |-> entry]
NoAnswer(status) ==
  [status |-> status, value |-> {}, raw |-> {}, source |-> Source("none", 0)]
Assigned(value, raw, source) ==
  [status |-> "matched", value |-> value, raw |-> raw, source |-> source]

InlineAnswer(q) ==
  LET value == ToLetters(q.inline, q.labels)
  IN IF InRange(value, q.labels)
     THEN Assigned(value, q.inline, Source("inline", 0))
     ELSE [NoAnswer("invalid") EXCEPT !.raw = q.inline]

KeyAnswer(q, best, kind) ==
  LET value == ToLetters(best.values, q.labels)
  IN IF InRange(value, q.labels)
     THEN Assigned(value, best.values, Source(kind, best.id))
     ELSE [NoAnswer("invalid") EXCEPT !.raw = best.values]

\* One iteration of the loop over the questions.
AnswerOf(q, repeated, linked, same) ==
  LET chosen == Selected(q, linked, same)
      entries == linked \o same
      answer == [k \in DOMAIN entries |-> KeyAnswer(q, entries[k], Kind(q, linked))]
  IN CASE q.num = 0 -> NoAnswer("not_found")
       [] q.num # 0 /\ chosen = {} ->
            IF q.inline = {} THEN NoAnswer("not_found") ELSE InlineAnswer(q)
       [] q.num # 0 /\ chosen # {} ->
            IF Ambiguous(q, repeated, chosen) THEN NoAnswer("ambiguous")
            ELSE IF Conflicting(chosen) THEN NoAnswer("conflict")
            ELSE answer[Best(entries, chosen)]

Repeated(questions, i) ==
  \E j \in DOMAIN questions \ {i} : questions[j].num = questions[i].num

Answers(questions, linked, same) ==
  [i \in DOMAIN questions |->
     AnswerOf(questions[i], Repeated(questions, i), linked, same)]

\* The entries whose match_status question i writes: the chosen ones when they
\* are refused together, otherwise the first of them.
Marks(questions, linked, same, i) ==
  LET q == questions[i]
      chosen == Selected(q, linked, same)
      entries == linked \o same
      status == Answers(questions, linked, same)[i].status
  IN IF q.num = 0 \/ chosen = {} THEN {}
     ELSE IF status \in {"ambiguous", "conflict"} THEN {e.id : e \in chosen}
     ELSE {entries[Best(entries, chosen)].id}

AnyMatchOrUnmatched(questions, linked, same, id) ==
  IF \E i \in DOMAIN questions :
       /\ id \in Marks(questions, linked, same, i)
       /\ Answers(questions, linked, same)[i].status = "matched"
  THEN "matched" ELSE "unmatched"
\* entry_match_statuses at the end: the last question that marks an entry
\* decides, and an entry nobody marks is unmatched.
EntryStatus(questions, linked, same, id) ==
  LET markers == {i \in DOMAIN questions : id \in Marks(questions, linked, same, i)}
      last == CHOOSE i \in markers : \A j \in markers : j <= i
  IN IF markers = {} THEN "unmatched"
     ELSE Answers(questions, linked, same)[last].status

\* The payload a reconciliation builds from a question and the answer it
\* stored: the inline answer is remembered only as that of a matched answer.
Reloaded(q, answer) ==
  [q EXCEPT !.inline = IF answer.source.kind = "inline" THEN answer.raw ELSE {}]
=============================================================================
