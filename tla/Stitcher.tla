------------------------------ MODULE Stitcher ------------------------------
(***************************************************************************)
(* stitch_document_extractions of app/pipeline/stitcher.py: the loop that  *)
(* reads the items of the extracted pages in order and joins the fragments *)
(* of questions that run over a page break, and the audit of the numbers   *)
(* and the scores that follow it.                                          *)
(*                                                                         *)
(* An item is what an extractor reports of one fragment: its number (a set *)
(* of at most one), its two continuation flags, the ranks of its option    *)
(* labels, its quality flags, and whether its text and that of the         *)
(* question before it look like one (is_heuristic_continuation).  "piece"  *)
(* names the fragment.  The marker of an open question is never among the  *)
(* quality flags: the loop sets it itself, from the item's continuation    *)
(* flag, so that the list of flags holds it at most once and is a set.     *)
(***************************************************************************)
EXTENDS Confidence

VARIABLES
  section,   \* section_heading of the page
  first,     \* the next item is the first of its page
  current,   \* the question that is still open, as a sequence of at most one
  stitched,  \* the questions that are closed
  over       \* the document is read and audited

stitching == <<section, first, current, stitched, over>>

Marker == "CONTINUES_NEXT_PAGE"
StitchInit == section = "" /\ first = TRUE /\ current = <<>> /\ stitched = <<>> /\ over = FALSE

-----------------------------------------------------------------------------
(* Does an item continue the question before it? *)

CertainWithOneFlag(q, item) == Marker \in q.flags \/ item.starts
\* Both sides of the page break say so.
Certain(q, item) == Marker \in q.flags /\ item.starts
\* One side, or the look of the texts, and no number speaks against it.
Uncertain(q, item) ==
  item.number = {} /\ (item.starts \/ Marker \in q.flags \/ item.alike)

Continues(item) ==
  first /\ current # <<>> /\ (Certain(current[1], item) \/ Uncertain(current[1], item))

-----------------------------------------------------------------------------
(* Merging *)

AppendAsRead(acc, label) == [acc EXCEPT !.labels = Append(@, label)]
\* A label that is taken is replaced by the next one.
AppendLabel(acc, label) ==
  IF label \in ToSet(acc.labels)
  THEN [labels |-> Append(acc.labels, acc.next), next |-> acc.next + 1]
  ELSE [labels |-> Append(acc.labels, label), next |-> Max({acc.next, label + 1})]

MergedLabels(old, new) ==
  LET merged[k \in 0..Len(new)] ==
        IF k = 0 THEN [labels |-> old, next |-> Len(old) + 1] ELSE AppendLabel(merged[k - 1], new[k])
  IN merged[Len(new)].labels

MarkerOf(item) == IF item.continues THEN {Marker} ELSE {}

\* The quality flags of a continuation are not taken over.
Joined(q, item) ==
  [q EXCEPT !.labels = MergedLabels(@, item.labels),
            !.flags = (@ \ {Marker}) \cup MarkerOf(item) \cup
                      {IF Certain(q, item) THEN "CROSS_PAGE_STITCHED" ELSE "STITCH_UNCERTAIN"},
            !.pieces = Append(@, item.piece)]

Opened(item) ==
  LET orphan == first /\ item.starts /\ item.number = {}
  IN [number |-> item.number, section |-> section, labels |-> item.labels,
      flags |-> item.flags \cup MarkerOf(item) \cup (IF orphan THEN {"ORPHAN_FRAGMENT"} ELSE {}),
      pieces |-> <<item.piece>>]

ClosedOnly == stitched
ClosedAsMarked == stitched \o current
\* The questions closed so far and the open one, without the temporary marker.
Closed == stitched \o [k \in DOMAIN current |-> [current[k] EXCEPT !.flags = @ \ {Marker}]]

TakeItem(item) ==
  /\ ~over
  /\ IF Continues(item)
     THEN current' = <<Joined(current[1], item)>> /\ UNCHANGED stitched
     ELSE current' = <<Opened(item)>> /\ stitched' = Closed
  /\ first' = FALSE
  /\ UNCHANGED <<section, over>>

TurnPage(heading) ==
  /\ ~over
  /\ first' = TRUE /\ section' = heading
  /\ UNCHANGED <<current, stitched, over>>

-----------------------------------------------------------------------------
(* The audit of the numbers, by section *)

\* The number between the neighbours n-1 and n+1.
Inferred(before, after) == {n + 1 : n \in {m \in before : m + 2 \in after}}

Gaps(before, number) == {n \in number : \E m \in before : n > m + 1}

Audited(s) ==
  LET Before(i) == {j \in DOMAIN s : j < i /\ s[j].section = s[i].section}
      After(i) == {j \in DOMAIN s : j > i /\ s[j].section = s[i].section}
      \* A number that was inferred counts as the neighbour of the next question.
      number[i \in DOMAIN s] ==
        LET before == IF Before(i) = {} THEN {} ELSE number[Max(Before(i))]
            after == IF After(i) = {} THEN {} ELSE s[Min(After(i))].number
        IN IF s[i].number # {} THEN s[i].number ELSE Inferred(before, after)
      Missing(i) == number[i] = {} /\ "ORPHAN_FRAGMENT" \notin s[i].flags
      Duplicate(i) == number[i] # {} /\ \E j \in Before(i) : number[j] = number[i]
      Gap(i) == Before(i) # {} /\ Gaps(number[Max(Before(i))], number[i]) # {}
  IN [i \in DOMAIN s |->
        [s[i] EXCEPT !.number = number[i],
                     !.flags = @ \cup {f \in {"NUMBER_INFERRED"} : number[i] # s[i].number}
                                 \cup {f \in {"MISSING_NUMBER"} : Missing(i)}
                                 \cup {f \in {"DUPLICATE_NUMBER"} : Duplicate(i)}
                                 \cup {f \in {"NUMBER_GAP"} : Gap(i)}]]

\* compute_question_confidence.  The loop does not depend on the texts, on the
\* type, on the pages' OCR confidence or on the model's: they are arguments here.
Rated(q, hasText, mcq, quality, self) ==
  Evaluated(hasText, mcq, q.labels, q.number, q.flags, quality, self)

\* What is returned: the questions audited, and then each of them Rated.
Finish ==
  /\ ~over
  /\ stitched' = Audited(Closed)
  /\ current' = <<>> /\ over' = TRUE
  /\ UNCHANGED <<section, first>>
=============================================================================
