----------------------------- MODULE Confidence -----------------------------
(***************************************************************************)
(* The confidence and the status of one question                           *)
(* (app/pipeline/confidence.py and validation.py).  Scores are in          *)
(* thousandths, to the nearest of which the code rounds: half of one goes  *)
(* up here, and in the code either way, as its floats happen to fall.      *)
(* Labels are ranks (A is 1), a number is a set of at most one, and        *)
(* hasText says whether the text has five characters.  The grounding of a  *)
(* question is never stored, so that its default counts.                   *)
(***************************************************************************)
EXTENDS Integers, FiniteSets, SequencesExt

Critical == {"MISSING_TEXT", "MCQ_OPTIONS_LT_2", "LOW_GROUNDING", "ORPHAN_FRAGMENT",
             "ANSWER_OUT_OF_RANGE", "PAGE_FAILED"}
ExtractedMin == 850
PartialMin == 600
DefaultGrounding == 900

Less(b, points) == IF b THEN points ELSE 0
Clamped(n) == Max({0, Min({1000, n})})

IsMcq(mcq, labels) == mcq \/ labels # <<>>
TooFew(mcq, labels) == IsMcq(mcq, labels) /\ Len(labels) < 2
Unordered(labels) == Len(labels) >= 2 /\ labels # [k \in DOMAIN labels |-> k]
Twice(labels) == Cardinality(ToSet(labels)) < Len(labels)

\* evaluate_completeness: the score ...
Completeness(hasText, mcq, labels, number, flags) ==
  Clamped(1000 - Less(~hasText, 400) - Less(TooFew(mcq, labels), 400)
               - (IF Twice(labels) THEN 200 ELSE Less(Unordered(labels), 100))
               - Less(number = {} /\ "MISSING_NUMBER" \in flags, 200))
\* ... and the flags it adds.
Detected(hasText, mcq, labels) ==
  {f \in {"MISSING_TEXT"} : ~hasText} \cup {f \in {"MCQ_OPTIONS_LT_2"} : TooFew(mcq, labels)}
  \cup {f \in {"OPTIONS_INCOMPLETE"} : Twice(labels) \/ Unordered(labels)}

Consistency(flags) ==
  Clamped(1000 - Less("NUMBER_GAP" \in flags, 300) - Less("DUPLICATE_NUMBER" \in flags, 500))

AnyStitchPenalty(flags) ==
  Less({"CROSS_PAGE_STITCHED", "STITCH_UNCERTAIN"} \cap flags # {}, 50)
SumOfPenalties(flags) ==
  Less("CROSS_PAGE_STITCHED" \in flags, 150) + Less("STITCH_UNCERTAIN" \in flags, 150)
StitchPenalty(flags) ==
  Less("CROSS_PAGE_STITCHED" \in flags, 50) + Less("STITCH_UNCERTAIN" \in flags, 150)
Penalty(flags) ==
  StitchPenalty(flags) + Less("LLM_FALLBACK_USED" \in flags, 100)
  + Less("FIGURE_UNVERIFIED" \in flags, 50) + Less("TABLE_UNVERIFIED" \in flags, 50)

\* quality: 1000 or the least OCR confidence of its pages; self: what the model
\* says of the first fragment.
Score(quality, completeness, self, flags) ==
  Clamped((300 * quality + 250 * DefaultGrounding + 250 * completeness
           + 100 * self + 100 * Consistency(flags) + 500) \div 1000 - Penalty(flags))

QuestionStatus(score, flags) ==
  IF flags \cap Critical # {} \/ score < PartialMin THEN "needs_review"
  ELSE IF score >= ExtractedMin THEN "extracted" ELSE "partial"

\* compute_item_confidence_and_status
Evaluated(hasText, mcq, labels, number, flags, quality, self) ==
  LET all == flags \cup Detected(hasText, mcq, labels)
      score == Score(quality, Completeness(hasText, mcq, labels, number, flags), self, all)
  IN [score |-> score, status |-> QuestionStatus(score, all), flags |-> all]
=============================================================================
