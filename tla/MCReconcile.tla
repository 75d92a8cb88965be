---------------------------- MODULE MCReconcile ----------------------------
(* Instances of Reconcile for TLC. *)
EXTENDS Reconcile, TLC

OneQuestion == <<[num |-> 1, section |-> {}, labels |-> {Letter(1), Letter(2)}, inline |-> {}]>>
\* For PrintedAnswerCounts: the answer is printed in the paper.
PrintedQuestion == <<[OneQuestion[1] EXCEPT !.inline = {Letter(2)}]>>

EntryFor(n, k) == [num |-> n, section |-> {}, values |-> {Letter(k)}]
\* The key gives one answer, or two that disagree.
TwoReadings == {<<EntryFor(1, 1)>>, <<EntryFor(1, 1), EntryFor(1, 2)>>}
OneReading == {<<EntryFor(1, 1)>>}
\* For OutOfRangeIsFlagged: the question has no option of the third letter.
AllReadings == TwoReadings \cup {<<EntryFor(1, 2)>>, <<EntryFor(1, 3)>>}

WorkerSymmetry == Permutations(Worker)
=============================================================================
