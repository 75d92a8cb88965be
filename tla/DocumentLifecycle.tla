------------------------- MODULE DocumentLifecycle --------------------------
(***************************************************************************)
(* What a client polling GET /documents/{id}/status is promised of a       *)
(* document that is not reprocessed: it is created queued, some worker     *)
(* begins to process it, and it ends in exactly one of three final         *)
(* statuses and stays there; at any time its owner may delete it.          *)
(***************************************************************************)
VARIABLE status

LiveStatus == {"queued", "processing"}
EndStatus == {"completed", "completed_with_warnings", "failed"}

Init == status = "none"

Create == status = "none" /\ status' = "queued"

Begin == status = "queued" /\ status' = "processing"

End == status = "processing" /\ status' \in EndStatus

\* Deleted, or refused before the row was written.
Discard == status # "gone" /\ status' = "gone"

Next == Create \/ Begin \/ End \/ Discard

Spec == Init /\ [][Next]_status
=============================================================================
