------------------------------- MODULE Review -------------------------------
(***************************************************************************)
(* The owner's corrections and decisions on extracted questions            *)
(* (patch_question and review_question_decision of                         *)
(* app/services/review_service.py) against the two tasks that write the    *)
(* same rows: finalize_document, which replaces them and carries over what *)
(* was reviewed, and reconcile_document_task, which writes their answers   *)
(* (app/workers/tasks.py).                                                 *)
(*                                                                         *)
(* A request loads the row and commits its changes; a commit writes the    *)
(* columns that differ from the row as loaded, and raises when the row is  *)
(* gone.  A finalization loads the reviewed rows, executes its DELETE,     *)
(* which locks every row until the end, and commits the new ones.          *)
(***************************************************************************)
EXTENDS Naturals, Sequences

CONSTANTS Client,        \* requests the owner has under way at once
          Question,      \* the questions printed in the document
          Orders,        \* the sequences of questions an extraction may yield
          MaxRequests, MaxFinal, MaxReconcile, MaxFaults

ASSUME OrderAssumption == Orders \subseteq Seq(Question)
ASSUME BoundAssumption == {MaxRequests, MaxFinal, MaxReconcile, MaxFaults} \subseteq Nat

\* The worst flag an extraction gives a question: MISSING_TEXT, one that no
\* correction removes (LOW_GROUNDING, ORPHAN_FRAGMENT), ANSWER_OUT_OF_RANGE.
Flag == {"none", "text", "grounding", "range"}
Text == [by : {"extractor", "owner"}, of : Question]
Row == [of : Question,             \* the question on the row's source pages
        batch : Nat,               \* with the place in the document, its primary key
        text : Text, flag : Flag,
        answer : {"none", "key", "owner"},
        status : {"extracted", "needs_review"},
        review : {"none", "pending", "approved", "corrected", "rejected"},
        edited : BOOLEAN]

\* The status "partial" is not told from "extracted": neither asks for a review.

VARIABLES
  rows,      \* the questions of the document, by sequence
  batch,     \* how many finalizations have committed
  final,     \* finalize_document: its step and the reviewed rows it loaded
  recon,     \* reconcile_document_task: its step and the rows it loaded
  client,    \* each request: its step, what it asks for, and the row it loaded
  requests, reconciles, faults,
  kept,      \* history: the corrections that were acknowledged and should stand
  approved   \* history: the questions the owner has approved

vars == <<rows, batch, final, recon, client, requests, reconciles, faults, kept, approved>>

NoRequest == [pc |-> "idle", op |-> "approve", at |-> 0, row |-> <<>>]
Init ==
  /\ rows = <<>> /\ batch = 0
  /\ final = [pc |-> "idle", reviewed |-> <<>>]
  /\ recon = [pc |-> "idle", loaded |-> <<>>]
  /\ client = [c \in Client |-> NoRequest]
  /\ requests = 0 /\ reconciles = 0 /\ faults = 0
  /\ kept = {} /\ approved = {}

\* A finalization has executed its DELETE and keeps the rows locked.
Locked == final.pc = "insert"

\* What a flush leaves in the row: the columns that changed are written.
Flushed(row, loaded, new) ==
  [col \in DOMAIN row |-> IF new[col] = loaded[col] THEN row[col] ELSE new[col]]

\* What the owner is asked to look at: list_review_queue_for_document.
Queue ==
  {i \in DOMAIN rows : rows[i].status = "needs_review" \/ rows[i].review = "pending"}

-----------------------------------------------------------------------------
(* Requests *)

Operation == {"patch text", "patch answer", "approve", "reject", "pending"}

Load(c) ==
  /\ client[c].pc = "idle" /\ requests < MaxRequests
  /\ \E op \in Operation, i \in DOMAIN rows :
       client' = [client EXCEPT ![c] = [pc |-> "commit", op |-> op, at |-> i, row |-> <<rows[i]>>]]
  /\ requests' = requests + 1
  /\ UNCHANGED <<rows, batch, final, recon, reconciles, faults, kept, approved>>

\* The status after a correction: critical flags that are not corrected remain.
StatusCorrected(row) ==
  IF row.flag = "grounding" \/ (row.flag = "text" /\ row.text.by = "extractor")
  THEN "needs_review" ELSE "extracted"

Patched(row, op) ==
  LET new == IF op = "patch text"
             THEN [row EXCEPT !.text = [by |-> "owner", of |-> row.of]]
             ELSE [row EXCEPT !.answer = "owner"]
  IN [new EXCEPT !.edited = TRUE, !.review = "corrected", !.status = StatusCorrected(new)]

DecidedAsAsked(row, op) == [row EXCEPT !.review = op]
Decided(row, op) ==
  CASE op = "approve" -> [row EXCEPT !.review = "approved", !.status = "extracted"]
    [] op = "reject"  -> [row EXCEPT !.review = "rejected"]
    [] op = "pending" -> [row EXCEPT !.review = "pending"]

Requested(row, op) ==
  IF op \in {"patch text", "patch answer"} THEN Patched(row, op) ELSE Decided(row, op)

\* The corrections a request makes.
Corrections(old, new) ==
  {<<old.of, col>> : col \in {c \in {"text", "answer"} : old[c] # new[c]}}

\* A correction that lands between the SELECT and the DELETE of a finalization
\* is acknowledged and lost with the row: it is not counted as kept.
Commit(c) ==
  LET i == client[c].at
      loaded == client[c].row[1]
  IN /\ client[c].pc = "commit" /\ ~Locked
     /\ IF i \in DOMAIN rows /\ rows[i].batch = loaded.batch
        THEN /\ rows' = [rows EXCEPT ![i] = Flushed(@, loaded, Requested(loaded, client[c].op))]
             /\ kept' = IF final.pc = "delete" THEN kept
                       ELSE kept \cup Corrections(loaded, Requested(loaded, client[c].op))
            /\ approved' = IF client[c].op = "approve" THEN approved \cup {loaded.of} ELSE approved
        ELSE UNCHANGED <<rows, kept, approved>>
     /\ client' = [client EXCEPT ![c] = NoRequest]
     /\ UNCHANGED <<batch, final, recon, requests, reconciles, faults>>

-----------------------------------------------------------------------------
(* finalize_document *)

ReviewedAtAll(row) == row.review # "none"
ReviewedByState(row) == row.review \in {"approved", "corrected"}
Reviewed(row) == row.edited \/ row.review \in {"approved", "corrected"}

FinalSelect ==
  /\ final.pc = "idle" /\ batch < MaxFinal
  /\ final' = [pc |-> "delete",
               reviewed |-> [i \in {k \in DOMAIN rows : Reviewed(rows[k])} |-> rows[i]]]
  /\ UNCHANGED <<rows, batch, recon, client, requests, reconciles, faults, kept, approved>>

FinalDelete ==
  /\ final.pc = "delete"
  /\ final' = [final EXCEPT !.pc = "insert"]
  /\ UNCHANGED <<rows, batch, recon, client, requests, reconciles, faults, kept, approved>>

\* A question as extracted; the flag of its answer comes after its status.
Extracted(q, flag, answer) ==
  [of |-> q, batch |-> batch + 1, text |-> [by |-> "extractor", of |-> q], flag |-> flag,
   answer |-> answer,
   status |-> IF flag \in {"text", "grounding"} THEN "needs_review" ELSE "extracted",
   review |-> "none", edited |-> FALSE]

\* ... with what the reviewed row of the same sequence held.
CarriedOver(new, prev) ==
  [new EXCEPT !.text = prev.text, !.answer = prev.answer, !.status = "extracted",
              !.review = prev.review, !.edited = prev.edited]

FinalInsert ==
  /\ Locked
  /\ \E order \in Orders : \E flag \in [DOMAIN order -> Flag], answer \in {"none", "key"} :
       rows' = [i \in DOMAIN order |->
                  LET new == Extracted(order[i], flag[i], answer)
                  IN IF i \in DOMAIN final.reviewed THEN CarriedOver(new, final.reviewed[i])
                     ELSE new]
  /\ batch' = batch + 1
  /\ final' = [pc |-> "idle", reviewed |-> <<>>]
  /\ UNCHANGED <<recon, client, requests, reconciles, faults, kept, approved>>

\* The worker is lost: the transaction is rolled back and the task redelivered.
FinalLost ==
  /\ final.pc # "idle" /\ faults < MaxFaults
  /\ final' = [pc |-> "idle", reviewed |-> <<>>]
  /\ faults' = faults + 1
  /\ UNCHANGED <<rows, batch, recon, client, requests, reconciles, kept, approved>>

-----------------------------------------------------------------------------
(* reconcile_document_task *)

ReconRead ==
  /\ recon.pc = "idle" /\ reconciles < MaxReconcile
  /\ recon' = [pc |-> "save", loaded |-> rows]
  /\ reconciles' = reconciles + 1
  /\ UNCHANGED <<rows, batch, final, client, requests, faults, kept, approved>>

\* The answers it finds are written to every question, reviewed or not.
ReconSave ==
  /\ recon.pc = "save"
  /\ \E answer \in {"none", "key"} :
       LET changed == {i \in DOMAIN recon.loaded : recon.loaded[i].answer # answer}
           stale == \E i \in changed : i \notin DOMAIN rows
                                       \/ rows[i].batch # recon.loaded[i].batch
       IN /\ Locked => changed = {}
          /\ IF stale THEN UNCHANGED <<rows, kept>>
             ELSE /\ rows' = [i \in DOMAIN rows |->
                                IF i \in changed THEN [rows[i] EXCEPT !.answer = answer]
                                ELSE rows[i]]
                  /\ kept' = kept \ {<<recon.loaded[i].of, "answer">> : i \in changed}
  /\ recon' = [pc |-> "idle", loaded |-> <<>>]
  /\ UNCHANGED <<batch, final, client, requests, reconciles, faults, approved>>

-----------------------------------------------------------------------------
Next == \/ \E c \in Client : Load(c) \/ Commit(c)
        \/ FinalSelect \/ FinalDelete \/ FinalInsert \/ FinalLost
        \/ ReconRead \/ ReconSave

Spec == Init /\ [][Next]_vars

-----------------------------------------------------------------------------
(* Properties *)

TypeOK ==
  /\ rows \in Seq(Row) /\ batch \in 0..MaxFinal
  /\ final.pc \in {"idle", "delete", "insert"} /\ recon.pc \in {"idle", "save"}
  /\ \A i \in DOMAIN final.reviewed : final.reviewed[i] \in Row
  /\ \A c \in Client : client[c].pc \in {"idle", "commit"} /\ client[c].op \in Operation
  /\ kept \subseteq Question \X {"text", "answer"} /\ approved \subseteq Question

Standing(q, col) ==
  \E i \in DOMAIN rows : /\ rows[i].of = q
                         /\ col = "text" => rows[i].text = [by |-> "owner", of |-> q]
                         /\ col = "answer" => rows[i].answer = "owner"
                         /\ rows[i].edited

\* SPEC.md 10: a correction that was acknowledged is there whatever else is
\* requested at the same time and however often the document is rebuilt.  This
\* is checked for extractions that yield the same sequence every time; only a
\* reconciliation undoes the correction of an answer.
CorrectionStands == \A k \in kept : Standing(k[1], k[2])

\* A question with a critical flag is in the review queue, whoever else writes
\* its row, until the owner approved it (in this extraction or, the decision
\* being carried over, in an earlier one) or corrected it.
CriticalIsQueued ==
  \A i \in DOMAIN rows \ Queue :
    rows[i].flag \in {"text", "grounding"} => rows[i].of \in approved \/ rows[i].edited
=============================================================================
