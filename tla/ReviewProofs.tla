---------------------------- MODULE ReviewProofs ----------------------------
(* Theorems about Review, for every number of requests under way, every set  *)
(* of questions, and every number of finalizations, reconciliations and lost *)
(* workers.                                                                  *)
EXTENDS Review, TLAPS

\* What the extractions may have in common: a question keeps its place in the
\* document, or they yield the same questions altogether.
SamePlaces == \A o, p \in Orders : \A i \in (DOMAIN o) \cap (DOMAIN p) : o[i] = p[i]
SameQuestions == \A o, p \in Orders : o = p

-----------------------------------------------------------------------------
(* Types *)

Recons == [pc : {"idle", "save"}, loaded : Seq(Row)]
Clients == [pc : {"idle", "commit"}, op : Operation, at : Nat, row : Seq(Row)]

\* TypeOK with the whole of the records; a request that commits has the row it
\* loaded, and a finalization under way will be counted.
Typed ==
  /\ rows \in Seq(Row) /\ batch \in 0..MaxFinal
  /\ final = [pc |-> final.pc, reviewed |-> final.reviewed]
  /\ final.pc \in {"idle", "delete", "insert"} /\ (final.pc # "idle" => batch < MaxFinal)
  /\ \A i \in DOMAIN final.reviewed : final.reviewed[i] \in Row
  /\ recon \in Recons
  /\ client \in [Client -> Clients]
  /\ \A c \in Client : client[c].pc = "commit" => client[c].row[1] \in Row
  /\ kept \in SUBSET (Question \X {"text", "answer"}) /\ approved \in SUBSET Question

-----------------------------------------------------------------------------
(* Rows and their copies *)

\* Some extraction finds question q at place i.
At(i, q) == \E o \in Orders : i \in DOMAIN o /\ o[i] = q

\* A row is of the question at its place, with a text of that question.
Placed(i, row) == At(i, row.of) /\ row.text.of = row.of

\* What a reviewed row says was done by the owner.
Owned(row, decided) == /\ row.review = "approved" => row.of \in decided
                       /\ row.review = "corrected" => row.edited

\* The rows are those of the last finalization.  A row whose extraction was
\* critical needs review until the owner has worked on it.
RowsInv ==
  \A i \in DOMAIN rows :
    /\ Placed(i, rows[i]) /\ Owned(rows[i], approved) /\ rows[i].batch = batch
    /\ rows[i].flag \in {"text", "grounding"} /\ rows[i].of \notin approved /\ ~rows[i].edited
         => rows[i].status = "needs_review"

\* The rows a finalization carries over were approved or edited by the owner.
CarriedInv ==
  \A i \in DOMAIN final.reviewed :
    LET row == final.reviewed[i]
    IN Placed(i, row) /\ Owned(row, approved) /\ (row.edited \/ row.of \in approved)

\* What a task or a request has loaded is of an extraction that is still there
\* or was replaced; in the first case the owner's work only adds to it.
LoadedInv ==
  /\ \A i \in DOMAIN recon.loaded : recon.loaded[i].batch <= batch /\ Placed(i, recon.loaded[i])
  /\ \A c \in Client : client[c].pc = "commit" =>
       LET i == client[c].at  loaded == client[c].row[1]
       IN /\ loaded.batch <= batch /\ Placed(i, loaded)
          /\ i \in DOMAIN rows /\ rows[i].batch = loaded.batch => (loaded.edited => rows[i].edited)

\* A correction that is kept stands in the rows, and in what a finalization
\* under way carries over.
StandsIn(rs, k) ==
  \E i \in DOMAIN rs : /\ rs[i].of = k[1]
                       /\ k[2] = "text" => rs[i].text = [by |-> "owner", of |-> k[1]]
                       /\ k[2] = "answer" => rs[i].answer = "owner"
                       /\ rs[i].edited
KeptInv == \A k \in kept : StandsIn(rows, k) /\ (final.pc # "idle" => StandsIn(final.reviewed, k))

ReviewInv == Typed /\ RowsInv /\ CarriedInv /\ LoadedInv

-----------------------------------------------------------------------------
(* What is asked of a row, and what a flush leaves in it *)

LEMMA RequestedRow ==
  ASSUME NEW row \in Row, NEW op \in Operation
  PROVE  LET new == Requested(row, op)
         IN /\ new \in Row /\ new.of = row.of /\ new.batch = row.batch /\ new.flag = row.flag
            /\ new.text = row.text \/ new.text = [by |-> "owner", of |-> row.of]
            /\ new.answer = row.answer \/ new.answer = "owner"
            /\ new.edited = row.edited \/ new.edited
            /\ new.text # row.text \/ new.answer # row.answer => new.edited
            /\ new.review = "approved" => op = "approve"
            /\ new.review = "corrected" => new.edited
            /\ new.status # row.status => op = "approve" \/ new.edited
<1> DEFINE text == [by |-> "owner", of |-> row.of]
<1>1. /\ text \in Text /\ row.of \in Question /\ row.text \in Text
      /\ row.edited \in BOOLEAN
  BY DEF Row, Text
<1>2. CASE op = "patch text"
  <2> DEFINE t == [row EXCEPT !.text = text]
  <2>1. Requested(row, op) = [t EXCEPT !.edited = TRUE, !.review = "corrected", !.status = StatusCorrected(t)]
    BY <1>2 DEF Requested, Patched
  <2>2. /\ t \in Row /\ t.of = row.of /\ t.batch = row.batch /\ t.flag = row.flag
        /\ t.text = text /\ t.answer = row.answer
    BY <1>1 DEF Row
  <2>3. StatusCorrected(t) \in {"extracted", "needs_review"}
    BY DEF StatusCorrected
  <2> HIDE DEF t
  <2>. QED
    BY <1>1, <2>1, <2>2, <2>3 DEF Row
<1>3. CASE op = "patch answer"
  <2> DEFINE t == [row EXCEPT !.answer = "owner"]
  <2>1. Requested(row, op) = [t EXCEPT !.edited = TRUE, !.review = "corrected", !.status = StatusCorrected(t)]
    BY <1>3 DEF Requested, Patched
  <2>2. /\ t \in Row /\ t.of = row.of /\ t.batch = row.batch /\ t.flag = row.flag
        /\ t.text = row.text /\ t.answer = "owner"
    BY <1>1 DEF Row
  <2>3. StatusCorrected(t) \in {"extracted", "needs_review"}
    BY DEF StatusCorrected
  <2> HIDE DEF t
  <2>. QED
    BY <1>1, <2>1, <2>2, <2>3 DEF Row
<1>4. CASE op \in {"approve", "reject", "pending"}
  BY <1>1, <1>4 DEF Requested, Decided, Row
<1>. QED
  BY <1>2, <1>3, <1>4 DEF Operation

LEMMA FlushedRow ==
  ASSUME NEW row \in Row, NEW loaded \in Row, NEW new \in Row
  PROVE  LET flushed == Flushed(row, loaded, new)
         IN /\ flushed \in Row
            /\ flushed.of = IF new.of = loaded.of THEN row.of ELSE new.of
            /\ flushed.batch = IF new.batch = loaded.batch THEN row.batch ELSE new.batch
            /\ flushed.text = IF new.text = loaded.text THEN row.text ELSE new.text
            /\ flushed.flag = IF new.flag = loaded.flag THEN row.flag ELSE new.flag
            /\ flushed.answer = IF new.answer = loaded.answer THEN row.answer ELSE new.answer
            /\ flushed.status = IF new.status = loaded.status THEN row.status ELSE new.status
            /\ flushed.review = IF new.review = loaded.review THEN row.review ELSE new.review
            /\ flushed.edited = IF new.edited = loaded.edited THEN row.edited ELSE new.edited
BY DEF Row, Flushed

-----------------------------------------------------------------------------
(* Types are kept, whatever the extractions yield *)

LEMMA ExtractedRow ==
  ASSUME batch \in Nat, NEW q \in Question, NEW flag \in Flag, NEW answer \in {"none", "key"}
  PROVE  LET new == Extracted(q, flag, answer)
         IN /\ new \in Row /\ new.of = q /\ new.batch = batch + 1 /\ new.text.of = q
            /\ new.review = "none"
            /\ new.flag \in {"text", "grounding"} => new.status = "needs_review"
<1>1. [by |-> "extractor", of |-> q] \in Text
  BY DEF Text
<1>2. (IF flag \in {"text", "grounding"} THEN "needs_review" ELSE "extracted")
        \in {"extracted", "needs_review"}
  OBVIOUS
<1>. QED
  BY <1>1, <1>2 DEF Extracted, Row

LEMMA CarriedOverRow ==
  ASSUME NEW new \in Row, NEW prev \in Row
  PROVE  LET row == CarriedOver(new, prev)
         IN /\ row \in Row /\ row.of = new.of /\ row.batch = new.batch
            /\ row.text = prev.text /\ row.answer = prev.answer
            /\ row.review = prev.review /\ row.edited = prev.edited
BY DEF CarriedOver, Row

LEMMA TypesKept ==
  ASSUME Typed, [Next]_vars
  PROVE  Typed'
<1>1. ASSUME NEW c \in Client, Load(c)
      PROVE  Typed'
  <2>1. PICK op \in Operation, i \in DOMAIN rows :
          client' = [client EXCEPT ![c] = [pc |-> "commit", op |-> op, at |-> i, row |-> <<rows[i]>>]]
    BY <1>1 DEF Load
  <2> DEFINE request == [pc |-> "commit", op |-> op, at |-> i, row |-> <<rows[i]>>]
  <2>2. UNCHANGED <<rows, batch, final, recon, kept, approved>>
    BY <1>1 DEF Load
  <2>3. rows \in Seq(Row) /\ i \in Nat /\ rows[i] \in Row
    BY <2>1 DEF Typed
  <2>4. request \in Clients /\ request.row[1] = rows[i]
    BY <2>3 DEF Clients
  <2> HIDE DEF request
  <2>5. client' = [client EXCEPT ![c] = request]
    BY <2>1 DEF request
  <2>. QED
    BY <2>2, <2>3, <2>4, <2>5 DEF Typed
<1>2. ASSUME NEW c \in Client, Commit(c)
      PROVE  Typed'
  <2> DEFINE i == client[c].at
             loaded == client[c].row[1]
             new == Requested(loaded, client[c].op)
             flushed == Flushed(rows[i], loaded, new)
  <2>1. /\ client[c].pc = "commit" /\ client' = [client EXCEPT ![c] = NoRequest]
        /\ UNCHANGED <<batch, final, recon>>
    BY <1>2 DEF Commit
  <2>2. NoRequest \in Clients /\ NoRequest.pc = "idle"
    BY DEF NoRequest, Clients, Operation
  <2>3. client[c] \in Clients /\ loaded \in Row /\ rows \in Seq(Row)
    BY <2>1 DEF Typed
  <2>4. loaded.of \in Question
    BY <2>3 DEF Row
  <2>5. client[c].op \in Operation
    BY <2>3 DEF Clients
  <2>6. new \in Row
    BY <2>3, <2>5, RequestedRow
  <2>7. rows' \in Seq(Row)
    <3>1. CASE i \in DOMAIN rows /\ rows[i].batch = loaded.batch
      <4>1. rows[i] \in Row
        BY <2>3, <3>1
      <4>2. flushed \in Row
        BY <2>3, <2>6, <4>1, FlushedRow
      <4>3. rows' = [rows EXCEPT ![i] = flushed]
        BY <1>2, <3>1 DEF Commit
      <4> HIDE DEF i, loaded, new, flushed
      <4>4. i \in 1..Len(rows)
        BY <2>3, <3>1
      <4>. QED
        BY <2>3, <4>2, <4>3, <4>4
    <3>2. CASE ~(i \in DOMAIN rows /\ rows[i].batch = loaded.batch)
      BY <1>2, <2>3, <3>2 DEF Commit
    <3>. QED
      BY <3>1, <3>2
  <2>8. approved' \in SUBSET Question
    BY <1>2, <2>4 DEF Commit, Typed
  <2>9. kept' \in SUBSET (Question \X {"text", "answer"})
    <3>1. Corrections(loaded, new) \in SUBSET (Question \X {"text", "answer"})
      BY <2>4 DEF Corrections
    <3>2. kept' \in {kept, kept \cup Corrections(loaded, new)}
      BY <1>2 DEF Commit
    <3>. QED
      BY <3>1, <3>2 DEF Typed
  <2>. QED
    BY <2>1, <2>2, <2>7, <2>8, <2>9 DEF Typed
<1>3. CASE FinalSelect
  <2> DEFINE reviewed == [i \in {k \in DOMAIN rows : Reviewed(rows[k])} |-> rows[i]]
  <2>1. /\ final' = [pc |-> "delete", reviewed |-> reviewed] /\ batch < MaxFinal
        /\ UNCHANGED <<rows, batch, recon, client, kept, approved>>
    BY <1>3 DEF FinalSelect
  <2>2. \A i \in DOMAIN reviewed : reviewed[i] \in Row
    BY DEF Typed
  <2> HIDE DEF reviewed
  <2>. QED
    BY <2>1, <2>2 DEF Typed
<1>4. CASE FinalDelete
  BY <1>4 DEF FinalDelete, Typed
<1>5. CASE FinalInsert
  <2>0. PICK order \in Orders : \E flag \in [DOMAIN order -> Flag], answer \in {"none", "key"} :
          rows' = [i \in DOMAIN order |->
                     LET new == Extracted(order[i], flag[i], answer)
                     IN IF i \in DOMAIN final.reviewed THEN CarriedOver(new, final.reviewed[i])
                        ELSE new]
    BY <1>5 DEF FinalInsert
  <2>1. PICK flag \in [DOMAIN order -> Flag], answer \in {"none", "key"} :
          rows' = [i \in DOMAIN order |->
                     LET new == Extracted(order[i], flag[i], answer)
                     IN IF i \in DOMAIN final.reviewed THEN CarriedOver(new, final.reviewed[i])
                        ELSE new]
    BY <2>0
  <2>2. /\ batch' = batch + 1 /\ final' = [pc |-> "idle", reviewed |-> <<>>]
        /\ UNCHANGED <<recon, client, kept, approved>> /\ final.pc = "insert"
    BY <1>5 DEF FinalInsert, Locked
  <2>3. batch \in Nat /\ batch' \in 0..MaxFinal
    BY <2>2, BoundAssumption DEF Typed
  <2>4. order \in Seq(Question)
    BY OrderAssumption
  <2>5. ASSUME NEW i \in DOMAIN order
        PROVE  rows'[i] \in Row
    <3> DEFINE new == Extracted(order[i], flag[i], answer)
    <3>1. new \in Row
      BY <2>1, <2>3, <2>4, ExtractedRow
    <3>2. rows'[i] = IF i \in DOMAIN final.reviewed THEN CarriedOver(new, final.reviewed[i]) ELSE new
      BY <2>1
    <3> HIDE DEF new
    <3>. QED
      BY <3>1, <3>2, CarriedOverRow DEF Typed
  <2>6. rows' \in [1..Len(order) -> Row]
    BY <2>1, <2>4, <2>5
  <2>7. rows' \in Seq(Row)
    BY <2>4, <2>6
  <2>8. /\ final'.pc = "idle" /\ DOMAIN final'.reviewed = {}
        /\ final' = [pc |-> final'.pc, reviewed |-> final'.reviewed]
    BY <2>2
  <2>. QED
    BY <2>2, <2>3, <2>7, <2>8 DEF Typed
<1>6. CASE FinalLost
  <2>1. /\ final'.pc = "idle" /\ DOMAIN final'.reviewed = {}
        /\ final' = [pc |-> final'.pc, reviewed |-> final'.reviewed]
    BY <1>6 DEF FinalLost
  <2>. QED
    BY <1>6, <2>1 DEF FinalLost, Typed
<1>7. CASE ReconRead
  BY <1>7 DEF ReconRead, Typed, Recons
<1>8. CASE ReconSave
  <2>1. recon' \in Recons /\ UNCHANGED <<batch, final, client, approved>>
    BY <1>8 DEF ReconSave, Recons
  <2>2. PICK answer \in {"none", "key"} :
          LET changed == {i \in DOMAIN recon.loaded : recon.loaded[i].answer # answer}
              stale == \E i \in changed : i \notin DOMAIN rows
                                          \/ rows[i].batch # recon.loaded[i].batch
          IN IF stale THEN UNCHANGED <<rows, kept>>
             ELSE /\ rows' = [i \in DOMAIN rows |->
                                IF i \in changed THEN [rows[i] EXCEPT !.answer = answer]
                                ELSE rows[i]]
                  /\ kept' = kept \ {<<recon.loaded[i].of, "answer">> : i \in changed}
    BY <1>8 DEF ReconSave
  <2>3. rows \in Seq(Row)
    BY DEF Typed
  <2>4. \A i \in DOMAIN rows : [rows[i] EXCEPT !.answer = answer] \in Row
    <3>1. \A row \in Row : [row EXCEPT !.answer = answer] \in Row
      BY DEF Row
    <3>. QED
      BY <2>3, <3>1
  <2>5. rows' \in Seq(Row) /\ kept' \subseteq kept
    BY <2>2, <2>3, <2>4
  <2>. QED
    BY <2>1, <2>5 DEF Typed
<1>9. CASE UNCHANGED vars
  BY <1>9 DEF vars, Typed
<1>. QED
  BY <1>1, <1>2, <1>3, <1>4, <1>5, <1>6, <1>7, <1>8, <1>9 DEF Next

-----------------------------------------------------------------------------
(* The steps *)

\* A commit writes the row it loaded, if that is still there: the row stays the
\* one of its question, and the owner's work on it is added to.
LEMMA CommitWrites ==
  ASSUME SamePlaces, ReviewInv, NEW c \in Client, Commit(c)
  PROVE  LET i == client[c].at  loaded == client[c].row[1]
             new == Requested(loaded, client[c].op)
             flushed == Flushed(rows[i], loaded, new)
         IN i \in DOMAIN rows /\ rows[i].batch = loaded.batch =>
            /\ rows' = [rows EXCEPT ![i] = flushed]
            /\ approved' = approved \cup (IF client[c].op = "approve" THEN {rows[i].of} ELSE {})
            /\ kept' = IF final.pc = "delete" THEN kept ELSE kept \cup Corrections(loaded, new)
            /\ loaded \in Row /\ new \in Row /\ flushed \in Row /\ loaded.of = rows[i].of
            /\ flushed.of = rows[i].of /\ flushed.batch = rows[i].batch
            /\ flushed.flag = rows[i].flag
            /\ flushed.text = rows[i].text \/ flushed.text = [by |-> "owner", of |-> rows[i].of]
            /\ flushed.answer = rows[i].answer \/ flushed.answer = "owner"
            /\ new.text # loaded.text =>
                 flushed.text = [by |-> "owner", of |-> rows[i].of] /\ flushed.edited
            /\ new.answer # loaded.answer => flushed.answer = "owner" /\ flushed.edited
            /\ rows[i].edited \/ new.edited => flushed.edited
            /\ flushed.review = "approved" => rows[i].review = "approved" \/ client[c].op = "approve"
            /\ flushed.review = "corrected" => flushed.edited
            /\ flushed.status # rows[i].status => client[c].op = "approve" \/ flushed.edited
<1> DEFINE i == client[c].at
           loaded == client[c].row[1]
           new == Requested(loaded, client[c].op)
           flushed == Flushed(rows[i], loaded, new)
<1> SUFFICES ASSUME i \in DOMAIN rows, rows[i].batch = loaded.batch
             PROVE  /\ rows' = [rows EXCEPT ![i] = flushed]
                    /\ approved' = approved \cup (IF client[c].op = "approve" THEN {rows[i].of} ELSE {})
                    /\ kept' = IF final.pc = "delete" THEN kept ELSE kept \cup Corrections(loaded, new)
                    /\ loaded \in Row /\ new \in Row /\ flushed \in Row /\ loaded.of = rows[i].of
                    /\ flushed.of = rows[i].of /\ flushed.batch = rows[i].batch
                    /\ flushed.flag = rows[i].flag
                    /\ flushed.text = rows[i].text \/ flushed.text = [by |-> "owner", of |-> rows[i].of]
                    /\ flushed.answer = rows[i].answer \/ flushed.answer = "owner"
                    /\ new.text # loaded.text =>
                         flushed.text = [by |-> "owner", of |-> rows[i].of] /\ flushed.edited
                    /\ new.answer # loaded.answer => flushed.answer = "owner" /\ flushed.edited
                    /\ rows[i].edited \/ new.edited => flushed.edited
                    /\ flushed.review = "approved" => rows[i].review = "approved" \/ client[c].op = "approve"
                    /\ flushed.review = "corrected" => flushed.edited
                    /\ flushed.status # rows[i].status => client[c].op = "approve" \/ flushed.edited
  OBVIOUS
<1>1. /\ client[c].pc = "commit" /\ loaded \in Row /\ client[c].op \in Operation /\ rows[i] \in Row
      /\ rows[i].edited \in BOOLEAN /\ loaded.edited \in BOOLEAN
  <2>1. client[c].pc = "commit"
    BY DEF Commit
  <2>2. client[c] \in Clients /\ rows \in Seq(Row) /\ loaded \in Row
    BY <2>1 DEF ReviewInv, Typed
  <2>3. client[c].op \in Operation /\ rows[i] \in Row
    BY <2>2 DEF Clients
  <2>. QED
    BY <2>1, <2>2, <2>3 DEF Row
<1>2. loaded.of = rows[i].of /\ (loaded.edited => rows[i].edited)
  <2>1. At(i, loaded.of) /\ At(i, rows[i].of)
    BY <1>1 DEF ReviewInv, RowsInv, LoadedInv, Placed
  <2>2. loaded.of = rows[i].of
    BY <2>1 DEF At, SamePlaces
  <2>. QED
    BY <1>1, <2>2 DEF ReviewInv, LoadedInv
<1>3. /\ rows' = [rows EXCEPT ![i] = flushed]
      /\ approved' = approved \cup (IF client[c].op = "approve" THEN {loaded.of} ELSE {})
      /\ kept' = IF final.pc = "delete" THEN kept ELSE kept \cup Corrections(loaded, new)
  BY DEF Commit
<1>4. /\ new \in Row /\ new.of = loaded.of /\ new.batch = loaded.batch /\ new.flag = loaded.flag
      /\ new.text = loaded.text \/ new.text = [by |-> "owner", of |-> loaded.of]
      /\ new.answer = loaded.answer \/ new.answer = "owner"
      /\ new.edited = loaded.edited \/ new.edited
      /\ new.text # loaded.text \/ new.answer # loaded.answer => new.edited
      /\ new.review = "approved" => client[c].op = "approve"
      /\ new.review = "corrected" => new.edited
      /\ new.status # loaded.status => client[c].op = "approve" \/ new.edited
  BY <1>1, RequestedRow
<1>5. rows[i].review = "corrected" => rows[i].edited
  BY DEF ReviewInv, RowsInv, Owned
<1> HIDE DEF i, loaded, new, flushed
<1>6. /\ flushed \in Row
      /\ flushed.of = IF new.of = loaded.of THEN rows[i].of ELSE new.of
      /\ flushed.batch = IF new.batch = loaded.batch THEN rows[i].batch ELSE new.batch
      /\ flushed.text = IF new.text = loaded.text THEN rows[i].text ELSE new.text
      /\ flushed.flag = IF new.flag = loaded.flag THEN rows[i].flag ELSE new.flag
      /\ flushed.answer = IF new.answer = loaded.answer THEN rows[i].answer ELSE new.answer
      /\ flushed.status = IF new.status = loaded.status THEN rows[i].status ELSE new.status
      /\ flushed.review = IF new.review = loaded.review THEN rows[i].review ELSE new.review
      /\ flushed.edited = IF new.edited = loaded.edited THEN rows[i].edited ELSE new.edited
  BY <1>1, <1>4, FlushedRow DEF flushed
<1>7. new.edited \in BOOLEAN
  BY <1>4 DEF Row
<1>. QED
  BY <1>1, <1>2, <1>3, <1>4, <1>5, <1>6, <1>7\* Row invariants hold of the new rows when each of them is as it was, or holds
\* by itself, and when what was approved stays so.
LEMMA CommitStep ==
  ASSUME SamePlaces, ReviewInv, NEW c \in Client, Commit(c)
  PROVE  ReviewInv' /\ (KeptInv => KeptInv')
<1> DEFINE i == client[c].at
           loaded == client[c].row[1]
           new == Requested(loaded, client[c].op)
           flushed == Flushed(rows[i], loaded, new)
<1>1. /\ client' = [client EXCEPT ![c] = NoRequest] /\ ~Locked
      /\ UNCHANGED <<batch, final, recon>>
  BY DEF Commit
<1>2. NoRequest \in Clients /\ NoRequest.pc = "idle"
  BY DEF NoRequest, Clients, Operation
<1>3. CASE ~(i \in DOMAIN rows /\ rows[i].batch = loaded.batch)
  <2>1. UNCHANGED <<rows, kept, approved>>
    BY <1>3 DEF Commit
  <2>. QED
    BY <1>1, <1>2, <2>1 DEF ReviewInv, Typed, RowsInv, CarriedInv, LoadedInv, KeptInv
<1>4. CASE i \in DOMAIN rows /\ rows[i].batch = loaded.batch
  <2> DEFINE row == rows[i]
  <2>1. /\ rows' = [rows EXCEPT ![i] = flushed]
        /\ approved' = approved \cup (IF client[c].op = "approve" THEN {row.of} ELSE {})
        /\ kept' = IF final.pc = "delete" THEN kept ELSE kept \cup Corrections(loaded, new)
        /\ loaded \in Row /\ new \in Row /\ flushed \in Row /\ loaded.of = row.of
        /\ flushed.of = row.of /\ flushed.batch = row.batch /\ flushed.flag = row.flag
        /\ flushed.text = row.text \/ flushed.text = [by |-> "owner", of |-> row.of]
        /\ flushed.answer = row.answer \/ flushed.answer = "owner"
        /\ new.text # loaded.text =>
             flushed.text = [by |-> "owner", of |-> row.of] /\ flushed.edited
        /\ new.answer # loaded.answer => flushed.answer = "owner" /\ flushed.edited
        /\ row.edited \/ new.edited => flushed.edited
        /\ flushed.review = "approved" => row.review = "approved" \/ client[c].op = "approve"
        /\ flushed.review = "corrected" => flushed.edited
        /\ flushed.status # row.status => client[c].op = "approve" \/ flushed.edited
    BY <1>4, CommitWrites
  <2>2. row \in Row /\ row.of \in Question /\ rows \in Seq(Row) /\ i \in DOMAIN rows
    <3>1. rows \in Seq(Row) /\ i \in DOMAIN rows
      BY <1>4 DEF ReviewInv, Typed
    <3>2. row \in Row
      BY <3>1
    <3>. QED
      BY <3>1, <3>2 DEF Row
  <2>3. /\ Placed(i, row) /\ Owned(row, approved) /\ row.batch = batch
        /\ row.flag \in {"text", "grounding"} /\ row.of \notin approved /\ ~row.edited
             => row.status = "needs_review"
    BY <2>2 DEF ReviewInv, RowsInv
  <2> HIDE DEF i, loaded, new, flushed, row
  <2>4. /\ rows' \in Seq(Row) /\ DOMAIN rows' = DOMAIN rows /\ rows'[i] = flushed
        /\ \A j \in DOMAIN rows \ {i} : rows'[j] = rows[j]
    BY <2>1, <2>2
  <2>5. approved \subseteq approved'
    BY <2>1
  <2>6. Typed'
    BY TypesKept DEF ReviewInv, Next
  <2>7. RowsInv'
    <3>1. /\ Placed(i, flushed) /\ Owned(flushed, approved') /\ flushed.batch = batch
          /\ flushed.flag \in {"text", "grounding"} /\ flushed.of \notin approved' /\ ~flushed.edited
               => flushed.status = "needs_review"
      BY <2>1, <2>3 DEF Placed, Owned
    <3>2. ASSUME NEW j \in DOMAIN rows \ {i}
          PROVE  /\ Placed(j, rows[j]) /\ Owned(rows[j], approved') /\ rows[j].batch = batch
                 /\ rows[j].flag \in {"text", "grounding"} /\ rows[j].of \notin approved'
                      /\ ~rows[j].edited => rows[j].status = "needs_review"
      BY <2>5 DEF ReviewInv, RowsInv, Owned
    <3>. QED
      BY <1>1, <2>4, <3>1, <3>2 DEF RowsInv
  <2>8. CarriedInv'
    BY <1>1, <2>5 DEF ReviewInv, CarriedInv, Owned
  <2>9. LoadedInv'
    <3>1. ASSUME NEW d \in Client, client'[d].pc = "commit"
          PROVE  client'[d] = client[d]
      BY <1>1, <1>2, <3>1 DEF ReviewInv, Typed
    <3>2. \A j \in DOMAIN rows : rows'[j].batch = rows[j].batch /\ (rows[j].edited => rows'[j].edited)
      BY <2>1, <2>4 DEF row
    <3>. QED
      BY <1>1, <2>4, <3>1, <3>2 DEF ReviewInv, LoadedInv
  <2>10. ASSUME KeptInv
         PROVE  KeptInv'
    <3>1. ASSUME NEW k \in kept
          PROVE  StandsIn(rows', k)
      <4>1. PICK j \in DOMAIN rows : /\ rows[j].of = k[1]
                                     /\ k[2] = "text" => rows[j].text = [by |-> "owner", of |-> k[1]]
                                     /\ k[2] = "answer" => rows[j].answer = "owner"
                                     /\ rows[j].edited
        BY <2>10 DEF KeptInv, StandsIn
      <4>2. /\ j \in DOMAIN rows' /\ rows'[j].of = rows[j].of
            /\ \/ rows'[j].text = rows[j].text
               \/ rows'[j].text = [by |-> "owner", of |-> rows[j].of]
            /\ rows'[j].answer = rows[j].answer \/ rows'[j].answer = "owner"
            /\ rows'[j].edited
        <5>1. CASE j = i
          BY <2>1, <2>4, <4>1, <5>1 DEF row
        <5>2. CASE j # i
          BY <2>4, <4>1, <5>2
        <5>. QED
          BY <5>1, <5>2
      <4>. QED
        BY <4>1, <4>2 DEF StandsIn
    <3>2. ASSUME NEW k \in Corrections(loaded, new)
          PROVE  StandsIn(rows', k)
      <4>1. PICK col \in {"text", "answer"} : k = <<loaded.of, col>> /\ loaded[col] # new[col]
        BY DEF Corrections
      <4>2. /\ k[1] = row.of /\ flushed.edited
            /\ k[2] = "text" => flushed.text = [by |-> "owner", of |-> k[1]]
            /\ k[2] = "answer" => flushed.answer = "owner"
        BY <2>1, <4>1
      <4>. QED
        BY <2>1, <2>2, <2>4, <4>2 DEF StandsIn
    <3>3. final.pc # "idle" => kept' = kept
      BY <1>1, <2>1 DEF ReviewInv, Typed, Locked
    <3>4. final' = final /\ kept' \in {kept, kept \cup Corrections(loaded, new)}
      BY <1>1, <2>1
    <3>. QED
      BY <2>10, <3>1, <3>2, <3>3, <3>4 DEF KeptInv
  <2>. QED
    BY <2>6, <2>7, <2>8, <2>9, <2>10 DEF ReviewInv
<1>. QED
  BY <1>3, <1>4

LEMMA LoadStep ==
  ASSUME ReviewInv, NEW c \in Client, Load(c)
  PROVE  ReviewInv' /\ (KeptInv => KeptInv')
<1>1. PICK op \in Operation, i \in DOMAIN rows :
        client' = [client EXCEPT ![c] = [pc |-> "commit", op |-> op, at |-> i, row |-> <<rows[i]>>]]
  BY DEF Load
<1> DEFINE request == [pc |-> "commit", op |-> op, at |-> i, row |-> <<rows[i]>>]
<1>2. UNCHANGED <<rows, batch, final, recon, kept, approved>>
  BY DEF Load
<1>3. rows \in Seq(Row) /\ i \in Nat /\ rows[i] \in Row
  BY <1>1 DEF ReviewInv, Typed
<1>4. request \in Clients /\ request.at = i /\ request.row[1] = rows[i]
  BY <1>3 DEF Clients
<1>5. Placed(i, rows[i]) /\ rows[i].batch = batch /\ batch \in Nat
  BY <1>1, BoundAssumption DEF ReviewInv, RowsInv, Typed
<1> HIDE DEF request
<1>6. client' = [client EXCEPT ![c] = request]
  BY <1>1 DEF request
<1>7. Typed'
  BY TypesKept DEF ReviewInv, Next
<1>8. RowsInv' /\ CarriedInv'
  BY <1>2 DEF ReviewInv, RowsInv, CarriedInv
<1>9. LoadedInv'
  <2>1. ASSUME NEW d \in Client, client'[d].pc = "commit"
        PROVE  LET j == client'[d].at  loaded == client'[d].row[1]
               IN /\ loaded.batch <= batch /\ Placed(j, loaded)
                  /\ j \in DOMAIN rows /\ rows[j].batch = loaded.batch =>
                       (loaded.edited => rows[j].edited)
    <3>1. CASE d = c
      <4>1. client'[d] = request
        BY <1>6, <3>1 DEF ReviewInv, Typed
      <4>. QED
        BY <1>4, <1>5, <4>1
    <3>2. CASE d # c
      <4>1. client'[d] = client[d]
        BY <1>6, <3>2 DEF ReviewInv, Typed
      <4>. QED
        BY <2>1, <4>1 DEF ReviewInv, LoadedInv
    <3>. QED
      BY <3>1, <3>2
  <2>. QED
    BY <1>2, <2>1 DEF ReviewInv, LoadedInv
<1>. QED
  BY <1>2, <1>7, <1>8, <1>9 DEF ReviewInv, KeptInv

\* The rows that are carried over are those the owner has worked on, among them
\* every row with a correction that is kept.
LEMMA FinalSelectStep ==
  ASSUME ReviewInv, FinalSelect
  PROVE  ReviewInv' /\ (KeptInv => KeptInv')
<1> DEFINE reviewed == [i \in {k \in DOMAIN rows : Reviewed(rows[k])} |-> rows[i]]
<1>1. /\ final' = [pc |-> "delete", reviewed |-> reviewed] /\ batch < MaxFinal
      /\ UNCHANGED <<rows, batch, recon, client, kept, approved>>
  BY DEF FinalSelect
<1>2. /\ DOMAIN reviewed = {k \in DOMAIN rows : Reviewed(rows[k])}
      /\ \A i \in DOMAIN reviewed : reviewed[i] = rows[i]
  OBVIOUS
<1> HIDE DEF reviewed
<1>3. final'.pc = "delete" /\ final'.reviewed = reviewed /\ final' = [pc |-> final'.pc, reviewed |-> final'.reviewed]
  BY <1>1
<1>4. \A i \in DOMAIN rows : rows[i] \in Row
  BY DEF ReviewInv, Typed
<1>5. Typed'
  BY TypesKept DEF ReviewInv, Next
<1>6. RowsInv' /\ LoadedInv'
  BY <1>1 DEF ReviewInv, RowsInv, LoadedInv
<1>7. CarriedInv'
  BY <1>1, <1>2, <1>3 DEF ReviewInv, RowsInv, CarriedInv, Reviewed, Owned
<1>8. ASSUME KeptInv
      PROVE  KeptInv'
  <2>1. ASSUME NEW k \in kept
        PROVE  StandsIn(reviewed, k)
    BY <1>2, <1>8 DEF KeptInv, StandsIn, Reviewed
  <2>. QED
    BY <1>1, <1>3, <1>8, <2>1 DEF KeptInv
<1>. QED
  BY <1>5, <1>6, <1>7, <1>8 DEF ReviewInv

LEMMA FinalMoves ==
  ASSUME ReviewInv, FinalDelete \/ FinalLost
  PROVE  ReviewInv' /\ (KeptInv => KeptInv')
<1>1. UNCHANGED <<rows, batch, recon, client, kept, approved>>
  BY DEF FinalDelete, FinalLost
<1>2. CASE FinalDelete
  <2>1. /\ final.pc = "delete" /\ final'.pc = "insert" /\ final'.reviewed = final.reviewed
        /\ final' = [pc |-> final'.pc, reviewed |-> final'.reviewed]
    BY <1>2 DEF FinalDelete, ReviewInv, Typed
  <2>. QED
    BY <1>1, <2>1 DEF ReviewInv, Typed, RowsInv, LoadedInv, CarriedInv, KeptInv
<1>3. CASE FinalLost
  <2>1. /\ final'.pc = "idle" /\ DOMAIN final'.reviewed = {}
        /\ final' = [pc |-> final'.pc, reviewed |-> final'.reviewed]
    BY <1>3 DEF FinalLost
  <2>. QED
    BY <1>1, <2>1 DEF ReviewInv, Typed, RowsInv, LoadedInv, CarriedInv, KeptInv
<1>. QED
  BY <1>2, <1>3

LEMMA ReconReadStep ==
  ASSUME ReviewInv, ReconRead
  PROVE  ReviewInv' /\ (KeptInv => KeptInv')
<1>1. /\ recon' = [pc |-> "save", loaded |-> rows]
      /\ UNCHANGED <<rows, batch, final, client, kept, approved>>
  BY DEF ReconRead
<1>2. \A i \in DOMAIN rows : rows[i].batch <= batch /\ Placed(i, rows[i])
  BY BoundAssumption DEF ReviewInv, RowsInv, Typed
<1>3. Typed'
  BY TypesKept DEF ReviewInv, Next
<1>4. LoadedInv'
  BY <1>1, <1>2 DEF ReviewInv, LoadedInv
<1>. QED
  BY <1>1, <1>3, <1>4 DEF ReviewInv, RowsInv, CarriedInv, KeptInv

\* A reconciliation writes answers, and only those of rows that are still the
\* ones it loaded; what it overwrites is no longer counted as kept.
LEMMA ReconSaveStep ==
  ASSUME SamePlaces, ReviewInv, ReconSave
  PROVE  ReviewInv' /\ (KeptInv => KeptInv')
<1>1. PICK answer \in {"none", "key"} :
        LET changed == {i \in DOMAIN recon.loaded : recon.loaded[i].answer # answer}
            stale == \E i \in changed : i \notin DOMAIN rows
                                        \/ rows[i].batch # recon.loaded[i].batch
        IN /\ Locked => changed = {}
           /\ IF stale THEN UNCHANGED <<rows, kept>>
              ELSE /\ rows' = [i \in DOMAIN rows |->
                                 IF i \in changed THEN [rows[i] EXCEPT !.answer = answer]
                                 ELSE rows[i]]
                   /\ kept' = kept \ {<<recon.loaded[i].of, "answer">> : i \in changed}
  BY DEF ReconSave
<1> DEFINE changed == {i \in DOMAIN recon.loaded : recon.loaded[i].answer # answer}
           stale == \E i \in changed : i \notin DOMAIN rows \/ rows[i].batch # recon.loaded[i].batch
<1>2. /\ recon' = [pc |-> "idle", loaded |-> <<>>]
      /\ UNCHANGED <<batch, final, client, approved>>
  BY DEF ReconSave
<1>3. recon' \in Recons /\ DOMAIN recon'.loaded = {}
  BY <1>2 DEF Recons
<1>4. CASE stale
  BY <1>1, <1>2, <1>3, <1>4 DEF ReviewInv, Typed, RowsInv, CarriedInv, LoadedInv, KeptInv
<1>5. CASE ~stale
  <2>1. /\ rows' = [i \in DOMAIN rows |->
                      IF i \in changed THEN [rows[i] EXCEPT !.answer = answer] ELSE rows[i]]
        /\ kept' = kept \ {<<recon.loaded[i].of, "answer">> : i \in changed}
    BY <1>1, <1>5
  <2>2. rows \in Seq(Row)
    BY DEF ReviewInv, Typed
  <2>3. ASSUME NEW i \in DOMAIN rows
        PROVE  /\ rows'[i] \in Row /\ rows'[i].of = rows[i].of /\ rows'[i].batch = rows[i].batch
               /\ rows'[i].text = rows[i].text /\ rows'[i].flag = rows[i].flag
               /\ rows'[i].status = rows[i].status /\ rows'[i].review = rows[i].review
               /\ rows'[i].edited = rows[i].edited
               /\ i \notin changed => rows'[i].answer = rows[i].answer
    <3>1. rows[i] \in Row
      BY <2>2
    <3>2. CASE i \in changed
      <4>1. rows'[i] = [rows[i] EXCEPT !.answer = answer]
        BY <2>1, <3>2
      <4>. QED
        BY <3>1, <3>2, <4>1 DEF Row
    <3>3. CASE i \notin changed
      BY <2>1, <3>1, <3>3
    <3>. QED
      BY <3>2, <3>3
  <2>4. DOMAIN rows' = DOMAIN rows /\ rows' \in Seq(Row)
    BY <2>1, <2>2, <2>3
  <2>5. ASSUME NEW i \in DOMAIN rows, i \in changed
        PROVE  recon.loaded[i].of = rows[i].of
    <3>1. At(i, recon.loaded[i].of) /\ At(i, rows[i].of)
      BY <2>5 DEF ReviewInv, RowsInv, LoadedInv, Placed
    <3>. QED
      BY <3>1 DEF At, SamePlaces
  <2> HIDE DEF changed, stale
  <2>6. Typed'
    BY TypesKept DEF ReviewInv, Next
  <2>7. RowsInv'
    BY <1>2, <2>3, <2>4 DEF ReviewInv, RowsInv, Placed, Owned
  <2>8. CarriedInv'
    BY <1>2 DEF ReviewInv, CarriedInv
  <2>9. LoadedInv'
    BY <1>2, <1>3, <2>3, <2>4 DEF ReviewInv, LoadedInv
  <2>10. ASSUME KeptInv
         PROVE  KeptInv'
    <3>1. ASSUME NEW k \in kept'
          PROVE  StandsIn(rows', k)
      <4>1. PICK i \in DOMAIN rows :
              /\ rows[i].of = k[1]
              /\ k[2] = "text" => rows[i].text = [by |-> "owner", of |-> k[1]]
              /\ k[2] = "answer" => rows[i].answer = "owner"
              /\ rows[i].edited
        BY <2>1, <2>10 DEF KeptInv, StandsIn
      <4>2. k = <<k[1], k[2]>>
        BY <2>1 DEF ReviewInv, Typed
      <4>3. i \in changed => k[2] # "answer"
        BY <2>1, <2>5, <4>1, <4>2
      <4>. QED
        BY <2>3, <2>4, <4>1, <4>3 DEF StandsIn
    <3>. QED
      BY <1>2, <2>1, <2>10, <3>1 DEF KeptInv
  <2>. QED
    BY <2>6, <2>7, <2>8, <2>9, <2>10 DEF ReviewInv
<1>. QED
  BY <1>4, <1>5

\* The new rows: each is as extracted, or has what the reviewed row at its place
\* held, which was of the same question.
LEMMA FinalInsertStep ==
  ASSUME SamePlaces, ReviewInv, FinalInsert
  PROVE  ReviewInv' /\ (SameQuestions /\ KeptInv => KeptInv')
<1>1. PICK order \in Orders : \E flag \in [DOMAIN order -> Flag], answer \in {"none", "key"} :
        rows' = [i \in DOMAIN order |->
                   LET new == Extracted(order[i], flag[i], answer)
                   IN IF i \in DOMAIN final.reviewed THEN CarriedOver(new, final.reviewed[i])
                      ELSE new]
  BY DEF FinalInsert
<1>2. PICK flag \in [DOMAIN order -> Flag], answer \in {"none", "key"} :
        rows' = [i \in DOMAIN order |->
                   LET new == Extracted(order[i], flag[i], answer)
                   IN IF i \in DOMAIN final.reviewed THEN CarriedOver(new, final.reviewed[i])
                      ELSE new]
  BY <1>1
<1>3. /\ batch' = batch + 1 /\ final' = [pc |-> "idle", reviewed |-> <<>>]
      /\ UNCHANGED <<recon, client, kept, approved>> /\ final.pc = "insert"
  BY DEF FinalInsert, Locked
<1>4. batch \in Nat /\ MaxFinal \in Nat /\ batch < MaxFinal
  BY <1>3, BoundAssumption DEF ReviewInv, Typed
<1>5. /\ final'.pc = "idle" /\ DOMAIN final'.reviewed = {}
      /\ final' = [pc |-> final'.pc, reviewed |-> final'.reviewed]
  BY <1>3
<1>6. order \in Seq(Question)
  BY OrderAssumption
<1>7. ASSUME NEW i \in DOMAIN order
      PROVE  /\ rows'[i] \in Row /\ rows'[i].batch = batch + 1 /\ rows'[i].of = order[i]
             /\ Placed(i, rows'[i]) /\ Owned(rows'[i], approved)
             /\ rows'[i].flag \in {"text", "grounding"} /\ rows'[i].of \notin approved
                  /\ ~rows'[i].edited => rows'[i].status = "needs_review"
             /\ i \in DOMAIN final.reviewed =>
                  /\ final.reviewed[i].of = order[i]
                  /\ rows'[i].text = final.reviewed[i].text
                  /\ rows'[i].answer = final.reviewed[i].answer
                  /\ rows'[i].edited = final.reviewed[i].edited
  <2> DEFINE new == Extracted(order[i], flag[i], answer)
  <2>1. order[i] \in Question /\ flag[i] \in Flag
    BY <1>2, <1>6
  <2>2. /\ new \in Row /\ new.of = order[i] /\ new.batch = batch + 1 /\ new.text.of = order[i]
        /\ new.review = "none"
        /\ new.flag \in {"text", "grounding"} => new.status = "needs_review"
    BY <1>2, <1>4, <2>1, ExtractedRow
  <2>3. At(i, order[i])
    BY <1>1 DEF At
  <2>4. rows'[i] = IF i \in DOMAIN final.reviewed THEN CarriedOver(new, final.reviewed[i]) ELSE new
    BY <1>2
  <2> HIDE DEF new
  <2>5. CASE i \notin DOMAIN final.reviewed
    BY <2>2, <2>3, <2>4, <2>5 DEF Placed, Owned
  <2>6. CASE i \in DOMAIN final.reviewed
    <3> DEFINE prev == final.reviewed[i]
    <3>1. prev \in Row /\ At(i, prev.of) /\ prev.text.of = prev.of
          /\ Owned(prev, approved) /\ (prev.edited \/ prev.of \in approved)
      BY <2>6 DEF ReviewInv, Typed, CarriedInv, Placed
    <3>2. prev.of = order[i]
      BY <1>1, <3>1 DEF At, SamePlaces
    <3> HIDE DEF prev
    <3>3. /\ rows'[i] \in Row /\ rows'[i].of = new.of /\ rows'[i].batch = new.batch
          /\ rows'[i].text = prev.text /\ rows'[i].answer = prev.answer
          /\ rows'[i].review = prev.review /\ rows'[i].edited = prev.edited
      BY <2>2, <2>4, <2>6, <3>1, CarriedOverRow DEF prev
    <3>. QED
      BY <2>2, <2>3, <3>1, <3>2, <3>3 DEF Placed, Owned, prev
  <2>. QED
    BY <2>5, <2>6
<1>8. DOMAIN rows' = DOMAIN order /\ rows' \in Seq(Row)
  <2>1. DOMAIN rows' = DOMAIN order
    BY <1>2
  <2>2. rows' \in [1..Len(order) -> Row]
    BY <1>2, <1>6, <1>7
  <2>. QED
    BY <1>6, <2>1, <2>2
<1>9. Typed'
  BY TypesKept DEF ReviewInv, Next
<1>10. RowsInv'
  BY <1>3, <1>7, <1>8 DEF RowsInv
<1>11. CarriedInv'
  BY <1>5 DEF CarriedInv
<1>12. LoadedInv'
  <2>1. \A i \in DOMAIN recon.loaded : recon.loaded[i].batch <= batch /\ recon.loaded[i].batch \in Nat
    <3>1. recon.loaded \in Seq(Row)
      BY DEF ReviewInv, Typed, Recons
    <3>2. \A i \in DOMAIN recon.loaded : recon.loaded[i] \in Row
      BY <3>1
    <3>. QED
      BY <3>2 DEF ReviewInv, LoadedInv, Row
  <2>2. \A c \in Client : client[c].pc = "commit" =>
          client[c].row[1].batch <= batch /\ client[c].row[1].batch \in Nat
    BY DEF ReviewInv, LoadedInv, Typed, Row
  <2>. QED
    BY <1>3, <1>4, <1>7, <1>8, <2>1, <2>2 DEF ReviewInv, LoadedInv
<1>13. ASSUME SameQuestions, KeptInv
       PROVE  KeptInv'
  <2>1. ASSUME NEW k \in kept
        PROVE  StandsIn(rows', k)
    <3>1. PICK i \in DOMAIN final.reviewed :
            /\ final.reviewed[i].of = k[1]
            /\ k[2] = "text" => final.reviewed[i].text = [by |-> "owner", of |-> k[1]]
            /\ k[2] = "answer" => final.reviewed[i].answer = "owner"
            /\ final.reviewed[i].edited
      BY <1>3, <1>13 DEF KeptInv, StandsIn
    <3>2. i \in DOMAIN order
      BY <1>1, <1>13 DEF ReviewInv, CarriedInv, Placed, At, SameQuestions
    <3>. QED
      BY <1>7, <1>8, <3>1, <3>2 DEF StandsIn
  <2>. QED
    BY <1>3, <1>5, <2>1 DEF KeptInv
<1>. QED
  BY <1>9, <1>10, <1>11, <1>12, <1>13 DEF ReviewInv

-----------------------------------------------------------------------------

LEMMA ReviewInit ==
  ASSUME Init
  PROVE  ReviewInv /\ KeptInv
<1>1. /\ final = [pc |-> final.pc, reviewed |-> final.reviewed] /\ final.pc = "idle"
      /\ DOMAIN final.reviewed = {} /\ recon \in Recons /\ DOMAIN recon.loaded = {}
      /\ rows \in Seq(Row) /\ DOMAIN rows = {}
  BY DEF Init, Recons
<1>2. NoRequest \in Clients /\ NoRequest.pc = "idle"
  BY DEF NoRequest, Clients, Operation
<1>3. Typed
  BY <1>1, <1>2, BoundAssumption DEF Init, Typed
<1>. QED
  BY <1>1, <1>2, <1>3 DEF Init, ReviewInv, RowsInv, CarriedInv, LoadedInv, KeptInv

LEMMA ReviewNext ==
  ASSUME SamePlaces, ReviewInv, [Next]_vars
  PROVE  ReviewInv' /\ (SameQuestions /\ KeptInv => KeptInv')
<1>1. CASE UNCHANGED vars
  BY <1>1 DEF vars, ReviewInv, Typed, RowsInv, CarriedInv, LoadedInv, KeptInv
<1>2. CASE \E c \in Client : Load(c) \/ Commit(c)
  BY <1>2, LoadStep, CommitStep
<1>3. CASE FinalSelect \/ FinalDelete \/ FinalInsert \/ FinalLost
  BY <1>3, FinalSelectStep, FinalMoves, FinalInsertStep
<1>4. CASE ReconRead \/ ReconSave
  BY <1>4, ReconReadStep, ReconSaveStep
<1>. QED
  BY <1>1, <1>2, <1>3, <1>4 DEF Next

\* While a question keeps its place in the document, rows hold the question
\* found at their place, and the copies that tasks and requests have of them are
\* of the same one.
THEOREM ReviewInvariant ==
  ASSUME SamePlaces
  PROVE  Spec => []ReviewInv
BY ReviewInit, ReviewNext, PTL DEF Spec

\* Requests, finalizations and reconciliations keep every row, loaded or stored,
\* of its type, whatever the extractions yield.
THEOREM ReviewTypes == Spec => []TypeOK
<1>1. Init => Typed
  BY ReviewInit DEF ReviewInv
<1>2. Typed => TypeOK
  BY DEF Typed, Recons, Clients, TypeOK
<1>. QED
  BY <1>1, <1>2, TypesKept, PTL DEF Spec

\* patch_question, review_question_decision and finalize_document: a question
\* whose extraction was critical leaves the review queue only when the owner has
\* approved or corrected it, for every set of extractions that leave a question
\* at its place.
THEOREM CriticalStaysQueued ==
  ASSUME SamePlaces
  PROVE  Spec => []CriticalIsQueued
<1>1. ReviewInv => CriticalIsQueued
  BY DEF ReviewInv, RowsInv, CriticalIsQueued, Queue
<1>. QED
  BY <1>1, ReviewInvariant, PTL

\* finalize_document carries over every correction that was acknowledged before
\* it read the reviewed rows, when the extraction yields the same questions
\* again: however often it runs, is lost and redelivered.
THEOREM CorrectionsStand ==
  ASSUME SameQuestions
  PROVE  Spec => []CorrectionStands
<1>1. SamePlaces
  BY DEF SamePlaces, SameQuestions
<1>2. Spec => []KeptInv
  <2>1. ReviewInv /\ KeptInv /\ [Next]_vars => ReviewInv' /\ KeptInv'
    BY <1>1, ReviewNext
  <2>. QED
    BY <2>1, ReviewInit, PTL DEF Spec
<1>3. KeptInv => CorrectionStands
  BY DEF KeptInv, StandsIn, CorrectionStands, Standing
<1>. QED
  BY <1>2, <1>3, PTL
=============================================================================
