------------------------------ MODULE MCIntake ------------------------------
(***************************************************************************)
(* Instances of RateLimit and Intake for TLC, in two parts that do not     *)
(* meet: the rate limit by itself, with all the requests and all the time, *)
(* and Intake with fewer requests and less time.                           *)
(***************************************************************************)
EXTENDS Intake, TLC

CONSTANTS MCUploads,     \* bound: requests that ask in the second part
          MCUploadTime   \* bound: its clock, which stops when the first is admitted

VARIABLE part
mcVars == <<vars, part>>

\* Requests may upload the same sound file; the others are refused, one of them
\* for two reasons, the first of which counts.
F(content, type, defects) == [content |-> content, type |-> type, defects |-> defects]
MCFile == {F("paper", "pdf", {}), F("scan", "image", {"torn"}), F("book", "pdf", {"encrypted", "too many pages"})}

FewUploads ==
  /\ Cardinality({r \in Request : ask'[r].step # "new"}) <= MCUploads
  /\ clock' # clock => clock < MCUploadTime /\ admitted = {}

MCInit == Init /\ part \in {"limit", "files"}
MCNext ==
  /\ \/ part = "limit" /\ RateNext /\ UNCHANGED fileVars
     \/ part = "files" /\ Next /\ FewUploads
  /\ UNCHANGED part
MCSpec == MCInit /\ [][MCNext]_mcVars

RequestSymmetry == Permutations(Request)
=============================================================================
