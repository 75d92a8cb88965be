------------------------------- MODULE Intake -------------------------------
(***************************************************************************)
(* How documents enter and leave the service, seen from the files they     *)
(* leave: upload_document of app/api/v1/documents.py with the validation   *)
(* and the storing of app/services/upload_service.py, the deletion of a    *)
(* document, and the files that its tasks store (app/pipeline/ingest.py    *)
(* and figures.py).  Module Pipeline has the tasks in detail, and the      *)
(* reprocess; here a document's job is cut where files are stored and rows *)
(* committed.                                                              *)
(*                                                                         *)
(* A document has the name of the request that uploaded it.  The storage   *)
(* backend is not part of src/: a file is there once it was saved and      *)
(* until it is deleted, and either call may fail.                          *)
(***************************************************************************)
EXTENDS RateLimit, Sequences

CONSTANTS File,          \* what may be uploaded: [content, type, defects]
          MaxFaults      \* bound: calls that fail and processes that are lost

ASSUME FaultAssumption == MaxFaults \in Nat

VARIABLES
  upload,    \* each request: its step, its file, its form fields and its reply
  temp,      \* the temporary files
  store,     \* the stored files
  status,    \* the documents rows: "none" or a status
  pages,     \* the documents with pages rows
  figures,   \* the documents with question_assets rows
  links,     \* the document_links rows, as pairs of documents
  job,       \* process_document and what follows it: the step for each document
  removal,   \* delete_document: its step for each document
  faults

fileVars == <<upload, temp, store, status, pages, figures, links, job, removal, faults>>
vars == <<rateVars, fileVars>>

NoFile == CHOOSE f \in File : TRUE
Fresh == [pc |-> "new", file |-> NoFile, force |-> FALSE, link |-> {}, reply |-> "none"]
Init ==
  /\ RateInit
  /\ upload = [r \in Request |-> Fresh]
  /\ temp = {} /\ store = {} /\ pages = {} /\ figures = {} /\ links = {}
  /\ status = [d \in Request |-> "none"]
  /\ job = [d \in Request |-> "none"]
  /\ removal = [d \in Request |-> "none"]
  /\ faults = 0

Source(d) == <<d, "source">>
PageImages(d) == <<d, "page images">>
Crops(d) == <<d, "crops">>
Documents == {d \in Request : status[d] # "none"}
Fault == faults < MaxFaults /\ faults' = faults + 1

Answered(r, code) == upload' = [upload EXCEPT ![r].reply = code]
Step(r, pc) == upload' = [upload EXCEPT ![r].pc = pc]
Reply(r, code) == upload' = [upload EXCEPT ![r].pc = "done", ![r].link = {}, ![r].reply = code]

-----------------------------------------------------------------------------
(* upload_document *)

\* check_rate_limit, of module RateLimit.
Ask(r) ==
  /\ upload[r].pc = "new"
  /\ \/ ReadClock(r) /\ UNCHANGED upload
     \/ (RedisAdmits(r) \/ MemoryAdmits(r)) /\ Step(r, "admitted")
     \/ (RedisRefuses(r) \/ MemoryRefuses(r)) /\ Reply(r, "RATE_LIMITED")
  /\ UNCHANGED <<temp, store, status, pages, figures, links, job, removal, faults>>

\* The body is streamed to a temporary file.
Stream(r) ==
  /\ upload[r].pc = "admitted"
  /\ \E f \in File, force \in BOOLEAN, link \in SUBSET Request :
       /\ Cardinality(link) <= 1 /\ r \notin link
       /\ upload' = [upload EXCEPT ![r] = [pc |-> "streamed", file |-> f, force |-> force,
                                           link |-> link, reply |-> "none"]]
  /\ temp' = temp \cup {r}
  /\ UNCHANGED <<rateVars, store, status, pages, figures, links, job, removal, faults>>

\* The checks in the order they are made, and what they answer.
StreamChecks ==
  <<[finds |-> "oversized", code |-> "FILE_TOO_LARGE"],
    [finds |-> "empty", code |-> "MALFORMED_FILE"],
    [finds |-> "unknown type", code |-> "UNSUPPORTED_MEDIA_TYPE"]>>
PdfChecks ==
  <<[finds |-> "unreadable", code |-> "MALFORMED_FILE"],
    [finds |-> "encrypted", code |-> "PDF_ENCRYPTED"],
    [finds |-> "no pages", code |-> "MALFORMED_FILE"],
    [finds |-> "too many pages", code |-> "TOO_MANY_PAGES"],
    [finds |-> "torn", code |-> "MALFORMED_FILE"]>>
ImageChecks ==
  <<[finds |-> "torn", code |-> "MALFORMED_FILE"],
    [finds |-> "too many pixels", code |-> "MALFORMED_FILE"]>>
Checks(type) == StreamChecks \o (IF type = "pdf" THEN PdfChecks ELSE ImageChecks)
Failed(f) == {k \in DOMAIN Checks(f.type) : Checks(f.type)[k].finds \in f.defects}

\* The first check that fails refuses the file, and removes the temporary one.
WithoutTempOfPdf(r) == IF upload[r].file.type = "pdf" THEN temp \ {r} ELSE temp
WithoutTemp(r) == temp \ {r}

Refuse(r) ==
  /\ upload[r].pc = "streamed"
  /\ \E k \in Failed(upload[r].file) :
       /\ \A j \in Failed(upload[r].file) : k <= j
       /\ Reply(r, Checks(upload[r].file.type)[k].code)
  /\ temp' = WithoutTemp(r)
  /\ UNCHANGED <<rateVars, store, status, pages, figures, links, job, removal, faults>>

\* find_duplicate_document: the owner's rows with this content that have not failed.
Duplicates(r) ==
  {d \in Documents : upload[d].file.content = upload[r].file.content /\ status[d] # "failed"}

Pass(r) ==
  /\ upload[r].pc = "streamed" /\ Failed(upload[r].file) = {}
  /\ upload[r].force \/ Duplicates(r) = {}
  /\ Step(r, "checked")
  /\ UNCHANGED <<rateVars, temp, store, status, pages, figures, links, job, removal, faults>>

\* The answer names the document that is there.  The temporary file stays.
AnswerDuplicate(r) ==
  /\ upload[r].pc = "streamed" /\ Failed(upload[r].file) = {}
  /\ ~upload[r].force /\ Cardinality(Duplicates(r)) = 1
  /\ Reply(r, "DUPLICATE")
  /\ UNCHANGED <<rateVars, temp, store, status, pages, figures, links, job, removal, faults>>

\* scalar_one_or_none raises when there is more than one, and the query when
\* the database is away.  The temporary file stays then, too.
LookUpRaises(r) ==
  /\ upload[r].pc = "streamed" /\ Failed(upload[r].file) = {}
  /\ ~upload[r].force
  /\ (Cardinality(Duplicates(r)) > 1 /\ UNCHANGED faults) \/ Fault
  /\ Reply(r, "INTERNAL_ERROR")
  /\ UNCHANGED <<rateVars, temp, store, status, pages, figures, links, job, removal>>

\* store_and_enqueue_document: storage.save, the unlink in its finally ...
Store(r) ==
  /\ upload[r].pc = "checked"
  /\ store' = store \cup {Source(r)} /\ Step(r, "saved")
  /\ UNCHANGED <<rateVars, temp, status, pages, figures, links, job, removal, faults>>

StoreSwallows(r) ==
  /\ upload[r].pc = "checked" /\ Fault
  /\ Step(r, "saved")
  /\ UNCHANGED <<rateVars, temp, store, status, pages, figures, links, job, removal>>
StoreRaises(r) ==
  /\ upload[r].pc = "checked" /\ Fault
  /\ store' \in {store, store \cup {Source(r)}} /\ Reply(r, "INTERNAL_ERROR")
  /\ temp' = temp \ {r}
  /\ UNCHANGED <<rateVars, status, pages, figures, links, job, removal>>

Unlink(r) ==
  /\ upload[r].pc = "saved"
  /\ temp' = temp \ {r} /\ Step(r, "stored")
  /\ UNCHANGED <<rateVars, store, status, pages, figures, links, job, removal, faults>>

\* ... then process_document.delay.
Enqueue(r) ==
  /\ upload[r].pc = "stored"
  /\ job' = [job EXCEPT ![r] = "sent"] /\ Step(r, "enqueued")
  /\ UNCHANGED <<rateVars, temp, store, status, pages, figures, links, removal, faults>>

\* It raises before the broker has the message, or after.
EnqueueRaises(r) ==
  /\ upload[r].pc = "stored" /\ Fault
  /\ job' \in {job, [job EXCEPT ![r] = "sent"]} /\ Reply(r, "QUEUE_UNAVAILABLE")
  /\ UNCHANGED <<rateVars, temp, store, status, pages, figures, links, removal>>

\* The row is added to the session; the target of a link is looked up.
FindTarget(r) ==
  /\ upload[r].pc = "enqueued"
  /\ IF upload[r].link \subseteq Documents THEN Step(r, "linked") ELSE Reply(r, "NOT_FOUND")
  /\ UNCHANGED <<rateVars, temp, store, status, pages, figures, links, job, removal, faults>>

\* The commit, which nobody knows of before the reply.
TargetsExist(r) == upload[r].link \subseteq Documents
Insert(r) ==
  /\ TargetsExist(r)
  /\ status' = [status EXCEPT ![r] = "queued"]
  /\ links' = links \cup {<<r, t>> : t \in upload[r].link}

CommitUpload(r) ==
  /\ upload[r].pc = "linked" /\ Insert(r)
  /\ Step(r, "committed")
  /\ UNCHANGED <<rateVars, temp, store, pages, figures, job, removal, faults>>

Accept(r) ==
  /\ upload[r].pc = "committed" /\ Reply(r, "ACCEPTED")
  /\ UNCHANGED <<rateVars, temp, store, status, pages, figures, links, job, removal, faults>>

\* A target that was deleted since violates the foreign key; or the database goes
\* away, at the look-up or at the commit, which may have happened.
CommitUploadRaises(r) ==
  /\ upload[r].pc \in {"enqueued", "linked"}
  /\ \/ upload[r].pc = "linked" /\ ~TargetsExist(r) /\ UNCHANGED <<faults, status, links>>
     \/ Fault /\ UNCHANGED <<status, links>>
     \/ Fault /\ upload[r].pc = "linked" /\ Insert(r)
  /\ Reply(r, "INTERNAL_ERROR")
  /\ UNCHANGED <<rateVars, temp, store, pages, figures, job, removal>>

-----------------------------------------------------------------------------
(* delete_document *)

\* delete_document_record removes the uploaded file, whatever that raises ...
DeleteFile(d) ==
  /\ d \in Documents /\ removal[d] # "begun"
  /\ \/ store' = store \ {Source(d)} /\ UNCHANGED faults
     \/ Fault /\ UNCHANGED store
  /\ removal' = [removal EXCEPT ![d] = "begun"]
  /\ UNCHANGED <<rateVars, upload, temp, status, pages, figures, links, job>>

\* ... and then the row, which takes the rows that refer to it with it.
Cascaded(s, d) == s \ {d}
DeleteRow(d) ==
  /\ removal[d] = "begun"
  /\ status' = [status EXCEPT ![d] = "none"]
  /\ pages' = Cascaded(pages, d) /\ figures' = Cascaded(figures, d)
  /\ links' = {l \in links : d \notin {l[1], l[2]}}
  /\ removal' = [removal EXCEPT ![d] = "none"]
  /\ UNCHANGED <<rateVars, upload, temp, store, job, faults>>

\* The API process dies: its requests with it, and a new one starts.
Waiting(r) == upload[r].pc = "done" \/ (upload[r].pc = "new" /\ ask[r].step = "new")
ApiLost ==
  /\ Fault /\ ApiRestarts
  /\ upload' = [r \in Request |->
                  IF Waiting(r) THEN upload[r]
                  ELSE [upload[r] EXCEPT !.pc = "done", !.link = {}, !.reply = "LOST"]]
  /\ removal' = [d \in Request |-> IF removal[d] = "begun" THEN "cut" ELSE removal[d]]
  /\ UNCHANGED <<temp, store, status, pages, figures, links, job>>

-----------------------------------------------------------------------------
(* The jobs of a document *)

Advance(d, pc) == job' = [job EXCEPT ![d] = pc]
Leave(d) == Advance(d, "none")

\* process_document and finalize_document return when the row is not there.
NotFound(d) ==
  /\ job[d] \in {"sent", "extracted"} /\ d \notin Documents
  /\ Leave(d)
  /\ UNCHANGED <<rateVars, upload, temp, store, status, pages, figures, links, removal, faults>>

Start(d) ==
  /\ job[d] = "sent" /\ d \in Documents
  /\ status' = [status EXCEPT ![d] = "processing"]
  /\ Advance(d, "started")
  /\ UNCHANGED <<rateVars, upload, temp, store, pages, figures, links, removal, faults>>

\* ingest_document: every page's image is stored before any row is written.
Render(d) ==
  /\ job[d] = "started" /\ Source(d) \in store
  /\ store' = store \cup {PageImages(d)}
  /\ Advance(d, "rendered")
  /\ UNCHANGED <<rateVars, upload, temp, status, pages, figures, links, removal, faults>>

\* The except block: the row, if it is still there, becomes failed.
RenderRaises(d) ==
  /\ job[d] = "started"
  /\ (Source(d) \notin store /\ UNCHANGED faults) \/ Fault
  /\ status' = [status EXCEPT ![d] = IF @ = "none" THEN @ ELSE "failed"]
  /\ Leave(d)
  /\ UNCHANGED <<rateVars, upload, temp, store, pages, figures, links, removal>>

\* A row of a document that is gone violates its foreign key.
Unreferenced(d) == TRUE
Referenced(d) == d \in Documents
SavePages(d) ==
  /\ job[d] = "rendered"
  /\ IF Referenced(d)
     THEN pages' = pages \cup {d} /\ Advance(d, "extracted")
     ELSE Leave(d) /\ UNCHANGED pages
  /\ UNCHANGED <<rateVars, upload, temp, store, status, figures, links, removal, faults>>

\* process_question_figures: the crops are stored as the questions are rebuilt,
\* by a finalization that has found the row.
Crop(d) ==
  /\ job[d] = "extracted"
  /\ store' = store \cup {Crops(d)}
  /\ Advance(d, "cropped")
  /\ UNCHANGED <<rateVars, upload, temp, status, pages, figures, links, removal, faults>>

SaveQuestions(d) ==
  /\ job[d] = "cropped"
  /\ IF Referenced(d)
     THEN figures' = figures \cup {d} /\ status' = [status EXCEPT ![d] = "completed"]
     ELSE UNCHANGED <<figures, status>>
  /\ Leave(d)
  /\ UNCHANGED <<rateVars, upload, temp, store, pages, links, removal, faults>>

\* The worker is lost and the message delivered again.
WorkerLost(d) ==
  /\ job[d] \notin {"none", "sent"} /\ Fault
  /\ Advance(d, IF job[d] \in {"extracted", "cropped"} THEN "extracted" ELSE "sent")
  /\ UNCHANGED <<rateVars, upload, temp, store, status, pages, figures, links, removal>>

-----------------------------------------------------------------------------
Uploading == \E r \in Request :
  \/ Ask(r) \/ Stream(r) \/ Refuse(r) \/ Pass(r) \/ AnswerDuplicate(r) \/ LookUpRaises(r)
  \/ Store(r) \/ StoreRaises(r) \/ Unlink(r) \/ Enqueue(r) \/ EnqueueRaises(r)
  \/ FindTarget(r) \/ CommitUpload(r) \/ CommitUploadRaises(r) \/ Accept(r)
Deleting == \E d \in Request : DeleteFile(d) \/ DeleteRow(d)
Working == \E d \in Request :
  \/ NotFound(d) \/ Start(d) \/ Render(d) \/ RenderRaises(d) \/ SavePages(d)
  \/ Crop(d) \/ SaveQuestions(d) \/ WorkerLost(d)

\* What goes on in the rate limit without the API.
Limiting ==
  /\ \/ ((\E r \in Request : AnswerLost(r)) \/ RedisRestarts) /\ Fault
     \/ Tick /\ UNCHANGED faults
  /\ UNCHANGED <<upload, temp, store, status, pages, figures, links, job, removal>>

Next == Uploading \/ Deleting \/ Working \/ ApiLost \/ Limiting
Spec == Init /\ [][Next]_vars

-----------------------------------------------------------------------------
(* Properties *)

Codes == {"RATE_LIMITED", "FILE_TOO_LARGE", "UNSUPPORTED_MEDIA_TYPE", "MALFORMED_FILE",
          "PDF_ENCRYPTED", "TOO_MANY_PAGES"}
Replies == Codes \cup {"none", "ACCEPTED", "DUPLICATE", "QUEUE_UNAVAILABLE", "NOT_FOUND",
                       "INTERNAL_ERROR", "LOST"}
Steps == {"new", "admitted", "streamed", "checked", "saved", "stored", "enqueued", "linked",
          "committed", "done"}

\* Values are of their types; a request has its reply when it is done, not before.
TypeOK ==
  /\ clock \in 0..MaxTime /\ written \in 0..clock /\ log \subseteq 0..clock
  /\ ask \in [Request -> [step : {"new", "stamped", "admitted", "refused", "lost"},
                          at : 0..clock, sent : BOOLEAN]]
  /\ memory \subseteq [req : Request, at : 0..clock]
  /\ life.redis + life.api <= MaxRestarts
  /\ \A r \in Request : /\ upload[r].pc \in Steps /\ upload[r].reply \in Replies
                         /\ (upload[r].pc = "done") <=> (upload[r].reply # "none")
  /\ temp \cup pages \cup figures \subseteq Request /\ links \subseteq Request \X Request
  /\ status \in [Request -> {"none", "queued", "processing", "failed", "completed"}]
  /\ job \in [Request -> {"none", "sent", "started", "rendered", "extracted", "cropped"}]
  /\ removal \in [Request -> {"none", "begun", "cut"}]

\* What an upload leaves behind is what its reply says.  A refused one leaves
\* nothing, wherever it was refused (SPEC.md:95-101, the order of the checks), and
\* a duplicate its temporary file.  A temporary file is left only there, by a
\* look-up of duplicates that raised, before anything was stored, sent or written,
\* and by a process that was lost.  There is a row only behind a reply that says
\* so, or that admits to know nothing; none of them behind QUEUE_UNAVAILABLE or
\* NOT_FOUND, which leave the stored file and, it may be, the task.
RepliesTellWhatIsLeft ==
  \A r \in {q \in Request : upload[q].pc = "done"} :
    LET reply == upload[r].reply
        stored == Source(r) \in store \/ job[r] # "none"
        row == status[r] # "none"
    IN /\ reply \in Codes => r \notin temp
       /\ reply \in Codes \cup {"DUPLICATE"} => ~stored
       /\ r \in temp /\ reply # "LOST" =>
            reply \in {"DUPLICATE", "INTERNAL_ERROR"} /\ ~upload[r].force /\ ~stored
       /\ row => r \notin temp /\ reply \in {"ACCEPTED", "INTERNAL_ERROR", "LOST"}

\* Every row has the files it names: a document its upload, unless a delete of
\* it is under way or was cut short, a page its image, a question asset its
\* crop, whatever is requested, lost or redelivered meanwhile.
RowsHaveTheirFiles ==
  \A d \in Documents :
    /\ removal[d] = "none" => Source(d) \in store
    /\ d \in pages => PageImages(d) \in store
    /\ d \in figures => Crops(d) \in store

\* No row refers to a document that was deleted, though jobs of it are at work
\* and uploads link to it (alembic/versions/001_initial_schema.py: the foreign keys).
RowsHaveTheirDocument ==
  /\ pages \cup figures \subseteq Documents
  /\ \A l \in links : {l[1], l[2]} \subseteq Documents

-----------------------------------------------------------------------------
(* What the documents of the repository say, and the code does not do *)

\* SPEC.md:100: uploads of the same content share one document unless forced.
OneDocumentPerContent ==
  \A d, e \in Documents :
    /\ d # e /\ upload[d].file.content = upload[e].file.content
    /\ "failed" \notin {status[d], status[e]}
    => upload[d].force \/ upload[e].force

\* SPEC.md:101: an upload that cannot be enqueued is marked failed.
UnavailableIsMarkedFailed ==
  \A r \in Request : upload[r].reply = "QUEUE_UNAVAILABLE" => status[r] = "failed"
=============================================================================
