------------------------------ MODULE Pipeline ------------------------------
(***************************************************************************)
(* The processing of one document: the upload, reprocess and delete        *)
(* requests of app/api/v1/documents.py, and the Celery tasks               *)
(* process_document, process_page and finalize_document of                 *)
(* app/workers/tasks.py, which share the documents, pages and questions    *)
(* tables and the broker's queues.                                         *)
(*                                                                         *)
(* A task is split where another task can be seen in between: at every     *)
(* commit, at every .delay(), and around ingestion, extraction and the     *)
(* rebuild of the questions, which take long.  An ORM row loaded by a task *)
(* is a snapshot (the sessions have expire_on_commit=False), and a flush   *)
(* writes the attributes that differ from the snapshot, no others.  The    *)
(* database is PostgreSQL at READ COMMITTED: a row that a transaction has  *)
(* written stays locked until its commit.                                  *)
(***************************************************************************)
EXTENDS Naturals, FiniteSets

CONSTANTS Worker,        \* the worker processes of the Celery pool
          PageCount,     \* pages of the uploaded file
          MaxReprocess,  \* bound on reprocess requests
          MaxFaults,     \* bound on failures of every kind together
          FaultKind      \* the kinds of failure that may happen

ASSUME PageCountAssumption == PageCount \in Nat \ {0}
ASSUME BoundAssumption == MaxReprocess \in Nat /\ MaxFaults \in Nat
ASSUME FaultAssumption ==
  FaultKind \subseteq {"ingest", "page", "finalize", "outage", "database", "crash", "kill", "api"}

PageNo == 1..PageCount

FinalStatus == {"completed", "completed_with_warnings", "failed"}
DocRow == [status: {"queued", "processing"} \cup FinalStatus,
           latch: BOOLEAN,     \* finalize_enqueued
           done: Nat,          \* pages_done
           progress: Nat,      \* progress_pct
           role: BOOLEAN]      \* detected_role is not NULL
TerminalPage == {"completed", "failed"}
PageRow == [status: {"queued", "processing"} \cup TerminalPage,
            extracted: BOOLEAN]          \* extraction is not NULL
NewPageByDefault == [status |-> "pending", extracted |-> FALSE]
NewPage == [status |-> "queued", extracted |-> FALSE]
NewPages == [n \in PageNo |-> NewPage]
NewDoc == [status |-> "queued", latch |-> FALSE, done |-> 0, progress |-> 0,
           role |-> FALSE]

(***************************************************************************)
(* Messages.  "run" is not in the payload: it tells apart the messages     *)
(* that different requests, ingestions and armings of the latch send, so   *)
(* that a set of messages is the broker's bag (LiveOnce shows that no      *)
(* message is ever live twice).                                            *)
(***************************************************************************)
Task == {"process_document", "process_page", "finalize_document"}
Message == [task: Task, page: Nat, run: Nat]
DocMsg(k) == [task |-> "process_document", page |-> 0, run |-> k]
PageMsg(n, r) == [task |-> "process_page", page |-> n, run |-> r]
FinalMsg(a) == [task |-> "finalize_document", page |-> 0, run |-> a]

\* The questions one finalization wrote, under new primary keys: the arming it
\* answered and, for each page, the page row whose extraction it used (0: none).
Batch == [id: Nat, arming: Nat, from: [PageNo -> Nat]]

DocPc == {"ingest", "replace", "fanout", "doc_except"}
PagePc == {"extract", "page_except", "count", "latch", "enqueue"}
FinalPc == {"stitch", "delete", "save", "notify", "final_except"}
WorkerState ==
  [pc: {"idle", "start", "return"} \cup DocPc \cup PagePc \cup FinalPc,
   msg: Message,
   snap: DocRow,                \* the Document row as loaded
   row: Nat,                    \* id of the page rows it saw or inserted
   next: Nat,                   \* next page to fan out
   failing: BOOLEAN,            \* inside the except block of process_page
   arming: Nat,                 \* the arming it latched
   view: [PageNo -> PageRow],   \* the pages finalize_document loaded
   locks: BOOLEAN,              \* finalize_document has changed detected_role
   old: SUBSET Batch]           \* the questions its DELETE removes
Idle == [pc |-> "idle", msg |-> DocMsg(0), snap |-> NewDoc, row |-> 0,
         next |-> 0, failing |-> FALSE, arming |-> 0, view |-> NewPages,
         locks |-> FALSE, old |-> {}]

VARIABLES
  exists,     \* the documents row is committed
  doc,        \* that row
  gen,        \* id of the current page rows, 0 before the first ingestion
  pages,      \* the page rows
  questions,  \* the batches of question rows in the table
  queue,      \* messages at the broker, delivered to nobody
  worker,     \* what each worker does; it holds its message until it acks it
  api,        \* the owner's request in progress
  armings,    \* history: how often a reprocess has reset the latch
  saves,      \* history: how many finalizations have committed
  abandoned,  \* history: the tasks on the present page rows that were cut short for good
  faults      \* failures so far

vars == <<exists, doc, gen, pages, questions, queue, worker, api, armings, saves, abandoned,
          faults>>
tables == <<exists, doc, gen, pages, questions, saves>>
db == <<tables, abandoned>>

ApiPc == {"new", "insert", "ready", "reset", "requeue", "gone"}

TypeOK ==
  /\ exists \in BOOLEAN
  /\ doc \in DocRow
  /\ gen \in Nat
  /\ pages \in [PageNo -> PageRow]
  /\ questions \subseteq Batch
  /\ queue \subseteq Message
  /\ worker \in [Worker -> WorkerState]
  /\ api \in [pc: ApiPc, snap: DocRow, nth: Nat]
  /\ armings \in Nat
  /\ saves \in Nat
  /\ abandoned \subseteq Message
  /\ faults \in Nat

Init ==
  /\ exists = FALSE
  /\ doc = NewDoc
  /\ gen = 0
  /\ pages = NewPages
  /\ questions = {}
  /\ queue = {}
  /\ worker = [w \in Worker |-> Idle]
  /\ api = [pc |-> "new", snap |-> NewDoc, nth |-> 0]
  /\ armings = 0
  /\ saves = 0
  /\ abandoned = {}
  /\ faults = 0

-----------------------------------------------------------------------------
(* Helpers *)

\* What an ORM flush leaves in the row: the attributes that new changes
\* with respect to snap, and the others as they are by now.
Flush(snap, new) ==
  [status   |-> IF new.status = snap.status THEN doc.status ELSE new.status,
   latch    |-> IF new.latch = snap.latch THEN doc.latch ELSE new.latch,
   done     |-> IF new.done = snap.done THEN doc.done ELSE new.done,
   progress |-> IF new.progress = snap.progress THEN doc.progress ELSE new.progress,
   role     |-> IF new.role = snap.role THEN doc.role ELSE new.role]

\* The task's last step: its local state is gone, its message still unacknowledged.
Returning(w) == [Idle EXCEPT !.pc = "return", !.msg = worker[w].msg]

\* The worker is at pc with a message of the given task.
At(w, pc, task) == worker[w].pc = pc /\ worker[w].msg.task = task

\* The task will not come back, whatever it had still to do.
Abandon(w) == abandoned' = abandoned \cup {worker[w].msg}

Fault(kind) == kind \in FaultKind /\ faults < MaxFaults /\ faults' = faults + 1

\* The page rows a task loaded are still in the table.
RowsStand(w) == exists /\ gen = worker[w].row

\* None of the workers in W keeps the documents row locked.
RowUnlocked(W) == \A v \in W : ~(worker[v].pc \in {"delete", "save"} /\ worker[v].locks)

\* No ingestion has executed its DELETE of the present page rows.
PagesUnlocked == \A v \in Worker : ~(worker[v].pc = "replace" /\ worker[v].row = gen)

Progress(done) == 20 + (70 * done) \div PageCount

-----------------------------------------------------------------------------
(* The broker and the worker pool *)

Deliver(w) ==
  /\ worker[w].pc = "idle"
  /\ \E m \in queue :
       /\ queue' = queue \ {m}
       /\ worker' = [worker EXCEPT ![w] = [Idle EXCEPT !.pc = "start", !.msg = m]]
  /\ UNCHANGED <<db, api, armings, faults>>

\* task_acks_late: the message is acknowledged when the task has returned or
\* raised (acks_on_failure_or_timeout is on, and no task is retried).
Ack(w) ==
  /\ worker[w].pc = "return"
  /\ worker' = [worker EXCEPT ![w] = Idle]
  /\ UNCHANGED <<db, queue, api, armings, faults>>

\* task_reject_on_worker_lost: a worker process that dies gives its message back.
WorkerLost(w) ==
  /\ worker[w].pc # "idle"
  /\ Fault("crash")
  /\ queue' = queue \cup {worker[w].msg}
  /\ worker' = [worker EXCEPT ![w] = Idle]
  /\ UNCHANGED <<db, api, armings>>

\* task_time_limit: the pool kills the process and acknowledges its message.
HardTimeout(w) ==
  /\ worker[w].pc # "idle"
  /\ Fault("kill")
  /\ worker' = [worker EXCEPT ![w] = Idle]
  /\ IF worker[w].pc = "return" THEN UNCHANGED abandoned ELSE Abandon(w)
  /\ UNCHANGED <<tables, queue, api, armings>>

\* The except block of a task asks the database too.  What it raises is caught
\* and dropped: no row is marked, nobody is told, and the task is acknowledged.
ExceptRaises(w) ==
  /\ worker[w].pc \in {"doc_except", "page_except", "final_except"}
  /\ Fault("database")
  /\ worker' = [worker EXCEPT ![w] = Returning(w)]
  /\ Abandon(w)
  /\ UNCHANGED <<tables, queue, api, armings>>

-----------------------------------------------------------------------------
(* process_document *)

DocStart(w) ==
  /\ At(w, "start", "process_document")
  /\ RowUnlocked(Worker)
  /\ IF exists
     THEN LET new == [doc EXCEPT !.status = "processing", !.progress = 10]
          IN /\ doc' = new
             /\ worker' = [worker EXCEPT ![w].pc = "ingest", ![w].snap = new]
     ELSE worker' = [worker EXCEPT ![w] = Returning(w)] /\ UNCHANGED doc
  /\ UNCHANGED <<exists, gen, pages, questions, saves, abandoned, queue, api, armings, faults>>

\* The file is read and rasterized, then DELETE FROM pages is executed: it
\* removes the rows that are committed now.
DocIngest(w) ==
  /\ At(w, "ingest", "process_document")
  /\ worker' = [worker EXCEPT ![w].pc = "replace", ![w].row = gen]
  /\ UNCHANGED <<db, queue, api, armings, faults>>

DocIngestRaises(w) ==
  /\ At(w, "ingest", "process_document")
  /\ Fault("ingest")
  /\ worker' = [worker EXCEPT ![w].pc = "doc_except"]
  /\ UNCHANGED <<db, queue, api, armings>>

\* INSERT of the new page rows and commit.  Rows another ingestion committed
\* after the DELETE violate uq_pages_document_page_no; a deleted document
\* makes the UPDATE of its row match nothing; a page task whose commit has
\* updated the document and waits for its deleted page row is a deadlock, of
\* which this transaction may be the victim.  All three raise.
DocReplacePages(w) ==
  /\ At(w, "replace", "process_document")
  /\ RowUnlocked(Worker)
  /\ \/ /\ RowsStand(w)
        /\ LET snap == worker[w].snap
               new == [snap EXCEPT !.done = 0, !.progress = 20]
           IN doc' = Flush(snap, new)
        /\ gen' = gen + 1
        /\ pages' = NewPages
        /\ abandoned' = {}
        /\ worker' = [worker EXCEPT ![w].pc = "fanout", ![w].snap = NewDoc,
                                    ![w].row = gen + 1, ![w].next = 1]
     \/ /\ RowsStand(w) => \E v \in Worker : At(v, "extract", "process_page") /\ RowsStand(v)
        /\ worker' = [worker EXCEPT ![w].pc = "doc_except"]
        /\ UNCHANGED <<doc, gen, pages, abandoned>>
  /\ UNCHANGED <<exists, questions, saves, queue, api, armings, faults>>

\* process_page.delay for each page, outside any transaction.
DocFanOut(w) ==
  /\ At(w, "fanout", "process_document")
  /\ IF worker[w].next \in PageNo
     THEN /\ queue' = queue \cup {PageMsg(worker[w].next, worker[w].row)}
          /\ worker' = [worker EXCEPT ![w].next = @ + 1]
     ELSE /\ worker' = [worker EXCEPT ![w] = Returning(w)]
          /\ UNCHANGED queue
  /\ UNCHANGED <<db, api, armings, faults>>

DocFanOutRaises(w) ==
  /\ At(w, "fanout", "process_document")
  /\ worker[w].next \in PageNo
  /\ Fault("outage")
  /\ worker' = [worker EXCEPT ![w].pc = "doc_except"]
  /\ UNCHANGED <<db, queue, api, armings>>

\* rollback, then status = failed on a freshly loaded row.
DocExcept(w) ==
  /\ At(w, "doc_except", "process_document")
  /\ RowUnlocked(Worker)
  /\ doc' = IF exists THEN [doc EXCEPT !.status = "failed"] ELSE doc
  /\ worker' = [worker EXCEPT ![w] = Returning(w)]
  /\ UNCHANGED <<exists, gen, pages, questions, saves, abandoned, queue, api, armings, faults>>

-----------------------------------------------------------------------------
(* process_page *)

PageStart(w) ==
  /\ At(w, "start", "process_page")
  /\ PagesUnlocked
  /\ IF exists /\ gen > 0
     THEN /\ pages' = [pages EXCEPT ![worker[w].msg.page].status = "processing"]
          /\ worker' = [worker EXCEPT ![w].pc = "extract", ![w].row = gen,
                                      ![w].snap = doc]
     ELSE worker' = [worker EXCEPT ![w] = Returning(w)] /\ UNCHANGED pages
  /\ UNCHANGED <<exists, doc, gen, questions, saves, abandoned, queue, api, armings, faults>>

\* The Document as loaded, with one more page counted in.
Counted(snap, n) ==
  [snap EXCEPT !.done = @ + 1, !.progress = Progress(snap.done + 1)]

\* The extraction, status = completed, and pages_done + 1 computed from the
\* Document as loaded at the start.  A page row that was replaced meanwhile
\* makes the flush raise StaleDataError.
PageCommit(w) ==
  /\ At(w, "extract", "process_page")
  /\ RowUnlocked(Worker)
  /\ PagesUnlocked
  /\ IF RowsStand(w)
     THEN LET snap == worker[w].snap
          IN /\ doc' = Flush(snap, Counted(snap, worker[w].msg.page))
             /\ pages' = [pages EXCEPT ![worker[w].msg.page] =
                            [status |-> "completed", extracted |-> TRUE]]
             /\ worker' = [worker EXCEPT ![w].pc = "count", ![w].snap = NewDoc]
     ELSE /\ worker' = [worker EXCEPT ![w].pc = "page_except"]
          /\ UNCHANGED <<doc, pages>>
  /\ UNCHANGED <<exists, gen, questions, saves, abandoned, queue, api, armings, faults>>

PageRaises(w) ==
  /\ At(w, "extract", "process_page")
  /\ Fault("page")
  /\ worker' = [worker EXCEPT ![w].pc = "page_except"]
  /\ UNCHANGED <<db, queue, api, armings>>

AfterErrorRequeued == "queued"
AfterError == "failed"

\* rollback, then status = failed on the row the table holds now for that
\* page number, whichever ingestion inserted it.
PageExcept(w) ==
  /\ At(w, "page_except", "process_page")
  /\ PagesUnlocked
  /\ pages' = IF exists /\ gen > 0
              THEN [pages EXCEPT ![worker[w].msg.page].status = AfterError]
              ELSE pages
  /\ worker' = [worker EXCEPT ![w].pc = "count", ![w].snap = NewDoc, ![w].failing = TRUE]
  /\ UNCHANGED <<exists, doc, gen, questions, saves, abandoned, queue, api, armings, faults>>

NoneProcessing == ~exists \/ \A n \in PageNo : pages[n].status # "processing"
OneRemaining == ~exists \/ Cardinality({n \in PageNo : pages[n].status \notin TerminalPage}) = 1
AllCompleted == ~exists \/ \A n \in PageNo : pages[n].status = "completed"
\* The SELECT count(...) of pages whose status is not terminal finds none.
NoneRemaining == ~exists \/ \A n \in PageNo : pages[n].status \in TerminalPage

PageCountRemaining(w) ==
  /\ At(w, "count", "process_page")
  /\ worker' = [worker EXCEPT ![w] = IF NoneRemaining THEN [@ EXCEPT !.pc = "latch"]
                                                 ELSE Returning(w)]
  /\ UNCHANGED <<db, queue, api, armings, faults>>

\* UPDATE documents SET finalize_enqueued = true WHERE ... IS false, commit;
\* the task goes on to enqueue when the UPDATE changed a row.
LatchUnconditional == exists
LatchIsFree == exists /\ ~doc.latch

PageLatch(w) ==
  /\ At(w, "latch", "process_page")
  /\ RowUnlocked(Worker)
  /\ IF LatchIsFree
     THEN /\ doc' = [doc EXCEPT !.latch = TRUE]
          /\ worker' = [worker EXCEPT ![w].pc = "enqueue", ![w].arming = armings]
     ELSE worker' = [worker EXCEPT ![w] = Returning(w)] /\ UNCHANGED doc
  /\ UNCHANGED <<exists, gen, pages, questions, saves, abandoned, queue, api, armings, faults>>

PageEnqueueFinal(w) ==
  /\ At(w, "enqueue", "process_page")
  /\ queue' = queue \cup {FinalMsg(worker[w].arming)}
  /\ worker' = [worker EXCEPT ![w] = Returning(w)]
  /\ UNCHANGED <<db, api, armings, faults>>

\* A query or finalize_document.delay raises after the page's own commit: in
\* the try block that makes the page fail, in the except block the error is
\* swallowed and the first one re-raised.
PageTailRaises(w) ==
  /\ worker[w].msg.task = "process_page"
  /\ worker[w].pc \in {"count", "latch", "enqueue"}
  /\ Fault("outage")
  /\ IF worker[w].failing
     THEN worker' = [worker EXCEPT ![w] = Returning(w)] /\ Abandon(w)
     ELSE worker' = [worker EXCEPT ![w].pc = "page_except"] /\ UNCHANGED abandoned
  /\ UNCHANGED <<tables, queue, api, armings>>

-----------------------------------------------------------------------------
(* finalize_document *)

FinalStart(w) ==
  /\ At(w, "start", "finalize_document")
  /\ doc.progress # 90 => RowUnlocked(Worker)
  /\ IF exists
     THEN LET new == [doc EXCEPT !.progress = 90]
          IN /\ doc' = new
             /\ worker' = [worker EXCEPT ![w].pc = "stitch", ![w].snap = new]
     ELSE worker' = [worker EXCEPT ![w] = Returning(w)] /\ UNCHANGED doc
  /\ UNCHANGED <<exists, gen, pages, questions, saves, abandoned, queue, api, armings, faults>>

\* The pages are loaded and stitched; the answer key entries and, if it has
\* changed, detected_role are flushed, which locks the documents row until the
\* end of the task (or raises, when the row is gone).
FinalStitch(w) ==
  /\ At(w, "stitch", "finalize_document")
  /\ \E changes \in BOOLEAN :
       /\ changes \/ worker[w].snap.role
       /\ changes => RowUnlocked(Worker)
       /\ worker' = [worker EXCEPT ![w] =
                       IF changes /\ ~exists THEN [@ EXCEPT !.pc = "final_except"]
                       ELSE [@ EXCEPT !.pc = "delete", !.view = pages, !.row = gen,
                                      !.locks = changes]]
  /\ UNCHANGED <<db, queue, api, armings, faults>>

\* DELETE FROM questions: the rows that are committed now.
FinalDelete(w) ==
  /\ At(w, "delete", "finalize_document")
  /\ worker' = [worker EXCEPT ![w].pc = "save", ![w].old = questions]
  /\ UNCHANGED <<db, queue, api, armings, faults>>

StatusIgnoringPages(view, hasQuestions, clean) ==
  IF clean THEN "completed" ELSE "completed_with_warnings"
\* The status the loaded pages call for; hasQuestions and clean stand for what
\* the questions' own flags decide.
StatusOf(view, hasQuestions, clean) ==
  IF ~hasQuestions /\ \A n \in PageNo : view[n].status = "failed" THEN "failed"
  ELSE IF clean /\ \A n \in PageNo : view[n].status # "failed" THEN "completed"
  ELSE "completed_with_warnings"

SurvivingAll(w) == questions
\* The question rows that outlive the DELETE this finalization executed.
Surviving(w) == questions \ worker[w].old

BatchOf(w) == [id |-> saves + 1,
               arming |-> worker[w].msg.run,
               from |-> [n \in PageNo |-> IF worker[w].view[n].extracted
                                          THEN worker[w].row ELSE 0]]

\* The new questions, the status and the event in one commit; a document
\* deleted meanwhile makes the UPDATE of its row match nothing, and raise.
FinalSave(w) ==
  /\ At(w, "save", "finalize_document")
  /\ RowUnlocked(Worker \ {w})
  /\ IF exists
     THEN /\ \E hasQuestions \in {FALSE} \cup {worker[w].view[n].extracted : n \in PageNo},
                clean \in BOOLEAN :
               doc' = Flush(worker[w].snap,
                            [worker[w].snap EXCEPT
                               !.status = StatusOf(worker[w].view, hasQuestions, clean),
                               !.progress = 100, !.role = TRUE])
          /\ questions' = Surviving(w) \cup {BatchOf(w)}
          /\ saves' = saves + 1
          /\ worker' = [worker EXCEPT ![w].pc = "notify"]
     ELSE /\ worker' = [worker EXCEPT ![w].pc = "final_except"]
          /\ UNCHANGED <<doc, questions, saves>>
  /\ UNCHANGED <<exists, gen, pages, abandoned, queue, api, armings, faults>>

\* After the commit, reconcile_document_task.delay for each document this one
\* is linked to as an answer key (module Reconcile).
FinalNotify(w) ==
  /\ At(w, "notify", "finalize_document")
  /\ worker' = [worker EXCEPT ![w] = Returning(w)]
  /\ UNCHANGED <<db, queue, api, armings, faults>>

\* Stitching, storage or the database fails; or the broker, after the commit.
FinalRaises(w) ==
  /\ worker[w].msg.task = "finalize_document"
  /\ \/ worker[w].pc \in {"stitch", "delete", "save"} /\ Fault("finalize")
     \/ worker[w].pc = "notify" /\ Fault("outage")
  /\ worker' = [worker EXCEPT ![w].pc = "final_except"]
  /\ UNCHANGED <<db, queue, api, armings>>

FinalExcept(w) ==
  /\ At(w, "final_except", "finalize_document")
  /\ RowUnlocked(Worker)
  /\ doc' = IF exists THEN [doc EXCEPT !.status = "failed"] ELSE doc
  /\ worker' = [worker EXCEPT ![w] = Returning(w)]
  /\ UNCHANGED <<exists, gen, pages, questions, saves, abandoned, queue, api, armings, faults>>

-----------------------------------------------------------------------------
(* The owner's requests, one after another *)

\* upload_document: the file is stored and the task enqueued ...
UploadEnqueue ==
  /\ api.pc = "new"
  /\ queue' = queue \cup {DocMsg(0)}
  /\ api' = [api EXCEPT !.pc = "insert"]
  /\ UNCHANGED <<db, worker, armings, faults>>

\* ... or the broker refuses: 503, and no row was ever written.
UploadUnavailable ==
  /\ api.pc = "new"
  /\ Fault("outage")
  /\ api' = [api EXCEPT !.pc = "gone"]
  /\ UNCHANGED <<db, queue, worker, armings>>

\* ... and only then is the row committed ...
UploadInsert ==
  /\ api.pc = "insert"
  /\ exists' = TRUE
  /\ doc' = NewDoc
  /\ api' = [api EXCEPT !.pc = "ready"]
  /\ UNCHANGED <<gen, pages, questions, saves, abandoned, queue, worker, armings, faults>>

\* ... unless link_to names a document the user does not own: 404.
UploadRejected ==
  /\ api.pc = "insert"
  /\ api' = [api EXCEPT !.pc = "gone"]
  /\ UNCHANGED <<db, queue, worker, armings, faults>>

\* reprocess_document: the row is loaded by get_owned_document ...
ReprocessLoad ==
  /\ api.pc = "ready"
  /\ api.nth < MaxReprocess
  /\ api' = [pc |-> "reset", snap |-> doc, nth |-> api.nth + 1]
  /\ UNCHANGED <<db, queue, worker, armings, faults>>

\* ... its state is reset, whatever tasks are still at work on it ...
ReprocessCommit ==
  /\ api.pc = "reset"
  /\ RowUnlocked(Worker)
  /\ LET new == [api.snap EXCEPT !.status = "queued", !.progress = 0, !.latch = FALSE]
     IN doc' = Flush(api.snap, new)
  /\ armings' = IF api.snap.latch THEN armings + 1 ELSE armings
  /\ api' = [api EXCEPT !.pc = "requeue", !.snap = NewDoc]
  /\ UNCHANGED <<exists, gen, pages, questions, saves, abandoned, queue, worker, faults>>

\* ... and the task enqueued.
ReprocessEnqueue ==
  /\ api.pc = "requeue"
  /\ queue' = queue \cup {DocMsg(api.nth)}
  /\ api' = [api EXCEPT !.pc = "ready"]
  /\ UNCHANGED <<db, worker, armings, faults>>

ReprocessUnavailable ==
  /\ api.pc = "requeue"
  /\ Fault("outage")
  /\ api' = [api EXCEPT !.pc = "ready"]
  /\ UNCHANGED <<db, queue, worker, armings>>

\* delete_document_record: the row goes, pages and questions cascade.
DeleteDocument ==
  /\ api.pc = "ready"
  /\ RowUnlocked(Worker)
  /\ exists' = FALSE
  /\ doc' = NewDoc
  /\ pages' = NewPages
  /\ questions' = {}
  /\ api' = [api EXCEPT !.pc = "gone"]
  /\ UNCHANGED <<gen, saves, abandoned, queue, worker, armings, faults>>

\* The API process dies while it serves a request.
ApiLost ==
  /\ api.pc \in {"insert", "reset", "requeue"}
  /\ Fault("api")
  /\ api' = [api EXCEPT !.pc = IF exists THEN "ready" ELSE "gone",
                       !.snap = NewDoc]
  /\ UNCHANGED <<db, queue, worker, armings>>

-----------------------------------------------------------------------------
DocTask(w) == DocStart(w) \/ DocIngest(w) \/ DocReplacePages(w) \/ DocFanOut(w)
              \/ DocExcept(w)
PageTask(w) == PageStart(w) \/ PageCommit(w) \/ PageExcept(w) \/ PageCountRemaining(w)
               \/ PageLatch(w) \/ PageEnqueueFinal(w)
FinalTask(w) == FinalStart(w) \/ FinalStitch(w) \/ FinalDelete(w) \/ FinalSave(w)
                \/ FinalNotify(w) \/ FinalExcept(w)
TaskStep(w) == Deliver(w) \/ DocTask(w) \/ PageTask(w) \/ FinalTask(w) \/ Ack(w)
Failure(w) == DocIngestRaises(w) \/ DocFanOutRaises(w) \/ PageRaises(w)
              \/ PageTailRaises(w) \/ FinalRaises(w) \/ ExceptRaises(w) \/ WorkerLost(w)
              \/ HardTimeout(w)
Request == UploadEnqueue \/ UploadUnavailable \/ UploadInsert \/ UploadRejected
           \/ ReprocessLoad \/ ReprocessCommit \/ ReprocessEnqueue
           \/ ReprocessUnavailable \/ DeleteDocument \/ ApiLost

Next == Request \/ \E w \in Worker : TaskStep(w) \/ Failure(w)

Spec == Init /\ [][Next]_vars

\* A worker goes on with its task and takes messages while there are any; a
\* request that has begun its work on the database goes on.  Requests need not
\* come, and nothing need fail.
Fairness ==
  /\ \A w \in Worker : WF_vars(TaskStep(w))
  /\ WF_vars(UploadInsert \/ UploadRejected \/ ReprocessCommit \/ ReprocessEnqueue)

FairSpec == Spec /\ Fairness

-----------------------------------------------------------------------------
(* Properties *)

\* Messages a worker has yet to send, and the message of a request in progress.
Owed(w) == CASE worker[w].pc = "fanout" ->
                  {PageMsg(n, worker[w].row) : n \in {m \in PageNo : m >= worker[w].next}}
             [] worker[w].pc = "enqueue" -> {FinalMsg(worker[w].arming)}
             [] OTHER -> {}
OwedByApi == CASE api.pc = "new" -> {DocMsg(0)}
               [] api.pc \in {"reset", "requeue"} -> {DocMsg(api.nth)}
               [] OTHER -> {}
Held(w) == IF worker[w].pc = "idle" THEN {} ELSE {worker[w].msg}
Live == queue \cup OwedByApi \cup UNION {Held(w) \cup Owed(w) : w \in Worker}

LiveFor(task) == {m \in Live : m.task = task}

\* No message is ever live twice: not at the broker while a worker holds it or
\* is about to send it, nor with two workers.  For finalize_document this is
\* what the conditional UPDATE of finalize_enqueued is for: per arming of the
\* latch it is triggered once, whatever crashes, is redelivered or reprocessed.
LiveOnce ==
  /\ \A w \in Worker :
       /\ (Held(w) \cup Owed(w)) \cap (queue \cup OwedByApi) = {}
       /\ Held(w) \cap Owed(w) = {}
  /\ \A v, w \in Worker :
       v # w => (Held(v) \cup Owed(v)) \cap (Held(w) \cup Owed(w)) = {}
  /\ queue \cap OwedByApi = {}

\* The delete-and-rebuild of finalize_document leaves at most one batch of
\* questions per arming of the latch, however often it is interrupted and
\* redelivered.
OneBatchPerArming ==
  \A b, c \in questions : b.arming = c.arming => b = c

\* finalize_document works on terminal pages: from the moment the latch is won
\* until the task is acknowledged every page is completed or failed.
FinalizeAfterAllPages ==
  exists /\ LiveFor("finalize_document") # {}
    => \A n \in PageNo : pages[n].status \in TerminalPage

\* A document reported "completed" is whole: its questions are one batch, built
\* from the extraction of every page, and no page failed.
CompletedIsWhole ==
  exists /\ doc.status = "completed" =>
    /\ \A n \in PageNo : pages[n].status = "completed"
    /\ \E b \in questions : questions = {b} /\ \A n \in PageNo : b.from[n] = gen

\* No page of a document in processing is lost: one that is not terminal has a
\* process_page message that will settle it, or a process_document message that
\* will replace it, unless a task of that very page, or the one that ingests the
\* document, was killed by the time limit or failed in its except block.
NoOrphanPage ==
  exists /\ gen > 0 /\ doc.status = "processing" =>
    \A n \in PageNo :
      \/ pages[n].status \in TerminalPage
      \/ LiveFor("process_document") # {}
      \/ \E m \in queue : m.task = "process_page" /\ m.page = n
      \/ \E w \in Worker : /\ worker[w].pc \in {"start", "extract", "page_except"}
                          /\ worker[w].msg.task = "process_page"
                          /\ worker[w].msg.page = n
      \/ \E m \in abandoned : \/ m.task = "process_document"
                              \/ m.task = "process_page" /\ m.page = n

\* The last page is always noticed: when all pages are terminal and the latch
\* is free, some page task has yet to count, or the document will be ingested
\* again, or a task that would have counted was cut short for good.  (Each task
\* commits its page before it counts.)
LastPageIsNoticed ==
  /\ exists /\ gen > 0 /\ doc.status = "processing" /\ ~doc.latch
  /\ \A n \in PageNo : pages[n].status \in TerminalPage
  =>
    \/ LiveFor("process_document") # {}
    \/ \E m \in queue : m.task = "process_page"
    \/ \E w \in Worker : /\ worker[w].msg.task = "process_page"
                        /\ worker[w].pc \notin {"idle", "enqueue", "return"}
    \/ \E m \in abandoned : m.task # "finalize_document"

\* A document some worker has begun to process reaches a final status, or is
\* deleted, unless one of its tasks was cut short for good.
EventuallyFinal ==
  exists /\ doc.status = "processing"
    ~> ~exists \/ doc.status \in FinalStatus \/ abandoned # {}

\* The status a client sees walks the lifecycle: in particular a final status is
\* never left, neither by a second finalization nor by a late failure.
Lifecycle == INSTANCE DocumentLifecycle
  WITH status <- IF exists THEN doc.status ELSE IF api.pc = "gone" THEN "gone" ELSE "none"
FollowsLifecycle == Lifecycle!Spec

-----------------------------------------------------------------------------
(* What the documents of the repository say, and the code does not do *)

\* SPEC.md 6.7: a row is inserted as queued and its task enqueued, so a queued
\* document has a process_document message.
QueuedHasTask ==
  exists /\ doc.status = "queued" => LiveFor("process_document") # {}

\* SPEC.md 7.2: process_page increments the progress of the document for every
\* page it completes, so a completed document counts all its pages.
AllPagesCounted ==
  exists /\ doc.status = "completed" => doc.done = PageCount

\* SPEC.md 7.2: process_page is idempotent; running a page again does not take
\* progress_pct beyond 100.
ProgressIsPercentage == exists => doc.progress <= 100

\* SPEC.md 7.3: finalize_document deletes and rebuilds the derived rows, so the
\* table never holds the questions of two finalizations.
QuestionsRebuilt == \A b, c \in questions : b = c
=============================================================================
