----------------------------- MODULE Reconcile -----------------------------
(***************************************************************************)
(* A question paper and a separate answer key, which an answer_key_for     *)
(* link may join.  Four programs write the paper's answers and the key's   *)
(* match statuses: finalize_document of either document and                *)
(* reconcile_document_task (app/workers/tasks.py), which run on workers,   *)
(* and the requests of app/services/link_service.py.                       *)
(*                                                                         *)
(* A reconciliation reads the link and the entries, then the questions,    *)
(* and then commits; a finalization reads, and commits its rebuilt rows.   *)
(* A commit writes the columns that differ from the rows as read; a row    *)
(* that is gone by then makes it raise (StaleDataError).  One document is  *)
(* finalized by one task at a time: module Pipeline has the rest.          *)
(*                                                                         *)
(* A worker may be lost, and its message is delivered again; the API       *)
(* process may be lost, and nobody repeats a request; a task, or the       *)
(* reconciliation of a request, may raise, and what it had to do is left.  *)
(***************************************************************************)
EXTENDS AnswerMatch, FiniteSets

CONSTANTS Worker,        \* Celery worker processes
          Request,       \* requests the owner makes, each of them once
          Operation,     \* what a request may ask for
          Paper,         \* the questions of the paper, as extracted
          Readings,      \* what an extraction of the key may yield
          LinkAtUpload,  \* whether the key is uploaded with link_to: the possible answers
          MaxFinal,      \* finalizations of each document
          MaxFaults      \* lost workers and API processes, and exceptions

ASSUME OperationAssumption == Operation \subseteq {"link", "unlink", "reconcile"}
ASSUME BoundAssumption == MaxFinal \in Nat /\ MaxFaults \in Nat /\ LinkAtUpload \subseteq BOOLEAN
ASSUME ProcAssumption == Worker \cap Request = {}

Value == [kind : {"letter", "digit"}, rank : Nat]
Question == [num : Nat, section : SUBSET STRING, labels : SUBSET Value, inline : SUBSET Value]
ASSUME ExtractionAssumption ==
  /\ Paper \in Seq(Question)
  /\ Readings \subseteq Seq([num : Nat, section : SUBSET STRING, values : SUBSET Value])

Doc == {"paper", "key"}
Other(d) == IF d = "paper" THEN "key" ELSE "paper"
Proc == Worker \cup Request

\* A task, or the request's call of reconcile_document_answers.
Job == [kind : {"finalize", "reconcile"}, doc : Doc]

Resting == [pc |-> "idle", job |-> [kind |-> "reconcile", doc |-> "paper"],
            link |-> FALSE, pool |-> <<>>, batch |-> 0, rows |-> <<>>,
            found |-> <<>>, statuses |-> <<>>]

VARIABLES
  linked,    \* the document_links row is there
  paper,     \* the question rows: batch (0 before the first), answers, flags
  key,       \* the answer_key_entries rows of the key
  known,     \* the key's detected_role is set
  fresh,     \* the last id given to an entry
  todo,      \* finalize_document messages
  queue,     \* reconcile_document_task messages
  proc,      \* what each worker and request does
  lock,      \* who holds lock:reconcile:<paper>, as a set
  faults,    \* lost workers and API processes, and exceptions, so far
  serial,    \* history: no two jobs have overlapped
  missed     \* history: a job that owed the paper its answers was given up, and
             \* no answers of the paper have been committed since

vars == <<linked, paper, key, known, fresh, todo, queue, proc, lock, faults, serial, missed>>
db == <<linked, paper, key, known, fresh>>

Active == {"read", "questions", "save", "notify", "release", "delete"}
Pc == Active \cup {"idle", "new", "return", "over"}

Init ==
  /\ linked \in LinkAtUpload
  /\ paper = [batch |-> 0, rows |-> <<>>, flags |-> <<>>]
  /\ key = <<>>
  /\ known = FALSE
  /\ fresh = 0
  /\ todo = [d \in Doc |-> MaxFinal]
  /\ queue = [d \in Doc |-> 0]
  /\ proc = [p \in Proc |-> IF p \in Worker THEN Resting ELSE [Resting EXCEPT !.pc = "new"]]
  /\ lock = {}
  /\ faults = 0
  /\ serial = TRUE
  /\ missed = FALSE

At(p, pc, kind) == proc[p].pc = pc /\ proc[p].job.kind = kind
Finalizing(d) ==
  \E w \in Worker : proc[w].pc # "idle" /\ proc[w].job = [kind |-> "finalize", doc |-> d]

\* A finalization of the key has executed its DELETE and not yet committed.
KeyLocked == \E w \in Worker : At(w, "save", "finalize") /\ proc[w].job.doc = "key"

\* What follows the last step of a job: the task returns, the request ends.
Ended(p) == IF p \in Worker THEN [Resting EXCEPT !.pc = "return", !.job = proc[p].job]
                            ELSE [Resting EXCEPT !.pc = "over"]

\* The job is to bring the paper its answers, or to have them brought.
Owes(p) ==
  /\ proc[p].job \in {[kind |-> "finalize", doc |-> "key"], [kind |-> "reconcile", doc |-> "paper"]}
  /\ proc[p].pc \in {"read", "questions", "save"} \/ (proc[p].pc = "notify" /\ proc[p].link)

Overlapping == serial' = (serial /\ \A p \in Proc : proc[p].pc \notin Active)

-----------------------------------------------------------------------------
(* Workers *)

Deliver(w) ==
  /\ proc[w].pc = "idle"
  /\ \E d \in Doc :
       \/ /\ todo[d] > 0 /\ ~Finalizing(d)
          /\ todo' = [todo EXCEPT ![d] = @ - 1]
          /\ proc' = [proc EXCEPT ![w].pc = "read", ![w].job = [kind |-> "finalize", doc |-> d]]
          /\ UNCHANGED queue
       \/ /\ queue[d] > 0
          /\ queue' = [queue EXCEPT ![d] = @ - 1]
          /\ proc' = [proc EXCEPT ![w].pc = "read", ![w].job = [kind |-> "reconcile", doc |-> d]]
          /\ UNCHANGED todo
  /\ Overlapping
  /\ UNCHANGED <<db, lock, faults, missed>>

Ack(w) ==
  /\ proc[w].pc = "return"
  /\ proc' = [proc EXCEPT ![w] = Resting]
  /\ UNCHANGED <<db, todo, queue, lock, faults, serial, missed>>

\* task_reject_on_worker_lost: the message goes back to the broker.
WorkerLost(w) ==
  /\ proc[w].pc # "idle" /\ faults < MaxFaults
  /\ LET d == proc[w].job.doc
     IN IF proc[w].job.kind = "finalize"
        THEN todo' = [todo EXCEPT ![d] = @ + 1] /\ UNCHANGED queue
        ELSE queue' = [queue EXCEPT ![d] = @ + 1] /\ UNCHANGED todo
  /\ proc' = [proc EXCEPT ![w] = Resting]
  /\ faults' = faults + 1
  /\ UNCHANGED <<db, lock, serial, missed>>

-----------------------------------------------------------------------------
(* Reconciliation, of a task or a request *)

\* The links and the entries they lead to.  The key has no questions and the
\* paper no entries, so the key's own entries are all a reconciliation of it has.
ReadKeys(p) ==
  /\ At(p, "read", "reconcile")
  /\ LET pool == IF proc[p].job.doc = "key" \/ linked THEN key ELSE <<>>
     IN proc' = [proc EXCEPT ![p].pc = "questions", ![p].pool = pool]
  /\ UNCHANGED <<db, todo, queue, lock, faults, serial, missed>>

\* A task that has matched the questions it was given with the entries it read.
Matched(task, questions, pool) ==
  [task EXCEPT !.pc = "save", !.pool = pool,
               !.found = Answers(questions, pool, <<>>),
               !.statuses = [id \in {e.id : e \in Range(pool)} |-> EntryStatus(questions, pool, <<>>, id)]]

\* The rows, and what is found for them: the payload is built of the questions
\* as extracted and the answers that are stored.
ReadQuestions(p) ==
  /\ At(p, "questions", "reconcile")
  /\ LET rows == IF proc[p].job.doc = "paper" THEN paper.rows ELSE <<>>
         questions == [i \in DOMAIN rows |-> Reloaded(Paper[i], rows[i])]
     IN proc' = [proc EXCEPT ![p] = [Matched(@, questions, @.pool) EXCEPT
                                       !.batch = paper.batch, !.rows = rows]]
  /\ UNCHANGED <<db, todo, queue, lock, faults, serial, missed>>

\* The entries whose match_status the commit updates, and the changed questions.
Touched(p) == {e \in Range(proc[p].pool) : proc[p].statuses[e.id] # e.status}
Changed(p) == {i \in DOMAIN proc[p].rows : proc[p].found[i] # proc[p].rows[i]}

Stale(p) ==
  \/ \E e \in Touched(p) : \A k \in DOMAIN key : key[k].id # e.id
  \/ proc[p].job.kind = "reconcile" /\ Changed(p) # {} /\ paper.batch # proc[p].batch

\* Columns of new that equal those of old are not written.
Columns(old, new, row) ==
  [c \in DOMAIN row |-> IF new[c] = old[c] THEN row[c] ELSE new[c]]

KeyAfter(p) ==
  [k \in DOMAIN key |->
     IF \E e \in Touched(p) : e.id = key[k].id
     THEN [key[k] EXCEPT !.status = proc[p].statuses[key[k].id]] ELSE key[k]]

\* q.flags.append changes a JSON column in place, which the ORM does not notice:
\* a reconciliation writes no flags.
ReconcileSave(p) ==
  /\ At(p, "save", "reconcile")
  /\ KeyLocked => Touched(p) = {}
  /\ IF Stale(p) THEN missed' = (missed \/ Owes(p)) /\ UNCHANGED <<paper, key>>
     ELSE /\ missed' = (missed /\ proc[p].job.doc # "paper")
          /\ key' = KeyAfter(p)
          /\ paper' = [paper EXCEPT !.rows =
               [i \in DOMAIN @ |-> IF i \in Changed(p)
                                   THEN Columns(proc[p].rows[i], proc[p].found[i], @[i]) ELSE @[i]]]
  /\ proc' = [proc EXCEPT ![p] = IF p \in Request /\ proc[p].job.doc = "paper"
                                  THEN [Resting EXCEPT !.pc = "release"] ELSE Ended(p)]
  /\ UNCHANGED <<linked, known, fresh, todo, queue, lock, faults, serial>>

\* acquire_reconcile_lock, on the way out: GET, compare with the token ...
ReleaseCheck(r) ==
  /\ proc[r].pc = "release"
  /\ proc' = [proc EXCEPT ![r] = IF lock = {r} THEN [@ EXCEPT !.pc = "delete"] ELSE Ended(r)]
  /\ UNCHANGED <<db, todo, queue, lock, faults, serial, missed>>

\* ... and DELETE, of whatever lock is there by then.
ReleaseDelete(r) ==
  /\ proc[r].pc = "delete"
  /\ lock' = {}
  /\ proc' = [proc EXCEPT ![r] = Ended(r)]
  /\ UNCHANGED <<db, todo, queue, faults, serial, missed>>

-----------------------------------------------------------------------------
(* finalize_document *)

\* The DELETE of the document's own entries, then the links and their entries,
\* and what is found for the questions as extracted.
FinalRead(w) ==
  /\ At(w, "read", "finalize")
  /\ LET pool == IF proc[w].job.doc = "paper" /\ linked THEN key ELSE <<>>
         questions == IF proc[w].job.doc = "paper" THEN Paper ELSE <<>>
     IN proc' = [proc EXCEPT ![w] = [Matched(@, questions, pool) EXCEPT !.link = linked]]
  /\ UNCHANGED <<db, todo, queue, lock, faults, serial, missed>>

\* The paper's rebuilt questions, with the flag each answer status has, and the
\* statuses of the linked entries.
PaperSave(w) ==
  /\ At(w, "save", "finalize") /\ proc[w].job.doc = "paper"
  /\ KeyLocked => Touched(w) = {}
  /\ IF Stale(w)
     THEN /\ proc' = [proc EXCEPT ![w] = Ended(w)]
          /\ UNCHANGED <<paper, key, missed>>
     ELSE /\ missed' = FALSE
          /\ paper' = [batch |-> paper.batch + 1, rows |-> proc[w].found,
                      flags |-> [i \in DOMAIN proc[w].found |-> proc[w].found[i].status]]
          /\ key' = KeyAfter(w)
          /\ proc' = [proc EXCEPT ![w].pc = "notify"]
  /\ UNCHANGED <<linked, known, fresh, todo, queue, lock, faults, serial>>

\* The key's rebuilt entries, and its role.
KeySave(w) ==
  /\ At(w, "save", "finalize") /\ proc[w].job.doc = "key"
  /\ \E read \in Readings :
       /\ key' = [k \in DOMAIN read |->
                    [id |-> fresh + k, num |-> read[k].num, section |-> read[k].section,
                     values |-> read[k].values, status |-> "unmatched"]]
       /\ fresh' = fresh + Len(read)
  /\ known' = TRUE
  /\ proc' = [proc EXCEPT ![w].pc = "notify"]
  /\ UNCHANGED <<linked, paper, todo, queue, lock, faults, serial, missed>>

SelfNotified(w) == proc[w].job.doc
\* After the commit, reconcile_document_task.delay for the other end of the
\* links that were there when the finalization read them.
Notified(w) == Other(proc[w].job.doc)

Notify(w) ==
  /\ At(w, "notify", "finalize")
  /\ queue' = IF proc[w].link THEN [queue EXCEPT ![Notified(w)] = @ + 1] ELSE queue
  /\ proc' = [proc EXCEPT ![w] = Ended(w)]
  /\ UNCHANGED <<db, todo, lock, faults, serial, missed>>

\* The database, the store or the broker raises: what is not committed is rolled
\* back, and the task, which is not retried, has come to its end.  A request gives
\* its lock back.  (A .delay that raises with its message sent is a Notify, and a
\* commit that raises with its rows written is a save and an exception after it.)
JobRaises(p) ==
  /\ proc[p].pc \in {"read", "questions", "save", "notify"} /\ faults < MaxFaults
  /\ proc' = [proc EXCEPT ![p] = IF p \in Request /\ proc[p].job.doc = "paper"
                                  THEN [Resting EXCEPT !.pc = "release"] ELSE Ended(p)]
  /\ missed' = (missed \/ Owes(p))
  /\ faults' = faults + 1
  /\ UNCHANGED <<db, todo, queue, lock, serial>>

-----------------------------------------------------------------------------
(* Requests *)

\* reconcile_document_answers of the paper, refused while the lock is held.
ReconcileRequest(r) ==
  /\ "reconcile" \in Operation
  /\ proc[r].pc = "new"
  /\ IF lock = {}
     THEN /\ lock' = {r}
          /\ proc' = [proc EXCEPT ![r].pc = "read"]
     ELSE /\ proc' = [proc EXCEPT ![r] = Ended(r)]
          /\ UNCHANGED lock
  /\ Overlapping
  /\ UNCHANGED <<db, todo, queue, faults, missed>>

LinkTargetFrom == "key"
\* The document add_document_link reconciles: to_document when from_document is
\* known to be a key, from_document otherwise.
LinkTarget == IF known THEN "paper" ELSE "key"

\* add_document_link from the key to the paper.  An existing link is returned;
\* after a new one the target is reconciled, or is not when its lock is held:
\* whatever the reconciliation raises is logged, and the request succeeds.
LinkRequest(r) ==
  /\ "link" \in Operation
  /\ proc[r].pc = "new"
  /\ linked' = TRUE
  /\ IF linked \/ (LinkTarget = "paper" /\ lock # {})
     THEN proc' = [proc EXCEPT ![r] = Ended(r)] /\ UNCHANGED lock
     ELSE /\ proc' = [proc EXCEPT ![r].pc = "read", ![r].job.doc = LinkTarget]
          /\ lock' = IF LinkTarget = "paper" THEN {r} ELSE lock
  /\ missed' = (missed \/ (~linked /\ LinkTarget = "paper" /\ lock # {}))
  /\ Overlapping
  /\ UNCHANGED <<paper, key, known, fresh, todo, queue, faults>>

\* remove_document_link: nothing else.
UnlinkRequest(r) ==
  /\ "unlink" \in Operation
  /\ proc[r].pc = "new" /\ linked
  /\ linked' = FALSE
  /\ proc' = [proc EXCEPT ![r] = Ended(r)]
  /\ Overlapping
  /\ UNCHANGED <<paper, key, known, fresh, todo, queue, lock, faults, missed>>

\* The API process is lost: the link is there, the lock stays until it expires.
RequestLost(r) ==
  /\ proc[r].pc \in Active /\ faults < MaxFaults
  /\ proc' = [proc EXCEPT ![r] = Ended(r)]
  /\ missed' = (missed \/ Owes(r))
  /\ faults' = faults + 1
  /\ UNCHANGED <<db, todo, queue, lock, serial>>

\* The lock's 15 seconds pass.
LockExpires ==
  /\ lock # {}
  /\ lock' = {}
  /\ UNCHANGED <<db, todo, queue, proc, faults, serial, missed>>

-----------------------------------------------------------------------------
Reconciling(p) == ReadKeys(p) \/ ReadQuestions(p) \/ ReconcileSave(p)
                  \/ ReleaseCheck(p) \/ ReleaseDelete(p)
WorkerStep(w) == Deliver(w) \/ Reconciling(w) \/ FinalRead(w) \/ PaperSave(w) \/ KeySave(w)
                 \/ Notify(w) \/ Ack(w)
RequestStep(r) == ReconcileRequest(r) \/ LinkRequest(r) \/ UnlinkRequest(r) \/ Reconciling(r)

Next == \/ \E w \in Worker : WorkerStep(w) \/ WorkerLost(w) \/ JobRaises(w)
        \/ \E r \in Request : RequestStep(r) \/ RequestLost(r) \/ JobRaises(r)
        \/ LockExpires

Spec == Init /\ [][Next]_vars

\* Workers work; a request that has begun its reconciliation goes on.
FairSpec == /\ Spec
            /\ \A w \in Worker : WF_vars(WorkerStep(w))
            /\ \A r \in Request : WF_vars(Reconciling(r))

-----------------------------------------------------------------------------
(* Properties *)

AnswerRow == [status : AnswerStatus, value : SUBSET Value, raw : SUBSET Value,
              source : [kind : {"none", "inline", "linked_document"}, entry : Nat]]
EntryRows == Range(key)

TypeOK ==
  /\ linked \in BOOLEAN /\ known \in BOOLEAN
  /\ paper.batch \in Nat
  /\ DOMAIN paper.rows \in {{}, DOMAIN Paper}
  /\ \A i \in DOMAIN paper.rows : paper.rows[i] \in AnswerRow
  /\ \A e \in EntryRows : e.status \in AnswerStatus \cup {"unmatched"} /\ e.id \in 1..fresh
  /\ todo \in [Doc -> Nat] /\ queue \in [Doc -> Nat]
  /\ \A p \in Proc : proc[p].pc \in Pc /\ proc[p].job \in Job
  /\ lock \subseteq Request
  /\ serial \in BOOLEAN /\ missed \in BOOLEAN

\* No job is under way and no message waits.
Quiet == /\ todo = [d \in Doc |-> 0] /\ queue = [d \in Doc |-> 0]
         /\ \A p \in Proc : proc[p].pc \in {"idle", "new", "over"}

Current == Answers(Paper, key, <<>>)
AnswersCurrent ==
  \A i \in DOMAIN paper.rows : paper.rows[i].status = Current[i].status
                               /\ paper.rows[i].value = Current[i].value

\* SPEC.md 11 and docs/PHASE_PROMPTS.md: when linked documents have both been
\* finalized and everything has come to rest, the paper's answers are those its
\* key gives now, whichever document was finalized first or again, and whatever
\* was redelivered.  Overlapping jobs of two workers break it.
AnswersFollowKey == Quiet /\ linked /\ known => AnswersCurrent

\* ... and it holds as long as no two jobs have overlapped and none has been given
\* up: every order of finalizations, reconciliations, links and unlinks is
\* handled, and so is a lost worker.  After a job that owed the paper its answers
\* has raised, was lost with the API process, or found the lock held, nobody
\* repeats it: the answers are right again with the paper's next commit.
SerialAnswersFollowKey == serial /\ ~missed => AnswersFollowKey

\* An answer is assigned when, and only when, its status says so: the columns of
\* two reconciliations never mix into an answer neither of them found.
NeverTorn ==
  \A i \in DOMAIN paper.rows :
    /\ paper.rows[i].status = "matched" <=> paper.rows[i].value # {}
    /\ paper.rows[i].status # "matched" => paper.rows[i].source.entry = 0

\* A finalized paper with a finalized key gets the key's answers in the end,
\* unless the owner removes the link, jobs overlap, or the job that owes them is
\* given up.
EventuallyAnswered ==
  serial /\ linked /\ known /\ paper.batch > 0
    ~> ~linked \/ ~serial \/ missed \/ AnswersCurrent

-----------------------------------------------------------------------------
(* What the documents of the repository say, and the code does not do *)

\* SPEC.md 11: reconcile is guarded by a Redis lock keyed on the document, so no
\* two reconciliations of the paper are under way at once.
ReconciledAlone ==
  \A p, q \in Proc :
    /\ p # q
    /\ \A x \in {p, q} : /\ proc[x].pc \in {"read", "questions", "save"}
                         /\ proc[x].job = [kind |-> "reconcile", doc |-> "paper"]
    => FALSE

\* link_service.py: a request releases the lock "safely if token matches", so
\* the lock it deletes is not that of another request.
OwnLockReleased == \A r \in Request : proc[r].pc = "delete" => lock \subseteq {r}

\* SPEC.md 9.7: an unmatched entry is one that has no question.
UnmatchedHasNoQuestion ==
  Quiet => \A e \in EntryRows, i \in DOMAIN paper.rows :
             e.status = "unmatched" => paper.rows[i].source.entry # e.id

\* SPEC.md 9.5: an answer that is not among the options makes the question
\* invalid, with the flag ANSWER_OUT_OF_RANGE.
OutOfRangeIsFlagged ==
  \A i \in DOMAIN paper.rows : paper.rows[i].status = "invalid" => paper.flags[i] = "invalid"

\* SPEC.md 9.6: with no key linked, the answer printed in the paper counts.
PrintedAnswerCounts ==
  Quiet /\ ~linked =>
    \A i \in DOMAIN paper.rows :
      Paper[i].inline # {} => paper.rows[i].status # "not_found"
=============================================================================
