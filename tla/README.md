# TLA+ verification of the Document Intelligence & Question Extraction Service

The service takes PDF files and images of question papers, splits them into
pages, extracts the questions of each page, stitches questions that span pages,
matches them with answer keys and lets their owner review the result.  A FastAPI
process serves requests; Celery workers do the processing; PostgreSQL holds the
state; Redis is the broker and holds locks, rate limits and LLM slots.

Paths below are relative to `src/`.

1. [Inventory](#1-inventory)
2. [Modules](#2-modules)
3. [How the modules correspond to the code](#3-how-the-modules-correspond-to-the-code)
4. [What the runs check](#4-what-the-runs-check)
5. [Fairness](#5-fairness)
6. [What is proved](#6-what-is-proved)
7. [Where the code does not do what its documents say](#7-where-the-code-does-not-do-what-its-documents-say)
8. [What is not modelled](#8-what-is-not-modelled)
9. [Plan](#9-plan)

## 1. Inventory

| Component | State it keeps | Operations | Hard behaviour |
|---|---|---|---|
| Document pipeline, `app/workers/tasks.py`, `celery_app.py` | the task-local ORM snapshots; messages at the broker | `process_document`, `process_page`, `finalize_document` | parallel page tasks, the `finalize_enqueued` latch, redelivery after a lost worker (`task_acks_late`, `task_reject_on_worker_lost`), hard time limits, except blocks that raise themselves, broker outage between two commits |
| Document requests, `app/api/v1/documents.py`, `services/upload_service.py`, `services/document_service.py` | the `documents` row | upload, reprocess, delete | enqueue and commit are two steps; a reprocess while tasks are at work |
| Database and sessions, `app/db` | rows of `documents`, `pages`, `questions`, `answer_key_entries`, `document_links` | flush, commit, cascade, unique constraints | stale snapshots (`expire_on_commit=False`), row locks at READ COMMITTED |
| Answer matching, `app/pipeline/answer_key/match.py`, `normalize.py` | none (pure) | `match_question_answers` | precedence, ambiguity, conflicting and out-of-range answers |
| Links and reconciliation, `services/link_service.py`, `api/v1/links.py`, `tasks.py: reconcile_document_task` | links, answers of the questions, statuses of the key entries, the Redis lock | add and remove link, reconcile (request), reconcile (task) | two reconciliations of the same rows at once; lock expiry; a key that finishes while its question paper is reconciled; a reconciliation that raises and that nobody repeats |
| Question review, `services/review_service.py` | edited questions, revisions | patch, approve, reject, set to pending | a review while the document is being rebuilt or reconciled |
| Stitching and numbering, `app/pipeline/stitcher.py`, `numbering.py` | none (pure) | `stitch_document_extractions` and the numbering audit | questions over three and more pages, disagreement of the two flags at a page break |
| Confidence and validation, `confidence.py`, `validation.py` | none (pure) | score, flags and status of a question | thresholds |
| LLM slots, `app/pipeline/extractors/limiter.py`, `gemini.py` | a Redis sorted set of holders | `acquire_llm_slot`, `extract_page` | count-then-add, slots that leak and expire, the time-out that goes ahead without a slot |
| Extractors, `app/pipeline/extractors` | none | one extraction per page: a model, or the rules of `rules.py` | external calls, fallback; a page that begins and ends within a question |
| Key detection and parsing, `detect.py`, `parse.py` | none (pure) | `is_answer_key_page`, `parse_answer_key_text`, `merge_llm_answer_key_entries` | sections that run over pages, two readers of one page |
| Upload validation, rate limits, `upload_service.py`, `core/ratelimit.py` | temporary files, stored files, a sliding window in Redis and one in memory | validate, look for a duplicate, store, enqueue | a step fails after others have left files or a message; two uploads of the same file; a commit or a message that happened although it raised; a clock that is read before an `await`, a Redis that answers late, not at all, or restarts |
| Accounts, `api/v1/auth.py` | users | register, log in | a unique index decides races |
| Ingestion, OCR, figures, grounding | page images and crops in the store | image and text computation | files are stored before the rows that name them |
| Configuration, errors, logging, health | none | | |

How they interact: a request commits rows and sends a message (`.delay`); a
worker takes a message, loads rows into an ORM session of its own, works for
seconds or minutes and commits what it changed; page tasks start the
finalization through the latch in the `documents` row; a finalization starts
the reconciliation of linked documents; requests change the same rows at any
time.  Nothing but the database's row locks, one conditional `UPDATE` and two
Redis structures orders these programs.

What makes each component correct:

* *pipeline*: every page is settled, the last one is noticed, finalization runs
  once per run and on settled pages, the questions are those of one
  finalization, the status a client sees only moves forward;
* *matching*: an answer is an option of its question, is not guessed between
  questions of one number, and does not depend on the order of rows;
* *reconciliation*: whoever finishes first, a linked paper ends with the answers
  its key gives;
* *review*: acknowledged corrections stand, critical questions stay queued;
* *stitching, confidence*: no fragment is lost, certain stitches are right,
  doubtful ones are visible; what the rules read of a paper is the paper;
* *keys*: an answer is the one that is printed for the question's number in its
  section, whoever reads the key;
* *intake*: a reply says what the upload has left behind, a row has its files, no
  window admits too many or refuses for less;
* *slots*: the limit is overshot by a bounded amount, nothing waits for ever.

## 2. Modules

| Module | Is | Uses |
|---|---|---|
| `Pipeline` | the three tasks of one document, its upload, reprocess and delete requests, the broker and the failures | `DocumentLifecycle` (INSTANCE, with a refinement mapping) |
| `DocumentLifecycle` | abstract: the statuses a polling client may see | |
| `AnswerMatch` | `match_question_answers` as operators | |
| `KeyPage` | how the entries of a key are read off the lines of a page: the detection of keys, the parser, the merge with what the extractor reports, the key reader of the rules | extends `AnswerMatch` |
| `Reconcile` | a paper, its key, their link: two finalizations, tasks and requests that write the same answers | extends `AnswerMatch` |
| `Review` | requests of the owner on questions against finalization and reconciliation | |
| `Confidence` | score, flags and status of one question as operators | |
| `Stitcher` | the loop of `stitch_document_extractions` and the numbering audit | extends `Confidence` |
| `RulesPage` | `RulesExtractor.extract_page`: the items of a page of questions | extends `KeyPage` |
| `LlmSlots` | `extract_page` under `acquire_llm_slot` | |
| `RateLimit` | `check_rate_limit`: the window in Redis and the one in memory, with a specification of its own | |
| `Intake` | uploads, deletions and jobs as far as files, rows that name them and replies go | extends `RateLimit`, whose requests are the uploads |
| `MCPipeline`, `MCAnswerMatch`, `MCReconcile`, `MCReview`, `MCStitcher`, `MCIntake` | instances for TLC: inputs, symmetry; `MCAnswerMatch` composes `KeyPage` with `AnswerMatch` and `MCStitcher` composes `RulesPage` with `Stitcher`, and both hold the environment and the properties of the operators they check; `MCIntake` has a part for `RateLimit` and one for `Intake` | |
| `PipelineProofs` | theorems: types of `Pipeline`, `LiveOnce`, `OneBatchPerArming`, `NoOrphanPage`, `LastPageIsNoticed`, `FinalizeAfterAllPages`, `QuestionsRebuilt`, `CompletedIsWhole`, and that `Pipeline` implements `DocumentLifecycle` | extends `Pipeline` |
| `LlmSlotsProofs`, `IntakeProofs`, `ReviewProofs` | theorems about every invariant of the module named; `IntakeProofs` also those of `RateLimit`, and that the uploads of `Intake` are a behaviour of it | each extends its module |
| `KeyPageProofs` | lemmas about the functions that read a page line by line, about flattened sequences, and the types of what `KeyPage` reads | extends `KeyPage` |
| `AnswerMatchProofs` | theorems about the operators of `AnswerMatch`, for every paper and every key, and about the states of `MCAnswerMatch` | extends `MCAnswerMatch` and `KeyPageProofs` |
| `ReconcileProofs` | theorems: types of `Reconcile`, `SerialAnswersFollowKey` | extends `Reconcile` and `KeyPageProofs` |
| `StitcherProofs` | theorems about the states of `MCStitcher`: documents of fragments and papers of lines | extends `MCStitcher` and `KeyPageProofs` |

The definitions that some modules have beside the ones they use (`NoneProcessing`
beside `NoneRemaining`, `LatchUnconditional` beside `LatchIsFree` and so on) are
plausible mistakes: `PROJECT.json` lists, for each property of each passing run,
one that the property catches.

## 3. How the modules correspond to the code

### Pipeline

A task is cut where another program can see its effects or change what it
reads: at each commit, at each `.delay`, and around ingestion, extraction and the
rebuild of the questions.

| State | Code |
|---|---|
| `exists`, `doc` | the `documents` row: `status`, `finalize_enqueued`, `pages_done`, `progress_pct`, whether `detected_role` is set |
| `gen`, `pages` | the `pages` rows; an ingestion replaces all of them, `gen` tells old ones from new ones |
| `questions` | the `questions` rows, one batch per finalization |
| `queue` | messages at the broker; `run` in a message is not in the payload, it tells messages of different senders apart |
| `worker[w]` | a worker's program counter, message and ORM snapshots |
| `api` | the request in progress |
| `armings`, `saves` | history: how often the latch was re-armed, how many finalizations have committed |
| `abandoned` | history: the messages of tasks on the present pages that were cut short for good |
| `faults` | bound |

| Action | Code (`tasks.py` unless said otherwise) |
|---|---|
| `DocStart`, `DocIngest`, `DocReplacePages`, `DocFanOut`, `DocExcept` | `process_document`: first commit, ingestion and `DELETE FROM pages`, insert and commit, one `process_page.delay` per page, except block |
| `PageStart`, `PageCommit`, `PageExcept` | `process_page`: `status = processing`, commit of extraction and counters, except block |
| `PageCountRemaining`, `PageLatch`, `PageEnqueueFinal` | the count of pages that are not terminal, the conditional `UPDATE`, `finalize_document.delay` |
| `FinalStart` to `FinalNotify`, `FinalExcept` | `finalize_document`: `progress_pct = 90`, stitching and the flush of `detected_role`, `DELETE FROM questions`, insert and commit, notification, except block |
| `Deliver`, `Ack`, `WorkerLost`, `HardTimeout` | `celery_app.py`: late acknowledgement, rejection when a worker is lost, `task_time_limit` |
| `UploadEnqueue`, `UploadInsert`, `UploadRejected`, `UploadUnavailable` | `upload_document` and `store_and_enqueue_document` |
| `ReprocessLoad`, `ReprocessCommit`, `ReprocessEnqueue`, `ReprocessUnavailable` | `reprocess_document` |
| `DeleteDocument`, `ApiLost` | `delete_document_record`; the API process dies |
| `DocIngestRaises`, `DocFanOutRaises`, `PageRaises`, `PageTailRaises`, `FinalRaises` | exceptions at the place named |
| `ExceptRaises` | the `except` around each except block: its own query or `UPDATE` raises, nothing is marked and the message is acknowledged (`tasks.py:130`, `297`, `733`) |

`Flush(snap, new)` is what an ORM flush does: only attributes that differ from
the snapshot are written.  It is why a page task writes a stale `pages_done`
and not a stale `status`.  `RowUnlocked` and `PagesUnlocked` are PostgreSQL's
row locks; they matter for `finalize_document`, which holds the `documents` row
from the flush of a *changed* `detected_role` to its commit, and not at all when
the role is what it was.

A task is *cut short for good* (`Abandon`) when the hard time limit kills it before it has
returned, or when what its except block asks of the database or the broker raises: its
message is acknowledged and what it had still to do is done by nobody.  The properties
excuse such tasks one by one (a page by a task of that very page, or by the ingestion), never
a whole behaviour in which some failure has happened.

### AnswerMatch and Reconcile

Each operator of `AnswerMatch` is a stage of `match_question_answers`:
`Candidates` (section, then number), `Selected` (linked keys before the own
key), `Ambiguous`, `Conflicting`, `ToLetters`, `InRange`, `AnswerOf` for the whole,
`EntryStatus` for the statuses written to the key's entries.  Candidates are sets of
entries; `Best` is where the first of them stands in the list.  Raw strings are
values of a kind and a rank, a section is the set of the words of its heading
(so that "contained in" is set inclusion), and confidences are left out.
`Reloaded` is what a reconciliation knows of a question: the printed answer only
if the answer it stored was an inline one.

`KeyPage` puts the reader before the matcher.  A line of a page is a record of what
the regular expressions find in it: a section, a range, pairs (whichever pattern
finds them), the pairs that `ANSWER_KEY_PAIR_REGEX` sees, which are not always the
same.  `Parsed` is `parse_answer_key_text`, `Merged` is `merge_llm_answer_key_entries`,
`IsKeyPage` and `TakenForKey` are the two tests for a key, `DenseEntries` is the key reader of
the rules, `DocumentEntries` the loop of `finalize_document`.  `MCAnswerMatch` prints keys of a
few lines, cuts them into pages, lets the rules or a model read them, and matches
what was read with questions whose own section may not have been read.

`Reconcile` has a paper and a key.  `linked`, `paper`, `key` and `known` are rows;
`proc[p]` is a worker's task or a request, with what it has read; `lock` is the
Redis lock.  `ReadKeys`, `ReadQuestions`, `ReconcileSave` are the three phases of
`reconcile_document_task` and of `reconcile_document_answers`; `ReleaseCheck` and
`ReleaseDelete` are the two commands that release the lock; `FinalRead`,
`PaperSave`, `KeySave`, `Notify` are `finalize_document` as far as answers go.
`Matched` is a task that has computed what it will commit from what it has read, as both
tasks do before they write.  `Columns` is the flush of changed columns, `Stale` the rows that are gone.  One
document is finalized by one task at a time here: what goes wrong otherwise is
`Pipeline`'s subject.

`JobRaises` is an exception at any step of a job: of a task, a `.delay` after the commit
included, which is not redelivered; of a request, which gives its lock back (a link request logs
it and succeeds).  `RequestLost` is the API process dying with the link committed and the lock
held.  `Owes` says which jobs have the answers still to bring; `missed` remembers
that one of them was given up, or a link request found the lock held, and is taken back by the paper's
next commit of answers.

### Review

`Load` and `Commit` are the two halves of `patch_question` and
`review_question_decision`; `FinalSelect`, `FinalDelete`, `FinalInsert` the
reviewed rows, the `DELETE` and the rebuilt rows of `finalize_document`;
`ReconRead` and `ReconSave` the reconciliation of the same rows.  A row keeps its
place, the question it is about, whose text and answer it has, its worst flag,
its status and its review state.  `Queue` is what `list_review_queue_for_document` selects.

### Stitcher and Confidence

The input is a printed paper that `MCStitcher` cuts into pages and an extractor
that misreads it; `TakeItem` is one iteration of the loop, `TurnPage` the next
page, `Finish` the end with `Audited` numbers.  `Continues` is the decision
(`Certain`: both flags; `Uncertain`: one flag or the look of the texts, and no
number), `MergedLabels` the options, `Joined` and `Opened` the two outcomes.
`alike` stands for `is_heuristic_continuation`: the regular expressions may say
anything of any two texts.  `Rated` applies `Confidence` to a question; the loop
does not depend on texts, types and confidences, so they are arguments of the
rating and the properties quantify over them.  Scores are in thousandths, rounded
to the nearest as in the code (ties upward; the code's depend on floats).

`RulesPage` is what the rules make of a page.  `TakeLine` is one turn of the loop of
`extract_page`: an option or an answer of the open item, a number that opens the next
one, or more of the open item; a line above the first number opens a fragment
(`StartFragment`), which on the first page is a title.  `GoesOn` is the test of the last
item for a continuation.  In `MCStitcher` the rules read papers of lines (`ReadPage` cuts
off a page, `TakePending` gives its items to the stitcher): two questions of one or two
lines of text, with options in any of `Layouts`, perhaps with a printed answer.

### RateLimit and Intake

| State | Code |
|---|---|
| `clock`, `ask` | the time; each request's step in `check_rate_limit`, its one reading of the clock, and whether its transaction may still reach Redis |
| `log`, `written` | the sorted set in Redis, whose members are readings, and when its time to live was set |
| `memory`, `life` | `_memory_windows` of the API process; how often Redis and that process have restarted |
| `admitted` | history: who was admitted, with its reading, when, and by which window |
| `upload` | a request of `upload_document`: its step, its file and form fields, its reply |
| `temp`, `store` | the temporary file of a request; the stored files: the upload, the page images and the crops of a document |
| `status`, `pages`, `figures`, `links` | rows of `documents`, `pages`, `question_assets` and `document_links` |
| `job`, `removal` | how far the tasks of a document are; how far its deletion is |

`ReadClock` is `ratelimit.py:24`; `RedisAdmits`, `RedisRefuses` and `AnswerLost` are the
transaction at line 39, at any later time, answered or not (an answer may come after the
socket's timeout, and the transaction after that); `MemoryAdmits` and `MemoryRefuses` are the fallback.
Requests with the same reading have one member in Redis, since the member is
`str(now)`, and two entries in memory.  `RedisRestarts` empties the log (the container has no
volume), `ApiRestarts` the memory.

In `Intake` `Ask` is `check_rate_limit`; `Stream`, `Refuse`, `Pass`, `AnswerDuplicate`, `LookUpRaises` are
`stream_and_validate_upload` and the look-up of a duplicate; `Store`, `StoreSwallows`, `StoreRaises`,
`Unlink`, `Enqueue`, `EnqueueRaises` are `store_and_enqueue_document`; `FindTarget`, `CommitUpload`,
`CommitUploadRaises`, `Accept` the rest of the request.  A call that raises may have done its
work: a file may be stored, a message delivered, a row committed.  The commit and the reply are
two steps, and the process may be lost between them (`ApiLost`).  `Checks` lists the checks of a file in the
order in which they are made: a file with several defects is refused for the first.
`DeleteFile` and `DeleteRow` are `delete_document_record`; `Start`, `Render`, `SavePages`, `Crop`,
`SaveQuestions` are the places where the tasks store files and commit rows that name them,
and a commit for a document that is gone violates a foreign key (`Referenced`).
`Pipeline` has the same tasks with all their other state; the two modules share no
variable.

### LlmSlots

`Ping`, `Poll`, `Add`, `GiveUp`, `Return`, `CallRaises`, `ReleaseFails`, `Rules` are the
steps of `extract_page` and `acquire_llm_slot`; `Lost` is a process that dies.
`slots` are tokens whose holder lives, `leaked` those nobody will remove;
`Expire` drops one of these.  A holder's own token does not expire: a call is cut
off after `llm_timeout_s`, a token lives twice as long.  The slot of a call that raises is
released as well, and `CallRaises` may leave it behind when the release fails too.

## 4. What the runs check

Passing runs:

| Run | Question | Bounds | Distinct states |
|---|---|---|---|
| `pipeline_failures` | exceptions anywhere, in except blocks too, and killed tasks: `TypeOK`, `FinalizeAfterAllPages`, `CompletedIsWhole`; `EventuallyFinal`; `FollowsLifecycle` (refinement of `DocumentLifecycle`) | 3 pages, 2 workers, 2 failures, no reprocess | 61 thousand |
| `pipeline_reprocess` | a reprocess at any moment, with a task killed by the time limit or failed in its except block, a broker or an API process that is away: `LiveOnce`, `QuestionsRebuilt`, `NoOrphanPage`, `LastPageIsNoticed` | 2 pages, 2 workers, 1 reprocess, 1 failure | 1.9 million |
| `pipeline_recovery` | two failures of any kind but an exception inside a finalization, lost workers and a broker that is away included: `NoOrphanPage`, `LastPageIsNoticed`; and `OneBatchPerArming`, since finalizations are interrupted and redelivered | 2 pages, 2 workers, 2 failures | 3.2 million |
| `answer_match` | `AnswersAreOptions`, `OrderIsIrrelevant`, `SharedNumberNeedsSection`, `StatusesTell` over every small paper and key; `AnswersAsPrinted` over every small printed key, however it is read | 2 questions, 2 linked entries, 1 own entry, 4 headings, 3 key values; keys of 3 lines of 7 kinds on 2 pages | 2.3 million |
| `reconcile` | `SerialAnswersFollowKey` and `EventuallyAnswered` for every order of finalizations, reconciliations, link, unlink | 1 worker, 1 request, 1 finalization of each, 1 failure (a lost worker or request, or an exception), 1 question | 96 thousand |
| `review` | `CorrectionStands`, `CriticalIsQueued` | 2 clients, 3 requests, 2 finalizations, 1 reconciliation, 1 lost worker, 1 question | 1.9 million |
| `stitcher` | `NothingLost`, `CertainStitchIsTrue`, `LabelsInOrder`, `CleanIsTrue`, `MixedIsNotExtracted`, `WholeIsExtracted`; `LinesAsPrinted` for papers that the rules read | 3 questions of 2 options on 4 pages, 1 untrue flag; 2 questions of up to 7 lines, 4 layouts of options, on 4 pages | 1.7 million |
| `intake` | `AdmittedPerWindow`, `RefusedOnlyWhenBusy`; `RepliesTellWhatIsLeft`, `RowsHaveTheirFiles`, `RowsHaveTheirDocument` | a limit of 1 in 2 ticks; by itself: 3 requests at times 0 to 3, 1 restart, any number of lost answers; with files: 2 uploads of 3 files, one of them with two defects, at times 0 and 1, 1 failure | 2.9 million |
| `llm_slots` | `OvershootIsBounded`, `ExtractionEnds` (`SlotsAreUsed` is proved, section 6) | 3 clients, 2 slots, 3 failures | 14 thousand |

Why these bounds are enough to show something:

* Two workers are the least that race, and a page task races with one other at a
  time; three pages let one be early, one late and one failed.  With two pages
  and a reprocess, tasks of two generations are at work on rows of two
  generations.  Two failures allow one in a task and one in its redelivery, or one in a
  task and one in its except block.
* Two questions and three entries let two questions share a number, an entry
  match both, and two sources disagree.
* In `reconcile` the single worker is the point: `serial` becomes false as soon
  as a request overlaps a task, and `both_finish_together` shows what two
  workers do.  The failure makes any of the jobs run twice, or not to its end.
* In `review` two requests on one row, a rebuild that is interrupted and repeated
  and a reconciliation are each of the programs that write the row, with one more
  request to come after them.
* In `answer_match` three lines are a section, an entry and another section, or two
  entries around one; two pages let a section run over the break.
* In `intake` a window is shorter than the time that passes in the part of the limit, so that readings grow old
  while their requests wait; of three requests one may be counted late, one lost or pruned and one refused.  In the
  part of the files time stops with the first admission, and one upload may wait while the other is refused, linked to, finished or
  deleted; one failure is a step that raises, a Redis or an API process that goes, or
  a worker that is lost.
* In `stitcher` one question may run over three and four pages, with neighbours on
  both sides.  One untrue flag is the interesting case: two can make a wrong
  stitch certain, which no reader of flags can know.

`CHECK_DEADLOCK FALSE` is set where the system may stop: a document that is
finished and never touched again, a paper that has been read, requests that are
used up.  `llm_slots` has no end, and deadlock is checked there.

Runs that end in a violation, each a disagreement of the code with a document of
the repository (`PROJECT.json`, "findings", quotes it): `both_finish_together`,
`correction_moves`, `ungrounded_continuation`.  Section 7 has these and the others.

Properties that hold only under a condition carry it in the formula or in the
run, and it is worth reading:

* `FinalizeAfterAllPages`, `CompletedIsWhole` and `FollowsLifecycle` hold without
  reprocess requests and lost workers, the last two only with a broker that answers
  (section 6); `QuestionsRebuilt` with one reprocess and no lost worker;
* `NoOrphanPage` excuses a page when a task of that very page, or the one that ingests the
  document, was cut short for good (killed by the hard time limit, or failed in its except block because the database is away there), and
  `LastPageIsNoticed` a last page when a task that would have counted it was; a lost worker, a lost
  API process, a broker that is away or a cut-short task of another page excuses nothing.  `LastPageIsNoticed` is
  checked with one reprocess request that may lose its message, and is false with two;
* `OneBatchPerArming` is checked where finalizations are interrupted and redelivered, which is one arming
  of the latch; the theorem covers reprocess requests too;
* `EventuallyFinal` excuses a document one of whose tasks was cut short for good, and is checked without
  lost workers, broker outages and reprocess requests;
* `SerialAnswersFollowKey` and `EventuallyAnswered` hold as long as no two jobs have overlapped, and no
  job that owed the paper its answers has been given up since the paper's last commit of answers;
* `AdmittedPerWindow` is about requests that come *and* are answered within one window, and
  takes requests with one reading of the clock as one in Redis (section 7);
* `CorrectionStands` is about extractions that yield the same questions again, does
  not count a correction committed between the `SELECT` and the `DELETE` of a
  finalization, and takes the correction of an answer as superseded when a
  reconciliation has overwritten it;
* the use of inferred numbers in `CleanIsTrue` is about papers whose pages are of one
  section as far as headings were read;
* `AnswersAsPrinted` is about keys whose pages were all taken for keys and whose pages'
  headings are the first section on them or one above, and about questions whose text
  has nothing that looks like an answer;
* `LinesAsPrinted` leaves out papers in which a page ends between a question and its
  printed answer, and options labelled by digits, one on a line;
* `RepliesTellWhatIsLeft` says where a temporary file may be left (a duplicate; a look-up of duplicates that
  raised, before anything else was done; a lost process), and behind which replies a row may be
  (`ACCEPTED`, `INTERNAL_ERROR`, a lost process).  It asks nothing of the stored file, nor of the task, of an
  upload that failed after it was stored.  That `QUEUE_UNAVAILABLE` should leave a failed row is a property of its own,
  `UnavailableIsMarkedFailed`, which the code violates (section 7).

## 5. Fairness

* `Pipeline`: weak fairness of each worker's `TaskStep`, and of a request that has
  begun its work.  The pool takes messages whenever it is idle, a task has no
  waiting but row locks, which are held for a bounded time, and FastAPI runs a
  request to its end.  Requests need not come, failures need not happen, and
  nothing is assumed of a *particular* message: TLC may let a worker take them
  in any order.
* `Reconcile`: weak fairness of each worker and of a request's reconciliation.
  Nothing makes the lock expire or a user ask for anything.
* `LlmSlots`: weak fairness of each client's own steps.  A client that polls gives
  up when its time is over (`GiveUp`), so it never depends on the others; `Expire`
  need not happen.
* `Review`, `Stitcher`, `AnswerMatch`, `RateLimit` and `Intake` have no liveness properties.

## 6. What is proved

TLAPS proves, for every number of workers, pages, requests, clients and
failures, and for every set of failures, files and questions (the column "if" names
what a theorem assumes beyond the assumptions of its module):

| Theorem | States | If | Invariant |
|---|---|---|---|
| `PipelineProofs!TypeCorrect` | `TypeOK` | | `TypeOK` |
| `PipelineProofs!TriggeredOnce` | `LiveOnce` | | `OnceInv` |
| `PipelineProofs!RebuiltOnce` | `OneBatchPerArming` | | `OnceInv`, `OldSeen` |
| `PipelineProofs!NoPageOrphaned` | `NoOrphanPage` | | `PagesInv` |
| `PipelineProofs!LastPageNoticed` | `LastPageIsNoticed` | `NoRequestLost` | `CountInv` |
| `PipelineProofs!FinalizedAfterAllPages` | `FinalizeAfterAllPages` | `OneRun` | `RunInv` |
| `PipelineProofs!OneSetOfQuestions` | `QuestionsRebuilt` | no reprocess, or one and no lost worker | `BatchInv`, `RebuiltInv` |
| `PipelineProofs!CompletedWhole` | `CompletedIsWhole` | `OneRunWithBroker` | `WholeInv` |
| `PipelineProofs!LifecycleImplemented` | `FollowsLifecycle` | `OneRunWithBroker` | `WholeInv` |
| `LlmSlotsProofs!SlotTypes`, `SlotsUsed`, `OvershootBounded` | `TypeOK`, `SlotsAreUsed`, `OvershootIsBounded` | | `Promised` and types |
| `IntakeProofs!NoWindowAdmitsTooMany`, `NoneRefusedForLess` | `AdmittedPerWindow`, `RefusedOnlyWhenBusy`, of every behaviour of `RateLimit` | | `RateInv` |
| `IntakeProofs!UploadsAreLimited` | `Intake` implements `RateLimit` | | |
| `IntakeProofs!IntakeTypes` | `TypeOK` | | `IntakeInv`, `RateInv` |
| `IntakeProofs!RepliesAreTrue`, `FilesOutliveTheirRows`, `NoDanglingReference` | `RepliesTellWhatIsLeft`, `RowsHaveTheirFiles`, `RowsHaveTheirDocument` | | `IntakeInv` |
| `ReviewProofs!ReviewTypes` | `TypeOK` | | `Typed` |
| `ReviewProofs!CriticalStaysQueued` | `CriticalIsQueued` | `SamePlaces` | `ReviewInv` |
| `ReviewProofs!CorrectionsStand` | `CorrectionStands` | `SameQuestions` | `ReviewInv`, `KeptInv` |
| `ReconcileProofs!ReconcileTypes` | `TypeOK` | | `Typed` |
| `ReconcileProofs!UnprintedAnswersFollowKey` | `UnprintedFollowKey`: `SerialAnswersFollowKey` question by question | | `NoInline`, `SerialInv` |
| `ReconcileProofs!SerialAnswers` | `SerialAnswersFollowKey` | no question has a printed answer | the same |
| `AnswerMatchProofs!AssignedAreOptions`, `OrderDoesNotMatter`, `NeverGuessed`, `MatchStatusesTell` | what `AnswersAreOptions`, `OrderIsIrrelevant`, `SharedNumberNeedsSection`, `StatusesTell` say, of every paper and every key | entries have values (the first) | |
| `AnswerMatchProofs!OptionsAreAssigned`, `OrderNeverMatters`, `SectionIsNeeded`, `StatusesAreTrue` | the same four properties, of the states of `MCAnswerMatch`, with the entries as the parser and the readers of the pages make them | | `KeysAreNamed` |
| `StitcherProofs!TypesAreKept`, `FragmentsAreKept`, `LabelsStayInOrder` | `TypeOK`, `NothingLost`, `LabelsInOrder` | | `Stitched`, `Reads` |
| `StitcherProofs!CertainStitchesAreTrue` | `CertainStitchIsTrue` | at most one untrue flag | the same |
| `StitcherProofs!MixedAreNotExtracted` | `MixedIsNotExtracted` | at most one untrue flag | the same |
| `StitcherProofs!WholeAreExtracted` | `WholeIsExtracted` | | the same |
| `StitcherProofs!CleanDocumentsAreTrue` | `CleanIsTrue` | at most one untrue flag, no option that begins like a number (`"digits"`) | `FragmentsInSequence`, `ReadsInSequence` |

### Pipeline

*Types.*  `TypeOK` is inductive once the rows a flush writes (`FlushType`), a count
(`CountedType`), a batch (`BatchType`) and the states of the three tasks are shown to be
of their types, one lemma each.

*TriggeredOnce.*  `LiveOnce` says that no message is live twice (at the broker,
with a worker, or about to be sent).  By itself it is not inductive: a step that
sends could send what is live already.  `OnceInv` adds that every live message bears
a number that has been given out (`LiveNumbered`): of a request, of an ingestion, of
an arming of the latch.  For `finalize_document` the last case is the latch itself: while
a message of the present arming is live, `finalize_enqueued` is true, so that the
conditional `UPDATE` changes no row and nothing is sent; and a reprocess, which
resets the latch, begins a new arming.  Two more conjuncts tie a worker's program
counter to its message (`InTask`) and say that the row is not there before it is
inserted.  Most steps only move messages (`QuietStep`), three send one (`FanOutOnce`,
`EnqueueOnce`, requests), two give out a number (`ReplaceOnce`, `LatchOnce`).

*RebuiltOnce.*  Given `LiveOnce`, only one finalization of an arming is under way; `OldSeen`
adds that its `DELETE` has seen every batch of its own arming, because a batch is
written by the save of the same message, which comes after.

*NoPageOrphaned.*  `NoOrphanPage` accepts any live `process_document` message as an
excuse for a page without a task, one whose task has already returned as well, and
so is not inductive.  `PagesInv` names the owners that will act: a `process_page`
message, or a task of that page before its commit (`Covered`); an ingestion that has yet to
replace the pages or to mark the document failed (`ToBeReplaced`); a fan-out of the
present generation that has not come to the page yet (`ToBeSent`).  Each step either
leaves a page's owner, hands it on, or settles the page; or it cuts the owner short for good,
and then the page is excused (`CutShort`), by that task only.  The theorem has no hypothesis, and its set of failures is any: lost workers, redeliveries,
outages, except blocks that raise and reprocess requests are all in it.

*LastPageNoticed.*  The same for the whole document: while the latch is free and the
document in processing, somebody has yet to count (`WillCount`), to ingest again, to send
the last page, or is a reprocess about to send its message.  A count that finds a page
that is not terminal needs `PagesInv`: that page has an owner which will count after
it.  A task that would have counted and was cut short is excused (`CountCutShort`), as in the
property.  `NoRequestLost` concerns reprocess requests only: with one, neither an outage nor a lost API process may come
between its commit and its message.  With two requests such a loss violates the property, as TLC finds;
with one it is only model-checked (`pipeline_reprocess`).

*FinalizedAfterAllPages.*  In one run (`OneRun`: no reprocess, no lost worker) each of
the few messages is taken up once (`MessagesOfRun`, `Begun`).  While a page's message has not
been begun its row is `queued` (`PagesWait`), so that a count which finds every page
terminal knows that no task will take one back to `processing` (`PagesSettled`).  With
a reprocess or a lost worker the property is false (section 7).

*OneSetOfQuestions.*  Without a reprocess there is one arming, and `OneBatchPerArming`
with the fact that every arming that is at work is the first (`ArmedBatches`) is enough,
whatever is redelivered.  With one reprocess two finalizations may overlap, and what keeps them
apart is a row lock: `detected_role` is not set before the first commit, so that both flush a
changed `documents` row before their `DELETE` and hold it to the commit.
`RebuiltInv` says it: while nothing has been committed the table is empty and no
`DELETE` has missed a batch; once the role is set at most one finalization is still to
come (`ToCome`), and it sees the other's batch.  TLC shows the property violated with a lost worker (the
first finalization is redelivered next to the second, and now neither locks) and with two
requests, so neither half of the hypothesis can go.

*CompletedWhole, LifecycleImplemented.*  `WholeInv` adds to `RunInv` what every task finds
in the row when it writes its status: whoever is about to write has found `processing`
(`Working`), the row is `queued` until `process_document` begins and `processing` until
the one finalization ends (`StatusBefore`), and there are no questions before it
(`QuestionsOnce`).  From there each action is a `Begin`, an `End`, a `Delete` or a stutter of
`DocumentLifecycle` (`StatusMoves`).  `OneRunWithBroker` is needed: TLC shows both
properties violated when the broker may be away, since a `.delay` that raises after a task's
commit runs the except block, which turns a completed page, or the final
status of the document, into `failed`.

### LlmSlots, Intake and Review

*OvershootBounded.*  A client that is about to add its slot counts already
(`Promised`): when it found room there were fewer slots than the limit, and no more than all
clients are about to add.

*NoWindowAdmitsTooMany, NoneRefusedForLess.*  `AdmittedPerWindow` counts a history variable; `RateInv` ties it to the
windows.  Take any interval of the length of a window, and the requests that were read and answered in it.  Each of their readings is
still in the log when the last of them is counted: nobody who is counted in the interval has a reading late enough to prune
it, and the time to live has not run out.  So the log of the last one bounds them
(`WithinLimit`), in Redis since its last restart or in the memory of one API process.  A refused
request counted its own reading and those of others, which is why so many others had asked.

*UploadsAreLimited.*  Every step of `Intake` is a step of `RateLimit` or leaves its variables alone; so both
theorems hold of the uploads, whose failures include a lost answer and either restart.

*RepliesAreTrue, FilesOutliveTheirRows, NoDanglingReference.*  `LeftBehind` says for every stage of an upload, the one
between the commit and the reply included, which
of its temporary file, stored file, message and row are there, and `FilesKept` who may still
delete a file: a deletion of the same document, whose row has gone before.

*CriticalStaysQueued, CorrectionsStand.*  `ReviewInv` says of every row, and of every copy that a finalization, a
reconciliation or a request has loaded, which question it belongs to and whether it can still
be written back; a copy of rows that a finalization has replaced is written nowhere.  `KeptInv`
follows an acknowledged correction through the rows, the list that a finalization carries over and
the copies.  `SamePlaces` (a question keeps its place in the document) and `SameQuestions` (the
extractions yield the same list) are what the code relies on when it
carries reviewed rows over by their place; the run `correction_moves` shows what happens otherwise.

### AnswerMatch and Reconcile

*AssignedAreOptions to MatchStatusesTell.*  These are about the operators, with any list of
questions and any two lists of entries.  Everything goes back to two lemmas: an
answer of a key is that of the first chosen entry, and there is one only when the
chosen entries are neither ambiguous nor in conflict (`TakenFrom`, `NotTaken`).  So an
order of the entries changes which of them is first, but all of them have the same values.

*OptionsAreAssigned to StatusesAreTrue.*  These are about every state of `MCAnswerMatch`: keys that
are given, and keys that a parser, a model or the rules read from pages cut anywhere; a
finalization, and the reconciliation after it.  `KeysAreNamed` says of every
reading what the theorems about the operators need: entries have an id, and some value.
For the entries read from lines it goes through `Parsed`, `Merged` and
`DocumentEntries`, line by line and page by page.  What a second pass reads of the stored
answers differs from the first in the printed answers only (`SameButInline`), on which neither the
entries nor their statuses depend (`SameMarks`).

*SerialAnswers.*  A commit of answers is right only if nobody has written since its reads.
`SerialInv` says that, as long as no two jobs have overlapped, at most one is under way
(`Alone`), what the job has read is still
what is stored (`ReadNow`), and that a linked paper whose answers are not those of its key
has somebody to come, unless a job that owed them was given up (`missed`): a message of a finalization of the key or of a reconciliation
of the paper, or a task that is before its commit or its notification (`ToCome`).  Two facts
carry the commit: no row is gone (`NotStale`), and the statuses that it writes into
the entries change no answer (`SameAnswer`).  A reconciliation asks of a question what its finalization asked
only if no printed answer was involved (`NoInline`): otherwise the payload is built of what
was stored, and after an unlink the printed answer is gone, so that the property is
false of a paper with printed answers when a later key has no entry for their questions.
`UnprintedAnswersFollowKey` says for every paper what is left.

### Stitcher

`Stitched` and `Reads` (`ReadsAreStitched`) are the inductive invariant of both kinds of documents.

*FragmentsAreKept.*  An item adds its fragment at the end of all fragments, whether it is joined to the open
question or closes it (`PieceAdded`); turning a page, closing and auditing leave fragments and labels as
they are (`Like`).

*LabelsStayInOrder.*  By itself `LabelsInOrder` is not inductive: what is appended must not skip a label.
`Reach` adds that the open question ends with a fragment of the question that was printed
last, and, if it has its beginning, has at least the options printed so far.  So the labels
of the next fragment are at most one more than what is there (`Fits`), each is taken
or is the next one, and the merge goes on in order (`MergedInOrder`).

*CertainStitchesAreTrue.*  A fragment that is flagged as a continuation without being one, after an open question that is
flagged as going on without doing so, takes two untrue flags (`FragmentsRead` counts the first).
The rules never make such an item, so that for papers of lines the hypothesis is not needed.

*Papers of lines.*  A place in the paper is a question and how many of its options are printed (`Place`);
each line leads from one place to the next (`Follows`, `PapersRun`: every paper of `Papers` does).
`ReadTo` says of the rules, after each line of a page, that the open item goes from the place where the page begins,
or from a number, to the place reached, and `Between` of the page's items that each takes over where the one
before ends.  That is all `Fits` asks, so that the argument about the labels is the one for fragments.  A line with a digit that
is read as the number of a question is covered too: it has no option before it.

*MixedAreNotExtracted, WholeAreExtracted.*  The scores are arithmetic: without a penalty a question scores at
most 975 thousandths, since the grounding that is never stored counts 900; a mark of doubt costs 150, which leaves less than 850,
and a certain stitch 50, which does not (`UncertainIsNotExtracted`, `CertainIsExtracted`).

*CleanDocumentsAreTrue.*  `InSequence` says how the questions follow one another: the first begins with question 1, each
other begins with the question after the last fragment of the one before it or, if it has no beginning, with that same one,
and a number is only read with a beginning and is that of its first fragment.  An item is in sequence with the open question
(`GoesAfter`, `TakeInSequence`).  For papers of lines this needs that an item has a number if and only if it has a
beginning, which the rules' counts of numbers and lines give (`LinesCount`, `ItemsCount`); an option "1)" is read as a number, so
that such papers are excluded.  (TLC finds `CleanIsTrue` true of them as well, since they repeat a number.)  In
a document without a warning every question has a number, read or inferred (`AuditSays`), and is of
one printed question (`CertainStitchIsTrue`); an inferred number (a warning when the pages' sections differ) is
that of the gap between its neighbours (`InferredIsNext`).  So the k-th question is k (`NumbersInSequence`), and with `NothingLost` it has all its
fragments.

### Assumptions, and what is only model-checked

The modules assume (`PageCountAssumption`, `BoundAssumption`, `FaultAssumption`,
`WindowAssumption`, `MaxConcurrencyAssumption`, `ExtractionAssumption`, `InputAssumption`, `LayoutAssumption` and others of
their kind) that the
bounds are naturals, that a document has a page, that a window is longer than nothing, that there is a slot, that clients are
finitely many, that no request is a worker, that papers and keys are lists of
questions and of entries, and that lines and layouts are of the kinds that are printed.
TLC evaluates them in the runs.

Only model-checked:

* liveness: `EventuallyFinal`, `EventuallyAnswered`, `ExtractionEnds`;
* that what is read is what was printed: `LinesAsPrinted`, `AnswersAsPrinted`, and `CleanIsTrue` of papers
  whose options begin like numbers.  They compare the outcome of a whole document with the whole paper or key.

No induction theorem of the library can be instantiated here, since each takes an operator as a
parameter.  The functions that read a document line by line, or item by item, are
therefore recursive functions on `0..n`, and `Stepwise` and `StaysIn` of `KeyPageProofs` give what an induction
would: such a function exists and stays in any set that holds its first value and is
closed under its step.

## 7. Where the code does not do what its documents say

Three disagreements have a run that ends in a counterexample:

| Run, property | Code | Says otherwise |
|---|---|---|
| `both_finish_together`, `AnswersFollowKey` | `app/workers/tasks.py:707`: a finalization notifies only the documents that are finished at that moment, and reads its keys long before it commits; when a paper and its key finish together neither sees the other's result | `PHASE_PROMPTS.md:129` |
| `correction_moves`, `CorrectionStands` | `tasks.py:597`: corrections are carried over by the place of the question in the list, so that one question more or less gives a correction to another question | `SPEC.md:192` |
| `ungrounded_continuation`, `UngroundedIsReviewed` | `app/pipeline/stitcher.py:189`: a joined question keeps the grounding of its first fragment | `SPEC.md:154`, `app/pipeline/confidence.py:74` |

The modules define further properties that the documents state and the code does
not have.  No run of the project checks them; each can be seen by giving its module the
constants in the table (two workers for `Pipeline`; P pages, R reprocess requests, F
failures):

| Property | Module and constants | Code | Says otherwise |
|---|---|---|---|
| `QueuedHasTask` | `MCPipeline`, P2 R0 F0 | `upload_service.py:215`: the message is sent before the row is committed | `SPEC.md:101` |
| `AllPagesCounted` | `MCPipeline`, P2 R0 F0 | `tasks.py:245`: two page tasks write the same stale count | `SPEC.md:110` |
| `ProgressIsPercentage` | `MCPipeline`, P1 F1, a lost worker | `tasks.py:245`: a redelivered page counts again | `SPEC.md:110` ("idempotent") |
| `CompletedIsWhole` | `MCPipeline`, P2 F1, a lost worker | `tasks.py:156`: a redelivered page is `processing` again while the document is finalized | `INTERVIEW_DEFENSE.md:19` |
| `QuestionsRebuilt` | `MCPipeline`, P1 R2 F0, or P2 R1 F1 with a lost worker | `tasks.py:498`: two finalizations delete what they can see and both insert | `SPEC.md:111` |
| `FinalizeAfterAllPages` | `MCPipeline`, P2 R1 F0 | `documents.py:212`: a reprocess re-arms the latch under tasks at work | `INTERVIEW_DEFENSE.md:134` |
| `EventuallyFinal` | `MCPipeline` under `FairSpec`, P2 F1, a lost worker | `tasks.py:265`: the latch is committed, the worker dies before `.delay`, the redelivered task finds the latch taken | `SPEC.md:110` |
| `SourcesAgree` | `MCAnswerMatch` | `match.py:166`: within a linked key only the first entry counts | `SPEC.md:172` |
| `SectionRespected` | `MCAnswerMatch` | `match.py:150`: a question without a section takes any entry of its number | `SPEC.md:170` |
| `ReconcileIsIdempotent` | `MCAnswerMatch` | `tasks.py:803`: the printed answer is only known while it is the answer stored | `SPEC.md:198` |
| `ReconciledAlone` | `MCReconcile`, one worker, one reconcile request, linked, one finalization, no failures | `tasks.py:740`: the task takes no lock | `SPEC.md:198` |
| `NeverTorn` | `MCReconcile`, two workers, one reconcile request, linked, two finalizations | `tasks.py:855`: answer and source are written as changed columns | `match.py:60` |
| `OwnLockReleased` | `MCReconcile`, one worker, two reconcile requests | `link_service.py:55`: `GET`, then `DELETE` | its own comment, line 52 |
| `OutOfRangeIsFlagged` | `MCReconcile`, one worker, one reconcile request, linked, `AllReadings` | `tasks.py:864` | `SPEC.md:171` |
| `UnmatchedHasNoQuestion` | `MCReconcile`, one worker, no requests, linked | `tasks.py:866` | `SPEC.md:173` |
| `PrintedAnswerCounts` | `MCReconcile`, one worker, link, unlink and reconcile, `PrintedQuestion` | `tasks.py:859` | `SPEC.md:172` |
| `OneDocumentPerContent` | `MCIntake`, as in `intake` | `documents.py:75`: the look-up and the commit are two steps | `SPEC.md:100` |
| `UnavailableIsMarkedFailed` | `MCIntake`, as in `intake` | `upload_service.py:216`: an upload that cannot be enqueued is answered with 503 before its row is added: nothing is marked failed, and when the message was delivered all the same its task finds no document | `SPEC.md:101` |
| `SectionsAreTracked` | `MCAnswerMatch`, as in `answer_match` | `rules.py:182`, `parse.py:54`: the last heading of a page is the section its first lines are parsed in | `SPEC.md:168` |
| `AnswersArePrinted` | `MCAnswerMatch`, `KeyLine <- MCStemLine` | `rules.py:20`: the pattern of a pair takes the first letter of a question ("1. Calculate") for its answer | `SPEC.md:171` |
| `SlotsWithinLimit` | `LlmSlots`, 3 clients, 2 slots, no failures | `limiter.py:76`: `ZCARD`, then `ZADD` | `SPEC.md:112` |

Read in the code and not stated as a formula:

* two fragments are stitched over a page that failed between them (`tasks.py:331`);
* a correction committed between the `SELECT` and the `DELETE` of a finalization is
  acknowledged and lost (`tasks.py:483-498`), and a reprocess removes the revisions by
  cascade (`question_revision.py:15`);
* a reconciliation overwrites answers a user corrected (`tasks.py:852`);
* `overwrite_reviewed` is accepted and ignored (`documents.py:200-220`);
* an edited question with a critical flag is `extracted` after a reprocess
  (`tasks.py:596-652`);
* `ANSWER_OUT_OF_RANGE` is added after the status has been computed and does not force
  `needs_review`;
* numbers are inferred across sections whose headings were not read (`stitcher.py:273`,
  `SPEC.md:162`);
* the generator that takes the reconcile lock yields a second time when its body
  raises (`link_service.py:56`), so that a conflict is answered with 500;
* grounding is computed and never stored, so that its default always counts
  (`tasks.py:218`, `confidence.py:102`);
* `CONF_EXTRACTED_MIN`, `CONF_PARTIAL_MIN` (`config.py:83-84`) and `UPLOAD_RATE_LIMIT`
  (`config.py:63`) are read from the environment and passed to nobody;
* the hard time limit leaves a page in `processing`;
* a broker or database that is away while an except block is at work leaves the page, or the
  document, in `processing`: the exception is swallowed and the message acknowledged
  (`tasks.py:130`, `297`, `733`);
* nobody repeats a reconciliation that raised, that was refused the lock after a new link, or whose request
  or process was lost after the link was committed (`link_service.py:113`, `tasks.py:712`): the
  answers stay what they were until the paper is finalized or reconciled again;
* two equal uploads at once (or one with `force`) make two rows, after which the
  look-up of a duplicate raises (`document_repo.py:36`);
* the answer that names a duplicate leaves the temporary file (`documents.py:73-84`), and
  an upload whose message or commit fails leaves the stored one (`upload_service.py:217`);
* a deletion removes the uploaded file and no page image or crop, although its summary
  says "and all derived assets" (`documents.py:184`, `document_service.py:81`);
* the window in Redis and those in memory do not know of each other, and with an
  outage a user may be admitted twice over (`ratelimit.py:50`);
* a request that is counted late has pruned by an older clock and is pruned by a newer one, so that of
  requests that *came* in one window more than the limit may be admitted when their answers take longer than a
  window; and requests with the same reading are one member of the sorted set, of which any number is
  admitted (`ratelimit.py:24-39`);
* options labelled by digits, one on a line, open questions, since a digit only counts as
  a label once the question has options (`rules.py:73`; `LinesAsPrinted` with
  `Layouts = {"digits"}` shows what becomes of the paper);
* a printed answer alone on top of a page is dropped: its fragment has neither text
  nor options nor number (`rules.py:161`, `SPEC.md:160`);
* repeated headers are looked for line by line in texts that the rules have joined to
  one line, and never in options (`tasks.py:331`, `rules.py:159`);
* an extractor may report `CONTINUES_NEXT_PAGE` among the flags of an item
  (`extractors/schemas.py:48`), and the stitcher removes one of two such marks (`stitcher.py:208`);
* a question that is rejected keeps its status, and stays in the review queue if it was there
  (`review_service.py:255`).

## 8. What is not modelled

* Model calls, OCR, rendering, figures, grounding, headers and footers: computation over
  text and images.  A task sees a result or an exception, and both are actions;
  an extraction may be any of the results that the properties tell apart.
* The regular expressions: in `KeyPage` and `RulesPage` a line is what they find in it, in
  `Stitcher` `alike` may say anything.
* The normalization of answers and the role of a document (`normalize.py:16-62`, `detect.py:91-137`).
* Accounts: a token is checked without state, and the unique index on the e-mail
  address decides between two registrations.
* Configuration, error mapping, logging, health, response schemas and the static page.
* `app/core/storage` is imported and not part of the repository.
* Rows that no program reads again to change state: `ProcessingEvent`, `Warning`, question revisions.
* The in-memory lock that replaces Redis on a machine without one, and relations
  of a link other than question paper and answer key.
* The marker `CONTINUES_NEXT_PAGE` as a quality flag that an extractor reports by itself: no extractor of the
  repository does, and the prompt asks for the two continuation flags.
* Raw answers (kinds and ranks in `AnswerMatch`).
* Requests that only read: lists, pages of a list, exports, warnings; ownership checks.
* Scripts (`scripts/`): samples, the demonstration and the evaluation of extractions.
* Confidence scores of answers; the scores of questions are in `Confidence`.

## 9. Plan

Done, in this order, the most important behaviour first: `Pipeline` with
`DocumentLifecycle`, its proofs, `AnswerMatch`, `Reconcile`, `LlmSlots` and its proofs,
`Review`, `Stitcher`, `Confidence`, `RateLimit`, `Intake`, `KeyPage`, `RulesPage`.

To extend the model:

1. Pages that failed in `MCStitcher`: which stitches cross them, and what the flags
   say of it.
2. Revisions in `Review`, so that what the history tells can be compared with the row.
3. The role of a document from its pages, and what a wrong one does to its links.

To prove:

1. `LastPageIsNoticed` with one reprocess request that loses its message.
2. That a reconciliation after a finalization changes no answer of a question without a
   printed one, as a theorem about the operators.
