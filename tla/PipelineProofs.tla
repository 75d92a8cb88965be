--------------------------- MODULE PipelineProofs ---------------------------
(* Theorems about Pipeline, for every number of workers, pages, reprocess    *)
(* requests and failures: it keeps its types, triggers every task once       *)
(* (LiveOnce and OneBatchPerArming), and loses no page and misses no last    *)
(* page (NoOrphanPage and LastPageIsNoticed).  With few runs of a document:  *)
(* FinalizeAfterAllPages in the run that an upload starts, QuestionsRebuilt  *)
(* with at most one reprocess and, with a broker that answers,               *)
(* CompletedIsWhole and the implementation of DocumentLifecycle.             *)
EXTENDS Pipeline, TLAPS

-----------------------------------------------------------------------------
(* Types *)

LEMMA ConstantTypes ==
  /\ PageNo \subseteq Nat
  /\ NewDoc \in DocRow
  /\ NewPage \in PageRow
  /\ NewPages \in [PageNo -> PageRow]
  /\ Idle \in WorkerState
<1>1. PageNo \subseteq Nat
  BY PageCountAssumption DEF PageNo
<1>2. NewDoc \in DocRow
  BY DEF NewDoc, DocRow
<1>3. NewPage \in PageRow
  BY DEF NewPage, PageRow
<1>4. NewPages \in [PageNo -> PageRow]
  BY <1>3 DEF NewPages
<1>5. DocMsg(0) \in Message
  BY DEF DocMsg, Message, Task
<1>6. Idle \in WorkerState
  BY <1>2, <1>4, <1>5 DEF Idle, WorkerState
<1>. QED
  BY <1>1, <1>2, <1>3, <1>4, <1>6

LEMMA FlushType ==
  ASSUME TypeOK, NEW snap \in DocRow, NEW new \in DocRow
  PROVE  Flush(snap, new) \in DocRow
BY DEF TypeOK, Flush, DocRow

LEMMA ReturningType ==
  ASSUME TypeOK, NEW w \in Worker
  PROVE  Returning(w) \in WorkerState
BY ConstantTypes DEF TypeOK, Returning, WorkerState

LEMMA InitType == Init => TypeOK
<1> SUFFICES ASSUME Init
             PROVE  TypeOK
  OBVIOUS
<1> USE ConstantTypes DEF Init
<1>1. worker \in [Worker -> WorkerState]
  OBVIOUS
<1>2. api \in [pc: ApiPc, snap: DocRow, nth: Nat]
  BY DEF ApiPc
<1>. QED
  BY <1>1, <1>2 DEF TypeOK

LEMMA RequestType == TypeOK /\ Request => TypeOK'
<1> SUFFICES ASSUME TypeOK, Request
             PROVE  TypeOK'
  OBVIOUS
<1> USE ConstantTypes
<1>1. CASE UploadEnqueue
  BY <1>1 DEF UploadEnqueue, TypeOK, db, tables, DocMsg, Message, Task, ApiPc
<1>2. CASE UploadUnavailable
  BY <1>2 DEF UploadUnavailable, TypeOK, db, tables, Fault, ApiPc
<1>3. CASE UploadInsert
  BY <1>3 DEF UploadInsert, TypeOK, ApiPc
<1>4. CASE UploadRejected
  BY <1>4 DEF UploadRejected, TypeOK, db, tables, ApiPc
<1>5. CASE ReprocessLoad
  BY <1>5 DEF ReprocessLoad, TypeOK, db, tables, ApiPc
<1>6. CASE ReprocessCommit
  <2>1. [api.snap EXCEPT !.status = "queued", !.progress = 0, !.latch = FALSE] \in DocRow
    BY DEF TypeOK, DocRow
  <2>2. doc' \in DocRow
    BY <1>6, <2>1, FlushType DEF ReprocessCommit, TypeOK
  <2>3. api' \in [pc: ApiPc, snap: DocRow, nth: Nat]
    BY <1>6 DEF ReprocessCommit, TypeOK, ApiPc
  <2>4. armings' \in Nat
    BY <1>6 DEF ReprocessCommit, TypeOK
  <2>. QED
    BY <1>6, <2>2, <2>3, <2>4 DEF ReprocessCommit, TypeOK
<1>7. CASE ReprocessEnqueue
  BY <1>7 DEF ReprocessEnqueue, TypeOK, db, tables, DocMsg, Message, Task, ApiPc
<1>8. CASE ReprocessUnavailable
  BY <1>8 DEF ReprocessUnavailable, TypeOK, db, tables, Fault, ApiPc
<1>9. CASE DeleteDocument
  BY <1>9 DEF DeleteDocument, TypeOK, ApiPc
<1>10. CASE ApiLost
  <2>1. api' \in [pc: ApiPc, snap: DocRow, nth: Nat]
    BY <1>10 DEF ApiLost, TypeOK, ApiPc
  <2>. QED
    BY <1>10, <2>1 DEF ApiLost, TypeOK, db, tables, Fault
<1>. QED
  BY <1>1, <1>2, <1>3, <1>4, <1>5, <1>6, <1>7, <1>8, <1>9, <1>10 DEF Request

LEMMA PoolType ==
  ASSUME TypeOK, NEW w \in Worker,
         Deliver(w) \/ Ack(w) \/ WorkerLost(w) \/ HardTimeout(w) \/ ExceptRaises(w)
  PROVE  TypeOK'
<1> USE ConstantTypes
<1>1. CASE Deliver(w)
  <2>1. PICK m \in queue : worker' = [worker EXCEPT ![w] = [Idle EXCEPT !.pc = "start", !.msg = m]]
    BY <1>1 DEF Deliver
  <2>2. [Idle EXCEPT !.pc = "start", !.msg = m] \in WorkerState
    BY <2>1 DEF TypeOK, WorkerState
  <2>. QED
    BY <1>1, <2>1, <2>2 DEF Deliver, TypeOK, db, tables
<1>2. CASE Ack(w)
  BY <1>2 DEF Ack, TypeOK, db, tables
<1>3. CASE WorkerLost(w)
  <2>1. worker[w].msg \in Message
    BY DEF TypeOK, WorkerState
  <2>. QED
    BY <1>3, <2>1 DEF WorkerLost, TypeOK, db, tables, Fault
<1>4. CASE HardTimeout(w) \/ ExceptRaises(w)
  <2>1. worker[w].msg \in Message
    BY DEF TypeOK, WorkerState
  <2>2. abandoned' \subseteq Message
    BY <1>4, <2>1 DEF HardTimeout, ExceptRaises, Abandon, TypeOK
  <2>3. worker' \in [Worker -> WorkerState]
    BY <1>4, ReturningType DEF HardTimeout, ExceptRaises, TypeOK
  <2>. QED
    BY <1>4, <2>2, <2>3 DEF HardTimeout, ExceptRaises, TypeOK, tables, Fault
<1>. QED
  BY <1>1, <1>2, <1>3, <1>4

LEMMA FannedOutType ==
  ASSUME NEW s \in WorkerState, NEW d \in DocRow, NEW r \in Nat, NEW n \in Nat
  PROVE  [s EXCEPT !.pc = "fanout", !.snap = d, !.row = r, !.next = n] \in WorkerState
BY DEF WorkerState, DocPc

LEMMA DocTaskType ==
  ASSUME TypeOK, NEW w \in Worker, DocTask(w) \/ DocIngestRaises(w) \/ DocFanOutRaises(w)
  PROVE  TypeOK'
<1> USE ConstantTypes
<1>1. CASE DocStart(w)
  <2>1. [doc EXCEPT !.status = "processing", !.progress = 10] \in DocRow
    BY DEF TypeOK, DocRow
  <2>2. worker' \in [Worker -> WorkerState]
    <3>1. CASE exists
      <4>1. worker' = [worker EXCEPT ![w].pc = "ingest",
                         ![w].snap = [doc EXCEPT !.status = "processing", !.progress = 10]]
        BY <1>1, <3>1 DEF DocStart
      <4>. QED
        BY ZenonT(60), <2>1, <4>1 DEF TypeOK, WorkerState, DocPc
    <3>2. CASE ~exists
      BY <1>1, <3>2, ReturningType DEF DocStart, TypeOK
    <3>. QED
      BY <3>1, <3>2
  <2>. QED
    BY <1>1, <2>1, <2>2 DEF DocStart, TypeOK
<1>2. CASE DocIngest(w)
  <2>1. worker' \in [Worker -> WorkerState]
    BY ZenonT(60), <1>2 DEF DocIngest, TypeOK, WorkerState, DocPc
  <2>. QED
    BY <1>2, <2>1 DEF DocIngest, TypeOK, db, tables
<1>3. CASE DocReplacePages(w)
  <2>1. CASE worker' = [worker EXCEPT ![w].pc = "doc_except"] /\ UNCHANGED <<doc, gen, pages>>
    <3>1. worker' \in [Worker -> WorkerState]
      BY <2>1 DEF TypeOK, WorkerState, DocPc
    <3>. QED
      BY <1>3, <2>1, <3>1 DEF DocReplacePages, TypeOK
  <2>2. CASE ~(worker' = [worker EXCEPT ![w].pc = "doc_except"] /\ UNCHANGED <<doc, gen, pages>>)
    <3>1. worker[w].snap \in DocRow
      BY DEF TypeOK, WorkerState
    <3>2. [worker[w].snap EXCEPT !.done = 0, !.progress = 20] \in DocRow
      BY <3>1 DEF DocRow
    <3>3. doc' = Flush(worker[w].snap, [worker[w].snap EXCEPT !.done = 0, !.progress = 20])
      BY <1>3, <2>2 DEF DocReplacePages
    <3>4. doc' \in DocRow
      BY <3>1, <3>2, <3>3, FlushType
    <3>5. worker' = [worker EXCEPT ![w].pc = "fanout", ![w].snap = NewDoc,
                                   ![w].row = gen + 1, ![w].next = 1]
      BY <1>3, <2>2 DEF DocReplacePages
    <3>6. gen + 1 \in Nat /\ 1 \in Nat
      BY DEF TypeOK
    <3>7. worker' \in [Worker -> WorkerState]
      BY <3>5, <3>6, FannedOutType DEF TypeOK
    <3>8. gen' \in Nat /\ pages' \in [PageNo -> PageRow]
      BY <1>3, <2>2, <3>6 DEF DocReplacePages
    <3>. QED
      BY <1>3, <3>4, <3>7, <3>8 DEF DocReplacePages, TypeOK
  <2>. QED
    BY <2>1, <2>2
<1>4. CASE DocFanOut(w)
  <2>1. worker' \in [Worker -> WorkerState]
    <3>1. CASE worker[w].next \in PageNo
      <4>1. worker' = [worker EXCEPT ![w].next = @ + 1]
        BY <1>4, <3>1 DEF DocFanOut
      <4>2. PICK k \in Nat : k = worker[w].next + 1
        BY DEF TypeOK, WorkerState
      <4>. QED
        BY <4>1, <4>2 DEF TypeOK, WorkerState
    <3>2. CASE worker[w].next \notin PageNo
      BY <1>4, <3>2, ReturningType DEF DocFanOut, TypeOK
    <3>. QED
      BY <3>1, <3>2
  <2>2. queue' \subseteq Message
    BY <1>4 DEF DocFanOut, TypeOK, WorkerState, PageMsg, Message, Task
  <2>. QED
    BY <1>4, <2>1, <2>2 DEF DocFanOut, TypeOK, db, tables
<1>5. CASE DocExcept(w)
  <2>1. doc' \in DocRow
    BY <1>5 DEF DocExcept, TypeOK, DocRow, FinalStatus
  <2>. QED
    BY <1>5, <2>1, ReturningType DEF DocExcept, TypeOK
<1>6. CASE DocIngestRaises(w)
  <2>1. worker' \in [Worker -> WorkerState]
    BY <1>6 DEF DocIngestRaises, TypeOK, WorkerState, DocPc
  <2>. QED
    BY <1>6, <2>1 DEF DocIngestRaises, TypeOK, db, tables, Fault
<1>7. CASE DocFanOutRaises(w)
  <2>1. worker' \in [Worker -> WorkerState]
    BY <1>7 DEF DocFanOutRaises, TypeOK, WorkerState, DocPc
  <2>. QED
    BY <1>7, <2>1 DEF DocFanOutRaises, TypeOK, db, tables, Fault
<1>. QED
  BY <1>1, <1>2, <1>3, <1>4, <1>5, <1>6, <1>7 DEF DocTask

LEMMA CountedType ==
  ASSUME NEW d \in DocRow, NEW n
  PROVE  Counted(d, n) \in DocRow
<1>1. d.done + 1 \in Nat
  BY DEF DocRow
<1>2. Progress(d.done + 1) \in Nat
  <2>1. (70 * (d.done + 1)) \div PageCount \in Nat
    BY <1>1, PageCountAssumption
  <2>. QED
    BY <2>1 DEF Progress
<1>. QED
  BY <1>1, <1>2 DEF Counted, DocRow

LEMMA ExtractingType ==
  ASSUME NEW s \in WorkerState, NEW d \in DocRow, NEW r \in Nat
  PROVE  [s EXCEPT !.pc = "extract", !.row = r, !.snap = d] \in WorkerState
BY DEF WorkerState, PagePc

LEMMA CountingType ==
  ASSUME NEW s \in WorkerState
  PROVE  /\ [s EXCEPT !.pc = "count", !.snap = NewDoc] \in WorkerState
         /\ [s EXCEPT !.pc = "count", !.snap = NewDoc, !.failing = TRUE] \in WorkerState
BY ConstantTypes DEF WorkerState, PagePc

LEMMA ArmedType ==
  ASSUME NEW s \in WorkerState, NEW a \in Nat
  PROVE  [s EXCEPT !.pc = "enqueue", !.arming = a] \in WorkerState
BY DEF WorkerState, PagePc

LEMMA PageTaskType ==
  ASSUME TypeOK, NEW w \in Worker, PageTask(w) \/ PageRaises(w) \/ PageTailRaises(w)
  PROVE  TypeOK'
<1> USE ConstantTypes
<1> DEFINE n == worker[w].msg.page
<1>1. CASE PageStart(w)
  <2>1. CASE exists /\ gen > 0
    <3>1. pages' = [pages EXCEPT ![n].status = "processing"]
      BY <1>1, <2>1 DEF PageStart
    <3>2. pages' \in [PageNo -> PageRow]
      BY <3>1 DEF TypeOK, PageRow
    <3>3. worker' = [worker EXCEPT ![w].pc = "extract", ![w].row = gen, ![w].snap = doc]
      BY <1>1, <2>1 DEF PageStart
    <3>4. worker' \in [Worker -> WorkerState]
      BY <3>3, ExtractingType DEF TypeOK
    <3>. QED
      BY <1>1, <3>2, <3>4 DEF PageStart, TypeOK
  <2>2. CASE ~(exists /\ gen > 0)
    BY <1>1, <2>2, ReturningType DEF PageStart, TypeOK
  <2>. QED
    BY <2>1, <2>2
<1>2. CASE PageCommit(w)
  <2>1. CASE RowsStand(w)
    <3>1. worker[w].snap \in DocRow
      BY DEF TypeOK, WorkerState
    <3>2. doc' = Flush(worker[w].snap, Counted(worker[w].snap, n))
      BY <1>2, <2>1 DEF PageCommit
    <3>3. doc' \in DocRow
      BY <3>1, <3>2, CountedType, FlushType
    <3>4. pages' = [pages EXCEPT ![n] = [status |-> "completed", extracted |-> TRUE]]
      BY <1>2, <2>1 DEF PageCommit
    <3>5. pages' \in [PageNo -> PageRow]
      BY <3>4 DEF TypeOK, PageRow, TerminalPage
    <3>6. worker' = [worker EXCEPT ![w].pc = "count", ![w].snap = NewDoc]
      BY <1>2, <2>1 DEF PageCommit
    <3>7. worker' \in [Worker -> WorkerState]
      BY <3>6, CountingType DEF TypeOK
    <3>. QED
      BY <1>2, <3>3, <3>5, <3>7 DEF PageCommit, TypeOK
  <2>2. CASE ~RowsStand(w)
    <3>1. worker' = [worker EXCEPT ![w].pc = "page_except"]
      BY <1>2, <2>2 DEF PageCommit
    <3>2. worker' \in [Worker -> WorkerState]
      BY <3>1 DEF TypeOK, WorkerState, PagePc
    <3>. QED
      BY <1>2, <2>2, <3>2 DEF PageCommit, TypeOK
  <2>. QED
    BY <2>1, <2>2
<1>3. CASE PageExcept(w)
  <2>1. worker' = [worker EXCEPT ![w].pc = "count", ![w].snap = NewDoc, ![w].failing = TRUE]
    BY <1>3 DEF PageExcept
  <2>2. worker' \in [Worker -> WorkerState]
    BY <2>1, CountingType DEF TypeOK
  <2>3. [pages EXCEPT ![n].status = AfterError] \in [PageNo -> PageRow]
    BY DEF TypeOK, PageRow, TerminalPage, AfterError
  <2>4. pages' \in [PageNo -> PageRow]
    BY <1>3, <2>3 DEF PageExcept, TypeOK
  <2>. QED
    BY <1>3, <2>2, <2>4 DEF PageExcept, TypeOK
<1>4. CASE PageCountRemaining(w)
  <2>1. [worker[w] EXCEPT !.pc = "latch"] \in WorkerState
    BY DEF TypeOK, WorkerState, PagePc
  <2>2. worker' \in [Worker -> WorkerState]
    BY <1>4, <2>1, ReturningType DEF PageCountRemaining, TypeOK
  <2>. QED
    BY <1>4, <2>2 DEF PageCountRemaining, TypeOK, db, tables
<1>5. CASE PageLatch(w)
  <2>1. CASE LatchIsFree
    <3>1. doc' \in DocRow
      BY <1>5, <2>1 DEF PageLatch, TypeOK, DocRow
    <3>2. worker' = [worker EXCEPT ![w].pc = "enqueue", ![w].arming = armings]
      BY <1>5, <2>1 DEF PageLatch
    <3>3. worker' \in [Worker -> WorkerState]
      BY <3>2, ArmedType DEF TypeOK
    <3>. QED
      BY <1>5, <3>1, <3>3 DEF PageLatch, TypeOK
  <2>2. CASE ~LatchIsFree
    BY <1>5, <2>2, ReturningType DEF PageLatch, TypeOK
  <2>. QED
    BY <2>1, <2>2
<1>6. CASE PageEnqueueFinal(w)
  <2>1. FinalMsg(worker[w].arming) \in Message
    BY DEF TypeOK, WorkerState, FinalMsg, Message, Task
  <2>. QED
    BY <1>6, <2>1, ReturningType DEF PageEnqueueFinal, TypeOK, db, tables
<1>7. CASE PageRaises(w)
  <2>1. worker' \in [Worker -> WorkerState]
    BY <1>7 DEF PageRaises, TypeOK, WorkerState, PagePc
  <2>. QED
    BY <1>7, <2>1 DEF PageRaises, TypeOK, db, tables, Fault
<1>8. CASE PageTailRaises(w)
  <2>1. [worker[w] EXCEPT !.pc = "page_except"] \in WorkerState
    BY DEF TypeOK, WorkerState, PagePc
  <2>2. worker' \in [Worker -> WorkerState]
    BY <1>8, <2>1, ReturningType DEF PageTailRaises, TypeOK
  <2>3. worker[w].msg \in Message
    BY DEF TypeOK, WorkerState
  <2>4. abandoned' \subseteq Message
    BY <1>8, <2>3 DEF PageTailRaises, Abandon, TypeOK
  <2>. QED
    BY <1>8, <2>2, <2>4 DEF PageTailRaises, TypeOK, tables, Fault
<1>. QED
  BY <1>1, <1>2, <1>3, <1>4, <1>5, <1>6, <1>7, <1>8 DEF PageTask

LEMMA StatusOfType ==
  ASSUME NEW view, NEW h \in BOOLEAN, NEW c \in BOOLEAN
  PROVE  StatusOf(view, h, c) \in FinalStatus
BY DEF StatusOf, FinalStatus

LEMMA BatchType ==
  ASSUME TypeOK, NEW w \in Worker
  PROVE  BatchOf(w) \in Batch
<1>1. worker[w].msg.run \in Nat
  BY DEF TypeOK, WorkerState, Message
<1>2. worker[w].row \in Nat
  BY DEF TypeOK, WorkerState
<1>3. [n \in PageNo |-> IF worker[w].view[n].extracted THEN worker[w].row ELSE 0] \in [PageNo -> Nat]
  BY <1>2
<1>4. saves + 1 \in Nat
  BY DEF TypeOK
<1>. QED
  BY <1>1, <1>3, <1>4 DEF BatchOf, Batch

LEMMA StitchingType ==
  ASSUME NEW s \in WorkerState, NEW d \in DocRow
  PROVE  [s EXCEPT !.pc = "stitch", !.snap = d] \in WorkerState
BY DEF WorkerState, FinalPc

LEMMA StitchedType ==
  ASSUME NEW s \in WorkerState, NEW v \in [PageNo -> PageRow], NEW r \in Nat, NEW l \in BOOLEAN
  PROVE  [s EXCEPT !.pc = "delete", !.view = v, !.row = r, !.locks = l] \in WorkerState
BY DEF WorkerState, FinalPc

LEMMA FinalTaskType ==
  ASSUME TypeOK, NEW w \in Worker, FinalTask(w) \/ FinalRaises(w)
  PROVE  TypeOK'
<1> USE ConstantTypes
<1>1. CASE FinalStart(w)
  <2>1. [doc EXCEPT !.progress = 90] \in DocRow
    BY DEF TypeOK, DocRow
  <2>2. CASE exists
    <3>1. worker' = [worker EXCEPT ![w].pc = "stitch", ![w].snap = [doc EXCEPT !.progress = 90]]
      BY <1>1, <2>2 DEF FinalStart
    <3>2. worker' \in [Worker -> WorkerState]
      BY <2>1, <3>1, StitchingType DEF TypeOK
    <3>. QED
      BY <1>1, <2>1, <2>2, <3>2 DEF FinalStart, TypeOK
  <2>3. CASE ~exists
    BY <1>1, <2>3, ReturningType DEF FinalStart, TypeOK
  <2>. QED
    BY <2>2, <2>3
<1>2. CASE FinalStitch(w)
  <2>1. PICK changes \in BOOLEAN :
          worker' = [worker EXCEPT ![w] =
                      IF changes /\ ~exists THEN [@ EXCEPT !.pc = "final_except"]
                      ELSE [@ EXCEPT !.pc = "delete", !.view = pages, !.row = gen,
                                     !.locks = changes]]
    BY <1>2 DEF FinalStitch
  <2>2. [worker[w] EXCEPT !.pc = "final_except"] \in WorkerState
    BY DEF TypeOK, WorkerState, FinalPc
  <2>3. [worker[w] EXCEPT !.pc = "delete", !.view = pages, !.row = gen, !.locks = changes]
          \in WorkerState
    BY StitchedType DEF TypeOK
  <2>4. worker' \in [Worker -> WorkerState]
    BY <2>1, <2>2, <2>3 DEF TypeOK
  <2>. QED
    BY <1>2, <2>4 DEF FinalStitch, TypeOK, db, tables
<1>3. CASE FinalDelete(w)
  <2>1. worker' \in [Worker -> WorkerState]
    BY ZenonT(60), <1>3 DEF FinalDelete, TypeOK, WorkerState, FinalPc
  <2>. QED
    BY <1>3, <2>1 DEF FinalDelete, TypeOK, db, tables
<1>4. CASE FinalSave(w)
  <2>1. CASE exists
    <3>1. PICK h \in {FALSE} \cup {worker[w].view[n].extracted : n \in PageNo}, c \in BOOLEAN :
            doc' = Flush(worker[w].snap,
                         [worker[w].snap EXCEPT !.status = StatusOf(worker[w].view, h, c),
                                                !.progress = 100, !.role = TRUE])
      BY <1>4, <2>1 DEF FinalSave
    <3>2. h \in BOOLEAN
      <4>1. worker[w] \in WorkerState
        BY DEF TypeOK
      <4>2. \A n \in PageNo : worker[w].view[n].extracted \in BOOLEAN
        BY <4>1 DEF WorkerState, PageRow
      <4>. QED
        BY <4>2
    <3>3. worker[w].snap \in DocRow
      BY DEF TypeOK, WorkerState
    <3>4. [worker[w].snap EXCEPT !.status = StatusOf(worker[w].view, h, c), !.progress = 100,
                                 !.role = TRUE] \in DocRow
      BY <3>2, <3>3, StatusOfType DEF DocRow
    <3>5. doc' \in DocRow
      BY <3>1, <3>3, <3>4, FlushType
    <3>6. worker' = [worker EXCEPT ![w].pc = "notify"]
      BY <1>4, <2>1 DEF FinalSave
    <3>7. worker' \in [Worker -> WorkerState]
      BY ZenonT(60), <3>6 DEF TypeOK, WorkerState, FinalPc
    <3>8. questions' \subseteq Batch
      <4>1. questions' = Surviving(w) \cup {BatchOf(w)}
        BY <1>4, <2>1 DEF FinalSave
      <4>. QED
        BY <4>1, BatchType DEF TypeOK, Surviving
    <3>9. saves' \in Nat
      <4>1. saves' = saves + 1
        BY <1>4, <2>1 DEF FinalSave
      <4>. QED
        BY <4>1 DEF TypeOK
    <3>10. UNCHANGED <<exists, gen, pages, abandoned, queue, api, armings, faults>>
      BY <1>4 DEF FinalSave
    <3>. QED
      BY <3>5, <3>7, <3>8, <3>9, <3>10 DEF TypeOK
  <2>2. CASE ~exists
    <3>1. worker' = [worker EXCEPT ![w].pc = "final_except"]
      BY <1>4, <2>2 DEF FinalSave
    <3>2. worker' \in [Worker -> WorkerState]
      BY <3>1 DEF TypeOK, WorkerState, FinalPc
    <3>. QED
      BY <1>4, <2>2, <3>2 DEF FinalSave, TypeOK
  <2>. QED
    BY <2>1, <2>2
<1>5. CASE FinalNotify(w)
  BY <1>5, ReturningType DEF FinalNotify, TypeOK, db, tables
<1>6. CASE FinalExcept(w)
  <2>1. doc' \in DocRow
    BY <1>6 DEF FinalExcept, TypeOK, DocRow, FinalStatus
  <2>. QED
    BY <1>6, <2>1, ReturningType DEF FinalExcept, TypeOK
<1>7. CASE FinalRaises(w)
  <2>1. worker' \in [Worker -> WorkerState]
    BY ZenonT(60), <1>7 DEF FinalRaises, TypeOK, WorkerState, FinalPc
  <2>2. faults' \in Nat
    BY <1>7 DEF FinalRaises, Fault, TypeOK
  <2>. QED
    BY <1>7, <2>1, <2>2 DEF FinalRaises, TypeOK, db, tables
<1>. QED
  BY <1>1, <1>2, <1>3, <1>4, <1>5, <1>6, <1>7 DEF FinalTask

LEMMA NextType == TypeOK /\ [Next]_vars => TypeOK'
<1> SUFFICES ASSUME TypeOK, [Next]_vars
             PROVE  TypeOK'
  OBVIOUS
<1>1. CASE Request
  BY <1>1, RequestType
<1>2. CASE \E w \in Worker : TaskStep(w) \/ Failure(w)
  BY <1>2, PoolType, DocTaskType, PageTaskType, FinalTaskType DEF TaskStep, Failure
<1>3. CASE UNCHANGED vars
  BY <1>3 DEF vars, TypeOK
<1>. QED
  BY <1>1, <1>2, <1>3 DEF Next

\* The documents, pages and questions tables, the broker, the workers and the
\* request in progress keep their types whatever happens: TypeOK of every run.
THEOREM TypeCorrect == Spec => []TypeOK
BY InitType, NextType, PTL DEF Spec

-----------------------------------------------------------------------------
(* Tasks are triggered once *)

(***************************************************************************)
(* LiveOnce is not inductive: a new message could be one that is live      *)
(* already.  It is not, because every live message bears a run number that *)
(* has been given out: of a request, of an ingestion, or of an arming of   *)
(* the latch, and in the last case the latch is still taken.               *)
(***************************************************************************)
Numbered(m) ==
  /\ m.task = "process_document" => m.run <= api.nth
  /\ m.task = "process_page" => m.run <= gen
  /\ m.task = "finalize_document" => /\ m.page = 0
                                     /\ m.run <= armings
                                     /\ exists /\ m.run = armings => doc.latch
                                     /\ api.pc \notin {"new", "insert"}
LiveNumbered == \A m \in Live : Numbered(m)

\* The program counter belongs to the task of the message held.
InTask(w) ==
  /\ worker[w].pc \in DocPc => worker[w].msg.task = "process_document"
  /\ worker[w].pc \in PagePc => worker[w].msg.task = "process_page"
  /\ worker[w].pc \in FinalPc => worker[w].msg.task = "finalize_document"

\* The row is not there before upload_document inserts it.
InsertedFirst == api.pc \in {"new", "insert"} => ~exists

OnceInv ==
  /\ TypeOK
  /\ LiveOnce
  /\ LiveNumbered
  /\ \A w \in Worker : InTask(w)
  /\ InsertedFirst

\* The DELETE of a finalization has seen every batch of its own arming.
OldSeen ==
  \A w \in Worker : worker[w].pc = "save" =>
    \A b \in questions : b.arming = worker[w].msg.run => b \in worker[w].old
BatchInv == OnceInv /\ OldSeen /\ OneBatchPerArming

-----------------------------------------------------------------------------
(* Bookkeeping of live messages *)

LEMMA SameWorker ==
  ASSUME NEW v \in Worker, worker'[v] = worker[v]
  PROVE  Held(v)' = Held(v) /\ Owed(v)' = Owed(v)
BY DEF Held, Owed

LEMMA NothingOwed ==
  ASSUME NEW v \in Worker, worker[v].pc \notin {"fanout", "enqueue"}
  PROVE  Owed(v) = {}
BY DEF Owed

LEMMA NothingOwedNext ==
  ASSUME NEW v \in Worker, worker'[v].pc \notin {"fanout", "enqueue"}
  PROVE  Owed(v)' = {}
BY DEF Owed

\* A step of one worker that sends no message twice, and whose new messages are
\* not live yet, keeps LiveOnce.
LEMMA OnceStep ==
  ASSUME LiveOnce, NEW w \in Worker,
         \A v \in Worker \ {w} : worker'[v] = worker[v],
         OwedByApi' = OwedByApi,
         \A m \in queue' \cup Held(w)' \cup Owed(w)' :
            m \in queue \cup Held(w) \cup Owed(w) \/ m \notin Live,
         queue' \cap Held(w)' = {},
         queue' \cap Owed(w)' = {},
         Held(w)' \cap Owed(w)' = {}
  PROVE  LiveOnce'
<1>1. \A v \in Worker \ {w} : Held(v)' = Held(v) /\ Owed(v)' = Owed(v)
  BY SameWorker
<1>2. \A m \in queue' \cup Held(w)' \cup Owed(w)' : m \notin OwedByApi
  BY DEF LiveOnce, Live
<1>3. \A m \in queue' \cup Held(w)' \cup Owed(w)' :
        \A v \in Worker \ {w} : m \notin Held(v) \cup Owed(v)
  BY DEF LiveOnce, Live
<1>4. \A v \in Worker : (Held(v)' \cup Owed(v)') \cap (queue' \cup OwedByApi') = {}
  <2>1. \A v \in Worker \ {w} : (Held(v)' \cup Owed(v)') \cap (queue' \cup OwedByApi') = {}
    BY <1>1, <1>3 DEF LiveOnce
  <2>2. (Held(w)' \cup Owed(w)') \cap (queue' \cup OwedByApi') = {}
    BY <1>2
  <2>. QED
    BY <2>1, <2>2
<1>5. \A v \in Worker : Held(v)' \cap Owed(v)' = {}
  BY <1>1 DEF LiveOnce
<1>6. \A u, v \in Worker : u # v => (Held(u)' \cup Owed(u)') \cap (Held(v)' \cup Owed(v)') = {}
  BY <1>1, <1>3 DEF LiveOnce
<1>7. queue' \cap OwedByApi' = {}
  BY <1>2
<1>. QED
  BY <1>4, <1>5, <1>6, <1>7 DEF LiveOnce

\* The same for the run numbers.
LEMMA NumberedStep ==
  ASSUME LiveNumbered, NEW w \in Worker,
         \A v \in Worker \ {w} : worker'[v] = worker[v],
         OwedByApi' = OwedByApi,
         \A m \in Live : Numbered(m) => Numbered(m)',
         \A m \in queue' \cup Held(w)' \cup Owed(w)' :
            m \in queue \cup Held(w) \cup Owed(w) \/ Numbered(m)'
  PROVE  LiveNumbered'
<1>1. \A v \in Worker \ {w} : Held(v)' = Held(v) /\ Owed(v)' = Owed(v)
  BY SameWorker
<1>2. \A m \in queue' \cup Held(w)' \cup Owed(w)' : Numbered(m)'
  BY DEF LiveNumbered, Live
<1>3. \A m \in OwedByApi' : Numbered(m)'
  BY DEF LiveNumbered, Live
<1>4. \A v \in Worker \ {w} : \A m \in Held(v)' \cup Owed(v)' : Numbered(m)'
  BY <1>1 DEF LiveNumbered, Live
<1>. QED
  BY <1>2, <1>3, <1>4 DEF LiveNumbered, Live

LEMMA LiveTyped == TypeOK => Live \subseteq Message
<1> SUFFICES ASSUME TypeOK
             PROVE  Live \subseteq Message
  OBVIOUS
<1>1. OwedByApi \subseteq Message
  BY DEF TypeOK, OwedByApi, DocMsg, Message, Task
<1>2. ASSUME NEW w \in Worker
      PROVE  Held(w) \cup Owed(w) \subseteq Message
  <2>1. worker[w] \in WorkerState
    BY DEF TypeOK
  <2>2. Held(w) \subseteq Message
    BY <2>1 DEF Held, WorkerState
  <2>3. \A n \in PageNo : PageMsg(n, worker[w].row) \in Message
    BY <2>1, ConstantTypes DEF PageMsg, Message, Task, WorkerState
  <2>4. FinalMsg(worker[w].arming) \in Message
    BY <2>1 DEF FinalMsg, Message, Task, WorkerState
  <2>5. Owed(w) \subseteq Message
    BY <2>3, <2>4 DEF Owed
  <2>. QED
    BY <2>2, <2>5
<1>. QED
  BY <1>1, <1>2 DEF Live, TypeOK

-----------------------------------------------------------------------------
(* Steps that send nothing *)

\* What such a step of a task may do to the state that OnceInv speaks of.
Quiet(w) ==
  /\ \A v \in Worker \ {w} : worker'[v] = worker[v]
  /\ worker'[w].pc \notin {"fanout", "enqueue"}
  /\ worker'[w].pc # "idle" => worker[w].pc # "idle" /\ worker'[w].msg = worker[w].msg
  /\ InTask(w)'
  /\ UNCHANGED <<queue, api, armings, exists, gen>>
  /\ doc'.latch = doc.latch

LEMMA OthersInTask ==
  ASSUME \A v \in Worker : InTask(v), NEW w \in Worker,
         \A v \in Worker \ {w} : worker'[v] = worker[v], InTask(w)'
  PROVE  \A v \in Worker : InTask(v)'
BY DEF InTask

LEMMA QuietStep ==
  ASSUME OnceInv, TypeOK', NEW w \in Worker, Quiet(w)
  PROVE  OnceInv'
<1>1. Held(w)' \subseteq Held(w)
  BY DEF Held, Quiet
<1>2. Owed(w)' = {}
  BY NothingOwedNext DEF Quiet
<1>3. OwedByApi' = OwedByApi
  BY DEF OwedByApi, Quiet
<1>4. LiveOnce'
  <2>1. queue' \cap Held(w)' = {}
    BY <1>1 DEF OnceInv, LiveOnce, Quiet
  <2>. QED
    BY <1>1, <1>2, <1>3, <2>1, OnceStep DEF OnceInv, Quiet
<1>5. LiveNumbered'
  <2>1. \A m \in Live : Numbered(m) => Numbered(m)'
    BY DEF Numbered, Quiet
  <2>. QED
    BY <1>1, <1>2, <1>3, <2>1, NumberedStep DEF OnceInv, Quiet
<1>6. \A v \in Worker : InTask(v)'
  BY OthersInTask DEF OnceInv, Quiet
<1>7. InsertedFirst'
  BY DEF OnceInv, InsertedFirst, Quiet
<1>. QED
  BY <1>4, <1>5, <1>6, <1>7 DEF OnceInv

\* A flush that does not touch the latch of its snapshot leaves it alone.
LEMMA FlushKeepsLatch ==
  ASSUME NEW snap, NEW new, new.latch = snap.latch
  PROVE  Flush(snap, new).latch = doc.latch
BY DEF Flush

LEMMA ReturningQuiet ==
  ASSUME OnceInv, NEW w \in Worker, worker' = [worker EXCEPT ![w] = Returning(w)],
         worker[w].pc # "idle", UNCHANGED <<queue, api, armings, exists, gen>>,
         doc'.latch = doc.latch
  PROVE  Quiet(w)
<1>1. worker'[w] = Returning(w)
  BY DEF OnceInv, TypeOK
<1>2. Returning(w).pc = "return" /\ Returning(w).msg = worker[w].msg
  BY DEF Returning, Idle
<1>3. InTask(w)'
  BY <1>1, <1>2 DEF InTask, DocPc, PagePc, FinalPc
<1>. QED
  BY <1>1, <1>2, <1>3 DEF Quiet, OnceInv, TypeOK

\* The worker goes on to pc q of the same task.
LEMMA GoingOnQuiet ==
  ASSUME OnceInv, NEW w \in Worker, NEW q \in {"idle"} \cup DocPc \cup PagePc \cup FinalPc,
         \A v \in Worker \ {w} : worker'[v] = worker[v],
         worker'[w].pc = q, worker'[w].msg = worker[w].msg, worker[w].pc # "idle",
         q \notin {"fanout", "enqueue"},
         q \in DocPc => worker[w].msg.task = "process_document",
         q \in PagePc => worker[w].msg.task = "process_page",
         q \in FinalPc => worker[w].msg.task = "finalize_document",
         UNCHANGED <<queue, api, armings, exists, gen>>,
         doc'.latch = doc.latch
  PROVE  Quiet(w)
BY DEF Quiet, InTask

LEMMA DocQuiet ==
  ASSUME OnceInv, NEW w \in Worker,
         DocStart(w) \/ DocIngest(w) \/ DocExcept(w) \/ DocIngestRaises(w) \/ DocFanOutRaises(w)
  PROVE  Quiet(w)
<1>0. worker \in [Worker -> WorkerState] /\ doc \in DocRow
  BY DEF OnceInv, TypeOK
<1>1. CASE DocStart(w)
  <2>1. CASE exists
    <3>1. worker' = [worker EXCEPT ![w].pc = "ingest",
                       ![w].snap = [doc EXCEPT !.status = "processing", !.progress = 10]]
      BY <1>1, <2>1 DEF DocStart
    <3>2. worker'[w].pc = "ingest" /\ worker'[w].msg = worker[w].msg
      BY <1>0, <3>1 DEF WorkerState
    <3>3. doc'.latch = doc.latch
      BY <1>0, <1>1, <2>1 DEF DocStart, DocRow
    <3>. QED
      BY <1>0, <1>1, <3>1, <3>2, <3>3, GoingOnQuiet DEF DocStart, At, DocPc, PagePc, FinalPc
  <2>2. CASE ~exists
    BY <1>1, <2>2, ReturningQuiet DEF DocStart, At
  <2>. QED
    BY <2>1, <2>2
<1>2. CASE DocIngest(w)
  <2>1. worker'[w].pc = "replace" /\ worker'[w].msg = worker[w].msg
    BY <1>0, <1>2 DEF DocIngest, WorkerState
  <2>. QED
    BY <1>0, <1>2, <2>1, GoingOnQuiet DEF DocIngest, At, db, tables, DocPc, PagePc, FinalPc
<1>3. CASE DocExcept(w)
  <2>1. doc'.latch = doc.latch
    BY <1>0, <1>3 DEF DocExcept, DocRow
  <2>. QED
    BY <1>3, <2>1, ReturningQuiet DEF DocExcept, At
<1>4. CASE DocIngestRaises(w)
  <2>1. worker'[w].pc = "doc_except" /\ worker'[w].msg = worker[w].msg
    BY <1>0, <1>4 DEF DocIngestRaises, WorkerState
  <2>. QED
    BY <1>0, <1>4, <2>1, GoingOnQuiet DEF DocIngestRaises, At, db, tables, DocPc, PagePc, FinalPc
<1>5. CASE DocFanOutRaises(w)
  <2>1. worker'[w].pc = "doc_except" /\ worker'[w].msg = worker[w].msg
    BY <1>0, <1>5 DEF DocFanOutRaises, WorkerState
  <2>. QED
    BY <1>0, <1>5, <2>1, GoingOnQuiet DEF DocFanOutRaises, At, db, tables, DocPc, PagePc, FinalPc
<1>. QED
  BY <1>1, <1>2, <1>3, <1>4, <1>5

LEMMA PageQuiet ==
  ASSUME OnceInv, NEW w \in Worker,
         \/ PageStart(w) \/ PageCommit(w) \/ PageExcept(w) \/ PageCountRemaining(w)
         \/ PageRaises(w) \/ PageTailRaises(w)
         \/ PageLatch(w) /\ ~LatchIsFree
  PROVE  Quiet(w)
<1>0. worker \in [Worker -> WorkerState] /\ doc \in DocRow
  BY DEF OnceInv, TypeOK
<1>1. CASE PageStart(w)
  <2>1. CASE exists /\ gen > 0
    <3>1. worker' = [worker EXCEPT ![w].pc = "extract", ![w].row = gen, ![w].snap = doc]
      BY <1>1, <2>1 DEF PageStart
    <3>2. worker'[w].pc = "extract" /\ worker'[w].msg = worker[w].msg
      BY <1>0, <3>1 DEF WorkerState
    <3>. QED
      BY <1>0, <1>1, <3>1, <3>2, GoingOnQuiet DEF PageStart, At, DocPc, PagePc, FinalPc
  <2>2. CASE ~(exists /\ gen > 0)
    BY <1>1, <2>2, ReturningQuiet DEF PageStart, At
  <2>. QED
    BY <2>1, <2>2
<1>2. CASE PageCommit(w)
  <2>1. CASE RowsStand(w)
    <3>1. worker' = [worker EXCEPT ![w].pc = "count", ![w].snap = NewDoc]
      BY <1>2, <2>1 DEF PageCommit
    <3>2. worker'[w].pc = "count" /\ worker'[w].msg = worker[w].msg
      BY <1>0, <3>1 DEF WorkerState
    <3>3. worker[w].snap \in DocRow
      BY <1>0 DEF WorkerState
    <3>4. Counted(worker[w].snap, worker[w].msg.page).latch = worker[w].snap.latch
      BY <3>3 DEF Counted, DocRow
    <3>5. doc'.latch = doc.latch
      BY <1>2, <2>1, <3>4, FlushKeepsLatch DEF PageCommit
    <3>. QED
      BY <1>0, <1>2, <3>1, <3>2, <3>5, GoingOnQuiet DEF PageCommit, At, DocPc, PagePc, FinalPc
  <2>2. CASE ~RowsStand(w)
    <3>1. worker'[w].pc = "page_except" /\ worker'[w].msg = worker[w].msg
      BY <1>0, <1>2, <2>2 DEF PageCommit, WorkerState
    <3>. QED
      BY <1>0, <1>2, <2>2, <3>1, GoingOnQuiet DEF PageCommit, At, DocPc, PagePc, FinalPc
  <2>. QED
    BY <2>1, <2>2
<1>3. CASE PageExcept(w)
  <2>1. worker' = [worker EXCEPT ![w].pc = "count", ![w].snap = NewDoc, ![w].failing = TRUE]
    BY <1>3 DEF PageExcept
  <2>2. worker'[w].pc = "count" /\ worker'[w].msg = worker[w].msg
    BY <1>0, <2>1 DEF WorkerState
  <2>. QED
    BY <1>0, <1>3, <2>1, <2>2, GoingOnQuiet DEF PageExcept, At, DocPc, PagePc, FinalPc
<1>4. CASE PageCountRemaining(w)
  <2>1. CASE NoneRemaining
    <3>1. worker'[w].pc = "latch" /\ worker'[w].msg = worker[w].msg
      BY <1>0, <1>4, <2>1 DEF PageCountRemaining, WorkerState
    <3>. QED
      BY <1>0, <1>4, <3>1, GoingOnQuiet DEF PageCountRemaining, At,
                                            db, tables, DocPc, PagePc, FinalPc
  <2>2. CASE ~NoneRemaining
    BY <1>4, <2>2, ReturningQuiet DEF PageCountRemaining, At, db, tables
  <2>. QED
    BY <2>1, <2>2
<1>5. CASE PageRaises(w)
  <2>1. worker'[w].pc = "page_except" /\ worker'[w].msg = worker[w].msg
    BY <1>0, <1>5 DEF PageRaises, WorkerState
  <2>. QED
    BY <1>0, <1>5, <2>1, GoingOnQuiet DEF PageRaises, At, db, tables, DocPc, PagePc, FinalPc
<1>6. CASE PageTailRaises(w)
  <2>1. CASE worker[w].failing
    BY <1>6, <2>1, ReturningQuiet DEF PageTailRaises, db, tables
  <2>2. CASE ~worker[w].failing
    <3>1. worker'[w].pc = "page_except" /\ worker'[w].msg = worker[w].msg
      BY <1>0, <1>6, <2>2 DEF PageTailRaises, WorkerState
    <3>. QED
      BY <1>0, <1>6, <3>1, GoingOnQuiet DEF PageTailRaises, db, tables, DocPc, PagePc, FinalPc
  <2>. QED
    BY <2>1, <2>2
<1>7. CASE PageLatch(w) /\ ~LatchIsFree
  BY <1>7, ReturningQuiet DEF PageLatch, At
<1>. QED
  BY <1>1, <1>2, <1>3, <1>4, <1>5, <1>6, <1>7

LEMMA FinalQuiet ==
  ASSUME OnceInv, NEW w \in Worker, FinalTask(w) \/ FinalRaises(w)
  PROVE  Quiet(w)
<1>0. worker \in [Worker -> WorkerState] /\ doc \in DocRow
  BY DEF OnceInv, TypeOK
<1>1. CASE FinalStart(w)
  <2>1. CASE exists
    <3>1. worker' = [worker EXCEPT ![w].pc = "stitch", ![w].snap = [doc EXCEPT !.progress = 90]]
      BY <1>1, <2>1 DEF FinalStart
    <3>2. worker'[w].pc = "stitch" /\ worker'[w].msg = worker[w].msg
      BY <1>0, <3>1 DEF WorkerState
    <3>3. doc'.latch = doc.latch
      BY <1>0, <1>1, <2>1 DEF FinalStart, DocRow
    <3>. QED
      BY <1>0, <1>1, <3>1, <3>2, <3>3, GoingOnQuiet DEF FinalStart, At, DocPc, PagePc, FinalPc
  <2>2. CASE ~exists
    BY <1>1, <2>2, ReturningQuiet DEF FinalStart, At
  <2>. QED
    BY <2>1, <2>2
<1>2. CASE FinalStitch(w)
  <2>1. PICK changes \in BOOLEAN :
          worker' = [worker EXCEPT ![w] =
                      IF changes /\ ~exists THEN [@ EXCEPT !.pc = "final_except"]
                      ELSE [@ EXCEPT !.pc = "delete", !.view = pages, !.row = gen,
                                     !.locks = changes]]
    BY <1>2 DEF FinalStitch
  <2>2. CASE changes /\ ~exists
    <3>1. worker'[w].pc = "final_except" /\ worker'[w].msg = worker[w].msg
      BY <1>0, <2>1, <2>2 DEF WorkerState
    <3>. QED
      BY <1>0, <1>2, <2>1, <3>1, GoingOnQuiet DEF FinalStitch, At,
                                                  db, tables, DocPc, PagePc, FinalPc
  <2>3. CASE ~(changes /\ ~exists)
    <3>1. worker'[w] = [worker[w] EXCEPT !.pc = "delete", !.view = pages, !.row = gen,
                                         !.locks = changes]
      BY <1>0, <2>1, <2>3
    <3>2. worker[w] \in WorkerState
      BY <1>0
    <3>3. worker'[w].pc = "delete" /\ worker'[w].msg = worker[w].msg
      BY <3>1, <3>2 DEF WorkerState
    <3>. QED
      BY <1>0, <1>2, <2>1, <3>3, GoingOnQuiet DEF FinalStitch, At,
                                                  db, tables, DocPc, PagePc, FinalPc
  <2>. QED
    BY <2>2, <2>3
<1>3. CASE FinalDelete(w)
  <2>1. worker'[w].pc = "save" /\ worker'[w].msg = worker[w].msg
    BY <1>0, <1>3 DEF FinalDelete, WorkerState
  <2>. QED
    BY <1>0, <1>3, <2>1, GoingOnQuiet DEF FinalDelete, At, db, tables, DocPc, PagePc, FinalPc
<1>4. CASE FinalSave(w)
  <2>1. CASE exists
    <3>1. PICK h \in {FALSE} \cup {worker[w].view[n].extracted : n \in PageNo}, c \in BOOLEAN :
            doc' = Flush(worker[w].snap,
                         [worker[w].snap EXCEPT !.status = StatusOf(worker[w].view, h, c),
                                                !.progress = 100, !.role = TRUE])
      BY <1>4, <2>1 DEF FinalSave
    <3>2. worker[w].snap \in DocRow
      BY <1>0 DEF WorkerState
    <3>3. [worker[w].snap EXCEPT !.status = StatusOf(worker[w].view, h, c),
                                 !.progress = 100, !.role = TRUE].latch = worker[w].snap.latch
      BY <3>2 DEF DocRow
    <3>4. doc'.latch = doc.latch
      BY <3>1, <3>3, FlushKeepsLatch
    <3>5. worker' = [worker EXCEPT ![w].pc = "notify"]
      BY <1>4, <2>1 DEF FinalSave
    <3>6. worker'[w].pc = "notify" /\ worker'[w].msg = worker[w].msg
      BY <1>0, <3>5 DEF WorkerState
    <3>. QED
      BY <1>0, <1>4, <3>4, <3>5, <3>6, GoingOnQuiet DEF FinalSave, At, DocPc, PagePc, FinalPc
  <2>2. CASE ~exists
    <3>1. worker'[w].pc = "final_except" /\ worker'[w].msg = worker[w].msg
      BY <1>0, <1>4, <2>2 DEF FinalSave, WorkerState
    <3>. QED
      BY <1>0, <1>4, <2>2, <3>1, GoingOnQuiet DEF FinalSave, At, DocPc, PagePc, FinalPc
  <2>. QED
    BY <2>1, <2>2
<1>5. CASE FinalNotify(w)
  BY <1>5, ReturningQuiet DEF FinalNotify, At, db, tables
<1>6. CASE FinalExcept(w)
  <2>1. doc'.latch = doc.latch
    BY <1>0, <1>6 DEF FinalExcept, DocRow
  <2>. QED
    BY <1>6, <2>1, ReturningQuiet DEF FinalExcept, At
<1>7. CASE FinalRaises(w)
  <2>1. worker'[w].pc = "final_except" /\ worker'[w].msg = worker[w].msg
    BY <1>0, <1>7 DEF FinalRaises, WorkerState
  <2>2. worker[w].pc # "idle"
    BY <1>7 DEF FinalRaises
  <2>. QED
    BY <1>0, <1>7, <2>1, <2>2, GoingOnQuiet DEF FinalRaises, db, tables, DocPc, PagePc, FinalPc
<1>. QED
  BY <1>1, <1>2, <1>3, <1>4, <1>5, <1>6, <1>7 DEF FinalTask

\* A task that returns, is killed or drops the error of its except block.
LEMMA LeavingQuiet ==
  ASSUME OnceInv, NEW w \in Worker, Ack(w) \/ HardTimeout(w) \/ ExceptRaises(w)
  PROVE  /\ Quiet(w)
         /\ worker' \in {[worker EXCEPT ![w] = Idle], [worker EXCEPT ![w] = Returning(w)]}
         /\ worker'[w] \in {Idle, Returning(w)} /\ worker'[w].pc \in {"idle", "return"}
         /\ UNCHANGED <<tables, queue, api, armings>>
<1>0. worker \in [Worker -> WorkerState]
  BY DEF OnceInv, TypeOK
<1>1. Idle.pc = "idle" /\ Returning(w).pc = "return"
  BY DEF Idle, Returning
<1>2. UNCHANGED <<tables, queue, api, armings>>
  BY DEF Ack, HardTimeout, ExceptRaises, db
<1>3. CASE worker' = [worker EXCEPT ![w] = Idle]
  <2>1. worker'[w] = Idle
    BY <1>0, <1>3
  <2>. QED
    BY <1>0, <1>1, <1>2, <1>3, <2>1 DEF Quiet, InTask, DocPc, PagePc, FinalPc, tables
<1>4. CASE worker' = [worker EXCEPT ![w] = Returning(w)] /\ worker[w].pc # "idle"
  <2>1. worker'[w] = Returning(w)
    BY <1>0, <1>4
  <2>. QED
    BY <1>1, <1>2, <1>4, <2>1, ReturningQuiet DEF tables
<1>5. worker[w].pc # "idle" \/ worker' = [worker EXCEPT ![w] = Idle]
  BY DEF Ack, HardTimeout, ExceptRaises
<1>. QED
  BY <1>3, <1>4, <1>5 DEF Ack, HardTimeout, ExceptRaises

LEMMA PoolOnce ==
  ASSUME OnceInv, TypeOK', NEW w \in Worker,
         Deliver(w) \/ Ack(w) \/ WorkerLost(w) \/ HardTimeout(w) \/ ExceptRaises(w)
  PROVE  OnceInv'
<1>0. worker \in [Worker -> WorkerState] /\ doc \in DocRow
  BY DEF OnceInv, TypeOK
<1>a. Idle.pc = "idle"
  BY DEF Idle
<1>b. ASSUME queue' \cup Held(w)' \cup Owed(w)' \subseteq queue \cup Held(w) \cup Owed(w),
             queue' \cap Held(w)' = {}, Owed(w)' = {}, InTask(w)',
             \A v \in Worker \ {w} : worker'[v] = worker[v],
             UNCHANGED <<api, armings, exists, gen, doc>>
      PROVE  OnceInv'
  <2>1. OwedByApi' = OwedByApi
    BY <1>b DEF OwedByApi
  <2>2. LiveOnce'
    BY <1>b, <2>1, OnceStep DEF OnceInv
  <2>3. \A m \in Live : Numbered(m) => Numbered(m)'
    BY <1>b DEF Numbered
  <2>4. LiveNumbered'
    BY <1>b, <2>1, <2>3, NumberedStep DEF OnceInv
  <2>5. \A v \in Worker : InTask(v)'
    BY <1>b, OthersInTask DEF OnceInv
  <2>. QED
    BY <1>b, <2>2, <2>4, <2>5 DEF OnceInv, InsertedFirst
<1>1. CASE Deliver(w)
  <2>1. PICK m \in queue :
          /\ queue' = queue \ {m}
          /\ worker' = [worker EXCEPT ![w] = [Idle EXCEPT !.pc = "start", !.msg = m]]
    BY <1>1 DEF Deliver
  <2>2. worker'[w].pc = "start" /\ worker'[w].msg = m
    BY <1>0, <2>1 DEF Idle
  <2>3. Held(w)' = {m} /\ Owed(w)' = {}
    BY <2>2, NothingOwedNext DEF Held
  <2>4. InTask(w)'
    BY <2>2 DEF InTask, DocPc, PagePc, FinalPc
  <2>. QED
    BY <1>0, <1>1, <1>b, <2>1, <2>3, <2>4 DEF Deliver, db, tables
<1>2. CASE WorkerLost(w)
  <2>1. worker'[w] = Idle
    BY <1>0, <1>2 DEF WorkerLost
  <2>2. Held(w)' = {} /\ Owed(w)' = {}
    BY <1>a, <2>1, NothingOwedNext DEF Held
  <2>3. Held(w) = {worker[w].msg}
    BY <1>2 DEF WorkerLost, Held
  <2>4. InTask(w)'
    BY <1>a, <2>1 DEF InTask, DocPc, PagePc, FinalPc
  <2>. QED
    BY <1>0, <1>2, <1>b, <2>2, <2>3, <2>4 DEF WorkerLost, db, tables
<1>3. CASE Ack(w) \/ HardTimeout(w) \/ ExceptRaises(w)
  BY <1>3, LeavingQuiet, QuietStep
<1>. QED
  BY <1>1, <1>2, <1>3

-----------------------------------------------------------------------------
(* Steps that send, or that come to owe, a message *)

\* Sending what is owed: the message moves from Owed to the queue.
LEMMA SendStep ==
  ASSUME OnceInv, TypeOK', NEW w \in Worker, NEW m \in Owed(w),
         queue' = queue \cup {m}, Held(w)' = Held(w), Owed(w)' \subseteq Owed(w) \ {m},
         InTask(w)',
         \A v \in Worker \ {w} : worker'[v] = worker[v],
         UNCHANGED <<api, armings, exists, gen, doc>>
  PROVE  OnceInv'
<1>1. OwedByApi' = OwedByApi
  BY DEF OwedByApi
<1>2. queue' \cap Held(w)' = {} /\ queue' \cap Owed(w)' = {} /\ Held(w)' \cap Owed(w)' = {}
  BY DEF OnceInv, LiveOnce
<1>3. LiveOnce'
  BY <1>1, <1>2, OnceStep DEF OnceInv
<1>4. \A k \in Live : Numbered(k) => Numbered(k)'
  BY DEF Numbered
<1>5. LiveNumbered'
  BY <1>1, <1>4, NumberedStep DEF OnceInv
<1>6. \A v \in Worker : InTask(v)'
  BY OthersInTask DEF OnceInv
<1>. QED
  BY <1>3, <1>5, <1>6 DEF OnceInv, InsertedFirst

LEMMA FanOutOnce ==
  ASSUME OnceInv, TypeOK', NEW w \in Worker, DocFanOut(w)
  PROVE  OnceInv'
<1>0. worker \in [Worker -> WorkerState]
  BY DEF OnceInv, TypeOK
<1>1. CASE worker[w].next \in PageNo
  <2> DEFINE m == PageMsg(worker[w].next, worker[w].row)
  <2>1. queue' = queue \cup {m} /\ worker' = [worker EXCEPT ![w].next = @ + 1]
    BY <1>1 DEF DocFanOut
  <2>2. /\ worker'[w].pc = "fanout" /\ worker[w].pc = "fanout"
        /\ worker'[w].msg = worker[w].msg
        /\ worker'[w].row = worker[w].row
        /\ worker'[w].next = worker[w].next + 1
    BY <1>0, <2>1 DEF DocFanOut, At, WorkerState
  <2>3. worker[w].next \in Nat
    BY <1>0 DEF WorkerState
  <2>4. m \in Owed(w)
    BY <1>1, <2>2, <2>3, ConstantTypes DEF Owed
  <2>5. Owed(w)' \subseteq Owed(w) \ {m}
    <3>1. Owed(w)' = {PageMsg(n, worker[w].row) :
                         n \in {k \in PageNo : k >= worker[w].next + 1}}
      BY <2>2 DEF Owed
    <3>2. ASSUME NEW n \in PageNo, n >= worker[w].next + 1
          PROVE  PageMsg(n, worker[w].row) \in Owed(w) /\ PageMsg(n, worker[w].row) # m
      <4>1. n \in Nat /\ n >= worker[w].next /\ n # worker[w].next
        BY <2>3, <3>2, ConstantTypes
      <4>2. PageMsg(n, worker[w].row).page = n /\ m.page = worker[w].next
        BY DEF PageMsg
      <4>3. PageMsg(n, worker[w].row) \in Owed(w)
        BY <2>2, <4>1 DEF Owed
      <4>. QED
        BY <4>1, <4>2, <4>3
    <3>. QED
      BY <3>1, <3>2
  <2>6. Held(w)' = Held(w)
    BY <2>2 DEF Held
  <2>7. InTask(w)'
    BY <2>2 DEF InTask, OnceInv
  <2>. QED
    BY <1>0, <2>1, <2>4, <2>5, <2>6, <2>7, SendStep DEF DocFanOut, db, tables
<1>2. CASE worker[w].next \notin PageNo
  <2>1. Quiet(w)
    BY <1>2, ReturningQuiet DEF DocFanOut, At, db, tables
  <2>. QED
    BY <2>1, QuietStep
<1>. QED
  BY <1>1, <1>2

LEMMA EnqueueOnce ==
  ASSUME OnceInv, TypeOK', NEW w \in Worker, PageEnqueueFinal(w)
  PROVE  OnceInv'
<1>0. worker \in [Worker -> WorkerState]
  BY DEF OnceInv, TypeOK
<1> DEFINE m == FinalMsg(worker[w].arming)
<1>1. queue' = queue \cup {m} /\ worker' = [worker EXCEPT ![w] = Returning(w)]
  BY DEF PageEnqueueFinal
<1>2. worker'[w].pc = "return" /\ worker'[w].msg = worker[w].msg
  BY <1>0, <1>1 DEF Returning, Idle
<1>3. Owed(w) = {m}
  BY DEF PageEnqueueFinal, At, Owed
<1>4. Owed(w)' = {}
  BY <1>2, NothingOwedNext
<1>5. Held(w)' = Held(w)
  BY <1>2 DEF Held, PageEnqueueFinal, At
<1>6. InTask(w)'
  BY <1>2 DEF InTask, DocPc, PagePc, FinalPc
<1>. QED
  BY <1>0, <1>1, <1>3, <1>4, <1>5, <1>6, SendStep DEF PageEnqueueFinal, db, tables

\* A new ingestion has a new number, so none of its page messages is live.
LEMMA ReplaceOnce ==
  ASSUME OnceInv, TypeOK', NEW w \in Worker, DocReplacePages(w)
  PROVE  OnceInv'
<1>0. worker \in [Worker -> WorkerState] /\ gen \in Nat
  BY DEF OnceInv, TypeOK
<1>1. CASE worker' = [worker EXCEPT ![w].pc = "doc_except"] /\ UNCHANGED <<doc, gen, pages>>
  <2>1. worker'[w].pc = "doc_except" /\ worker'[w].msg = worker[w].msg
    BY <1>0, <1>1 DEF WorkerState
  <2>2. Quiet(w)
    BY <1>0, <1>1, <2>1, GoingOnQuiet DEF DocReplacePages, At, DocPc, PagePc, FinalPc
  <2>. QED
    BY <2>2, QuietStep
<1>2. CASE ~(worker' = [worker EXCEPT ![w].pc = "doc_except"] /\ UNCHANGED <<doc, gen, pages>>)
  <2>1. worker' = [worker EXCEPT ![w].pc = "fanout", ![w].snap = NewDoc,
                                 ![w].row = gen + 1, ![w].next = 1]
    BY <1>2 DEF DocReplacePages
  <2>2. /\ worker'[w] = [worker[w] EXCEPT !.pc = "fanout", !.snap = NewDoc,
                                          !.row = gen + 1, !.next = 1]
        /\ worker[w] \in WorkerState
    BY <1>0, <2>1
  <2>3. worker'[w].pc = "fanout" /\ worker'[w].msg = worker[w].msg /\ worker'[w].row = gen + 1
    BY <2>2 DEF WorkerState
  <2>4. worker[w].pc = "replace" /\ worker[w].msg.task = "process_document"
    BY DEF DocReplacePages, At
  <2>5. gen' = gen + 1 /\ UNCHANGED <<queue, api, armings, exists>>
    BY <1>2 DEF DocReplacePages
  <2>6. doc'.latch = doc.latch
    <3>1. worker[w].snap \in DocRow
      BY <2>2 DEF WorkerState
    <3>2. [worker[w].snap EXCEPT !.done = 0, !.progress = 20].latch = worker[w].snap.latch
      BY <3>1 DEF DocRow
    <3>3. doc' = Flush(worker[w].snap, [worker[w].snap EXCEPT !.done = 0, !.progress = 20])
      BY <1>2 DEF DocReplacePages
    <3>. QED
      BY <3>2, <3>3, FlushKeepsLatch
  <2>7. Held(w)' = Held(w) /\ Held(w) = {worker[w].msg}
    BY <2>3, <2>4 DEF Held
  <2>8. \A m \in Owed(w)' : m.task = "process_page" /\ m.run = gen + 1
    BY <2>3 DEF Owed, PageMsg
  <2>9. \A m \in Live : m.task = "process_page" => m.run <= gen
    BY DEF OnceInv, LiveNumbered, Numbered
  <2>10. \A m \in Owed(w)' : m \notin Live
    BY <1>0, <2>8, <2>9
  <2>11. queue \cup Held(w) \subseteq Live
    BY DEF Live
  <2>12. OwedByApi' = OwedByApi
    BY <2>5 DEF OwedByApi
  <2>13. LiveOnce'
    <3>1. queue' \cap Held(w)' = {}
      BY <2>5, <2>7 DEF OnceInv, LiveOnce
    <3>2. queue' \cap Owed(w)' = {} /\ Held(w)' \cap Owed(w)' = {}
      BY <2>5, <2>7, <2>10, <2>11
    <3>. QED
      BY <1>0, <2>1, <2>5, <2>7, <2>10, <2>12, <3>1, <3>2, OnceStep DEF OnceInv
  <2>14. LiveNumbered'
    <3>1. \A m \in Live : Numbered(m) => Numbered(m)'
      <4>1. \A m \in Live : m.run \in Nat
        BY LiveTyped DEF OnceInv, Message
      <4>. QED
        BY <1>0, <2>5, <2>6, <4>1 DEF Numbered
    <3>2. \A m \in Owed(w)' : Numbered(m)'
      BY <1>0, <2>5, <2>8 DEF Numbered
    <3>. QED
      BY <1>0, <2>1, <2>5, <2>7, <2>12, <3>1, <3>2, NumberedStep DEF OnceInv
  <2>15. InTask(w)'
    BY <2>3, <2>4 DEF InTask, DocPc, PagePc, FinalPc
  <2>16. \A v \in Worker : InTask(v)'
    BY <1>0, <2>1, <2>15, OthersInTask DEF OnceInv
  <2>. QED
    BY <2>5, <2>13, <2>14, <2>16 DEF OnceInv, InsertedFirst
<1>. QED
  BY <1>1, <1>2

\* The conditional UPDATE: finalize_enqueued was free, so no finalize_document
\* of the present arming is live.
LEMMA LatchOnce ==
  ASSUME OnceInv, TypeOK', NEW w \in Worker, PageLatch(w)
  PROVE  OnceInv'
<1>0. worker \in [Worker -> WorkerState] /\ armings \in Nat /\ doc \in DocRow
  BY DEF OnceInv, TypeOK
<1>1. CASE ~LatchIsFree
  BY <1>1, PageQuiet, QuietStep
<1>2. CASE LatchIsFree
  <2>1. worker' = [worker EXCEPT ![w].pc = "enqueue", ![w].arming = armings]
    BY <1>2 DEF PageLatch
  <2>2. /\ worker'[w].pc = "enqueue" /\ worker'[w].msg = worker[w].msg
        /\ worker'[w].arming = armings
    BY <1>0, <2>1 DEF WorkerState
  <2>3. worker[w].pc = "latch" /\ worker[w].msg.task = "process_page"
    BY DEF PageLatch, At
  <2>4. doc'.latch /\ exists /\ ~doc.latch
    BY <1>0, <1>2 DEF PageLatch, LatchIsFree, DocRow
  <2>5. UNCHANGED <<queue, api, armings, exists, gen>>
    BY DEF PageLatch
  <2>6. Held(w)' = Held(w) /\ Owed(w)' = {FinalMsg(armings)}
    BY <2>2, <2>3 DEF Held, Owed
  <2>7. FinalMsg(armings) \notin Live
    <3>1. \A m \in Live : m.task = "finalize_document" => m.run # armings
      BY <2>4 DEF OnceInv, LiveNumbered, Numbered
    <3>. QED
      BY <3>1 DEF FinalMsg
  <2>8. queue \cup Held(w) \subseteq Live
    BY DEF Live
  <2>9. OwedByApi' = OwedByApi
    BY <2>5 DEF OwedByApi
  <2>10. LiveOnce'
    <3>1. queue' \cap Held(w)' = {}
      BY <2>5, <2>6 DEF OnceInv, LiveOnce
    <3>2. queue' \cap Owed(w)' = {} /\ Held(w)' \cap Owed(w)' = {}
      BY <2>5, <2>6, <2>7, <2>8
    <3>. QED
      BY <1>0, <2>1, <2>5, <2>6, <2>7, <2>9, <3>1, <3>2, OnceStep DEF OnceInv
  <2>11. LiveNumbered'
    <3>1. \A m \in Live : Numbered(m) => Numbered(m)'
      BY <2>4, <2>5 DEF Numbered
    <3>2. api.pc \notin {"new", "insert"}
      BY <2>4 DEF OnceInv, InsertedFirst
    <3>3. \A m \in queue' \cup Held(w)' \cup Owed(w)' :
             m \in queue \cup Held(w) \cup Owed(w) \/ Numbered(m)'
      <4>1. \A m \in Owed(w)' : Numbered(m)'
        <5>1. ASSUME NEW m, m = FinalMsg(armings)
              PROVE  Numbered(m)'
          BY <1>0, <2>4, <2>5, <5>1, <3>2 DEF Numbered, FinalMsg
        <5>. QED
          BY <2>6, <5>1
      <4>. QED
        BY <2>5, <2>6, <4>1
    <3>. QED
      BY <1>0, <2>1, <2>9, <3>1, <3>3, NumberedStep DEF OnceInv
  <2>12. InTask(w)'
    BY <2>2, <2>3 DEF InTask, DocPc, PagePc, FinalPc
  <2>13. \A v \in Worker : InTask(v)'
    BY <1>0, <2>1, <2>12, OthersInTask DEF OnceInv
  <2>. QED
    BY <2>5, <2>10, <2>11, <2>13 DEF OnceInv, InsertedFirst
<1>. QED
  BY <1>1, <1>2

-----------------------------------------------------------------------------
(* Requests *)

LEMMA SameWorkers ==
  ASSUME worker' = worker
  PROVE  /\ \A v \in Worker : Held(v)' = Held(v) /\ Owed(v)' = Owed(v)
         /\ \A v \in Worker : InTask(v) => InTask(v)'
BY SameWorker DEF InTask

\* A request moves its own message to the queue, drops it, or takes a new one.
LEMMA RequestStep ==
  ASSUME OnceInv, worker' = worker,
         queue' \cap OwedByApi' = {},
         \A m \in queue' \cup OwedByApi' : m \in queue \cup OwedByApi \/ m \notin Live
  PROVE  LiveOnce'
<1>1. \A v \in Worker : Held(v)' = Held(v) /\ Owed(v)' = Owed(v)
  BY SameWorkers
<1>2. \A m \in queue' \cup OwedByApi' : \A v \in Worker : m \notin Held(v) \cup Owed(v)
  BY DEF OnceInv, LiveOnce, Live
<1>. QED
  BY <1>1, <1>2 DEF OnceInv, LiveOnce

LEMMA RequestNumbered ==
  ASSUME OnceInv, worker' = worker,
         \A m \in Live : Numbered(m) => Numbered(m)',
         \A m \in queue' \cup OwedByApi' : m \in queue \cup OwedByApi \/ Numbered(m)'
  PROVE  LiveNumbered'
<1>1. \A v \in Worker : Held(v)' = Held(v) /\ Owed(v)' = Owed(v)
  BY SameWorkers
<1>. QED
  BY <1>1 DEF OnceInv, LiveNumbered, Live

LEMMA RequestOnce ==
  ASSUME OnceInv, TypeOK', Request
  PROVE  OnceInv'
<1>0. api \in [pc: ApiPc, snap: DocRow, nth: Nat] /\ armings \in Nat /\ doc \in DocRow
  BY DEF OnceInv, TypeOK
<1>a. worker' = worker
  BY DEF Request, UploadEnqueue, UploadUnavailable, UploadInsert, UploadRejected, ReprocessLoad,
         ReprocessCommit, ReprocessEnqueue, ReprocessUnavailable, DeleteDocument, ApiLost
<1>b. \A v \in Worker : InTask(v)'
  BY <1>a, SameWorkers DEF OnceInv
\* Requests that only give up, or send, the message they owe.
<1>c. ASSUME queue' \cup OwedByApi' \subseteq queue \cup OwedByApi,
             queue' \cap OwedByApi' = {},
             api'.nth = api.nth, api'.pc = "new" => api.pc = "new",
             api'.pc = "insert" => api.pc \in {"new", "insert"},
             UNCHANGED <<exists, doc, gen, armings>>
      PROVE  OnceInv'
  <2>1. LiveOnce'
    BY <1>a, <1>c, RequestStep
  <2>2. \A m \in Live : Numbered(m) => Numbered(m)'
    BY <1>c DEF Numbered
  <2>3. LiveNumbered'
    BY <1>a, <1>c, <2>2, RequestNumbered
  <2>4. InsertedFirst'
    BY <1>c DEF OnceInv, InsertedFirst
  <2>. QED
    BY <1>b, <2>1, <2>3, <2>4 DEF OnceInv
<1>1. CASE UploadEnqueue
  <2>1. api.pc = "new" /\ api'.pc = "insert" /\ api'.nth = api.nth
    BY <1>0, <1>1 DEF UploadEnqueue
  <2>2. OwedByApi = {DocMsg(0)} /\ OwedByApi' = {}
    BY <2>1 DEF OwedByApi
  <2>. QED
    BY <1>1, <1>c, <2>1, <2>2 DEF UploadEnqueue, db, tables
<1>2. CASE UploadUnavailable \/ UploadRejected \/ ReprocessUnavailable \/ ApiLost
  <2>1. /\ api'.nth = api.nth /\ api'.pc \in {"gone", "ready"}
        /\ UNCHANGED <<db, queue, armings>>
    BY <1>0, <1>2 DEF UploadUnavailable, UploadRejected, ReprocessUnavailable, ApiLost
  <2>2. OwedByApi' = {}
    BY <2>1 DEF OwedByApi
  <2>. QED
    BY <1>c, <2>1, <2>2 DEF db, tables
<1>3. CASE ReprocessEnqueue
  <2>1. api.pc = "requeue" /\ api'.pc = "ready" /\ api'.nth = api.nth
    BY <1>0, <1>3 DEF ReprocessEnqueue
  <2>2. OwedByApi = {DocMsg(api.nth)} /\ OwedByApi' = {}
    BY <2>1 DEF OwedByApi
  <2>. QED
    BY <1>3, <1>c, <2>1, <2>2 DEF ReprocessEnqueue, db, tables
<1>4. CASE UploadInsert
  <2>1. api.pc = "insert" /\ api'.pc = "ready" /\ api'.nth = api.nth
    BY <1>0, <1>4 DEF UploadInsert
  <2>2. OwedByApi = {} /\ OwedByApi' = {}
    BY <2>1 DEF OwedByApi
  <2>3. UNCHANGED <<queue, gen, armings>>
    BY <1>4 DEF UploadInsert
  <2>4. LiveOnce'
    BY <1>a, <2>2, <2>3, RequestStep DEF OnceInv, LiveOnce
  <2>5. \A m \in Live : m.task # "finalize_document"
    BY <2>1 DEF OnceInv, LiveNumbered, Numbered
  <2>6. \A m \in Live : Numbered(m) => Numbered(m)'
    BY <2>1, <2>3, <2>5 DEF Numbered
  <2>7. LiveNumbered'
    BY <1>a, <2>2, <2>3, <2>6, RequestNumbered
  <2>. QED
    BY <1>b, <2>1, <2>4, <2>7 DEF OnceInv, InsertedFirst
<1>5. CASE ReprocessLoad
  <2>1. /\ api.pc = "ready" /\ api'.pc = "reset" /\ api'.nth = api.nth + 1
        /\ UNCHANGED <<db, queue, armings>>
    BY <1>5 DEF ReprocessLoad
  <2>2. OwedByApi' = {DocMsg(api.nth + 1)}
    BY <2>1 DEF OwedByApi
  <2>3. DocMsg(api.nth + 1) \notin Live
    <3>1. \A m \in Live : m.task = "process_document" => m.run <= api.nth
      BY DEF OnceInv, LiveNumbered, Numbered
    <3>. QED
      BY <1>0, <3>1 DEF DocMsg
  <2>4. queue \subseteq Live
    BY DEF Live
  <2>5. LiveOnce'
    BY <1>a, <2>1, <2>2, <2>3, <2>4, RequestStep
  <2>6. \A m \in Live : Numbered(m) => Numbered(m)'
    <3>1. \A m \in Live : m.run \in Nat
      BY LiveTyped DEF OnceInv, Message
    <3>. QED
      BY <1>0, <2>1, <3>1 DEF Numbered, db, tables
  <2>7. \A m \in OwedByApi' : Numbered(m)'
    BY <1>0, <2>1, <2>2 DEF Numbered, DocMsg
  <2>8. LiveNumbered'
    BY <1>a, <2>1, <2>6, <2>7, RequestNumbered
  <2>. QED
    BY <1>b, <2>1, <2>5, <2>8 DEF OnceInv, InsertedFirst, db, tables
<1>6. CASE ReprocessCommit
  <2>1. /\ api.pc = "reset" /\ api'.pc = "requeue" /\ api'.nth = api.nth
        /\ UNCHANGED <<exists, queue, gen>>
    BY <1>0, <1>6 DEF ReprocessCommit
  <2>2. OwedByApi' = OwedByApi
    BY <2>1 DEF OwedByApi
  <2>3. LiveOnce'
    BY <1>a, <2>1, <2>2, RequestStep DEF OnceInv, LiveOnce
  <2>4. \A m \in Live : Numbered(m) => Numbered(m)'
    <3>1. \A m \in Live : m.run \in Nat
      BY LiveTyped DEF OnceInv, Message
    <3>2. CASE api.snap.latch
      <4>1. armings' = armings + 1
        BY <1>6, <3>2 DEF ReprocessCommit
      <4>. QED
        BY <1>0, <2>1, <3>1, <4>1 DEF Numbered
    <3>3. CASE ~api.snap.latch
      <4>1. api.snap \in DocRow
        BY <1>0
      <4>2. [api.snap EXCEPT !.status = "queued", !.progress = 0, !.latch = FALSE].latch
              = api.snap.latch
        BY <3>3, <4>1 DEF DocRow
      <4>3. doc' = Flush(api.snap, [api.snap EXCEPT !.status = "queued", !.progress = 0,
                                                    !.latch = FALSE])
        BY <1>6 DEF ReprocessCommit
      <4>4. doc'.latch = doc.latch
        BY <4>2, <4>3, FlushKeepsLatch
      <4>5. armings' = armings
        BY <1>6, <3>3 DEF ReprocessCommit
      <4>. QED
        BY <2>1, <4>4, <4>5 DEF Numbered
    <3>. QED
      BY <3>2, <3>3
  <2>5. LiveNumbered'
    BY <1>a, <2>1, <2>2, <2>4, RequestNumbered
  <2>. QED
    BY <1>b, <2>1, <2>3, <2>5 DEF OnceInv, InsertedFirst
<1>7. CASE DeleteDocument
  <2>1. /\ api.pc = "ready" /\ api'.pc = "gone" /\ api'.nth = api.nth
        /\ UNCHANGED <<queue, gen, armings>> /\ ~exists'
    BY <1>0, <1>7 DEF DeleteDocument
  <2>2. OwedByApi = {} /\ OwedByApi' = {}
    BY <2>1 DEF OwedByApi
  <2>3. LiveOnce'
    BY <1>a, <2>1, <2>2, RequestStep DEF OnceInv, LiveOnce
  <2>4. \A m \in Live : Numbered(m) => Numbered(m)'
    BY <2>1 DEF Numbered
  <2>5. LiveNumbered'
    BY <1>a, <2>1, <2>2, <2>4, RequestNumbered
  <2>. QED
    BY <1>b, <2>1, <2>3, <2>5 DEF OnceInv, InsertedFirst
<1>. QED
  BY <1>1, <1>2, <1>3, <1>4, <1>5, <1>6, <1>7 DEF Request

-----------------------------------------------------------------------------
(* Theorems *)

LEMMA InitOnce == Init => OnceInv
<1> SUFFICES ASSUME Init
             PROVE  OnceInv
  OBVIOUS
<1>1. TypeOK
  BY InitType
<1>2. \A w \in Worker : worker[w] = Idle
  BY DEF Init
<1>3. Idle.pc = "idle"
  BY DEF Idle
<1>4. \A w \in Worker : Held(w) = {} /\ Owed(w) = {} /\ InTask(w)
  BY <1>2, <1>3 DEF Held, Owed, InTask, DocPc, PagePc, FinalPc
<1>5. OwedByApi = {DocMsg(0)} /\ queue = {} /\ api.nth = 0 /\ ~exists
  BY DEF Init, OwedByApi
<1>6. LiveOnce
  BY <1>4, <1>5 DEF LiveOnce
<1>7. Live = {DocMsg(0)}
  BY <1>4, <1>5 DEF Live
<1>8. LiveNumbered
  BY <1>5, <1>7 DEF LiveNumbered, Numbered, DocMsg
<1>. QED
  BY <1>1, <1>4, <1>5, <1>6, <1>8 DEF OnceInv, InsertedFirst

LEMMA NextOnce == OnceInv /\ [Next]_vars => OnceInv'
<1> SUFFICES ASSUME OnceInv, [Next]_vars
             PROVE  OnceInv'
  OBVIOUS
<1>0. TypeOK'
  BY NextType DEF OnceInv
<1>1. CASE Request
  BY <1>0, <1>1, RequestOnce
<1>2. ASSUME NEW w \in Worker, TaskStep(w) \/ Failure(w)
      PROVE  OnceInv'
  <2>1. CASE Deliver(w) \/ Ack(w) \/ WorkerLost(w) \/ HardTimeout(w) \/ ExceptRaises(w)
    BY <1>0, <2>1, PoolOnce
  <2>2. CASE DocTask(w) \/ DocIngestRaises(w) \/ DocFanOutRaises(w)
    BY <1>0, <2>2, DocQuiet, QuietStep, ReplaceOnce, FanOutOnce DEF DocTask
  <2>3. CASE PageTask(w) \/ PageRaises(w) \/ PageTailRaises(w)
    BY <1>0, <2>3, PageQuiet, QuietStep, LatchOnce, EnqueueOnce DEF PageTask
  <2>4. CASE FinalTask(w) \/ FinalRaises(w)
    BY <1>0, <2>4, FinalQuiet, QuietStep
  <2>. QED
    BY <1>2, <2>1, <2>2, <2>3, <2>4 DEF TaskStep, Failure
<1>3. CASE UNCHANGED vars
  <2>1. OwedByApi' = OwedByApi /\ queue' = queue /\ worker' = worker
    BY <1>3 DEF OwedByApi, vars
  <2>2. \A v \in Worker : InTask(v)'
    BY <2>1, SameWorkers DEF OnceInv
  <2>3. LiveOnce'
    BY <2>1, RequestStep DEF OnceInv, LiveOnce
  <2>4. \A m \in Live : Numbered(m) => Numbered(m)'
    BY <1>3 DEF Numbered, vars
  <2>5. LiveNumbered'
    BY <2>1, <2>4, RequestNumbered
  <2>. QED
    BY <1>0, <1>3, <2>2, <2>3, <2>5 DEF OnceInv, InsertedFirst, vars
<1>. QED
  BY <1>1, <1>2, <1>3 DEF Next

\* No task is triggered twice: whatever crashes, is redelivered, times out or is
\* reprocessed, a message is at one place only, and the conditional UPDATE of
\* finalize_enqueued lets one page task enqueue finalize_document per arming.
THEOREM TriggeredOnce == Spec => []LiveOnce
<1>1. Spec => []OnceInv
  BY InitOnce, NextOnce, PTL DEF Spec
<1>2. OnceInv => LiveOnce
  BY DEF OnceInv
<1>. QED
  BY <1>1, <1>2, PTL

LEMMA InitBatch == Init => BatchInv
<1> SUFFICES ASSUME Init
             PROVE  BatchInv
  OBVIOUS
<1>1. questions = {} /\ \A w \in Worker : worker[w].pc = "idle"
  BY DEF Init, Idle
<1>. QED
  BY <1>1, InitOnce DEF BatchInv, OldSeen, OneBatchPerArming

\* Steps that write no questions and bring no worker to "save" keep both parts.
LEMMA BatchFrame ==
  ASSUME OldSeen, OneBatchPerArming, questions' \subseteq questions,
         \A w \in Worker : worker'[w].pc = "save" => worker'[w] = worker[w]
  PROVE  OldSeen' /\ OneBatchPerArming'
BY DEF OldSeen, OneBatchPerArming

LEMMA FinalMessage ==
  ASSUME OnceInv, NEW v \in Worker, NEW w \in Worker,
         worker[v].pc # "idle", worker[v].msg.task = "finalize_document",
         worker[w].pc # "idle", worker[w].msg.task = "finalize_document",
         worker[v].msg.run = worker[w].msg.run
  PROVE  worker[v].msg = worker[w].msg
<1>1. worker[v].msg \in Live /\ worker[w].msg \in Live
  BY DEF Live, Held
<1>2. worker[v].msg.page = 0 /\ worker[w].msg.page = 0
  BY <1>1 DEF OnceInv, LiveNumbered, Numbered
<1>3. worker[v].msg \in Message /\ worker[w].msg \in Message
  BY <1>1, LiveTyped DEF OnceInv
<1>. QED
  BY <1>2, <1>3 DEF Message

LEMMA SaveBatch ==
  ASSUME BatchInv, OnceInv', NEW w \in Worker, FinalSave(w)
  PROVE  OldSeen' /\ OneBatchPerArming'
<1>0. worker \in [Worker -> WorkerState]
  BY DEF BatchInv, OnceInv, TypeOK
<1>1. CASE exists
  <2> DEFINE b == BatchOf(w)
  <2>1. questions' = Surviving(w) \cup {b} /\ worker' = [worker EXCEPT ![w].pc = "notify"]
    BY <1>1 DEF FinalSave
  <2>2. b.arming = worker[w].msg.run
    BY DEF BatchOf
  <2>3. worker[w].pc = "save" /\ worker[w].msg.task = "finalize_document"
    BY DEF FinalSave, At
  <2>4. \A c \in Surviving(w) : c \in questions /\ c.arming # worker[w].msg.run
    BY <2>3 DEF BatchInv, OldSeen, Surviving
  <2>5. OneBatchPerArming'
    BY <2>1, <2>2, <2>4 DEF BatchInv, OneBatchPerArming
  <2>6. OldSeen'
    <3>1. worker'[w].pc # "save"
      BY <1>0, <2>1 DEF WorkerState
    <3>2. ASSUME NEW v \in Worker, v # w, worker'[v].pc = "save"
          PROVE  \A c \in questions' : c.arming = worker'[v].msg.run => c \in worker'[v].old
      <4>1. worker'[v] = worker[v] /\ worker[v].pc = "save"
        BY <1>0, <2>1, <3>2
      <4>2. worker[v].msg.task = "finalize_document"
        BY <4>1 DEF BatchInv, OnceInv, InTask, FinalPc
      <4>3. worker[v].msg # worker[w].msg
        BY <2>3, <3>2, <4>1 DEF BatchInv, OnceInv, LiveOnce, Held
      <4>4. worker[v].msg.run # worker[w].msg.run
        BY <2>3, <4>1, <4>2, <4>3, FinalMessage DEF BatchInv
      <4>5. \A c \in questions : c.arming = worker[v].msg.run => c \in worker[v].old
        BY <4>1 DEF BatchInv, OldSeen
      <4>. QED
        BY <2>1, <2>2, <2>4, <4>1, <4>4, <4>5
    <3>. QED
      BY <3>1, <3>2 DEF OldSeen
  <2>. QED
    BY <2>5, <2>6
<1>2. CASE ~exists
  <2>1. questions' = questions /\ worker' = [worker EXCEPT ![w].pc = "final_except"]
    BY <1>2 DEF FinalSave
  <2>2. worker'[w].pc # "save" /\ \A v \in Worker \ {w} : worker'[v] = worker[v]
    BY <1>0, <2>1 DEF WorkerState
  <2>. QED
    BY <2>1, <2>2, BatchFrame DEF BatchInv
<1>. QED
  BY <1>1, <1>2

LEMMA DeleteBatch ==
  ASSUME BatchInv, NEW w \in Worker, FinalDelete(w)
  PROVE  OldSeen' /\ OneBatchPerArming'
<1>0. worker \in [Worker -> WorkerState]
  BY DEF BatchInv, OnceInv, TypeOK
<1>1. questions' = questions
  BY DEF FinalDelete, db, tables
<1>2. worker'[w].old = questions
  BY <1>0 DEF FinalDelete, WorkerState
<1>3. \A v \in Worker \ {w} : worker'[v] = worker[v]
  BY <1>0 DEF FinalDelete
<1>. QED
  BY <1>1, <1>2, <1>3 DEF BatchInv, OldSeen, OneBatchPerArming

\* Every other step writes no questions and takes no worker to "save".
LEMMA OtherBatch ==
  ASSUME BatchInv, NEW w \in Worker, TaskStep(w) \/ Failure(w), ~FinalSave(w), ~FinalDelete(w)
  PROVE  OldSeen' /\ OneBatchPerArming'
<1>0. worker \in [Worker -> WorkerState]
  BY DEF BatchInv, OnceInv, TypeOK
<1>1. questions' = questions
  BY DEF TaskStep, Failure, DocTask, PageTask, FinalTask,
         db, tables, Deliver, Ack, WorkerLost, HardTimeout, ExceptRaises,
         DocStart, DocIngest, DocReplacePages, DocFanOut, DocExcept, DocIngestRaises,
         DocFanOutRaises, PageStart, PageCommit, PageExcept, PageCountRemaining, PageLatch,
         PageEnqueueFinal, PageRaises, PageTailRaises, FinalStart, FinalStitch, FinalNotify,
         FinalExcept, FinalRaises
<1>2. Idle.pc = "idle" /\ Returning(w).pc = "return"
  BY DEF Idle, Returning
<1>b. ASSUME worker'[w].pc # "save", \A v \in Worker \ {w} : worker'[v] = worker[v]
      PROVE  OldSeen' /\ OneBatchPerArming'
  BY <1>1, <1>b, BatchFrame DEF BatchInv
<1>3. CASE Deliver(w) \/ Ack(w) \/ WorkerLost(w) \/ HardTimeout(w) \/ ExceptRaises(w)
  <2>1. worker'[w].pc # "save" /\ \A v \in Worker \ {w} : worker'[v] = worker[v]
    BY <1>0, <1>2, <1>3 DEF Deliver, Ack, WorkerLost, HardTimeout, ExceptRaises, Idle
  <2>. QED
    BY <1>b, <2>1
<1>4. CASE DocTask(w) \/ DocIngestRaises(w) \/ DocFanOutRaises(w)
  <2>1. worker[w].msg.task = "process_document" /\ worker[w].pc # "save"
    BY <1>4 DEF DocTask, DocStart, DocIngest, DocReplacePages, DocFanOut, DocExcept,
                DocIngestRaises, DocFanOutRaises, At
  <2>2. CASE DocFanOut(w)
    BY <1>0, <1>2, <1>b, <2>1, <2>2 DEF DocFanOut, WorkerState
  <2>3. CASE DocReplacePages(w)
    BY <1>0, <1>b, <2>3 DEF DocReplacePages, WorkerState
  <2>4. CASE DocStart(w) \/ DocIngest(w) \/ DocExcept(w) \/ DocIngestRaises(w) \/ DocFanOutRaises(w)
    <3>1. Quiet(w)
      BY <2>4, DocQuiet DEF BatchInv
    <3>2. worker'[w].pc # "save"
      <4>1. worker'[w].pc # "idle" => worker'[w].msg.task = "process_document"
        BY <2>1, <3>1 DEF Quiet
      <4>. QED
        BY <3>1, <4>1 DEF Quiet, InTask, FinalPc
    <3>. QED
      BY <1>b, <3>1, <3>2 DEF Quiet
  <2>. QED
    BY <1>4, <2>2, <2>3, <2>4 DEF DocTask
<1>5. CASE PageTask(w) \/ PageRaises(w) \/ PageTailRaises(w)
  <2>1. worker[w].msg.task = "process_page"
    BY <1>5 DEF PageTask, PageStart, PageCommit, PageExcept, PageCountRemaining, PageLatch,
                PageEnqueueFinal, PageRaises, PageTailRaises, At
  <2>2. CASE PageEnqueueFinal(w)
    BY <1>0, <1>2, <1>b, <2>2 DEF PageEnqueueFinal
  <2>3. CASE PageLatch(w) /\ LatchIsFree
    BY <1>0, <1>b, <2>3 DEF PageLatch, WorkerState
  <2>4. CASE ~PageEnqueueFinal(w) /\ ~(PageLatch(w) /\ LatchIsFree)
    <3>1. Quiet(w)
      BY <1>5, <2>4, PageQuiet DEF BatchInv, PageTask
    <3>2. worker'[w].pc # "save"
      <4>1. worker'[w].pc # "idle" => worker'[w].msg.task = "process_page"
        BY <2>1, <3>1 DEF Quiet
      <4>. QED
        BY <3>1, <4>1 DEF Quiet, InTask, FinalPc
    <3>. QED
      BY <1>b, <3>1, <3>2 DEF Quiet
  <2>. QED
    BY <2>2, <2>3, <2>4
<1>6. CASE FinalTask(w) \/ FinalRaises(w)
  <2>1. CASE FinalStart(w)
    BY <1>0, <1>2, <1>b, <2>1 DEF FinalStart, WorkerState
  <2>2. CASE FinalStitch(w)
    BY <1>0, <1>b, <2>2 DEF FinalStitch, WorkerState
  <2>3. CASE FinalNotify(w) \/ FinalExcept(w)
    BY <1>0, <1>2, <1>b, <2>3 DEF FinalNotify, FinalExcept
  <2>4. CASE FinalRaises(w)
    BY <1>0, <1>b, <2>4 DEF FinalRaises, WorkerState
  <2>. QED
    BY <1>6, <2>1, <2>2, <2>3, <2>4 DEF FinalTask
<1>. QED
  BY <1>3, <1>4, <1>5, <1>6 DEF TaskStep, Failure

LEMMA NextBatch == BatchInv /\ [Next]_vars => BatchInv'
<1> SUFFICES ASSUME BatchInv, [Next]_vars
             PROVE  BatchInv'
  OBVIOUS
<1>0. OnceInv'
  BY NextOnce DEF BatchInv
<1>1. CASE Request
  <2>1. worker' = worker /\ questions' \subseteq questions
    BY <1>1 DEF Request, UploadEnqueue, UploadUnavailable, UploadInsert, UploadRejected,
                ReprocessLoad, ReprocessCommit, ReprocessEnqueue, ReprocessUnavailable,
                DeleteDocument, ApiLost, db, tables
  <2>. QED
    BY <1>0, <2>1, BatchFrame DEF BatchInv
<1>2. ASSUME NEW w \in Worker, TaskStep(w) \/ Failure(w)
      PROVE  BatchInv'
  BY <1>0, <1>2, SaveBatch, DeleteBatch, OtherBatch DEF BatchInv
<1>3. CASE UNCHANGED vars
  BY <1>0, <1>3, BatchFrame DEF BatchInv, vars
<1>. QED
  BY <1>1, <1>2, <1>3 DEF Next

\* The delete-and-rebuild of finalize_document is idempotent per arming of the
\* latch: redelivered after any of its steps, it leaves one batch of questions.
THEOREM RebuiltOnce == Spec => []OneBatchPerArming
<1>1. Spec => []BatchInv
  BY InitBatch, NextBatch, PTL DEF Spec
<1>2. BatchInv => OneBatchPerArming
  BY DEF BatchInv
<1>. QED
  BY <1>1, <1>2, PTL

-----------------------------------------------------------------------------
(* No page is lost, and no last page is missed *)

(***************************************************************************)
(* NoOrphanPage counts every live process_document message as an excuse,   *)
(* one whose task has already returned too: that task is no help, and the  *)
(* property is not inductive.  The excuses that are: a task that has yet   *)
(* to replace the pages or to mark the document failed, a fan-out that has *)
(* yet to send the message of this page, and a task of this page, or of    *)
(* the ingestion, that was cut short for good.                             *)
(***************************************************************************)
Settles(w, n) ==
  /\ worker[w].msg.task = "process_page" /\ worker[w].msg.page = n
  /\ worker[w].pc \in {"start", "extract", "page_except"}
Covered(n) ==
  \/ \E m \in queue : m.task = "process_page" /\ m.page = n
  \/ \E w \in Worker : Settles(w, n)

WillReplace(w) ==
  /\ worker[w].msg.task = "process_document"
  /\ worker[w].pc \in {"start", "ingest", "replace", "doc_except"}
ToBeReplaced ==
  \/ \E m \in queue : m.task = "process_document"
  \/ \E w \in Worker : WillReplace(w)

WillSend(w, n) == worker[w].pc = "fanout" /\ worker[w].row = gen /\ worker[w].next <= n
ToBeSent(n) == \E w \in Worker : WillSend(w, n)

CutShort(n) ==
  \E m \in abandoned : m.task = "process_document" \/ (m.task = "process_page" /\ m.page = n)

Owned(n) == Covered(n) \/ ToBeReplaced \/ ToBeSent(n) \/ CutShort(n)

InProcess == exists /\ gen > 0 /\ doc.status = "processing"

NoPageLost == InProcess => \A n \in PageNo : pages[n].status \in TerminalPage \/ Owned(n)
FromOne == \A w \in Worker : worker[w].pc = "fanout" => worker[w].next >= 1
PagesInv == OnceInv /\ FromOne /\ NoPageLost

(***************************************************************************)
(* LastPageIsNoticed: who will count, once there is nothing left to settle.*)
(***************************************************************************)
WillCount(w) ==
  /\ worker[w].msg.task = "process_page"
  /\ worker[w].pc \in {"start", "extract", "page_except", "count", "latch"}
ToBeCounted ==
  \/ \E m \in queue : m.task = "process_page"
  \/ \E w \in Worker : WillCount(w)

\* The request that has reset the latch will send its message.
NoRequestLost == MaxReprocess = 0 \/ FaultKind \cap {"outage", "api"} = {}

CountCutShort == \E m \in abandoned : m.task # "finalize_document"
Awaited == \/ ToBeCounted \/ ToBeReplaced \/ ToBeSent(PageCount) \/ CountCutShort
           \/ api.pc = "requeue"
Noticed == InProcess /\ ~doc.latch => Awaited
Reprocessing == api.pc \in {"reset", "requeue"} => MaxReprocess # 0
CountInv == PagesInv /\ Noticed /\ Reprocessing

-----------------------------------------------------------------------------
(* Frames: what a step must not take away *)

\* What keeps the documents row from newly asking for owners: only DocStart, of
\* the tasks and requests, makes a row processing.
StillInProcess ==
  /\ exists' => exists
  /\ gen' = gen
  /\ doc'.status = "processing" => doc.status = "processing"
  /\ abandoned \subseteq abandoned'

LEMMA FlushKeepsStatus ==
  ASSUME NEW snap, NEW new, new.status = snap.status \/ new.status # "processing",
         Flush(snap, new).status = "processing"
  PROVE  doc.status = "processing"
BY DEF Flush

LEMMA InProcessBefore ==
  ASSUME TypeOK, StillInProcess, InProcess'
  PROVE  InProcess
BY DEF TypeOK, StillInProcess, InProcess

\* A step of w that leaves the other workers and the queued messages alone takes
\* a page's owner away only if that is w.
LEMMA OwnerStays ==
  ASSUME NEW w \in Worker, NEW n,
         \A v \in Worker \ {w} : worker'[v] = worker[v],
         queue \subseteq queue', gen' = gen, abandoned \subseteq abandoned',
         Owned(n), ~Settles(w, n), ~WillReplace(w), ~WillSend(w, n)
  PROVE  Owned(n)'
<1>1. \A v \in Worker \ {w} : /\ Settles(v, n) => Settles(v, n)'
                              /\ WillReplace(v) => WillReplace(v)'
                              /\ WillSend(v, n) => WillSend(v, n)'
  BY DEF Settles, WillReplace, WillSend
<1>2. Covered(n) => Covered(n)'
  BY <1>1 DEF Covered
<1>3. ToBeReplaced => ToBeReplaced'
  BY <1>1 DEF ToBeReplaced
<1>4. ToBeSent(n) => ToBeSent(n)'
  BY <1>1 DEF ToBeSent
<1>. QED
  BY <1>2, <1>3, <1>4 DEF Owned, CutShort

\* A step by which w, if it owned a page, settles it or hands it on.
LEMMA HandOn ==
  ASSUME PagesInv, NEW w \in Worker, StillInProcess,
         \A v \in Worker \ {w} : worker'[v] = worker[v],
         queue \subseteq queue',
         \A n \in PageNo : pages[n].status \in TerminalPage =>
                             pages'[n].status \in TerminalPage \/ Owned(n)',
         InProcess' => \A n \in PageNo : Settles(w, n) \/ WillReplace(w) \/ WillSend(w, n) =>
                             pages'[n].status \in TerminalPage \/ Owned(n)'
  PROVE  NoPageLost'
<1> SUFFICES ASSUME InProcess', NEW n \in PageNo
             PROVE  pages'[n].status \in TerminalPage \/ Owned(n)'
  BY DEF NoPageLost
<1>1. InProcess
  BY InProcessBefore DEF PagesInv, OnceInv
<1>2. pages[n].status \in TerminalPage \/ Owned(n)
  BY <1>1 DEF PagesInv, NoPageLost
<1>3. CASE Owned(n) /\ ~Settles(w, n) /\ ~WillReplace(w) /\ ~WillSend(w, n)
  BY <1>3, OwnerStays DEF StillInProcess
<1>. QED
  BY <1>2, <1>3

\* A step of a worker that owns nothing.
LEMMA Bystander ==
  ASSUME PagesInv, NEW w \in Worker, StillInProcess,
         \A v \in Worker \ {w} : worker'[v] = worker[v],
         queue \subseteq queue', pages' = pages,
         \/ worker[w].msg.task = "finalize_document" /\ worker[w].pc # "fanout"
         \/ worker[w].pc \in {"return", "count", "latch", "enqueue"}
  PROVE  NoPageLost'
<1>1. \A n \in PageNo : ~Settles(w, n) /\ ~WillReplace(w) /\ ~WillSend(w, n)
  BY DEF Settles, WillReplace, WillSend
<1>. QED
  BY <1>1, HandOn

LEMMA FromOneStep ==
  ASSUME FromOne, NEW w \in Worker,
         \A v \in Worker \ {w} : worker'[v] = worker[v],
         worker'[w].pc = "fanout" => worker'[w].next >= 1
  PROVE  FromOne'
BY DEF FromOne

-----------------------------------------------------------------------------
(* The steps *)

LEMMA PoolPages ==
  ASSUME PagesInv, NEW w \in Worker,
         Deliver(w) \/ Ack(w) \/ WorkerLost(w) \/ HardTimeout(w) \/ ExceptRaises(w)
  PROVE  FromOne' /\ NoPageLost'
<1>0. worker \in [Worker -> WorkerState] /\ faults \in Nat
  BY DEF PagesInv, OnceInv, TypeOK
<1>1. \A v \in Worker \ {w} : worker'[v] = worker[v]
  BY <1>0 DEF Deliver, Ack, WorkerLost, HardTimeout, ExceptRaises
<1>2. FromOne'
  <2>1. CASE Deliver(w)
    <3>1. PICK m \in queue : worker' = [worker EXCEPT ![w] = [Idle EXCEPT !.pc = "start", !.msg = m]]
      BY <2>1 DEF Deliver
    <3>. QED
      BY <1>0, <1>1, <3>1, FromOneStep DEF PagesInv, Idle
  <2>2. CASE WorkerLost(w)
    <3>1. worker'[w] = Idle
      BY <1>0, <2>2 DEF WorkerLost
    <3>. QED
      BY <1>1, <3>1, FromOneStep DEF PagesInv, Idle
  <2>3. CASE Ack(w) \/ HardTimeout(w) \/ ExceptRaises(w)
    BY <1>1, <2>3, LeavingQuiet, FromOneStep DEF PagesInv
  <2>. QED
    BY <2>1, <2>2, <2>3
<1>3. CASE Deliver(w)
  <2>1. PICK m \in queue :
          /\ queue' = queue \ {m}
          /\ worker' = [worker EXCEPT ![w] = [Idle EXCEPT !.pc = "start", !.msg = m]]
    BY <1>3 DEF Deliver
  <2>2. worker'[w].pc = "start" /\ worker'[w].msg = m /\ worker[w].pc = "idle"
    BY <1>0, <1>3, <2>1 DEF Idle, Deliver
  <2>3. UNCHANGED <<db, api, armings, faults>>
    BY <1>3 DEF Deliver
  <2>4. ASSUME NEW n \in PageNo, Owned(n)
        PROVE  Owned(n)'
    <3>1. \A v \in Worker : /\ Settles(v, n) => Settles(v, n)'
                            /\ WillReplace(v) => WillReplace(v)'
                            /\ WillSend(v, n) => WillSend(v, n)'
      BY <1>1, <2>2, <2>3 DEF Settles, WillReplace, WillSend, db, tables
    <3>2. m.task = "process_page" /\ m.page = n => Settles(w, n)'
      BY <2>2 DEF Settles
    <3>3. m.task = "process_document" => WillReplace(w)'
      BY <2>2 DEF WillReplace
    <3>4. Covered(n) => Covered(n)'
      BY <2>1, <3>1, <3>2 DEF Covered
    <3>5. ToBeReplaced => ToBeReplaced'
      BY <2>1, <3>1, <3>3 DEF ToBeReplaced
    <3>6. ToBeSent(n) => ToBeSent(n)'
      BY <3>1 DEF ToBeSent
    <3>. QED
      BY <2>3, <2>4, <3>4, <3>5, <3>6 DEF Owned, CutShort, db
  <2>5. InProcess' => InProcess
    BY <2>3 DEF InProcess, db, tables
  <2>6. pages' = pages
    BY <2>3 DEF db, tables
  <2>. QED
    BY <1>2, <2>4, <2>5, <2>6 DEF PagesInv, NoPageLost
<1>4. CASE Ack(w)
  <2>1. StillInProcess /\ queue' = queue /\ pages' = pages
    BY <1>0, <1>4 DEF Ack, db, tables, StillInProcess
  <2>. QED
    BY <1>1, <1>2, <1>4, <2>1, Bystander DEF Ack
<1>5. CASE WorkerLost(w)
  <2>1. StillInProcess /\ queue' = queue \cup {worker[w].msg} /\ pages' = pages
    BY <1>0, <1>5 DEF WorkerLost, Fault, db, tables, StillInProcess
  <2>2. ASSUME NEW n \in PageNo, Settles(w, n) \/ WillReplace(w) \/ WillSend(w, n)
        PROVE  Owned(n)'
    <3>1. CASE Settles(w, n)
      BY <2>1, <3>1 DEF Settles, Owned, Covered
    <3>2. CASE WillReplace(w)
      BY <2>1, <3>2 DEF WillReplace, Owned, ToBeReplaced
    <3>3. CASE WillSend(w, n)
      <4>1. worker[w].msg.task = "process_document"
        BY <3>3 DEF WillSend, PagesInv, OnceInv, InTask, DocPc
      <4>. QED
        BY <2>1, <4>1 DEF Owned, ToBeReplaced
    <3>. QED
      BY <2>2, <3>1, <3>2, <3>3
  <2>3. NoPageLost'
    BY <1>1, <2>1, <2>2, HandOn
  <2>. QED
    BY <1>2, <2>3
\* A task that is not run again leaves its page to the history of those.
<1>6. CASE HardTimeout(w) \/ ExceptRaises(w)
  <2>1. queue' = queue /\ pages' = pages
    BY <1>6 DEF HardTimeout, ExceptRaises, tables
  <2>2. StillInProcess
    BY <1>6 DEF HardTimeout, ExceptRaises, Abandon, tables, StillInProcess
  <2>3. CASE worker[w].pc = "return"
    BY <1>1, <1>2, <2>1, <2>2, <2>3, Bystander
  <2>4. CASE worker[w].pc # "return"
    <3>1. worker[w].msg \in abandoned'
      BY <1>6, <2>4 DEF HardTimeout, ExceptRaises, Abandon
    <3>2. ASSUME NEW n \in PageNo, Settles(w, n) \/ WillReplace(w) \/ WillSend(w, n)
          PROVE  CutShort(n)'
      <4>1. WillSend(w, n) => worker[w].msg.task = "process_document"
        BY DEF WillSend, PagesInv, OnceInv, InTask, DocPc
      <4>2. \/ worker[w].msg.task = "process_document"
            \/ worker[w].msg.task = "process_page" /\ worker[w].msg.page = n
        BY <3>2, <4>1 DEF Settles, WillReplace
      <4>. QED
        BY <3>1, <4>2 DEF CutShort
    <3>3. \A n \in PageNo : Settles(w, n) \/ WillReplace(w) \/ WillSend(w, n) => Owned(n)'
      BY <3>2 DEF Owned
    <3>4. /\ queue \subseteq queue'
          /\ \A n \in PageNo :
               pages[n].status \in TerminalPage => pages'[n].status \in TerminalPage \/ Owned(n)'
      BY <2>1
    <3>5. NoPageLost'
      BY <1>1, <2>2, <3>3, <3>4, HandOn
    <3>. QED
      BY <1>2, <3>5
  <2>. QED
    BY <2>3, <2>4
<1>. QED
  BY <1>3, <1>4, <1>5, <1>6

\* A task that has not replaced the pages yet goes on to, or to its except block.
LEMMA StillReplaces ==
  ASSUME PagesInv, NEW w \in Worker,
         DocStart(w) \/ DocIngest(w) \/ DocIngestRaises(w) \/ DocFanOutRaises(w)
  PROVE  exists => WillReplace(w)'
<1>0. worker \in [Worker -> WorkerState]
  BY DEF PagesInv, OnceInv, TypeOK
<1>1. CASE DocStart(w)
  <2>1. CASE exists
    <3>1. worker' = [worker EXCEPT ![w].pc = "ingest",
                       ![w].snap = [doc EXCEPT !.status = "processing", !.progress = 10]]
      BY <1>1, <2>1 DEF DocStart
    <3>2. worker'[w].pc = "ingest" /\ worker'[w].msg = worker[w].msg
      BY <1>0, <3>1 DEF WorkerState
    <3>. QED
      BY <1>1, <3>2 DEF DocStart, At, WillReplace
  <2>. QED
    BY <2>1
<1>2. CASE DocIngest(w)
  <2>1. worker'[w].pc = "replace" /\ worker'[w].msg = worker[w].msg
    BY <1>0, <1>2 DEF DocIngest, WorkerState
  <2>. QED
    BY <1>2, <2>1 DEF DocIngest, At, WillReplace
<1>3. CASE DocIngestRaises(w) \/ DocFanOutRaises(w)
  <2>1. worker'[w].pc = "doc_except" /\ worker'[w].msg = worker[w].msg
    BY <1>0, <1>3 DEF DocIngestRaises, DocFanOutRaises, WorkerState
  <2>. QED
    BY <1>3, <2>1 DEF DocIngestRaises, DocFanOutRaises, At, WillReplace
<1>. QED
  BY <1>1, <1>2, <1>3

\* The document an except block has failed asks for no owners.
LEMMA DocFailed ==
  ASSUME TypeOK, NEW w \in Worker, DocExcept(w)
  PROVE  ~InProcess'
<1>1. exists' => doc'.status # "processing"
  BY DEF DocExcept, DocRow, TypeOK
<1>. QED
  BY <1>1 DEF InProcess

LEMMA DocPages ==
  ASSUME PagesInv, NEW w \in Worker,
         DocStart(w) \/ DocIngest(w) \/ DocExcept(w) \/ DocIngestRaises(w) \/ DocFanOutRaises(w)
  PROVE  FromOne' /\ NoPageLost'
<1>1. Quiet(w)
  BY DocQuiet DEF PagesInv
<1>2. FromOne'
  BY <1>1, FromOneStep DEF PagesInv, Quiet
<1>3. CASE DocExcept(w)
  BY <1>2, <1>3, DocFailed DEF NoPageLost, PagesInv, OnceInv
<1>4. CASE ~DocExcept(w)
  <2>1. \A n \in PageNo : exists => Owned(n)'
    BY <1>4, StillReplaces DEF Owned, ToBeReplaced
  <2>. QED
    BY <1>1, <1>2, <2>1 DEF NoPageLost, InProcess, Quiet
<1>. QED
  BY <1>3, <1>4

LEMMA ReplacerOwnsAll ==
  ASSUME PagesInv, NEW w \in Worker, DocReplacePages(w)
  PROVE  /\ WillReplace(w)' \/ \A n \in PageNo : WillSend(w, n)'
         /\ FromOne'
<1>0. worker \in [Worker -> WorkerState] /\ gen \in Nat
  BY DEF PagesInv, OnceInv, TypeOK
<1>1. CASE worker' = [worker EXCEPT ![w].pc = "doc_except"] /\ UNCHANGED <<doc, gen, pages>>
  <2>1. worker'[w].pc = "doc_except" /\ worker'[w].msg = worker[w].msg
    BY <1>0, <1>1 DEF WorkerState
  <2>2. WillReplace(w)'
    BY <2>1 DEF DocReplacePages, At, WillReplace
  <2>. QED
    BY <1>0, <1>1, <2>1, <2>2, FromOneStep DEF PagesInv
<1>2. CASE ~(worker' = [worker EXCEPT ![w].pc = "doc_except"] /\ UNCHANGED <<doc, gen, pages>>)
  <2>1. /\ worker' = [worker EXCEPT ![w].pc = "fanout", ![w].snap = NewDoc,
                                    ![w].row = gen + 1, ![w].next = 1]
        /\ gen' = gen + 1
    BY <1>2 DEF DocReplacePages
  <2>2. /\ worker'[w] = [worker[w] EXCEPT !.pc = "fanout", !.snap = NewDoc,
                                          !.row = gen + 1, !.next = 1]
        /\ worker[w] \in WorkerState
    BY <1>0, <2>1
  <2>3. worker'[w].pc = "fanout" /\ worker'[w].row = gen + 1 /\ worker'[w].next = 1
    BY <2>2 DEF WorkerState
  <2>4. \A n \in PageNo : WillSend(w, n)'
    BY <2>1, <2>3 DEF WillSend, PageNo
  <2>. QED
    BY <1>0, <2>1, <2>3, <2>4, FromOneStep DEF PagesInv
<1>. QED
  BY <1>1, <1>2

LEMMA ReplacePages ==
  ASSUME PagesInv, NEW w \in Worker, DocReplacePages(w)
  PROVE  FromOne' /\ NoPageLost'
<1>1. \A n \in PageNo : Owned(n)'
  BY ReplacerOwnsAll DEF Owned, ToBeReplaced, ToBeSent
<1>. QED
  BY <1>1, ReplacerOwnsAll DEF NoPageLost

\* The message of a page that is still to be sent is sent, or is still to be sent.
LEMMA SenderHandsOn ==
  ASSUME PagesInv, NEW w \in Worker, DocFanOut(w), NEW n \in PageNo, WillSend(w, n)
  PROVE  Owned(n)'
<1>0. worker \in [Worker -> WorkerState]
  BY DEF PagesInv, OnceInv, TypeOK
<1>1. worker[w].pc = "fanout" /\ worker[w].next \in Nat /\ worker[w].next >= 1
  BY <1>0 DEF DocFanOut, At, PagesInv, FromOne, WorkerState
<1>2. worker[w].next \in PageNo
  BY <1>1, PageCountAssumption DEF WillSend, PageNo
<1>3. /\ queue' = queue \cup {PageMsg(worker[w].next, worker[w].row)}
      /\ worker' = [worker EXCEPT ![w].next = @ + 1]
      /\ gen' = gen
  BY <1>2 DEF DocFanOut, db, tables
<1>4. CASE n = worker[w].next
  <2>1. PageMsg(n, worker[w].row) \in queue'
    BY <1>3, <1>4
  <2>2. PageMsg(n, worker[w].row).task = "process_page" /\ PageMsg(n, worker[w].row).page = n
    BY DEF PageMsg
  <2>. QED
    BY <2>1, <2>2 DEF Owned, Covered
<1>5. CASE n # worker[w].next
  <2>1. worker[w].next + 1 <= n
    BY <1>1, <1>5, ConstantTypes DEF WillSend
  <2>2. /\ worker'[w].pc = "fanout" /\ worker'[w].row = worker[w].row
        /\ worker'[w].next = worker[w].next + 1
    BY <1>0, <1>1, <1>3 DEF WorkerState
  <2>3. WillSend(w, n)'
    BY <1>3, <2>1, <2>2 DEF WillSend
  <2>. QED
    BY <2>3 DEF Owned, ToBeSent
<1>. QED
  BY <1>4, <1>5

LEMMA FanOutPages ==
  ASSUME PagesInv, NEW w \in Worker, DocFanOut(w)
  PROVE  FromOne' /\ NoPageLost'
<1>0. worker \in [Worker -> WorkerState] /\ faults \in Nat
  BY DEF PagesInv, OnceInv, TypeOK
<1>1. StillInProcess /\ pages' = pages /\ queue \subseteq queue'
  BY <1>0 DEF DocFanOut, db, tables, StillInProcess
<1>2. \A v \in Worker \ {w} : worker'[v] = worker[v]
  BY <1>0 DEF DocFanOut
<1>3. worker[w].pc = "fanout" /\ worker[w].next \in Nat /\ worker[w].next >= 1
  BY <1>0 DEF DocFanOut, At, PagesInv, FromOne, WorkerState
<1>4. \A n \in PageNo : ~Settles(w, n) /\ ~WillReplace(w)
  BY <1>3 DEF Settles, WillReplace
<1>5. NoPageLost'
  BY <1>1, <1>2, <1>4, SenderHandsOn, HandOn
<1>6. worker'[w].pc = "fanout" => worker'[w].next >= 1
  <2>1. CASE worker[w].next \in PageNo
    <3>1. worker' = [worker EXCEPT ![w].next = @ + 1]
      BY <2>1 DEF DocFanOut
    <3>2. worker'[w].next = worker[w].next + 1
      BY <1>0, <3>1 DEF WorkerState
    <3>. QED
      BY <1>3, <3>2
  <2>2. CASE worker[w].next \notin PageNo
    BY <1>0, <2>2 DEF DocFanOut, Returning, Idle
  <2>. QED
    BY <2>1, <2>2
<1>. QED
  BY <1>2, <1>5, <1>6, FromOneStep DEF PagesInv

LEMMA PageStepPages ==
  ASSUME PagesInv, NEW w \in Worker,
         \/ PageStart(w) \/ PageCommit(w) \/ PageExcept(w) \/ PageCountRemaining(w)
         \/ PageRaises(w) \/ PageTailRaises(w) \/ PageLatch(w) \/ PageEnqueueFinal(w)
  PROVE  FromOne' /\ NoPageLost'
<1>0. worker \in [Worker -> WorkerState] /\ faults \in Nat /\ doc \in DocRow
      /\ pages \in [PageNo -> PageRow]
  BY DEF PagesInv, OnceInv, TypeOK
<1>1. \A v \in Worker \ {w} : worker'[v] = worker[v]
  BY <1>0 DEF PageStart, PageCommit, PageExcept, PageCountRemaining, PageRaises, PageTailRaises,
              PageLatch, PageEnqueueFinal
<1>2. /\ worker[w].msg.task = "process_page"
      /\ queue \subseteq queue' /\ exists' = exists /\ gen' = gen
  BY DEF PageStart, PageCommit, PageExcept, PageCountRemaining, PageRaises, PageTailRaises,
         PageLatch, PageEnqueueFinal, At, db, tables
<1>n. PICK n \in Nat : n = worker[w].msg.page
  BY <1>0 DEF WorkerState, Message
<1>3. \A k \in PageNo : k # n => ~Settles(w, k)
  BY <1>n DEF Settles
<1>4. \A k \in PageNo : ~WillReplace(w) /\ ~WillSend(w, k)
  BY <1>2 DEF WillReplace, WillSend, PagesInv, OnceInv, InTask, DocPc
<1>5. FromOne'
  <2>1. CASE \/ PageStart(w) \/ PageCommit(w) \/ PageExcept(w) \/ PageCountRemaining(w)
             \/ PageRaises(w) \/ PageTailRaises(w)
             \/ PageLatch(w) /\ ~LatchIsFree
    BY <1>1, <2>1, PageQuiet, FromOneStep DEF PagesInv, Quiet
  <2>2. CASE PageLatch(w) /\ LatchIsFree
    <3>1. worker' = [worker EXCEPT ![w].pc = "enqueue", ![w].arming = armings]
      BY <2>2 DEF PageLatch
    <3>2. worker'[w].pc = "enqueue"
      BY <1>0, <3>1 DEF WorkerState
    <3>. QED
      BY <1>1, <3>2, FromOneStep DEF PagesInv
  <2>3. CASE PageEnqueueFinal(w)
    <3>1. worker'[w].pc = "return"
      BY <1>0, <2>3 DEF PageEnqueueFinal, Returning, Idle
    <3>. QED
      BY <1>1, <3>1, FromOneStep DEF PagesInv
  <2>. QED
    BY <2>1, <2>2, <2>3
\* The page is settled, or w still has it to settle.
<1>6. ASSUME StillInProcess, \A k \in PageNo : k # n => pages'[k] = pages[k],
             InProcess' /\ n \in PageNo => pages'[n].status \in TerminalPage \/ Settles(w, n)'
      PROVE  NoPageLost'
  <2>1. InProcess' /\ n \in PageNo => pages'[n].status \in TerminalPage \/ Owned(n)'
    BY <1>6 DEF Owned, Covered
  <2>2. ASSUME InProcess', NEW k \in PageNo
        PROVE  pages'[k].status \in TerminalPage \/ Owned(k)'
    <3>1. CASE k = n
      BY <2>1, <2>2, <3>1
    <3>2. CASE k # n
      <4>1. InProcess
        BY <1>6, <2>2, InProcessBefore DEF PagesInv, OnceInv
      <4>2. pages[k].status \in TerminalPage \/ Owned(k)
        BY <4>1 DEF PagesInv, NoPageLost
      <4>3. CASE pages[k].status \in TerminalPage
        BY <1>6, <3>2, <4>3
      <4>4. CASE Owned(k)
        BY <1>1, <1>2, <1>3, <1>4, <1>6, <3>2, <4>4, OwnerStays DEF StillInProcess
      <4>. QED
        BY <4>2, <4>3, <4>4
    <3>. QED
      BY <3>1, <3>2
  <2>. QED
    BY <2>2 DEF NoPageLost
<1>7. CASE PageStart(w)
  <2>1. StillInProcess
    BY <1>0, <1>7 DEF PageStart, StillInProcess
  <2>2. CASE exists /\ gen > 0
    <3>1. /\ pages' = [pages EXCEPT ![n].status = "processing"]
          /\ worker' = [worker EXCEPT ![w].pc = "extract", ![w].row = gen, ![w].snap = doc]
      BY <1>7, <1>n, <2>2 DEF PageStart
    <3>2. worker'[w].pc = "extract" /\ worker'[w].msg = worker[w].msg
      BY <1>0, <3>1 DEF WorkerState
    <3>3. Settles(w, n)'
      BY <1>2, <1>n, <3>2 DEF Settles
    <3>4. \A k \in PageNo : k # n => pages'[k] = pages[k]
      BY <1>0, <3>1
    <3>. QED
      BY <1>5, <1>6, <2>1, <3>3, <3>4
  <2>3. CASE ~(exists /\ gen > 0)
    BY <1>2, <1>5, <2>3 DEF NoPageLost, InProcess
  <2>. QED
    BY <2>2, <2>3
<1>8. CASE PageCommit(w)
  <2>1. CASE RowsStand(w)
    <3>1. /\ pages' = [pages EXCEPT ![n] = [status |-> "completed", extracted |-> TRUE]]
          /\ doc' = Flush(worker[w].snap, Counted(worker[w].snap, n))
          /\ abandoned' = abandoned
      BY <1>8, <1>n, <2>1 DEF PageCommit
    <3>2. worker[w].snap \in DocRow
      BY <1>0 DEF WorkerState
    <3>3. Counted(worker[w].snap, n).status = worker[w].snap.status
      BY <3>2 DEF Counted, DocRow
    <3>4. doc'.status = "processing" => doc.status = "processing"
      BY <3>1, <3>3, FlushKeepsStatus
    <3>5. StillInProcess
      BY <1>0, <1>2, <3>1, <3>4 DEF StillInProcess
    <3>6. /\ n \in PageNo => pages'[n].status \in TerminalPage
          /\ \A k \in PageNo : k # n => pages'[k] = pages[k]
      BY <1>0, <3>1 DEF TerminalPage
    <3>. QED
      BY <1>5, <1>6, <3>5, <3>6
  <2>2. CASE ~RowsStand(w)
    <3>1. /\ UNCHANGED <<doc, pages, abandoned>>
          /\ worker' = [worker EXCEPT ![w].pc = "page_except"]
      BY <1>8, <2>2 DEF PageCommit
    <3>2. Settles(w, n)'
      BY <1>0, <1>2, <1>n, <3>1 DEF Settles, WorkerState
    <3>3. StillInProcess
      BY <1>0, <1>2, <3>1 DEF StillInProcess
    <3>. QED
      BY <1>5, <1>6, <3>1, <3>2, <3>3
  <2>. QED
    BY <2>1, <2>2
<1>9. CASE PageExcept(w)
  <2>1. StillInProcess
    BY <1>0, <1>9 DEF PageExcept, StillInProcess
  <2>2. CASE exists /\ gen > 0
    <3>1. pages' = [pages EXCEPT ![n].status = "failed"]
      BY <1>9, <1>n, <2>2 DEF PageExcept, AfterError
    <3>2. /\ n \in PageNo => pages'[n].status \in TerminalPage
          /\ \A k \in PageNo : k # n => pages'[k] = pages[k]
      BY <1>0, <3>1 DEF TerminalPage, PageRow
    <3>. QED
      BY <1>5, <1>6, <2>1, <3>2
  <2>3. CASE ~(exists /\ gen > 0)
    BY <1>2, <1>5, <2>3 DEF NoPageLost, InProcess
  <2>. QED
    BY <2>2, <2>3
<1>10. CASE PageRaises(w) \/ (PageTailRaises(w) /\ ~worker[w].failing)
  <2>1. /\ UNCHANGED <<doc, exists, gen, pages, abandoned>>
        /\ worker'[w].pc = "page_except" /\ worker'[w].msg = worker[w].msg
    BY <1>0, <1>10 DEF PageRaises, PageTailRaises, db, tables, WorkerState
  <2>2. StillInProcess /\ pages' = pages
    BY <1>0, <2>1 DEF StillInProcess
  <2>3. Settles(w, n)'
    BY <1>2, <1>n, <2>1 DEF Settles
  <2>. QED
    BY <1>5, <1>6, <2>2, <2>3
<1>11. CASE \/ PageCountRemaining(w) \/ PageLatch(w) \/ PageEnqueueFinal(w)
            \/ PageTailRaises(w) /\ worker[w].failing
  <2>1. /\ worker[w].pc \in {"count", "latch", "enqueue"}
        /\ UNCHANGED <<exists, gen, pages>> /\ abandoned \subseteq abandoned'
    BY <1>11 DEF PageCountRemaining, PageLatch, PageEnqueueFinal, PageTailRaises, Abandon, At,
                 db, tables
  <2>2. doc'.status = doc.status
    <3>1. CASE PageLatch(w) /\ LatchIsFree
      BY <1>0, <3>1 DEF PageLatch, DocRow
    <3>2. CASE ~(PageLatch(w) /\ LatchIsFree)
      BY <1>11, <3>2 DEF PageCountRemaining, PageLatch, PageEnqueueFinal, PageTailRaises, db, tables
    <3>. QED
      BY <3>1, <3>2
  <2>3. StillInProcess
    BY <1>0, <2>1, <2>2 DEF StillInProcess
  <2>. QED
    BY <1>1, <1>2, <1>5, <2>1, <2>3, Bystander
<1>. QED
  BY <1>7, <1>8, <1>9, <1>10, <1>11

\* finalize_document never puts a document into processing.
LEMMA FinalStillInProcess ==
  ASSUME PagesInv, NEW w \in Worker, FinalTask(w) \/ FinalRaises(w)
  PROVE  StillInProcess
<1>0. worker \in [Worker -> WorkerState] /\ faults \in Nat /\ doc \in DocRow
  BY DEF PagesInv, OnceInv, TypeOK
<1>1. Quiet(w)
  BY FinalQuiet DEF PagesInv
<1>4. abandoned' = abandoned
  BY DEF FinalTask, FinalStart, FinalStitch, FinalDelete, FinalSave, FinalNotify, FinalExcept,
         FinalRaises, db
<1>5. doc'.status = "processing" => doc.status = "processing"
  <2>1. CASE FinalStart(w)
    BY <1>0, <2>1 DEF FinalStart, DocRow
  <2>2. CASE FinalStitch(w) \/ FinalDelete(w) \/ FinalNotify(w) \/ FinalRaises(w)
    BY <2>2 DEF FinalStitch, FinalDelete, FinalNotify, FinalRaises, db, tables
  <2>3. CASE FinalExcept(w)
    BY <1>0, <2>3 DEF FinalExcept, DocRow
  <2>4. CASE FinalSave(w)
    <3>1. CASE exists
      <4>1. PICK h \in {FALSE} \cup {worker[w].view[n].extracted : n \in PageNo}, c \in BOOLEAN :
              doc' = Flush(worker[w].snap,
                           [worker[w].snap EXCEPT !.status = StatusOf(worker[w].view, h, c),
                                                  !.progress = 100, !.role = TRUE])
        BY <2>4, <3>1 DEF FinalSave
      <4>2. StatusOf(worker[w].view, h, c) # "processing"
        BY DEF StatusOf
      <4>3. worker[w].snap \in DocRow
        BY <1>0 DEF WorkerState
      <4>4. [worker[w].snap EXCEPT !.status = StatusOf(worker[w].view, h, c),
                                   !.progress = 100, !.role = TRUE].status # "processing"
        BY <4>2, <4>3 DEF DocRow
      <4>. QED
        BY <4>1, <4>4, FlushKeepsStatus
    <3>2. CASE ~exists
      BY <2>4, <3>2 DEF FinalSave
    <3>. QED
      BY <3>1, <3>2
  <2>. QED
    BY <2>1, <2>2, <2>3, <2>4 DEF FinalTask
<1>. QED
  BY <1>0, <1>1, <1>4, <1>5 DEF StillInProcess, Quiet

LEMMA FinalPages ==
  ASSUME PagesInv, NEW w \in Worker, FinalTask(w) \/ FinalRaises(w)
  PROVE  FromOne' /\ NoPageLost'
<1>1. Quiet(w)
  BY FinalQuiet DEF PagesInv
<1>2. FromOne'
  BY <1>1, FromOneStep DEF PagesInv, Quiet
<1>3. worker[w].msg.task = "finalize_document" /\ worker[w].pc # "fanout" /\ pages' = pages
  BY DEF FinalTask, FinalStart, FinalStitch, FinalDelete, FinalSave, FinalNotify, FinalExcept,
         FinalRaises, At, db, tables
<1>. QED
  BY <1>1, <1>2, <1>3, FinalStillInProcess, Bystander DEF Quiet

LEMMA RequestPages ==
  ASSUME PagesInv, Request
  PROVE  FromOne' /\ NoPageLost'
<1>0. faults \in Nat /\ api \in [pc: ApiPc, snap: DocRow, nth: Nat]
  BY DEF PagesInv, OnceInv, TypeOK
<1>1. worker' = worker /\ queue \subseteq queue' /\ gen' = gen /\ abandoned' = abandoned
  BY DEF Request, UploadEnqueue, UploadUnavailable, UploadInsert, UploadRejected, ReprocessLoad,
         ReprocessCommit, ReprocessEnqueue, ReprocessUnavailable, DeleteDocument, ApiLost,
         db, tables
<1>2. FromOne'
  BY <1>1 DEF PagesInv, FromOne
<1>3. \A n \in PageNo : Owned(n) => Owned(n)'
  BY <1>1 DEF Owned, Covered, CutShort, ToBeReplaced, ToBeSent, Settles, WillReplace, WillSend
<1>4. ASSUME StillInProcess, pages' = pages
      PROVE  NoPageLost'
  BY <1>3, <1>4, InProcessBefore DEF NoPageLost, PagesInv, OnceInv
<1>5. CASE UploadInsert
  BY <1>2, <1>5 DEF UploadInsert, NewDoc, NoPageLost, InProcess
<1>6. CASE DeleteDocument
  BY <1>2, <1>6 DEF DeleteDocument, NoPageLost, InProcess
<1>7. CASE ReprocessCommit
  <2>1. [api.snap EXCEPT !.status = "queued", !.progress = 0, !.latch = FALSE].status = "queued"
    BY <1>0 DEF DocRow
  <2>2. doc'.status = "processing" => doc.status = "processing"
    BY <1>7, <2>1, FlushKeepsStatus DEF ReprocessCommit
  <2>3. StillInProcess /\ pages' = pages
    BY <1>0, <1>7, <2>2 DEF ReprocessCommit, StillInProcess
  <2>. QED
    BY <1>2, <1>4, <2>3
<1>8. CASE \/ UploadEnqueue \/ UploadUnavailable \/ UploadRejected \/ ReprocessLoad
           \/ ReprocessEnqueue \/ ReprocessUnavailable \/ ApiLost
  <2>1. StillInProcess /\ pages' = pages
    BY <1>0, <1>8 DEF UploadEnqueue, UploadUnavailable, UploadRejected, ReprocessLoad,
                      ReprocessEnqueue, ReprocessUnavailable, ApiLost, Fault,
                      db, tables, StillInProcess
  <2>. QED
    BY <1>2, <1>4, <2>1
<1>. QED
  BY <1>5, <1>6, <1>7, <1>8 DEF Request

-----------------------------------------------------------------------------
(* No page is orphaned *)

LEMMA InitPages == Init => PagesInv
<1> SUFFICES ASSUME Init
             PROVE  PagesInv
  OBVIOUS
<1>1. ~exists /\ \A w \in Worker : worker[w].pc = "idle"
  BY DEF Init, Idle
<1>. QED
  BY <1>1, InitOnce DEF PagesInv, FromOne, NoPageLost, InProcess

LEMMA NextPages == PagesInv /\ [Next]_vars => PagesInv'
<1> SUFFICES ASSUME PagesInv, [Next]_vars
             PROVE  PagesInv'
  OBVIOUS
<1>0. OnceInv'
  BY NextOnce DEF PagesInv
<1>1. CASE Request
  BY <1>0, <1>1, RequestPages DEF PagesInv
<1>2. ASSUME NEW w \in Worker, TaskStep(w) \/ Failure(w)
      PROVE  PagesInv'
  <2>1. FromOne' /\ NoPageLost'
    BY <1>2, PoolPages, DocPages, ReplacePages, FanOutPages, PageStepPages, FinalPages
       DEF TaskStep, Failure, DocTask, PageTask
  <2>. QED
    BY <1>0, <2>1 DEF PagesInv
<1>3. CASE UNCHANGED vars
  <2>1. FromOne' /\ NoPageLost'
    BY <1>3 DEF vars, PagesInv, FromOne, NoPageLost, InProcess, Owned, Covered, CutShort,
                ToBeReplaced, ToBeSent, Settles, WillReplace, WillSend
  <2>. QED
    BY <1>0, <2>1 DEF PagesInv
<1>. QED
  BY <1>1, <1>2, <1>3 DEF Next

LEMMA ReplacerIsLive == ToBeReplaced => LiveFor("process_document") # {}
<1> SUFFICES ASSUME ToBeReplaced
             PROVE  LiveFor("process_document") # {}
  OBVIOUS
<1>1. CASE \E m \in queue : m.task = "process_document"
  BY <1>1 DEF LiveFor, Live
<1>2. CASE \E w \in Worker : WillReplace(w)
  <2>1. PICK w \in Worker : WillReplace(w)
    BY <1>2
  <2>2. worker[w].msg \in Live
    BY <2>1 DEF WillReplace, Live, Held
  <2>. QED
    BY <2>1, <2>2 DEF WillReplace, LiveFor
<1>. QED
  BY <1>1, <1>2 DEF ToBeReplaced

LEMMA SenderIsLive ==
  ASSUME OnceInv, NEW n, ToBeSent(n)
  PROVE  LiveFor("process_document") # {}
<1>1. PICK w \in Worker : WillSend(w, n)
  BY DEF ToBeSent
<1>2. worker[w].msg \in Live /\ worker[w].msg.task = "process_document"
  BY <1>1 DEF WillSend, Live, Held, OnceInv, InTask, DocPc
<1>. QED
  BY <1>2 DEF LiveFor

\* process_document and process_page lose no page of a document in processing:
\* whatever raises, crashes, is redelivered or reprocessed, one that is not
\* terminal has a task that will settle it, unless a task of that very page or
\* the one that ingested the document was cut short for good: it ran into the
\* hard time limit, or its except block raised as well.
THEOREM NoPageOrphaned == Spec => []NoOrphanPage
<1>1. Spec => []PagesInv
  BY InitPages, NextPages, PTL DEF Spec
<1>2. PagesInv => NoOrphanPage
  <2> SUFFICES ASSUME PagesInv, InProcess, NEW n \in PageNo, pages[n].status \notin TerminalPage
               PROVE  \/ LiveFor("process_document") # {}
                      \/ \E m \in queue : m.task = "process_page" /\ m.page = n
                      \/ \E w \in Worker : /\ worker[w].pc \in {"start", "extract", "page_except"}
                                           /\ worker[w].msg.task = "process_page"
                                           /\ worker[w].msg.page = n
                      \/ CutShort(n)
    BY DEF NoOrphanPage, InProcess, CutShort
  <2>1. Covered(n) \/ ToBeReplaced \/ ToBeSent(n) \/ CutShort(n)
    BY DEF PagesInv, NoPageLost, Owned
  <2>2. CASE Covered(n)
    BY <2>2 DEF Covered, Settles
  <2>3. CASE ToBeReplaced \/ ToBeSent(n)
    BY <2>3, ReplacerIsLive, SenderIsLive DEF PagesInv
  <2>. QED
    BY <2>1, <2>2, <2>3
<1>. QED
  BY <1>1, <1>2, PTL

-----------------------------------------------------------------------------
(* The last page is noticed *)

LEMMA LastIsAPage == PageCount \in PageNo
BY PageCountAssumption DEF PageNo

\* A step of w in which what awaits the last page can go away only with w.
LEMMA AwaitedStep ==
  ASSUME CountInv, NEW w \in Worker, StillInProcess,
         ~doc'.latch => ~doc.latch, api' = api,
         \A v \in Worker \ {w} : worker'[v] = worker[v],
         queue \subseteq queue',
         InProcess' /\ ~doc'.latch
           => (WillCount(w) \/ WillReplace(w) \/ WillSend(w, PageCount) => Awaited')
  PROVE  Noticed'
<1> SUFFICES ASSUME InProcess', ~doc'.latch
             PROVE  Awaited'
  BY DEF Noticed
<1>1. Awaited
  BY InProcessBefore DEF CountInv, Noticed, PagesInv, OnceInv
<1>2. \A v \in Worker \ {w} : /\ WillCount(v) => WillCount(v)'
                              /\ WillReplace(v) => WillReplace(v)'
                              /\ WillSend(v, PageCount) => WillSend(v, PageCount)'
  BY DEF WillCount, WillReplace, WillSend, StillInProcess
<1>3. ~WillCount(w) => (ToBeCounted => ToBeCounted')
  BY <1>2 DEF ToBeCounted
<1>4. ~WillReplace(w) => (ToBeReplaced => ToBeReplaced')
  BY <1>2 DEF ToBeReplaced
<1>5. ~WillSend(w, PageCount) => (ToBeSent(PageCount) => ToBeSent(PageCount)')
  BY <1>2 DEF ToBeSent
<1>. QED
  BY <1>1, <1>3, <1>4, <1>5 DEF Awaited, CountCutShort, StillInProcess

LEMMA PoolNoticed ==
  ASSUME CountInv, NEW w \in Worker,
         Deliver(w) \/ Ack(w) \/ WorkerLost(w) \/ HardTimeout(w) \/ ExceptRaises(w)
  PROVE  Noticed'
<1>0. worker \in [Worker -> WorkerState] /\ faults \in Nat
  BY DEF CountInv, PagesInv, OnceInv, TypeOK
<1>1. \A v \in Worker \ {w} : worker'[v] = worker[v]
  BY <1>0 DEF Deliver, Ack, WorkerLost, HardTimeout, ExceptRaises
<1>2. CASE Deliver(w)
  <2>1. PICK m \in queue :
          /\ queue' = queue \ {m}
          /\ worker' = [worker EXCEPT ![w] = [Idle EXCEPT !.pc = "start", !.msg = m]]
    BY <1>2 DEF Deliver
  <2>2. worker'[w].pc = "start" /\ worker'[w].msg = m /\ worker[w].pc = "idle"
    BY <1>0, <1>2, <2>1 DEF Idle, Deliver
  <2>3. UNCHANGED <<db, api, armings, faults>>
    BY <1>2 DEF Deliver
  <2>4. \A v \in Worker : /\ WillCount(v) => WillCount(v)'
                          /\ WillReplace(v) => WillReplace(v)'
                          /\ WillSend(v, PageCount) => WillSend(v, PageCount)'
    BY <1>1, <2>2, <2>3 DEF WillCount, WillReplace, WillSend, db, tables
  <2>5. m.task = "process_page" => WillCount(w)'
    BY <2>2 DEF WillCount
  <2>6. m.task = "process_document" => WillReplace(w)'
    BY <2>2 DEF WillReplace
  <2>7. ToBeCounted => ToBeCounted'
    BY <2>1, <2>4, <2>5 DEF ToBeCounted
  <2>8. ToBeReplaced => ToBeReplaced'
    BY <2>1, <2>4, <2>6 DEF ToBeReplaced
  <2>9. ToBeSent(PageCount) => ToBeSent(PageCount)'
    BY <2>4 DEF ToBeSent
  <2>10. Awaited => Awaited'
    BY <2>3, <2>7, <2>8, <2>9 DEF Awaited, CountCutShort, db
  <2>11. InProcess' => InProcess
    BY <2>3 DEF InProcess, db, tables
  <2>12. doc' = doc
    BY <2>3 DEF db, tables
  <2>. QED
    BY <2>10, <2>11, <2>12 DEF CountInv, Noticed
<1>3. CASE Ack(w) \/ WorkerLost(w)
  <2>1. StillInProcess /\ doc' = doc /\ api' = api /\ queue \subseteq queue'
    BY <1>0, <1>3 DEF Ack, WorkerLost, Fault, db, tables, StillInProcess
  <2>2. CASE Ack(w)
    <3>1. ~WillCount(w) /\ ~WillReplace(w) /\ ~WillSend(w, PageCount)
      BY <2>2 DEF Ack, WillCount, WillReplace, WillSend
    <3>. QED
      BY <1>1, <2>1, <3>1, AwaitedStep
  <2>3. CASE WorkerLost(w)
    <3>1. worker[w].msg \in queue'
      BY <2>3 DEF WorkerLost
    <3>2. WillCount(w) => Awaited'
      BY <3>1 DEF WillCount, ToBeCounted, Awaited
    <3>3. WillReplace(w) => Awaited'
      BY <3>1 DEF WillReplace, ToBeReplaced, Awaited
    <3>4. WillSend(w, PageCount) => worker[w].msg.task = "process_document"
      BY DEF WillSend, CountInv, PagesInv, OnceInv, InTask, DocPc
    <3>5. WillSend(w, PageCount) => Awaited'
      BY <3>1, <3>4 DEF ToBeReplaced, Awaited
    <3>. QED
      BY <1>1, <2>1, <3>2, <3>3, <3>5, AwaitedStep
  <2>. QED
    BY <1>3, <2>2, <2>3
<1>4. CASE HardTimeout(w) \/ ExceptRaises(w)
  <2>1. doc' = doc /\ api' = api /\ queue' = queue
    BY <1>4 DEF HardTimeout, ExceptRaises, tables
  <2>2. StillInProcess
    BY <1>4 DEF HardTimeout, ExceptRaises, Abandon, tables, StillInProcess
  <2>3. worker[w].pc # "return" => worker[w].msg \in abandoned'
    BY <1>4 DEF HardTimeout, ExceptRaises, Abandon
  <2>4. WillSend(w, PageCount) => worker[w].msg.task = "process_document"
    BY DEF WillSend, CountInv, PagesInv, OnceInv, InTask, DocPc
  <2>5. WillCount(w) \/ WillReplace(w) \/ WillSend(w, PageCount) => CountCutShort'
    BY <2>3, <2>4 DEF WillCount, WillReplace, WillSend, CountCutShort
  <2>. QED
    BY <1>1, <2>1, <2>2, <2>5, AwaitedStep DEF Awaited
<1>. QED
  BY <1>2, <1>3, <1>4

LEMMA DocNoticed ==
  ASSUME CountInv, NEW w \in Worker, DocTask(w) \/ DocIngestRaises(w) \/ DocFanOutRaises(w)
  PROVE  Noticed'
<1>0. worker \in [Worker -> WorkerState] /\ faults \in Nat
  BY DEF CountInv, PagesInv, OnceInv, TypeOK
<1>1. CASE DocStart(w) \/ DocIngest(w) \/ DocIngestRaises(w) \/ DocFanOutRaises(w)
  <2>1. exists' = exists
    BY <1>1 DEF DocStart, DocIngest, DocIngestRaises, DocFanOutRaises, db, tables
  <2>2. exists => WillReplace(w)'
    BY <1>1, StillReplaces DEF CountInv
  <2>. QED
    BY <2>1, <2>2 DEF Noticed, InProcess, Awaited, ToBeReplaced
<1>2. CASE DocExcept(w)
  BY <1>2, DocFailed DEF Noticed, CountInv, PagesInv, OnceInv
<1>3. CASE DocReplacePages(w)
  <2>1. WillReplace(w)' \/ WillSend(w, PageCount)'
    BY <1>3, ReplacerOwnsAll, LastIsAPage DEF CountInv
  <2>. QED
    BY <2>1 DEF Noticed, Awaited, ToBeReplaced, ToBeSent
<1>4. CASE DocFanOut(w)
  <2>1. StillInProcess /\ doc' = doc /\ api' = api /\ queue \subseteq queue'
    BY <1>0, <1>4 DEF DocFanOut, db, tables, StillInProcess
  <2>2. \A v \in Worker \ {w} : worker'[v] = worker[v]
    BY <1>0, <1>4 DEF DocFanOut
  <2>3. ~WillCount(w) /\ ~WillReplace(w)
    BY <1>4 DEF DocFanOut, At, WillCount, WillReplace
  <2>4. WillSend(w, PageCount) => Awaited'
    <3>1. WillSend(w, PageCount) => Owned(PageCount)'
      BY <1>4, SenderHandsOn, LastIsAPage DEF CountInv
    <3>2. Owned(PageCount)' => Awaited'
      BY DEF Owned, Covered, CutShort, Settles, Awaited, CountCutShort, ToBeCounted, WillCount
    <3>. QED
      BY <3>1, <3>2
  <2>. QED
    BY <2>1, <2>2, <2>3, <2>4, AwaitedStep
<1>. QED
  BY <1>1, <1>2, <1>3, <1>4 DEF DocTask

LEMMA PageNoticed ==
  ASSUME CountInv, NEW w \in Worker,
         \/ PageStart(w) \/ PageCommit(w) \/ PageExcept(w) \/ PageCountRemaining(w)
         \/ PageRaises(w) \/ PageTailRaises(w) \/ PageLatch(w) \/ PageEnqueueFinal(w)
  PROVE  Noticed'
<1>0. worker \in [Worker -> WorkerState] /\ faults \in Nat /\ doc \in DocRow
  BY DEF CountInv, PagesInv, OnceInv, TypeOK
<1>1. worker[w].msg.task = "process_page" /\ exists' = exists /\ gen' = gen
  BY DEF PageStart, PageCommit, PageExcept, PageCountRemaining, PageRaises, PageTailRaises,
         PageLatch, PageEnqueueFinal, At, db, tables
\* w itself will count.
<1>2. ASSUME worker'[w].msg = worker[w].msg,
             worker'[w].pc \in {"start", "extract", "page_except", "count", "latch"}
      PROVE  Noticed'
  BY <1>1, <1>2 DEF Noticed, Awaited, ToBeCounted, WillCount
<1>3. CASE PageStart(w)
  <2>1. CASE exists /\ gen > 0
    <3>1. worker' = [worker EXCEPT ![w].pc = "extract", ![w].row = gen, ![w].snap = doc]
      BY <1>3, <2>1 DEF PageStart
    <3>2. worker'[w].pc = "extract" /\ worker'[w].msg = worker[w].msg
      BY <1>0, <3>1 DEF WorkerState
    <3>. QED
      BY <1>2, <3>2
  <2>2. CASE ~(exists /\ gen > 0)
    BY <1>1, <2>2 DEF Noticed, InProcess
  <2>. QED
    BY <2>1, <2>2
<1>4. CASE PageCommit(w)
  <2>1. CASE RowsStand(w)
    <3>1. worker' = [worker EXCEPT ![w].pc = "count", ![w].snap = NewDoc]
      BY <1>4, <2>1 DEF PageCommit
    <3>2. worker'[w].pc = "count" /\ worker'[w].msg = worker[w].msg
      BY <1>0, <3>1 DEF WorkerState
    <3>. QED
      BY <1>2, <3>2
  <2>2. CASE ~RowsStand(w)
    <3>1. worker'[w].pc = "page_except" /\ worker'[w].msg = worker[w].msg
      BY <1>0, <1>4, <2>2 DEF PageCommit, WorkerState
    <3>. QED
      BY <1>2, <3>1
  <2>. QED
    BY <2>1, <2>2
<1>5. CASE PageExcept(w)
  <2>1. worker' = [worker EXCEPT ![w].pc = "count", ![w].snap = NewDoc, ![w].failing = TRUE]
    BY <1>5 DEF PageExcept
  <2>2. worker'[w].pc = "count" /\ worker'[w].msg = worker[w].msg
    BY <1>0, <2>1 DEF WorkerState
  <2>. QED
    BY <1>2, <2>2
<1>6. CASE PageRaises(w)
  <2>1. worker'[w].pc = "page_except" /\ worker'[w].msg = worker[w].msg
    BY <1>0, <1>6 DEF PageRaises, WorkerState
  <2>. QED
    BY <1>2, <2>1
\* The count finds a page that is not terminal: its owner is another task.
<1>7. CASE PageCountRemaining(w)
  <2>1. CASE NoneRemaining
    <3>1. worker'[w].pc = "latch" /\ worker'[w].msg = worker[w].msg
      BY <1>0, <1>7, <2>1 DEF PageCountRemaining, WorkerState
    <3>. QED
      BY <1>2, <3>1
  <2>2. CASE ~NoneRemaining
    <3>1. PICK n \in PageNo : pages[n].status \notin TerminalPage
      BY <2>2 DEF NoneRemaining
    <3>2. StillInProcess /\ queue' = queue
      BY <1>0, <1>7 DEF PageCountRemaining, StillInProcess, db, tables
    <3>3. ASSUME InProcess'
          PROVE  Awaited'
      <4>1. Owned(n)
        BY <3>1, <3>2, <3>3, InProcessBefore DEF CountInv, PagesInv, NoPageLost, OnceInv
      <4>2. ~Settles(w, n) /\ ~WillReplace(w) /\ ~WillSend(w, n)
        BY <1>7 DEF PageCountRemaining, At, Settles, WillReplace, WillSend
      <4>3. \A v \in Worker \ {w} : worker'[v] = worker[v]
        BY <1>0, <1>7 DEF PageCountRemaining
      <4>4. Owned(n)'
        BY <1>1, <3>2, <4>1, <4>2, <4>3, OwnerStays DEF StillInProcess
      <4>5. PagesInv'
        <5>1. [Next]_vars
          BY <1>7 DEF Next, TaskStep, PageTask
        <5>. QED
          BY <5>1, NextPages DEF CountInv
      <4>6. Covered(n)' \/ ToBeReplaced' \/ ToBeSent(n)' \/ CountCutShort'
        BY <4>4 DEF Owned, CutShort, CountCutShort
      <4>7. Covered(n)' => ToBeCounted'
        BY DEF Covered, Settles, ToBeCounted, WillCount
      <4>8. ToBeSent(n)' => ToBeSent(PageCount)'
        <5>1. ASSUME NEW v \in Worker, WillSend(v, n)'
              PROVE  WillSend(v, PageCount)'
          <6>1. worker'[v].next \in Nat
            BY <4>5 DEF PagesInv, OnceInv, TypeOK, WorkerState
          <6>. QED
            BY <5>1, <6>1, PageCountAssumption DEF WillSend, PageNo
        <5>. QED
          BY <5>1 DEF ToBeSent
      <4>. QED
        BY <4>6, <4>7, <4>8 DEF Awaited
    <3>. QED
      BY <3>3 DEF Noticed
  <2>. QED
    BY <2>1, <2>2
\* The latch is taken now, or it was taken before.
<1>8. CASE PageLatch(w)
  <2>1. CASE LatchIsFree
    <3>1. doc'.latch
      BY <1>0, <1>8, <2>1 DEF PageLatch, DocRow
    <3>. QED
      BY <3>1 DEF Noticed
  <2>2. CASE ~LatchIsFree
    <3>1. doc' = doc
      BY <1>8, <2>2 DEF PageLatch
    <3>. QED
      BY <1>1, <2>2, <3>1 DEF Noticed, InProcess, LatchIsFree
  <2>. QED
    BY <2>1, <2>2
<1>9. CASE PageEnqueueFinal(w)
  <2>1. StillInProcess /\ doc' = doc /\ api' = api /\ queue \subseteq queue'
    BY <1>0, <1>9 DEF PageEnqueueFinal, db, tables, StillInProcess
  <2>2. \A v \in Worker \ {w} : worker'[v] = worker[v]
    BY <1>0, <1>9 DEF PageEnqueueFinal
  <2>3. ~WillCount(w) /\ ~WillReplace(w) /\ ~WillSend(w, PageCount)
    BY <1>9 DEF PageEnqueueFinal, At, WillCount, WillReplace, WillSend
  <2>. QED
    BY <2>1, <2>2, <2>3, AwaitedStep
<1>10. CASE PageTailRaises(w) /\ ~worker[w].failing
  <2>1. worker'[w].pc = "page_except" /\ worker'[w].msg = worker[w].msg
    BY <1>0, <1>10 DEF PageTailRaises, WorkerState
  <2>. QED
    BY <1>2, <2>1
\* What the except block swallows here, nobody else counts.
<1>11. CASE PageTailRaises(w) /\ worker[w].failing
  <2>1. worker[w].msg \in abandoned'
    BY <1>11 DEF PageTailRaises, Abandon
  <2>. QED
    BY <1>1, <2>1 DEF Noticed, Awaited, CountCutShort
<1>. QED
  BY <1>3, <1>4, <1>5, <1>6, <1>7, <1>8, <1>9, <1>10, <1>11

LEMMA FinalNoticed ==
  ASSUME CountInv, NEW w \in Worker, FinalTask(w) \/ FinalRaises(w)
  PROVE  Noticed'
<1>1. Quiet(w) /\ StillInProcess
  BY FinalQuiet, FinalStillInProcess DEF CountInv, PagesInv
<1>2. worker[w].msg.task = "finalize_document" /\ worker[w].pc # "fanout"
  BY DEF FinalTask, FinalStart, FinalStitch, FinalDelete, FinalSave, FinalNotify, FinalExcept,
         FinalRaises, At
<1>3. ~WillCount(w) /\ ~WillReplace(w) /\ ~WillSend(w, PageCount)
  BY <1>2 DEF WillCount, WillReplace, WillSend
<1>. QED
  BY <1>1, <1>3, AwaitedStep DEF Quiet

LEMMA RequestNoticed ==
  ASSUME CountInv, NoRequestLost, Request
  PROVE  Noticed' /\ Reprocessing'
<1>0. faults \in Nat /\ api \in [pc: ApiPc, snap: DocRow, nth: Nat]
  BY DEF CountInv, PagesInv, OnceInv, TypeOK
<1>1. worker' = worker /\ queue \subseteq queue' /\ gen' = gen /\ abandoned' = abandoned
  BY DEF Request, UploadEnqueue, UploadUnavailable, UploadInsert, UploadRejected, ReprocessLoad,
         ReprocessCommit, ReprocessEnqueue, ReprocessUnavailable, DeleteDocument, ApiLost,
         db, tables
\* What awaits the last page stays, but for a request that is over.
<1>2. ASSUME StillInProcess, doc' = doc, api.pc # "requeue"
      PROVE  Noticed'
  <2>1. Awaited => Awaited'
    BY <1>1, <1>2 DEF Awaited, CountCutShort, ToBeCounted, ToBeReplaced, ToBeSent, WillCount,
                      WillReplace, WillSend
  <2>2. InProcess' => InProcess
    BY <1>2, InProcessBefore DEF CountInv, PagesInv, OnceInv
  <2>. QED
    BY <1>2, <2>1, <2>2 DEF CountInv, Noticed
<1>3. CASE UploadInsert
  <2>1. Noticed'
    BY <1>3 DEF UploadInsert, NewDoc, Noticed, InProcess
  <2>. QED
    BY <1>0, <1>3, <2>1 DEF UploadInsert, Reprocessing
<1>4. CASE DeleteDocument
  <2>1. Noticed'
    BY <1>4 DEF DeleteDocument, Noticed, InProcess
  <2>. QED
    BY <1>0, <1>4, <2>1 DEF DeleteDocument, Reprocessing
<1>5. CASE ReprocessCommit
  <2>1. api.pc = "reset" /\ api'.pc = "requeue"
    BY <1>0, <1>5 DEF ReprocessCommit
  <2>. QED
    BY <2>1 DEF Noticed, Awaited, CountInv, Reprocessing
<1>6. CASE ReprocessEnqueue
  <2>1. DocMsg(api.nth) \in queue' /\ DocMsg(api.nth).task = "process_document"
    BY <1>6 DEF ReprocessEnqueue, DocMsg
  <2>2. Noticed'
    BY <2>1 DEF Noticed, Awaited, ToBeReplaced
  <2>. QED
    BY <1>0, <1>6, <2>2 DEF ReprocessEnqueue, Reprocessing
<1>7. CASE ReprocessLoad
  <2>1. StillInProcess /\ doc' = doc /\ api.pc = "ready"
    BY <1>0, <1>7 DEF ReprocessLoad, StillInProcess, db, tables
  <2>2. MaxReprocess # 0
    BY <1>0, <1>7, BoundAssumption DEF ReprocessLoad
  <2>. QED
    BY <1>2, <2>1, <2>2 DEF Reprocessing
<1>8. CASE ApiLost
  <2>1. StillInProcess /\ doc' = doc /\ "api" \in FaultKind /\ api'.pc \in {"ready", "gone"}
    BY <1>0, <1>8 DEF ApiLost, Fault, StillInProcess, db, tables
  <2>2. api.pc # "requeue"
    BY <2>1 DEF NoRequestLost, CountInv, Reprocessing
  <2>. QED
    BY <1>2, <2>1, <2>2 DEF Reprocessing
<1>9. CASE UploadEnqueue \/ UploadRejected
  <2>1. StillInProcess /\ doc' = doc /\ api.pc \in {"new", "insert"} /\ api'.pc \in {"insert", "gone"}
    BY <1>0, <1>9 DEF UploadEnqueue, UploadRejected, StillInProcess, db, tables
  <2>. QED
    BY <1>2, <2>1 DEF Reprocessing
<1>10. CASE UploadUnavailable
  <2>1. StillInProcess /\ doc' = doc /\ api.pc = "new" /\ api'.pc = "gone"
    BY <1>0, <1>10 DEF UploadUnavailable, StillInProcess, db, tables
  <2>. QED
    BY <1>2, <2>1 DEF Reprocessing
<1>11. ~ReprocessUnavailable
  BY DEF NoRequestLost, ReprocessUnavailable, Fault, CountInv, Reprocessing
<1>. QED
  BY <1>3, <1>4, <1>5, <1>6, <1>7, <1>8, <1>9, <1>10, <1>11 DEF Request

LEMMA InitCount == Init => CountInv
<1> SUFFICES ASSUME Init
             PROVE  CountInv
  OBVIOUS
<1>1. ~exists /\ api.pc = "new"
  BY DEF Init
<1>. QED
  BY <1>1, InitPages DEF CountInv, Noticed, InProcess, Reprocessing

LEMMA NextCount ==
  ASSUME NoRequestLost
  PROVE  CountInv /\ [Next]_vars => CountInv'
<1> SUFFICES ASSUME CountInv, [Next]_vars
             PROVE  CountInv'
  OBVIOUS
<1>0. PagesInv'
  BY NextPages DEF CountInv
<1>1. CASE Request
  BY <1>0, <1>1, RequestNoticed DEF CountInv
<1>2. ASSUME NEW w \in Worker, TaskStep(w) \/ Failure(w)
      PROVE  CountInv'
  <2>1. Noticed'
    BY <1>2, PoolNoticed, DocNoticed, PageNoticed, FinalNoticed DEF TaskStep, Failure, PageTask
  <2>2. api' = api
    BY <1>2 DEF TaskStep, Failure, DocTask, PageTask, FinalTask, Deliver, Ack, WorkerLost,
           HardTimeout, ExceptRaises, DocStart, DocIngest, DocReplacePages, DocFanOut, DocExcept,
           DocIngestRaises, DocFanOutRaises, PageStart, PageCommit, PageExcept,
           PageCountRemaining, PageLatch, PageEnqueueFinal, PageRaises, PageTailRaises,
           FinalStart, FinalStitch, FinalDelete, FinalSave, FinalNotify, FinalExcept, FinalRaises
  <2>. QED
    BY <1>0, <2>1, <2>2 DEF CountInv, Reprocessing
<1>3. CASE UNCHANGED vars
  <2>1. Noticed'
    BY <1>3 DEF vars, CountInv, Noticed, InProcess, Awaited, CountCutShort, ToBeCounted,
                ToBeReplaced, ToBeSent, WillCount, WillReplace, WillSend
  <2>2. Reprocessing'
    BY <1>3 DEF vars, CountInv, Reprocessing
  <2>. QED
    BY <1>0, <2>1, <2>2 DEF CountInv
<1>. QED
  BY <1>1, <1>2, <1>3 DEF Next

\* The last page of a document is always noticed: when every page is terminal
\* and the latch is free, some page task has yet to count, or the document will
\* be ingested again, or a task that would have counted was cut short for good,
\* whatever raises, crashes or is redelivered.  When documents are reprocessed,
\* no reprocess request is lost between its commit and its message.
THEOREM LastPageNoticed ==
  ASSUME NoRequestLost
  PROVE  Spec => []LastPageIsNoticed
<1>1. Spec => []CountInv
  BY InitCount, NextCount, PTL DEF Spec
<1>2. CountInv => LastPageIsNoticed
  <2> SUFFICES ASSUME CountInv, InProcess, ~doc.latch
               PROVE  \/ LiveFor("process_document") # {}
                      \/ \E m \in queue : m.task = "process_page"
                      \/ \E w \in Worker : /\ worker[w].msg.task = "process_page"
                                           /\ worker[w].pc \notin {"idle", "enqueue", "return"}
                      \/ CountCutShort
    BY DEF LastPageIsNoticed, InProcess, CountCutShort
  <2>1. \/ ToBeCounted \/ ToBeReplaced \/ ToBeSent(PageCount) \/ CountCutShort
        \/ api.pc = "requeue"
    BY DEF CountInv, Noticed, Awaited
  <2>2. CASE ToBeCounted
    BY <2>2 DEF ToBeCounted, WillCount
  <2>3. CASE ToBeReplaced \/ ToBeSent(PageCount)
    BY <2>3, ReplacerIsLive, SenderIsLive DEF CountInv, PagesInv
  <2>4. CASE api.pc = "requeue"
    <3>1. DocMsg(api.nth) \in Live
      BY <2>4 DEF Live, OwedByApi
    <3>. QED
      BY <3>1 DEF LiveFor, DocMsg
  <2>. QED
    BY <2>1, <2>2, <2>3, <2>4
<1>. QED
  BY <1>1, <1>2, PTL

-----------------------------------------------------------------------------
(* The run that an upload starts, and one reprocess *)

(***************************************************************************)
(* No task is taken up twice: the document is not reprocessed, and no      *)
(* worker process is lost (one the pool kills is not run again).           *)
(***************************************************************************)
OneRun == MaxReprocess = 0 /\ "crash" \notin FaultKind

(***************************************************************************)
(* Messages no task has begun to work on.  In one run there are only these *)
(* messages, each is taken up once, and while it waits the rows it is      *)
(* about are as its sender left them.                                      *)
(***************************************************************************)
Unstarted(w) == IF worker[w].pc = "start" THEN {worker[w].msg} ELSE {}
Pending == queue \cup OwedByApi \cup UNION {Unstarted(w) \cup Owed(w) : w \in Worker}

OneRequest == /\ api.pc \in {"new", "insert", "ready", "gone"}
              /\ api.nth = 0 /\ armings = 0
              /\ exists <=> api.pc = "ready"
MessagesOfRun ==
  Live \subseteq {DocMsg(0), FinalMsg(0)} \cup {PageMsg(n, 1) : n \in PageNo}

\* Before the ingestion has replaced the pages there is nothing but its task.
NotIngested == gen = 0 /\ ~doc.latch /\ Live \subseteq {DocMsg(0)}
Ingested == gen = 1 /\ api.pc \notin {"new", "insert"}

IngestOnce ==
  /\ NotIngested \/ Ingested
  /\ DocMsg(0) \in Pending => gen = 0
  /\ \A w \in Worker : worker[w].pc \in {"ingest", "replace"} => gen = 0
  /\ \A w \in Worker : worker[w].pc \in {"fanout", "extract"} => worker[w].row = gen

AllTerminal == \A n \in PageNo : pages[n].status \in TerminalPage

\* A page waits for its task; when one counts no page that is not terminal,
\* there will be none.
PagesWait == exists => \A n \in PageNo : PageMsg(n, 1) \in Pending => pages[n].status = "queued"
PagesSettled ==
  exists /\ (doc.latch \/ \E w \in Worker : worker[w].pc \in {"latch", "enqueue"}) => AllTerminal

RunInv == OnceInv /\ OneRequest /\ MessagesOfRun /\ IngestOnce /\ PagesWait /\ PagesSettled

-----------------------------------------------------------------------------
(* Messages: begun, and never pending again *)

LEMMA Begun ==
  ASSUME OnceInv', NEW w \in Worker, worker'[w].pc \notin {"idle", "start"}
  PROVE  worker'[w].msg \notin Pending'
<1> SUFFICES ASSUME worker'[w].msg \in Pending'
             PROVE  FALSE
  OBVIOUS
<1>1. Held(w)' = {worker'[w].msg} /\ Unstarted(w)' = {}
  BY DEF Held, Unstarted
<1>2. worker'[w].msg \notin queue' \cup OwedByApi' \cup Owed(w)'
  BY <1>1 DEF OnceInv, LiveOnce
<1>3. PICK v \in Worker : worker'[w].msg \in Unstarted(v)' \cup Owed(v)'
  BY <1>2 DEF Pending
<1>4. v # w
  BY <1>1, <1>2, <1>3
<1>5. worker'[w].msg \in Held(v)' \cup Owed(v)'
  BY <1>3 DEF Unstarted, Held
<1>. QED
  BY <1>1, <1>4, <1>5 DEF OnceInv, LiveOnce

LEMMA HeldOnce ==
  ASSUME OnceInv, NEW v \in Worker, NEW w \in Worker,
         worker[v].pc # "idle", worker[w].pc # "idle", worker[v].msg = worker[w].msg
  PROVE  v = w
BY DEF OnceInv, LiveOnce, Held

LEMMA PendingIsLive == Pending \subseteq Live
BY DEF Pending, Live, Unstarted, Held

\* The messages of a run, task by task.
LEMMA MessageOf ==
  ASSUME MessagesOfRun, NEW m \in Live
  PROVE  /\ m.task = "process_document" => m = DocMsg(0)
         /\ m.task = "process_page" => m.page \in PageNo /\ m = PageMsg(m.page, 1)
         /\ m.task = "finalize_document" => m = FinalMsg(0)
BY DEF MessagesOfRun, DocMsg, PageMsg, FinalMsg

LEMMA HeldIsLive ==
  ASSUME NEW w \in Worker, worker[w].pc # "idle"
  PROVE  worker[w].msg \in Live
BY DEF Live, Held

LEMMA StartedIsPending ==
  ASSUME NEW w \in Worker, worker[w].pc = "start"
  PROVE  worker[w].msg \in Pending
BY DEF Pending, Unstarted

\* A page or finalize task means that the ingestion is over.
LEMMA IngestedByThen ==
  ASSUME RunInv, NEW m \in Live, m.task # "process_document"
  PROVE  Ingested
BY DEF RunInv, IngestOnce, NotIngested, DocMsg

\* Steps that take up, pass on or drop messages and make no new one.
KeepsMessages ==
  /\ Live' \subseteq Live
  /\ Pending' \subseteq Pending
  /\ UNCHANGED <<exists, api, armings, gen>>
  /\ doc'.latch = doc.latch

LEMMA MessagesStay ==
  ASSUME NEW w \in Worker, \A v \in Worker \ {w} : worker'[v] = worker[v], OwedByApi' = OwedByApi,
         queue' \cup Held(w)' \cup Owed(w)' \subseteq queue \cup Held(w) \cup Owed(w),
         queue' \cup Unstarted(w)' \cup Owed(w)' \subseteq queue \cup Unstarted(w) \cup Owed(w)
  PROVE  Live' \subseteq Live /\ Pending' \subseteq Pending
<1>1. \A v \in Worker \ {w} : /\ Held(v)' = Held(v) /\ Owed(v)' = Owed(v)
                              /\ Unstarted(v)' = Unstarted(v)
  BY DEF Held, Owed, Unstarted
<1>2. Live' \subseteq Live
  BY <1>1 DEF Live
<1>3. Pending' \subseteq Pending
  BY <1>1 DEF Pending
<1>. QED
  BY <1>2, <1>3

LEMMA QuietKeeps ==
  ASSUME NEW w \in Worker, Quiet(w), worker'[w].pc # "start"
  PROVE  KeepsMessages
<1>1. OwedByApi' = OwedByApi
  BY DEF OwedByApi, Quiet
<1>2. Owed(w)' = {} /\ Unstarted(w)' = {} /\ Held(w)' \subseteq Held(w)
  BY DEF Owed, Unstarted, Held, Quiet
<1>. QED
  BY <1>1, <1>2, MessagesStay DEF Quiet, KeepsMessages

LEMMA DeliverKeeps ==
  ASSUME OnceInv, NEW w \in Worker, Deliver(w)
  PROVE  KeepsMessages
<1>0. worker \in [Worker -> WorkerState]
  BY DEF OnceInv, TypeOK
<1>1. PICK m \in queue :
        /\ queue' = queue \ {m}
        /\ worker' = [worker EXCEPT ![w] = [Idle EXCEPT !.pc = "start", !.msg = m]]
  BY DEF Deliver
<1>2. worker'[w].pc = "start" /\ worker'[w].msg = m
  BY <1>0, <1>1 DEF Idle
<1>3. Held(w)' = {m} /\ Unstarted(w)' = {m} /\ Owed(w)' = {}
  BY <1>2 DEF Held, Unstarted, Owed
<1>4. OwedByApi' = OwedByApi
  BY DEF Deliver, OwedByApi
<1>. QED
  BY <1>0, <1>1, <1>3, <1>4, MessagesStay DEF Deliver, KeepsMessages, db, tables

LEMMA FanOutKeeps ==
  ASSUME OnceInv, NEW w \in Worker, DocFanOut(w)
  PROVE  KeepsMessages
<1>0. worker \in [Worker -> WorkerState]
  BY DEF OnceInv, TypeOK
<1>1. CASE worker[w].next \in PageNo
  <2>1. /\ queue' = queue \cup {PageMsg(worker[w].next, worker[w].row)}
        /\ worker' = [worker EXCEPT ![w].next = @ + 1]
    BY <1>1 DEF DocFanOut
  <2>2. /\ worker'[w].pc = "fanout" /\ worker[w].pc = "fanout"
        /\ worker'[w].msg = worker[w].msg
        /\ worker'[w].row = worker[w].row
        /\ worker'[w].next = worker[w].next + 1
    BY <1>0, <2>1 DEF DocFanOut, At, WorkerState
  <2>3. worker[w].next \in Nat
    BY <1>0 DEF WorkerState
  <2>4. PageMsg(worker[w].next, worker[w].row) \in Owed(w)
    BY <1>1, <2>2, <2>3 DEF Owed
  <2>5. Owed(w)' \subseteq Owed(w)
    <3>1. \A n \in PageNo : n >= worker[w].next + 1 => n >= worker[w].next
      BY <2>3, ConstantTypes
    <3>. QED
      BY <2>2, <3>1 DEF Owed
  <2>6. Held(w)' = Held(w) /\ Unstarted(w)' = {}
    BY <2>2 DEF Held, Unstarted
  <2>7. OwedByApi' = OwedByApi
    BY DEF DocFanOut, OwedByApi
  <2>. QED
    BY <1>0, <2>1, <2>4, <2>5, <2>6, <2>7, MessagesStay DEF DocFanOut, KeepsMessages, db, tables
<1>2. CASE worker[w].next \notin PageNo
  <2>1. Quiet(w)
    BY <1>2, ReturningQuiet DEF DocFanOut, At, db, tables
  <2>2. worker'[w].pc # "start"
    BY <1>0, <1>2 DEF DocFanOut, Returning, Idle
  <2>. QED
    BY <2>1, <2>2, QuietKeeps
<1>. QED
  BY <1>1, <1>2

LEMMA EnqueueKeeps ==
  ASSUME OnceInv, NEW w \in Worker, PageEnqueueFinal(w)
  PROVE  KeepsMessages
<1>0. worker \in [Worker -> WorkerState]
  BY DEF OnceInv, TypeOK
<1>1. queue' = queue \cup {FinalMsg(worker[w].arming)} /\ worker' = [worker EXCEPT ![w] = Returning(w)]
  BY DEF PageEnqueueFinal
<1>2. worker'[w].pc = "return" /\ worker'[w].msg = worker[w].msg
  BY <1>0, <1>1 DEF Returning, Idle
<1>3. Owed(w) = {FinalMsg(worker[w].arming)} /\ Owed(w)' = {} /\ Unstarted(w)' = {}
  BY <1>2 DEF PageEnqueueFinal, At, Owed, Unstarted
<1>4. Held(w)' = Held(w)
  BY <1>2 DEF Held, PageEnqueueFinal, At
<1>5. OwedByApi' = OwedByApi
  BY DEF PageEnqueueFinal, OwedByApi
<1>. QED
  BY <1>0, <1>1, <1>3, <1>4, <1>5, MessagesStay DEF PageEnqueueFinal, KeepsMessages, db, tables

-----------------------------------------------------------------------------
(* Finalization waits for all pages *)

LEMMA RunStep ==
  ASSUME RunInv, OnceInv', NEW w \in Worker, KeepsMessages,
         \A v \in Worker \ {w} : worker'[v] = worker[v],
         worker'[w].pc \in {"ingest", "replace"} => gen = 0,
         worker'[w].pc \in {"fanout", "extract"} => worker'[w].row = gen,
         exists => \A n \in PageNo : PageMsg(n, 1) \in Pending' => pages'[n] = pages[n],
         exists /\ AllTerminal => AllTerminal',
         exists /\ worker'[w].pc \in {"latch", "enqueue"} => AllTerminal'
  PROVE  RunInv'
<1>1. OneRequest'
  BY DEF RunInv, OneRequest, KeepsMessages
<1>2. MessagesOfRun'
  BY DEF RunInv, MessagesOfRun, KeepsMessages
<1>3. IngestOnce'
  <2>1. (NotIngested \/ Ingested)'
    BY DEF RunInv, IngestOnce, NotIngested, Ingested, KeepsMessages
  <2>2. DocMsg(0) \in Pending' => gen' = 0
    BY DEF RunInv, IngestOnce, KeepsMessages
  <2>3. \A v \in Worker : worker'[v].pc \in {"ingest", "replace"} => gen' = 0
    BY DEF RunInv, IngestOnce, KeepsMessages
  <2>4. \A v \in Worker : worker'[v].pc \in {"fanout", "extract"} => worker'[v].row = gen'
    BY DEF RunInv, IngestOnce, KeepsMessages
  <2>. QED
    BY <2>1, <2>2, <2>3, <2>4 DEF IngestOnce
<1>4. PagesWait'
  BY DEF RunInv, PagesWait, KeepsMessages
<1>5. PagesSettled'
  BY DEF RunInv, PagesSettled, KeepsMessages
<1>. QED
  BY <1>1, <1>2, <1>3, <1>4, <1>5 DEF RunInv

\* A step of w that leaves the pages alone, at a place none of the parts is about.
LEMMA IdleRunStep ==
  ASSUME RunInv, OnceInv', NEW w \in Worker, KeepsMessages,
         \A v \in Worker \ {w} : worker'[v] = worker[v], pages' = pages,
         worker'[w].pc \notin {"ingest", "replace", "fanout", "extract", "latch", "enqueue"}
  PROVE  RunInv'
<1>1. AllTerminal' <=> AllTerminal
  BY DEF AllTerminal
<1>. QED
  BY <1>1, RunStep

\* A process_page task has its message, and no other task has it.
LEMMA PageHeld ==
  ASSUME RunInv, NEW w \in Worker, worker[w].pc # "idle", worker[w].msg.task = "process_page"
  PROVE  /\ worker[w].msg.page \in PageNo
         /\ worker[w].msg = PageMsg(worker[w].msg.page, 1)
         /\ Ingested
BY HeldIsLive, MessageOf, IngestedByThen DEF RunInv

LEMMA PoolRun ==
  ASSUME OneRun, RunInv, OnceInv', NEW w \in Worker,
         Deliver(w) \/ Ack(w) \/ WorkerLost(w) \/ HardTimeout(w) \/ ExceptRaises(w)
  PROVE  RunInv'
<1>0. worker \in [Worker -> WorkerState]
  BY DEF RunInv, OnceInv, TypeOK
<1>1. ~WorkerLost(w)
  BY DEF OneRun, WorkerLost, Fault
<1>2. CASE Deliver(w)
  <2>1. PICK m \in queue : worker' = [worker EXCEPT ![w] = [Idle EXCEPT !.pc = "start", !.msg = m]]
    BY <1>2 DEF Deliver
  <2>2. worker'[w].pc = "start" /\ \A v \in Worker \ {w} : worker'[v] = worker[v]
    BY <1>0, <2>1 DEF Idle
  <2>3. KeepsMessages /\ pages' = pages
    BY <1>2, DeliverKeeps DEF Deliver, db, tables, RunInv
  <2>. QED
    BY <2>2, <2>3, IdleRunStep
<1>3. CASE Ack(w) \/ HardTimeout(w) \/ ExceptRaises(w)
  <2>1. Quiet(w) /\ worker'[w].pc \in {"idle", "return"} /\ pages' = pages
    BY <1>3, LeavingQuiet DEF RunInv, tables
  <2>. QED
    BY <2>1, QuietKeeps, IdleRunStep DEF Quiet
<1>. QED
  BY <1>1, <1>2, <1>3

\* The ingestion: the first rows of the pages, and the messages for them.
LEMMA ReplaceRun ==
  ASSUME RunInv, OnceInv', NEW w \in Worker, DocReplacePages(w)
  PROVE  RunInv'
<1>0. worker \in [Worker -> WorkerState] /\ gen \in Nat
  BY DEF RunInv, OnceInv, TypeOK
<1>1. \A v \in Worker \ {w} : worker'[v] = worker[v]
  BY <1>0 DEF DocReplacePages
<1>2. gen = 0 /\ worker[w].pc = "replace" /\ worker[w].msg.task = "process_document"
  BY DEF DocReplacePages, At, RunInv, IngestOnce
<1>3. worker[w].msg = DocMsg(0)
  BY <1>2, HeldIsLive, MessageOf DEF RunInv
<1>4. NotIngested
  BY <1>2 DEF RunInv, IngestOnce, Ingested
<1>5. CASE worker' = [worker EXCEPT ![w].pc = "doc_except"] /\ UNCHANGED <<doc, gen, pages>>
  <2>1. worker'[w].pc = "doc_except" /\ worker'[w].msg = worker[w].msg
    BY <1>0, <1>5 DEF WorkerState
  <2>2. Quiet(w)
    BY <1>1, <1>2, <1>5, <2>1, GoingOnQuiet DEF DocReplacePages, RunInv, DocPc, PagePc, FinalPc
  <2>. QED
    BY <1>1, <1>5, <2>1, <2>2, QuietKeeps, IdleRunStep
<1>6. CASE ~(worker' = [worker EXCEPT ![w].pc = "doc_except"] /\ UNCHANGED <<doc, gen, pages>>)
  <2>1. /\ worker' = [worker EXCEPT ![w].pc = "fanout", ![w].snap = NewDoc,
                                    ![w].row = gen + 1, ![w].next = 1]
        /\ gen' = gen + 1 /\ pages' = NewPages /\ exists
    BY <1>6 DEF DocReplacePages, RowsStand
  <2>2. /\ worker'[w] = [worker[w] EXCEPT !.pc = "fanout", !.snap = NewDoc,
                                          !.row = gen + 1, !.next = 1]
        /\ worker[w] \in WorkerState
    BY <1>0, <2>1
  <2>3. worker'[w].pc = "fanout" /\ worker'[w].row = 1 /\ worker'[w].msg = DocMsg(0)
    BY <1>2, <1>3, <2>2 DEF WorkerState
  <2>4. UNCHANGED <<queue, api, armings, exists>> /\ gen' = 1
    BY <1>2, <2>1 DEF DocReplacePages
  <2>5. OwedByApi' = OwedByApi
    BY <2>4 DEF OwedByApi
  <2>6. Owed(w)' \subseteq {PageMsg(n, 1) : n \in PageNo}
    BY <2>3 DEF Owed
  <2>7. Held(w)' = {DocMsg(0)} /\ Unstarted(w)' = {}
    BY <2>3 DEF Held, Unstarted
  <2>8. \A v \in Worker \ {w} : /\ Held(v)' = Held(v) /\ Owed(v)' = Owed(v)
                                /\ Unstarted(v)' = Unstarted(v)
    BY <1>1 DEF Held, Owed, Unstarted
  <2>9. Live' \subseteq {DocMsg(0)} \cup {PageMsg(n, 1) : n \in PageNo}
    BY <1>4, <2>4, <2>5, <2>6, <2>7, <2>8 DEF Live, NotIngested
  <2>10. OneRequest'
    BY <2>4 DEF RunInv, OneRequest
  <2>11. MessagesOfRun'
    BY <2>9 DEF MessagesOfRun
  <2>12. ASSUME NEW v \in Worker \ {w}
         PROVE  worker'[v].pc \notin {"ingest", "replace", "fanout", "extract", "latch", "enqueue"}
    <3>1. worker'[v] = worker[v] /\ InTask(v)
      BY <1>1 DEF RunInv, OnceInv
    <3>2. worker[v].pc = "idle" \/ worker[v].msg \in Live
      BY HeldIsLive
    <3>3. worker[v].pc = "idle" \/ worker[v].msg = DocMsg(0)
      BY <1>4, <3>2 DEF NotIngested
    <3>4. worker[v].pc = "idle"
      BY <1>2, <1>3, <3>3, HeldOnce DEF RunInv
    <3>. QED
      BY <3>1, <3>4
  <2>13. IngestOnce'
    <3>1. DocMsg(0) \notin Pending'
      BY <2>3, Begun
    <3>2. Ingested'
      BY <2>1, <2>4 DEF Ingested, RunInv, OneRequest
    <3>. QED
      BY <2>3, <2>4, <2>12, <3>1, <3>2 DEF IngestOnce
  <2>14. PagesWait'
    BY <2>1 DEF PagesWait, NewPages, NewPage
  <2>15. PagesSettled'
    <3>1. doc'.latch = doc.latch
      <4>1. worker[w].snap \in DocRow
        BY <2>2 DEF WorkerState
      <4>2. [worker[w].snap EXCEPT !.done = 0, !.progress = 20].latch = worker[w].snap.latch
        BY <4>1 DEF DocRow
      <4>3. doc' = Flush(worker[w].snap, [worker[w].snap EXCEPT !.done = 0, !.progress = 20])
        BY <1>6 DEF DocReplacePages
      <4>. QED
        BY <4>2, <4>3, FlushKeepsLatch
    <3>. QED
      BY <1>4, <2>3, <2>12, <3>1 DEF PagesSettled, NotIngested
  <2>. QED
    BY <2>10, <2>11, <2>13, <2>14, <2>15 DEF RunInv
<1>. QED
  BY <1>5, <1>6

LEMMA DocRun ==
  ASSUME RunInv, OnceInv', NEW w \in Worker,
         \/ DocStart(w) \/ DocIngest(w) \/ DocExcept(w) \/ DocIngestRaises(w)
         \/ DocFanOutRaises(w) \/ DocFanOut(w)
  PROVE  RunInv'
<1>0. worker \in [Worker -> WorkerState]
  BY DEF RunInv, OnceInv, TypeOK
<1>1. (\A v \in Worker \ {w} : worker'[v] = worker[v]) /\ pages' = pages
  BY <1>0 DEF DocStart, DocIngest, DocExcept, DocIngestRaises, DocFanOutRaises, DocFanOut,
              db, tables
<1>2. AllTerminal' <=> AllTerminal
  BY <1>1 DEF AllTerminal
<1>3. CASE DocFanOut(w)
  <2>1. KeepsMessages
    BY <1>3, FanOutKeeps DEF RunInv
  <2>2. worker[w].pc = "fanout" /\ worker[w].row = gen
    BY <1>3 DEF DocFanOut, At, RunInv, IngestOnce
  <2>3. \/ worker'[w].pc = "fanout" /\ worker'[w].row = worker[w].row
        \/ worker'[w].pc = "return"
    BY <1>0, <1>3, <2>2 DEF DocFanOut, WorkerState, Returning, Idle
  <2>. QED
    BY <1>1, <1>2, <2>1, <2>2, <2>3, RunStep
<1>4. CASE ~DocFanOut(w)
  <2>1. Quiet(w)
    BY <1>4, DocQuiet DEF RunInv
  <2>2. worker[w].msg.task = "process_document" /\ worker[w].pc # "idle"
    BY <1>4 DEF DocStart, DocIngest, DocExcept, DocIngestRaises, DocFanOutRaises, At
  <2>3. worker'[w].pc \notin PagePc
    <3>1. worker'[w].pc # "idle" => worker'[w].msg.task = "process_document"
      BY <2>1, <2>2 DEF Quiet
    <3>. QED
      BY <2>1, <3>1 DEF Quiet, InTask, PagePc
  <2>4. worker'[w].pc # "start"
    <3>1. CASE DocStart(w) /\ exists
      <4>1. worker' = [worker EXCEPT ![w].pc = "ingest",
                         ![w].snap = [doc EXCEPT !.status = "processing", !.progress = 10]]
        BY <3>1 DEF DocStart
      <4>. QED
        BY <1>0, <4>1 DEF WorkerState
    <3>2. CASE (DocStart(w) /\ ~exists) \/ DocExcept(w)
      BY <1>0, <3>2 DEF DocStart, DocExcept, Returning, Idle
    <3>3. CASE DocIngest(w) \/ DocIngestRaises(w) \/ DocFanOutRaises(w)
      BY <1>0, <3>3 DEF DocIngest, DocIngestRaises, DocFanOutRaises, WorkerState
    <3>. QED
      BY <1>4, <3>1, <3>2, <3>3
  <2>5. worker'[w].pc \in {"ingest", "replace"} => gen = 0
    <3>1. CASE DocStart(w)
      <4>1. worker[w].msg = DocMsg(0)
        BY <2>2, HeldIsLive, MessageOf DEF RunInv
      <4>2. DocMsg(0) \in Pending
        BY <3>1, <4>1, StartedIsPending DEF DocStart, At
      <4>. QED
        BY <4>2 DEF RunInv, IngestOnce
    <3>2. CASE DocIngest(w)
      BY <3>2 DEF DocIngest, At, RunInv, IngestOnce
    <3>3. CASE DocExcept(w) \/ DocIngestRaises(w) \/ DocFanOutRaises(w)
      BY <1>0, <3>3 DEF DocExcept, DocIngestRaises, DocFanOutRaises, WorkerState, Returning, Idle
    <3>. QED
      BY <1>4, <3>1, <3>2, <3>3
  <2>. QED
    BY <1>1, <1>2, <2>1, <2>3, <2>4, <2>5, QuietKeeps, RunStep DEF Quiet, PagePc
<1>. QED
  BY <1>3, <1>4

\* The steps of process_page that send nothing and win no latch.
LEMMA PageRun ==
  ASSUME RunInv, OnceInv', NEW w \in Worker,
         \/ PageStart(w) \/ PageCommit(w) \/ PageExcept(w) \/ PageCountRemaining(w)
         \/ PageRaises(w) \/ PageTailRaises(w)
         \/ PageLatch(w) /\ ~LatchIsFree
  PROVE  RunInv'
<1>0. worker \in [Worker -> WorkerState] /\ pages \in [PageNo -> PageRow]
  BY DEF RunInv, OnceInv, TypeOK
<1>1. \A v \in Worker \ {w} : worker'[v] = worker[v]
  BY <1>0 DEF PageStart, PageCommit, PageExcept, PageCountRemaining, PageRaises, PageTailRaises,
              PageLatch
<1>2. worker[w].msg.task = "process_page" /\ worker[w].pc # "idle"
  BY DEF PageStart, PageCommit, PageExcept, PageCountRemaining, PageRaises, PageTailRaises,
         PageLatch, At
<1>n. PICK n \in PageNo : worker[w].msg.page = n /\ worker[w].msg = PageMsg(n, 1)
  BY <1>2, PageHeld
<1>3. Quiet(w)
  BY PageQuiet DEF RunInv
\* Another page keeps its row; this one's message is no longer pending.
<1>4. ASSUME \A k \in PageNo : k # n => pages'[k] = pages[k],
             exists => worker'[w].pc \in {"extract", "page_except", "count"},
             worker'[w].pc = "extract" => worker'[w].row = gen,
             exists /\ AllTerminal => pages'[n].status \in TerminalPage,
             worker'[w].pc \notin {"start", "ingest", "replace", "fanout", "latch", "enqueue"}
      PROVE  RunInv'
  <2>1. exists => PageMsg(n, 1) \notin Pending'
    <3>1. exists => worker'[w].msg = PageMsg(n, 1) /\ worker'[w].pc \notin {"idle", "start"}
      BY <1>3, <1>4, <1>n DEF Quiet
    <3>. QED
      BY <3>1, Begun
  <2>2. exists /\ AllTerminal => AllTerminal'
    BY <1>4 DEF AllTerminal
  <2>3. exists => \A k \in PageNo : PageMsg(k, 1) \in Pending' => pages'[k] = pages[k]
    BY <1>4, <2>1
  <2>4. KeepsMessages
    BY <1>3, <1>4, QuietKeeps
  <2>. QED
    BY <1>1, <1>4, <2>2, <2>3, <2>4, RunStep
<1>5. CASE PageStart(w)
  <2>1. CASE exists /\ gen > 0
    <3>1. /\ pages' = [pages EXCEPT ![n].status = "processing"]
          /\ worker' = [worker EXCEPT ![w].pc = "extract", ![w].row = gen, ![w].snap = doc]
      BY <1>5, <1>n, <2>1 DEF PageStart
    <3>2. /\ worker'[w] = [worker[w] EXCEPT !.pc = "extract", !.row = gen, !.snap = doc]
          /\ worker[w] \in WorkerState
      BY <1>0, <3>1
    <3>3. worker'[w].pc = "extract" /\ worker'[w].row = gen
      BY <3>2 DEF WorkerState
    <3>4. pages[n].status = "queued"
      <4>1. PageMsg(n, 1) \in Pending
        BY <1>5, <1>n, StartedIsPending DEF PageStart, At
      <4>. QED
        BY <2>1, <4>1 DEF RunInv, PagesWait
    <3>5. ~AllTerminal
      BY <3>4 DEF AllTerminal, TerminalPage
    <3>6. \A k \in PageNo : k # n => pages'[k] = pages[k]
      BY <1>0, <3>1
    <3>. QED
      BY <1>4, <3>3, <3>5, <3>6
  <2>2. CASE ~(exists /\ gen > 0)
    <3>1. ~exists
      BY <1>2, <2>2, PageHeld DEF Ingested
    <3>2. worker' = [worker EXCEPT ![w] = Returning(w)] /\ pages' = pages
      BY <1>5, <2>2 DEF PageStart
    <3>3. worker'[w].pc = "return"
      BY <1>0, <3>2 DEF Returning, Idle
    <3>. QED
      BY <1>4, <3>1, <3>2, <3>3
  <2>. QED
    BY <2>1, <2>2
<1>6. CASE PageCommit(w)
  <2>1. CASE RowsStand(w)
    <3>1. /\ pages' = [pages EXCEPT ![n] = [status |-> "completed", extracted |-> TRUE]]
          /\ worker' = [worker EXCEPT ![w].pc = "count", ![w].snap = NewDoc]
      BY <1>6, <1>n, <2>1 DEF PageCommit
    <3>2. worker'[w].pc = "count"
      BY <1>0, <3>1 DEF WorkerState
    <3>3. pages'[n].status \in TerminalPage /\ \A k \in PageNo : k # n => pages'[k] = pages[k]
      BY <1>0, <3>1 DEF TerminalPage
    <3>. QED
      BY <1>4, <3>2, <3>3
  <2>2. CASE ~RowsStand(w)
    <3>1. worker'[w].pc = "page_except" /\ pages' = pages
      BY <1>0, <1>6, <2>2 DEF PageCommit, WorkerState
    <3>. QED
      BY <1>4, <3>1 DEF AllTerminal
  <2>. QED
    BY <2>1, <2>2
<1>7. CASE PageExcept(w)
  <2>1. worker' = [worker EXCEPT ![w].pc = "count", ![w].snap = NewDoc, ![w].failing = TRUE]
    BY <1>7 DEF PageExcept
  <2>2. worker'[w].pc = "count"
    BY <1>0, <2>1 DEF WorkerState
  <2>3. /\ AllTerminal => pages'[n].status \in TerminalPage
        /\ \A k \in PageNo : k # n => pages'[k] = pages[k]
    <3>1. CASE exists /\ gen > 0
      <4>1. pages' = [pages EXCEPT ![n].status = "failed"]
        BY <1>7, <1>n, <3>1 DEF PageExcept, AfterError
      <4>. QED
        BY <1>0, <4>1 DEF TerminalPage, PageRow
    <3>2. CASE ~(exists /\ gen > 0)
      BY <1>7, <3>2 DEF PageExcept, AllTerminal
    <3>. QED
      BY <3>1, <3>2
  <2>. QED
    BY <1>4, <2>2, <2>3
<1>8. CASE PageRaises(w) \/ (PageTailRaises(w) /\ ~worker[w].failing)
  <2>1. worker'[w].pc = "page_except" /\ pages' = pages
    BY <1>0, <1>8 DEF PageRaises, PageTailRaises, WorkerState, db, tables
  <2>. QED
    BY <1>4, <2>1 DEF AllTerminal
<1>9. CASE \/ PageTailRaises(w) /\ worker[w].failing
           \/ PageLatch(w) /\ ~LatchIsFree
           \/ PageCountRemaining(w) /\ ~NoneRemaining
  <2>1. worker' = [worker EXCEPT ![w] = Returning(w)] /\ pages' = pages
    BY <1>9 DEF PageTailRaises, PageLatch, PageCountRemaining, db, tables
  <2>2. worker'[w].pc = "return"
    BY <1>0, <2>1 DEF Returning, Idle
  <2>. QED
    BY <1>1, <1>3, <2>1, <2>2, QuietKeeps, IdleRunStep
<1>10. CASE PageCountRemaining(w) /\ NoneRemaining
  <2>1. worker'[w].pc = "latch" /\ pages' = pages
    BY <1>0, <1>10 DEF PageCountRemaining, WorkerState, db, tables
  <2>2. exists => AllTerminal
    BY <1>10 DEF NoneRemaining, AllTerminal
  <2>3. AllTerminal' <=> AllTerminal
    BY <2>1 DEF AllTerminal
  <2>. QED
    BY <1>1, <1>3, <2>1, <2>2, <2>3, QuietKeeps, RunStep
<1>. QED
  BY <1>5, <1>6, <1>7, <1>8, <1>9, <1>10

\* The latch is won on terminal pages, and finalize_document is its message.
LEMMA LatchRun ==
  ASSUME RunInv, OnceInv', NEW w \in Worker, PageLatch(w), LatchIsFree
  PROVE  /\ RunInv'
         /\ Pending' \subseteq Pending \cup {FinalMsg(0)}
         /\ AllTerminal
<1>0. worker \in [Worker -> WorkerState] /\ doc \in DocRow
  BY DEF RunInv, OnceInv, TypeOK
<1>1. worker' = [worker EXCEPT ![w].pc = "enqueue", ![w].arming = armings]
  BY DEF PageLatch
<1>2. /\ worker'[w].pc = "enqueue" /\ worker'[w].msg = worker[w].msg
      /\ worker'[w].arming = 0
  BY <1>0, <1>1 DEF WorkerState, RunInv, OneRequest
<1>3. worker[w].pc = "latch" /\ worker[w].msg.task = "process_page" /\ exists
  BY DEF PageLatch, At, LatchIsFree
<1>4. \A v \in Worker \ {w} : worker'[v] = worker[v]
  BY <1>0, <1>1
<1>5. UNCHANGED <<queue, api, armings, exists, gen, pages>>
  BY DEF PageLatch
<1>6. \A v \in Worker \ {w} : /\ Held(v)' = Held(v) /\ Owed(v)' = Owed(v)
                              /\ Unstarted(v)' = Unstarted(v)
  BY <1>4 DEF Held, Owed, Unstarted
<1>7. Owed(w)' = {FinalMsg(0)} /\ Held(w)' = Held(w) /\ Unstarted(w)' = {}
  BY <1>2, <1>3 DEF Owed, Held, Unstarted
<1>8. OwedByApi' = OwedByApi
  BY <1>5 DEF OwedByApi
<1>9. Live' \subseteq Live \cup {FinalMsg(0)} /\ Pending' \subseteq Pending \cup {FinalMsg(0)}
  <2>1. Live' \subseteq Live \cup {FinalMsg(0)}
    BY <1>5, <1>6, <1>7, <1>8 DEF Live
  <2>2. Pending' \subseteq Pending \cup {FinalMsg(0)}
    BY <1>5, <1>6, <1>7, <1>8 DEF Pending
  <2>. QED
    BY <2>1, <2>2
<1>10. AllTerminal
  BY <1>3 DEF RunInv, PagesSettled
<1>11. Ingested
  BY <1>3, PageHeld
<1>12. OneRequest'
  BY <1>5 DEF RunInv, OneRequest
<1>13. MessagesOfRun'
  BY <1>9 DEF RunInv, MessagesOfRun
<1>14. DocMsg(0) # FinalMsg(0) /\ \A n \in PageNo : PageMsg(n, 1) # FinalMsg(0)
  BY DEF DocMsg, FinalMsg, PageMsg
<1>15. IngestOnce'
  <2>1. Ingested'
    BY <1>5, <1>11 DEF Ingested
  <2>2. DocMsg(0) \in Pending' => gen' = 0
    BY <1>5, <1>9, <1>14 DEF RunInv, IngestOnce
  <2>. QED
    BY <1>2, <1>4, <1>5, <2>1, <2>2 DEF RunInv, IngestOnce
<1>16. PagesWait'
  BY <1>5, <1>9, <1>14 DEF RunInv, PagesWait
<1>17. PagesSettled'
  BY <1>5, <1>10 DEF PagesSettled, AllTerminal
<1>. QED
  BY <1>9, <1>10, <1>12, <1>13, <1>15, <1>16, <1>17 DEF RunInv

LEMMA EnqueueRun ==
  ASSUME RunInv, OnceInv', NEW w \in Worker, PageEnqueueFinal(w)
  PROVE  RunInv'
<1>0. worker \in [Worker -> WorkerState]
  BY DEF RunInv, OnceInv, TypeOK
<1>1. worker' = [worker EXCEPT ![w] = Returning(w)] /\ pages' = pages
  BY DEF PageEnqueueFinal, db, tables
<1>2. worker'[w].pc = "return" /\ \A v \in Worker \ {w} : worker'[v] = worker[v]
  BY <1>0, <1>1 DEF Returning, Idle
<1>. QED
  BY <1>1, <1>2, EnqueueKeeps, IdleRunStep DEF RunInv

\* Where a step of finalize_document takes it.
LEMMA FinalGoesOn ==
  ASSUME OnceInv, NEW w \in Worker, FinalTask(w) \/ FinalRaises(w)
  PROVE  /\ worker'[w].pc \in FinalPc \cup {"return"}
         /\ \A v \in Worker \ {w} : worker'[v] = worker[v]
         /\ pages' = pages
         /\ KeepsMessages
<1>0. worker \in [Worker -> WorkerState]
  BY DEF OnceInv, TypeOK
<1>1. Quiet(w)
  BY FinalQuiet
<1>2. pages' = pages
  BY DEF FinalTask, FinalStart, FinalStitch, FinalDelete, FinalSave, FinalNotify, FinalExcept,
         FinalRaises, db, tables
<1>3. worker'[w].pc \in FinalPc \cup {"return"}
  <2>1. CASE FinalStart(w)
    <3>1. CASE exists
      <4>1. worker' = [worker EXCEPT ![w].pc = "stitch", ![w].snap = [doc EXCEPT !.progress = 90]]
        BY <2>1, <3>1 DEF FinalStart
      <4>. QED
        BY <1>0, <4>1 DEF WorkerState, FinalPc
    <3>2. CASE ~exists
      BY <1>0, <2>1, <3>2 DEF FinalStart, Returning, Idle
    <3>. QED
      BY <3>1, <3>2
  <2>2. CASE FinalStitch(w)
    <3>1. PICK changes \in BOOLEAN :
            worker' = [worker EXCEPT ![w] =
                        IF changes /\ ~exists THEN [@ EXCEPT !.pc = "final_except"]
                        ELSE [@ EXCEPT !.pc = "delete", !.view = pages, !.row = gen,
                                       !.locks = changes]]
      BY <2>2 DEF FinalStitch
    <3>. QED
      BY <1>0, <3>1 DEF WorkerState, FinalPc
  <2>3. CASE FinalDelete(w) \/ FinalRaises(w)
    BY <1>0, <2>3 DEF FinalDelete, FinalRaises, WorkerState, FinalPc
  <2>4. CASE FinalSave(w)
    <3>1. \/ worker' = [worker EXCEPT ![w].pc = "notify"]
          \/ worker' = [worker EXCEPT ![w].pc = "final_except"]
      BY <2>4 DEF FinalSave
    <3>. QED
      BY <1>0, <3>1 DEF WorkerState, FinalPc
  <2>5. CASE FinalNotify(w) \/ FinalExcept(w)
    BY <1>0, <2>5 DEF FinalNotify, FinalExcept, Returning, Idle
  <2>. QED
    BY <2>1, <2>2, <2>3, <2>4, <2>5 DEF FinalTask
<1>. QED
  BY <1>1, <1>2, <1>3, QuietKeeps DEF Quiet, FinalPc

LEMMA FinalRun ==
  ASSUME RunInv, OnceInv', NEW w \in Worker, FinalTask(w) \/ FinalRaises(w)
  PROVE  RunInv'
BY FinalGoesOn, IdleRunStep DEF RunInv, FinalPc

\* A request neither repeats a message nor touches a worker, and no document is
\* reprocessed.
LEMMA RequestKeeps ==
  ASSUME OneRun, RunInv, Request
  PROVE  /\ worker' = worker /\ gen' = gen /\ api'.nth = 0 /\ armings' = armings
         /\ Live' \subseteq Live /\ Pending' \subseteq Pending
         /\ ~ReprocessLoad /\ ~ReprocessCommit /\ ~ReprocessEnqueue /\ ~ReprocessUnavailable
<1>0. api \in [pc: ApiPc, snap: DocRow, nth: Nat]
  BY DEF RunInv, OnceInv, TypeOK
<1>1. ~ReprocessLoad /\ ~ReprocessCommit /\ ~ReprocessEnqueue /\ ~ReprocessUnavailable
  BY DEF OneRun, RunInv, OneRequest, ReprocessLoad, ReprocessCommit, ReprocessEnqueue,
         ReprocessUnavailable
<1>2. worker' = worker /\ gen' = gen /\ api'.nth = 0 /\ armings' = armings
  BY <1>0, <1>1 DEF Request, UploadEnqueue, UploadUnavailable, UploadInsert, UploadRejected,
                    DeleteDocument, ApiLost, RunInv, OneRequest, db, tables
<1>3. queue' \cup OwedByApi' \subseteq queue \cup OwedByApi
  <2>1. CASE UploadEnqueue
    <3>1. api.pc = "new" /\ api'.pc = "insert" /\ queue' = queue \cup {DocMsg(0)}
      BY <1>0, <2>1 DEF UploadEnqueue
    <3>. QED
      BY <3>1 DEF OwedByApi
  <2>2. CASE UploadUnavailable \/ UploadInsert \/ UploadRejected \/ DeleteDocument \/ ApiLost
    <3>1. api'.pc \in {"ready", "gone"} /\ queue' = queue
      BY <1>0, <2>2 DEF UploadUnavailable, UploadInsert, UploadRejected, DeleteDocument, ApiLost
    <3>. QED
      BY <3>1 DEF OwedByApi
  <2>. QED
    BY <1>1, <2>1, <2>2 DEF Request
<1>4. \A v \in Worker : /\ Held(v)' = Held(v) /\ Owed(v)' = Owed(v)
                        /\ Unstarted(v)' = Unstarted(v)
  BY <1>2, SameWorkers DEF Unstarted
<1>5. Live' \subseteq Live
  BY <1>3, <1>4 DEF Live
<1>6. Pending' \subseteq Pending
  BY <1>3, <1>4 DEF Pending
<1>. QED
  BY <1>1, <1>2, <1>5, <1>6

\* What a request does to the row: it is inserted, refused or deleted.
RowInserted == ~exists /\ exists' /\ api.pc = "insert" /\ api'.pc = "ready" /\ doc' = NewDoc
RowRefused == ~exists /\ ~exists' /\ api'.pc \in {"insert", "gone"} /\ doc' = doc
RowDeleted == exists /\ ~exists' /\ api'.pc = "gone" /\ doc' = NewDoc

LEMMA RequestRow ==
  ASSUME OneRun, RunInv, Request
  PROVE  RowInserted \/ RowRefused \/ RowDeleted
<1>0. api \in [pc: ApiPc, snap: DocRow, nth: Nat] /\ exists \in BOOLEAN
  BY DEF RunInv, OnceInv, TypeOK
<1>1. exists <=> api.pc = "ready"
  BY DEF RunInv, OneRequest
<1>2. CASE UploadEnqueue \/ UploadUnavailable \/ UploadRejected
  <2>1. api.pc \in {"new", "insert"} /\ exists' = exists /\ doc' = doc
    BY <1>2 DEF UploadEnqueue, UploadUnavailable, UploadRejected, db, tables
  <2>2. api'.pc \in {"insert", "gone"}
    BY <1>0, <1>2 DEF UploadEnqueue, UploadUnavailable, UploadRejected
  <2>. QED
    BY <1>0, <1>1, <2>1, <2>2 DEF RowRefused
<1>3. CASE UploadInsert
  BY <1>0, <1>1, <1>3 DEF UploadInsert, RowInserted
<1>4. CASE DeleteDocument
  BY <1>0, <1>1, <1>4 DEF DeleteDocument, RowDeleted
<1>5. CASE ApiLost
  <2>1. api.pc = "insert" /\ exists' = exists /\ doc' = doc
    BY <1>5 DEF ApiLost, db, tables, RunInv, OneRequest
  <2>2. api'.pc = "gone"
    BY <1>0, <1>1, <1>5, <2>1 DEF ApiLost
  <2>. QED
    BY <1>0, <1>1, <2>1, <2>2 DEF RowRefused
<1>. QED
  BY <1>2, <1>3, <1>4, <1>5, RequestKeeps DEF Request

LEMMA RequestRun ==
  ASSUME OneRun, RunInv, OnceInv', Request
  PROVE  RunInv'
<1>1. /\ worker' = worker /\ gen' = gen /\ api'.nth = 0 /\ armings' = armings
      /\ Live' \subseteq Live /\ Pending' \subseteq Pending
  BY RequestKeeps
<1>2. MessagesOfRun'
  BY <1>1 DEF RunInv, MessagesOfRun
<1>3. OneRequest'
  BY <1>1, RequestRow DEF RowInserted, RowRefused, RowDeleted, RunInv, OneRequest
<1>4. doc'.latch => doc.latch
  BY RequestRow DEF RowInserted, RowRefused, RowDeleted, NewDoc
<1>5. IngestOnce'
  <2>1. NotIngested => NotIngested'
    BY <1>1, <1>4 DEF NotIngested
  <2>2. Ingested => Ingested'
    <3>1. CASE RowRefused /\ api'.pc = "insert"
      <4>1. api.pc = "new" \/ api.pc = "insert"
        BY <3>1 DEF RowRefused, RunInv, OneRequest, Request, UploadEnqueue, UploadUnavailable,
                    UploadInsert, UploadRejected, DeleteDocument, ApiLost,
                    ReprocessLoad, ReprocessCommit, ReprocessEnqueue, ReprocessUnavailable
      <4>. QED
        BY <4>1 DEF Ingested
    <3>2. CASE ~(RowRefused /\ api'.pc = "insert")
      <4>1. api'.pc \in {"ready", "gone"}
        BY <3>2, RequestRow DEF RowInserted, RowRefused, RowDeleted
      <4>. QED
        BY <1>1, <4>1 DEF Ingested
    <3>. QED
      BY <3>1, <3>2
  <2>. QED
    BY <1>1, <2>1, <2>2 DEF RunInv, IngestOnce
<1>6. CASE RowInserted
  <2>1. NotIngested
    BY <1>6 DEF RowInserted, RunInv, IngestOnce, Ingested
  <2>2. \A n \in PageNo : PageMsg(n, 1) # DocMsg(0)
    BY DEF PageMsg, DocMsg
  <2>3. PagesWait'
    BY <1>1, <2>1, <2>2, PendingIsLive DEF PagesWait, NotIngested
  <2>4. ASSUME NEW w \in Worker, worker[w].pc \in {"latch", "enqueue"}
        PROVE  FALSE
    <3>1. worker[w].msg.task = "process_page"
      BY <2>4 DEF RunInv, OnceInv, InTask, PagePc, DocPc, FinalPc
    <3>2. Ingested
      BY <2>4, <3>1, PageHeld
    <3>. QED
      BY <1>6, <3>2 DEF RowInserted, Ingested
  <2>5. PagesSettled'
    BY <1>1, <1>6, <2>4 DEF PagesSettled, RowInserted, NewDoc
  <2>. QED
    BY <1>2, <1>3, <1>5, <2>3, <2>5 DEF RunInv
<1>7. CASE ~exists'
  BY <1>2, <1>3, <1>5, <1>7 DEF RunInv, PagesWait, PagesSettled
<1>. QED
  BY <1>6, <1>7, RequestRow DEF RowRefused, RowDeleted

LEMMA InitRun == Init => RunInv
<1> SUFFICES ASSUME Init
             PROVE  RunInv
  OBVIOUS
<1>1. \A w \in Worker : worker[w].pc = "idle"
  BY DEF Init, Idle
<1>2. \A w \in Worker : Held(w) = {} /\ Owed(w) = {} /\ Unstarted(w) = {}
  BY <1>1 DEF Held, Owed, Unstarted
<1>3. OwedByApi = {DocMsg(0)} /\ queue = {}
  BY DEF Init, OwedByApi
<1>4. Live = {DocMsg(0)}
  BY <1>2, <1>3 DEF Live
<1>5. NotIngested
  BY <1>4 DEF Init, NotIngested, NewDoc
<1>6. OneRequest /\ ~exists
  BY DEF Init, OneRequest
<1>7. IngestOnce
  BY <1>1, <1>5 DEF IngestOnce, NotIngested
<1>. QED
  BY <1>4, <1>6, <1>7, InitOnce DEF RunInv, MessagesOfRun, PagesWait, PagesSettled

LEMMA NextRun ==
  ASSUME OneRun
  PROVE  RunInv /\ [Next]_vars => RunInv'
<1> SUFFICES ASSUME RunInv, [Next]_vars
             PROVE  RunInv'
  OBVIOUS
<1>0. OnceInv'
  BY NextOnce DEF RunInv
<1>1. CASE Request
  BY <1>0, <1>1, RequestRun
<1>2. ASSUME NEW w \in Worker, TaskStep(w) \/ Failure(w)
      PROVE  RunInv'
  <2>1. CASE Deliver(w) \/ Ack(w) \/ WorkerLost(w) \/ HardTimeout(w) \/ ExceptRaises(w)
    BY <1>0, <2>1, PoolRun
  <2>2. CASE DocTask(w) \/ DocIngestRaises(w) \/ DocFanOutRaises(w)
    BY <1>0, <2>2, DocRun, ReplaceRun DEF DocTask
  <2>3. CASE PageTask(w) \/ PageRaises(w) \/ PageTailRaises(w)
    BY <1>0, <2>3, PageRun, LatchRun, EnqueueRun DEF PageTask
  <2>4. CASE FinalTask(w) \/ FinalRaises(w)
    BY <1>0, <2>4, FinalRun
  <2>. QED
    BY <1>2, <2>1, <2>2, <2>3, <2>4 DEF TaskStep, Failure
<1>3. CASE UNCHANGED vars
  <2>1. /\ worker' = worker /\ queue' = queue /\ api' = api /\ exists' = exists /\ doc' = doc
        /\ gen' = gen /\ pages' = pages /\ armings' = armings
    BY <1>3 DEF vars
  <2>2. Live' = Live /\ Pending' = Pending
    BY <2>1 DEF Live, Pending, Held, Owed, Unstarted, OwedByApi
  <2>. QED
    BY <1>0, <2>1, <2>2 DEF RunInv, OneRequest, MessagesOfRun, IngestOnce, NotIngested, Ingested,
                            PagesWait, PagesSettled, AllTerminal
<1>. QED
  BY <1>1, <1>2, <1>3 DEF Next

\* In one run of a document finalize_document works on terminal pages: however
\* many workers count, raise, cannot reach the broker or are killed, the latch
\* is won only when every page is completed or failed, and no page task is left
\* that could take one back to processing.
THEOREM FinalizedAfterAllPages ==
  ASSUME OneRun
  PROVE  Spec => []FinalizeAfterAllPages
<1>1. Spec => []RunInv
  BY InitRun, NextRun, PTL DEF Spec
<1>2. RunInv => FinalizeAfterAllPages
  <2> SUFFICES ASSUME RunInv, exists, NEW m \in LiveFor("finalize_document")
               PROVE  AllTerminal
    BY DEF FinalizeAfterAllPages, AllTerminal
  <2>1. m \in Live /\ m.task = "finalize_document"
    BY DEF LiveFor
  <2>2. m.run = 0
    BY <2>1, MessageOf DEF RunInv, FinalMsg
  <2>3. doc.latch
    BY <2>1, <2>2 DEF RunInv, OnceInv, LiveNumbered, Numbered, OneRequest
  <2>. QED
    BY <2>3 DEF RunInv, PagesSettled
<1>. QED
  BY <1>1, <1>2, PTL

-----------------------------------------------------------------------------
(* The questions of one finalization, with at most one reprocess *)

\* A finalization that has not committed: its message waits, or its task is in
\* front of the commit.
Rebuilding(w) == worker[w].pc \in {"stitch", "delete", "save"}
Unsaved(m) == m \in Pending \/ \E w \in Worker : Rebuilding(w) /\ worker[w].msg = m

\* Arming a of the latch may still bring a commit.
ToCome(a) == \/ a > armings
             \/ a = armings /\ ~doc.latch
             \/ Unsaved(FinalMsg(a))

\* A finalization that leaves the documents row unlocked has found the role of
\* an earlier one; between its DELETE and its commit nobody else adds questions.
Rebuilder(w) ==
  /\ Rebuilding(w) /\ worker[w].snap.role => saves > 0
  /\ worker[w].pc \in {"delete", "save"} /\ ~worker[w].locks => worker[w].snap.role
  /\ worker[w].pc = "save" => questions \subseteq worker[w].old

ArmingsBound == /\ armings <= api.nth /\ (api.pc = "reset" => armings < api.nth)
                /\ api.nth <= MaxReprocess

\* Once a finalization has committed, at most one other is to come.
RebuiltInv ==
  /\ OnceInv
  /\ ArmingsBound
  /\ api.pc \in {"new", "insert"} => saves = 0
  /\ doc.role => saves > 0
  /\ exists /\ saves > 0 => ~ToCome(0) \/ ~ToCome(1)
  /\ \A w \in Worker : Rebuilder(w)
  /\ QuestionsRebuilt

LEMMA BoundNext ==
  ASSUME OnceInv, ArmingsBound, [Next]_vars
  PROVE  ArmingsBound'
<1>0. /\ api \in [pc: ApiPc, snap: DocRow, nth: Nat] /\ armings \in Nat
      /\ MaxReprocess \in Nat
  BY BoundAssumption DEF OnceInv, TypeOK
<1>1. CASE ReprocessLoad
  <2>1. /\ api' = [pc |-> "reset", snap |-> doc, nth |-> api.nth + 1]
        /\ armings' = armings /\ api.nth < MaxReprocess
    BY <1>1 DEF ReprocessLoad
  <2>. QED
    BY <1>0, <2>1 DEF ArmingsBound
<1>2. CASE ReprocessCommit
  <2>1. /\ api' = [api EXCEPT !.pc = "requeue", !.snap = NewDoc] /\ api.pc = "reset"
        /\ armings' = IF api.snap.latch THEN armings + 1 ELSE armings
    BY <1>2 DEF ReprocessCommit
  <2>2. api'.pc = "requeue" /\ api'.nth = api.nth
    BY <1>0, <2>1
  <2>. QED
    BY <1>0, <2>1, <2>2 DEF ArmingsBound
<1>3. CASE UploadEnqueue \/ UploadUnavailable \/ UploadInsert \/ UploadRejected
           \/ ReprocessEnqueue \/ ReprocessUnavailable \/ DeleteDocument \/ ApiLost
  <2>1. api'.nth = api.nth /\ api'.pc # "reset" /\ armings' = armings
    BY <1>0, <1>3 DEF UploadEnqueue, UploadUnavailable, UploadInsert, UploadRejected,
                      ReprocessEnqueue, ReprocessUnavailable, DeleteDocument, ApiLost
  <2>. QED
    BY <2>1 DEF ArmingsBound
<1>4. ASSUME NEW w \in Worker, TaskStep(w) \/ Failure(w)
      PROVE  ArmingsBound'
  <2>1. api' = api /\ armings' = armings
    BY <1>4 DEF TaskStep, Failure, DocTask, PageTask, FinalTask, Deliver, Ack, WorkerLost,
         HardTimeout, ExceptRaises, DocStart, DocIngest, DocReplacePages, DocFanOut, DocExcept, DocIngestRaises,
         DocFanOutRaises, PageStart, PageCommit, PageExcept, PageCountRemaining, PageLatch,
         PageEnqueueFinal, PageRaises, PageTailRaises, FinalStart, FinalStitch, FinalDelete,
         FinalSave, FinalNotify, FinalExcept, FinalRaises
  <2>. QED
    BY <2>1 DEF ArmingsBound
<1>5. CASE UNCHANGED vars
  BY <1>5 DEF ArmingsBound, vars
<1>. QED
  BY <1>1, <1>2, <1>3, <1>4, <1>5 DEF Next, Request

\* A step of w that commits no questions.
LEMMA SteadyStep ==
  ASSUME RebuiltInv, OnceInv', ArmingsBound', NEW w \in Worker,
         \A v \in Worker \ {w} : worker'[v] = worker[v],
         UNCHANGED <<questions, saves, exists, api>>, doc'.role = doc.role,
         \A a \in {0, 1} : ToCome(a)' => ToCome(a),
         Rebuilder(w)'
  PROVE  RebuiltInv'
<1>1. ASSUME NEW v \in Worker
      PROVE  Rebuilder(v)'
  <2>1. CASE v # w
    <3>1. Rebuilder(v) /\ worker'[v] = worker[v]
      BY <2>1 DEF RebuiltInv
    <3>. QED
      BY <3>1 DEF Rebuilder, Rebuilding
  <2>. QED
    BY <2>1
<1>2. exists' /\ saves' > 0 => ~ToCome(0)' \/ ~ToCome(1)'
  BY DEF RebuiltInv
<1>3. QuestionsRebuilt'
  BY DEF RebuiltInv, QuestionsRebuilt
<1>. QED
  BY <1>1, <1>2, <1>3 DEF RebuiltInv

LEMMA KeepsToCome ==
  ASSUME NEW w \in Worker, KeepsMessages, \A v \in Worker \ {w} : worker'[v] = worker[v],
         Rebuilding(w)' => \/ Rebuilding(w) /\ worker'[w].msg = worker[w].msg
                           \/ worker'[w].msg \in Pending
  PROVE  \A a \in {0, 1} : ToCome(a)' => ToCome(a)
<1>1. ASSUME NEW m, Unsaved(m)'
      PROVE  Unsaved(m)
  <2>1. CASE m \in Pending'
    BY <2>1 DEF Unsaved, KeepsMessages
  <2>2. ASSUME NEW v \in Worker, Rebuilding(v)', worker'[v].msg = m
        PROVE  Unsaved(m)
    <3>1. CASE v = w
      BY <2>2, <3>1 DEF Unsaved
    <3>2. CASE v # w
      BY <2>2, <3>2 DEF Unsaved, Rebuilding
    <3>. QED
      BY <3>1, <3>2
  <2>. QED
    BY <1>1, <2>1, <2>2 DEF Unsaved
<1>2. \A a \in {0, 1} : FinalMsg(a)' = FinalMsg(a)
  BY DEF FinalMsg
<1>. QED
  BY <1>1, <1>2 DEF ToCome, KeepsMessages

\* ... outside of the rebuild.
LEMMA SteadyOutside ==
  ASSUME RebuiltInv, OnceInv', ArmingsBound', NEW w \in Worker, KeepsMessages,
         \A v \in Worker \ {w} : worker'[v] = worker[v],
         UNCHANGED <<questions, saves>>, doc'.role = doc.role, ~Rebuilding(w)'
  PROVE  RebuiltInv'
<1>1. \A a \in {0, 1} : ToCome(a)' => ToCome(a)
  BY KeepsToCome
<1>2. Rebuilder(w)'
  BY DEF Rebuilder, Rebuilding
<1>. QED
  BY <1>1, <1>2, SteadyStep DEF KeepsMessages

LEMMA PoolRebuilt ==
  ASSUME "crash" \notin FaultKind, RebuiltInv, OnceInv', ArmingsBound', NEW w \in Worker,
         Deliver(w) \/ Ack(w) \/ WorkerLost(w) \/ HardTimeout(w) \/ ExceptRaises(w)
  PROVE  RebuiltInv'
<1>0. worker \in [Worker -> WorkerState]
  BY DEF RebuiltInv, OnceInv, TypeOK
<1>1. ~WorkerLost(w)
  BY DEF WorkerLost, Fault
<1>2. CASE Deliver(w)
  <2>1. worker'[w].pc = "start" /\ \A v \in Worker \ {w} : worker'[v] = worker[v]
    BY <1>0, <1>2 DEF Deliver, Idle
  <2>2. UNCHANGED <<questions, saves, doc>>
    BY <1>2 DEF Deliver, db, tables
  <2>. QED
    BY <1>2, <2>1, <2>2, DeliverKeeps, SteadyOutside DEF RebuiltInv, Rebuilding
<1>3. CASE Ack(w) \/ HardTimeout(w) \/ ExceptRaises(w)
  <2>1. /\ Quiet(w) /\ worker'[w].pc \in {"idle", "return"}
        /\ UNCHANGED <<questions, saves, doc>>
    BY <1>3, LeavingQuiet DEF RebuiltInv, tables
  <2>. QED
    BY <2>1, QuietKeeps, SteadyOutside DEF Rebuilding, Quiet
<1>. QED
  BY <1>1, <1>2, <1>3

\* The row keeps its role in a flush that does not set it.
LEMMA FlushKeepsRole ==
  ASSUME NEW snap, NEW new, new.role = snap.role
  PROVE  Flush(snap, new).role = doc.role
BY DEF Flush

LEMMA DocRebuilt ==
  ASSUME RebuiltInv, OnceInv', ArmingsBound', NEW w \in Worker,
         \/ DocStart(w) \/ DocIngest(w) \/ DocExcept(w) \/ DocIngestRaises(w)
         \/ DocFanOutRaises(w) \/ DocFanOut(w)
  PROVE  RebuiltInv'
<1>0. worker \in [Worker -> WorkerState] /\ doc \in DocRow
  BY DEF RebuiltInv, OnceInv, TypeOK
<1>1. /\ \A v \in Worker \ {w} : worker'[v] = worker[v]
      /\ UNCHANGED <<questions, saves>>
  BY <1>0 DEF DocStart, DocIngest, DocExcept, DocIngestRaises, DocFanOutRaises, DocFanOut,
              db, tables
<1>2. doc'.role = doc.role
  BY <1>0 DEF DocStart, DocIngest, DocExcept, DocIngestRaises, DocFanOutRaises, DocFanOut,
              db, tables, DocRow
<1>3. /\ worker'[w].pc \in DocPc \cup {"return"}
  <2>1. CASE DocStart(w)
    <3>1. \/ worker' = [worker EXCEPT ![w].pc = "ingest",
                          ![w].snap = [doc EXCEPT !.status = "processing", !.progress = 10]]
          \/ worker' = [worker EXCEPT ![w] = Returning(w)]
      BY <2>1 DEF DocStart
    <3>. QED
      BY <1>0, <3>1 DEF WorkerState, Returning, Idle, DocPc
  <2>2. CASE DocIngest(w) \/ DocIngestRaises(w) \/ DocFanOutRaises(w)
    BY <1>0, <2>2 DEF DocIngest, DocIngestRaises, DocFanOutRaises, WorkerState, DocPc
  <2>3. CASE DocExcept(w) \/ DocFanOut(w)
    BY <1>0, <2>3 DEF DocExcept, DocFanOut, At, WorkerState, Returning, Idle, DocPc
  <2>. QED
    BY <2>1, <2>2, <2>3
<1>4. KeepsMessages
  BY <1>3, DocQuiet, QuietKeeps, FanOutKeeps DEF RebuiltInv, DocPc
<1>. QED
  BY <1>1, <1>2, <1>3, <1>4, SteadyOutside DEF Rebuilding, DocPc

LEMMA ReplaceRebuilt ==
  ASSUME RebuiltInv, OnceInv', ArmingsBound', NEW w \in Worker, DocReplacePages(w)
  PROVE  RebuiltInv'
<1>0. worker \in [Worker -> WorkerState] /\ doc \in DocRow
  BY DEF RebuiltInv, OnceInv, TypeOK
<1>1. \A v \in Worker \ {w} : worker'[v] = worker[v]
  BY <1>0 DEF DocReplacePages
<1>2. UNCHANGED <<questions, saves, exists, api, armings, queue>>
  BY DEF DocReplacePages
<1>3. worker'[w].pc \in {"fanout", "doc_except"}
  <2>1. \/ worker' = [worker EXCEPT ![w].pc = "fanout", ![w].snap = NewDoc,
                                    ![w].row = gen + 1, ![w].next = 1]
        \/ worker' = [worker EXCEPT ![w].pc = "doc_except"]
    BY DEF DocReplacePages
  <2>. QED
    BY <1>0, <2>1 DEF WorkerState
<1>4. doc'.role = doc.role /\ doc'.latch = doc.latch
  <2>1. \/ doc' = doc
        \/ doc' = Flush(worker[w].snap, [worker[w].snap EXCEPT !.done = 0, !.progress = 20])
    BY DEF DocReplacePages
  <2>2. worker[w].snap \in DocRow
    BY <1>0 DEF WorkerState
  <2>3. /\ [worker[w].snap EXCEPT !.done = 0, !.progress = 20].role = worker[w].snap.role
        /\ [worker[w].snap EXCEPT !.done = 0, !.progress = 20].latch = worker[w].snap.latch
    BY <2>2 DEF DocRow
  <2>4. CASE doc' = doc
    BY <2>4
  <2>5. CASE doc' = Flush(worker[w].snap, [worker[w].snap EXCEPT !.done = 0, !.progress = 20])
    BY <2>3, <2>5 DEF Flush
  <2>. QED
    BY <2>1, <2>4, <2>5
<1>5. ASSUME NEW a \in {0, 1}, ToCome(a)'
      PROVE  ToCome(a)
  <2>1. FinalMsg(a) \notin Unstarted(w)' \cup Owed(w)'
    BY <1>3 DEF Unstarted, Owed, FinalMsg, PageMsg
  <2>2. \A v \in Worker \ {w} : Unstarted(v)' = Unstarted(v) /\ Owed(v)' = Owed(v)
    BY <1>1 DEF Unstarted, Owed
  <2>3. OwedByApi' = OwedByApi
    BY <1>2 DEF OwedByApi
  <2>4. FinalMsg(a) \in Pending' => FinalMsg(a) \in Pending
    BY <1>2, <2>1, <2>2, <2>3 DEF Pending
  <2>5. \A v \in Worker : Rebuilding(v)' => Rebuilding(v) /\ worker'[v].msg = worker[v].msg
    BY <1>1, <1>3 DEF Rebuilding
  <2>6. FinalMsg(a)' = FinalMsg(a)
    BY DEF FinalMsg
  <2>. QED
    BY <1>2, <1>4, <1>5, <2>4, <2>5, <2>6 DEF ToCome, Unsaved
<1>6. Rebuilder(w)'
  BY <1>3 DEF Rebuilder, Rebuilding
<1>. QED
  BY <1>1, <1>2, <1>4, <1>5, <1>6, SteadyStep

LEMMA PageRebuilt ==
  ASSUME RebuiltInv, OnceInv', ArmingsBound', NEW w \in Worker,
         \/ PageStart(w) \/ PageCommit(w) \/ PageExcept(w) \/ PageCountRemaining(w)
         \/ PageRaises(w) \/ PageTailRaises(w) \/ PageEnqueueFinal(w)
         \/ PageLatch(w) /\ ~LatchIsFree
  PROVE  RebuiltInv'
<1>0. worker \in [Worker -> WorkerState] /\ doc \in DocRow
  BY DEF RebuiltInv, OnceInv, TypeOK
<1>1. /\ \A v \in Worker \ {w} : worker'[v] = worker[v]
      /\ UNCHANGED <<questions, saves>>
  BY <1>0 DEF PageStart, PageCommit, PageExcept, PageCountRemaining, PageRaises, PageTailRaises,
              PageEnqueueFinal, PageLatch, db, tables
<1>2. doc'.role = doc.role
  <2>1. CASE PageCommit(w)
    <3>1. doc' = doc \/ doc' = Flush(worker[w].snap, Counted(worker[w].snap, worker[w].msg.page))
      BY <2>1 DEF PageCommit
    <3>2. worker[w].snap \in DocRow
      BY <1>0 DEF WorkerState
    <3>3. Counted(worker[w].snap, worker[w].msg.page).role = worker[w].snap.role
      BY <3>2 DEF Counted, DocRow
    <3>. QED
      BY <3>1, <3>3, FlushKeepsRole
  <2>2. CASE ~PageCommit(w)
    BY <2>2 DEF PageStart, PageExcept, PageCountRemaining, PageRaises, PageTailRaises,
                PageEnqueueFinal, PageLatch, db, tables
  <2>. QED
    BY <2>1, <2>2
<1>3. worker'[w].pc \in (PagePc \ {"enqueue"}) \cup {"return"}
  <2>1. CASE PageStart(w)
    <3>1. \/ worker' = [worker EXCEPT ![w].pc = "extract", ![w].row = gen, ![w].snap = doc]
          \/ worker' = [worker EXCEPT ![w] = Returning(w)]
      BY <2>1 DEF PageStart
    <3>. QED
      BY ZenonT(60), <1>0, <3>1 DEF WorkerState, Returning, Idle, PagePc
  <2>2. CASE PageCommit(w) \/ PageExcept(w)
    <3>1. \/ worker' = [worker EXCEPT ![w].pc = "count", ![w].snap = NewDoc]
          \/ worker' = [worker EXCEPT ![w].pc = "page_except"]
          \/ worker' = [worker EXCEPT ![w].pc = "count", ![w].snap = NewDoc, ![w].failing = TRUE]
      BY <2>2 DEF PageCommit, PageExcept
    <3>. QED
      BY <1>0, <3>1 DEF WorkerState, PagePc
  <2>3. CASE \/ PageCountRemaining(w) \/ PageRaises(w) \/ PageTailRaises(w)
             \/ PageEnqueueFinal(w) \/ (PageLatch(w) /\ ~LatchIsFree)
    <3>1. \/ worker' = [worker EXCEPT ![w].pc = "latch"]
          \/ worker' = [worker EXCEPT ![w].pc = "page_except"]
          \/ worker' = [worker EXCEPT ![w] = Returning(w)]
      BY <1>0, <2>3 DEF PageCountRemaining, PageRaises, PageTailRaises, PageEnqueueFinal, PageLatch
    <3>. QED
      BY <1>0, <3>1 DEF WorkerState, Returning, Idle, PagePc
  <2>. QED
    BY <2>1, <2>2, <2>3
<1>4. KeepsMessages
  <2>1. CASE PageEnqueueFinal(w)
    BY <2>1, EnqueueKeeps DEF RebuiltInv
  <2>2. CASE ~PageEnqueueFinal(w)
    BY <1>3, <2>2, PageQuiet, QuietKeeps DEF RebuiltInv, PagePc
  <2>. QED
    BY <2>1, <2>2
<1>. QED
  BY <1>1, <1>2, <1>3, <1>4, SteadyOutside DEF Rebuilding, PagePc

\* Winning the latch makes a message that was to come.
LEMMA LatchRebuilt ==
  ASSUME RebuiltInv, OnceInv', ArmingsBound', NEW w \in Worker, PageLatch(w), LatchIsFree
  PROVE  RebuiltInv'
<1>0. worker \in [Worker -> WorkerState] /\ doc \in DocRow
  BY DEF RebuiltInv, OnceInv, TypeOK
<1>1. /\ worker' = [worker EXCEPT ![w].pc = "enqueue", ![w].arming = armings]
      /\ doc' = [doc EXCEPT !.latch = TRUE] /\ ~doc.latch
      /\ UNCHANGED <<queue, api, armings, exists, questions, saves>>
  BY DEF PageLatch, LatchIsFree
<1>2. worker'[w].pc = "enqueue" /\ worker'[w].arming = armings
  BY <1>0, <1>1 DEF WorkerState
<1>3. \A v \in Worker \ {w} : worker'[v] = worker[v]
  BY <1>0, <1>1
<1>4. doc'.role = doc.role /\ doc'.latch
  BY <1>0, <1>1 DEF DocRow
<1>5. ASSUME NEW a \in {0, 1}, ToCome(a)'
      PROVE  ToCome(a)
  <2>1. SUFFICES ASSUME a # armings
                 PROVE  ToCome(a)
    BY <1>1 DEF ToCome
  <2>2. FinalMsg(a) \notin Unstarted(w)' \cup Owed(w)'
    BY <1>2, <2>1 DEF Unstarted, Owed, FinalMsg
  <2>3. \A v \in Worker \ {w} : Unstarted(v)' = Unstarted(v) /\ Owed(v)' = Owed(v)
    BY <1>3 DEF Unstarted, Owed
  <2>4. OwedByApi' = OwedByApi
    BY <1>1 DEF OwedByApi
  <2>5. FinalMsg(a) \in Pending' => FinalMsg(a) \in Pending
    BY <1>1, <2>2, <2>3, <2>4 DEF Pending
  <2>6. \A v \in Worker : Rebuilding(v)' => Rebuilding(v) /\ worker'[v].msg = worker[v].msg
    BY <1>2, <1>3 DEF Rebuilding
  <2>7. FinalMsg(a)' = FinalMsg(a)
    BY DEF FinalMsg
  <2>. QED
    BY <1>1, <1>5, <2>1, <2>5, <2>6, <2>7 DEF ToCome, Unsaved
<1>6. Rebuilder(w)'
  BY <1>2 DEF Rebuilder, Rebuilding
<1>. QED
  BY <1>1, <1>3, <1>4, <1>5, <1>6, SteadyStep

\* A finalize_document task and its arming.
LEMMA FinalArming ==
  ASSUME OnceInv, ArmingsBound, MaxReprocess <= 1, NEW w \in Worker,
         worker[w].pc # "idle", worker[w].msg.task = "finalize_document"
  PROVE  \E a \in {0, 1} : /\ worker[w].msg = FinalMsg(a) /\ a <= armings
                           /\ exists /\ a = armings => doc.latch
<1>1. worker[w].msg \in Live
  BY HeldIsLive
<1>2. Numbered(worker[w].msg)
  BY <1>1 DEF OnceInv, LiveNumbered
<1>3. worker[w].msg \in Message
  BY <1>1, LiveTyped DEF OnceInv
<1>4. worker[w].msg = FinalMsg(worker[w].msg.run)
  BY <1>2, <1>3 DEF Numbered, Message, FinalMsg
<1>5. armings \in Nat /\ api.nth \in Nat /\ MaxReprocess \in Nat
  BY BoundAssumption DEF OnceInv, TypeOK
<1>6. worker[w].msg.run \in {0, 1}
  BY <1>2, <1>3, <1>5 DEF Numbered, Message, ArmingsBound
<1>. QED
  BY <1>2, <1>4, <1>6 DEF Numbered

LEMMA FinalRebuilt ==
  ASSUME RebuiltInv, OnceInv', ArmingsBound', NEW w \in Worker,
         \/ FinalStart(w) \/ FinalStitch(w) \/ FinalDelete(w) \/ FinalNotify(w) \/ FinalExcept(w)
         \/ FinalRaises(w)
         \/ FinalSave(w) /\ ~exists
  PROVE  RebuiltInv'
<1>0. worker \in [Worker -> WorkerState] /\ doc \in DocRow
  BY DEF RebuiltInv, OnceInv, TypeOK
<1>1. /\ \A v \in Worker \ {w} : worker'[v] = worker[v]
      /\ KeepsMessages
  BY FinalGoesOn DEF FinalTask, RebuiltInv
<1>2. /\ UNCHANGED <<questions, saves, exists, api>>
      /\ doc'.role = doc.role
  BY <1>0 DEF FinalStart, FinalStitch, FinalDelete, FinalNotify, FinalExcept, FinalRaises, FinalSave,
              db, tables, DocRow
\* The message is the same, and the task is in front of its commit as before.
<1>3. ASSUME Rebuilding(w)' => /\ worker'[w].msg = worker[w].msg
                               /\ worker[w].pc \in {"start", "stitch", "delete", "save"},
             Rebuilder(w)'
      PROVE  RebuiltInv'
  <2>1. Rebuilding(w)' => \/ Rebuilding(w) /\ worker'[w].msg = worker[w].msg
                          \/ worker'[w].msg \in Pending
    BY <1>3, StartedIsPending DEF Rebuilding
  <2>. QED
    BY <1>1, <1>2, <1>3, <2>1, KeepsToCome, SteadyStep
<1>4. CASE FinalStart(w) /\ exists
  <2>1. /\ worker' = [worker EXCEPT ![w].pc = "stitch", ![w].snap = doc']
        /\ doc' = [doc EXCEPT !.progress = 90] /\ worker[w].pc = "start"
    BY <1>4 DEF FinalStart, At
  <2>2. worker'[w] = [worker[w] EXCEPT !.pc = "stitch", !.snap = doc'] /\ worker[w] \in WorkerState
    BY <1>0, <2>1
  <2>3. worker'[w].pc = "stitch" /\ worker'[w].snap = doc' /\ worker'[w].msg = worker[w].msg
    BY <2>2 DEF WorkerState
  <2>4. Rebuilder(w)'
    BY <1>2, <2>3 DEF RebuiltInv, Rebuilder, Rebuilding
  <2>. QED
    BY <1>3, <2>1, <2>3, <2>4
<1>5. CASE FinalStitch(w)
  <2>1. PICK changes \in BOOLEAN :
          /\ changes \/ worker[w].snap.role
          /\ worker' = [worker EXCEPT ![w] =
                         IF changes /\ ~exists THEN [@ EXCEPT !.pc = "final_except"]
                         ELSE [@ EXCEPT !.pc = "delete", !.view = pages, !.row = gen,
                                        !.locks = changes]]
    BY <1>5 DEF FinalStitch
  <2>2. worker[w].pc = "stitch" /\ (worker[w].snap.role => saves > 0)
    BY <1>5 DEF FinalStitch, At, RebuiltInv, Rebuilder, Rebuilding
  <2>3. CASE changes /\ ~exists
    <3>1. worker'[w].pc = "final_except"
      BY <1>0, <2>1, <2>3 DEF WorkerState
    <3>. QED
      BY <1>3, <3>1 DEF Rebuilder, Rebuilding
  <2>4. CASE ~(changes /\ ~exists)
    <3>1. /\ worker'[w] = [worker[w] EXCEPT !.pc = "delete", !.view = pages, !.row = gen,
                                            !.locks = changes]
          /\ worker[w] \in WorkerState
      BY <1>0, <2>1, <2>4
    <3>2. /\ worker'[w].pc = "delete" /\ worker'[w].locks = changes
          /\ worker'[w].snap = worker[w].snap /\ worker'[w].msg = worker[w].msg
      BY <3>1 DEF WorkerState
    <3>3. Rebuilder(w)'
      BY <1>2, <2>1, <2>2, <3>2 DEF Rebuilder, Rebuilding
    <3>. QED
      BY <1>3, <2>2, <3>2, <3>3
  <2>. QED
    BY <2>3, <2>4
<1>6. CASE FinalDelete(w)
  <2>1. worker' = [worker EXCEPT ![w].pc = "save", ![w].old = questions] /\ worker[w].pc = "delete"
    BY <1>6 DEF FinalDelete, At
  <2>2. worker'[w] = [worker[w] EXCEPT !.pc = "save", !.old = questions] /\ worker[w] \in WorkerState
    BY <1>0, <2>1
  <2>3. /\ worker'[w].pc = "save" /\ worker'[w].old = questions
        /\ worker'[w].locks = worker[w].locks
        /\ worker'[w].snap = worker[w].snap /\ worker'[w].msg = worker[w].msg
    BY <2>2 DEF WorkerState
  <2>4. Rebuilder(w)
    BY DEF RebuiltInv
  <2>5. Rebuilder(w)'
    BY <1>2, <2>1, <2>3, <2>4 DEF Rebuilder, Rebuilding
  <2>. QED
    BY <1>3, <2>1, <2>3, <2>5
<1>7. CASE \/ FinalStart(w) /\ ~exists
           \/ FinalNotify(w) \/ FinalExcept(w) \/ FinalRaises(w)
           \/ FinalSave(w) /\ ~exists
  <2>1. \/ worker' = [worker EXCEPT ![w] = Returning(w)]
        \/ worker' = [worker EXCEPT ![w].pc = "final_except"]
    BY <1>7 DEF FinalStart, FinalNotify, FinalExcept, FinalRaises, FinalSave
  <2>2. worker'[w].pc \in {"return", "final_except"}
    BY <1>0, <2>1 DEF WorkerState, Returning, Idle
  <2>. QED
    BY <1>3, <2>2 DEF Rebuilder, Rebuilding
<1>. QED
  BY <1>4, <1>5, <1>6, <1>7

\* The commit: no other finalization is between its DELETE and its commit, for
\* the two would both lock the row, or be the second to commit.
LEMMA SaveRebuilt ==
  ASSUME MaxReprocess <= 1, RebuiltInv, OnceInv', ArmingsBound', NEW w \in Worker,
         FinalSave(w), exists
  PROVE  RebuiltInv'
<1>0. worker \in [Worker -> WorkerState] /\ doc \in DocRow /\ saves \in Nat
  BY DEF RebuiltInv, OnceInv, TypeOK
<1>1. /\ \A v \in Worker \ {w} : worker'[v] = worker[v]
      /\ KeepsMessages
  BY FinalGoesOn DEF FinalTask, RebuiltInv
<1>2. /\ worker[w].pc = "save" /\ worker[w].msg.task = "finalize_document"
      /\ questions' = Surviving(w) \cup {BatchOf(w)} /\ saves' = saves + 1
      /\ worker' = [worker EXCEPT ![w].pc = "notify"]
      /\ RowUnlocked(Worker \ {w})
  BY DEF FinalSave, At
<1>3. worker'[w].pc = "notify" /\ worker'[w].msg = worker[w].msg
  BY <1>0, <1>2 DEF WorkerState
<1>4. PICK a \in {0, 1} : worker[w].msg = FinalMsg(a) /\ a <= armings /\ (a = armings => doc.latch)
  BY <1>2, FinalArming DEF RebuiltInv
<1>5. ASSUME NEW v \in Worker \ {w}
      PROVE  Rebuilder(v)'
  <2>1. worker[v].pc # "save"
    <3>1. SUFFICES ASSUME worker[v].pc = "save"
                   PROVE  FALSE
      OBVIOUS
    <3>2. worker[v].msg.task = "finalize_document"
      BY <3>1 DEF RebuiltInv, OnceInv, InTask, FinalPc
    <3>3. PICK b \in {0, 1} : worker[v].msg = FinalMsg(b)
      BY <3>1, <3>2, FinalArming DEF RebuiltInv
    <3>4. a # b
      BY <1>2, <1>4, <3>1, <3>3, HeldOnce DEF RebuiltInv
    <3>5. ToCome(a) /\ ToCome(b)
      BY <1>2, <1>4, <3>1, <3>3 DEF ToCome, Unsaved, Rebuilding
    <3>6. ~(saves > 0)
      BY <3>4, <3>5 DEF RebuiltInv
    <3>7. worker[v].locks
      BY <3>1, <3>6 DEF RebuiltInv, Rebuilder, Rebuilding
    <3>. QED
      BY <1>2, <3>1, <3>7 DEF RowUnlocked
  <2>2. Rebuilder(v) /\ worker'[v] = worker[v]
    BY <1>1 DEF RebuiltInv
  <2>. QED
    BY <1>0, <1>2, <2>1, <2>2 DEF Rebuilder, Rebuilding
<1>6. Rebuilder(w)'
  BY <1>3 DEF Rebuilder, Rebuilding
<1>7. ~ToCome(a)'
  <2>1. FinalMsg(a) \notin Pending'
    BY <1>3, <1>4, Begun
  <2>2. ASSUME NEW v \in Worker, Rebuilding(v)', worker'[v].msg = FinalMsg(a)
        PROVE  FALSE
    <3>1. v # w
      BY <1>3, <2>2 DEF Rebuilding
    <3>2. worker[v].pc # "idle" /\ worker[v].msg = worker[w].msg
      BY <1>1, <1>4, <2>2, <3>1 DEF Rebuilding
    <3>. QED
      BY <1>2, <3>1, <3>2, HeldOnce DEF RebuiltInv
  <2>3. armings' = armings /\ doc'.latch = doc.latch /\ armings \in Nat
    BY <1>1 DEF KeepsMessages, RebuiltInv, OnceInv, TypeOK
  <2>4. FinalMsg(a)' = FinalMsg(a)
    BY DEF FinalMsg
  <2>. QED
    BY <1>4, <2>1, <2>2, <2>3, <2>4 DEF ToCome, Unsaved
<1>8. QuestionsRebuilt'
  <2>1. Surviving(w) = {}
    BY <1>2 DEF RebuiltInv, Rebuilder, Surviving
  <2>. QED
    BY <1>2, <2>1 DEF QuestionsRebuilt
<1>9. api'.pc \notin {"new", "insert"}
  BY <1>1 DEF KeepsMessages, RebuiltInv, OnceInv, InsertedFirst
<1>10. saves' > 0
  BY <1>0, <1>2
<1>11. ~ToCome(0)' \/ ~ToCome(1)'
  BY <1>7
<1>. QED
  BY <1>5, <1>6, <1>8, <1>9, <1>10, <1>11 DEF RebuiltInv

LEMMA RequestRebuilt ==
  ASSUME RebuiltInv, OnceInv', ArmingsBound', Request
  PROVE  RebuiltInv'
<1>0. /\ api \in [pc: ApiPc, snap: DocRow, nth: Nat] /\ doc \in DocRow /\ armings \in Nat
      /\ exists \in BOOLEAN
  BY DEF RebuiltInv, OnceInv, TypeOK
<1>1. worker' = worker /\ saves' = saves
  BY DEF Request, UploadEnqueue, UploadUnavailable, UploadInsert, UploadRejected, ReprocessLoad,
         ReprocessCommit, ReprocessEnqueue, ReprocessUnavailable, DeleteDocument, ApiLost,
         db, tables
<1>2. questions' = questions \/ questions' = {}
  BY DEF Request, UploadEnqueue, UploadUnavailable, UploadInsert, UploadRejected, ReprocessLoad,
         ReprocessCommit, ReprocessEnqueue, ReprocessUnavailable, DeleteDocument, ApiLost,
         db, tables
<1>3. \A w \in Worker : Rebuilder(w)'
  BY <1>1, <1>2 DEF RebuiltInv, Rebuilder, Rebuilding
<1>4. QuestionsRebuilt'
  BY <1>2 DEF RebuiltInv, QuestionsRebuilt
<1>5. doc'.role => doc.role
  <2>1. CASE ReprocessCommit
    <3>1. doc' = Flush(api.snap, [api.snap EXCEPT !.status = "queued", !.progress = 0,
                                                  !.latch = FALSE])
      BY <2>1 DEF ReprocessCommit
    <3>2. [api.snap EXCEPT !.status = "queued", !.progress = 0, !.latch = FALSE].role = api.snap.role
      BY <1>0 DEF DocRow
    <3>. QED
      BY <3>1, <3>2, FlushKeepsRole
  <2>2. CASE ~ReprocessCommit
    <3>1. doc' = doc \/ doc' = NewDoc
      BY <2>2 DEF Request, UploadEnqueue, UploadUnavailable, UploadInsert, UploadRejected,
           ReprocessLoad, ReprocessEnqueue, ReprocessUnavailable, DeleteDocument, ApiLost,
           db, tables
    <3>. QED
      BY <3>1 DEF NewDoc
  <2>. QED
    BY <2>1, <2>2
<1>6. api'.pc \in {"new", "insert"} => api.pc \in {"new", "insert"}
  <2>1. CASE UploadEnqueue
    BY <2>1 DEF UploadEnqueue
  <2>2. CASE ReprocessLoad
    BY <2>2 DEF ReprocessLoad
  <2>3. CASE ~UploadEnqueue /\ ~ReprocessLoad
    <3>1. api'.pc \in {"ready", "gone", "requeue"}
      BY <1>0, <2>3 DEF Request, UploadUnavailable, UploadInsert, UploadRejected, ReprocessCommit,
           ReprocessEnqueue, ReprocessUnavailable, DeleteDocument, ApiLost
    <3>. QED
      BY <3>1
  <2>. QED
    BY <2>1, <2>2, <2>3
<1>7. exists' /\ saves' > 0 => ~ToCome(0)' \/ ~ToCome(1)'
  <2>1. CASE UploadInsert
    <3>1. saves' = 0
      BY <1>1, <2>1 DEF UploadInsert, RebuiltInv
    <3>. QED
      BY <3>1
  <2>2. CASE DeleteDocument
    BY <2>2 DEF DeleteDocument
  <2>3. CASE ~UploadInsert /\ ~DeleteDocument
    <3>1. exists' = exists
      BY <2>3 DEF Request, UploadEnqueue, UploadUnavailable, UploadRejected, ReprocessLoad,
           ReprocessCommit, ReprocessEnqueue, ReprocessUnavailable, ApiLost, db, tables
    <3>2. \A w \in Worker : Unstarted(w)' = Unstarted(w) /\ Owed(w)' = Owed(w)
      BY <1>1, SameWorkers DEF Unstarted
    <3>3. \A m \in queue' \cup OwedByApi' : m \in queue \/ m.task = "process_document"
      BY <1>0, <2>3 DEF Request, UploadEnqueue, UploadUnavailable, UploadRejected, ReprocessLoad,
           ReprocessCommit, ReprocessEnqueue, ReprocessUnavailable, ApiLost, OwedByApi, DocMsg
    <3>4. ASSUME NEW a \in {0, 1}, Unsaved(FinalMsg(a))'
          PROVE  Unsaved(FinalMsg(a))
      <4>1. FinalMsg(a).task # "process_document" /\ FinalMsg(a)' = FinalMsg(a)
        BY DEF FinalMsg
      <4>2. FinalMsg(a) \in Pending' => FinalMsg(a) \in Pending
        BY <3>2, <3>3, <4>1 DEF Pending
      <4>. QED
        BY <1>1, <3>4, <4>1, <4>2 DEF Unsaved, Rebuilding
    \* A reset makes room for the arming after the present one, which was to come.
    <3>5. ASSUME NEW a \in {0, 1}, ToCome(a)'
          PROVE  ToCome(a)
      <4>1. CASE armings' = armings /\ doc'.latch = doc.latch
        BY <3>4, <3>5, <4>1 DEF ToCome
      <4>2. CASE armings' = armings + 1
        BY <1>0, <3>4, <3>5, <4>2 DEF ToCome
      <4>3. \/ armings' = armings /\ doc'.latch = doc.latch
            \/ armings' = armings + 1
        <5>1. CASE ReprocessCommit /\ ~api.snap.latch
          <6>1. /\ armings' = armings
                /\ doc' = Flush(api.snap, [api.snap EXCEPT !.status = "queued", !.progress = 0,
                                                           !.latch = FALSE])
            BY <5>1 DEF ReprocessCommit
          <6>2. [api.snap EXCEPT !.status = "queued", !.progress = 0, !.latch = FALSE].latch
                  = api.snap.latch
            BY <1>0, <5>1 DEF DocRow
          <6>. QED
            BY <6>1, <6>2, FlushKeepsLatch
        <5>2. CASE ReprocessCommit /\ api.snap.latch
          BY <5>2 DEF ReprocessCommit
        <5>3. CASE ~ReprocessCommit
          BY <2>3, <5>3 DEF Request, UploadEnqueue, UploadUnavailable, UploadRejected,
               ReprocessLoad, ReprocessEnqueue, ReprocessUnavailable, ApiLost, db, tables
        <5>. QED
          BY <5>1, <5>2, <5>3
      <4>. QED
        BY <4>1, <4>2, <4>3
    <3>. QED
      BY <1>1, <3>1, <3>5 DEF RebuiltInv
  <2>. QED
    BY <2>1, <2>2, <2>3
<1>. QED
  BY <1>1, <1>3, <1>4, <1>5, <1>6, <1>7 DEF RebuiltInv

LEMMA InitRebuilt == Init => RebuiltInv
<1> SUFFICES ASSUME Init
             PROVE  RebuiltInv
  OBVIOUS
<1>1. ArmingsBound
  BY BoundAssumption DEF Init, ArmingsBound
<1>2. \A w \in Worker : Rebuilder(w)
  BY DEF Init, Rebuilder, Rebuilding, Idle
<1>. QED
  BY <1>1, <1>2, InitOnce DEF Init, RebuiltInv, NewDoc, QuestionsRebuilt

LEMMA NextRebuilt ==
  ASSUME MaxReprocess <= 1, "crash" \notin FaultKind
  PROVE  RebuiltInv /\ [Next]_vars => RebuiltInv'
<1> SUFFICES ASSUME RebuiltInv, [Next]_vars
             PROVE  RebuiltInv'
  OBVIOUS
<1>0. OnceInv' /\ ArmingsBound'
  BY NextOnce, BoundNext DEF RebuiltInv
<1>1. CASE Request
  BY <1>0, <1>1, RequestRebuilt
<1>2. ASSUME NEW w \in Worker, TaskStep(w) \/ Failure(w)
      PROVE  RebuiltInv'
  <2>1. CASE Deliver(w) \/ Ack(w) \/ WorkerLost(w) \/ HardTimeout(w) \/ ExceptRaises(w)
    BY <1>0, <2>1, PoolRebuilt
  <2>2. CASE DocTask(w) \/ DocIngestRaises(w) \/ DocFanOutRaises(w)
    BY <1>0, <2>2, DocRebuilt, ReplaceRebuilt DEF DocTask
  <2>3. CASE PageTask(w) \/ PageRaises(w) \/ PageTailRaises(w)
    BY <1>0, <2>3, PageRebuilt, LatchRebuilt DEF PageTask
  <2>4. CASE FinalTask(w) \/ FinalRaises(w)
    <3>1. CASE FinalSave(w) /\ exists
      BY <1>0, <3>1, SaveRebuilt
    <3>2. CASE ~(FinalSave(w) /\ exists)
      <4>1. \/ FinalStart(w) \/ FinalStitch(w) \/ FinalDelete(w) \/ FinalNotify(w)
            \/ FinalExcept(w) \/ FinalRaises(w)
            \/ FinalSave(w) /\ ~exists
        BY <2>4, <3>2 DEF FinalTask
      <4>. QED
        BY <1>0, <4>1, FinalRebuilt
    <3>. QED
      BY <3>1, <3>2
  <2>. QED
    BY <1>2, <2>1, <2>2, <2>3, <2>4 DEF TaskStep, Failure
<1>3. CASE UNCHANGED vars
  <2>1. /\ worker' = worker /\ queue' = queue /\ api' = api /\ exists' = exists /\ doc' = doc
        /\ questions' = questions /\ armings' = armings /\ saves' = saves
    BY <1>3 DEF vars
  <2>2. Pending' = Pending
    BY <2>1 DEF Pending, Owed, Unstarted, OwedByApi
  <2>3. \A a \in {0, 1} : ToCome(a)' <=> ToCome(a)
    BY <2>1, <2>2 DEF ToCome, Unsaved, Rebuilding, FinalMsg
  <2>4. \A w \in Worker : Rebuilder(w)' <=> Rebuilder(w)
    BY <2>1 DEF Rebuilder, Rebuilding
  <2>. QED
    BY <1>0, <2>1, <2>3, <2>4 DEF RebuiltInv, QuestionsRebuilt
<1>. QED
  BY <1>1, <1>2, <1>3 DEF Next

\* Without a reprocess all finalizations answer one arming of the latch.
ArmedBatches == \A b \in questions : b.arming <= armings

LEMMA NextArmed ==
  ASSUME OnceInv, ArmedBatches, [Next]_vars
  PROVE  ArmedBatches'
<1>0. questions \subseteq Batch /\ armings \in Nat
  BY DEF OnceInv, TypeOK
<1>1. CASE Request
  <2>1. questions' \subseteq questions /\ (armings' = armings \/ armings' = armings + 1)
    BY <1>1 DEF Request, UploadEnqueue, UploadUnavailable, UploadInsert, UploadRejected,
         ReprocessLoad, ReprocessCommit, ReprocessEnqueue, ReprocessUnavailable, DeleteDocument,
         ApiLost, db, tables
  <2>. QED
    BY <1>0, <2>1 DEF ArmedBatches, Batch
<1>2. ASSUME NEW w \in Worker, FinalSave(w)
      PROVE  ArmedBatches'
  <2>1. questions' \subseteq questions \cup {BatchOf(w)} /\ armings' = armings
    BY <1>2 DEF FinalSave, Surviving
  <2>2. worker[w].msg \in Live /\ worker[w].msg.task = "finalize_document"
    BY <1>2, HeldIsLive DEF FinalSave, At
  <2>3. BatchOf(w).arming <= armings
    BY <2>2 DEF OnceInv, LiveNumbered, Numbered, BatchOf
  <2>. QED
    BY <2>1, <2>3 DEF ArmedBatches
<1>3. ASSUME NEW w \in Worker, TaskStep(w) \/ Failure(w), ~FinalSave(w)
      PROVE  ArmedBatches'
  <2>1. questions' = questions /\ armings' = armings
    BY <1>3 DEF TaskStep, Failure, DocTask, PageTask, FinalTask,
                db, tables, Deliver, Ack, WorkerLost,
         HardTimeout, ExceptRaises, DocStart, DocIngest, DocReplacePages, DocFanOut, DocExcept, DocIngestRaises,
         DocFanOutRaises, PageStart, PageCommit, PageExcept, PageCountRemaining, PageLatch,
         PageEnqueueFinal, PageRaises, PageTailRaises, FinalStart, FinalStitch, FinalDelete,
         FinalNotify, FinalExcept, FinalRaises
  <2>. QED
    BY <2>1 DEF ArmedBatches
<1>4. CASE UNCHANGED vars
  BY <1>4 DEF ArmedBatches, vars
<1>. QED
  BY <1>1, <1>2, <1>3, <1>4 DEF Next

LEMMA OneSetWithoutReprocess ==
  ASSUME MaxReprocess = 0
  PROVE  Spec => []QuestionsRebuilt
<1> DEFINE Inv == BatchInv /\ ArmingsBound /\ ArmedBatches
<1>1. Init => Inv
  <2>1. Init => ArmingsBound /\ ArmedBatches
    BY BoundAssumption DEF Init, ArmingsBound, ArmedBatches
  <2>. QED
    BY <2>1, InitBatch
<1>2. Inv /\ [Next]_vars => Inv'
  BY NextBatch, BoundNext, NextArmed DEF BatchInv
<1>3. Inv => QuestionsRebuilt
  <2> SUFFICES ASSUME Inv, NEW b \in questions, NEW c \in questions
               PROVE  b = c
    BY DEF QuestionsRebuilt
  <2>1. /\ armings \in Nat /\ api.nth \in Nat /\ b.arming \in Nat /\ c.arming \in Nat
    BY DEF BatchInv, OnceInv, TypeOK, Batch
  <2>2. armings = 0
    BY <2>1 DEF ArmingsBound
  <2>3. b.arming = 0 /\ c.arming = 0
    BY <2>1, <2>2 DEF ArmedBatches
  <2>. QED
    BY <2>3 DEF BatchInv, OneBatchPerArming
<1>. QED
  BY <1>1, <1>2, <1>3, PTL DEF Spec

LEMMA OneSetWithReprocess ==
  ASSUME MaxReprocess <= 1, "crash" \notin FaultKind
  PROVE  Spec => []QuestionsRebuilt
<1>1. RebuiltInv /\ [Next]_vars => RebuiltInv'
  BY NextRebuilt
<1>2. RebuiltInv => QuestionsRebuilt
  BY DEF RebuiltInv
<1>. QED
  BY <1>1, <1>2, InitRebuilt, PTL DEF Spec

\* The table holds the questions of one finalization only, when the document is
\* not reprocessed, whatever is redelivered, or is reprocessed once, at any
\* moment, and no worker process is lost: the first two finalizations both set
\* detected_role, so that the row lock keeps the DELETE and the INSERT of the
\* one apart from those of the other.  With a second request, or a redelivery of
\* the first finalization next to the second, it is false.
THEOREM OneSetOfQuestions ==
  ASSUME \/ MaxReprocess = 0
         \/ MaxReprocess = 1 /\ "crash" \notin FaultKind
  PROVE  Spec => []QuestionsRebuilt
<1>1. CASE MaxReprocess = 0
  BY <1>1, OneSetWithoutReprocess
<1>2. CASE MaxReprocess = 1 /\ "crash" \notin FaultKind
  BY <1>2, OneSetWithReprocess
<1>. QED
  BY <1>1, <1>2

-----------------------------------------------------------------------------
(* The status of the document, and the lifecycle it implements *)

\* Whatever fails in a task fails before the task's commit: a query may raise,
\* and so may the code between, but .delay() after the commit does not.
OneRunWithBroker == OneRun /\ "outage" \notin FaultKind

(***************************************************************************)
(* The status that each task finds, and the questions.                     *)
(***************************************************************************)
Writing(w) ==
  worker[w].pc \in {"ingest", "replace", "doc_except", "stitch", "delete", "save", "final_except"}

\* While the document is there: who is about to write a status has found the
\* document in processing, finalize_document has the pages as they stand and
\* nothing to delete, and the page of a task is in processing.
Working(w) ==
  /\ Writing(w) => doc.status = "processing"
  /\ worker[w].pc = "doc_except" => gen = 0
  /\ worker[w].pc \in {"ingest", "replace", "stitch", "delete", "save"}
       => worker[w].snap.status = "processing"
  /\ worker[w].pc \in {"stitch", "delete", "save"} => questions = {}
  /\ worker[w].pc \in {"delete", "save"} => worker[w].view = pages /\ worker[w].row = gen
  /\ worker[w].pc \in {"extract", "page_except"}
       => pages[worker[w].msg.page].status = "processing"

\* Before the row is inserted a task finds no document, and returns.
NothingBefore ==
  api.pc \in {"new", "insert"} =>
    questions = {} /\ \A w \in Worker : worker[w].pc \in {"idle", "start", "return"}

\* The row is queued until process_document takes it up, then processing until
\* a task that fails before the latch is won, or finalize_document, commits.
StatusBefore ==
  exists =>
    /\ DocMsg(0) \in Pending => doc.status = "queued"
    /\ FinalMsg(0) \in Pending => doc.status = "processing"
    /\ gen = 1 /\ ~doc.latch => doc.status = "processing"
    /\ gen = 0 => doc.status # "completed"

ExtractedIfCompleted == \A n \in PageNo : pages[n].status = "completed" => pages[n].extracted
QuestionsOnce == exists /\ questions # {} => doc.latch /\ FinalMsg(0) \notin Pending

WholeInv == /\ RunInv
            /\ NothingBefore
            /\ StatusBefore
            /\ ExtractedIfCompleted
            /\ QuestionsOnce
            /\ exists => \A w \in Worker : Working(w)
            /\ CompletedIsWhole

\* What a step of a worker does to the status: nothing, Begin or End.
StatusMoves ==
  \/ doc'.status = doc.status
  \/ doc.status = "queued" /\ doc'.status = "processing"
  \/ doc.status = "processing" /\ doc'.status \in FinalStatus

-----------------------------------------------------------------------------
(* One writer of the status, and the steps that are none *)

\* While a finalize_document message is live, the latch is won and the pages stay.
LEMMA LatchedThen ==
  ASSUME RunInv, NEW m \in Live, m.task = "finalize_document"
  PROVE  /\ m = FinalMsg(0)
         /\ gen = 1
         /\ exists => doc.latch /\ AllTerminal
<1>1. m = FinalMsg(0)
  BY MessageOf DEF RunInv
<1>2. gen = 1
  BY IngestedByThen DEF Ingested
<1>3. m.run = 0
  BY <1>1 DEF FinalMsg
<1>4. exists => doc.latch
  BY <1>3 DEF RunInv, OnceInv, LiveNumbered, Numbered, OneRequest
<1>. QED
  BY <1>1, <1>2, <1>4 DEF RunInv, PagesSettled

LEMMA FinalizingThen ==
  ASSUME RunInv, NEW w \in Worker, worker[w].pc \in FinalPc
  PROVE  worker[w].msg = FinalMsg(0) /\ gen = 1 /\ (exists => doc.latch /\ AllTerminal)
<1>1. worker[w].msg \in Live /\ worker[w].msg.task = "finalize_document"
  BY HeldIsLive DEF RunInv, OnceInv, InTask, FinalPc
<1>. QED
  BY <1>1, LatchedThen

LEMMA DocumentThen ==
  ASSUME RunInv, NEW w \in Worker, worker[w].pc \in DocPc
  PROVE  worker[w].msg = DocMsg(0)
<1>1. worker[w].msg \in Live /\ worker[w].msg.task = "process_document"
  BY HeldIsLive DEF RunInv, OnceInv, InTask, DocPc
<1>. QED
  BY <1>1, MessageOf DEF RunInv

LEMMA OneWriter ==
  ASSUME WholeInv, exists, NEW v \in Worker, NEW w \in Worker, Writing(v), Writing(w)
  PROVE  v = w
<1>1. ASSUME NEW u \in Worker, Writing(u)
      PROVE  \/ worker[u].msg = DocMsg(0) /\ gen = 0
             \/ worker[u].msg = FinalMsg(0) /\ gen = 1
  <2>1. CASE worker[u].pc \in {"ingest", "replace", "doc_except"}
    <3>1. gen = 0
      BY <2>1 DEF WholeInv, Working, RunInv, IngestOnce
    <3>. QED
      BY <2>1, <3>1, DocumentThen DEF WholeInv, DocPc
  <2>2. CASE worker[u].pc \in {"stitch", "delete", "save", "final_except"}
    BY <2>2, FinalizingThen DEF WholeInv, FinalPc
  <2>. QED
    BY <1>1, <2>1, <2>2 DEF Writing
<1>2. worker[v].pc # "idle" /\ worker[w].pc # "idle"
  BY DEF Writing
<1>3. worker[v].msg = worker[w].msg
  BY <1>1
<1>. QED
  BY <1>2, <1>3, HeldOnce DEF WholeInv, RunInv

\* A step of w that leaves the pages, the questions and the status alone.
LEMMA CalmStep ==
  ASSUME WholeInv, RunInv', NEW w \in Worker, KeepsMessages,
         \A v \in Worker \ {w} : worker'[v] = worker[v],
         UNCHANGED <<pages, questions>>, doc'.status = doc.status,
         exists => Working(w)',
         worker[w].pc \in {"idle", "start", "return"} /\ api.pc \in {"new", "insert"}
           => worker'[w].pc \in {"idle", "start", "return"}
  PROVE  WholeInv' /\ StatusMoves
<1>1. NothingBefore'
  BY DEF WholeInv, NothingBefore, KeepsMessages
<1>2. StatusBefore'
  BY DEF WholeInv, StatusBefore, KeepsMessages
<1>3. ExtractedIfCompleted'
  BY DEF WholeInv, ExtractedIfCompleted
<1>4. QuestionsOnce'
  BY DEF WholeInv, QuestionsOnce, KeepsMessages
<1>5. ASSUME exists', NEW v \in Worker \ {w}
      PROVE  Working(v)'
  <2>1. Working(v) /\ worker'[v] = worker[v] /\ gen' = gen
    BY <1>5 DEF WholeInv, KeepsMessages
  <2>. QED
    BY <2>1 DEF Working, Writing
<1>6. CompletedIsWhole'
  BY DEF WholeInv, CompletedIsWhole, KeepsMessages
<1>7. exists' => \A v \in Worker : Working(v)'
  BY <1>5 DEF KeepsMessages
<1>. QED
  BY <1>1, <1>2, <1>3, <1>4, <1>6, <1>7 DEF WholeInv, StatusMoves

\* ... at a place where the status and its page do not matter to it.
Aloof == {"idle", "start", "return", "fanout", "count", "latch", "enqueue", "notify"}

LEMMA AloofStep ==
  ASSUME WholeInv, RunInv', NEW w \in Worker, KeepsMessages,
         \A v \in Worker \ {w} : worker'[v] = worker[v],
         UNCHANGED <<pages, questions>>, doc'.status = doc.status,
         worker'[w].pc \in Aloof,
         worker[w].pc \in {"idle", "start", "return"}
           => worker'[w].pc \in {"idle", "start", "return"}
  PROVE  WholeInv' /\ StatusMoves
<1>1. Working(w)'
  BY DEF Working, Writing, Aloof
<1>. QED
  BY <1>1, CalmStep

\* A step of w on its page, which is not terminal before.
LEMMA PageStep ==
  ASSUME WholeInv, RunInv', exists, NEW w \in Worker, KeepsMessages,
         \A v \in Worker \ {w} : worker'[v] = worker[v],
         questions' = questions, doc'.status = doc.status,
         NEW n \in PageNo, worker[w].pc # "idle", worker[w].msg = PageMsg(n, 1),
         pages[n].status \notin TerminalPage, \A k \in PageNo : k # n => pages'[k] = pages[k],
         pages'[n].status = "completed" => pages'[n].extracted,
         Working(w)'
  PROVE  WholeInv' /\ StatusMoves
<1>0. ~AllTerminal
  BY DEF AllTerminal
<1>1. NothingBefore'
  BY DEF WholeInv, RunInv, OneRequest, NothingBefore, KeepsMessages
<1>2. StatusBefore'
  BY DEF WholeInv, StatusBefore, KeepsMessages
<1>3. ExtractedIfCompleted'
  BY DEF WholeInv, ExtractedIfCompleted
<1>4. QuestionsOnce'
  BY DEF WholeInv, QuestionsOnce, KeepsMessages
<1>5. ASSUME NEW v \in Worker \ {w}
      PROVE  Working(v)'
  <2>1. Working(v) /\ worker'[v] = worker[v] /\ gen' = gen
    BY DEF WholeInv, KeepsMessages
  <2>2. worker[v].pc \notin FinalPc
    BY <1>0, FinalizingThen DEF WholeInv
  <2>3. worker[v].pc \in {"extract", "page_except"} => pages'[worker[v].msg.page].status = "processing"
    <3>1. SUFFICES ASSUME worker[v].pc \in {"extract", "page_except"}
                   PROVE  pages'[worker[v].msg.page].status = "processing"
      OBVIOUS
    <3>2. worker[v].msg.task = "process_page" /\ worker[v].pc # "idle"
      BY <3>1 DEF WholeInv, RunInv, OnceInv, InTask, PagePc
    <3>3. PICK k \in PageNo : worker[v].msg.page = k /\ worker[v].msg = PageMsg(k, 1)
      BY <3>2, PageHeld DEF WholeInv
    <3>4. k # n
      BY <3>2, <3>3, HeldOnce DEF WholeInv, RunInv
    <3>. QED
      BY <2>1, <3>1, <3>3, <3>4 DEF Working
  <2>. QED
    BY <2>1, <2>2, <2>3 DEF Working, Writing, FinalPc
<1>6. CompletedIsWhole'
  <2>1. doc.status # "completed"
    BY <1>0 DEF WholeInv, CompletedIsWhole, AllTerminal, TerminalPage
  <2>. QED
    BY <2>1 DEF CompletedIsWhole
<1>. QED
  BY <1>1, <1>2, <1>3, <1>4, <1>5, <1>6 DEF WholeInv, StatusMoves

\* A step of w that writes the status, while no other worker is to write one.
LEMMA WriteStep ==
  ASSUME WholeInv, RunInv', exists, NEW w \in Worker, KeepsMessages,
         \A v \in Worker \ {w} : worker'[v] = worker[v] /\ ~Writing(v),
         pages' = pages, StatusMoves, StatusBefore', QuestionsOnce', Working(w)',
         CompletedIsWhole'
  PROVE  WholeInv' /\ StatusMoves
<1>1. NothingBefore'
  BY DEF WholeInv, RunInv, OneRequest, NothingBefore, KeepsMessages
<1>2. ExtractedIfCompleted'
  BY DEF WholeInv, ExtractedIfCompleted
<1>3. ASSUME NEW v \in Worker \ {w}
      PROVE  Working(v)'
  <2>1. Working(v) /\ worker'[v] = worker[v] /\ ~Writing(v)
    BY DEF WholeInv
  <2>. QED
    BY <2>1 DEF Working, Writing
<1>. QED
  BY <1>1, <1>2, <1>3 DEF WholeInv

-----------------------------------------------------------------------------
(* The pool *)

LEMMA PoolWhole ==
  ASSUME OneRun, WholeInv, RunInv', NEW w \in Worker,
         Deliver(w) \/ Ack(w) \/ WorkerLost(w) \/ HardTimeout(w) \/ ExceptRaises(w)
  PROVE  WholeInv' /\ StatusMoves
<1>0. worker \in [Worker -> WorkerState]
  BY DEF WholeInv, RunInv, OnceInv, TypeOK
<1>1. ~WorkerLost(w)
  BY DEF OneRun, WorkerLost, Fault
<1>2. CASE Deliver(w)
  <2>1. PICK m \in queue : worker' = [worker EXCEPT ![w] = [Idle EXCEPT !.pc = "start", !.msg = m]]
    BY <1>2 DEF Deliver
  <2>2. worker'[w].pc = "start" /\ \A v \in Worker \ {w} : worker'[v] = worker[v]
    BY <1>0, <2>1 DEF Idle
  <2>3. KeepsMessages /\ UNCHANGED <<pages, questions>> /\ doc' = doc
    BY <1>2, DeliverKeeps DEF Deliver, db, tables, WholeInv, RunInv
  <2>. QED
    BY <2>2, <2>3, AloofStep DEF Aloof
<1>3. CASE Ack(w) \/ HardTimeout(w) \/ ExceptRaises(w)
  <2>1. /\ Quiet(w) /\ worker'[w].pc \in {"idle", "return"}
        /\ UNCHANGED <<pages, questions>> /\ doc' = doc
    BY <1>3, LeavingQuiet DEF WholeInv, RunInv, tables
  <2>. QED
    BY <2>1, QuietKeeps, AloofStep DEF Aloof, Quiet
<1>. QED
  BY <1>1, <1>2, <1>3

-----------------------------------------------------------------------------
(* process_document *)

LEMMA DocStartWhole ==
  ASSUME WholeInv, RunInv', NEW w \in Worker, DocStart(w)
  PROVE  WholeInv' /\ StatusMoves
<1>0. worker \in [Worker -> WorkerState] /\ doc \in DocRow
  BY DEF WholeInv, RunInv, OnceInv, TypeOK
<1>1. worker[w].pc = "start" /\ worker[w].msg.task = "process_document"
  BY DEF DocStart, At
<1>2. Quiet(w)
  BY DocQuiet DEF WholeInv, RunInv
<1>3. UNCHANGED <<pages, questions>>
  BY DEF DocStart
<1>4. CASE exists
  <2>1. /\ doc' = [doc EXCEPT !.status = "processing", !.progress = 10]
        /\ worker' = [worker EXCEPT ![w].pc = "ingest", ![w].snap = doc']
    BY <1>4 DEF DocStart
  <2>2. worker'[w] = [worker[w] EXCEPT !.pc = "ingest", !.snap = doc'] /\ worker[w] \in WorkerState
    BY <1>0, <2>1
  <2>3. worker'[w].pc = "ingest" /\ worker'[w].snap = doc'
    BY <2>2 DEF WorkerState
  <2>4. doc'.status = "processing"
    BY <1>0, <2>1 DEF DocRow
  <2>5. KeepsMessages
    BY <1>2, <2>3, QuietKeeps
  <2>6. worker[w].msg = DocMsg(0) /\ worker[w].msg \in Pending
    BY <1>1, HeldIsLive, MessageOf, StartedIsPending DEF WholeInv, RunInv
  <2>7. doc.status = "queued" /\ gen = 0
    BY <1>4, <2>6 DEF WholeInv, RunInv, StatusBefore, IngestOnce
  <2>8. ASSUME NEW v \in Worker \ {w}
        PROVE  worker'[v] = worker[v] /\ ~Writing(v)
    <3>1. worker[v].pc \notin FinalPc
      BY <2>7, FinalizingThen DEF WholeInv
    <3>2. worker[v].pc \notin DocPc
      BY <1>1, <2>6, DocumentThen, HeldOnce DEF WholeInv, RunInv, DocPc
    <3>. QED
      BY <1>2, <3>1, <3>2 DEF Quiet, Writing, DocPc, FinalPc
  <2>9. DocMsg(0) \notin Pending'
    BY <1>2, <2>3, <2>6, Begun DEF Quiet, RunInv
  <2>10. StatusBefore'
    BY <2>4, <2>9 DEF StatusBefore
  <2>11. QuestionsOnce'
    BY <1>3, <2>5 DEF WholeInv, QuestionsOnce, KeepsMessages
  <2>12. Working(w)'
    BY <2>3, <2>4 DEF Working, Writing
  <2>13. CompletedIsWhole' /\ StatusMoves
    BY <2>4, <2>7 DEF CompletedIsWhole, StatusMoves
  <2>. QED
    BY <1>3, <1>4, <2>5, <2>8, <2>10, <2>11, <2>12, <2>13, WriteStep
<1>5. CASE ~exists
  <2>1. worker'[w].pc = "return" /\ doc' = doc
    BY <1>0, <1>5 DEF DocStart, Returning, Idle
  <2>. QED
    BY <1>1, <1>2, <1>3, <2>1, QuietKeeps, AloofStep DEF Aloof, Quiet
<1>. QED
  BY <1>4, <1>5

\* A task that fails or stops for good: the status, if it is written, is final.
LEMMA ExceptWhole ==
  ASSUME WholeInv, RunInv', NEW w \in Worker, DocExcept(w) \/ FinalExcept(w)
  PROVE  WholeInv' /\ StatusMoves
<1>0. worker \in [Worker -> WorkerState] /\ doc \in DocRow
  BY DEF WholeInv, RunInv, OnceInv, TypeOK
<1>1. /\ worker[w].pc \in {"doc_except", "final_except"} /\ UNCHANGED <<pages, questions>>
      /\ doc' = IF exists THEN [doc EXCEPT !.status = "failed"] ELSE doc
      /\ worker' = [worker EXCEPT ![w] = Returning(w)]
  BY DEF DocExcept, FinalExcept, At
<1>2. worker'[w].pc = "return" /\ worker'[w].msg = worker[w].msg
  BY <1>0, <1>1 DEF Returning, Idle
<1>3. Quiet(w)
  BY DocQuiet, FinalQuiet DEF WholeInv, RunInv, FinalTask
<1>4. KeepsMessages
  BY <1>2, <1>3, QuietKeeps
<1>5. CASE exists
  <2>1. doc'.status = "failed"
    BY <1>0, <1>1, <1>5 DEF DocRow
  <2>2. Writing(w)
    BY <1>1 DEF Writing
  <2>3. \A v \in Worker \ {w} : worker'[v] = worker[v] /\ ~Writing(v)
    BY <1>3, <1>5, <2>2, OneWriter DEF Quiet
  <2>4. worker'[w].msg \notin Pending'
    BY <1>2, Begun DEF RunInv
  <2>5. StatusBefore'
    <3>1. CASE worker[w].pc = "doc_except"
      <4>1. worker[w].msg = DocMsg(0) /\ gen = 0 /\ gen' = gen
        BY <1>4, <1>5, <3>1, DocumentThen DEF WholeInv, Working, DocPc, KeepsMessages
      <4>2. FinalMsg(0) \notin Pending'
        BY <1>4, <4>1, PendingIsLive, LatchedThen DEF WholeInv, KeepsMessages, FinalMsg
      <4>. QED
        BY <1>2, <2>1, <2>4, <4>1, <4>2 DEF StatusBefore
    <3>2. CASE worker[w].pc = "final_except"
      <4>1. worker[w].msg = FinalMsg(0) /\ gen' = 1 /\ doc'.latch
        BY <1>4, <1>5, <3>2, FinalizingThen DEF WholeInv, FinalPc, KeepsMessages
      <4>2. DocMsg(0) \notin Pending'
        BY <4>1 DEF RunInv, IngestOnce
      <4>. QED
        BY <1>2, <2>1, <2>4, <4>1, <4>2 DEF StatusBefore
    <3>. QED
      BY <1>1, <3>1, <3>2
  <2>6. QuestionsOnce'
    BY <1>1, <1>4 DEF WholeInv, QuestionsOnce, KeepsMessages
  <2>7. Working(w)'
    BY <1>2 DEF Working, Writing
  <2>8. CompletedIsWhole'
    BY <2>1 DEF CompletedIsWhole
  <2>9. StatusMoves
    BY <1>5, <2>1, <2>2 DEF WholeInv, Working, StatusMoves, FinalStatus
  <2>. QED
    BY <1>1, <1>4, <1>5, <2>3, <2>5, <2>6, <2>7, <2>8, <2>9, WriteStep
<1>6. CASE ~exists
  <2>1. doc' = doc
    BY <1>1, <1>6
  <2>. QED
    BY <1>1, <1>2, <1>3, <1>4, <2>1, AloofStep DEF Aloof, Quiet
<1>. QED
  BY <1>5, <1>6

LEMMA ReplaceWhole ==
  ASSUME WholeInv, RunInv', NEW w \in Worker, DocReplacePages(w)
  PROVE  WholeInv' /\ StatusMoves
<1>0. worker \in [Worker -> WorkerState] /\ doc \in DocRow
  BY DEF WholeInv, RunInv, OnceInv, TypeOK
<1>1. worker[w].pc = "replace" /\ worker[w].msg = DocMsg(0) /\ gen = 0
  BY DocumentThen DEF DocReplacePages, At, WholeInv, RunInv, IngestOnce, DocPc
<1>2. \A v \in Worker \ {w} : worker'[v] = worker[v]
  BY <1>0 DEF DocReplacePages
<1>3. NotIngested /\ api.pc \notin {"new", "insert"}
  BY <1>1 DEF WholeInv, RunInv, IngestOnce, Ingested, NothingBefore
<1>4. CASE worker' = [worker EXCEPT ![w].pc = "doc_except"] /\ UNCHANGED <<doc, gen, pages>>
  <2>1. worker'[w].pc = "doc_except" /\ worker'[w].msg = worker[w].msg
    BY <1>0, <1>4 DEF WorkerState
  <2>2. Quiet(w)
    BY <1>1, <1>2, <1>4, <2>1, GoingOnQuiet
       DEF DocReplacePages, At, WholeInv, RunInv, DocPc, PagePc, FinalPc
  <2>3. UNCHANGED <<pages, questions>> /\ doc' = doc
    BY <1>4 DEF DocReplacePages
  <2>4. exists => Working(w)'
    <3>1. exists => doc.status = "processing"
      BY <1>1 DEF WholeInv, Working, Writing
    <3>. QED
      BY <1>1, <1>4, <2>1, <3>1 DEF Working, Writing
  <2>. QED
    BY <1>1, <1>2, <2>1, <2>2, <2>3, <2>4, QuietKeeps, CalmStep
<1>5. CASE ~(worker' = [worker EXCEPT ![w].pc = "doc_except"] /\ UNCHANGED <<doc, gen, pages>>)
  <2>1. /\ worker' = [worker EXCEPT ![w].pc = "fanout", ![w].snap = NewDoc,
                                    ![w].row = gen + 1, ![w].next = 1]
        /\ gen' = gen + 1 /\ pages' = NewPages /\ exists
        /\ doc' = Flush(worker[w].snap, [worker[w].snap EXCEPT !.done = 0, !.progress = 20])
        /\ UNCHANGED <<exists, questions, api>>
    BY <1>5 DEF DocReplacePages, RowsStand
  <2>2. /\ worker'[w] = [worker[w] EXCEPT !.pc = "fanout", !.snap = NewDoc,
                                          !.row = gen + 1, !.next = 1]
        /\ worker[w] \in WorkerState
    BY <1>0, <2>1
  <2>3. worker'[w].pc = "fanout" /\ worker'[w].msg = DocMsg(0)
    BY <1>1, <2>2 DEF WorkerState
  <2>4. doc'.status = "processing" /\ doc'.status = doc.status
    <3>1. worker[w].snap \in DocRow
      BY <2>2 DEF WorkerState
    <3>2. [worker[w].snap EXCEPT !.done = 0, !.progress = 20].status = worker[w].snap.status
      BY <3>1 DEF DocRow
    <3>3. doc.status = "processing"
      BY <1>1, <2>1 DEF WholeInv, Working, Writing
    <3>. QED
      BY <2>1, <3>2, <3>3 DEF Flush
  <2>5. questions = {}
    BY <1>3, <2>1 DEF WholeInv, QuestionsOnce, NotIngested
  <2>6. DocMsg(0) \notin Pending'
    BY <2>3, Begun DEF RunInv
  <2>7. NothingBefore'
    BY <1>3, <2>1 DEF NothingBefore
  <2>8. StatusBefore'
    BY <2>4, <2>6 DEF StatusBefore
  <2>9. ExtractedIfCompleted'
    BY <2>1 DEF ExtractedIfCompleted, NewPages, NewPage
  <2>10. QuestionsOnce' /\ CompletedIsWhole'
    BY <2>1, <2>4, <2>5 DEF QuestionsOnce, CompletedIsWhole
  <2>11. Working(w)'
    BY <2>3 DEF Working, Writing
  <2>12. ASSUME NEW v \in Worker \ {w}
         PROVE  Working(v)'
    <3>1. worker[v].pc = "idle"
      BY <1>1, <1>3, HeldIsLive, HeldOnce DEF WholeInv, RunInv, NotIngested
    <3>. QED
      BY <1>2, <3>1 DEF Working, Writing
  <2>. QED
    BY <2>4, <2>7, <2>8, <2>9, <2>10, <2>11, <2>12 DEF WholeInv, StatusMoves
<1>. QED
  BY <1>4, <1>5

LEMMA DocWhole ==
  ASSUME OneRunWithBroker, WholeInv, RunInv', NEW w \in Worker,
         DocIngest(w) \/ DocIngestRaises(w) \/ DocFanOutRaises(w) \/ DocFanOut(w)
  PROVE  WholeInv' /\ StatusMoves
<1>0. worker \in [Worker -> WorkerState]
  BY DEF WholeInv, RunInv, OnceInv, TypeOK
<1>1. /\ \A v \in Worker \ {w} : worker'[v] = worker[v]
      /\ UNCHANGED <<pages, questions>> /\ doc' = doc
  BY <1>0 DEF DocIngest, DocIngestRaises, DocFanOutRaises, DocFanOut, db, tables
<1>2. ~DocFanOutRaises(w)
  BY DEF OneRunWithBroker, DocFanOutRaises, Fault
<1>3. CASE DocFanOut(w)
  <2>1. worker'[w].pc \in {"fanout", "return"} /\ worker[w].pc = "fanout"
    BY <1>0, <1>3 DEF DocFanOut, At, WorkerState, Returning, Idle
  <2>. QED
    BY <1>1, <1>3, <2>1, FanOutKeeps, AloofStep DEF Aloof, WholeInv, RunInv
<1>4. CASE DocIngest(w) \/ DocIngestRaises(w)
  <2>1. Quiet(w) /\ worker[w].pc = "ingest"
    BY <1>4, DocQuiet DEF WholeInv, RunInv, DocIngest, DocIngestRaises, At
  <2>2. /\ worker'[w].pc \in {"replace", "doc_except"}
        /\ worker'[w].snap = worker[w].snap
    <3>1. CASE DocIngest(w)
      <4>1. worker'[w] = [worker[w] EXCEPT !.pc = "replace", !.row = gen] /\ worker[w] \in WorkerState
        BY <1>0, <3>1 DEF DocIngest
      <4>. QED
        BY <4>1 DEF WorkerState
    <3>2. CASE DocIngestRaises(w)
      BY <1>0, <3>2 DEF DocIngestRaises, WorkerState
    <3>. QED
      BY <1>4, <3>1, <3>2
  <2>3. exists => Working(w)'
    <3>1. exists => doc.status = "processing" /\ worker[w].snap.status = "processing"
      BY <2>1 DEF WholeInv, Working, Writing
    <3>2. gen = 0 /\ gen' = gen
      BY <2>1 DEF WholeInv, RunInv, IngestOnce, Quiet
    <3>. QED
      BY <1>1, <2>2, <3>1, <3>2 DEF Working, Writing
  <2>. QED
    BY <1>1, <2>1, <2>2, <2>3, QuietKeeps, CalmStep
<1>. QED
  BY <1>2, <1>3, <1>4

-----------------------------------------------------------------------------
(* process_page *)

LEMMA PageWhole ==
  ASSUME OneRunWithBroker, WholeInv, RunInv', NEW w \in Worker,
         \/ PageStart(w) \/ PageCommit(w) \/ PageExcept(w) \/ PageCountRemaining(w)
         \/ PageRaises(w) \/ PageTailRaises(w)
         \/ PageLatch(w) /\ ~LatchIsFree
  PROVE  WholeInv' /\ StatusMoves
<1>0. worker \in [Worker -> WorkerState] /\ pages \in [PageNo -> PageRow] /\ doc \in DocRow
  BY DEF WholeInv, RunInv, OnceInv, TypeOK
<1>1. ~PageTailRaises(w)
  BY DEF OneRunWithBroker, PageTailRaises, Fault
<1>2. worker[w].msg.task = "process_page" /\ worker[w].pc # "idle"
  BY <1>1 DEF PageStart, PageCommit, PageExcept, PageCountRemaining, PageRaises, PageLatch, At
<1>n. PICK n \in PageNo : worker[w].msg.page = n /\ worker[w].msg = PageMsg(n, 1)
  BY <1>2, PageHeld DEF WholeInv
<1>3. gen = 1 /\ api.pc \notin {"new", "insert"}
  BY <1>2, PageHeld DEF WholeInv, Ingested
<1>4. Quiet(w)
  BY PageQuiet DEF WholeInv, RunInv
<1>5. questions' = questions
  BY <1>1 DEF PageStart, PageCommit, PageExcept, PageCountRemaining, PageRaises, PageLatch,
              db, tables
<1>6. ASSUME worker'[w].pc \in Aloof \ {"start"}, pages' = pages, doc'.status = doc.status
      PROVE  WholeInv' /\ StatusMoves
  <2>1. Working(w)'
    BY <1>6 DEF Working, Writing, Aloof
  <2>. QED
    BY <1>3, <1>4, <1>5, <1>6, <2>1, QuietKeeps, CalmStep DEF Quiet
<1>7. CASE PageStart(w)
  <2>1. doc' = doc
    BY <1>7 DEF PageStart
  <2>2. CASE exists /\ gen > 0
    <3>1. /\ pages' = [pages EXCEPT ![n].status = "processing"]
          /\ worker' = [worker EXCEPT ![w].pc = "extract", ![w].row = gen, ![w].snap = doc]
      BY <1>7, <1>n, <2>2 DEF PageStart
    <3>2. /\ worker'[w] = [worker[w] EXCEPT !.pc = "extract", !.row = gen, !.snap = doc]
          /\ worker[w] \in WorkerState
      BY <1>0, <3>1
    <3>3. worker'[w].pc = "extract" /\ worker'[w].msg = PageMsg(n, 1)
      BY <1>n, <3>2 DEF WorkerState
    <3>4. pages[n].status = "queued"
      <4>1. PageMsg(n, 1) \in Pending
        BY <1>7, <1>n, StartedIsPending DEF PageStart, At
      <4>. QED
        BY <2>2, <4>1 DEF WholeInv, RunInv, PagesWait
    <3>5. pages'[n].status = "processing" /\ \A k \in PageNo : k # n => pages'[k] = pages[k]
      BY <1>0, <3>1 DEF PageRow
    <3>6. Working(w)'
      <4>1. worker'[w].msg.page = n
        BY <3>3 DEF PageMsg
      <4>. QED
        BY <3>3, <3>5, <4>1 DEF Working, Writing
    <3>7. KeepsMessages
      BY <1>4, <3>3, QuietKeeps
    <3>. QED
      BY <1>2, <1>4, <1>5, <1>n, <2>1, <2>2, <3>4, <3>5, <3>6, <3>7, PageStep
         DEF Quiet, TerminalPage
  <2>3. CASE ~(exists /\ gen > 0)
    <3>1. worker'[w].pc = "return" /\ pages' = pages
      BY <1>0, <1>7, <2>3 DEF PageStart, Returning, Idle
    <3>. QED
      BY <1>6, <2>1, <3>1 DEF Aloof
  <2>. QED
    BY <2>2, <2>3
<1>8. CASE PageCommit(w)
  <2>1. CASE RowsStand(w)
    <3>1. /\ pages' = [pages EXCEPT ![n] = [status |-> "completed", extracted |-> TRUE]]
          /\ worker' = [worker EXCEPT ![w].pc = "count", ![w].snap = NewDoc]
          /\ doc' = Flush(worker[w].snap, Counted(worker[w].snap, n))
      BY <1>8, <1>n, <2>1 DEF PageCommit
    <3>2. worker'[w].pc = "count"
      BY <1>0, <3>1 DEF WorkerState
    <3>3. doc'.status = doc.status
      <4>1. worker[w].snap \in DocRow
        BY <1>0 DEF WorkerState
      <4>2. Counted(worker[w].snap, n).status = worker[w].snap.status
        BY <4>1 DEF Counted, DocRow
      <4>. QED
        BY <3>1, <4>2 DEF Flush
    <3>4. pages[n].status = "processing" /\ exists
      BY <1>8, <1>n, <2>1 DEF PageCommit, At, WholeInv, Working, RowsStand
    <3>5. /\ pages'[n].status = "completed" => pages'[n].extracted
          /\ \A k \in PageNo : k # n => pages'[k] = pages[k]
      BY <1>0, <3>1
    <3>6. Working(w)'
      BY <3>2 DEF Working, Writing
    <3>7. KeepsMessages
      BY <1>4, <3>2, QuietKeeps
    <3>. QED
      BY <1>2, <1>4, <1>5, <1>n, <3>3, <3>4, <3>5, <3>6, <3>7, PageStep DEF Quiet, TerminalPage
  <2>2. CASE ~RowsStand(w)
    <3>1. worker'[w].pc = "page_except" /\ UNCHANGED <<doc, pages>>
      BY <1>0, <1>8, <2>2 DEF PageCommit, WorkerState
    <3>2. ~exists
      BY <1>8, <2>2 DEF PageCommit, At, RowsStand, WholeInv, RunInv, IngestOnce
    <3>. QED
      BY <1>3, <1>4, <1>5, <3>1, <3>2, QuietKeeps, CalmStep DEF Quiet
  <2>. QED
    BY <2>1, <2>2
<1>9. CASE PageExcept(w)
  <2>1. /\ worker' = [worker EXCEPT ![w].pc = "count", ![w].snap = NewDoc, ![w].failing = TRUE]
        /\ doc' = doc
    BY <1>9 DEF PageExcept
  <2>2. worker'[w].pc = "count"
    BY <1>0, <2>1 DEF WorkerState
  <2>3. CASE exists
    <3>1. pages' = [pages EXCEPT ![n].status = "failed"]
      BY <1>3, <1>9, <1>n, <2>3 DEF PageExcept, AfterError
    <3>2. pages[n].status = "processing"
      BY <1>9, <1>n, <2>3 DEF PageExcept, At, WholeInv, Working
    <3>3. /\ pages'[n].status = "completed" => pages'[n].extracted
          /\ \A k \in PageNo : k # n => pages'[k] = pages[k]
      BY <1>0, <3>1 DEF PageRow
    <3>4. Working(w)'
      BY <2>2 DEF Working, Writing
    <3>5. KeepsMessages
      BY <1>4, <2>2, QuietKeeps
    <3>. QED
      BY <1>2, <1>4, <1>5, <1>n, <2>1, <2>3, <3>2, <3>3, <3>4, <3>5, PageStep
         DEF Quiet, TerminalPage
  <2>4. CASE ~exists
    <3>1. pages' = pages
      BY <1>9, <2>4 DEF PageExcept
    <3>. QED
      BY <1>6, <2>1, <2>2, <3>1 DEF Aloof
  <2>. QED
    BY <2>3, <2>4
<1>10. CASE PageRaises(w)
  <2>1. worker'[w].pc = "page_except" /\ UNCHANGED <<doc, pages>> /\ worker[w].pc = "extract"
    BY <1>0, <1>10 DEF PageRaises, At, WorkerState, db, tables
  <2>2. exists => Working(w)'
    <3>1. exists => pages[worker[w].msg.page].status = "processing"
      BY <2>1 DEF WholeInv, Working
    <3>2. worker'[w].msg = worker[w].msg
      BY <1>4, <2>1 DEF Quiet
    <3>. QED
      BY <2>1, <3>1, <3>2 DEF Working, Writing
  <2>. QED
    BY <1>3, <1>4, <1>5, <2>1, <2>2, QuietKeeps, CalmStep DEF Quiet
<1>11. CASE PageCountRemaining(w) \/ (PageLatch(w) /\ ~LatchIsFree)
  <2>1. UNCHANGED <<doc, pages>>
    BY <1>11 DEF PageCountRemaining, PageLatch, db, tables
  <2>2. worker'[w].pc \in {"latch", "return"}
    <3>1. \/ worker' = [worker EXCEPT ![w].pc = "latch"]
          \/ worker' = [worker EXCEPT ![w] = Returning(w)]
      BY <1>0, <1>11 DEF PageCountRemaining, PageLatch
    <3>. QED
      BY <1>0, <3>1 DEF WorkerState, Returning, Idle
  <2>. QED
    BY <1>6, <2>1, <2>2 DEF Aloof
<1>. QED
  BY <1>1, <1>7, <1>8, <1>9, <1>10, <1>11

LEMMA LatchWhole ==
  ASSUME WholeInv, RunInv', NEW w \in Worker, PageLatch(w), LatchIsFree
  PROVE  WholeInv' /\ StatusMoves
<1>0. worker \in [Worker -> WorkerState] /\ doc \in DocRow
  BY DEF WholeInv, RunInv, OnceInv, TypeOK
<1>1. /\ worker' = [worker EXCEPT ![w].pc = "enqueue", ![w].arming = armings]
      /\ doc' = [doc EXCEPT !.latch = TRUE]
      /\ UNCHANGED <<queue, api, armings, exists, gen, pages, questions>>
      /\ exists /\ ~doc.latch /\ worker[w].pc = "latch"
  BY DEF PageLatch, LatchIsFree, At
<1>2. worker'[w].pc = "enqueue" /\ \A v \in Worker \ {w} : worker'[v] = worker[v]
  BY <1>0, <1>1 DEF WorkerState
<1>3. doc'.status = doc.status /\ doc'.latch
  BY <1>0, <1>1 DEF DocRow
<1>4. gen = 1
  <2>1. worker[w].msg.task = "process_page"
    BY DEF PageLatch, At
  <2>. QED
    BY <1>1, <2>1, PageHeld DEF WholeInv, Ingested
<1>5. doc.status = "processing" /\ questions = {}
  BY <1>1, <1>4 DEF WholeInv, StatusBefore, QuestionsOnce
<1>6. Pending' \subseteq Pending \cup {FinalMsg(0)}
  BY LatchRun DEF WholeInv, RunInv
<1>7. DocMsg(0) \notin Pending'
  BY <1>1, <1>4 DEF RunInv, IngestOnce
<1>8. NothingBefore'
  BY <1>1 DEF WholeInv, RunInv, OneRequest, NothingBefore
<1>9. StatusBefore'
  BY <1>1, <1>3, <1>4, <1>5, <1>7 DEF StatusBefore
<1>10. ExtractedIfCompleted' /\ QuestionsOnce' /\ CompletedIsWhole'
  BY <1>1, <1>3, <1>5 DEF WholeInv, ExtractedIfCompleted, QuestionsOnce, CompletedIsWhole
<1>11. Working(w)'
  BY <1>2 DEF Working, Writing
<1>12. ASSUME NEW v \in Worker \ {w}
       PROVE  Working(v)'
  <2>1. Working(v) /\ worker'[v] = worker[v]
    BY <1>1, <1>2 DEF WholeInv
  <2>. QED
    BY <1>1, <1>3, <2>1 DEF Working, Writing
<1>. QED
  BY <1>3, <1>8, <1>9, <1>10, <1>11, <1>12 DEF WholeInv, StatusMoves

LEMMA EnqueueWhole ==
  ASSUME WholeInv, RunInv', NEW w \in Worker, PageEnqueueFinal(w)
  PROVE  WholeInv' /\ StatusMoves
<1>0. worker \in [Worker -> WorkerState]
  BY DEF WholeInv, RunInv, OnceInv, TypeOK
<1>1. /\ worker' = [worker EXCEPT ![w] = Returning(w)]
      /\ UNCHANGED <<pages, questions, doc>> /\ worker[w].pc = "enqueue"
  BY DEF PageEnqueueFinal, At, db, tables
<1>2. worker'[w].pc = "return" /\ \A v \in Worker \ {w} : worker'[v] = worker[v]
  BY <1>0, <1>1 DEF Returning, Idle
<1>. QED
  BY <1>1, <1>2, EnqueueKeeps, AloofStep DEF Aloof, WholeInv, RunInv

-----------------------------------------------------------------------------
(* finalize_document *)

LEMMA FinalWhole ==
  ASSUME OneRunWithBroker, WholeInv, RunInv', NEW w \in Worker,
         FinalStart(w) \/ FinalStitch(w) \/ FinalDelete(w) \/ FinalNotify(w) \/ FinalRaises(w)
  PROVE  WholeInv' /\ StatusMoves
<1>0. worker \in [Worker -> WorkerState] /\ doc \in DocRow
  BY DEF WholeInv, RunInv, OnceInv, TypeOK
<1>1. /\ worker'[w].pc \in FinalPc \cup {"return"}
      /\ \A v \in Worker \ {w} : worker'[v] = worker[v]
      /\ pages' = pages /\ KeepsMessages
  BY FinalGoesOn DEF FinalTask, WholeInv, RunInv
<1>2. worker[w].msg.task = "finalize_document" /\ worker[w].pc # "idle" /\ questions' = questions
  BY DEF FinalStart, FinalStitch, FinalDelete, FinalNotify, FinalRaises, At, db, tables
<1>3. worker[w].msg = FinalMsg(0) /\ gen = 1 /\ api.pc \notin {"new", "insert"}
  BY <1>2, HeldIsLive, LatchedThen, IngestedByThen DEF WholeInv, Ingested
<1>4. CASE FinalStart(w)
  <2>1. CASE exists
    <3>1. /\ doc' = [doc EXCEPT !.progress = 90]
          /\ worker' = [worker EXCEPT ![w].pc = "stitch", ![w].snap = doc']
      BY <1>4, <2>1 DEF FinalStart
    <3>2. worker'[w] = [worker[w] EXCEPT !.pc = "stitch", !.snap = doc'] /\ worker[w] \in WorkerState
      BY <1>0, <3>1
    <3>3. worker'[w].pc = "stitch" /\ worker'[w].snap = doc'
      BY <3>2 DEF WorkerState
    <3>4. doc'.status = doc.status
      BY <1>0, <3>1 DEF DocRow
    <3>5. doc.status = "processing" /\ questions = {}
      <4>1. FinalMsg(0) \in Pending
        BY <1>3, <1>4, StartedIsPending DEF FinalStart, At
      <4>. QED
        BY <2>1, <4>1 DEF WholeInv, StatusBefore, QuestionsOnce
    <3>6. Working(w)'
      BY <1>2, <3>3, <3>4, <3>5 DEF Working, Writing
    <3>. QED
      BY <1>1, <1>2, <1>3, <3>4, <3>6, CalmStep
  <2>2. CASE ~exists
    <3>1. worker'[w].pc = "return" /\ doc' = doc
      BY <1>0, <1>4, <2>2 DEF FinalStart, Returning, Idle
    <3>. QED
      BY <1>1, <1>2, <1>3, <2>2, <3>1, CalmStep
  <2>. QED
    BY <2>1, <2>2
<1>5. CASE FinalStitch(w)
  <2>1. worker[w].pc = "stitch" /\ doc' = doc
    BY <1>5 DEF FinalStitch, At, db, tables
  <2>2. PICK changes \in BOOLEAN :
          worker' = [worker EXCEPT ![w] =
                      IF changes /\ ~exists THEN [@ EXCEPT !.pc = "final_except"]
                      ELSE [@ EXCEPT !.pc = "delete", !.view = pages, !.row = gen,
                                     !.locks = changes]]
    BY <1>5 DEF FinalStitch
  <2>3. ASSUME exists
        PROVE  Working(w)'
    <3>1. /\ worker'[w] = [worker[w] EXCEPT !.pc = "delete", !.view = pages, !.row = gen,
                                            !.locks = changes]
          /\ worker[w] \in WorkerState
      BY <1>0, <2>2, <2>3
    <3>2. /\ worker'[w].pc = "delete" /\ worker'[w].view = pages /\ worker'[w].row = gen
          /\ worker'[w].snap = worker[w].snap
      BY <3>1 DEF WorkerState
    <3>3. doc.status = "processing" /\ worker[w].snap.status = "processing" /\ questions = {}
      BY <2>1, <2>3 DEF WholeInv, Working, Writing
    <3>4. gen' = gen
      BY <1>1 DEF KeepsMessages
    <3>. QED
      BY <1>1, <1>2, <2>1, <3>2, <3>3, <3>4 DEF Working, Writing
  <2>. QED
    BY <1>1, <1>2, <1>3, <2>1, <2>3, CalmStep
<1>6. CASE FinalDelete(w)
  <2>1. /\ worker[w].pc = "delete" /\ doc' = doc
        /\ worker' = [worker EXCEPT ![w].pc = "save", ![w].old = questions]
    BY <1>6 DEF FinalDelete, At, db, tables
  <2>2. worker'[w] = [worker[w] EXCEPT !.pc = "save", !.old = questions] /\ worker[w] \in WorkerState
    BY <1>0, <2>1
  <2>3. /\ worker'[w].pc = "save" /\ worker'[w].view = worker[w].view
        /\ worker'[w].row = worker[w].row /\ worker'[w].snap = worker[w].snap
    BY <2>2 DEF WorkerState
  <2>4. ASSUME exists
        PROVE  Working(w)'
    <3>1. Working(w) /\ gen' = gen
      BY <1>1, <2>4 DEF WholeInv, KeepsMessages
    <3>. QED
      BY <1>1, <1>2, <2>1, <2>3, <3>1 DEF Working, Writing
  <2>. QED
    BY <1>1, <1>2, <1>3, <2>1, <2>4, CalmStep
<1>7. CASE FinalNotify(w)
  <2>1. worker'[w].pc = "return" /\ doc' = doc /\ worker[w].pc = "notify"
    BY <1>0, <1>7 DEF FinalNotify, At, Returning, Idle, db, tables
  <2>. QED
    BY <1>1, <1>2, <2>1, AloofStep DEF Aloof
<1>8. CASE FinalRaises(w)
  <2>1. worker[w].pc \in {"stitch", "delete", "save"} /\ doc' = doc
    BY <1>8 DEF FinalRaises, Fault, OneRunWithBroker, db, tables
  <2>2. worker'[w].pc = "final_except"
    BY <1>0, <1>8 DEF FinalRaises, WorkerState
  <2>3. ASSUME exists
        PROVE  Working(w)'
    <3>1. doc.status = "processing"
      BY <2>1, <2>3 DEF WholeInv, Working, Writing
    <3>. QED
      BY <2>1, <2>2, <3>1 DEF Working, Writing
  <2>. QED
    BY <1>1, <1>2, <1>3, <2>1, <2>3, CalmStep
<1>. QED
  BY <1>4, <1>5, <1>6, <1>7, <1>8

\* The commit of the first and only finalization: the questions come from the
\* pages as they stand.
LEMMA SaveWhole ==
  ASSUME WholeInv, RunInv', NEW w \in Worker, FinalSave(w)
  PROVE  WholeInv' /\ StatusMoves
<1>0. worker \in [Worker -> WorkerState] /\ doc \in DocRow /\ pages \in [PageNo -> PageRow]
  BY DEF WholeInv, RunInv, OnceInv, TypeOK
<1>1. /\ worker'[w].pc \in FinalPc \cup {"return"}
      /\ \A v \in Worker \ {w} : worker'[v] = worker[v]
      /\ pages' = pages /\ KeepsMessages
  BY FinalGoesOn DEF FinalTask, WholeInv, RunInv
<1>2. worker[w].pc = "save"
  BY DEF FinalSave, At
<1>3. worker[w].msg = FinalMsg(0) /\ gen = 1 /\ (exists => doc.latch /\ AllTerminal)
  BY <1>2, FinalizingThen DEF WholeInv, FinalPc
<1>4. CASE exists
  <2>1. PICK has \in {FALSE} \cup {worker[w].view[n].extracted : n \in PageNo}, clean \in BOOLEAN :
          doc' = Flush(worker[w].snap,
                       [worker[w].snap EXCEPT
                          !.status = StatusOf(worker[w].view, has, clean),
                          !.progress = 100, !.role = TRUE])
    BY <1>4 DEF FinalSave
  <2>2. questions' = Surviving(w) \cup {BatchOf(w)} /\ worker' = [worker EXCEPT ![w].pc = "notify"]
    BY <1>4 DEF FinalSave
  <2>3. worker'[w].pc = "notify" /\ worker'[w].msg = worker[w].msg
    BY <1>0, <2>2 DEF WorkerState
  <2>4. /\ doc.status = "processing" /\ worker[w].snap.status = "processing"
        /\ questions = {} /\ worker[w].view = pages /\ worker[w].row = gen
    BY <1>2, <1>4 DEF WholeInv, Working, Writing
  <2>5. doc'.status = StatusOf(pages, has, clean) /\ doc'.status \in FinalStatus
    <3>1. worker[w].snap \in DocRow
      BY <1>0 DEF WorkerState
    <3>2. [worker[w].snap EXCEPT !.status = StatusOf(worker[w].view, has, clean),
                                 !.progress = 100, !.role = TRUE].status
            = StatusOf(worker[w].view, has, clean)
      BY <3>1 DEF DocRow
    <3>3. StatusOf(worker[w].view, has, clean) \in FinalStatus
      BY DEF StatusOf, FinalStatus
    <3>. QED
      BY <2>1, <2>4, <3>2, <3>3 DEF Flush, FinalStatus
  <2>6. questions' = {BatchOf(w)}
    BY <2>2, <2>4 DEF Surviving
  <2>7. FinalMsg(0) \notin Pending'
    BY <1>3, <2>3, Begun DEF RunInv
  <2>8. DocMsg(0) \notin Pending' /\ doc'.latch /\ gen' = gen
    BY <1>1, <1>3, <1>4 DEF RunInv, IngestOnce, KeepsMessages
  <2>9. StatusBefore'
    BY <1>3, <2>7, <2>8 DEF StatusBefore
  <2>10. QuestionsOnce'
    BY <2>7, <2>8 DEF QuestionsOnce
  <2>11. Working(w)'
    BY <2>3 DEF Working, Writing
  <2>12. ASSUME doc'.status = "completed"
         PROVE  /\ \A n \in PageNo : pages[n].status = "completed"
                /\ \A n \in PageNo : BatchOf(w).from[n] = gen
    <3>1. \A n \in PageNo : pages[n].status # "failed"
      BY <2>5, <2>12 DEF StatusOf
    <3>2. \A n \in PageNo : pages[n].status = "completed"
      BY <1>3, <1>4, <3>1 DEF AllTerminal, TerminalPage
    <3>3. \A n \in PageNo : pages[n].extracted
      BY <3>2 DEF WholeInv, ExtractedIfCompleted
    <3>. QED
      BY <2>4, <3>2, <3>3 DEF BatchOf
  <2>13. CompletedIsWhole'
    BY <1>1, <2>6, <2>8, <2>12 DEF CompletedIsWhole
  <2>14. \A v \in Worker \ {w} : worker'[v] = worker[v] /\ ~Writing(v)
    BY <1>1, <1>2, <1>4, OneWriter DEF Writing
  <2>15. StatusMoves
    BY <2>4, <2>5 DEF StatusMoves
  <2>. QED
    BY <1>1, <1>4, <2>9, <2>10, <2>11, <2>13, <2>14, <2>15, WriteStep
<1>5. CASE ~exists
  <2>1. UNCHANGED <<doc, questions>>
    BY <1>5 DEF FinalSave
  <2>. QED
    BY <1>1, <1>2, <1>5, <2>1, CalmStep
<1>. QED
  BY <1>4, <1>5

-----------------------------------------------------------------------------
(* The requests, and the whole run *)

\* The status as the lifecycle names it.
Shown == IF exists THEN doc.status ELSE IF api.pc = "gone" THEN "gone" ELSE "none"

LEMMA RequestWhole ==
  ASSUME OneRun, WholeInv, RunInv', Request
  PROVE  /\ WholeInv'
         /\ [Lifecycle!Next]_Shown
<1>0. api \in [pc: ApiPc, snap: DocRow, nth: Nat] /\ doc \in DocRow
  BY DEF WholeInv, RunInv, OnceInv, TypeOK
<1>1. worker' = worker /\ gen' = gen /\ Live' \subseteq Live /\ Pending' \subseteq Pending
  BY RequestKeeps DEF WholeInv
<1>2. ~ReprocessLoad /\ ~ReprocessCommit /\ ~ReprocessEnqueue /\ ~ReprocessUnavailable
  BY RequestKeeps DEF WholeInv
<1>3. /\ pages' = pages \/ pages' = NewPages
      /\ questions' = questions \/ questions' = {}
      /\ ~DeleteDocument => UNCHANGED <<pages, questions>>
  BY <1>2 DEF Request, UploadEnqueue, UploadUnavailable, UploadInsert, UploadRejected,
              DeleteDocument, ApiLost, db, tables
<1>4. RowInserted \/ RowRefused \/ RowDeleted
  BY RequestRow DEF WholeInv
<1>5. ExtractedIfCompleted'
  BY <1>3 DEF WholeInv, ExtractedIfCompleted, NewPages, NewPage
<1>6. api'.pc \in {"new", "insert"} => api.pc \in {"new", "insert"}
  BY <1>0, <1>2 DEF Request, UploadEnqueue, UploadUnavailable, UploadInsert, UploadRejected,
                    DeleteDocument, ApiLost
<1>7. NothingBefore'
  BY <1>1, <1>3, <1>6 DEF WholeInv, NothingBefore
<1>8. CASE RowInserted
  <2>1. doc'.status = "queued" /\ exists' /\ ~exists /\ api.pc = "insert"
    BY <1>8 DEF RowInserted, NewDoc
  <2>2. NotIngested /\ questions' = {} /\ \A w \in Worker : worker[w].pc \in {"idle", "start", "return"}
    BY <1>3, <2>1 DEF WholeInv, RunInv, IngestOnce, Ingested, NothingBefore
  <2>3. FinalMsg(0) \notin Pending' /\ gen' = 0
    BY <1>1, <2>2, PendingIsLive DEF NotIngested, FinalMsg, DocMsg
  <2>4. StatusBefore'
    BY <2>1, <2>3 DEF StatusBefore
  <2>5. QuestionsOnce' /\ CompletedIsWhole'
    BY <2>1, <2>2 DEF QuestionsOnce, CompletedIsWhole
  <2>6. \A w \in Worker : Working(w)'
    BY <1>1, <2>2 DEF Working, Writing
  <2>7. Shown = "none" /\ Shown' = "queued"
    BY <2>1 DEF Shown
  <2>. QED
    BY <1>5, <1>7, <2>4, <2>5, <2>6, <2>7 DEF WholeInv, Lifecycle!Next, Lifecycle!Create, Shown
<1>9. CASE ~exists'
  <2>1. WholeInv'
    BY <1>5, <1>7, <1>9 DEF WholeInv, StatusBefore, QuestionsOnce, CompletedIsWhole
  <2>2. CASE Shown' = "gone"
    <3>1. Shown # "gone" \/ Shown' = Shown
      BY <2>2
    <3>. QED
      BY <2>1, <2>2, <3>1 DEF Lifecycle!Next, Lifecycle!Discard, Shown
  <2>3. CASE Shown' # "gone"
    <3>1. RowRefused /\ api'.pc = "insert"
      BY <1>4, <1>9, <2>3 DEF RowInserted, RowRefused, RowDeleted, Shown
    <3>2. Shown = "none" /\ Shown' = "none"
      BY <1>6, <1>9, <3>1 DEF RowRefused, Shown
    <3>. QED
      BY <2>1, <3>2 DEF Shown
  <2>. QED
    BY <2>2, <2>3
<1>. QED
  BY <1>4, <1>8, <1>9 DEF RowRefused, RowDeleted

LEMMA WorkerWhole ==
  ASSUME OneRunWithBroker, WholeInv, RunInv', NEW w \in Worker, TaskStep(w) \/ Failure(w)
  PROVE  WholeInv' /\ StatusMoves /\ UNCHANGED <<exists, api>>
<1>0. OneRun
  BY DEF OneRunWithBroker
<1>1. CASE Deliver(w) \/ Ack(w) \/ WorkerLost(w) \/ HardTimeout(w) \/ ExceptRaises(w)
  BY <1>0, <1>1, PoolWhole DEF Deliver, Ack, WorkerLost, HardTimeout, ExceptRaises, db, tables
<1>2. CASE DocTask(w) \/ DocIngestRaises(w) \/ DocFanOutRaises(w)
  <2>1. WholeInv' /\ StatusMoves
    BY <1>2, DocStartWhole, ExceptWhole, ReplaceWhole, DocWhole DEF DocTask
  <2>. QED
    BY <1>2, <2>1 DEF DocTask, DocStart, DocIngest, DocReplacePages, DocFanOut, DocExcept,
                      DocIngestRaises, DocFanOutRaises, db, tables
<1>3. CASE PageTask(w) \/ PageRaises(w) \/ PageTailRaises(w)
  <2>1. WholeInv' /\ StatusMoves
    BY <1>3, PageWhole, LatchWhole, EnqueueWhole DEF PageTask
  <2>. QED
    BY <1>3, <2>1 DEF PageTask, PageStart, PageCommit, PageExcept, PageCountRemaining, PageLatch,
                      PageEnqueueFinal, PageRaises, PageTailRaises, db, tables
<1>4. CASE FinalTask(w) \/ FinalRaises(w)
  <2>1. WholeInv' /\ StatusMoves
    BY <1>4, FinalWhole, SaveWhole, ExceptWhole DEF FinalTask
  <2>. QED
    BY <1>4, <2>1 DEF FinalTask, FinalStart, FinalStitch, FinalDelete, FinalSave, FinalNotify,
                      FinalExcept, FinalRaises, db, tables
<1>. QED
  BY <1>1, <1>2, <1>3, <1>4 DEF TaskStep, Failure

LEMMA InitWhole == Init => WholeInv
<1> SUFFICES ASSUME Init
             PROVE  WholeInv
  OBVIOUS
<1>1. RunInv
  BY InitRun
<1>2. NothingBefore
  BY DEF Init, NothingBefore, Idle
<1>3. ~exists /\ ExtractedIfCompleted
  BY DEF Init, ExtractedIfCompleted, NewPages, NewPage
<1>. QED
  BY <1>1, <1>2, <1>3 DEF WholeInv, StatusBefore, QuestionsOnce, CompletedIsWhole

LEMMA NextWhole ==
  ASSUME OneRunWithBroker
  PROVE  WholeInv /\ [Next]_vars => WholeInv' /\ [Lifecycle!Next]_Shown
<1> SUFFICES ASSUME WholeInv, [Next]_vars
             PROVE  WholeInv' /\ [Lifecycle!Next]_Shown
  OBVIOUS
<1>0. OneRun
  BY DEF OneRunWithBroker
<1>1. RunInv'
  BY <1>0, NextRun DEF WholeInv
<1>2. CASE Request
  BY <1>0, <1>1, <1>2, RequestWhole
<1>3. ASSUME NEW w \in Worker, TaskStep(w) \/ Failure(w)
      PROVE  WholeInv' /\ [Lifecycle!Next]_Shown
  <2>1. WholeInv' /\ StatusMoves /\ UNCHANGED <<exists, api>>
    BY <1>1, <1>3, WorkerWhole
  <2>2. CASE exists
    <3>1. Shown = doc.status /\ Shown' = doc'.status
      BY <2>1, <2>2 DEF Shown
    <3>2. \/ Shown' = Shown
          \/ Shown = "queued" /\ Shown' = "processing"
          \/ Shown = "processing" /\ Shown' \in FinalStatus
      BY <2>1, <3>1 DEF StatusMoves
    <3>. QED
      BY <2>1, <3>2 DEF Lifecycle!Next, Lifecycle!Begin, Lifecycle!End, Lifecycle!EndStatus,
                        FinalStatus, Shown
  <2>3. CASE ~exists
    <3>1. Shown' = Shown
      BY <2>1, <2>3 DEF Shown
    <3>. QED
      BY <2>1, <3>1
  <2>. QED
    BY <2>2, <2>3
<1>4. CASE UNCHANGED vars
  <2>1. /\ worker' = worker /\ queue' = queue /\ api' = api /\ exists' = exists /\ doc' = doc
        /\ gen' = gen /\ pages' = pages /\ questions' = questions
    BY <1>4 DEF vars
  <2>2. Pending' = Pending
    BY <2>1 DEF Pending, Owed, Unstarted, OwedByApi
  <2>3. Shown' = Shown
    BY <2>1 DEF Shown
  <2>4. \A w \in Worker : Working(w)' <=> Working(w)
    BY <2>1 DEF Working, Writing
  <2>. QED
    BY <1>1, <2>1, <2>2, <2>3, <2>4 DEF WholeInv, NothingBefore, StatusBefore, ExtractedIfCompleted,
                            QuestionsOnce, CompletedIsWhole
<1>. QED
  BY <1>2, <1>3, <1>4 DEF Next

\* A document reported "completed" is whole, however the tasks of its pages
\* interleave, fail before their commits, or are killed: its questions are one
\* batch, built from the extraction of every page, and no page failed.
THEOREM CompletedWhole ==
  ASSUME OneRunWithBroker
  PROVE  Spec => []CompletedIsWhole
<1>1. WholeInv /\ [Next]_vars => WholeInv'
  BY NextWhole
<1>2. WholeInv => CompletedIsWhole
  BY DEF WholeInv
<1>. QED
  BY <1>1, <1>2, InitWhole, PTL DEF Spec

\* Pipeline implements DocumentLifecycle: the status a client sees is queued,
\* then processing, then one final status for good, or the document is deleted;
\* every step of the tasks and requests is one of the lifecycle, or none.
THEOREM LifecycleImplemented ==
  ASSUME OneRunWithBroker
  PROVE  Spec => FollowsLifecycle
<1>1. Init => Lifecycle!Init
  BY DEF Init, Lifecycle!Init
<1>2. WholeInv /\ [Next]_vars => WholeInv'
  BY NextWhole
<1>3. WholeInv /\ [Next]_vars
        => [Lifecycle!Next]_(IF exists THEN doc.status ELSE IF api.pc = "gone" THEN "gone" ELSE "none")
  BY NextWhole DEF Shown
<1>. QED
  BY <1>1, <1>2, <1>3, InitWhole, PTL DEF Spec, FollowsLifecycle, Lifecycle!Spec
=============================================================================
