--------------------------- MODULE ReconcileProofs ---------------------------
(* Theorems about Reconcile, for every number of workers, requests,          *)
(* finalizations and lost workers, every paper and every key.                *)
EXTENDS Reconcile, KeyPageProofs

-----------------------------------------------------------------------------
(* The chosen entries of a key *)

\* With no entries of its own a paper has its answers of the linked key.
LEMMA LinkedOnly ==
  ASSUME NEW S, NEW pool \in Seq(S), NEW q
  PROVE  /\ Selected(q, pool, <<>>) = Candidates(pool, q)
         /\ pool \o <<>> = pool
         /\ Selected(q, pool, <<>>) # {} => Kind(q, pool) = "linked_document"
<1>1. Candidates(<<>>, q) = {}
  BY DEF Candidates, Range
<1>2. pool \o <<>> = pool
  OBVIOUS
<1>. QED
  BY <1>1, <1>2 DEF Selected, Kind

\* The same entries, but for their statuses.
SameEntries(one, two) ==
  /\ DOMAIN one = DOMAIN two
  /\ \A k \in DOMAIN one : /\ one[k].id = two[k].id /\ one[k].num = two[k].num
                           /\ one[k].section = two[k].section
                           /\ one[k].values = two[k].values

LEMMA SameCandidates ==
  ASSUME NEW S, NEW one \in Seq(S), NEW two \in Seq(S), SameEntries(one, two), NEW q
  PROVE  \A k \in DOMAIN one : one[k] \in Candidates(one, q) <=> two[k] \in Candidates(two, q)
<1> DEFINE Numbered(e) == e.num = q.num
           Exact(e) == /\ Numbered(e) /\ e.section # {} /\ q.section # {}
                       /\ SectionsMatch(e.section, q.section)
<1>1. \A k \in DOMAIN one : (Numbered(one[k]) <=> Numbered(two[k])) /\ (Exact(one[k]) <=> Exact(two[k]))
  BY DEF SameEntries
<1>2. (\E e \in Range(one) : Exact(e)) <=> (\E e \in Range(two) : Exact(e))
  BY <1>1 DEF Range, SameEntries
<1>3. ASSUME NEW pool, NEW e \in Range(pool)
      PROVE  e \in Candidates(pool, q) <=>
               IF \E f \in Range(pool) : Exact(f) THEN Exact(e) ELSE Numbered(e)
  BY <1>3 DEF Candidates
<1>. HIDE DEF Exact, Numbered
<1>. QED
  BY <1>1, <1>2, <1>3 DEF Range, SameEntries

LEMMA SameAnswer ==
  ASSUME NEW S, NEW one \in Seq(S), NEW two \in Seq(S), SameEntries(one, two),
         NEW q, NEW repeated
  PROVE  AnswerOf(q, repeated, one, <<>>) = AnswerOf(q, repeated, two, <<>>)
<1> DEFINE c == Candidates(one, q)
           d == Candidates(two, q)
<1>1. /\ Selected(q, one, <<>>) = c /\ Selected(q, two, <<>>) = d
      /\ one \o <<>> = one /\ two \o <<>> = two
      /\ c # {} => Kind(q, one) = "linked_document"
      /\ d # {} => Kind(q, two) = "linked_document"
  BY LinkedOnly
<1>2. c \in SUBSET Range(one) /\ d \in SUBSET Range(two)
  BY CandidatesType
<1>3. \A k \in DOMAIN one : one[k] \in c <=> two[k] \in d
  BY SameCandidates
<1>4. DOMAIN one = DOMAIN two /\ \A k \in DOMAIN one :
        one[k].id = two[k].id /\ one[k].section = two[k].section /\ one[k].values = two[k].values
  BY DEF SameEntries
<1>. HIDE DEF c, d
<1>5. \A e \in c : \E f \in d : e.section = f.section /\ e.values = f.values
  BY <1>2, <1>3, <1>4 DEF Range
<1>6. \A f \in d : \E e \in c : e.section = f.section /\ e.values = f.values
  BY <1>2, <1>3, <1>4 DEF Range
<1>7. c = {} <=> d = {}
  BY <1>5, <1>6
<1>8. Ambiguous(q, repeated, c) <=> Ambiguous(q, repeated, d)
  BY <1>5, <1>6 DEF Ambiguous
<1>9. Conflicting(c) <=> Conflicting(d)
  BY <1>5, <1>6 DEF Conflicting
<1>10. ASSUME c # {}
       PROVE  Best(one, c) = Best(two, d) /\ Best(one, c) \in DOMAIN one
  <2>1. c \cap Range(one) # {} /\ d \cap Range(two) # {}
    BY <1>2, <1>7, <1>10
  <2>2. PICK i : i = Best(one, c)
    OBVIOUS
  <2>3. PICK j : j = Best(two, d)
    OBVIOUS
  <2>4. i \in DOMAIN one /\ one[i] \in c /\ \A k \in 1..(i - 1) : one[k] \notin c
    BY <2>1, <2>2, BestIsFirst
  <2>5. j \in DOMAIN two /\ two[j] \in d /\ \A k \in 1..(j - 1) : two[k] \notin d
    BY <2>1, <2>3, BestIsFirst
  <2>6. DOMAIN one = 1..Len(one) /\ Len(one) \in Nat
    OBVIOUS
  <2>7. i \in Nat /\ j \in Nat /\ ~ (i < j) /\ ~ (j < i)
    BY <1>3, <1>4, <2>4, <2>5, <2>6
  <2>. QED
    BY <2>2, <2>3, <2>4, <2>7
<1>11. ASSUME c # {}
       PROVE  KeyAnswer(q, one[Best(one, c)], "linked_document")
                = KeyAnswer(q, two[Best(two, d)], "linked_document")
  BY <1>4, <1>10, <1>11 DEF KeyAnswer
<1>. QED
  BY <1>1, <1>4, <1>7, <1>8, <1>9, <1>10, <1>11 DEF AnswerOf

-----------------------------------------------------------------------------
(* What is found for one question *)

\* Rows of a key, as far as the matching reads them.
KeyRow == [id : Nat, num : Nat, section : SUBSET STRING, values : SUBSET Value,
           status : AnswerStatus \cup {"unmatched"}]

LEMMA LettersType ==
  ASSUME NEW values \in SUBSET Value, NEW labels \in SUBSET Value
  PROVE  ToLetters(values, labels) \in SUBSET Value
BY DEF ToLetters

LEMMA AnswerType ==
  ASSUME NEW q \in Question, NEW repeated, NEW pool \in Seq(KeyRow)
  PROVE  /\ AnswerOf(q, repeated, pool, <<>>) \in AnswerRow
         /\ q.inline = {} => AnswerOf(q, repeated, pool, <<>>).source.kind # "inline"
<1> DEFINE chosen == Selected(q, pool, <<>>)
           Good(a) == a \in AnswerRow /\ (q.inline = {} => a.source.kind # "inline")
<1>0. AnswerStatus = {"matched", "not_found", "ambiguous", "conflict", "invalid"}
  BY DEF AnswerStatus
<1>1. \A s \in AnswerStatus : Good(NoAnswer(s))
  BY DEF NoAnswer, Source, AnswerRow
<1>2. q.inline # {} => Good(InlineAnswer(q))
  <2>1. ToLetters(q.inline, q.labels) \in SUBSET Value /\ q.inline \in SUBSET Value
    BY LettersType DEF Question
  <2>. QED
    BY <1>0, <2>1 DEF InlineAnswer, Assigned, NoAnswer, Source, AnswerRow
<1>3. chosen # {} => /\ Best(pool \o <<>>, chosen) \in DOMAIN pool
                     /\ Good(KeyAnswer(q, pool[Best(pool \o <<>>, chosen)], Kind(q, pool)))
  <2> SUFFICES ASSUME chosen # {}
               PROVE  /\ Best(pool, chosen) \in DOMAIN pool
                      /\ Good(KeyAnswer(q, pool[Best(pool, chosen)], "linked_document"))
    BY LinkedOnly
  <2>1. chosen \cap Range(pool) # {}
    BY LinkedOnly, CandidatesType
  <2>2. Best(pool, chosen) \in DOMAIN pool
    BY <2>1, BestIsFirst
  <2>3. PICK e \in KeyRow : e = pool[Best(pool, chosen)]
    BY <2>2
  <2>4. ToLetters(e.values, q.labels) \in SUBSET Value /\ e.values \in SUBSET Value /\ e.id \in Nat
    BY LettersType DEF Question, KeyRow
  <2>5. Good(KeyAnswer(q, e, "linked_document"))
    BY <1>0, <2>4 DEF KeyAnswer, Assigned, NoAnswer, Source, AnswerRow
  <2>. QED
    BY <2>2, <2>3, <2>5
<1>4. pool \o <<>> = pool
  BY LinkedOnly
<1>. HIDE DEF Good, chosen
<1>5. Good(AnswerOf(q, repeated, pool, <<>>))
  BY <1>0, <1>1, <1>2, <1>3, <1>4 DEF AnswerOf, chosen
<1>. QED
  BY <1>5 DEF Good

LEMMA ReloadedType ==
  ASSUME NEW q \in Question, NEW row \in AnswerRow
  PROVE  /\ Reloaded(q, row) \in Question
         /\ q.inline = {} /\ row.source.kind # "inline" => Reloaded(q, row) = q
<1>1. row.raw \in SUBSET Value
  BY DEF AnswerRow
<1>2. Reloaded(q, row) \in Question
  BY <1>1 DEF Reloaded, Question
<1>3. ASSUME q.inline = {}, row.source.kind # "inline"
      PROVE  Reloaded(q, row) = q
  BY <1>3 DEF Reloaded, Question
<1>. QED
  BY <1>2, <1>3

-----------------------------------------------------------------------------
(* What is found for the rows of a paper *)

\* The questions of the paper with their answers, or none.
Rows == UNION {[D -> AnswerRow] : D \in {{}, DOMAIN Paper}}
Flags == UNION {[D -> AnswerStatus] : D \in {{}, DOMAIN Paper}}
MatchStatus == AnswerStatus \cup {"unmatched"}
Statuses == UNION {[I -> MatchStatus] : I \in SUBSET Nat}
Ids(pool) == {e.id : e \in Range(pool)}

LEMMA EntriesType ==
  ASSUME NEW pool \in Seq(KeyRow)
  PROVE  \A e \in Range(pool) : e \in KeyRow /\ e.id \in Nat
<1> SUFFICES ASSUME NEW k \in DOMAIN pool
             PROVE  pool[k] \in KeyRow /\ pool[k].id \in Nat
  BY DEF Range
<1>1. pool[k] \in KeyRow
  OBVIOUS
<1>. QED
  BY <1>1 DEF KeyRow

LEMMA NoRows == <<>> \in Rows /\ <<>> \in Flags /\ <<>> \in Statuses
BY DEF Rows, Flags, Statuses

LEMMA ColumnsType ==
  ASSUME NEW old \in AnswerRow, NEW new \in AnswerRow, NEW row \in AnswerRow
  PROVE  /\ Columns(old, new, row) \in AnswerRow
         /\ Columns(row, new, row) = new
BY DEF Columns, AnswerRow

LEMMA AnswersType ==
  ASSUME NEW D, NEW questions \in [D -> Question], NEW pool \in Seq(KeyRow)
  PROVE  Answers(questions, pool, <<>>) \in [D -> AnswerRow]
<1>1. \A i \in D : AnswerOf(questions[i], Repeated(questions, i), pool, <<>>) \in AnswerRow
  BY AnswerType
<1>. QED
  BY <1>1 DEF Answers

LEMMA StatusType ==
  ASSUME NEW D \in {{}, DOMAIN Paper}, NEW questions \in [D -> Question],
         NEW pool \in Seq(KeyRow), NEW id
  PROVE  EntryStatus(questions, pool, <<>>, id) \in MatchStatus
<1> DEFINE markers == {i \in DOMAIN questions : id \in Marks(questions, pool, <<>>, i)}
           last == CHOOSE i \in markers : \A j \in markers : j <= i
<1>1. CASE markers = {}
  BY <1>1 DEF EntryStatus, MatchStatus
<1>2. CASE markers # {}
  <2>1. D = 1..Len(Paper) /\ Len(Paper) \in Nat
    BY <1>2, ExtractionAssumption
  <2>2. markers \in SUBSET (1..Len(Paper))
    BY <2>1
  <2>. HIDE DEF markers
  <2>3. \E k \in markers : \A j \in markers : j <= k
    BY <1>2, <2>1, <2>2, LastPlace
  <2>4. last \in markers
    BY <2>3
  <2>. HIDE DEF last
  <2>5. Answers(questions, pool, <<>>)[last] \in AnswerRow
    <3>1. Answers(questions, pool, <<>>) \in [D -> AnswerRow]
      BY AnswersType
    <3>2. last \in D
      BY <2>1, <2>2, <2>4
    <3>. QED
      BY <3>1, <3>2
  <2>6. Answers(questions, pool, <<>>)[last].status \in AnswerStatus
    BY <2>5 DEF AnswerRow
  <2>7. EntryStatus(questions, pool, <<>>, id) = Answers(questions, pool, <<>>)[last].status
    BY <1>2 DEF EntryStatus, markers, last
  <2>. QED
    BY <2>6, <2>7 DEF MatchStatus
<1>. QED
  BY <1>1, <1>2

-----------------------------------------------------------------------------
(* Types *)

Task == [pc : Pc, job : Job, link : BOOLEAN, pool : Seq(KeyRow), batch : Nat,
         rows : Rows, found : Rows, statuses : Statuses]

\* A job that is about to commit has a status for every entry it read, and what
\* it found is for the rows it read.
Prepared(task) ==
  task.pc = "save" =>
    /\ DOMAIN task.statuses = Ids(task.pool)
    /\ task.job.kind = "reconcile" => DOMAIN task.found = DOMAIN task.rows
GoodTask == {task \in Task : Prepared(task)}

Typed ==
  /\ linked \in BOOLEAN /\ known \in BOOLEAN /\ serial \in BOOLEAN
  /\ fresh \in Nat /\ faults \in Nat
  /\ paper \in [batch : Nat, rows : Rows, flags : Flags]
  /\ key \in Seq(KeyRow) /\ \A k \in DOMAIN key : key[k].id \in 1..fresh
  /\ todo \in [Doc -> Nat] /\ queue \in [Doc -> Nat]
  /\ proc \in [Proc -> GoodTask]
  /\ lock \in SUBSET Request /\ missed \in BOOLEAN

LEMMA RestingType ==
  /\ Resting \in GoodTask
  /\ \A pc \in Pc \ {"save"} : [Resting EXCEPT !.pc = pc] \in GoodTask
<1>1. Resting \in Task
  BY NoRows DEF Resting, Task, Pc, Job, Doc
<1>. QED
  BY <1>1 DEF GoodTask, Prepared, Resting, Task

LEMMA EndedType ==
  ASSUME NEW p \in Proc, proc \in [Proc -> GoodTask]
  PROVE  Ended(p) \in GoodTask /\ Ended(p).pc \in {"return", "over"}
<1>1. proc[p].job \in Job
  BY DEF GoodTask, Task
<1>. QED
  BY <1>1, RestingType DEF Ended, GoodTask, Prepared, Task, Resting, Pc

LEMMA MatchedType ==
  ASSUME NEW task \in Task, NEW D \in {{}, DOMAIN Paper}, NEW questions \in [D -> Question],
         NEW pool \in Seq(KeyRow), NEW result, result = Matched(task, questions, pool)
  PROVE  /\ result \in Task
         /\ result.pc = "save" /\ result.pool = pool
         /\ result.found = Answers(questions, pool, <<>>)
         /\ DOMAIN result.found = D /\ DOMAIN result.statuses = Ids(pool)
         /\ result.job = task.job /\ result.link = task.link
         /\ result.batch = task.batch /\ result.rows = task.rows
<1> DEFINE statuses == [id \in Ids(pool) |-> EntryStatus(questions, pool, <<>>, id)]
           found == Answers(questions, pool, <<>>)
<1>1. found \in [D -> AnswerRow] /\ found \in Rows
  <2>1. found \in [D -> AnswerRow]
    BY AnswersType
  <2>. QED
    BY <2>1 DEF Rows
<1>2. statuses \in Statuses
  <2>1. Ids(pool) \in SUBSET Nat
    BY EntriesType DEF Ids
  <2>2. statuses \in [Ids(pool) -> MatchStatus]
    BY StatusType
  <2>. QED
    BY <2>1, <2>2 DEF Statuses
<1>3. result = [task EXCEPT !.pc = "save", !.pool = pool, !.found = found, !.statuses = statuses]
  BY DEF Matched, Ids
<1>4. DOMAIN statuses = Ids(pool)
  OBVIOUS
<1>. HIDE DEF statuses, found
<1>5. /\ result \in Task
      /\ result.pc = "save" /\ result.pool = pool
      /\ result.found = found /\ result.statuses = statuses
      /\ result.job = task.job /\ result.link = task.link
      /\ result.batch = task.batch /\ result.rows = task.rows
  BY <1>1, <1>2, <1>3 DEF Task, Pc, Active
<1>. QED
  BY <1>1, <1>4, <1>5 DEF found

LEMMA InitTyped == Init => Typed
<1> SUFFICES ASSUME Init
             PROVE  Typed
  OBVIOUS
<1>1. proc \in [Proc -> GoodTask]
  BY RestingType DEF Init, Proc, Pc
<1>2. paper \in [batch : Nat, rows : Rows, flags : Flags]
  BY NoRows DEF Init
<1>3. key = <<>> /\ <<>> \in Seq(KeyRow) /\ DOMAIN <<>> = {}
  BY DEF Init
<1>4. /\ linked \in BOOLEAN /\ known \in BOOLEAN /\ serial \in BOOLEAN /\ missed \in BOOLEAN
      /\ fresh \in Nat /\ faults \in Nat /\ lock \in SUBSET Request
  BY BoundAssumption DEF Init
<1>5. todo \in [Doc -> Nat] /\ queue \in [Doc -> Nat]
  BY BoundAssumption DEF Init
<1>. QED
  BY <1>1, <1>2, <1>3, <1>4, <1>5 DEF Typed

LEMMA StepTyped ==
  ASSUME Typed, UNCHANGED <<linked, paper, key, known, fresh>>, NEW p \in Proc,
         proc' = [proc EXCEPT ![p] = proc'[p]], proc'[p] \in GoodTask,
         todo' \in [Doc -> Nat], queue' \in [Doc -> Nat], lock' \in SUBSET Request,
         faults' \in Nat, serial' \in BOOLEAN, missed' \in BOOLEAN
  PROVE  Typed'
BY DEF Typed

LEMMA DeliverTyped ==
  ASSUME Typed, NEW w \in Worker, Deliver(w)
  PROVE  Typed'
<1>1. w \in Proc /\ proc[w] \in GoodTask
  BY DEF Typed, Proc
<1>2. PICK d \in Doc :
       \/ /\ todo[d] > 0
          /\ todo' = [todo EXCEPT ![d] = @ - 1]
          /\ proc' = [proc EXCEPT ![w].pc = "read", ![w].job = [kind |-> "finalize", doc |-> d]]
          /\ UNCHANGED queue
       \/ /\ queue[d] > 0
          /\ queue' = [queue EXCEPT ![d] = @ - 1]
          /\ proc' = [proc EXCEPT ![w].pc = "read", ![w].job = [kind |-> "reconcile", doc |-> d]]
          /\ UNCHANGED todo
  BY DEF Deliver
<1>3. PICK job \in Job : proc' = [proc EXCEPT ![w].pc = "read", ![w].job = job]
  BY <1>2 DEF Job
<1>4. proc'[w] = [proc[w] EXCEPT !.pc = "read", !.job = job] /\ proc' = [proc EXCEPT ![w] = proc'[w]]
  BY <1>1, <1>3 DEF Typed
<1>5. proc'[w] \in GoodTask
  <2>1. "read" \in Pc \ {"save"}
    BY DEF Pc, Active
  <2>. QED
    <3>1. proc[w] \in Task
      BY <1>1 DEF GoodTask
    <3>2. job \in Job /\ "read" \in Pc
      BY <1>3, <2>1
    <3>. HIDE DEF Job
    <3>3. proc'[w] \in Task
      BY <1>4, <3>1, <3>2 DEF Task
    <3>4. proc'[w].pc = "read"
      BY <1>4, <3>1 DEF Task
    <3>. QED
      BY <3>3, <3>4 DEF GoodTask, Prepared
<1>6. todo' \in [Doc -> Nat] /\ queue' \in [Doc -> Nat]
  <2>1. todo \in [Doc -> Nat] /\ queue \in [Doc -> Nat]
    BY DEF Typed
  <2>2. CASE todo[d] > 0 /\ todo' = [todo EXCEPT ![d] = @ - 1] /\ queue' = queue
    BY <2>1, <2>2
  <2>3. CASE queue[d] > 0 /\ queue' = [queue EXCEPT ![d] = @ - 1] /\ todo' = todo
    BY <2>1, <2>3
  <2>. QED
    BY <1>2, <2>2, <2>3
<1>7. /\ UNCHANGED <<linked, paper, key, known, fresh, lock, faults, missed>>
      /\ serial' \in BOOLEAN
  BY DEF Deliver, Overlapping, db
<1>. QED
  BY <1>1, <1>4, <1>5, <1>6, <1>7, StepTyped DEF Typed

LEMMA AckTyped ==
  ASSUME Typed, NEW w \in Worker, Ack(w)
  PROVE  Typed'
<1>1. w \in Proc /\ proc'[w] = Resting /\ proc' = [proc EXCEPT ![w] = proc'[w]]
  BY DEF Ack, Typed, Proc
<1>. QED
  BY <1>1, RestingType, StepTyped DEF Ack, Typed, db

LEMMA WorkerLostTyped ==
  ASSUME Typed, NEW w \in Worker, WorkerLost(w)
  PROVE  Typed'
<1>1. w \in Proc /\ proc'[w] = Resting /\ proc' = [proc EXCEPT ![w] = proc'[w]]
  BY DEF WorkerLost, Typed, Proc
<1>2. PICK d \in Doc : d = proc[w].job.doc
  BY <1>1 DEF Typed, GoodTask, Task, Job
<1>3. todo' \in [Doc -> Nat] /\ queue' \in [Doc -> Nat]
  <2>1. \/ todo' = [todo EXCEPT ![d] = @ + 1] /\ queue' = queue
        \/ queue' = [queue EXCEPT ![d] = @ + 1] /\ todo' = todo
    BY <1>2 DEF WorkerLost
  <2>2. todo \in [Doc -> Nat] /\ queue \in [Doc -> Nat]
    BY DEF Typed
  <2>. QED
    BY <1>2, <2>1, <2>2
<1>. QED
  BY <1>1, <1>3, RestingType, StepTyped DEF WorkerLost, Typed, db

\* Where a job that raises or is lost with its process has got.
LEMMA GivenUp ==
  ASSUME Typed, NEW p \in Proc, JobRaises(p) \/ RequestLost(p)
  PROVE  /\ proc' = [proc EXCEPT ![p] = proc'[p]]
         /\ proc'[p] \in {Ended(p), [Resting EXCEPT !.pc = "release"]}
BY DEF JobRaises, RequestLost, Typed

LEMMA GivenUpTyped ==
  ASSUME Typed, NEW p \in Proc, JobRaises(p) \/ RequestLost(p)
  PROVE  Typed'
<1>1. Ended(p) \in GoodTask /\ [Resting EXCEPT !.pc = "release"] \in GoodTask
  <2>1. "release" \in Pc \ {"save"}
    BY DEF Pc, Active
  <2>. QED
    BY <2>1, EndedType, RestingType DEF Typed
<1>2. proc'[p] \in GoodTask
  BY <1>1, GivenUp
<1>3. /\ UNCHANGED <<linked, paper, key, known, fresh, todo, queue, lock, serial>>
      /\ missed' = (missed \/ Owes(p)) /\ faults' = faults + 1
  BY DEF JobRaises, RequestLost, db
<1>4. missed' \in BOOLEAN
  BY <1>3 DEF Owes
<1>5. faults' \in Nat /\ todo' \in [Doc -> Nat] /\ queue' \in [Doc -> Nat]
      /\ lock' \in SUBSET Request /\ serial' \in BOOLEAN
  BY <1>3 DEF Typed
<1>. QED
  BY <1>2, <1>3, <1>4, <1>5, GivenUp, StepTyped

LEMMA ReadKeysTyped ==
  ASSUME Typed, NEW p \in Proc, ReadKeys(p)
  PROVE  Typed'
<1>1. PICK pool \in Seq(KeyRow) : proc' = [proc EXCEPT ![p].pc = "questions", ![p].pool = pool]
  <2> DEFINE pool == IF proc[p].job.doc = "key" \/ linked THEN key ELSE <<>>
  <2>1. pool \in Seq(KeyRow)
    BY DEF Typed
  <2>2. proc' = [proc EXCEPT ![p].pc = "questions", ![p].pool = pool]
    BY DEF ReadKeys
  <2>. QED
    BY <2>1, <2>2
<1>2. /\ proc[p] \in GoodTask
      /\ proc'[p] = [proc[p] EXCEPT !.pc = "questions", !.pool = pool]
      /\ proc' = [proc EXCEPT ![p] = proc'[p]]
  BY <1>1 DEF Typed
<1>3. proc'[p] \in GoodTask
  BY <1>2 DEF GoodTask, Task, Prepared, Pc, Active
<1>. QED
  BY <1>2, <1>3, StepTyped DEF ReadKeys, Typed, db

\* The payload of a reconciliation.
Asked(p) == LET rows == IF proc[p].job.doc = "paper" THEN paper.rows ELSE <<>>
            IN [i \in DOMAIN rows |-> Reloaded(Paper[i], rows[i])]

LEMMA AskedType ==
  ASSUME Typed, NEW p \in Proc,
         NEW rows, rows = IF proc[p].job.doc = "paper" THEN paper.rows ELSE <<>>
  PROVE  /\ rows \in Rows
         /\ DOMAIN rows \in {{}, DOMAIN Paper}
         /\ \A i \in DOMAIN rows : rows[i] \in AnswerRow /\ Paper[i] \in Question
         /\ Asked(p) \in [DOMAIN rows -> Question]
         /\ \A i \in DOMAIN rows : Asked(p)[i] = Reloaded(Paper[i], rows[i])
<1>1. rows \in Rows
  BY NoRows DEF Typed
<1>2. DOMAIN rows \in {{}, DOMAIN Paper} /\ \A i \in DOMAIN rows : rows[i] \in AnswerRow
  BY <1>1 DEF Rows
<1>3. \A i \in DOMAIN Paper : Paper[i] \in Question
  BY ExtractionAssumption
<1>4. \A i \in DOMAIN rows : Reloaded(Paper[i], rows[i]) \in Question
  BY <1>2, <1>3, ReloadedType
<1>. QED
  BY <1>1, <1>2, <1>3, <1>4 DEF Asked

LEMMA ReadQuestionsTyped ==
  ASSUME Typed, NEW p \in Proc, ReadQuestions(p)
  PROVE  /\ Typed'
         /\ proc' = [proc EXCEPT ![p] = proc'[p]]
         /\ proc'[p].pc = "save" /\ proc'[p].job = proc[p].job /\ proc'[p].pool = proc[p].pool
         /\ proc'[p].batch = paper.batch
         /\ proc'[p].rows = IF proc[p].job.doc = "paper" THEN paper.rows ELSE <<>>
         /\ proc'[p].found = Answers(Asked(p), proc[p].pool, <<>>)
<1>1. proc[p] \in Task /\ proc[p].pool \in Seq(KeyRow)
  BY DEF Typed, GoodTask, Task
<1>2. PICK rows : rows = IF proc[p].job.doc = "paper" THEN paper.rows ELSE <<>>
  OBVIOUS
<1>3. rows \in Rows /\ DOMAIN rows \in {{}, DOMAIN Paper} /\ Asked(p) \in [DOMAIN rows -> Question]
  BY <1>2, AskedType
<1>4. PICK questions, task, pool :
        /\ questions = Asked(p) /\ pool = proc[p].pool
        /\ task = Matched(proc[p], questions, pool)
  OBVIOUS
<1>5. proc' = [proc EXCEPT ![p] = [task EXCEPT !.batch = paper.batch, !.rows = rows]]
  BY <1>2, <1>4 DEF ReadQuestions, Asked
<1>6. /\ task \in Task
      /\ task.pc = "save" /\ task.job = proc[p].job /\ task.pool = proc[p].pool
      /\ task.found = Answers(Asked(p), proc[p].pool, <<>>)
      /\ DOMAIN task.found = DOMAIN rows
      /\ DOMAIN task.statuses = Ids(proc[p].pool)
  <2>1. /\ DOMAIN questions = DOMAIN rows /\ DOMAIN questions \in {{}, DOMAIN Paper}
        /\ questions \in [DOMAIN questions -> Question] /\ pool \in Seq(KeyRow)
    BY <1>1, <1>3, <1>4
  <2>2. PICK old \in Task : old = proc[p]
    BY <1>1
  <2>3. task = Matched(old, questions, pool)
    BY <1>4, <2>2
  <2>4. task \in Task /\ task.pc = "save" /\ task.pool = pool /\ task.job = old.job
    BY <2>1, <2>2, <2>3, MatchedType
  <2>5. task.found = Answers(questions, pool, <<>>)
    BY <2>1, <2>2, <2>3, MatchedType
  <2>6. DOMAIN task.found = DOMAIN questions
    BY <2>5 DEF Answers
  <2>7. DOMAIN task.statuses = Ids(pool)
    BY <2>1, <2>2, <2>3, MatchedType
  <2>. QED
    BY <1>4, <2>1, <2>2, <2>4, <2>5, <2>6, <2>7
<1>7. /\ proc'[p] = [task EXCEPT !.batch = paper.batch, !.rows = rows]
      /\ proc' = [proc EXCEPT ![p] = proc'[p]]
  BY <1>5 DEF Typed
<1>8. paper.batch \in Nat
  BY DEF Typed
<1>9. /\ proc'[p] \in Task
      /\ proc'[p].pc = "save" /\ proc'[p].job = proc[p].job /\ proc'[p].pool = proc[p].pool
      /\ proc'[p].batch = paper.batch /\ proc'[p].rows = rows
      /\ proc'[p].found = task.found /\ proc'[p].statuses = task.statuses
  BY <1>3, <1>6, <1>7, <1>8 DEF Task
<1>10. proc'[p] \in GoodTask
  BY <1>6, <1>9 DEF GoodTask, Prepared
<1>11. Typed'
  BY <1>7, <1>10, StepTyped DEF ReadQuestions, Typed, db
<1>. QED
  BY <1>2, <1>6, <1>7, <1>9, <1>11

LEMMA FinalReadTyped ==
  ASSUME Typed, NEW w \in Worker, FinalRead(w)
  PROVE  /\ Typed'
         /\ proc' = [proc EXCEPT ![w] = proc'[w]]
         /\ proc'[w].pc = "save" /\ proc'[w].job = proc[w].job /\ proc'[w].link = linked
         /\ proc'[w].pool = IF proc[w].job.doc = "paper" /\ linked THEN key ELSE <<>>
         /\ proc[w].job.doc = "paper" => proc'[w].found = Answers(Paper, proc'[w].pool, <<>>)
<1>1. proc[w] \in Task /\ proc[w].job.kind = "finalize" /\ w \in Proc
  BY DEF Typed, GoodTask, FinalRead, At, Proc
<1>2. PICK questions : questions = IF proc[w].job.doc = "paper" THEN Paper ELSE <<>>
  OBVIOUS
<1>3. PICK pool : pool = IF proc[w].job.doc = "paper" /\ linked THEN key ELSE <<>>
  OBVIOUS
<1>4. pool \in Seq(KeyRow)
  BY <1>3 DEF Typed
<1>5. DOMAIN questions \in {{}, DOMAIN Paper} /\ questions \in [DOMAIN questions -> Question]
  BY <1>2, ExtractionAssumption
<1>6. PICK task : task = Matched(proc[w], questions, pool)
  OBVIOUS
<1>7. proc' = [proc EXCEPT ![w] = [task EXCEPT !.link = linked]]
  BY <1>2, <1>3, <1>6 DEF FinalRead
<1>8. /\ task \in Task
      /\ task.pc = "save" /\ task.job = proc[w].job /\ task.pool = pool
      /\ task.found = Answers(questions, pool, <<>>)
      /\ DOMAIN task.statuses = Ids(pool)
  BY <1>1, <1>4, <1>5, <1>6, MatchedType
<1>9. /\ proc'[w] = [task EXCEPT !.link = linked]
      /\ proc' = [proc EXCEPT ![w] = proc'[w]]
  BY <1>1, <1>7 DEF Typed
<1>10. linked \in BOOLEAN
  BY DEF Typed
<1>11. /\ proc'[w] \in Task
       /\ proc'[w].pc = "save" /\ proc'[w].job = proc[w].job /\ proc'[w].pool = pool
       /\ proc'[w].link = linked /\ proc'[w].found = task.found
       /\ proc'[w].statuses = task.statuses
  BY <1>8, <1>9, <1>10 DEF Task
<1>12. proc'[w] \in GoodTask
  BY <1>1, <1>8, <1>11 DEF GoodTask, Prepared
<1>13. Typed'
  BY <1>1, <1>9, <1>12, StepTyped DEF FinalRead, Typed, db
<1>. QED
  BY <1>2, <1>3, <1>8, <1>9, <1>11, <1>13

\* A commit writes nothing but statuses into the entries that are there.
LEMMA KeyAfterType ==
  ASSUME Typed, NEW p \in Proc, proc[p].pc = "save"
  PROVE  /\ KeyAfter(p) \in Seq(KeyRow) /\ DOMAIN KeyAfter(p) = DOMAIN key
         /\ \A k \in DOMAIN key :
              /\ KeyAfter(p)[k].id = key[k].id /\ KeyAfter(p)[k].num = key[k].num
              /\ KeyAfter(p)[k].section = key[k].section
              /\ KeyAfter(p)[k].values = key[k].values
<1>1. /\ proc[p].statuses \in Statuses /\ DOMAIN proc[p].statuses = Ids(proc[p].pool)
  BY DEF Typed, GoodTask, Task, Prepared
<1>2. \A k \in DOMAIN key :
        (\E e \in Touched(p) : e.id = key[k].id) => proc[p].statuses[key[k].id] \in MatchStatus
  BY <1>1 DEF Touched, Ids, Statuses
<1>3. PICK after : after = KeyAfter(p)
  OBVIOUS
<1>4. \A k \in DOMAIN key : key[k] \in KeyRow
  BY DEF Typed
<1>5. ASSUME NEW k \in DOMAIN key
      PROVE  /\ after[k] \in KeyRow
             /\ after[k].id = key[k].id /\ after[k].num = key[k].num
             /\ after[k].section = key[k].section /\ after[k].values = key[k].values
  <2>1. \/ after[k] = key[k]
        \/ /\ proc[p].statuses[key[k].id] \in MatchStatus
           /\ after[k] = [key[k] EXCEPT !.status = proc[p].statuses[key[k].id]]
    BY <1>2, <1>3 DEF KeyAfter
  <2>. QED
    BY <1>4, <2>1 DEF KeyRow, MatchStatus
<1>6. DOMAIN after = DOMAIN key /\ after = [k \in DOMAIN key |-> after[k]]
  BY <1>3 DEF KeyAfter
<1>7. DOMAIN key = 1..Len(key) /\ Len(key) \in Nat
  BY DEF Typed
<1>8. after \in Seq(KeyRow)
  BY <1>5, <1>6, <1>7
<1>. QED
  BY <1>3, <1>5, <1>6, <1>8

LEMMA ReconcileSaveTyped ==
  ASSUME Typed, NEW p \in Proc, ReconcileSave(p)
  PROVE  Typed'
<1>1. proc[p] \in Task /\ Prepared(proc[p]) /\ proc[p].pc = "save" /\ proc[p].job.kind = "reconcile"
  BY DEF Typed, GoodTask, ReconcileSave, At
<1>2. key' \in Seq(KeyRow) /\ \A k \in DOMAIN key' : key'[k].id \in 1..fresh
  BY <1>1, KeyAfterType DEF ReconcileSave, Typed
<1>3. paper' \in [batch : Nat, rows : Rows, flags : Flags]
  <2>1. CASE UNCHANGED paper
    BY <2>1 DEF Typed
  <2>2. CASE paper' = [paper EXCEPT !.rows =
               [i \in DOMAIN @ |-> IF i \in Changed(p)
                                   THEN Columns(proc[p].rows[i], proc[p].found[i], @[i]) ELSE @[i]]]
    <3>1. PICK rows : rows = [i \in DOMAIN paper.rows |->
               IF i \in Changed(p) THEN Columns(proc[p].rows[i], proc[p].found[i], paper.rows[i])
                                   ELSE paper.rows[i]]
      OBVIOUS
    <3>2. paper.rows \in Rows /\ proc[p].rows \in Rows /\ proc[p].found \in Rows
          /\ DOMAIN proc[p].found = DOMAIN proc[p].rows
      BY <1>1 DEF Typed, Task, Prepared
    <3>3. /\ DOMAIN paper.rows \in {{}, DOMAIN Paper}
          /\ \A i \in DOMAIN paper.rows : paper.rows[i] \in AnswerRow
          /\ \A i \in Changed(p) : proc[p].rows[i] \in AnswerRow /\ proc[p].found[i] \in AnswerRow
      BY <3>2 DEF Rows, Changed
    <3>4. \A i \in DOMAIN paper.rows : rows[i] \in AnswerRow
      BY <3>1, <3>3, ColumnsType
    <3>5. DOMAIN rows = DOMAIN paper.rows /\ rows \in [DOMAIN paper.rows -> AnswerRow]
      BY <3>1, <3>4
    <3>6. rows \in Rows
      BY <3>3, <3>5 DEF Rows
    <3>7. paper' = [paper EXCEPT !.rows = rows]
      BY <2>2, <3>1
    <3>. QED
      BY <3>6, <3>7 DEF Typed
  <2>. QED
    BY <2>1, <2>2 DEF ReconcileSave
<1>4. proc' \in [Proc -> GoodTask]
  <2>1. Ended(p) \in GoodTask
    BY EndedType DEF Typed
  <2>2. [Resting EXCEPT !.pc = "release"] \in GoodTask
    BY RestingType DEF Pc, Active
  <2>. QED
    BY <2>1, <2>2 DEF ReconcileSave, Typed
<1>5. missed' \in BOOLEAN
  BY DEF ReconcileSave
<1>. QED
  BY <1>2, <1>3, <1>4, <1>5 DEF ReconcileSave, Typed

LEMMA ReleaseTyped ==
  ASSUME Typed, NEW p \in Proc, ReleaseCheck(p) \/ ReleaseDelete(p)
  PROVE  Typed'
<1>1. proc[p] \in GoodTask /\ Ended(p) \in GoodTask
  BY EndedType DEF Typed
<1>2. proc[p] \in Task /\ [proc[p] EXCEPT !.pc = "delete"] \in GoodTask
  BY <1>1 DEF GoodTask, Task, Prepared, Pc, Active
<1>3. proc' = [proc EXCEPT ![p] = proc'[p]] /\ proc'[p] \in GoodTask
  BY <1>1, <1>2 DEF ReleaseCheck, ReleaseDelete, Typed
<1>. QED
  BY <1>3, StepTyped DEF ReleaseCheck, ReleaseDelete, Typed, db

LEMMA PaperSaveTyped ==
  ASSUME Typed, NEW w \in Worker, PaperSave(w)
  PROVE  Typed'
<1>1. w \in Proc /\ proc[w] \in Task /\ proc[w].pc = "save"
  BY DEF Typed, GoodTask, PaperSave, At, Proc
<1>2. key' \in Seq(KeyRow) /\ \A k \in DOMAIN key' : key'[k].id \in 1..fresh
  <2>1. key' = key \/ key' = KeyAfter(w)
    BY DEF PaperSave
  <2>2. KeyAfter(w) \in Seq(KeyRow) /\ \A k \in DOMAIN KeyAfter(w) : KeyAfter(w)[k].id \in 1..fresh
    <3>1. PICK after : after = KeyAfter(w)
      OBVIOUS
    <3>2. after \in Seq(KeyRow) /\ DOMAIN after = DOMAIN key /\ \A k \in DOMAIN key : after[k].id = key[k].id
      BY <1>1, <3>1, KeyAfterType
    <3>3. \A k \in DOMAIN key : key[k].id \in 1..fresh
      BY DEF Typed
    <3>. QED
      BY <3>1, <3>2, <3>3
  <2>. QED
    BY <2>1, <2>2 DEF Typed
<1>3. paper' \in [batch : Nat, rows : Rows, flags : Flags]
  <2>1. proc[w].found \in Rows /\ paper.batch \in Nat
    BY <1>1 DEF Typed, Task
  <2>2. PICK flags : flags = [i \in DOMAIN proc[w].found |-> proc[w].found[i].status]
    OBVIOUS
  <2>3. flags \in Flags
    <3>1. DOMAIN proc[w].found \in {{}, DOMAIN Paper}
          /\ \A i \in DOMAIN proc[w].found : proc[w].found[i].status \in AnswerStatus
      BY <2>1 DEF Rows, AnswerRow
    <3>2. flags \in [DOMAIN proc[w].found -> AnswerStatus]
      BY <2>2, <3>1
    <3>. QED
      BY <3>1, <3>2 DEF Flags
  <2>4. paper' = paper \/ paper' = [batch |-> paper.batch + 1, rows |-> proc[w].found, flags |-> flags]
    BY <2>2 DEF PaperSave
  <2>. QED
    BY <2>1, <2>3, <2>4 DEF Typed
<1>4. proc' \in [Proc -> GoodTask]
  <2>1. Ended(w) \in GoodTask
    BY <1>1, EndedType DEF Typed
  <2>2. [proc[w] EXCEPT !.pc = "notify"] \in GoodTask
    BY <1>1 DEF GoodTask, Task, Prepared, Pc, Active
  <2>. QED
    BY <1>1, <2>1, <2>2 DEF PaperSave, Typed
<1>5. missed' \in BOOLEAN
  BY DEF PaperSave, Typed
<1>. QED
  BY <1>2, <1>3, <1>4, <1>5 DEF PaperSave, Typed

LEMMA KeySaveTyped ==
  ASSUME Typed, NEW w \in Worker, KeySave(w)
  PROVE  Typed'
<1>1. w \in Proc /\ proc[w] \in Task
  BY DEF Typed, GoodTask, Proc
<1>2. PICK read \in Readings :
        /\ key' = [k \in DOMAIN read |->
                    [id |-> fresh + k, num |-> read[k].num, section |-> read[k].section,
                     values |-> read[k].values, status |-> "unmatched"]]
        /\ fresh' = fresh + Len(read)
  BY DEF KeySave
<1> DEFINE Entry == [num : Nat, section : SUBSET STRING, values : SUBSET Value]
<1>3. read \in Seq(Entry)
  BY <1>2, ExtractionAssumption
<1>. HIDE DEF Entry
<1>4. DOMAIN read = 1..Len(read) /\ Len(read) \in Nat /\ fresh \in Nat /\ fresh' \in Nat
  BY <1>2, <1>3 DEF Typed
<1>5. \A k \in DOMAIN read : key'[k] \in KeyRow /\ key'[k].id \in 1..fresh'
  <2>1. ASSUME NEW k \in DOMAIN read
        PROVE  key'[k] \in KeyRow /\ key'[k].id \in 1..fresh'
    <3>1. PICK entry : entry = read[k] /\ entry \in Entry
      BY <1>3, <2>1
    <3>. USE DEF Entry
    <3>2. key'[k] = [id |-> fresh + k, num |-> entry.num, section |-> entry.section,
                     values |-> entry.values, status |-> "unmatched"]
      BY <1>2, <3>1
    <3>3. fresh + k \in 1..fresh' /\ fresh + k \in Nat
      BY <1>2, <1>4
    <3>. QED
      BY <3>1, <3>2, <3>3 DEF KeyRow
  <2>. QED
    BY <2>1
<1>6. key' \in Seq(KeyRow) /\ DOMAIN key' = DOMAIN read
  <2>1. DOMAIN key' = DOMAIN read /\ key' = [k \in DOMAIN read |-> key'[k]]
    BY <1>2
  <2>. QED
    BY <1>4, <1>5, <2>1
<1>7. proc' \in [Proc -> GoodTask]
  <2>1. [proc[w] EXCEPT !.pc = "notify"] \in GoodTask
    BY <1>1 DEF GoodTask, Task, Prepared, Pc, Active
  <2>. QED
    BY <1>1, <2>1 DEF KeySave, Typed
<1>. QED
  BY <1>4, <1>5, <1>6, <1>7 DEF KeySave, Typed

LEMMA NotifyTyped ==
  ASSUME Typed, NEW w \in Worker, Notify(w)
  PROVE  Typed'
<1>1. w \in Proc /\ proc' = [proc EXCEPT ![w] = proc'[w]] /\ proc'[w] \in GoodTask
  BY EndedType DEF Notify, Typed, Proc
<1>2. PICK d \in Doc : d = Notified(w)
  BY DEF Notified, Other, Doc
<1>3. queue' \in [Doc -> Nat]
  BY <1>2 DEF Notify, Typed
<1>. QED
  BY <1>1, <1>3, StepTyped DEF Notify, Typed, db

LEMMA RequestTyped ==
  ASSUME Typed, NEW r \in Request, ReconcileRequest(r) \/ LinkRequest(r) \/ UnlinkRequest(r)
  PROVE  Typed'
<1>1. r \in Proc /\ proc[r] \in Task /\ Ended(r) \in GoodTask
  BY EndedType DEF Typed, GoodTask, Proc
<1>2. [proc[r] EXCEPT !.pc = "read"] \in GoodTask
  BY <1>1 DEF GoodTask, Task, Prepared, Pc, Active
<1>3. \A d \in Doc : [proc[r] EXCEPT !.pc = "read", !.job.doc = d] \in GoodTask
  BY <1>1 DEF GoodTask, Task, Prepared, Pc, Active, Job
<1>4. proc' \in [Proc -> GoodTask]
  <2>1. LinkTarget \in Doc
    BY DEF LinkTarget, Doc
  <2>. QED
    BY <1>1, <1>2, <1>3, <2>1 DEF ReconcileRequest, LinkRequest, UnlinkRequest, Typed
<1>5. lock' \in SUBSET Request /\ linked' \in BOOLEAN /\ serial' \in BOOLEAN /\ missed' \in BOOLEAN
  BY DEF ReconcileRequest, LinkRequest, UnlinkRequest, Overlapping, Typed, db
<1>. QED
  BY <1>4, <1>5 DEF ReconcileRequest, LinkRequest, UnlinkRequest, Typed, db

LEMMA NextTyped == Typed /\ [Next]_vars => Typed'
<1> SUFFICES ASSUME Typed, [Next]_vars
             PROVE  Typed'
  OBVIOUS
<1>1. CASE UNCHANGED vars
  BY <1>1 DEF vars, Typed
<1>2. ASSUME NEW p \in Proc, Reconciling(p)
      PROVE  Typed'
  BY <1>2, ReadKeysTyped, ReadQuestionsTyped, ReconcileSaveTyped, ReleaseTyped DEF Reconciling
<1>3. ASSUME NEW w \in Worker, WorkerStep(w) \/ WorkerLost(w) \/ JobRaises(w)
      PROVE  Typed'
  BY <1>2, <1>3, DeliverTyped, FinalReadTyped, PaperSaveTyped, KeySaveTyped, NotifyTyped,
     AckTyped, WorkerLostTyped, GivenUpTyped DEF WorkerStep, Proc
<1>4. ASSUME NEW r \in Request, RequestStep(r) \/ RequestLost(r) \/ JobRaises(r)
      PROVE  Typed'
  BY <1>2, <1>4, RequestTyped, GivenUpTyped DEF RequestStep, Proc
<1>5. CASE LockExpires
  BY <1>5 DEF LockExpires, Typed, db
<1>. QED
  BY <1>1, <1>3, <1>4, <1>5 DEF Next

LEMMA AlwaysTyped == Spec => []Typed
BY InitTyped, NextTyped, PTL DEF Spec

\* TypeOK of Reconcile: a commit never leaves a paper with some of its answers,
\* an entry with an id that was not given to it, or a lock nobody took.
THEOREM ReconcileTypes == Spec => []TypeOK
<1>1. Typed => TypeOK
  <2> SUFFICES ASSUME Typed
               PROVE  TypeOK
    OBVIOUS
  <2>1. /\ paper.batch \in Nat /\ DOMAIN paper.rows \in {{}, DOMAIN Paper}
        /\ \A i \in DOMAIN paper.rows : paper.rows[i] \in AnswerRow
    BY DEF Typed, Rows
  <2>2. \A e \in EntryRows : e.status \in AnswerStatus \cup {"unmatched"} /\ e.id \in 1..fresh
    <3> SUFFICES ASSUME NEW k \in DOMAIN key
                 PROVE  key[k].status \in AnswerStatus \cup {"unmatched"} /\ key[k].id \in 1..fresh
      BY DEF EntryRows, Range
    <3>1. key[k] \in KeyRow
      BY DEF Typed
    <3>. QED
      BY <3>1 DEF Typed, KeyRow
  <2>3. \A p \in Proc : proc[p].pc \in Pc /\ proc[p].job \in Job
    BY DEF Typed, GoodTask, Task
  <2>. QED
    BY <2>1, <2>2, <2>3 DEF TypeOK, Typed
<1>. QED
  BY <1>1, AlwaysTyped, PTL

-----------------------------------------------------------------------------
(* Questions without a printed answer *)

Unprinted == {i \in DOMAIN Paper : Paper[i].inline = {}}

\* Their answers are never taken for printed ones, so a reconciliation asks what
\* the finalization asked.
NotPrinted(rows) == \A i \in DOMAIN rows : i \in Unprinted => rows[i].source.kind # "inline"
NoInline == NotPrinted(paper.rows) /\ \A p \in Proc : NotPrinted(proc[p].found)

LEMMA FoundNotPrinted ==
  ASSUME NEW D, NEW questions \in [D -> Question], NEW pool \in Seq(KeyRow),
         NEW i \in D, questions[i].inline = {}
  PROVE  Answers(questions, pool, <<>>)[i].source.kind # "inline"
<1>1. PICK repeated : repeated = Repeated(questions, i)
  OBVIOUS
<1>2. Answers(questions, pool, <<>>)[i] = AnswerOf(questions[i], repeated, pool, <<>>)
  BY <1>1 DEF Answers
<1>3. questions[i] \in Question
  OBVIOUS
<1>. QED
  BY <1>2, <1>3, AnswerType

LEMMA SameQuestion ==
  ASSUME Typed, NotPrinted(paper.rows), NEW p \in Proc, proc[p].job.doc = "paper",
         NEW i \in DOMAIN paper.rows, i \in Unprinted
  PROVE  /\ DOMAIN Asked(p) = DOMAIN Paper /\ i \in DOMAIN Paper
         /\ Asked(p)[i] = Paper[i]
         /\ \A pool : Answers(Asked(p), pool, <<>>)[i] = Answers(Paper, pool, <<>>)[i]
<1>1. PICK rows : rows = paper.rows
  OBVIOUS
<1>2. /\ DOMAIN rows \in {{}, DOMAIN Paper}
      /\ \A k \in DOMAIN rows : rows[k] \in AnswerRow /\ Paper[k] \in Question
      /\ Asked(p) \in [DOMAIN rows -> Question]
      /\ \A k \in DOMAIN rows : Asked(p)[k] = Reloaded(Paper[k], rows[k])
  BY <1>1, AskedType
<1>3. DOMAIN rows = DOMAIN Paper /\ DOMAIN Asked(p) = DOMAIN Paper /\ i \in DOMAIN Paper
  BY <1>1, <1>2
<1>4. Asked(p)[i] = Paper[i]
  BY <1>1, <1>2, <1>3, ReloadedType DEF Unprinted, NotPrinted
<1>5. \A k \in DOMAIN Paper : Asked(p)[k].num = Paper[k].num
  <2>1. \A k \in DOMAIN rows : Reloaded(Paper[k], rows[k]).num = Paper[k].num
    BY <1>2 DEF Reloaded, Question
  <2>. QED
    BY <1>2, <1>3, <2>1
<1>6. Repeated(Asked(p), i) = Repeated(Paper, i)
  BY <1>3, <1>5 DEF Repeated
<1>. QED
  BY <1>3, <1>4, <1>6 DEF Answers

LEMMA InitNoInline == Init => NoInline
BY DEF Init, NoInline, NotPrinted, Resting

LEMMA ColumnsNotPrinted ==
  ASSUME NEW old \in AnswerRow, NEW new \in AnswerRow, NEW row \in AnswerRow,
         new.source.kind # "inline", row.source.kind # "inline"
  PROVE  Columns(old, new, row).source.kind # "inline"
BY DEF Columns, AnswerRow

LEMMA NextNoInline == Typed /\ NoInline /\ [Next]_vars => NoInline'
<1> SUFFICES ASSUME Typed, NoInline, [Next]_vars
             PROVE  NoInline'
  OBVIOUS
<1>1. NotPrinted(Resting.found) /\ \A p \in Proc : NotPrinted(Ended(p).found)
  BY DEF NotPrinted, Resting, Ended
<1>2. ASSUME NEW p \in Proc, proc' = [proc EXCEPT ![p] = proc'[p]],
             NotPrinted(proc'[p].found), NotPrinted(paper'.rows)
      PROVE  NoInline'
  BY <1>2 DEF NoInline, Typed
<1>3. ASSUME NEW p \in Proc, proc' = [proc EXCEPT ![p] = proc'[p]], UNCHANGED paper,
             proc'[p].found = proc[p].found \/ proc'[p] \in {Resting, Ended(p)}
      PROVE  NoInline'
  BY <1>1, <1>2, <1>3 DEF NoInline
<1>4. ASSUME NEW p \in Proc, Reconciling(p)
      PROVE  NoInline'
  <2>1. CASE ReadKeys(p) \/ ReleaseCheck(p) \/ ReleaseDelete(p)
    <3>1. proc' = [proc EXCEPT ![p] = proc'[p]] /\ UNCHANGED paper
      BY <2>1 DEF ReadKeys, ReleaseCheck, ReleaseDelete, Typed, db
    <3>2. proc[p] \in Task
      BY DEF Typed, GoodTask
    <3>3. proc'[p].found = proc[p].found \/ proc'[p] \in {Resting, Ended(p)}
      BY <2>1, <3>2 DEF ReadKeys, ReleaseCheck, ReleaseDelete, Typed, Task
    <3>. QED
      BY <1>3, <3>1, <3>3
  <2>2. CASE ReadQuestions(p)
    <3>1. /\ proc' = [proc EXCEPT ![p] = proc'[p]] /\ UNCHANGED paper
          /\ proc'[p].found = Answers(Asked(p), proc[p].pool, <<>>)
      BY <2>2, ReadQuestionsTyped DEF ReadQuestions, db
    <3>2. PICK rows : rows = IF proc[p].job.doc = "paper" THEN paper.rows ELSE <<>>
      OBVIOUS
    <3>3. Asked(p) \in [DOMAIN rows -> Question]
      BY <3>2, AskedType
    <3>4. PICK questions, pool : questions = Asked(p) /\ pool = proc[p].pool
      OBVIOUS
    <3>5. pool \in Seq(KeyRow)
      BY <3>4 DEF Typed, GoodTask, Task
    <3>6. ASSUME NEW i \in DOMAIN rows, i \in Unprinted
          PROVE  Answers(questions, pool, <<>>)[i].source.kind # "inline"
      <4>1. proc[p].job.doc = "paper" /\ i \in DOMAIN paper.rows
        BY <3>2, <3>6
      <4>2. questions[i].inline = {}
        BY <3>4, <3>6, <4>1, SameQuestion DEF NoInline, Unprinted
      <4>. QED
        BY <3>3, <3>4, <3>5, <4>2, FoundNotPrinted
    <3>7. DOMAIN proc'[p].found = DOMAIN rows
      BY <3>1, <3>3 DEF Answers
    <3>8. NotPrinted(proc'[p].found)
      BY <3>1, <3>4, <3>6, <3>7 DEF NotPrinted
    <3>. QED
      BY <1>2, <3>1, <3>8 DEF NoInline
  <2>3. CASE ReconcileSave(p)
    <3>1. proc' = [proc EXCEPT ![p] = proc'[p]] /\ NotPrinted(proc'[p].found)
      BY <1>1, <2>3 DEF ReconcileSave, Typed, NotPrinted, Resting
    <3>2. NotPrinted(paper'.rows)
      <4>1. CASE UNCHANGED paper
        BY <4>1 DEF NoInline
      <4>2. CASE paper' # paper
        <5>1. PICK rows : rows = [i \in DOMAIN paper.rows |->
               IF i \in Changed(p) THEN Columns(proc[p].rows[i], proc[p].found[i], paper.rows[i])
                                   ELSE paper.rows[i]]
          OBVIOUS
        <5>2. paper'.rows = rows
          BY <2>3, <4>2, <5>1 DEF ReconcileSave, Typed
        <5>3. paper.rows \in Rows /\ proc[p].rows \in Rows /\ proc[p].found \in Rows
              /\ DOMAIN proc[p].found = DOMAIN proc[p].rows
          BY <2>3 DEF Typed, GoodTask, Task, Prepared, ReconcileSave, At
        <5>4. /\ \A i \in DOMAIN paper.rows : paper.rows[i] \in AnswerRow
              /\ \A i \in Changed(p) : /\ proc[p].rows[i] \in AnswerRow
                                       /\ i \in DOMAIN proc[p].found
                                       /\ proc[p].found[i] \in AnswerRow
          BY <5>3 DEF Rows, Changed
        <5>5. \A i \in DOMAIN paper.rows : i \in Unprinted => rows[i].source.kind # "inline"
          BY <5>1, <5>4, ColumnsNotPrinted DEF NoInline, NotPrinted
        <5>. QED
          BY <5>1, <5>2, <5>5 DEF NotPrinted
      <4>. QED
        BY <4>1, <4>2
    <3>. QED
      BY <1>2, <3>1, <3>2
  <2>. QED
    BY <1>4, <2>1, <2>2, <2>3 DEF Reconciling
<1>8. ASSUME NEW p \in Proc, JobRaises(p) \/ RequestLost(p)
      PROVE  NoInline'
  <2>1. NotPrinted(proc'[p].found) /\ UNCHANGED paper
    BY <1>1, <1>8, GivenUp DEF JobRaises, RequestLost, db, NotPrinted, Resting
  <2>. QED
    BY <1>2, <1>8, <2>1, GivenUp DEF NoInline
<1>5. ASSUME NEW w \in Worker, WorkerStep(w) \/ WorkerLost(w) \/ JobRaises(w)
      PROVE  NoInline'
  <2>1. w \in Proc /\ proc[w] \in Task
    BY DEF Typed, GoodTask, Proc
  <2>2. CASE Deliver(w) \/ KeySave(w) \/ Notify(w) \/ Ack(w) \/ WorkerLost(w)
    <3>1. proc' = [proc EXCEPT ![w] = proc'[w]] /\ UNCHANGED paper
      BY <2>1, <2>2 DEF Deliver, KeySave, Notify, Ack, WorkerLost, Typed, db
    <3>2. proc'[w].found = proc[w].found \/ proc'[w] \in {Resting, Ended(w)}
      BY <2>1, <2>2 DEF Deliver, KeySave, Notify, Ack, WorkerLost, Typed, Task
    <3>. QED
      BY <1>3, <2>1, <3>1, <3>2
  <2>3. CASE FinalRead(w)
    <3>1. /\ proc' = [proc EXCEPT ![w] = proc'[w]] /\ UNCHANGED paper
      BY <2>3, FinalReadTyped DEF FinalRead, db
    <3>2. PICK pool : pool = IF proc[w].job.doc = "paper" /\ linked THEN key ELSE <<>>
      OBVIOUS
    <3>3. pool \in Seq(KeyRow) /\ Paper \in [DOMAIN Paper -> Question]
      BY <3>2, ExtractionAssumption DEF Typed
    <3>4. CASE proc[w].job.doc = "paper"
      <4>1. proc'[w].found = Answers(Paper, pool, <<>>)
        BY <2>3, <3>2, <3>4, FinalReadTyped
      <4>2. \A i \in DOMAIN Paper : i \in Unprinted => Answers(Paper, pool, <<>>)[i].source.kind # "inline"
        BY <3>3, FoundNotPrinted DEF Unprinted
      <4>3. NotPrinted(proc'[w].found)
        BY <4>1, <4>2 DEF NotPrinted, Answers
      <4>. QED
        BY <1>2, <2>1, <3>1, <4>3 DEF NoInline
    <3>5. CASE proc[w].job.doc # "paper"
      <4>1. proc'[w].found = Answers(<<>>, pool, <<>>)
        BY <2>1, <2>3, <3>2, <3>5 DEF FinalRead, Matched, Typed, Task
      <4>2. NotPrinted(proc'[w].found)
        BY <4>1 DEF NotPrinted, Answers
      <4>. QED
        BY <1>2, <2>1, <3>1, <4>2 DEF NoInline
    <3>. QED
      BY <3>4, <3>5
  <2>4. CASE PaperSave(w)
    <3>1. proc' = [proc EXCEPT ![w] = proc'[w]]
          /\ (proc'[w].found = proc[w].found \/ proc'[w] = Ended(w))
      BY <2>1, <2>4 DEF PaperSave, Typed, Task
    <3>2. paper'.rows = paper.rows \/ paper'.rows = proc[w].found
      BY <2>4 DEF PaperSave
    <3>. QED
      BY <1>1, <1>2, <2>1, <3>1, <3>2 DEF NoInline
  <2>. QED
    BY <1>4, <1>5, <1>8, <2>1, <2>2, <2>3, <2>4 DEF WorkerStep
<1>6. ASSUME NEW r \in Request, RequestStep(r) \/ RequestLost(r) \/ JobRaises(r)
      PROVE  NoInline'
  <2>1. r \in Proc /\ proc[r] \in Task
    BY DEF Typed, GoodTask, Proc
  <2>2. CASE ReconcileRequest(r) \/ LinkRequest(r) \/ UnlinkRequest(r)
    <3>1. proc' = [proc EXCEPT ![r] = proc'[r]] /\ UNCHANGED paper
      BY <2>1, <2>2 DEF ReconcileRequest, LinkRequest, UnlinkRequest, Typed, db
    <3>2. proc'[r].found = proc[r].found \/ proc'[r] \in {Resting, Ended(r)}
      BY <2>1, <2>2 DEF ReconcileRequest, LinkRequest, UnlinkRequest, Typed, Task
    <3>. QED
      BY <1>3, <2>1, <3>1, <3>2
  <2>. QED
    BY <1>4, <1>6, <1>8, <2>1, <2>2 DEF RequestStep
<1>7. CASE LockExpires \/ UNCHANGED vars
  BY <1>7 DEF LockExpires, vars, db, NoInline, NotPrinted
<1>. QED
  BY <1>5, <1>6, <1>7 DEF Next

-----------------------------------------------------------------------------
(* While no two jobs have overlapped *)

Busy(p) == proc[p].pc \in Active
Does(p, kind, d) == Busy(p) /\ proc[p].job = [kind |-> kind, doc |-> d]
Waiting(r) == proc[r].pc = "new" => proc[r].job = [kind |-> "reconcile", doc |-> "paper"]

\* One job is under way at most.
Alone == \A p, q \in Proc : Busy(p) /\ Busy(q) => p = q

\* What a job has read is what is stored: nobody has written since.
ReadNow(p) ==
  /\ proc[p].pc \in {"questions", "save"} => Range(proc[p].pool) \subseteq Range(key)
  /\ proc[p].pc \in {"questions", "save"} /\ proc[p].job.doc = "paper" =>
       proc[p].pool = IF linked THEN key ELSE <<>>
  /\ proc[p].pc = "save" /\ proc[p].job.doc = "paper" =>
       \A i \in DOMAIN proc[p].found :
         i \in Unprinted => proc[p].found[i] = Answers(Paper, proc[p].pool, <<>>)[i]
  /\ proc[p].pc = "save" /\ proc[p].job.kind = "reconcile" =>
       /\ proc[p].batch = paper.batch
       /\ proc[p].rows = IF proc[p].job.doc = "paper" THEN paper.rows ELSE <<>>
  /\ proc[p].pc = "notify" \/ At(p, "save", "finalize") => proc[p].link = linked

\* The paper is still to be reconciled, or to be told of its key.
Reads(p) == proc[p].pc \in {"read", "questions", "save"}
Tells(p) == Does(p, "finalize", "key") /\ (Reads(p) \/ proc[p].pc = "notify")
ToCome ==
  \/ todo["key"] > 0 \/ queue["paper"] > 0
  \/ \E p \in Proc : Tells(p) \/ (Does(p, "reconcile", "paper") /\ Reads(p))
RowsCurrent ==
  \A i \in DOMAIN paper.rows : i \in Unprinted => paper.rows[i] = Answers(Paper, key, <<>>)[i]

SerialInv ==
  /\ \A r \in Request : Waiting(r)
  /\ serial => /\ Alone
               /\ \A p \in Proc : ReadNow(p)
               /\ linked /\ known => missed \/ ToCome \/ RowsCurrent

LEMMA InitSerial == Init => SerialInv
<1> SUFFICES ASSUME Init
             PROVE  SerialInv
  OBVIOUS
<1>1. \A p \in Proc : proc[p].pc \in {"idle", "new"} /\ proc[p].job = [kind |-> "reconcile", doc |-> "paper"]
  BY DEF Init, Resting
<1>2. \A p \in Proc : ~Busy(p) /\ ReadNow(p)
  BY <1>1 DEF Busy, Active, ReadNow, At
<1>. QED
  BY <1>1, <1>2 DEF Init, SerialInv, Waiting, Alone, Proc

LEMMA AloneNow ==
  ASSUME SerialInv, serial, NEW p \in Proc, Busy(p)
  PROVE  \A q \in Proc \ {p} : ~Busy(q)
BY DEF SerialInv, Alone

\* A step of one task while nobody else is at work.
LEMMA SerialStep ==
  ASSUME Typed, SerialInv, NEW p \in Proc, proc' = [proc EXCEPT ![p] = proc'[p]],
         proc'[p].pc # "new",
         serial' => /\ \A q \in Proc \ {p} : ~Busy(q)
                    /\ ReadNow(p)'
                    /\ linked' /\ known' => missed' \/ ToCome' \/ RowsCurrent'
  PROVE  SerialInv'
<1>1. \A q \in Proc \ {p} : proc'[q] = proc[q]
  BY DEF Typed
<1>2. \A r \in Request : Waiting(r)'
  BY <1>1 DEF SerialInv, Waiting, Proc
<1>3. ASSUME serial'
      PROVE  Alone' /\ (\A q \in Proc : ReadNow(q)')
             /\ (linked' /\ known' => missed' \/ ToCome' \/ RowsCurrent')
  <2>1. \A q \in Proc \ {p} : ~Busy(q)'
    BY <1>1, <1>3 DEF Busy
  <2>2. Alone'
    BY <2>1 DEF Alone
  <2>3. ASSUME NEW q \in Proc \ {p}
        PROVE  ReadNow(q)'
    BY <2>1 DEF ReadNow, Busy, Active, At
  <2>. QED
    BY <1>3, <2>2, <2>3
<1>. QED
  BY <1>2, <1>3 DEF SerialInv

\* The steps that change no row and no link.
LEMMA QuietStep ==
  ASSUME Typed, SerialInv, UNCHANGED <<linked, paper, key, known>>,
         NEW p \in Proc, proc' = [proc EXCEPT ![p] = proc'[p]], proc'[p].pc # "new",
         serial' => /\ serial /\ \A q \in Proc \ {p} : ~Busy(q)
                    /\ ReadNow(p)' /\ (missed => missed')
                    /\ linked /\ known /\ ToCome => missed' \/ ToCome'
  PROVE  SerialInv'
<1>1. RowsCurrent => RowsCurrent'
  BY DEF RowsCurrent
<1>2. serial' /\ linked' /\ known' => missed' \/ ToCome' \/ RowsCurrent'
  BY <1>1 DEF SerialInv
<1>. QED
  BY <1>2, SerialStep

\* What there is to come without the help of a process that is not at work.
LEMMA WhoComes ==
  ASSUME NEW p \in Proc, \A q \in Proc \ {p} : ~Busy(q), ToCome
  PROVE  \/ todo["key"] > 0 \/ queue["paper"] > 0
         \/ Tells(p) \/ (Does(p, "reconcile", "paper") /\ Reads(p))
BY DEF ToCome, Tells, Does

LEMMA DeliverSerial ==
  ASSUME Typed, SerialInv, NEW w \in Worker, Deliver(w)
  PROVE  SerialInv'
<1>1. w \in Proc /\ proc[w] \in Task /\ ~Busy(w)
  BY DEF Typed, GoodTask, Proc, Deliver, Busy, Active
<1>2. PICK d \in Doc :
       \/ /\ todo' = [todo EXCEPT ![d] = @ - 1]
          /\ proc' = [proc EXCEPT ![w].pc = "read", ![w].job = [kind |-> "finalize", doc |-> d]]
          /\ UNCHANGED queue
       \/ /\ queue' = [queue EXCEPT ![d] = @ - 1]
          /\ proc' = [proc EXCEPT ![w].pc = "read", ![w].job = [kind |-> "reconcile", doc |-> d]]
          /\ UNCHANGED todo
  BY DEF Deliver
<1>3. /\ proc' = [proc EXCEPT ![w] = proc'[w]] /\ proc'[w].pc = "read"
      /\ \/ /\ todo' = [todo EXCEPT ![d] = @ - 1] /\ UNCHANGED queue
            /\ proc'[w].job = [kind |-> "finalize", doc |-> d]
         \/ /\ queue' = [queue EXCEPT ![d] = @ - 1] /\ UNCHANGED todo
            /\ proc'[w].job = [kind |-> "reconcile", doc |-> d]
  BY <1>1, <1>2 DEF Typed, Task
<1>4. ASSUME serial'
      PROVE  serial /\ (\A q \in Proc : ~Busy(q)) /\ ReadNow(w)'
             /\ (ToCome => ToCome')
  <2>1. serial /\ \A q \in Proc : ~Busy(q)
    BY <1>4 DEF Deliver, Overlapping, Busy
  <2>2. ReadNow(w)'
    BY <1>3 DEF ReadNow, At
  <2>4. ASSUME ToCome
        PROVE  ToCome'
    <3>1. todo["key"] > 0 \/ queue["paper"] > 0
      BY <1>1, <2>1, <2>4, WhoComes DEF Tells, Does
    <3>2. todo \in [Doc -> Nat] /\ queue \in [Doc -> Nat] /\ "key" \in Doc /\ "paper" \in Doc
      BY DEF Typed, Doc
    <3>3. \/ todo'["key"] > 0 \/ queue'["paper"] > 0
          \/ proc'[w].job = [kind |-> "finalize", doc |-> "key"]
          \/ proc'[w].job = [kind |-> "reconcile", doc |-> "paper"]
      BY <1>2, <1>3, <3>1, <3>2
    <3>. QED
      BY <1>1, <1>3, <3>3 DEF ToCome, Tells, Does, Busy, Active, Reads
  <2>. QED
    BY <2>1, <2>2, <2>4
<1>5. UNCHANGED <<linked, paper, key, known, missed>>
  BY DEF Deliver, db
<1>. QED
  BY <1>1, <1>3, <1>4, <1>5, QuietStep

\* A worker that is done, or lost: whatever it had to do is queued again.
LEMMA RestSerial ==
  ASSUME Typed, SerialInv, NEW w \in Worker, Ack(w) \/ WorkerLost(w)
  PROVE  SerialInv'
<1>1. w \in Proc /\ proc' = [proc EXCEPT ![w] = Resting] /\ UNCHANGED <<linked, paper, key, known, lock, serial, missed>>
  BY DEF Ack, WorkerLost, Proc, db
<1>2. proc'[w] = Resting /\ \A q \in Proc \ {w} : proc'[q] = proc[q]
  BY <1>1 DEF Typed
<1>3. ~Busy(w)' /\ ReadNow(w)' /\ w \notin Request /\ Resting.pc = "idle"
  BY <1>2, ProcAssumption DEF Busy, Active, ReadNow, At, Resting
<1>4. \A r \in Request : Waiting(r)'
  BY <1>2, <1>3 DEF SerialInv, Waiting, Proc
<1>5. ASSUME serial'
      PROVE  Alone' /\ (\A q \in Proc : ReadNow(q)')
             /\ (linked' /\ known' => missed' \/ ToCome' \/ RowsCurrent')
  <2>1. Alone'
    BY <1>1, <1>2, <1>3, <1>5 DEF SerialInv, Alone, Busy
  <2>3. ASSUME NEW q \in Proc
        PROVE  ReadNow(q)'
    <3>1. CASE q = w
      BY <1>3, <3>1
    <3>2. CASE q # w
      <4>1. proc'[q] = proc[q] /\ ReadNow(q)
        BY <1>1, <1>2, <1>5, <3>2 DEF SerialInv
      <4>. QED
        BY <1>1, <4>1 DEF ReadNow, At
    <3>. QED
      BY <3>1, <3>2
  <2>4. RowsCurrent => RowsCurrent'
    BY <1>1 DEF RowsCurrent
  <2>5. ASSUME ToCome
        PROVE  ToCome'
    <3>1. /\ todo \in [Doc -> Nat] /\ queue \in [Doc -> Nat] /\ "key" \in Doc /\ "paper" \in Doc
          /\ proc[w].job.doc \in Doc
      BY <1>1 DEF Typed, Doc, GoodTask, Task, Job
    <3>2. \/ UNCHANGED <<todo, queue>> /\ ~Busy(w)
          \/ /\ proc[w].job.kind = "finalize" /\ UNCHANGED queue
             /\ todo' = [todo EXCEPT ![proc[w].job.doc] = @ + 1]
          \/ /\ proc[w].job.kind # "finalize" /\ UNCHANGED todo
             /\ queue' = [queue EXCEPT ![proc[w].job.doc] = @ + 1]
      BY DEF Ack, WorkerLost, Busy, Active
    <3>3. (todo["key"] > 0 => todo'["key"] > 0) /\ (queue["paper"] > 0 => queue'["paper"] > 0)
      BY <3>1, <3>2
    <3>4. Tells(w) => todo'["key"] > 0
      BY <3>1, <3>2 DEF Tells, Does
    <3>5. Does(w, "reconcile", "paper") => queue'["paper"] > 0
      BY <3>1, <3>2 DEF Does
    <3>6. ASSUME NEW q \in Proc \ {w},
                 Tells(q) \/ (Does(q, "reconcile", "paper") /\ Reads(q))
          PROVE  ToCome'
      BY <1>2, <3>6 DEF ToCome, Tells, Does, Busy, Reads
    <3>. QED
      BY <2>5, <3>3, <3>4, <3>5, <3>6 DEF ToCome
  <2>. QED
    BY <1>1, <1>5, <2>1, <2>3, <2>4, <2>5 DEF SerialInv
<1>. QED
  BY <1>4, <1>5 DEF SerialInv

\* A read of the one job under way: the next commit is still to come.
LEMMA ReadStep ==
  ASSUME Typed, SerialInv, NEW p \in Proc, Busy(p), Reads(p),
         UNCHANGED <<linked, paper, key, known, todo, queue, serial, missed>>,
         proc' = [proc EXCEPT ![p] = proc'[p]],
         proc'[p].job = proc[p].job, Reads(p)', serial => ReadNow(p)'
  PROVE  SerialInv'
<1>1. Busy(p)' /\ proc'[p].pc # "new"
  BY DEF Reads, Busy, Active
<1>2. ASSUME serial'
      PROVE  serial /\ (\A q \in Proc \ {p} : ~Busy(q)) /\ ReadNow(p)'
             /\ (ToCome => ToCome')
  <2>1. \A q \in Proc \ {p} : ~Busy(q)
    BY <1>2, AloneNow
  <2>3. ToCome => ToCome'
    <3>1. SUFFICES ASSUME ToCome
                   PROVE  ToCome'
      OBVIOUS
    <3>2. \/ todo["key"] > 0 \/ queue["paper"] > 0
          \/ Tells(p) \/ (Does(p, "reconcile", "paper") /\ Reads(p))
      BY <2>1, <3>1, WhoComes
    <3>. QED
      BY <1>1, <3>2 DEF ToCome, Tells, Does
  <2>. QED
    BY <1>2, <2>1, <2>3
<1>. QED
  BY <1>1, <1>2, QuietStep

LEMMA ReadKeysSerial ==
  ASSUME Typed, SerialInv, NEW p \in Proc, ReadKeys(p)
  PROVE  SerialInv'
<1>1. PICK pool : pool = IF proc[p].job.doc = "key" \/ linked THEN key ELSE <<>>
  OBVIOUS
<1>2. proc[p] \in Task /\ proc[p].pc = "read" /\ proc[p].job \in Job
  BY DEF Typed, GoodTask, Task, ReadKeys, At
<1>3. /\ proc' = [proc EXCEPT ![p] = proc'[p]]
      /\ proc'[p].pc = "questions" /\ proc'[p].job = proc[p].job /\ proc'[p].pool = pool
  BY <1>1, <1>2 DEF ReadKeys, Typed, Task
<1>4. Range(pool) \subseteq Range(key)
  BY <1>1 DEF Range
<1>5. ReadNow(p)'
  BY <1>1, <1>2, <1>3, <1>4 DEF ReadNow, ReadKeys, At, db, Job
<1>. QED
  BY <1>2, <1>3, <1>5, ReadStep DEF ReadKeys, db, Busy, Active, Reads

LEMMA ReadQuestionsSerial ==
  ASSUME Typed, NoInline, SerialInv, NEW p \in Proc, ReadQuestions(p)
  PROVE  SerialInv'
<1>1. proc[p].pc = "questions" /\ proc[p].job.kind = "reconcile"
  BY DEF ReadQuestions, At
<1>2. /\ proc' = [proc EXCEPT ![p] = proc'[p]]
      /\ proc'[p].pc = "save" /\ proc'[p].job = proc[p].job /\ proc'[p].pool = proc[p].pool
      /\ proc'[p].batch = paper.batch
      /\ proc'[p].rows = IF proc[p].job.doc = "paper" THEN paper.rows ELSE <<>>
      /\ proc'[p].found = Answers(Asked(p), proc[p].pool, <<>>)
  BY ReadQuestionsTyped
<1>3. UNCHANGED <<linked, paper, key, known, todo, queue, serial, missed>>
  BY DEF ReadQuestions, db
<1>4. ASSUME serial
      PROVE  ReadNow(p)'
  <2>1. /\ Range(proc[p].pool) \subseteq Range(key)
        /\ proc[p].job.doc = "paper" => proc[p].pool = IF linked THEN key ELSE <<>>
    BY <1>1, <1>4 DEF SerialInv, ReadNow
  <2>2. ASSUME proc[p].job.doc = "paper", NEW i \in DOMAIN proc'[p].found, i \in Unprinted
        PROVE  proc'[p].found[i] = Answers(Paper, proc[p].pool, <<>>)[i]
    <3>1. PICK rows : rows = paper.rows
      OBVIOUS
    <3>2. Asked(p) \in [DOMAIN rows -> Question] /\ DOMAIN proc'[p].found = DOMAIN Asked(p)
      BY <1>2, <2>2, <3>1, AskedType DEF Answers
    <3>3. i \in DOMAIN paper.rows
      BY <2>2, <3>1, <3>2
    <3>. QED
      BY <1>2, <2>2, <3>3, SameQuestion DEF NoInline
  <2>. QED
    BY <1>1, <1>2, <1>3, <2>1, <2>2 DEF ReadNow, At
<1>. QED
  BY <1>1, <1>2, <1>3, <1>4, ReadStep DEF Busy, Active, Reads

LEMMA FinalReadSerial ==
  ASSUME Typed, SerialInv, NEW w \in Worker, FinalRead(w)
  PROVE  SerialInv'
<1>1. w \in Proc /\ proc[w].pc = "read" /\ proc[w].job.kind = "finalize"
  BY DEF FinalRead, At, Proc
<1>2. PICK pool : pool = IF proc[w].job.doc = "paper" /\ linked THEN key ELSE <<>>
  OBVIOUS
<1>3. /\ proc' = [proc EXCEPT ![w] = proc'[w]]
      /\ proc'[w].pc = "save" /\ proc'[w].job = proc[w].job /\ proc'[w].link = linked
      /\ proc'[w].pool = pool
      /\ proc[w].job.doc = "paper" => proc'[w].found = Answers(Paper, pool, <<>>)
  BY <1>2, FinalReadTyped
<1>4. Range(pool) \subseteq Range(key)
  BY <1>2 DEF Range
<1>5. ReadNow(w)'
  BY <1>1, <1>2, <1>3, <1>4 DEF ReadNow, FinalRead, At, db
<1>. QED
  BY <1>1, <1>3, <1>5, ReadStep DEF FinalRead, db, Busy, Active, Reads

\* A commit of the one job under way is of rows that are all still there.
LEMMA NotStale ==
  ASSUME SerialInv, serial, NEW p \in Proc, proc[p].pc = "save"
  PROVE  ~Stale(p)
<1>1. \A e \in Range(proc[p].pool) : \E k \in DOMAIN key : key[k] = e
  BY DEF SerialInv, ReadNow, Range
<1>2. \A e \in Touched(p) : \E k \in DOMAIN key : key[k].id = e.id
  BY <1>1 DEF Touched
<1>3. proc[p].job.kind = "reconcile" => paper.batch = proc[p].batch
  BY DEF SerialInv, ReadNow
<1>. QED
  BY <1>2, <1>3 DEF Stale

\* The answers a key gives are the same after a commit of statuses.
LEMMA SameAfter ==
  ASSUME Typed, NEW p \in Proc, proc[p].pc = "save"
  PROVE  \A i \in DOMAIN Paper : Answers(Paper, KeyAfter(p), <<>>)[i] = Answers(Paper, key, <<>>)[i]
<1>1. PICK one : one = key
  OBVIOUS
<1>2. PICK two : two = KeyAfter(p)
  OBVIOUS
<1>3. one \in Seq(KeyRow) /\ two \in Seq(KeyRow) /\ SameEntries(one, two)
  BY <1>1, <1>2, KeyAfterType DEF Typed, SameEntries
<1>. QED
  BY <1>1, <1>2, <1>3, SameAnswer DEF Answers

LEMMA ReconcileSaveSerial ==
  ASSUME Typed, SerialInv, NEW p \in Proc, ReconcileSave(p)
  PROVE  SerialInv'
<1>1. /\ proc[p].pc = "save" /\ proc[p].job.kind = "reconcile" /\ proc[p].job \in Job
      /\ proc[p] \in Task /\ Prepared(proc[p])
  BY DEF Typed, GoodTask, Task, ReconcileSave, At
<1>2. /\ proc' = [proc EXCEPT ![p] = proc'[p]]
      /\ \/ /\ p \in Request /\ proc[p].job.doc = "paper"
            /\ proc'[p] = [Resting EXCEPT !.pc = "release"]
         \/ ~(p \in Request /\ proc[p].job.doc = "paper") /\ proc'[p] = Ended(p)
  BY DEF ReconcileSave, Typed
<1>3. proc'[p].pc \in {"release", "return", "over"}
  BY <1>2, EndedType DEF Typed, Resting
<1>4. UNCHANGED <<linked, known, todo, queue, serial>>
  BY DEF ReconcileSave
<1>5. ASSUME serial'
      PROVE  /\ \A q \in Proc \ {p} : ~Busy(q)
             /\ ReadNow(p)'
             /\ linked' /\ known' => missed' \/ ToCome' \/ RowsCurrent'
  <2>1. \A q \in Proc \ {p} : ~Busy(q)
    BY <1>1, <1>4, <1>5, AloneNow DEF Busy, Active
  <2>2. ReadNow(p)'
    BY <1>3 DEF ReadNow, At
  <2>4. /\ key' = KeyAfter(p) /\ missed' = (missed /\ proc[p].job.doc # "paper")
        /\ paper' = [paper EXCEPT !.rows =
               [i \in DOMAIN @ |-> IF i \in Changed(p)
                                   THEN Columns(proc[p].rows[i], proc[p].found[i], @[i]) ELSE @[i]]]
    BY <1>1, <1>4, <1>5, NotStale DEF ReconcileSave
  <2>5. PICK rows : rows = [i \in DOMAIN paper.rows |->
               IF i \in Changed(p) THEN Columns(proc[p].rows[i], proc[p].found[i], paper.rows[i])
                                   ELSE paper.rows[i]]
    OBVIOUS
  <2>6. paper'.rows = rows /\ DOMAIN rows = DOMAIN paper.rows
    BY <2>4, <2>5 DEF Typed
  <2>7. /\ \A i \in DOMAIN paper.rows : paper.rows[i] \in AnswerRow /\ i \in DOMAIN Paper
        /\ \A i \in DOMAIN proc[p].found : proc[p].found[i] \in AnswerRow
        /\ DOMAIN proc[p].found = DOMAIN proc[p].rows
    BY <1>1 DEF Typed, Task, Prepared, Rows
  <2>8. \A i \in DOMAIN paper.rows : Answers(Paper, key', <<>>)[i] = Answers(Paper, key, <<>>)[i]
    BY <1>1, <2>4, <2>7, SameAfter
  <2>9. CASE proc[p].job.doc = "paper"
    <3>1. /\ proc[p].rows = paper.rows
          /\ linked => proc[p].pool = key
          /\ \A i \in DOMAIN proc[p].found : i \in Unprinted =>
               proc[p].found[i] = Answers(Paper, proc[p].pool, <<>>)[i]
      BY <1>1, <1>4, <1>5, <2>9 DEF SerialInv, ReadNow
    <3>2. \A i \in DOMAIN paper.rows : rows[i] = proc[p].found[i]
      BY <2>5, <2>7, <3>1, ColumnsType DEF Changed
    <3>3. linked => RowsCurrent'
      BY <2>6, <2>7, <2>8, <3>1, <3>2 DEF RowsCurrent
    <3>. QED
      BY <1>4, <2>1, <2>2, <3>3
  <2>10. CASE proc[p].job.doc # "paper"
    <3>1. DOMAIN proc[p].rows = {}
      BY <1>1, <1>4, <1>5, <2>10 DEF SerialInv, ReadNow
    <3>2. rows = paper.rows
      <4>1. \A i \in DOMAIN paper.rows : rows[i] = paper.rows[i]
        BY <2>5, <3>1 DEF Changed
      <4>2. paper.rows = [i \in DOMAIN paper.rows |-> paper.rows[i]]
        BY DEF Typed, Rows
      <4>3. rows = [i \in DOMAIN paper.rows |-> rows[i]]
        BY <2>5
      <4>. QED
        BY <4>1, <4>2, <4>3
    <3>3. RowsCurrent => RowsCurrent'
      BY <2>6, <2>8, <3>2 DEF RowsCurrent
    <3>4. ToCome => ToCome'
      <4>1. ToCome => todo["key"] > 0 \/ queue["paper"] > 0
        BY <1>1, <2>1, <2>10, WhoComes DEF Tells, Does
      <4>. QED
        BY <1>4, <4>1 DEF ToCome
    <3>. QED
      BY <1>4, <1>5, <2>1, <2>2, <2>4, <2>10, <3>3, <3>4 DEF SerialInv
  <2>. QED
    BY <2>9, <2>10
<1>. QED
  BY <1>2, <1>3, <1>5, SerialStep

\* The answers are saved, and the lock is not what keeps them.
LEMMA ReleaseSerial ==
  ASSUME Typed, SerialInv, NEW p \in Proc, ReleaseCheck(p) \/ ReleaseDelete(p)
  PROVE  SerialInv'
<1>1. proc[p] \in Task /\ proc[p].pc \in {"release", "delete"} /\ Busy(p)
  BY DEF Typed, GoodTask, ReleaseCheck, ReleaseDelete, Busy, Active
<1>2. /\ proc' = [proc EXCEPT ![p] = proc'[p]]
      /\ proc'[p] = Ended(p) \/ proc'[p] = [proc[p] EXCEPT !.pc = "delete"]
  BY DEF ReleaseCheck, ReleaseDelete, Typed
<1>3. proc'[p].pc \in {"delete", "return", "over"}
  BY <1>1, <1>2, EndedType DEF Typed, Task
<1>4. UNCHANGED <<linked, paper, key, known, todo, queue, serial, missed>>
  BY DEF ReleaseCheck, ReleaseDelete, db
<1>5. ASSUME serial'
      PROVE  /\ serial /\ \A q \in Proc \ {p} : ~Busy(q)
             /\ ReadNow(p)'
             /\ ToCome => ToCome'
  <2>1. serial /\ \A q \in Proc \ {p} : ~Busy(q)
    BY <1>1, <1>4, <1>5, AloneNow
  <2>2. ReadNow(p)'
    BY <1>3 DEF ReadNow, At
  <2>6. ASSUME ToCome
        PROVE  ToCome'
    <3>1. todo["key"] > 0 \/ queue["paper"] > 0
      BY <1>1, <2>1, <2>6, WhoComes DEF Tells, Reads
    <3>. QED
      BY <1>4, <3>1 DEF ToCome
  <2>. QED
    BY <2>1, <2>2, <2>6
<1>. QED
  BY <1>2, <1>3, <1>4, <1>5, QuietStep

\* A job that raises, or is lost with its process: what it owed is missed.
LEMMA GivenUpSerial ==
  ASSUME Typed, SerialInv, NEW p \in Proc, JobRaises(p) \/ RequestLost(p)
  PROVE  SerialInv'
<1>1. Busy(p) /\ proc'[p].pc \in {"release", "return", "over"}
  BY GivenUp, EndedType DEF JobRaises, RequestLost, Busy, Active, Typed, Resting
<1>2. /\ UNCHANGED <<linked, paper, key, known, todo, queue, serial>>
      /\ missed' = (missed \/ Owes(p))
  BY DEF JobRaises, RequestLost, db
<1>3. ASSUME serial'
      PROVE  /\ serial /\ \A q \in Proc \ {p} : ~Busy(q)
             /\ ReadNow(p)'
             /\ linked /\ known /\ ToCome => missed' \/ ToCome'
  <2>1. serial /\ \A q \in Proc \ {p} : ~Busy(q)
    BY <1>1, <1>2, <1>3, AloneNow
  <2>2. ReadNow(p)'
    BY <1>1 DEF ReadNow, At
  <2>3. ASSUME linked, ToCome
        PROVE  missed' \/ ToCome'
    <3>1. CASE todo["key"] > 0 \/ queue["paper"] > 0
      BY <1>2, <3>1 DEF ToCome
    <3>2. CASE Tells(p) \/ (Does(p, "reconcile", "paper") /\ Reads(p))
      <4>1. proc[p].pc = "notify" => proc[p].link
        BY <2>1, <2>3 DEF SerialInv, ReadNow
      <4>. QED
        BY <1>2, <3>2, <4>1 DEF Owes, Tells, Does, Reads
    <3>. QED
      BY <2>1, <2>3, <3>1, <3>2, WhoComes
  <2>. QED
    BY <2>1, <2>2, <2>3
<1>. QED
  BY <1>1, <1>2, <1>3, GivenUp, QuietStep

LEMMA PaperSaveSerial ==
  ASSUME Typed, SerialInv, NEW w \in Worker, PaperSave(w)
  PROVE  SerialInv'
<1>1. /\ w \in Proc /\ proc[w].pc = "save" /\ proc[w].job.kind = "finalize"
      /\ proc[w].job.doc = "paper" /\ proc[w] \in Task
  BY DEF Typed, GoodTask, PaperSave, At, Proc
<1>2. /\ proc' = [proc EXCEPT ![w] = proc'[w]]
      /\ proc'[w] = Ended(w) \/ (proc'[w].pc = "notify" /\ proc'[w].link = proc[w].link)
  BY <1>1 DEF PaperSave, Typed, Task
<1>3. proc'[w].pc \in {"notify", "return", "over"}
  BY <1>1, <1>2, EndedType DEF Typed
<1>4. UNCHANGED <<linked, known, todo, queue, serial>>
  BY DEF PaperSave
<1>5. ASSUME serial'
      PROVE  /\ \A q \in Proc \ {w} : ~Busy(q)
             /\ ReadNow(w)'
             /\ linked' /\ known' => missed' \/ ToCome' \/ RowsCurrent'
  <2>1. \A q \in Proc \ {w} : ~Busy(q)
    BY <1>1, <1>4, <1>5, AloneNow DEF Busy, Active
  <2>3. /\ key' = KeyAfter(w) /\ paper'.rows = proc[w].found
        /\ proc'[w].pc = "notify" /\ proc'[w].link = proc[w].link
    BY <1>1, <1>4, <1>5, NotStale DEF PaperSave, Typed, Task
  <2>4. /\ proc[w].link = linked
        /\ linked => proc[w].pool = key
        /\ \A i \in DOMAIN proc[w].found : i \in Unprinted =>
             proc[w].found[i] = Answers(Paper, proc[w].pool, <<>>)[i]
    BY <1>1, <1>4, <1>5 DEF SerialInv, ReadNow, At
  <2>5. ReadNow(w)'
    BY <1>4, <2>3, <2>4 DEF ReadNow, At
  <2>6. \A i \in DOMAIN Paper : Answers(Paper, key', <<>>)[i] = Answers(Paper, key, <<>>)[i]
    BY <1>1, <2>3, SameAfter
  <2>7. linked => RowsCurrent'
    BY <2>3, <2>4, <2>6 DEF RowsCurrent, Unprinted
  <2>. QED
    BY <1>4, <2>1, <2>5, <2>7
<1>. QED
  BY <1>1, <1>2, <1>3, <1>5, SerialStep

LEMMA KeySaveSerial ==
  ASSUME Typed, SerialInv, NEW w \in Worker, KeySave(w)
  PROVE  SerialInv'
<1>1. /\ w \in Proc /\ proc[w].pc = "save" /\ proc[w].job.kind = "finalize"
      /\ proc[w].job.doc = "key" /\ proc[w] \in Task /\ proc[w].job \in Job
  BY DEF Typed, GoodTask, Task, KeySave, At, Proc
<1>2. /\ proc' = [proc EXCEPT ![w] = proc'[w]]
      /\ proc'[w].pc = "notify" /\ proc'[w].link = proc[w].link /\ proc'[w].job = proc[w].job
  BY <1>1 DEF KeySave, Typed, Task
<1>3. UNCHANGED <<linked, paper, serial>>
  BY DEF KeySave
<1>4. ASSUME serial'
      PROVE  /\ \A q \in Proc \ {w} : ~Busy(q)
             /\ ReadNow(w)'
             /\ ToCome'
  <2>1. \A q \in Proc \ {w} : ~Busy(q)
    BY <1>1, <1>3, <1>4, AloneNow DEF Busy, Active
  <2>3. proc[w].link = linked
    BY <1>1, <1>3, <1>4 DEF SerialInv, ReadNow, At
  <2>4. ReadNow(w)'
    BY <1>2, <1>3, <2>3 DEF ReadNow, At
  <2>5. Tells(w)'
    BY <1>1, <1>2 DEF Tells, Does, Busy, Active, Job
  <2>. QED
    BY <1>1, <2>1, <2>4, <2>5 DEF ToCome
<1>. QED
  BY <1>1, <1>2, <1>4, SerialStep

LEMMA NotifySerial ==
  ASSUME Typed, SerialInv, NEW w \in Worker, Notify(w)
  PROVE  SerialInv'
<1>1. /\ w \in Proc /\ proc[w].pc = "notify" /\ proc[w].job.kind = "finalize"
      /\ proc[w].job.doc \in Doc
  BY DEF Typed, GoodTask, Task, Job, Notify, At, Proc
<1>2. proc' = [proc EXCEPT ![w] = proc'[w]] /\ proc'[w] = Ended(w)
  BY <1>1 DEF Notify, Typed
<1>3. proc'[w].pc \in {"return", "over"}
  BY <1>1, <1>2, EndedType DEF Typed
<1>4. UNCHANGED <<linked, paper, key, known, todo, serial, missed>>
  BY DEF Notify, db
<1>5. ASSUME serial'
      PROVE  /\ serial /\ \A q \in Proc \ {w} : ~Busy(q)
             /\ ReadNow(w)'
             /\ linked /\ known /\ ToCome => ToCome'
  <2>1. serial /\ \A q \in Proc \ {w} : ~Busy(q)
    BY <1>1, <1>4, <1>5, AloneNow DEF Busy, Active
  <2>3. ReadNow(w)'
    BY <1>3 DEF ReadNow, At
  <2>4. proc[w].link = linked
    BY <1>1, <1>4, <1>5 DEF SerialInv, ReadNow, At
  <2>5. ASSUME linked, ToCome
        PROVE  ToCome'
    <3>1. PICK d \in Doc : d = Other(proc[w].job.doc) /\ queue' = [queue EXCEPT ![d] = @ + 1]
      BY <1>1, <2>4, <2>5 DEF Notify, Notified, Other, Doc
    <3>2. queue \in [Doc -> Nat] /\ "paper" \in Doc
      BY DEF Typed, Doc
    <3>3. CASE proc[w].job.doc = "key"
      <4>1. queue'["paper"] > 0
        BY <3>1, <3>2, <3>3 DEF Other
      <4>. QED
        BY <4>1 DEF ToCome
    <3>4. CASE proc[w].job.doc # "key"
      <4>1. todo["key"] > 0 \/ queue["paper"] > 0
        BY <1>1, <2>1, <2>5, <3>4, WhoComes DEF Tells, Does
      <4>2. queue["paper"] > 0 => queue'["paper"] > 0
        BY <3>1, <3>2
      <4>. QED
        BY <1>4, <4>1, <4>2 DEF ToCome
    <3>. QED
      BY <3>3, <3>4
  <2>. QED
    BY <2>1, <2>3, <2>5
<1>. QED
  BY <1>1, <1>2, <1>3, <1>4, <1>5, QuietStep

LEMMA RequestSerial ==
  ASSUME Typed, SerialInv, NEW r \in Request,
         ReconcileRequest(r) \/ LinkRequest(r) \/ UnlinkRequest(r)
  PROVE  SerialInv'
<1>1. /\ r \in Proc /\ proc[r] \in Task /\ proc[r].pc = "new"
      /\ proc[r].job = [kind |-> "reconcile", doc |-> "paper"]
  BY DEF Typed, GoodTask, ReconcileRequest, LinkRequest, UnlinkRequest, Proc, SerialInv, Waiting
<1>2. /\ proc' = [proc EXCEPT ![r] = proc'[r]]
      /\ \/ proc'[r] = Ended(r)
         \/ proc'[r] = [proc[r] EXCEPT !.pc = "read"]
         \/ proc'[r] = [proc[r] EXCEPT !.pc = "read", !.job.doc = LinkTarget]
  BY <1>1 DEF ReconcileRequest, LinkRequest, UnlinkRequest, Typed
<1>3. proc'[r].pc \in {"read", "return", "over"}
  BY <1>1, <1>2, EndedType DEF Typed, Task
<1>4. UNCHANGED <<paper, key, known, todo, queue>>
  BY DEF ReconcileRequest, LinkRequest, UnlinkRequest, db
<1>5. ASSUME serial'
      PROVE  /\ serial /\ \A q \in Proc : ~Busy(q)
             /\ ReadNow(r)'
             /\ linked' /\ known' => missed' \/ ToCome' \/ RowsCurrent'
  <2>1. serial /\ \A q \in Proc : ~Busy(q)
    BY <1>5 DEF ReconcileRequest, LinkRequest, UnlinkRequest, Overlapping, Busy
  <2>3. ReadNow(r)'
    BY <1>3 DEF ReadNow, At
  <2>4. ToCome => ToCome'
    <3>1. ToCome => todo["key"] > 0 \/ queue["paper"] > 0
      BY <1>1, <2>1, WhoComes DEF Tells, Does
    <3>. QED
      BY <1>4, <3>1 DEF ToCome
  <2>5. RowsCurrent => RowsCurrent'
    BY <1>4 DEF RowsCurrent
  <2>10. missed => missed'
    BY DEF ReconcileRequest, LinkRequest, UnlinkRequest
  <2>6. linked /\ known => missed' \/ ToCome' \/ RowsCurrent'
    BY <2>1, <2>4, <2>5, <2>10 DEF SerialInv
  <2>7. CASE ReconcileRequest(r)
    BY <2>1, <2>3, <2>6, <2>7 DEF ReconcileRequest, db
  <2>8. CASE UnlinkRequest(r)
    BY <2>1, <2>3, <2>8 DEF UnlinkRequest
  <2>9. CASE LinkRequest(r)
    <3>1. CASE linked
      BY <1>4, <2>1, <2>3, <2>6, <2>9, <3>1 DEF LinkRequest
    <3>3. CASE ~linked /\ LinkTarget = "paper" /\ lock # {}
      BY <2>1, <2>3, <2>9, <3>3 DEF LinkRequest
    <3>2. CASE ~linked /\ ~(LinkTarget = "paper" /\ lock # {})
      <4>1. proc'[r] = [proc[r] EXCEPT !.pc = "read", !.job.doc = LinkTarget]
        BY <1>1, <2>9, <3>2 DEF LinkRequest, Typed
      <4>2. proc'[r].pc = "read" /\ proc'[r].job = [kind |-> "reconcile", doc |-> LinkTarget]
        BY <1>1, <4>1 DEF Task
      <4>3. LinkTarget = "paper" => Does(r, "reconcile", "paper")' /\ Reads(r)'
        BY <4>2 DEF Does, Busy, Active, Reads
      <4>4. known => LinkTarget = "paper"
        BY DEF LinkTarget
      <4>5. known => ToCome'
        BY <1>1, <4>3, <4>4 DEF ToCome
      <4>. QED
        BY <1>4, <2>1, <2>3, <4>1, <4>3, <4>5
    <3>. QED
      BY <3>1, <3>2, <3>3
  <2>. QED
    BY <2>7, <2>8, <2>9
<1>. QED
  BY <1>1, <1>2, <1>3, <1>5, SerialStep

LEMMA NextSerial == Typed /\ NoInline /\ SerialInv /\ [Next]_vars => SerialInv'
<1> SUFFICES ASSUME Typed, NoInline, SerialInv, [Next]_vars
             PROVE  SerialInv'
  OBVIOUS
<1>1. CASE UNCHANGED vars \/ LockExpires
  <2>1. UNCHANGED <<linked, paper, key, known, todo, queue, proc, serial, missed>>
    BY <1>1 DEF vars, db, LockExpires
  <2>2. ASSUME serial
        PROVE  Alone' /\ \A p \in Proc : ReadNow(p)'
    BY <2>1, <2>2 DEF SerialInv, Alone, Busy, ReadNow, At
  <2>3. (ToCome => ToCome') /\ (RowsCurrent => RowsCurrent')
    BY <2>1 DEF ToCome, Tells, Does, Busy, Reads, RowsCurrent
  <2>. QED
    BY <2>1, <2>2, <2>3 DEF SerialInv, Waiting
<1>2. ASSUME NEW p \in Proc, Reconciling(p)
      PROVE  SerialInv'
  BY <1>2, ReadKeysSerial, ReadQuestionsSerial, ReconcileSaveSerial, ReleaseSerial DEF Reconciling
<1>3. ASSUME NEW w \in Worker, WorkerStep(w) \/ WorkerLost(w) \/ JobRaises(w)
      PROVE  SerialInv'
  BY <1>2, <1>3, DeliverSerial, FinalReadSerial, PaperSaveSerial, KeySaveSerial, NotifySerial,
     RestSerial, GivenUpSerial DEF WorkerStep, Proc
<1>4. ASSUME NEW r \in Request, RequestStep(r) \/ RequestLost(r) \/ JobRaises(r)
      PROVE  SerialInv'
  BY <1>2, <1>4, RequestSerial, GivenUpSerial DEF RequestStep, Proc
<1>. QED
  BY <1>1, <1>3, <1>4 DEF Next

LEMMA AlwaysSerial == Spec => [](Typed /\ NoInline /\ SerialInv)
<1>1. Init => Typed /\ NoInline /\ SerialInv
  BY InitTyped, InitNoInline, InitSerial
<1>2. Typed /\ NoInline /\ SerialInv /\ [Next]_vars => (Typed /\ NoInline /\ SerialInv)'
  BY NextTyped, NextNoInline, NextSerial
<1>. QED
  BY <1>1, <1>2, PTL DEF Spec

LEMMA NothingToCome ==
  ASSUME Typed, SerialInv, serial, ~missed, Quiet, linked, known
  PROVE  RowsCurrent
<1>1. todo["key"] = 0 /\ queue["paper"] = 0
  BY DEF Quiet, Doc
<1>2. \A p \in Proc : ~Busy(p)
  BY DEF Quiet, Busy, Active
<1>3. ~ToCome
  BY <1>1, <1>2 DEF ToCome, Tells, Does
<1>. QED
  BY <1>3 DEF SerialInv

\* A question without a printed answer has the answer its key gives now, whenever
\* everything has come to rest, no two jobs have overlapped and none that owed the
\* paper its answers was given up since its last commit: whatever was finalized
\* first or again, linked, unlinked or redelivered.
UnprintedFollowKey ==
  serial /\ ~missed /\ Quiet /\ linked /\ known =>
    \A i \in DOMAIN paper.rows : Paper[i].inline = {} => paper.rows[i] = Current[i]

THEOREM UnprintedAnswersFollowKey == Spec => []UnprintedFollowKey
<1>1. Typed /\ NoInline /\ SerialInv => UnprintedFollowKey
  <2> SUFFICES ASSUME Typed, SerialInv, serial, ~missed, Quiet, linked, known,
                      NEW i \in DOMAIN paper.rows, Paper[i].inline = {}
               PROVE  paper.rows[i] = Current[i]
    BY DEF UnprintedFollowKey
  <2>1. RowsCurrent
    BY NothingToCome
  <2>2. i \in Unprinted
    BY DEF Unprinted, Typed, Rows
  <2>. QED
    BY <2>1, <2>2 DEF RowsCurrent, Current
<1>. QED
  BY <1>1, AlwaysSerial, PTL

\* SerialAnswersFollowKey of Reconcile, for a paper without printed answers.  With
\* them it is false: an unlinked paper forgets what was printed (PrintedAnswerCounts).
THEOREM SerialAnswers ==
  ASSUME \A i \in DOMAIN Paper : Paper[i].inline = {}
  PROVE  Spec => []SerialAnswersFollowKey
<1>1. Typed /\ UnprintedFollowKey => SerialAnswersFollowKey
  <2> SUFFICES ASSUME Typed, UnprintedFollowKey, serial, ~missed, Quiet, linked, known,
                      NEW i \in DOMAIN paper.rows
               PROVE  paper.rows[i] = Current[i]
    BY DEF SerialAnswersFollowKey, AnswersFollowKey, AnswersCurrent
  <2>1. i \in DOMAIN Paper
    BY DEF Typed, Rows
  <2>. QED
    BY <2>1 DEF UnprintedFollowKey
<1>. QED
  BY <1>1, AlwaysTyped, UnprintedAnswersFollowKey, PTL
=============================================================================
