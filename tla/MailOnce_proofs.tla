--------------------------- MODULE MailOnce_proofs ---------------------------
(***************************************************************************)
(* What it takes to register a letter twice: as long as no two mail        *)
(* workers have it in their hands at once (Apart), every document beyond   *)
(* the first was paid for by a fault or by a decision of the operator      *)
(* (DuplicatesAreCounted), so that without an operator and without a fault *)
(* that can hide a registration there is only one.                         *)
(*                                                                         *)
(* The argument is a potential: for every letter the documents it has and  *)
(* the registrations that are still owed to it - a message that resumes    *)
(* it, the mail worker's run of it or the next one, the erp worker's retry *)
(* or the next one. A step that registers the letter uses up what was      *)
(* owed; a step that makes something new owed is a fault or a decision,    *)
(* and the price it pays covers it.                                        *)
(***************************************************************************)
EXTENDS MailPipeline_proofs

\* One process on queue erp (celery-erp-worker in docker-compose.yml), any number
\* on queue celery, and no fault that costs a document is free.
Counted ==
  /\ \A v, w \in ErpWorkers : v = w
  /\ MailWorkers \cap ErpWorkers = {}
  /\ Chronic \subseteq Harmless

IsFinal(a) == rows[a].st \in Terminal

-----------------------------------------------------------------------------
(* What is owed to a letter *)

\* Worker w is at letter a: before its registration, told of a document, with a
\* message that resumes it, or with a failed registration to report.
Runs(w, a)      == job[w].att = a /\ job[w].pc \in {"start", "graph", "create", "final"}
Told(w, a)      == /\ job[w].att = a /\ job[w].pc \in {"final", "rsave"}
                   /\ job[w].out.erp \in {"ok", "attach"}
Loads(w, a)     == job[w].att = a /\ job[w].pc = "load"
Fails(w, a)     == job[w].att = a /\ job[w].pc \in {"hsync", "post"} /\ ErpFailed(w)
Registers(w, a) == job[w].att = a /\ job[w].pc \in {"graph", "create", "rcreate"}
Retries(w, a)   == job[w].att = a /\ job[w].pc # "idle" /\ job[w].task.kind = "retry"

MailRuns(a)   == \E w \in MailWorkers : Runs(w, a)
MailTold(a)   == \E w \in MailWorkers : Runs(w, a) /\ Told(w, a)
MailLoads(a)  == \E w \in MailWorkers : Loads(w, a)
MailFails(a)  == \E w \in MailWorkers : Fails(w, a)
ErpRuns(a)    == \E w \in ErpWorkers : Registers(w, a)
ErpTold(a)    == \E w \in ErpWorkers : Told(w, a)
ErpRetries(a) == \E w \in ErpWorkers : Retries(w, a)
RetryQueued(a) == \E f \in BOOLEAN : queue[RetryTask(a, f)] > 0

\* Nobody but mail worker w has letter a in its hands; no letter is in the hands
\* of two.  Nothing in the code sees to that: the test of _is_terminal_in_db and
\* the run that follows it are separate transactions.
Alone(w, a) == \A v \in MailWorkers \ {w} : ~Runs(v, a) /\ ~Loads(v, a)
Apart == \A w \in MailWorkers :
           Runs(w, job[w].att) \/ Loads(w, job[w].att) => Alone(w, job[w].att)

\* A retry of the registration of a is under way.
Retrying(a) == RetryQueued(a) \/ ErpRetries(a) \/ MailFails(a)

\* A retry would create a document.
Owed(a) == ~rows[a].doc /\ (rows[a].known = "full" \/ (Decisions # {} /\ Retrying(a)))

\* The messages that resume a.
Waiting(a, n) == queue[ContinueTask(a, n)] + queue[ReprocessTask(a, "plain", n)]
                 + queue[ReprocessTask(a, "restored", n)] + queue[ReprocessTask(a, "reanalyze", n)]
Msgs(a) == Waiting(a, 0) + Waiting(a, 1) + Waiting(a, 2)

Load(a) == IF MailLoads(a) THEN 1 ELSE 0
Mail(a) == IF MailRuns(a) THEN IF MailTold(a) THEN 0 ELSE 1
                          ELSE IF IsFinal(a) THEN 0 ELSE 1
Erp(a)  == IF ErpRuns(a) \/ (Owed(a) /\ ~ErpTold(a)) THEN 1 ELSE 0

Cost(a) == docs[a] + Msgs(a) + Load(a) + Mail(a) + Erp(a)

Bounded == \A a \in Attempts \cap Info : Cost(a) <= 1 + Price

-----------------------------------------------------------------------------
(* The shape of the workers' jobs, of the rows and of the queue *)

MailShape(w) ==
  LET j == job[w] IN
  /\ j.pc \in {"idle", "check", "start", "graph", "create", "final", "hsync", "post", "load"}
  /\ j.pc # "idle" => j.task.kind \in {"process", "continue", "reprocess"}
  /\ j.pc # "idle" /\ j.task.kind # "process" => Decisions # {} /\ j.task.att = j.att
  /\ j.pc = "hsync" => j.task.kind = "continue"
  /\ j.pc \in {"create", "final", "hsync"} => FinalStatus(j.out) \in Terminal
  /\ j.pc = "create" \/ (j.pc = "final" /\ j.out.erp # "none") => j.out.routed
  /\ j.pc \in {"final", "hsync"} /\ j.task.kind = "continue" => j.out.erp # "none"

ErpShape(w) ==
  LET j == job[w] IN
  /\ j.pc \in {"idle", "load", "graph", "create", "final", "post", "rcreate", "rsave", "patch"}
  /\ j.pc # "idle" => j.task.kind \in {"retry", "sync"} /\ j.task.att = j.att
  /\ j.pc \notin {"idle", "load", "patch"} => j.task.kind = "retry"
  /\ j.pc \in {"graph", "create", "final", "post"} => Decisions # {}
  /\ j.pc \in {"create", "final"} => FinalStatus(j.out) \in Terminal /\ j.out.routed
  /\ j.pc \in {"rcreate", "rsave"} => rows[j.att].known = "full"

Shape(w) == IF w \in ErpWorkers THEN ErpShape(w) ELSE MailShape(w)

\* A row with a document is complete; only the operator sets the department alone.
RowShape(r) == (r.doc => r.known = "full") /\ (r.known = "dept" => Decisions # {})

JobsShaped  == \A w \in Workers : Shape(w)
RowsShaped  == \A a \in Attempts : RowShape(rows[a])
QueueShaped == \A t \in Task : queue[t] > 0 /\ t.kind \in {"continue", "reprocess"} => Decisions # {}

CountInv == IInv /\ JobsShaped /\ RowsShaped /\ QueueShaped /\ Bounded

-----------------------------------------------------------------------------
(* The shapes are kept *)

Others(w) == \A v \in Workers \ {w} : job'[v] = job[v]

\* No row loses its routing result, and each keeps its shape.
Grown == \A a \in Attempts : /\ rows[a].known = "full" => rows'[a].known = "full"
                             /\ RowShape(rows'[a])

\* A worker at a letter, and its letter's row.
LEMMA Busy ==
  ASSUME CountInv, NEW w \in Workers, ~At(w, "idle")
  PROVE  /\ Typed /\ job[w].att \in Attempts /\ RowOf(w) \in Row /\ RowOf(w) = rows[job[w].att]
         /\ job[w].out \in Outcome /\ job[w].task \in Task /\ job[w] \in Job
         /\ RowShape(RowOf(w)) /\ Shape(w)
BY BusyWorker DEF CountInv, IInv, JobsShaped, RowsShaped, RowOf

\* Writes to a row that are not an outcome of the graph.
LEMMA KnownWrites ==
  ASSUME NEW r \in Row
  PROVE  /\ StartedRow(r).known = r.known /\ RestoredRow(r).known = r.known
         /\ Exhausted(r).known = r.known
         /\ \A rev \in BOOLEAN : FailedRow(r, rev).known = r.known
         /\ \A st \in Statuses : /\ r.known # "none" => RoutedByOperator(r, st).known = r.known
                                 /\ r.known = "none" => RoutedByOperator(r, st).known = "dept"
BY DEF Row, StartedRow, RestoredRow, Exhausted, FailedRow, RoutedByOperator

\* Outcomes: the status is final, the result of the routing is kept.
LEMMA KnownOutcomes ==
  ASSUME NEW r \in Row, NEW o \in Outcome
  PROVE  /\ FinalRow(r, o).known = (IF o.routed THEN "full" ELSE r.known)
         /\ FinalRow(r, o).st = FinalStatus(o)
         /\ FinalRow(r, o).doc = (o.erp \in {"ok", "attach"} \/ (r.doc /\ o.erp # "skip"))
         /\ SyncedRow(r, o).known = "full" /\ SyncedRow(r, o).st = FinalStatus(o)
         /\ SyncedRow(r, o).doc = (o.erp = "ok" \/ (r.doc /\ o.erp # "skip"))
BY DEF Row, Outcome, FinalRow, SyncedRow

\* A step that leaves the rows alone keeps every analysis that was stored.
LEMMA SameGrown ==
  ASSUME CountInv, UNCHANGED rows
  PROVE  Grown
BY DEF CountInv, RowsShaped, Grown

\* A row written by its worker keeps the analysis it had.
LEMMA WriteGrown ==
  ASSUME CountInv, NEW w \in Workers, ~At(w, "idle"), NEW r, SetRow(w, r),
         RowOf(w).known = "full" => r.known = "full", RowShape(r)
  PROVE  Grown
<1>1. job[w].att \in Attempts /\ rows \in [Attempts -> Row] /\ RowOf(w) = rows[job[w].att]
  BY Busy, TypedParts
<1>2. \A a \in Attempts : rows'[a] = IF a = job[w].att THEN r ELSE rows[a]
  BY <1>1 DEF SetRow
<1>3. QED
  BY <1>1, <1>2 DEF CountInv, RowsShaped, Grown

-----------------------------------------------------------------------------
(* Where a worker goes *)

\* A job starts idle, and a recipient of a letter with the terminal check.
LEMMA FreshJobs ==
  /\ Idle.pc = "idle"
  /\ \A m, i : Recipient(m, i).pc = "check" /\ Recipient(m, i).task.kind = "process"
BY DEF Idle, Recipient, ProcessTask

\* A worker that goes on keeps its message, its letter and its results.
LEMMA GotoFields ==
  ASSUME Typed, NEW w \in Workers, NEW p, Goto(w, p)
  PROVE  /\ job'[w].pc = p /\ job'[w].task = job[w].task
         /\ job'[w].att = job[w].att /\ job'[w].out = job[w].out
         /\ Others(w)
BY TypedParts DEF Goto, JobsTyped, Job, Others

\* A worker that returns is idle.
LEMMA ReturnFields ==
  ASSUME Typed, NEW w \in Workers, Return(w)
  PROVE  job'[w].pc = "idle" /\ Shape(w)' /\ Others(w)
<1>1. job'[w] = Idle /\ Others(w)
  BY TypedParts DEF Return, JobsTyped, Others
<1>2. QED
  BY <1>1, FreshJobs DEF Shape, MailShape, ErpShape

\* After a recipient comes the next one of the letter, or nothing.
LEMMA NextRecipientFields ==
  ASSUME Typed, NEW w \in Workers, w \in ErpWorkers => ~IsProcess(w), NextRecipient(w)
  PROVE  job'[w].pc \in {"idle", "check"} /\ Shape(w)' /\ Others(w)
<1>1. CASE IsProcess(w) /\ job[w].i < Len(To[job[w].task.mail])
  <2> DEFINE j == Recipient(job[w].task.mail, job[w].i + 1)
  <2>1. j.pc = "check" /\ j.task.kind = "process"
    BY FreshJobs
  <2>2. job' = [job EXCEPT ![w] = j]
    BY <1>1 DEF NextRecipient
  <2> HIDE DEF j
  <2>3. job'[w] = j /\ Others(w)
    BY <2>2, TypedParts DEF JobsTyped, Others
  <2>4. QED
    BY <1>1, <2>1, <2>3 DEF Shape, MailShape
<1>2. CASE ~(IsProcess(w) /\ job[w].i < Len(To[job[w].task.mail]))
  BY <1>2, ReturnFields DEF NextRecipient
<1>3. QED
  BY <1>1, <1>2

\* The step of worker w keeps the shapes of its job and of the rows.
ShapeKept(w) == Others(w) /\ Shape(w)' /\ Grown

\* _is_terminal_in_db writes no row.
LEMMA CheckShape ==
  ASSUME Counted, CountInv, NEW w \in Workers, Check(w)
  PROVE  ShapeKept(w)
<1>1. /\ ~At(w, "idle") /\ Typed /\ job[w].pc = "check" /\ w \notin ErpWorkers
      /\ MailShape(w) /\ UNCHANGED rows
  BY Busy DEF Check, At, Shape, ErpShape
<1>2. CASE NextRecipient(w)
  BY <1>1, <1>2, NextRecipientFields, SameGrown DEF ShapeKept
<1>3. CASE Goto(w, "start")
  BY <1>1, <1>3, GotoFields, SameGrown DEF ShapeKept, Shape, MailShape
<1>4. QED
  BY <1>2, <1>3 DEF Check

\* The row is set to processing and its lease taken; the analysis stays.
LEMMA StartShape ==
  ASSUME Counted, CountInv, NEW w \in Workers, Start(w)
  PROVE  ShapeKept(w)
<1> DEFINE r == StartedRow(RowOf(w))
<1>1. /\ ~At(w, "idle") /\ Typed /\ job[w].pc = "start" /\ w \notin ErpWorkers
      /\ MailShape(w) /\ RowOf(w) \in Row /\ RowShape(RowOf(w))
  BY Busy DEF Start, At, Shape, ErpShape
<1>2. r.known = RowOf(w).known /\ r.doc = RowOf(w).doc
  BY <1>1, RowWrites, KnownWrites
<1>3. SetRow(w, r) \/ UNCHANGED rows
  BY DEF Start
<1> HIDE DEF r
<1>4. Grown
  BY <1>1, <1>2, <1>3, SameGrown, WriteGrown DEF RowShape
<1>5. /\ job'[w].pc = "graph" /\ job'[w].task = job[w].task /\ job'[w].att = job[w].att
      /\ Others(w)
  BY <1>1, GotoFields, TypedParts DEF Start, JobsTyped, Job, Others
<1>6. QED
  BY <1>1, <1>4, <1>5 DEF ShapeKept, Shape, MailShape

\* The graph routes the letter before node 7 registers it.
LEMMA GraphShape ==
  ASSUME Counted, CountInv, NEW w \in Workers, Graph(w)
  PROVE  ShapeKept(w) /\ job'[w].att = job[w].att /\ job'[w].out.erp = "none"
         /\ job'[w].pc \in {"create", "final"} /\ (w \in ErpWorkers => job'[w].pc = "create")
<1>1. /\ ~At(w, "idle") /\ Typed /\ job[w].pc = "graph" /\ Shape(w) /\ UNCHANGED rows
  BY Busy DEF Graph, At
<1>2. PICK p, o : /\ job' = [job EXCEPT ![w].pc = p, ![w].out = o]
                  /\ p \in {"create", "final"} /\ o.erp = "none"
                  /\ FinalStatus(o) \in Terminal
                  /\ p = "create" => o.routed
                  /\ IsHuman(w) => p = "create"
  <2>1. CASE IsHuman(w)
    <3> DEFINE o == Approved
    <3>1. job' = [job EXCEPT ![w].pc = "create", ![w].out = o]
      BY <2>1 DEF Graph
    <3>2. o.erp = "none" /\ o.routed /\ FinalStatus(o) = "done"
      BY DEF Approved, NoOutcome, FinalStatus
    <3> HIDE DEF o
    <3>3. QED
      BY <3>1, <3>2 DEF Terminal
  <2>2. CASE ~IsHuman(w)
    <3>1. PICK v : job' = [job EXCEPT ![w].pc = IF v = "register" THEN "create" ELSE "final",
                                      ![w].out = VerdictOutcome(v)]
      BY <2>2 DEF Graph
    <3>2. FinalStatus(VerdictOutcome(v)) \in Terminal /\ VerdictOutcome(v).erp = "none"
      BY VerdictOutcomes DEF FinalStatus, VerdictOutcome, Terminal
    <3>3. v = "register" => VerdictOutcome(v).routed
      BY DEF VerdictOutcome
    <3>4. QED
      BY <2>2, <3>1, <3>2, <3>3
  <2>3. QED
    BY <2>1, <2>2
<1>3. /\ job'[w].pc = p /\ job'[w].task = job[w].task /\ job'[w].att = job[w].att
      /\ job'[w].out = o /\ Others(w)
  BY <1>1, <1>2, TypedParts DEF JobsTyped, Job, Others
<1>4. CASE w \in ErpWorkers
  <2>1. ErpShape(w) /\ job[w].task.kind = "retry"
    BY <1>1, <1>4 DEF Shape, ErpShape
  <2>2. p = "create"
    BY <1>2, <2>1 DEF IsHuman
  <2>3. Shape(w)'
    BY <1>1, <1>2, <1>3, <1>4, <2>1, <2>2 DEF Shape, ErpShape
  <2>4. QED
    BY <1>1, <1>2, <1>3, <2>2, <2>3, SameGrown DEF ShapeKept
<1>5. CASE w \notin ErpWorkers
  <2>1. MailShape(w)
    BY <1>1, <1>5 DEF Shape
  <2>2. job[w].task.kind = "continue" => p = "create"
    BY <1>2 DEF IsHuman
  <2>3. Shape(w)'
    BY <1>1, <1>2, <1>3, <1>5, <2>1, <2>2 DEF Shape, MailShape
  <2>4. QED
    BY <1>1, <1>2, <1>3, <1>5, <2>3, SameGrown DEF ShapeKept
<1>6. QED
  BY <1>4, <1>5


\* An exception of the graph ends the run or asks for another one.
LEMMA GraphRaiseShape ==
  ASSUME Counted, CountInv, NEW w \in Workers, GraphRaise(w)
  PROVE  /\ ShapeKept(w) /\ job'[w].pc = "idle"
         /\ \/ UNCHANGED rows
            \/ \E rev \in BOOLEAN : SetRow(w, FailedRow(RowOf(w), rev))
<1>1. /\ ~At(w, "idle") /\ Typed /\ RowOf(w) \in Row /\ RowShape(RowOf(w))
      /\ job[w].task \in Task
  BY Busy DEF GraphRaise, At
<1>2. UNCHANGED rows \/ \E rev \in BOOLEAN : SetRow(w, FailedRow(RowOf(w), rev))
  <2>1. (job[w].task.kind = "reprocess") \in BOOLEAN
    OBVIOUS
  <2>2. QED
    BY <2>1 DEF GraphRaise
<1>3. Grown
  <2>1. ASSUME NEW rev \in BOOLEAN, SetRow(w, FailedRow(RowOf(w), rev))
        PROVE  Grown
    <3>1. /\ FailedRow(RowOf(w), rev).known = RowOf(w).known
          /\ FailedRow(RowOf(w), rev).doc = RowOf(w).doc
      BY <1>1, RowWrites, KnownWrites
    <3>2. QED
      BY <1>1, <2>1, <3>1, WriteGrown DEF RowShape
  <2>2. QED
    BY <1>2, <2>1, SameGrown
<1>4. QED
  BY <1>1, <1>2, <1>3, ReturnFields DEF GraphRaise, ShapeKept

\* The call to 1C: what the worker was told, and what 1C then holds.
LEMMA CreateShape ==
  ASSUME Counted, CountInv, NEW w \in Workers, Create(w)
  PROVE  /\ ShapeKept(w) /\ UNCHANGED <<rows, queue, decisions>>
         /\ job'[w].pc = (IF At(w, "create") THEN "final" ELSE "rsave")
         /\ job'[w].att = job[w].att /\ job'[w].task = job[w].task
         /\ \E e \in ErpResults, n \in {0, 1} :
              /\ CallErp(w, e, n) /\ job'[w].out.erp = e
              /\ docs' = [docs EXCEPT ![job[w].att] = @ + n]
<1>1. /\ ~At(w, "idle") /\ Typed /\ job[w].pc \in {"create", "rcreate"} /\ Shape(w)
      /\ UNCHANGED rows /\ job[w].out \in Outcome
  BY Busy DEF Create, At
<1>2. PICK e \in ErpResults, n \in {0, 1} :
       /\ CallErp(w, e, n)
       /\ docs' = [docs EXCEPT ![job[w].att] = @ + n]
       /\ LET failed == e \in {"fail", "attach"} /\ ~IsHuman(w)
              o == [job[w].out EXCEPT !.erp = e, !.st = IF failed THEN "error" ELSE @,
                                     !.rev = failed]
          IN  job' = [job EXCEPT ![w].pc = IF At(w, "create") THEN "final" ELSE "rsave",
                                 ![w].out = o]
  BY DEF Create
<1> DEFINE failed == e \in {"fail", "attach"} /\ ~IsHuman(w)
           o == [job[w].out EXCEPT !.erp = e, !.st = IF failed THEN "error" ELSE @,
                                   !.rev = failed]
           p == IF At(w, "create") THEN "final" ELSE "rsave"
<1>3. job' = [job EXCEPT ![w].pc = p, ![w].out = o]
  BY <1>2
<1>4. o.erp = e /\ e # "none" /\ o.routed = job[w].out.routed
  BY <1>1, <1>2 DEF Outcome, CallErp
<1>5. FinalStatus(job[w].out) \in Terminal => FinalStatus(o) \in Terminal
  <2>1. o.st = IF failed THEN "error" ELSE job[w].out.st
    BY <1>1 DEF Outcome
  <2> HIDE DEF o
  <2>2. QED
    BY <2>1 DEF FinalStatus, Terminal
<1>6. p = "final" <=> job[w].pc = "create"
  BY DEF At
<1>7. p \in {"final", "rsave"}
  OBVIOUS
<1> HIDE DEF o, p
<1>8. /\ job'[w].pc = p /\ job'[w].task = job[w].task /\ job'[w].att = job[w].att
      /\ job'[w].out = o /\ Others(w)
  BY <1>1, <1>3, TypedParts DEF JobsTyped, Job, Others
<1>9. Shape(w)'
  <2>1. CASE w \in ErpWorkers
    BY <1>1, <1>4, <1>5, <1>6, <1>7, <1>8, <2>1 DEF Shape, ErpShape
  <2>2. CASE w \notin ErpWorkers
    BY <1>1, <1>4, <1>5, <1>6, <1>7, <1>8, <2>2 DEF Shape, MailShape
  <2>3. QED
    BY <2>1, <2>2
<1>10. QED
  <2>1. ShapeKept(w)
    BY <1>1, <1>8, <1>9, SameGrown DEF ShapeKept
  <2>2. UNCHANGED <<rows, queue, decisions>>
    BY DEF Create
  <2>3. job'[w].pc = (IF At(w, "create") THEN "final" ELSE "rsave")
    BY <1>8 DEF p
  <2>4. job'[w].out.erp = e
    BY <1>4, <1>8
  <2>5. QED
    BY <1>2, <1>8, <2>1, <2>2, <2>3, <2>4

\* The final save writes a terminal status, and tells of a document only for a routed letter.
LEMMA FinalizeShape ==
  ASSUME Counted, CountInv, NEW w \in Workers, Finalize(w)
  PROVE  /\ ShapeKept(w) /\ job'[w].pc \in {"hsync", "post"}
         /\ job'[w].att = job[w].att /\ job'[w].out = job[w].out
         /\ job[w].out.erp \in {"ok", "attach"} => job[w].out.routed
         /\ FinalStatus(job[w].out) \in Terminal
<1> DEFINE r == FinalRow(RowOf(w), job[w].out)
           p == IF job[w].task.kind = "continue" THEN "hsync" ELSE "post"
<1>1. /\ ~At(w, "idle") /\ Typed /\ job[w].pc = "final" /\ Shape(w)
      /\ RowOf(w) \in Row /\ RowShape(RowOf(w)) /\ job[w].out \in Outcome
  BY Busy DEF Finalize, At
<1>2. /\ r.known = (IF job[w].out.routed THEN "full" ELSE RowOf(w).known)
      /\ r.doc = (job[w].out.erp \in {"ok", "attach"} \/ (RowOf(w).doc /\ job[w].out.erp # "skip"))
  BY <1>1, KnownOutcomes
<1>3. /\ job[w].out.erp \in {"ok", "attach"} => job[w].out.routed
      /\ FinalStatus(job[w].out) \in Terminal
  BY <1>1 DEF Shape, ErpShape, MailShape
<1>4. SetRow(w, r) \/ UNCHANGED rows
  BY DEF Finalize
<1>5. p \in {"hsync", "post"} /\ (p = "hsync" <=> job[w].task.kind = "continue") /\ Goto(w, p)
  BY DEF Finalize
<1> HIDE DEF r, p
<1>6. Grown
  BY <1>1, <1>2, <1>3, <1>4, SameGrown, WriteGrown DEF RowShape
<1>7. /\ job'[w].pc = p /\ job'[w].task = job[w].task /\ job'[w].att = job[w].att
      /\ job'[w].out = job[w].out /\ Others(w)
  BY <1>1, <1>5, GotoFields
<1>8. Shape(w)'
  <2>1. CASE w \in ErpWorkers
    <3>1. p = "post"
      BY <1>1, <1>5, <2>1 DEF Shape, ErpShape
    <3>2. QED
      BY <1>1, <1>7, <2>1, <3>1 DEF Shape, ErpShape
  <2>2. CASE w \notin ErpWorkers
    BY <1>1, <1>3, <1>5, <1>7, <2>2 DEF Shape, MailShape
  <2>3. QED
    BY <2>1, <2>2
<1>9. QED
  BY <1>3, <1>5, <1>6, <1>7, <1>8 DEF ShapeKept

\* After the final save only messages are sent.
LEMMA PostShape ==
  ASSUME Counted, CountInv, NEW w \in Workers, Post(w)
  PROVE  ShapeKept(w) /\ job'[w].pc \in {"idle", "check"} /\ UNCHANGED rows
<1>1. ~At(w, "idle") /\ Typed /\ Shape(w) /\ UNCHANGED rows /\ job[w].pc = "post"
  BY Busy DEF Post, At
<1>2. w \in ErpWorkers => ~IsProcess(w)
  BY <1>1 DEF Shape, ErpShape, IsProcess
<1>3. Return(w) \/ NextRecipient(w)
  BY DEF Post
<1>4. QED
  BY <1>1, <1>2, <1>3, ReturnFields, NextRecipientFields, SameGrown DEF ShapeKept


\* reprocess_email resumes the letter of its message, in a mail worker.
LEMMA LoadReprocessShape ==
  ASSUME Counted, CountInv, NEW w \in Workers, LoadReprocess(w)
  PROVE  /\ ShapeKept(w) /\ w \notin ErpWorkers
         /\ job'[w].pc = "start" /\ job'[w].att = job[w].att
         /\ UNCHANGED rows \/ SetRow(w, RestoredRow(RowOf(w)))
<1>1. /\ ~At(w, "idle") /\ Typed /\ job[w].pc = "load" /\ Shape(w)
      /\ RowOf(w) \in Row /\ RowShape(RowOf(w)) /\ job[w].task.kind = "reprocess"
  BY Busy DEF LoadReprocess, At
<1>2. w \notin ErpWorkers /\ MailShape(w)
  BY <1>1 DEF Shape, ErpShape
<1>3. /\ job'[w].pc = "start" /\ job'[w].task = job[w].task /\ job'[w].att = job[w].att
      /\ Others(w)
  BY <1>1, GotoFields DEF LoadReprocess
<1>4. Shape(w)'
  BY <1>1, <1>2, <1>3 DEF Shape, MailShape
<1>5. UNCHANGED rows \/ SetRow(w, RestoredRow(RowOf(w)))
  BY DEF LoadReprocess
<1>6. RestoredRow(RowOf(w)).known = RowOf(w).known /\ RestoredRow(RowOf(w)).doc = RowOf(w).doc
  BY <1>1, RowWrites, KnownWrites
<1>7. Grown
  BY <1>1, <1>5, <1>6, SameGrown, WriteGrown DEF RowShape
<1>8. QED
  BY <1>2, <1>3, <1>4, <1>5, <1>7 DEF ShapeKept

\* continue_after_human resumes the letter of its message, in a mail worker.
LEMMA LoadContinueShape ==
  ASSUME Counted, CountInv, NEW w \in Workers, LoadContinue(w)
  PROVE  /\ ShapeKept(w) /\ w \notin ErpWorkers
         /\ \/ SetRow(w, FailedRow(RowOf(w), FALSE)) /\ job'[w].pc = "idle"
            \/ /\ SetRow(w, [RowOf(w) EXCEPT !.st = "processing", !.rev = FALSE])
               /\ job'[w].pc = "graph" /\ job'[w].att = job[w].att
<1> DEFINE r == [RowOf(w) EXCEPT !.st = "processing", !.rev = FALSE]
           f == FailedRow(RowOf(w), FALSE)
<1>1. /\ ~At(w, "idle") /\ Typed /\ job[w].pc = "load" /\ Shape(w)
      /\ RowOf(w) \in Row /\ RowShape(RowOf(w)) /\ job[w].task.kind = "continue"
  BY Busy DEF LoadContinue, At
<1>2. w \notin ErpWorkers /\ MailShape(w)
  BY <1>1 DEF Shape, ErpShape
<1>3. CASE SetRow(w, f) /\ Return(w)
  <2>1. f.known = RowOf(w).known /\ f.doc = RowOf(w).doc
    BY <1>1, RowWrites, KnownWrites
  <2>2. Grown
    BY <1>1, <1>3, <2>1, WriteGrown DEF RowShape
  <2>3. QED
    BY <1>1, <1>2, <1>3, <2>2, ReturnFields DEF ShapeKept
<1>4. CASE /\ SetRow(w, r)
           /\ job' = [job EXCEPT ![w].pc = "graph"]
  <2>1. r.known = RowOf(w).known /\ r.doc = RowOf(w).doc
    BY <1>1 DEF Row
  <2>2. Grown
    BY <1>1, <1>4, <2>1, WriteGrown DEF RowShape
  <2>3. /\ job'[w].pc = "graph" /\ job'[w].task = job[w].task /\ job'[w].att = job[w].att
        /\ Others(w)
    BY <1>1, <1>4, TypedParts DEF JobsTyped, Job, Others
  <2>4. Shape(w)'
    BY <1>1, <1>2, <2>3 DEF Shape, MailShape
  <2>5. QED
    BY <1>2, <1>4, <2>2, <2>3, <2>4 DEF ShapeKept
<1>5. QED
  BY <1>3, <1>4 DEF LoadContinue, Goto

\* The save after an approved letter keeps its status.
LEMMA HumanSyncShape ==
  ASSUME Counted, CountInv, NEW w \in Workers, HumanSync(w)
  PROVE  /\ ShapeKept(w) /\ w \notin ErpWorkers /\ Decisions # {}
         /\ FinalStatus(job[w].out) \in Terminal /\ job[w].out.erp # "none"
         /\ \/ /\ SetRow(w, SyncedRow(RowOf(w), job[w].out)) /\ NoFault
               /\ job'[w].pc = "post" /\ job'[w].att = job[w].att /\ job'[w].out = job[w].out
            \/ UNCHANGED rows /\ job'[w].pc = "idle" /\ Fault("db")
<1> DEFINE r == SyncedRow(RowOf(w), job[w].out)
<1>1. /\ ~At(w, "idle") /\ Typed /\ job[w].pc = "hsync" /\ Shape(w)
      /\ RowOf(w) \in Row /\ RowShape(RowOf(w)) /\ job[w].out \in Outcome
  BY Busy DEF HumanSync, At
<1>2. /\ w \notin ErpWorkers /\ MailShape(w) /\ Decisions # {}
      /\ FinalStatus(job[w].out) \in Terminal /\ job[w].out.erp # "none"
  BY <1>1 DEF Shape, ErpShape, MailShape
<1>3. CASE SetRow(w, r) /\ Goto(w, "post") /\ NoFault
  <2>1. r.known = "full"
    BY <1>1, KnownOutcomes
  <2> HIDE DEF r
  <2>2. Grown
    BY <1>1, <1>3, <2>1, WriteGrown DEF RowShape
  <2>3. /\ job'[w].pc = "post" /\ job'[w].task = job[w].task /\ job'[w].att = job[w].att
        /\ job'[w].out = job[w].out /\ Others(w)
    BY <1>1, <1>3, GotoFields
  <2>4. Shape(w)'
    BY <1>1, <1>2, <2>3 DEF Shape, MailShape
  <2>5. QED
    BY <1>2, <1>3, <2>2, <2>3, <2>4 DEF ShapeKept, r
<1>4. CASE UNCHANGED rows /\ Return(w) /\ Fault("db")
  BY <1>1, <1>2, <1>4, ReturnFields, SameGrown DEF ShapeKept
<1>5. QED
  BY <1>3, <1>4 DEF HumanSync

\* Where retry_erp_task goes; it only registers what the row says is complete
\* and without a document.
LEMMA LoadRetryShape ==
  ASSUME Counted, CountInv, NEW w \in Workers, LoadRetry(w)
  PROVE  /\ ShapeKept(w) /\ w \in ErpWorkers /\ job[w].task.kind = "retry"
         /\ rows' = rows \/ \E r : /\ SetRow(w, r) /\ r.known = RowOf(w).known /\ r.doc = RowOf(w).doc
                                   /\ RowOf(w).st \in Terminal => r.st \in Terminal
         /\ job'[w].pc \in {"idle", "patch", "rcreate", "graph"}
         /\ job'[w].pc # "idle" => job'[w].att = job[w].att
         /\ job'[w].pc = "rcreate" /\ job[w].att \in Info => RowOf(w).known = "full" /\ ~RowOf(w).doc
         /\ job'[w].pc = "graph" => RowOf(w).known = "dept"
<1> DEFINE b == RetryBranch(job[w].att)
           e == Exhausted(RowOf(w))
           counted == [RowOf(w) EXCEPT !.retry = @ + 1]
<1>1. /\ ~At(w, "idle") /\ Typed /\ job[w].pc = "load" /\ Shape(w)
      /\ RowOf(w) \in Row /\ RowShape(RowOf(w)) /\ job[w].task.kind = "retry"
      /\ RowOf(w) = rows[job[w].att]
  BY Busy DEF LoadRetry, At
<1>2. w \in ErpWorkers /\ ErpShape(w)
  BY <1>1 DEF Shape, MailShape
<1>3. CASE b \in {"exhausted", "missing_xml"}
  <2>1. SetRow(w, e) /\ Return(w)
    BY <1>3 DEF LoadRetry
  <2>2. e.known = RowOf(w).known /\ e.doc = RowOf(w).doc /\ e.st \in Terminal
    BY <1>1 DEF Exhausted, Row, Terminal
  <2> HIDE DEF e
  <2>3. Grown
    BY <1>1, <2>1, <2>2, WriteGrown DEF RowShape
  <2>4. job'[w].pc = "idle" /\ Shape(w)' /\ Others(w)
    BY <1>1, <2>1, ReturnFields
  <2>5. QED
    BY <1>1, <1>2, <2>1, <2>2, <2>3, <2>4 DEF ShapeKept
<1>4. CASE b = "create"
  <2>1. SetRow(w, counted) /\ Goto(w, "rcreate")
    BY <1>4 DEF LoadRetry
  <2>2. /\ counted.known = RowOf(w).known /\ counted.doc = RowOf(w).doc
        /\ counted.st = RowOf(w).st
    BY <1>1 DEF Row
  <2>3. RowOf(w).known = "full" /\ ~RowOf(w).doc
    BY <1>1, <1>4 DEF RetryBranch, Row
  <2> HIDE DEF counted
  <2>4. Grown
    BY <1>1, <2>1, <2>2, WriteGrown DEF RowShape
  <2>5. /\ job'[w].pc = "rcreate" /\ job'[w].task = job[w].task /\ job'[w].att = job[w].att
        /\ Others(w)
    BY <1>1, <2>1, GotoFields
  <2>6. rows'[job[w].att].known = "full"
    BY <1>1, <2>3, <2>4, Busy DEF Grown
  <2>7. Shape(w)'
    BY <1>1, <1>2, <2>5, <2>6 DEF Shape, ErpShape
  <2>8. QED
    BY <1>1, <1>2, <2>1, <2>2, <2>3, <2>4, <2>5, <2>7 DEF ShapeKept
<1>5. CASE b = "sync_existing"
  <2>1. /\ UNCHANGED rows
        /\ job' = [job EXCEPT ![w].pc = "patch",
                              ![w].snap = [xml |-> RowOf(w).xml, lease |-> RowOf(w).lease]]
    BY <1>5 DEF LoadRetry
  <2>2. /\ job'[w].pc = "patch" /\ job'[w].task = job[w].task /\ job'[w].att = job[w].att
        /\ Others(w)
    BY <1>1, <2>1, TypedParts DEF JobsTyped, Job, Others
  <2>3. Shape(w)'
    BY <1>1, <1>2, <2>2 DEF Shape, ErpShape
  <2>4. QED
    BY <1>1, <1>2, <2>1, <2>2, <2>3, SameGrown DEF ShapeKept
<1>6. CASE b = "no_summary"
  <2>1. UNCHANGED rows /\ Goto(w, "graph")
    BY <1>6 DEF LoadRetry
  <2>2. RowOf(w).known = "dept"
    BY <1>1, <1>6 DEF RetryBranch
  <2>3. /\ job'[w].pc = "graph" /\ job'[w].task = job[w].task /\ job'[w].att = job[w].att
        /\ Others(w)
    BY <1>1, <2>1, GotoFields
  <2>4. Decisions # {}
    BY <1>1, <2>2 DEF RowShape
  <2>5. Shape(w)'
    BY <1>1, <1>2, <2>3, <2>4 DEF Shape, ErpShape
  <2>6. QED
    BY <1>1, <1>2, <2>1, <2>2, <2>3, <2>5, SameGrown DEF ShapeKept
<1>7. CASE b \in {"incomplete", "ineligible"}
  <2>1. UNCHANGED rows /\ Return(w)
    BY <1>7 DEF LoadRetry
  <2>2. job'[w].pc = "idle" /\ Shape(w)' /\ Others(w)
    BY <1>1, <2>1, ReturnFields
  <2>3. QED
    BY <1>1, <1>2, <2>1, <2>2, SameGrown DEF ShapeKept
<1>8. QED
  <2>1. b \in {"exhausted", "missing_xml", "create", "sync_existing", "no_summary", "incomplete",
               "ineligible"}
    BY <1>1 DEF RetryBranch
  <2>2. QED
    BY <1>3, <1>4, <1>5, <1>6, <1>7, <2>1


\* sync_erp_document reads the row.
LEMMA LoadSyncShape ==
  ASSUME Counted, CountInv, NEW w \in Workers, LoadSync(w)
  PROVE  /\ ShapeKept(w) /\ w \in ErpWorkers /\ UNCHANGED rows
         /\ job'[w].pc = "idle" \/ (job'[w].pc = "patch" /\ job'[w].att = job[w].att)
<1>1. /\ ~At(w, "idle") /\ Typed /\ job[w].pc = "load" /\ Shape(w)
      /\ job[w].task.kind = "sync" /\ UNCHANGED rows
  BY Busy DEF LoadSync, At
<1>2. w \in ErpWorkers /\ ErpShape(w)
  BY <1>1 DEF Shape, MailShape
<1>3. CASE Return(w)
  BY <1>1, <1>2, <1>3, ReturnFields, SameGrown DEF ShapeKept
<1>4. CASE Goto(w, "patch")
  <2>1. /\ job'[w].pc = "patch" /\ job'[w].task = job[w].task /\ job'[w].att = job[w].att
        /\ Others(w)
    BY <1>1, <1>4, GotoFields
  <2>2. Shape(w)'
    BY <1>1, <1>2, <2>1 DEF Shape, ErpShape
  <2>3. QED
    BY <1>1, <1>2, <2>1, <2>2, SameGrown DEF ShapeKept
<1>5. QED
  BY <1>3, <1>4 DEF LoadSync

\* ... and writes what 1C answered; the analysis and the document stay.
LEMMA SyncSaveShape ==
  ASSUME Counted, CountInv, NEW w \in Workers, SyncSave(w)
  PROVE  /\ ShapeKept(w) /\ w \in ErpWorkers /\ job'[w].pc = "idle"
         /\ \E r : /\ SetRow(w, r) /\ r.known = RowOf(w).known /\ r.doc = RowOf(w).doc
                   /\ r.st = RowOf(w).st
<1> DEFINE r1 == [RowOf(w) EXCEPT !.rev = FALSE]
           r2 == [RowOf(w) EXCEPT !.rev = FALSE, !.xml = job[w].snap.xml, !.lease = job[w].snap.lease]
<1>1. /\ ~At(w, "idle") /\ Typed /\ job[w].pc = "patch" /\ Shape(w)
      /\ RowOf(w) \in Row /\ RowShape(RowOf(w))
  BY Busy DEF SyncSave, At
<1>2. w \in ErpWorkers
  BY <1>1 DEF Shape, MailShape
<1>3. /\ r1.known = RowOf(w).known /\ r1.doc = RowOf(w).doc /\ r1.st = RowOf(w).st
      /\ r2.known = RowOf(w).known /\ r2.doc = RowOf(w).doc /\ r2.st = RowOf(w).st
  BY <1>1 DEF Row
<1>4. SetRow(w, r1) \/ SetRow(w, r2) \/ SetRow(w, RowOf(w))
  <2>1. UNCHANGED rows => SetRow(w, RowOf(w))
    BY <1>1, TypedParts DEF SetRow, RowOf
  <2> QED
    BY <2>1 DEF SyncSave
<1> HIDE DEF r1, r2
<1>5. PICK r : /\ SetRow(w, r) /\ r.known = RowOf(w).known /\ r.doc = RowOf(w).doc
               /\ r.st = RowOf(w).st
  BY <1>3, <1>4
<1>6. Grown
  BY <1>1, <1>5, WriteGrown DEF RowShape
<1>7. QED
  BY <1>1, <1>2, <1>5, <1>6, ReturnFields DEF SyncSave, ShapeKept

\* What 1C answered is written down, or the attempt to do so failed.
LEMMA RetrySaveShape ==
  ASSUME Counted, CountInv, NEW w \in Workers, RetrySave(w)
  PROVE  /\ ShapeKept(w) /\ w \in ErpWorkers /\ job'[w].pc = "idle"
         /\ job[w].task.kind = "retry" /\ RowOf(w).known = "full"
         /\ \/ /\ job[w].out.erp \in {"ok", "attach"}
               /\ \E r : /\ SetRow(w, r) /\ r.doc
                         /\ RowOf(w).st \in Terminal => r.st \in Terminal
            \/ /\ rows' = rows \/ SetRow(w, Exhausted(RowOf(w)))
               /\ job[w].out.erp = "fail" \/ (CanFail("db") /\ RetryFailed(w, Fault("db")))
<1> DEFINE registered == [RowOf(w) EXCEPT !.doc = TRUE, !.st = "done", !.rev = FALSE, !.retry = 0]
           attached   == [RowOf(w) EXCEPT !.doc = TRUE]
           e == Exhausted(RowOf(w))
<1>1. /\ ~At(w, "idle") /\ Typed /\ job[w].pc = "rsave" /\ Shape(w)
      /\ RowOf(w) \in Row /\ RowShape(RowOf(w)) /\ RowOf(w) = rows[job[w].att]
  BY Busy DEF RetrySave, At
<1>2. w \in ErpWorkers /\ RowOf(w).known = "full" /\ job[w].task.kind = "retry"
  BY <1>1 DEF Shape, MailShape, ErpShape
<1>3. /\ registered.known = RowOf(w).known /\ registered.doc /\ registered.st \in Terminal
      /\ attached.known = RowOf(w).known /\ attached.doc /\ attached.st = RowOf(w).st
      /\ e.known = RowOf(w).known /\ e.doc = RowOf(w).doc
  BY <1>1 DEF Row, Exhausted, Terminal
<1>4. \/ job[w].out.erp \in {"ok", "attach"} /\ (SetRow(w, registered) \/ SetRow(w, attached))
      \/ /\ rows' = rows \/ SetRow(w, e)
         /\ job[w].out.erp = "fail" \/ (CanFail("db") /\ RetryFailed(w, Fault("db")))
  <2>1. RetryFailed(w, NoFault) => rows' = rows \/ SetRow(w, e)
    BY DEF RetryFailed
  <2>2. RetryFailed(w, Fault("db")) => rows' = rows \/ SetRow(w, e)
    BY DEF RetryFailed
  <2> HIDE DEF e
  <2>3. QED
    BY <2>1, <2>2 DEF RetrySave
<1> HIDE DEF registered, attached
<1>5. Grown
  <2>1. rows' = rows => Grown
    BY SameGrown
  <2> HIDE DEF e
  <2>2. QED
    BY <1>1, <1>2, <1>3, <1>4, <2>1, WriteGrown DEF RowShape
<1>6. job'[w].pc = "idle" /\ Shape(w)' /\ Others(w)
  BY <1>1, ReturnFields DEF RetrySave
<1>7. QED
  BY <1>2, <1>3, <1>4, <1>5, <1>6 DEF ShapeKept

\* A lost worker loses its job and no row.
LEMMA LossShape ==
  ASSUME Counted, CountInv, NEW w \in Workers, Crash(w) \/ Kill(w)
  PROVE  ShapeKept(w) /\ job'[w].pc = "idle" /\ UNCHANGED rows /\ ~At(w, "idle")
<1>1. ~At(w, "idle") /\ Typed /\ Return(w) /\ UNCHANGED rows
  BY Busy DEF Crash, Kill
<1>2. QED
  BY <1>1, ReturnFields, SameGrown DEF ShapeKept

\* A step of a worker at a letter keeps all shapes.
LEMMA WorkerShape ==
  ASSUME Counted, CountInv, NEW w \in Workers, WorkerStep(w) \/ Crash(w) \/ Kill(w)
  PROVE  ShapeKept(w)
BY CheckShape, StartShape, GraphShape, GraphRaiseShape, CreateShape, FinalizeShape, PostShape,
   LoadReprocessShape, LoadContinueShape, HumanSyncShape, LoadRetryShape, LoadSyncShape,
   SyncSaveShape, RetrySaveShape, LossShape DEF WorkerStep


\* The step of one worker keeps the shapes of all.
LEMMA ShapesStay ==
  ASSUME Counted, CountInv, NEW w \in Workers, ShapeKept(w)
  PROVE  JobsShaped' /\ RowsShaped'
<1>1. RowsShaped'
  BY DEF ShapeKept, Grown, RowsShaped
<1>2. ASSUME NEW v \in Workers, v # w
      PROVE  Shape(v)'
  <2>1. job'[v] = job[v] /\ Shape(v)
    BY <1>2 DEF ShapeKept, Others, CountInv, JobsShaped
  <2>2. job[v].pc # "idle" => job[v].att \in Attempts
    BY DEF CountInv, IInv, Typed, WellFormedJobs, At
  <2>3. \A a \in Attempts : rows[a].known = "full" => rows'[a].known = "full"
    BY DEF ShapeKept, Grown
  <2>4. job[v].pc # "idle" /\ rows[job[v].att].known = "full" => rows'[job[v].att].known = "full"
    BY <2>2, <2>3
  <2>5. QED
    BY <2>1, <2>4 DEF Shape, ErpShape, MailShape
<1>3. QED
  BY <1>1, <1>2 DEF JobsShaped, ShapeKept

-----------------------------------------------------------------------------
(* Messages *)

\* The four messages that resume a with n tries behind them.
LEMMA WaitingTasks ==
  ASSUME NEW a \in Attempts, NEW n \in {0, 1, 2}
  PROVE  /\ {ContinueTask(a, n), ReprocessTask(a, "plain", n), ReprocessTask(a, "restored", n),
             ReprocessTask(a, "reanalyze", n)} \subseteq Task
         /\ ContinueTask(a, n).kind = "continue" /\ ContinueTask(a, n).att = a
         /\ ContinueTask(a, n).tries = n
         /\ \A d \in Modes : /\ ReprocessTask(a, d, n).kind = "reprocess" /\ ReprocessTask(a, d, n).att = a
                             /\ ReprocessTask(a, d, n).tries = n /\ ReprocessTask(a, d, n).mode = d
<1>1. n \in 0..HumanTries /\ {"plain", "restored", "reanalyze"} = Modes
  BY DEF HumanTries, Modes
<1>2. QED
  BY <1>1, TaskConstructors DEF ContinueTask, ReprocessTask

\* A message that resumes a letter is one of the four of its letter and tries.
LEMMA HumanTask ==
  ASSUME NEW t \in Task, t.kind \in {"continue", "reprocess"}
  PROVE  /\ t.att \in Attempts /\ t.tries \in {0, 1, 2}
         /\ t.kind = "continue" => t = ContinueTask(t.att, t.tries)
         /\ t.kind = "reprocess" => t.mode \in Modes /\ t = ReprocessTask(t.att, t.mode, t.tries)
<1>1. t \in [kind : {"continue"}, att : Attempts, tries : 0..HumanTries]
      \/ t \in [kind : {"reprocess"}, att : Attempts, mode : Modes, tries : 0..HumanTries]
  BY DEF Task, MailTask, ErpTask
<1>2. QED
  BY <1>1 DEF HumanTries, ContinueTask, ReprocessTask

\* d more copies of t.
More(t, d) == \A u \in Task : queue'[u] = IF u = t THEN queue[u] + d ELSE queue[u]

\* One more or one less of a message, counted with the attempts it has left.
LEMMA WaitingChange ==
  ASSUME queue \in [Task -> Nat], NEW t \in Task, t.kind \in {"continue", "reprocess"},
         NEW d \in Int, More(t, d), NEW a \in Attempts, NEW n \in {0, 1, 2}
  PROVE  Waiting(a, n)' = IF t.att = a /\ t.tries = n THEN Waiting(a, n) + d ELSE Waiting(a, n)
<1> DEFINE c == ContinueTask(a, n)
           p == ReprocessTask(a, "plain", n)
           r == ReprocessTask(a, "restored", n)
           e == ReprocessTask(a, "reanalyze", n)
<1>1. /\ c \in Task /\ p \in Task /\ r \in Task /\ e \in Task
      /\ c.kind = "continue" /\ p.kind = "reprocess" /\ r.kind = "reprocess" /\ e.kind = "reprocess"
      /\ p.mode = "plain" /\ r.mode = "restored" /\ e.mode = "reanalyze"
      /\ c.att = a /\ p.att = a /\ r.att = a /\ e.att = a
      /\ c.tries = n /\ p.tries = n /\ r.tries = n /\ e.tries = n
  BY WaitingTasks DEF Modes
<1>2. t.att = a /\ t.tries = n => t \in {c, p, r, e}
  BY HumanTask DEF Modes
<1>3. Waiting(a, n) = queue[c] + queue[p] + queue[r] + queue[e]
  BY DEF Waiting
<1>4. Waiting(a, n)' = queue'[c] + queue'[p] + queue'[r] + queue'[e]
  BY DEF Waiting
<1> HIDE DEF c, p, r, e
<1>5. queue[c] \in Nat /\ queue[p] \in Nat /\ queue[r] \in Nat /\ queue[e] \in Nat
  BY <1>1
<1>6. /\ queue'[c] = IF c = t THEN queue[c] + d ELSE queue[c]
      /\ queue'[p] = IF p = t THEN queue[p] + d ELSE queue[p]
      /\ queue'[r] = IF r = t THEN queue[r] + d ELSE queue[r]
      /\ queue'[e] = IF e = t THEN queue[e] + d ELSE queue[e]
  BY <1>1 DEF More
<1>7. c # p /\ c # r /\ c # e /\ p # r /\ p # e /\ r # e
  BY <1>1
<1>8. QED
  BY <1>1, <1>2, <1>3, <1>4, <1>5, <1>6, <1>7

\* The number of messages is a number.
LEMMA MsgsNat ==
  ASSUME queue \in [Task -> Nat], NEW a \in Attempts
  PROVE  Msgs(a) \in Nat /\ \A n \in {0, 1, 2} : Waiting(a, n) \in Nat
<1>1. ASSUME NEW n \in {0, 1, 2}
      PROVE  Waiting(a, n) \in Nat
  BY WaitingTasks DEF Waiting
<1>2. QED
  BY <1>1 DEF Msgs

\* ... and counted over all attempts.
LEMMA MsgsChange ==
  ASSUME queue \in [Task -> Nat], NEW t \in Task, t.kind \in {"continue", "reprocess"},
         NEW d \in Int, More(t, d), NEW a \in Attempts
  PROVE  Msgs(a)' = IF t.att = a THEN Msgs(a) + d ELSE Msgs(a)
<1>1. \A n \in {0, 1, 2} : /\ Waiting(a, n) \in Nat
                           /\ Waiting(a, n)' = IF t.att = a /\ t.tries = n
                                               THEN Waiting(a, n) + d ELSE Waiting(a, n)
  BY MsgsNat, WaitingChange
<1>2. t.tries \in {0, 1, 2}
  BY HumanTask
<1>3. Msgs(a) = Waiting(a, 0) + Waiting(a, 1) + Waiting(a, 2)
      /\ Msgs(a)' = Waiting(a, 0)' + Waiting(a, 1)' + Waiting(a, 2)'
  BY DEF Msgs
<1>4. QED
  BY <1>1, <1>2, <1>3

\* Only the messages that resume a count.
LEMMA MsgsSame ==
  ASSUME NEW a \in Attempts,
         \A u \in Task : u.kind \in {"continue", "reprocess"} => queue'[u] = queue[u]
  PROVE  Msgs(a)' = Msgs(a)
<1>1. ASSUME NEW n \in {0, 1, 2}
      PROVE  Waiting(a, n)' = Waiting(a, n)
  BY WaitingTasks DEF Waiting, Modes
<1>2. QED
  BY <1>1 DEF Msgs


\* A message that is sent resumes its own letter and no other.
LEMMA SendMessages ==
  ASSUME CountInv, NEW t \in Task, Send(t), NEW a \in Attempts
  PROVE  /\ Msgs(a)' = IF t.kind \in {"continue", "reprocess"} /\ t.att = a THEN Msgs(a) + 1 ELSE Msgs(a)
         /\ RetryQueued(a)' => RetryQueued(a) \/ (t.kind = "retry" /\ t.att = a)
         /\ (t.kind \in {"continue", "reprocess"} => Decisions # {}) => QueueShaped'
<1>1. queue \in [Task -> Nat] /\ queue' = [queue EXCEPT ![t] = @ + 1]
  BY TypedParts DEF CountInv, IInv, Send
<1>2. More(t, 1)
  BY <1>1 DEF More
<1>3. Msgs(a)' = IF t.kind \in {"continue", "reprocess"} /\ t.att = a THEN Msgs(a) + 1 ELSE Msgs(a)
  <2>1. CASE t.kind \in {"continue", "reprocess"}
    BY <1>1, <1>2, <2>1, MsgsChange
  <2>2. CASE t.kind \notin {"continue", "reprocess"}
    <3>1. \A u \in Task : u.kind \in {"continue", "reprocess"} => queue'[u] = queue[u]
      BY <1>2, <2>2 DEF More
    <3>2. QED
      BY <2>2, <3>1, MsgsSame
  <2>3. QED
    BY <2>1, <2>2
<1>4. RetryQueued(a)' => RetryQueued(a) \/ (t.kind = "retry" /\ t.att = a)
  <2>1. ASSUME NEW f \in BOOLEAN, queue'[RetryTask(a, f)] > 0
        PROVE  RetryQueued(a) \/ (t.kind = "retry" /\ t.att = a)
    <3>1. RetryTask(a, f) \in Task /\ RetryTask(a, f).kind = "retry" /\ RetryTask(a, f).att = a
      BY TaskConstructors DEF RetryTask
    <3>2. queue[RetryTask(a, f)] > 0 \/ RetryTask(a, f) = t
      BY <1>2, <2>1, <3>1 DEF More
    <3>3. QED
      BY <3>1, <3>2 DEF RetryQueued
  <2>2. QED
    BY <2>1 DEF RetryQueued
<1>5. ASSUME t.kind \in {"continue", "reprocess"} => Decisions # {}
      PROVE  QueueShaped'
  <2>1. \A u \in Task : queue'[u] > 0 => queue[u] > 0 \/ u = t
    BY <1>2 DEF More
  <2>2. QED
    BY <1>5, <2>1 DEF CountInv, QueueShaped
<1>6. QED
  BY <1>3, <1>4, <1>5

\* No message, no change.
LEMMA SameMessages ==
  ASSUME CountInv, UNCHANGED queue
  PROVE  QueueShaped' /\ \A a \in Attempts : Msgs(a)' = Msgs(a) /\ RetryQueued(a)' = RetryQueued(a)
BY MsgsSame DEF CountInv, QueueShaped, RetryQueued

-----------------------------------------------------------------------------
(* The price *)

\* The price is a number.
LEMMA PriceNat ==
  ASSUME faults \in Nat, decisions \in Nat
  PROVE  Price \in Nat
BY DEF Price

\* A step that counts no fault and no decision.
LEMMA PriceSame ==
  ASSUME UNCHANGED <<faults, decisions>>
  PROVE  Price' = Price
BY DEF Price, Harmless

\* Twice a sum, when a summand grows.
LEMMA Doubles ==
  ASSUME NEW f \in Nat, NEW d \in Nat, NEW g \in Nat, g >= f
  PROVE  /\ 2 * (f + d) \in Nat /\ 2 * (g + d) \in Nat /\ 2 * (g + d) >= 2 * (f + d)
         /\ 2 * (g + (d + 1)) \in Nat /\ 2 * (g + (d + 1)) >= 2 * (f + d) + 2
OBVIOUS

\* The price never falls.
LEMMA PriceGrows ==
  ASSUME faults \in Nat, decisions \in Nat, faults' \in Nat, faults' >= faults, UNCHANGED decisions
  PROVE  Price' >= Price /\ Price' \in Nat /\ Price \in Nat
<1>1. CASE Decisions # {}
  <2>1. Price = 2 * (faults + decisions) /\ Price' = 2 * (faults' + decisions')
    BY <1>1 DEF Price
  <2>2. QED
    BY <2>1, Doubles
<1>2. CASE Decisions = {} /\ Faults \subseteq Harmless
  BY <1>2 DEF Price, Harmless
<1>3. CASE Decisions = {} /\ ~(Faults \subseteq Harmless)
  <2>1. Price = faults /\ Price' = faults'
    BY <1>3 DEF Price, Harmless
  <2>2. QED
    BY <2>1
<1>4. QED
  BY <1>1, <1>2, <1>3

\* No step takes a fault back.
LEMMA FaultGrows ==
  ASSUME faults \in Nat, NEW k, Fault(k) \/ NoFault
  PROVE  faults' >= faults /\ faults' \in Nat
BY DEF Fault, NoFault

\* A counted fault, where some fault that may happen costs documents.
LEMMA CountedFault ==
  ASSUME faults \in Nat, decisions \in Nat, faults' = faults + 1, UNCHANGED decisions,
         ~(Faults \subseteq Harmless)
  PROVE  /\ Price' \in Nat /\ Price \in Nat
         /\ Price' >= Price + 1 /\ (Decisions # {} => Price' >= Price + 2)
<1>1. CASE Decisions # {}
  <2>1. Price = 2 * (faults + decisions) /\ Price' = 2 * (faults' + decisions')
    BY <1>1 DEF Price
  <2>2. QED
    BY <2>1
<1>2. CASE Decisions = {}
  <2>1. Price = faults /\ Price' = faults'
    BY <1>2 DEF Price, Harmless
  <2>2. QED
    BY <1>2, <2>1
<1>3. QED
  BY <1>1, <1>2

\* A fault that is not harmless is paid for.
LEMMA Paid ==
  ASSUME Counted, faults \in Nat, decisions \in Nat, UNCHANGED decisions,
         NEW k, Fault(k), k \notin Harmless
  PROVE  /\ Price' \in Nat /\ Price \in Nat
         /\ Price' >= Price + 1 /\ (Decisions # {} => Price' >= Price + 2)
<1>1. k \notin Chronic
  BY DEF Counted
<1>2. faults' = faults + 1 /\ k \in Faults
  BY <1>1 DEF Fault
<1>3. QED
  BY <1>2, CountedFault

\* The faults that can hide a registration.
LEMMA Harmful ==
  /\ {"db", "lost", "crash", "kill"} \cap Harmless = {}
  /\ Decisions # {} => "raise" \notin Harmless
BY DEF Harmless

\* A decision pays for two documents.
LEMMA DecisionPays ==
  ASSUME faults \in Nat, decisions \in Nat, faults' \in Nat, faults' >= faults, NEW d, Decide(d)
  PROVE  Price' \in Nat /\ Price \in Nat /\ Price' >= Price + 2
<1>1. Decisions # {} /\ decisions' = decisions + 1
  BY DEF Decide
<1>2. Price = 2 * (faults + decisions) /\ Price' = 2 * (faults' + decisions')
  BY <1>1 DEF Price
<1>3. QED
  BY <1>1, <1>2, Doubles

\* An error of the database in the last transaction of retry_erp_task counts,
\* also when the message for the next attempt cannot be sent either.
LEMMA SaveFaultPays ==
  ASSUME Counted, faults \in Nat, decisions \in Nat, UNCHANGED decisions,
         NEW w, CanFail("db"), RetryFailed(w, Fault("db"))
  PROVE  Price' \in Nat /\ Price \in Nat /\ Price' >= Price + 1
<1>1. "db" \notin Chronic /\ "db" \in Faults /\ ~(Faults \subseteq Harmless)
  BY Harmful DEF Counted, CanFail
<1>2. Fault("db") \/ ("broker" \notin Chronic /\ Fault("broker"))
  BY DEF RetryFailed
<1>3. faults' = faults + 1
  BY <1>1, <1>2 DEF Fault
<1>4. QED
  BY <1>1, <1>3, CountedFault


-----------------------------------------------------------------------------
(* What is owed to a letter, seen from the worker that takes a step *)

\* A worker or a row owes at most one registration.
LEMMA Units ==
  ASSUME NEW a
  PROVE  /\ Load(a) \in {0, 1} /\ Mail(a) \in {0, 1} /\ Erp(a) \in {0, 1}
         /\ Load(a)' \in {0, 1} /\ Mail(a)' \in {0, 1} /\ Erp(a)' \in {0, 1}
BY DEF Load, Mail, Erp

\* With a letter in the hands of one mail worker, what the mail workers do with
\* it is what that one does.
LEMMA MailView ==
  ASSUME Counted, NEW w \in Workers, w \notin ErpWorkers, Others(w), NEW a, Alone(w, a)
  PROVE  /\ (MailRuns(a) <=> Runs(w, a)) /\ (MailRuns(a)' <=> Runs(w, a)')
         /\ (MailTold(a) <=> Runs(w, a) /\ Told(w, a))
         /\ (MailTold(a)' <=> Runs(w, a)' /\ Told(w, a)')
         /\ (MailLoads(a) <=> Loads(w, a)) /\ (MailLoads(a)' <=> Loads(w, a)')
<1>1. w \in MailWorkers
  BY DEF Workers
<1>2. ASSUME NEW v \in MailWorkers, v # w
      PROVE  ~Runs(v, a) /\ ~Loads(v, a) /\ ~Runs(v, a)' /\ ~Loads(v, a)'
  <2>1. ~Runs(v, a) /\ ~Loads(v, a)
    BY <1>2 DEF Alone
  <2>2. job'[v] = job[v]
    BY <1>2 DEF Others, Workers
  <2>3. QED
    BY <2>1, <2>2 DEF Runs, Loads
<1>3. QED
  BY <1>1, <1>2 DEF MailRuns, MailTold, MailLoads

\* A mail worker that has the letter in its hands neither before nor after its
\* step leaves it to the others.
LEMMA MailElsewhere ==
  ASSUME NEW w \in Workers, w \notin ErpWorkers, Others(w), NEW a,
         ~Runs(w, a), ~Loads(w, a), ~Runs(w, a)', ~Loads(w, a)'
  PROVE  /\ (MailRuns(a)' <=> MailRuns(a)) /\ (MailTold(a)' <=> MailTold(a))
         /\ (MailLoads(a)' <=> MailLoads(a))
<1>1. ASSUME NEW v \in MailWorkers
      PROVE  /\ (Runs(v, a)' <=> Runs(v, a)) /\ (Loads(v, a)' <=> Loads(v, a))
             /\ (Runs(v, a)' /\ Told(v, a)' <=> Runs(v, a) /\ Told(v, a))
  <2>1. CASE v = w
    BY <2>1
  <2>2. CASE v # w
    <3>1. job'[v] = job[v]
      BY <1>1, <2>2 DEF Others, Workers
    <3>2. QED
      BY <3>1 DEF Runs, Loads, Told
  <2>3. QED
    BY <2>1, <2>2
<1>2. QED
  BY <1>1 DEF MailRuns, MailTold, MailLoads

\* Who has the letter in its hands, before or after its step, has it alone.
LEMMA HeldAlone ==
  ASSUME Apart, Apart', NEW w \in Workers, w \notin ErpWorkers, Others(w), NEW a,
         Runs(w, a) \/ Loads(w, a) \/ Runs(w, a)' \/ Loads(w, a)'
  PROVE  Alone(w, a)
<1> SUFFICES ASSUME NEW v \in MailWorkers \ {w}, Runs(v, a) \/ Loads(v, a)
             PROVE  FALSE
  BY DEF Alone
<1>1. w \in MailWorkers /\ job'[v] = job[v]
  BY DEF Others, Workers
<1>2. Runs(v, a)' \/ Loads(v, a)'
  BY <1>1 DEF Runs, Loads
<1>3. CASE Runs(w, a) \/ Loads(w, a)
  <2>1. job[w].att = a
    BY <1>3 DEF Runs, Loads
  <2>2. Alone(w, a)
    BY <1>1, <1>3, <2>1 DEF Apart
  <2>3. QED
    BY <2>2 DEF Alone
<1>4. CASE Runs(w, a)' \/ Loads(w, a)'
  <2>1. job'[w].att = a
    BY <1>4 DEF Runs, Loads
  <2>2. Alone(w, a)'
    BY <1>1, <1>4, <2>1 DEF Apart, Alone, Runs, Loads
  <2>3. QED
    BY <1>2, <2>2 DEF Alone
<1>5. QED
  BY <1>3, <1>4

\* With one erp worker, what the erp workers do is what it does.
LEMMA ErpView ==
  ASSUME Counted, NEW w \in ErpWorkers, NEW a
  PROVE  /\ (ErpRuns(a) <=> Registers(w, a)) /\ (ErpRuns(a)' <=> Registers(w, a)')
         /\ (ErpTold(a) <=> Told(w, a)) /\ (ErpTold(a)' <=> Told(w, a)')
         /\ (ErpRetries(a) <=> Retries(w, a)) /\ (ErpRetries(a)' <=> Retries(w, a)')
BY DEF Counted, ErpRuns, ErpTold, ErpRetries

\* A step of the erp worker changes nothing at the mail worker.
LEMMA MailOthers ==
  ASSUME Counted, NEW w \in Workers, w \in ErpWorkers, Others(w), NEW a
  PROVE  /\ MailRuns(a)' <=> MailRuns(a)
         /\ MailTold(a)' <=> MailTold(a)
         /\ MailLoads(a)' <=> MailLoads(a)
         /\ MailFails(a)' <=> MailFails(a)
<1>1. \A v \in MailWorkers : job'[v] = job[v]
  BY DEF Counted, Others, Workers
<1>2. QED
  BY <1>1 DEF MailRuns, MailTold, MailLoads, MailFails, Runs, Told, Loads, Fails, ErpFailed

\* A step of the mail worker changes nothing at the erp worker.
LEMMA ErpOthers ==
  ASSUME Counted, NEW w \in Workers, w \notin ErpWorkers, Others(w), NEW a
  PROVE  /\ ErpRuns(a)' <=> ErpRuns(a)
         /\ ErpTold(a)' <=> ErpTold(a)
         /\ ErpRetries(a)' <=> ErpRetries(a)
<1>1. \A v \in ErpWorkers : job'[v] = job[v]
  BY DEF Others, Workers
<1>2. QED
  BY <1>1 DEF ErpRuns, ErpTold, ErpRetries, Registers, Told, Retries

\* The mail worker's step leaves the retries of the erp worker alone.
LEMMA MailWorkerOwes ==
  ASSUME Counted, NEW w \in Workers, w \notin ErpWorkers, Others(w), NEW a,
         RetryQueued(a)' => Retrying(a), Fails(w, a)' => Retrying(a)
  PROVE  Retrying(a)' => Retrying(a)
<1>1. ASSUME NEW v \in MailWorkers, v # w, Fails(v, a)'
      PROVE  Fails(v, a)
  <2>1. job'[v] = job[v]
    BY <1>1 DEF Others, Workers
  <2>2. QED
    BY <1>1, <2>1 DEF Fails, ErpFailed
<1>2. MailFails(a)' => Retrying(a)
  BY <1>1 DEF MailFails, Retrying
<1>3. QED
  BY <1>2, ErpOthers DEF Retrying

\* A retry that is under way after a step of the erp worker was so before.
LEMMA ErpWorkerOwes ==
  ASSUME Counted, NEW w \in Workers, w \in ErpWorkers, Others(w), NEW a,
         RetryQueued(a)' => Retrying(a), Retries(w, a)' => Retrying(a)
  PROVE  Retrying(a)' => Retrying(a)
BY ErpView, MailOthers DEF Retrying

\* A retry owes a document after the step only if it did before.
LEMMA OwedStays ==
  ASSUME NEW a, rows'[a].doc = rows[a].doc, rows'[a].known = "full" => rows[a].known = "full",
         Retrying(a)' => Retrying(a)
  PROVE  Owed(a)' => Owed(a)
BY DEF Owed

\* The parts of the cost in terms of the mail worker's own job, at a letter it
\* has in its hands.
LEMMA MailParts ==
  ASSUME Counted, Apart, Apart', NEW w \in Workers, w \notin ErpWorkers, Others(w), NEW a,
         Runs(w, a) \/ Loads(w, a) \/ Runs(w, a)' \/ Loads(w, a)'
  PROVE  /\ Load(a) = IF Loads(w, a) THEN 1 ELSE 0
         /\ Load(a)' = IF Loads(w, a)' THEN 1 ELSE 0
         /\ Mail(a) = IF Runs(w, a) THEN IF Told(w, a) THEN 0 ELSE 1 ELSE IF IsFinal(a) THEN 0 ELSE 1
         /\ Mail(a)' = IF Runs(w, a)' THEN IF Told(w, a)' THEN 0 ELSE 1
                                      ELSE IF IsFinal(a)' THEN 0 ELSE 1
         /\ (Owed(a)' => Owed(a)) => Erp(a)' <= Erp(a)
<1>1. /\ Load(a) = IF Loads(w, a) THEN 1 ELSE 0
      /\ Load(a)' = IF Loads(w, a)' THEN 1 ELSE 0
      /\ Mail(a) = IF Runs(w, a) THEN IF Told(w, a) THEN 0 ELSE 1 ELSE IF IsFinal(a) THEN 0 ELSE 1
      /\ Mail(a)' = IF Runs(w, a)' THEN IF Told(w, a)' THEN 0 ELSE 1
                                   ELSE IF IsFinal(a)' THEN 0 ELSE 1
  BY HeldAlone, MailView DEF Load, Mail
<1>2. (Owed(a)' => Owed(a)) => Erp(a)' <= Erp(a)
  BY ErpOthers DEF Erp
<1>3. QED
  BY <1>1, <1>2

\* ... and at one it has not.
LEMMA MailIdles ==
  ASSUME Counted, NEW w \in Workers, w \notin ErpWorkers, Others(w), NEW a,
         ~Runs(w, a), ~Loads(w, a), ~Runs(w, a)', ~Loads(w, a)'
  PROVE  /\ Load(a)' = Load(a)
         /\ (IsFinal(a) => IsFinal(a)') => Mail(a)' <= Mail(a)
         /\ (Owed(a)' => Owed(a)) => Erp(a)' <= Erp(a)
<1>1. Load(a)' = Load(a) /\ ((IsFinal(a) => IsFinal(a)') => Mail(a)' <= Mail(a))
  BY MailElsewhere DEF Load, Mail
<1>2. (Owed(a)' => Owed(a)) => Erp(a)' <= Erp(a)
  BY ErpOthers DEF Erp
<1>3. QED
  BY <1>1, <1>2

\* The parts of the cost in terms of the erp worker's own job.
LEMMA ErpParts ==
  ASSUME Counted, NEW w \in Workers, w \in ErpWorkers, Others(w), NEW a
  PROVE  /\ Load(a)' = Load(a)
         /\ (IsFinal(a) => IsFinal(a)') => Mail(a)' <= Mail(a)
         /\ Erp(a) = IF Registers(w, a) \/ (Owed(a) /\ ~Told(w, a)) THEN 1 ELSE 0
         /\ Erp(a)' = IF Registers(w, a)' \/ (Owed(a)' /\ ~Told(w, a)') THEN 1 ELSE 0
<1>1. Load(a)' = Load(a) /\ ((IsFinal(a) => IsFinal(a)') => Mail(a)' <= Mail(a))
  BY MailOthers DEF Load, Mail
<1>2. /\ Erp(a) = IF Registers(w, a) \/ (Owed(a) /\ ~Told(w, a)) THEN 1 ELSE 0
      /\ Erp(a)' = IF Registers(w, a)' \/ (Owed(a)' /\ ~Told(w, a)') THEN 1 ELSE 0
  BY ErpView DEF Erp
<1>3. QED
  BY <1>1, <1>2


-----------------------------------------------------------------------------
(* The letters a worker is not at *)

\* What worker w may send.
Sent(w, t) == /\ Send(t)
              /\ t.kind # "process" => t.att = job[w].att
              /\ t.kind \in {"continue", "reprocess"} => Decisions # {}

\* A step of worker w, for everything but its own job and letter.
Frame(w) ==
  /\ Others(w)
  /\ job'[w].att = job[w].att \/ job'[w].pc \in {"idle", "check"}
  /\ \A a \in Attempts \ {job[w].att} :
       rows'[a] = rows[a] /\ docs'[a] = docs[a] /\ Msgs(a)' = Msgs(a) /\ (RetryQueued(a)' => RetryQueued(a))
  /\ QueueShaped' /\ UNCHANGED decisions /\ faults' \in Nat /\ faults' >= faults

\* A worker writes the row of its own letter.
LEMMA SetRowFrame ==
  ASSUME CountInv, NEW w \in Workers, (\E r : SetRow(w, r)) \/ UNCHANGED rows
  PROVE  \A a \in Attempts \ {job[w].att} : rows'[a] = rows[a]
BY TypedParts DEF CountInv, IInv, SetRow

\* The messages a worker sends are about its own letter.
LEMMA QueueFrame ==
  ASSUME CountInv, NEW w \in Workers, ~At(w, "idle"), UNCHANGED queue \/ \E t \in Task : Sent(w, t)
  PROVE  /\ QueueShaped'
         /\ \A a \in Attempts \ {job[w].att} : Msgs(a)' = Msgs(a) /\ (RetryQueued(a)' => RetryQueued(a))
<1>1. CASE UNCHANGED queue
  BY <1>1, SameMessages
<1>2. ASSUME NEW t \in Task, Sent(w, t)
      PROVE  /\ QueueShaped'
             /\ \A a \in Attempts \ {job[w].att} : Msgs(a)' = Msgs(a) /\ (RetryQueued(a)' => RetryQueued(a))
  <2>1. Send(t) /\ job[w].att \in Attempts
    BY <1>2, Busy DEF Sent
  <2>2. QueueShaped'
    BY <1>2, <2>1, SendMessages DEF Sent
  <2>3. ASSUME NEW a \in Attempts \ {job[w].att}
        PROVE  Msgs(a)' = Msgs(a) /\ (RetryQueued(a)' => RetryQueued(a))
    BY <1>2, <2>1, <2>3, SendMessages DEF Sent
  <2>4. QED
    BY <2>2, <2>3
<1>3. QED
  BY <1>1, <1>2

\* The messages of a worker are about its letter.
LEMMA RetrySent ==
  ASSUME NEW w \in Workers, job[w].att \in Attempts, Send(RetryTask(job[w].att, FALSE))
  PROVE  RetryTask(job[w].att, FALSE) \in Task /\ Sent(w, RetryTask(job[w].att, FALSE))
BY TaskConstructors DEF RetryTask, Sent

\* A worker that takes a step has a message, and sends at most one.
LEMMA WorkerSends ==
  ASSUME Counted, CountInv, NEW w \in Workers, WorkerStep(w) \/ Crash(w) \/ Kill(w)
  PROVE  ~At(w, "idle") /\ (UNCHANGED queue \/ \E t \in Task : Sent(w, t))
<1>1. ~At(w, "idle")
  BY DEF WorkerStep, Check, Start, Graph, GraphRaise, Create, Finalize, Post, LoadReprocess,
         LoadContinue, HumanSync, LoadRetry, LoadSync, SyncSave, RetrySave, Crash, Kill, At
<1>2. /\ job[w].att \in Attempts /\ job[w].task \in Task /\ Shape(w)
  BY <1>1, Busy
<1>3. CASE GraphRaise(w)
  <2>1. UNCHANGED queue
        \/ /\ job[w].task.kind \in {"continue", "reprocess"} /\ job[w].task.tries < HumanTries
           /\ Send([job[w].task EXCEPT !.tries = @ + 1])
    BY <1>3 DEF GraphRaise
  <2>2. ASSUME job[w].task.kind \in {"continue", "reprocess"}, job[w].task.tries < HumanTries,
               Send([job[w].task EXCEPT !.tries = @ + 1])
        PROVE  \E t \in Task : Sent(w, t)
    <3> DEFINE t == [job[w].task EXCEPT !.tries = @ + 1]
    <3>1. w \notin ErpWorkers /\ Decisions # {} /\ job[w].task.att = job[w].att
      BY <1>1, <1>2, <2>2 DEF Shape, ErpShape, MailShape, At
    <3>2. t \in Task /\ t.kind = job[w].task.kind /\ t.att = job[w].task.att
      BY <1>2, <2>2 DEF Task, MailTask, ErpTask, HumanTries
    <3> HIDE DEF t
    <3>3. Send(t)
      BY <2>2 DEF t
    <3>4. QED
      BY <3>1, <3>2, <3>3 DEF Sent
  <2>3. QED
    BY <1>1, <2>1, <2>2
<1>4. CASE Crash(w)
  <2>1. Sent(w, job[w].task)
    <3>1. Send(job[w].task)
      BY <1>4 DEF Crash
    <3>2. CASE w \in ErpWorkers
      BY <1>1, <1>2, <3>1, <3>2 DEF Shape, ErpShape, Sent, At
    <3>3. CASE w \notin ErpWorkers
      BY <1>1, <1>2, <3>1, <3>3 DEF Shape, MailShape, Sent, At
    <3>4. QED
      BY <3>2, <3>3
  <2>2. QED
    BY <1>1, <1>2, <2>1
<1>5. CASE Post(w) \/ RetrySave(w)
  <2>1. UNCHANGED queue \/ Send(RetryTask(job[w].att, FALSE))
    BY <1>5 DEF Post, RetrySave, RetryFailed, SendOrLose
  <2>2. QED
    BY <1>1, <1>2, <2>1, RetrySent
<1>6. CASE \/ Check(w) \/ Start(w) \/ Graph(w) \/ Create(w) \/ Finalize(w)
           \/ LoadReprocess(w) \/ LoadContinue(w) \/ HumanSync(w) \/ LoadRetry(w) \/ LoadSync(w)
           \/ SyncSave(w) \/ Kill(w)
  <2>1. UNCHANGED queue
    BY <1>6 DEF Check, Start, Graph, Create, Finalize, LoadReprocess, LoadContinue, HumanSync,
                LoadRetry, LoadSync, SyncSave, Kill
  <2>2. QED
    BY <1>1, <2>1
<1>7. QED
  BY <1>3, <1>4, <1>5, <1>6 DEF WorkerStep


\* A worker's step takes no decision and no fault back.
LEMMA WorkerFaults ==
  ASSUME CountInv, NEW w \in Workers, WorkerStep(w) \/ Crash(w) \/ Kill(w)
  PROVE  UNCHANGED decisions /\ faults' \in Nat /\ faults' >= faults
<1>1. faults \in Nat
  BY TypedParts DEF CountInv, IInv
<1>2. UNCHANGED decisions
  BY DEF WorkerStep, Check, Start, Graph, GraphRaise, Create, Finalize, Post, LoadReprocess,
         LoadContinue, HumanSync, LoadRetry, LoadSync, SyncSave, RetrySave, Crash, Kill
<1>3. CASE \/ Graph(w) \/ LoadReprocess(w) \/ LoadContinue(w) \/ LoadRetry(w) \/ LoadSync(w)
  <2>1. UNCHANGED faults
    BY <1>3 DEF Graph, LoadReprocess, LoadContinue, LoadRetry, LoadSync
  <2>2. QED
    BY <1>1, <1>2, <2>1
<1>4. CASE \/ Check(w) \/ Start(w) \/ GraphRaise(w) \/ Create(w) \/ Finalize(w) \/ Post(w)
           \/ HumanSync(w) \/ SyncSave(w) \/ Crash(w) \/ Kill(w)
  <2>1. NoFault \/ \E k : Fault(k)
    BY <1>4 DEF Check, Start, GraphRaise, Create, CallErp, Finalize, Post, HumanSync, SyncSave, Crash, Kill
  <2>2. QED
    BY <1>1, <1>2, <2>1, FaultGrows
<1>5. CASE RetrySave(w)
  <2>1. RetryFailed(w, NoFault) => NoFault \/ \E k : Fault(k)
    BY DEF RetryFailed
  <2>2. RetryFailed(w, Fault("db")) => \E k : Fault(k)
    BY DEF RetryFailed
  <2>3. \A t : SendOrLose(t) => NoFault \/ \E k : Fault(k)
    BY DEF SendOrLose
  <2>4. NoFault \/ \E k : Fault(k)
    BY <1>5, <2>1, <2>2, <2>3 DEF RetrySave
  <2>5. QED
    BY <1>1, <1>2, <2>4, FaultGrows
<1>6. QED
  BY <1>3, <1>4, <1>5 DEF WorkerStep

\* What a worker leaves alone: the other letters' rows, documents and messages.
LEMMA WorkerFrame ==
  ASSUME Counted, CountInv, NEW w \in Workers, WorkerStep(w) \/ Crash(w) \/ Kill(w)
  PROVE  Frame(w)
<1>1. ShapeKept(w) /\ ~At(w, "idle") /\ (UNCHANGED queue \/ \E t \in Task : Sent(w, t))
  BY WorkerShape, WorkerSends
<1>2. (\E r : SetRow(w, r)) \/ UNCHANGED rows
  <2>1. CASE \/ Check(w) \/ Start(w) \/ Graph(w) \/ GraphRaise(w) \/ Create(w) \/ Finalize(w)
             \/ Post(w) \/ LoadReprocess(w) \/ LoadContinue(w) \/ HumanSync(w) \/ LoadRetry(w)
             \/ LoadSync(w) \/ SyncSave(w) \/ Crash(w) \/ Kill(w)
    BY <2>1 DEF Check, Start, Graph, GraphRaise, Create, Finalize, Post, LoadReprocess,
         LoadContinue, HumanSync, LoadRetry, LoadSync, SyncSave, Crash, Kill
  <2>2. CASE RetrySave(w)
    BY <2>2, RetrySaveShape
  <2>3. QED
    BY <2>1, <2>2 DEF WorkerStep
<1>3. \A a \in Attempts \ {job[w].att} : docs'[a] = docs[a]
  <2>1. docs \in [Attempts -> Nat]
    BY TypedParts DEF CountInv, IInv
  <2>2. UNCHANGED docs \/ \E n \in {0, 1} : docs' = [docs EXCEPT ![job[w].att] = @ + n]
    <3>1. CASE Create(w)
      BY <3>1, CreateShape
    <3>2. CASE Check(w) \/ Start(w) \/ Graph(w) \/ GraphRaise(w) \/ Finalize(w)
      BY <3>2 DEF Check, Start, Graph, GraphRaise, Finalize
    <3>3. CASE Post(w) \/ LoadReprocess(w) \/ LoadContinue(w) \/ HumanSync(w) \/ LoadRetry(w)
      BY <3>3 DEF Post, LoadReprocess, LoadContinue, HumanSync, LoadRetry
    <3>4. CASE LoadSync(w) \/ SyncSave(w) \/ RetrySave(w) \/ Crash(w) \/ Kill(w)
      BY <3>4 DEF LoadSync, SyncSave, RetrySave, Crash, Kill
    <3>5. QED
      BY <3>1, <3>2, <3>3, <3>4 DEF WorkerStep
  <2>3. QED
    BY <2>1, <2>2
<1>4. job'[w].att = job[w].att \/ job'[w].pc \in {"idle", "check"}
  <2>1. CASE Check(w)
    <3>1. Typed /\ (w \in ErpWorkers => ~IsProcess(w))
      BY <1>1, <2>1, Busy DEF Check, At, Shape, ErpShape
    <3>2. QED
      BY <2>1, <3>1, GotoFields, NextRecipientFields DEF Check
  <2>2. CASE Start(w)
    BY <1>1, <2>2, Busy, TypedParts, GotoFields DEF Start, JobsTyped, Job
  <2>3. CASE Graph(w) \/ GraphRaise(w) \/ Create(w) \/ Finalize(w) \/ Post(w)
    BY <2>3, GraphShape, GraphRaiseShape, CreateShape, FinalizeShape, PostShape
  <2>4. CASE LoadReprocess(w) \/ LoadContinue(w) \/ HumanSync(w) \/ LoadRetry(w)
    BY <2>4, LoadReprocessShape, LoadContinueShape, HumanSyncShape, LoadRetryShape
  <2>5. CASE LoadSync(w) \/ SyncSave(w) \/ RetrySave(w) \/ Crash(w) \/ Kill(w)
    BY <2>5, LoadSyncShape, SyncSaveShape, RetrySaveShape, LossShape
  <2>6. QED
    BY <2>1, <2>2, <2>3, <2>4, <2>5 DEF WorkerStep
<1>5. QED
  BY <1>1, <1>2, <1>3, <1>4, SetRowFrame, QueueFrame, WorkerFaults DEF Frame, ShapeKept

\* Nothing is added to what is owed to the letters a worker is not at.
LEMMA OtherLetters ==
  ASSUME Counted, CountInv, NEW w \in Workers, Frame(w), Shape(w)', NEW a \in Attempts,
         a # job[w].att
  PROVE  Cost(a)' + Price <= Cost(a) + Price'
<1>1. /\ Others(w) /\ rows'[a] = rows[a] /\ docs'[a] = docs[a] /\ Msgs(a)' = Msgs(a)
      /\ RetryQueued(a)' => RetryQueued(a)
  BY DEF Frame
<1>2. IsFinal(a)' = IsFinal(a)
  BY <1>1 DEF IsFinal
<1>3. /\ ~Runs(w, a) /\ ~Loads(w, a) /\ ~Fails(w, a) /\ ~Registers(w, a) /\ ~Told(w, a)
  BY DEF Runs, Loads, Fails, Registers, Told
<1>4. job'[w].att # a \/ job'[w].pc \in {"idle", "check"}
  BY DEF Frame
<1>5. ~Runs(w, a)' /\ ~Loads(w, a)' /\ ~Fails(w, a)' /\ ~Registers(w, a)' /\ ~Told(w, a)'
  BY <1>4 DEF Runs, Loads, Fails, Registers, Told
<1>6. Load(a)' <= Load(a) /\ Mail(a)' <= Mail(a) /\ Erp(a)' <= Erp(a)
  <2>1. CASE w \notin ErpWorkers
    <3>1. Retrying(a)' => Retrying(a)
      BY <1>1, <1>5, <2>1, MailWorkerOwes DEF Retrying
    <3>2. Owed(a)' => Owed(a)
      BY <1>1, <3>1, OwedStays
    <3>3. QED
      BY <1>1, <1>2, <1>3, <1>5, <2>1, <3>2, MailIdles, Units
  <2>2. CASE w \in ErpWorkers
    <3>1. Retries(w, a)' => Retrying(a)
      <4>1. CASE job'[w].att # a \/ job'[w].pc = "idle"
        BY <4>1 DEF Retries
      <4>2. CASE job'[w].pc = "check"
        BY <2>2, <4>2 DEF Shape, ErpShape
      <4>3. QED
        BY <1>4, <4>1, <4>2
    <3>2. Retrying(a)' => Retrying(a)
      BY <1>1, <2>2, <3>1, ErpWorkerOwes DEF Retrying
    <3>3. Owed(a)' => Owed(a)
      BY <1>1, <3>2, OwedStays
    <3>4. QED
      BY <1>1, <1>2, <1>3, <1>5, <2>2, <3>3, ErpParts, Units
  <2>3. QED
    BY <2>1, <2>2
<1>7. docs[a] \in Nat /\ Msgs(a) \in Nat /\ Price \in Nat /\ Price' \in Nat /\ Price' >= Price
  <2>1. /\ docs \in [Attempts -> Nat] /\ queue \in [Task -> Nat]
        /\ faults \in Nat /\ decisions \in Nat
    BY TypedParts DEF CountInv, IInv
  <2>2. QED
    BY <2>1, MsgsNat, PriceGrows DEF Frame
<1>8. QED
  BY <1>1, <1>6, <1>7, Units DEF Cost


-----------------------------------------------------------------------------
(* The letter a worker is at: each step of the mail worker *)

\* What a step adds to the cost of letter a is paid for.
Settles(a) == Cost(a)' + Price <= Cost(a) + Price'

\* The books of a step that adds n documents and m messages.
LEMMA Balance ==
  ASSUME NEW a, docs[a] \in Nat, Msgs(a) \in Nat, Price \in Nat, Price' \in Nat,
         NEW n \in Int, NEW m \in Int, docs'[a] = docs[a] + n, Msgs(a)' = Msgs(a) + m,
         n + m + Load(a)' + Mail(a)' + Erp(a)' + Price <= Load(a) + Mail(a) + Erp(a) + Price'
  PROVE  Settles(a)
BY Units DEF Cost, Settles

\* A step that neither registers nor sends a message that resumes a letter.
LEMMA QuietBalance ==
  ASSUME NEW a, docs[a] \in Nat, Msgs(a) \in Nat, Price \in Nat, Price' \in Nat,
         docs'[a] = docs[a], Msgs(a)' = Msgs(a),
         Load(a)' + Mail(a)' + Erp(a)' + Price <= Load(a) + Mail(a) + Erp(a) + Price'
  PROVE  Settles(a)
BY Units DEF Cost, Settles

\* The letter of a worker, before and after its step.
LEMMA Own ==
  ASSUME Counted, CountInv, NEW w \in Workers, WorkerStep(w) \/ Crash(w) \/ Kill(w),
         NEW a, a = job[w].att
  PROVE  /\ ~At(w, "idle") /\ a \in Attempts /\ Shape(w) /\ Others(w) /\ Typed
         /\ docs[a] \in Nat /\ Msgs(a) \in Nat /\ docs \in [Attempts -> Nat]
         /\ rows \in [Attempts -> Row] /\ RowOf(w) = rows[a] /\ RowOf(w) \in Row
         /\ \A r : SetRow(w, r) => rows'[a] = r
         /\ faults \in Nat /\ decisions \in Nat /\ UNCHANGED decisions
         /\ Price \in Nat /\ Price' \in Nat /\ Price' >= Price
         /\ RowShape(RowOf(w))
<1>1. ~At(w, "idle") /\ Others(w)
  BY WorkerSends, WorkerShape DEF ShapeKept
<1>2. /\ a \in Attempts /\ Shape(w) /\ Typed /\ RowOf(w) = rows[a] /\ RowOf(w) \in Row
      /\ RowShape(RowOf(w))
  BY <1>1, Busy
<1>3. /\ docs \in [Attempts -> Nat] /\ queue \in [Task -> Nat] /\ rows \in [Attempts -> Row]
      /\ faults \in Nat /\ decisions \in Nat
  BY <1>2, TypedParts
<1>4. \A r : SetRow(w, r) => rows'[a] = r
  BY <1>2, <1>3 DEF SetRow
<1>5. QED
  BY <1>1, <1>2, <1>3, <1>4, MsgsNat, WorkerFaults, PriceGrows

\* A letter whose row is final is not run again.
LEMMA CheckSettles ==
  ASSUME Counted, Apart, Apart', CountInv, NEW w \in Workers, Check(w), NEW a, a = job[w].att
  PROVE  Settles(a)
<1>1. /\ ~At(w, "idle") /\ a \in Attempts /\ Shape(w) /\ Others(w) /\ Typed
      /\ docs[a] \in Nat /\ Msgs(a) \in Nat /\ RowOf(w) = rows[a]
      /\ faults \in Nat /\ decisions \in Nat /\ UNCHANGED decisions
      /\ Price \in Nat /\ Price' \in Nat /\ Price' >= Price
  BY Own DEF WorkerStep
<1>2. w \notin ErpWorkers /\ job[w].pc = "check" /\ UNCHANGED <<rows, docs, queue>>
  BY <1>1 DEF Check, At, Shape, ErpShape
<1>3. /\ Msgs(a)' = Msgs(a) /\ RetryQueued(a)' = RetryQueued(a) /\ IsFinal(a)' = IsFinal(a)
  BY <1>1, <1>2, SameMessages DEF IsFinal
<1>4. /\ ~Runs(w, a) /\ ~Loads(w, a)
  BY <1>2 DEF Runs, Loads
<1>5. \/ job'[w].pc \in {"idle", "check"}
      \/ job'[w].pc = "start" /\ (~IsFinal(a) \/ Price' >= Price + 1)
  <2>1. CASE NextRecipient(w)
    BY <1>1, <1>2, <2>1, NextRecipientFields
  <2>2. CASE Goto(w, "start") /\ RowOf(w).st \notin Terminal
    BY <1>1, <2>2, GotoFields DEF IsFinal
  <2>3. CASE Goto(w, "start") /\ Fault("db")
    <3>1. Price' >= Price + 1
      BY <1>1, <2>3, Paid, Harmful
    <3>2. QED
      BY <1>1, <2>3, <3>1, GotoFields
  <2>4. QED
    BY <2>1, <2>2, <2>3 DEF Check
<1>6. ~Loads(w, a)' /\ ~Fails(w, a)' /\ ~Told(w, a)'
  BY <1>5 DEF Loads, Fails, Told
<1>7. Runs(w, a)' => ~IsFinal(a) \/ Price' >= Price + 1
  BY <1>5 DEF Runs
<1>8. Owed(a)' => Owed(a)
  BY <1>1, <1>2, <1>3, <1>6, MailWorkerOwes, OwedStays DEF Retrying
<1>9. Load(a)' + Mail(a)' + Erp(a)' + Price <= Load(a) + Mail(a) + Erp(a) + Price'
  <2>1. CASE Runs(w, a)'
    BY <1>1, <1>2, <1>3, <1>4, <1>6, <1>7, <1>8, <2>1, MailParts, Units
  <2>2. CASE ~Runs(w, a)'
    BY <1>1, <1>2, <1>3, <1>4, <1>6, <1>8, <2>2, MailIdles, Units
  <2>3. QED
    BY <2>1, <2>2
<1>10. QED
  BY <1>1, <1>2, <1>3, <1>9, QuietBalance

\* The run owes the registration from the start of the graph on.
LEMMA StartSettles ==
  ASSUME Counted, Apart, Apart', CountInv, NEW w \in Workers, Start(w), NEW a, a = job[w].att
  PROVE  Settles(a)
<1>1. /\ ~At(w, "idle") /\ a \in Attempts /\ Shape(w) /\ Others(w) /\ Typed
      /\ docs[a] \in Nat /\ Msgs(a) \in Nat /\ RowOf(w) = rows[a] /\ RowOf(w) \in Row
      /\ \A r : SetRow(w, r) => rows'[a] = r
      /\ Price \in Nat /\ Price' \in Nat /\ Price' >= Price
  BY Own DEF WorkerStep
<1>2. w \notin ErpWorkers /\ job[w].pc = "start" /\ UNCHANGED <<docs, queue>>
  BY <1>1 DEF Start, At, Shape, ErpShape
<1>3. /\ Msgs(a)' = Msgs(a) /\ RetryQueued(a)' = RetryQueued(a)
  BY <1>1, <1>2, SameMessages
<1>4. rows'[a].doc = rows[a].doc /\ rows'[a].known = rows[a].known
  <2>1. StartedRow(RowOf(w)).doc = RowOf(w).doc /\ StartedRow(RowOf(w)).known = RowOf(w).known
    BY <1>1, RowWrites, KnownWrites
  <2>2. rows' = rows \/ rows'[a] = StartedRow(RowOf(w))
    BY <1>1 DEF Start
  <2>3. QED
    BY <1>1, <2>1, <2>2
<1>5. job'[w].pc = "graph" /\ job'[w].att = a
  BY <1>1, GotoFields, TypedParts DEF Start, JobsTyped, Job
<1>6. /\ Runs(w, a) /\ ~Told(w, a) /\ ~Loads(w, a) /\ Runs(w, a)' /\ ~Told(w, a)' /\ ~Loads(w, a)'
      /\ ~Fails(w, a)'
  BY <1>2, <1>5 DEF Runs, Told, Loads, Fails
<1>7. Owed(a)' => Owed(a)
  BY <1>1, <1>2, <1>3, <1>4, <1>6, MailWorkerOwes, OwedStays DEF Retrying
<1>8. Load(a)' + Mail(a)' + Erp(a)' + Price <= Load(a) + Mail(a) + Erp(a) + Price'
  BY <1>1, <1>2, <1>6, <1>7, MailParts, Units
<1>9. QED
  BY <1>1, <1>2, <1>3, <1>8, QuietBalance

\* The graph, on either worker.
LEMMA GraphSettles ==
  ASSUME Counted, Apart, Apart', CountInv, NEW w \in Workers, Graph(w), NEW a, a = job[w].att
  PROVE  Settles(a)
<1>1. /\ ~At(w, "idle") /\ a \in Attempts /\ Shape(w) /\ Others(w) /\ Typed
      /\ docs[a] \in Nat /\ Msgs(a) \in Nat
      /\ Price \in Nat /\ Price' \in Nat /\ Price' >= Price
  BY Own DEF WorkerStep
<1>2. job[w].pc = "graph" /\ UNCHANGED <<rows, docs, queue>>
  BY DEF Graph, At
<1>3. /\ Msgs(a)' = Msgs(a) /\ RetryQueued(a)' = RetryQueued(a) /\ IsFinal(a)' = IsFinal(a)
  BY <1>1, <1>2, SameMessages DEF IsFinal
<1>4. /\ job'[w].att = a /\ job'[w].out.erp = "none" /\ job'[w].pc \in {"create", "final"}
      /\ w \in ErpWorkers => job'[w].pc = "create"
  BY GraphShape
<1>5. CASE w \notin ErpWorkers
  <2>1. /\ Runs(w, a) /\ ~Told(w, a) /\ ~Loads(w, a) /\ Runs(w, a)' /\ ~Told(w, a)' /\ ~Loads(w, a)'
        /\ ~Fails(w, a)'
    BY <1>2, <1>4 DEF Runs, Told, Loads, Fails
  <2>2. Owed(a)' => Owed(a)
    BY <1>1, <1>2, <1>3, <1>5, <2>1, MailWorkerOwes, OwedStays DEF Retrying
  <2>3. Load(a)' + Mail(a)' + Erp(a)' + Price <= Load(a) + Mail(a) + Erp(a) + Price'
    BY <1>1, <1>5, <2>1, <2>2, MailParts, Units
  <2>4. QED
    BY <1>1, <1>2, <1>3, <2>3, QuietBalance
<1>6. CASE w \in ErpWorkers
  <2>1. Registers(w, a) /\ Registers(w, a)'
    BY <1>2, <1>4, <1>6 DEF Registers
  <2>2. Load(a)' + Mail(a)' + Erp(a)' + Price <= Load(a) + Mail(a) + Erp(a) + Price'
    BY <1>1, <1>3, <1>6, <2>1, ErpParts, Units
  <2>3. QED
    BY <1>1, <1>2, <1>3, <2>2, QuietBalance
<1>7. QED
  BY <1>5, <1>6


\* An exception of the graph: a task of the operator may be sent again.
LEMMA GraphRaiseSettles ==
  ASSUME Counted, Apart, Apart', CountInv, NEW w \in Workers, GraphRaise(w), NEW a, a = job[w].att
  PROVE  Settles(a)
<1>1. /\ ~At(w, "idle") /\ a \in Attempts /\ Shape(w) /\ Others(w) /\ Typed
      /\ docs[a] \in Nat /\ Msgs(a) \in Nat /\ RowOf(w) = rows[a] /\ RowOf(w) \in Row
      /\ \A r : SetRow(w, r) => rows'[a] = r
      /\ faults \in Nat /\ decisions \in Nat /\ UNCHANGED decisions
      /\ Price \in Nat /\ Price' \in Nat /\ Price' >= Price
  BY Own DEF WorkerStep
<1>2. job[w].pc = "graph" /\ UNCHANGED docs /\ job'[w].pc = "idle" /\ Fault("raise")
  BY GraphRaiseShape DEF GraphRaise, At
<1>3. CASE w \in ErpWorkers
  <2>1. UNCHANGED <<rows, queue>>
    <3>1. job[w].task.kind = "retry"
      BY <1>1, <1>2, <1>3 DEF Shape, ErpShape
    <3>2. QED
      BY <3>1 DEF GraphRaise
  <2>2. Msgs(a)' = Msgs(a) /\ IsFinal(a)' = IsFinal(a)
    BY <1>1, <2>1, SameMessages DEF IsFinal
  <2>3. Registers(w, a)
    BY <1>2 DEF Registers
  <2>4. Load(a)' + Mail(a)' + Erp(a)' + Price <= Load(a) + Mail(a) + Erp(a) + Price'
    BY <1>1, <1>3, <2>2, <2>3, ErpParts, Units
  <2>5. QED
    BY <1>1, <1>2, <2>2, <2>4, QuietBalance
<1>4. CASE w \notin ErpWorkers
  <2>1. rows'[a].doc = rows[a].doc /\ rows'[a].known = rows[a].known
    <3>1. UNCHANGED rows \/ \E rev \in BOOLEAN : rows'[a] = FailedRow(RowOf(w), rev)
      BY <1>1, GraphRaiseShape
    <3>2. \A rev \in BOOLEAN : /\ FailedRow(RowOf(w), rev).doc = RowOf(w).doc
                               /\ FailedRow(RowOf(w), rev).known = RowOf(w).known
      BY <1>1, RowWrites, KnownWrites
    <3>3. QED
      BY <1>1, <3>1, <3>2
  <2>2. /\ Runs(w, a) /\ ~Told(w, a) /\ ~Loads(w, a) /\ ~Runs(w, a)' /\ ~Loads(w, a)' /\ ~Fails(w, a)'
    BY <1>2 DEF Runs, Told, Loads, Fails
  <2>3. /\ RetryQueued(a)' => RetryQueued(a)
        /\ Msgs(a)' = Msgs(a) \/ (Msgs(a)' = Msgs(a) + 1 /\ Decisions # {})
    <3>1. UNCHANGED queue
          \/ /\ job[w].task.kind \in {"continue", "reprocess"} /\ job[w].task.tries < HumanTries
             /\ Send([job[w].task EXCEPT !.tries = @ + 1])
      BY DEF GraphRaise
    <3>2. ASSUME job[w].task.kind \in {"continue", "reprocess"}, job[w].task.tries < HumanTries,
                 Send([job[w].task EXCEPT !.tries = @ + 1])
          PROVE  /\ RetryQueued(a)' => RetryQueued(a)
                 /\ Msgs(a)' = Msgs(a) + 1 /\ Decisions # {}
      <4> DEFINE t == [job[w].task EXCEPT !.tries = @ + 1]
      <4>1. job[w].task \in Task /\ Decisions # {} /\ job[w].task.att = a
        BY <1>1, <1>2, <1>4, <3>2, Busy DEF Shape, MailShape
      <4>2. t \in Task /\ t.kind = job[w].task.kind /\ t.att = job[w].task.att
        BY <3>2, <4>1 DEF Task, MailTask, ErpTask, HumanTries
      <4> HIDE DEF t
      <4>3. Send(t)
        BY <3>2 DEF t
      <4>4. QED
        BY <1>1, <3>2, <4>1, <4>2, <4>3, SendMessages
    <3>3. UNCHANGED queue => Msgs(a)' = Msgs(a) /\ RetryQueued(a)' = RetryQueued(a)
      BY <1>1, SameMessages
    <3>4. QED
      BY <3>1, <3>2, <3>3
  <2>4. Owed(a)' => Owed(a)
    BY <1>1, <1>4, <2>1, <2>2, <2>3, MailWorkerOwes, OwedStays DEF Retrying
  <2>5. Load(a)' + Mail(a)' + Erp(a)' <= Load(a) + Mail(a) + Erp(a)
    BY <1>1, <1>4, <2>2, <2>4, MailParts, Units
  <2>6. CASE Msgs(a)' = Msgs(a)
    BY <1>1, <1>2, <2>5, <2>6, Units, QuietBalance
  <2>7. CASE Msgs(a)' = Msgs(a) + 1 /\ Decisions # {}
    <3>1. Price' >= Price + 1
      BY <1>1, <1>2, <2>7, Paid, Harmful
    <3>2. docs'[a] = docs[a] + 0
      BY <1>1, <1>2
    <3>3. 0 + 1 + Load(a)' + Mail(a)' + Erp(a)' + Price <= Load(a) + Mail(a) + Erp(a) + Price'
      BY <1>1, <2>5, <3>1, Units
    <3>4. QED
      BY <1>1, <2>7, <3>2, <3>3, Balance
  <2>8. QED
    BY <2>3, <2>6, <2>7
<1>5. QED
  BY <1>3, <1>4

\* The call to 1C, from either worker: the document was owed, and once the
\* worker was told of it no further one is; only a lost answer leaves both.
LEMMA CreateSettles ==
  ASSUME Counted, Apart, Apart', CountInv, NEW w \in Workers, Create(w), NEW a \in Info, a = job[w].att
  PROVE  Settles(a)
<1>1. /\ ~At(w, "idle") /\ a \in Attempts /\ Shape(w) /\ Others(w) /\ Typed
      /\ docs[a] \in Nat /\ Msgs(a) \in Nat /\ docs \in [Attempts -> Nat]
      /\ faults \in Nat /\ decisions \in Nat /\ UNCHANGED decisions
      /\ Price \in Nat /\ Price' \in Nat /\ Price' >= Price
  BY Own DEF WorkerStep
<1>2. /\ UNCHANGED <<rows, queue>> /\ job'[w].att = a
      /\ job'[w].pc = IF At(w, "create") THEN "final" ELSE "rsave"
      /\ job[w].pc \in {"create", "rcreate"}
  BY CreateShape DEF Create, At
<1>3. PICK e \in ErpResults, n \in {0, 1} :
        CallErp(w, e, n) /\ job'[w].out.erp = e /\ docs' = [docs EXCEPT ![a] = @ + n]
  BY CreateShape
<1>4. /\ Msgs(a)' = Msgs(a) + 0 /\ RetryQueued(a)' = RetryQueued(a) /\ IsFinal(a)' = IsFinal(a)
      /\ docs'[a] = docs[a] + n
  BY <1>1, <1>2, <1>3, SameMessages DEF IsFinal
<1>5. \/ e \in {"ok", "attach"}
      \/ e = "fail" /\ (n = 0 \/ Price' >= Price + 1)
  BY <1>1, <1>3, Paid, Harmful DEF CallErp
<1>6. CASE w \notin ErpWorkers
  <2>1. job[w].pc = "create"
    BY <1>1, <1>2, <1>6 DEF Shape, MailShape
  <2>2. /\ Runs(w, a) /\ ~Told(w, a) /\ ~Loads(w, a) /\ Runs(w, a)' /\ ~Loads(w, a)'
        /\ ~Fails(w, a)' /\ (Told(w, a)' <=> e \in {"ok", "attach"})
    BY <1>2, <1>3, <2>1 DEF Runs, Told, Loads, Fails, At
  <2>3. Owed(a)' => Owed(a)
    BY <1>1, <1>2, <1>4, <1>6, <2>2, MailWorkerOwes, OwedStays DEF Retrying
  <2>4. n + 0 + Load(a)' + Mail(a)' + Erp(a)' + Price <= Load(a) + Mail(a) + Erp(a) + Price'
    BY <1>1, <1>5, <1>6, <2>2, <2>3, MailParts, Units
  <2>5. QED
    BY <1>1, <1>4, <2>4, Balance
<1>7. CASE w \in ErpWorkers
  <2>1. /\ Registers(w, a) /\ ~Registers(w, a)' /\ (Told(w, a)' <=> e \in {"ok", "attach"})
    BY <1>2, <1>3 DEF Registers, Told
  <2>2. n + 0 + Load(a)' + Mail(a)' + Erp(a)' + Price <= Load(a) + Mail(a) + Erp(a) + Price'
    BY <1>1, <1>4, <1>5, <1>7, <2>1, ErpParts, Units
  <2>3. QED
    BY <1>1, <1>4, <2>2, Balance
<1>8. QED
  BY <1>6, <1>7


\* node_finalize: what the worker was told goes into the row, and what it was
\* not told of becomes the retry's.
LEMMA FinalizeSettles ==
  ASSUME Counted, Apart, Apart', CountInv, NEW w \in Workers, Finalize(w), NEW a \in Info, a = job[w].att
  PROVE  Settles(a)
<1> DEFINE o == job[w].out
           r == FinalRow(RowOf(w), o)
<1>1. /\ ~At(w, "idle") /\ a \in Attempts /\ Shape(w) /\ Others(w) /\ Typed
      /\ docs[a] \in Nat /\ Msgs(a) \in Nat /\ RowOf(w) = rows[a] /\ RowOf(w) \in Row
      /\ SetRow(w, r) => rows'[a] = r
      /\ faults \in Nat /\ decisions \in Nat /\ UNCHANGED decisions
      /\ Price \in Nat /\ Price' \in Nat /\ Price' >= Price
  BY Own DEF WorkerStep
<1>2. /\ UNCHANGED <<docs, queue>> /\ job[w].pc = "final" /\ o \in Outcome
      /\ job'[w].pc \in {"hsync", "post"} /\ job'[w].att = a /\ FinalStatus(o) \in Terminal
  BY <1>1, FinalizeShape, Busy DEF Finalize, At
<1>3. Msgs(a)' = Msgs(a) /\ RetryQueued(a)' = RetryQueued(a)
  BY <1>1, <1>2, SameMessages
<1>4. o.erp # "skip"
  BY <1>1 DEF CountInv, IInv, AnswersAreBacked
<1>5. \/ /\ rows'[a].st \in Terminal
         /\ rows'[a].doc = (o.erp \in {"ok", "attach"} \/ rows[a].doc)
      \/ rows' = rows /\ Fault("db")
  <2>1. r.st \in Terminal /\ r.doc = (o.erp \in {"ok", "attach"} \/ (RowOf(w).doc /\ o.erp # "skip"))
    BY <1>1, <1>2, KnownOutcomes
  <2>2. SetRow(w, r) \/ (rows' = rows /\ Fault("db"))
    BY DEF Finalize
  <2> HIDE DEF r
  <2>3. QED
    BY <1>1, <1>4, <2>1, <2>2
<1>6. Fault("db") => /\ Price' >= Price + 1
                     /\ Decisions # {} => Price' >= Price + 2
  BY <1>1, Paid, Harmful
<1>7. CASE w \notin ErpWorkers
  <2>1. /\ Runs(w, a) /\ ~Loads(w, a) /\ ~Runs(w, a)' /\ ~Loads(w, a)'
        /\ (Told(w, a) <=> o.erp \in {"ok", "attach"})
    BY <1>2 DEF Runs, Told, Loads
  <2>2. Load(a)' + Mail(a)' + Erp(a)' + Price <= Load(a) + Mail(a) + Erp(a) + Price'
    <3>1. CASE rows'[a].st \in Terminal /\ rows'[a].doc = (o.erp \in {"ok", "attach"} \/ rows[a].doc)
      <4>1. Told(w, a) => ~Owed(a)'
        BY <2>1, <3>1 DEF Owed
      <4>2. IsFinal(a)'
        BY <3>1 DEF IsFinal
      <4>3. QED
        BY <1>1, <1>7, <2>1, <4>1, <4>2, MailParts, Units
    <3>2. CASE rows' = rows /\ Fault("db")
      <4>1. Decisions = {} => (Owed(a)' => Owed(a))
        BY <3>2 DEF Owed
      <4>2. QED
        BY <1>1, <1>6, <1>7, <2>1, <3>2, <4>1, MailParts, Units
    <3>3. QED
      BY <1>5, <3>1, <3>2
  <2>3. QED
    BY <1>1, <1>2, <1>3, <2>2, QuietBalance
<1>8. CASE w \in ErpWorkers
  <2>1. /\ ~Registers(w, a) /\ ~Registers(w, a)' /\ ~Told(w, a)'
        /\ (Told(w, a) <=> o.erp \in {"ok", "attach"})
    BY <1>2 DEF Registers, Told
  <2>2. Decisions # {} /\ Retrying(a)
    <3>1. Decisions # {} /\ Retries(w, a)
      BY <1>1, <1>2, <1>8 DEF Shape, ErpShape, Retries
    <3>2. QED
      BY <1>8, <3>1, ErpView DEF Retrying
  <2>3. Load(a)' + Mail(a)' + Erp(a)' + Price <= Load(a) + Mail(a) + Erp(a) + Price'
    <3>1. CASE rows'[a].st \in Terminal /\ rows'[a].doc = (o.erp \in {"ok", "attach"} \/ rows[a].doc)
      <4>1. Owed(a)' => Owed(a) /\ ~Told(w, a)
        BY <2>1, <2>2, <3>1 DEF Owed
      <4>2. IsFinal(a)'
        BY <3>1 DEF IsFinal
      <4>3. QED
        BY <1>1, <1>8, <2>1, <4>1, <4>2, ErpParts, Units
    <3>2. CASE rows' = rows /\ Fault("db")
      <4>1. IsFinal(a)' = IsFinal(a)
        BY <3>2 DEF IsFinal
      <4>2. QED
        BY <1>1, <1>6, <1>8, <3>2, <4>1, ErpParts, Units
    <3>3. QED
      BY <1>5, <3>1, <3>2
  <2>4. QED
    BY <1>1, <1>2, <1>3, <2>3, QuietBalance
<1>9. QED
  BY <1>7, <1>8

\* The end of a task: only a failed registration puts a retry on the queue.
LEMMA PostSettles ==
  ASSUME Counted, CountInv, NEW w \in Workers, Post(w), NEW a, a = job[w].att
  PROVE  Settles(a)
<1>1. /\ ~At(w, "idle") /\ a \in Attempts /\ Shape(w) /\ Others(w) /\ Typed
      /\ docs[a] \in Nat /\ Msgs(a) \in Nat
      /\ Price \in Nat /\ Price' \in Nat /\ Price' >= Price
  BY Own DEF WorkerStep
<1>2. UNCHANGED <<docs, rows>> /\ job[w].pc = "post" /\ job'[w].pc \in {"idle", "check"} /\ Shape(w)'
  BY PostShape DEF Post, At, ShapeKept
<1>3. UNCHANGED queue \/ (Send(RetryTask(a, FALSE)) /\ ErpFailed(w))
  BY DEF Post
<1>4. Msgs(a)' = Msgs(a) /\ (RetryQueued(a)' => RetryQueued(a) \/ ErpFailed(w))
  <2>1. RetryTask(a, FALSE) \in Task /\ RetryTask(a, FALSE).kind = "retry"
    BY <1>1, TaskConstructors DEF RetryTask
  <2>2. CASE UNCHANGED queue
    BY <1>1, <2>2, SameMessages
  <2>3. CASE Send(RetryTask(a, FALSE)) /\ ErpFailed(w)
    BY <1>1, <2>1, <2>3, SendMessages
  <2>4. QED
    BY <1>3, <2>2, <2>3
<1>5. IsFinal(a)' = IsFinal(a)
  BY <1>2 DEF IsFinal
<1>6. CASE w \notin ErpWorkers
  <2>1. /\ ~Runs(w, a) /\ ~Loads(w, a) /\ ~Runs(w, a)' /\ ~Loads(w, a)' /\ ~Fails(w, a)'
        /\ (ErpFailed(w) => Fails(w, a))
    BY <1>2 DEF Runs, Loads, Fails
  <2>2. RetryQueued(a)' => Retrying(a)
    BY <1>4, <1>6, <2>1 DEF Retrying, MailFails, Workers
  <2>3. Owed(a)' => Owed(a)
    BY <1>1, <1>2, <1>6, <2>1, <2>2, MailWorkerOwes, OwedStays
  <2>4. Load(a)' + Mail(a)' + Erp(a)' + Price <= Load(a) + Mail(a) + Erp(a) + Price'
    BY <1>1, <1>5, <1>6, <2>1, <2>3, MailIdles, Units
  <2>5. QED
    BY <1>1, <1>2, <1>4, <2>4, QuietBalance
<1>7. CASE w \in ErpWorkers
  <2>1. ~Registers(w, a) /\ ~Told(w, a) /\ ~Registers(w, a)' /\ ~Told(w, a)'
    BY <1>2 DEF Registers, Told
  <2>2. Retrying(a)
    <3>1. Retries(w, a)
      BY <1>1, <1>2, <1>7 DEF Shape, ErpShape, Retries
    <3>2. QED
      BY <1>7, <3>1, ErpView DEF Retrying
  <2>3. Owed(a)' => Owed(a)
    BY <1>2, <2>2, OwedStays
  <2>4. Load(a)' + Mail(a)' + Erp(a)' + Price <= Load(a) + Mail(a) + Erp(a) + Price'
    BY <1>1, <1>5, <1>7, <2>1, <2>3, ErpParts, Units
  <2>5. QED
    BY <1>1, <1>2, <1>4, <2>4, QuietBalance
<1>8. QED
  BY <1>6, <1>7


\* A message that resumed the letter becomes the run it resumed.
LEMMA LoadSettles ==
  ASSUME Counted, Apart, Apart', CountInv, NEW w \in Workers, LoadReprocess(w) \/ LoadContinue(w),
         NEW a, a = job[w].att
  PROVE  Settles(a)
<1> DEFINE g == [RowOf(w) EXCEPT !.st = "processing", !.rev = FALSE]
<1>1. /\ ~At(w, "idle") /\ a \in Attempts /\ Shape(w) /\ Others(w) /\ Typed
      /\ docs[a] \in Nat /\ Msgs(a) \in Nat /\ RowOf(w) = rows[a] /\ RowOf(w) \in Row
      /\ \A r : SetRow(w, r) => rows'[a] = r
      /\ Price \in Nat /\ Price' \in Nat /\ Price' >= Price
  BY Own DEF WorkerStep
<1>2. /\ UNCHANGED <<docs, queue>> /\ job[w].pc = "load" /\ w \notin ErpWorkers
      /\ job'[w].pc \in {"idle", "start", "graph"}
  BY LoadReprocessShape, LoadContinueShape DEF LoadReprocess, LoadContinue, At
<1>3. Msgs(a)' = Msgs(a) /\ RetryQueued(a)' = RetryQueued(a)
  BY <1>1, <1>2, SameMessages
<1>4. rows'[a].doc = rows[a].doc /\ rows'[a].known = rows[a].known
  <2>1. g.doc = RowOf(w).doc /\ g.known = RowOf(w).known
    BY <1>1 DEF Row
  <2>2. /\ RestoredRow(RowOf(w)).doc = RowOf(w).doc /\ RestoredRow(RowOf(w)).known = RowOf(w).known
        /\ FailedRow(RowOf(w), FALSE).doc = RowOf(w).doc
        /\ FailedRow(RowOf(w), FALSE).known = RowOf(w).known
    BY <1>1, RowWrites, KnownWrites
  <2>3. \/ rows' = rows \/ rows'[a] = RestoredRow(RowOf(w))
        \/ rows'[a] = FailedRow(RowOf(w), FALSE) \/ rows'[a] = g
    BY <1>1, LoadReprocessShape, LoadContinueShape
  <2> HIDE DEF g
  <2>4. QED
    BY <1>1, <2>1, <2>2, <2>3
<1>5. ~Runs(w, a) /\ Loads(w, a) /\ ~Loads(w, a)' /\ ~Fails(w, a)'
  BY <1>2 DEF Runs, Loads, Fails
<1>6. Owed(a)' => Owed(a)
  BY <1>1, <1>2, <1>3, <1>4, <1>5, MailWorkerOwes, OwedStays DEF Retrying
<1>7. Load(a)' + Mail(a)' + Erp(a)' + Price <= Load(a) + Mail(a) + Erp(a) + Price'
  BY <1>1, <1>2, <1>5, <1>6, MailParts, Units
<1>8. QED
  BY <1>1, <1>2, <1>3, <1>7, QuietBalance

\* _sync_post_hitl_result: a failed registration is owed, before and after.
LEMMA HumanSyncSettles ==
  ASSUME Counted, CountInv, NEW w \in Workers, HumanSync(w), NEW a \in Info, a = job[w].att
  PROVE  Settles(a)
<1> DEFINE o == job[w].out
<1>1. /\ ~At(w, "idle") /\ a \in Attempts /\ Others(w) /\ Typed
      /\ docs[a] \in Nat /\ Msgs(a) \in Nat /\ RowOf(w) = rows[a] /\ RowOf(w) \in Row
      /\ \A r : SetRow(w, r) => rows'[a] = r
      /\ Price \in Nat /\ Price' \in Nat /\ Price' >= Price
  BY Own DEF WorkerStep
<1>2. /\ UNCHANGED <<docs, queue>> /\ job[w].pc = "hsync" /\ w \notin ErpWorkers
      /\ FinalStatus(o) \in Terminal /\ o \in Outcome /\ Decisions # {}
      /\ job'[w].pc \in {"post", "idle"}
  BY <1>1, HumanSyncShape, Busy DEF HumanSync, At
<1>3. Msgs(a)' = Msgs(a) /\ RetryQueued(a)' = RetryQueued(a)
  BY <1>1, <1>2, SameMessages
<1>4. o.erp \in {"ok", "fail", "attach"}
  BY <1>1, <1>2, HumanSyncShape DEF CountInv, IInv, AnswersAreBacked, Outcome, ErpResults
<1>5. /\ ~Runs(w, a) /\ ~Loads(w, a) /\ ~Runs(w, a)' /\ ~Loads(w, a)'
      /\ (Fails(w, a) <=> o.erp \in {"fail", "attach"})
  BY <1>2 DEF Runs, Loads, Fails, ErpFailed
<1>6. CASE /\ SetRow(w, SyncedRow(RowOf(w), o))
           /\ job'[w].pc = "post" /\ job'[w].att = a /\ job'[w].out = o
  <2>1. rows'[a].st \in Terminal /\ rows'[a].doc = (o.erp = "ok" \/ (rows[a].doc /\ o.erp # "skip"))
    BY <1>1, <1>2, <1>6, KnownOutcomes
  <2>2. Owed(a)' => Owed(a)
    <3>1. o.erp \in {"fail", "attach"} => Retrying(a)
      BY <1>2, <1>5 DEF Retrying, MailFails, Workers
    <3>2. QED
      BY <1>2, <1>4, <2>1, <3>1 DEF Owed
  <2>3. IsFinal(a)'
    BY <2>1 DEF IsFinal
  <2>4. Load(a)' + Mail(a)' + Erp(a)' + Price <= Load(a) + Mail(a) + Erp(a) + Price'
    BY <1>1, <1>2, <1>5, <2>2, <2>3, MailIdles, Units
  <2>5. QED
    BY <1>1, <1>2, <1>3, <2>4, QuietBalance
<1>7. CASE UNCHANGED rows /\ job'[w].pc = "idle"
  <2>1. ~Fails(w, a)' /\ IsFinal(a)' = IsFinal(a)
    BY <1>7 DEF Fails, IsFinal
  <2>2. Owed(a)' => Owed(a)
    BY <1>1, <1>2, <1>3, <1>7, <2>1, MailWorkerOwes, OwedStays DEF Retrying
  <2>3. Load(a)' + Mail(a)' + Erp(a)' + Price <= Load(a) + Mail(a) + Erp(a) + Price'
    BY <1>1, <1>2, <1>5, <2>1, <2>2, MailIdles, Units
  <2>4. QED
    BY <1>1, <1>2, <1>3, <2>3, QuietBalance
<1>8. QED
  BY <1>6, <1>7, HumanSyncShape

-----------------------------------------------------------------------------
(* ... and each step of the erp worker *)

\* retry_erp_task registers only what it owes, and only without a document.
LEMMA LoadRetrySettles ==
  ASSUME Counted, CountInv, NEW w \in Workers, LoadRetry(w), NEW a \in Info, a = job[w].att
  PROVE  Settles(a)
<1>1. /\ ~At(w, "idle") /\ a \in Attempts /\ Shape(w) /\ Others(w) /\ Typed
      /\ docs[a] \in Nat /\ Msgs(a) \in Nat /\ RowOf(w) = rows[a] /\ RowOf(w) \in Row
      /\ \A r : SetRow(w, r) => rows'[a] = r
      /\ Price \in Nat /\ Price' \in Nat /\ Price' >= Price /\ RowShape(RowOf(w))
  BY Own DEF WorkerStep
<1>2. /\ UNCHANGED <<docs, queue>> /\ job[w].pc = "load" /\ w \in ErpWorkers
      /\ job[w].task.kind = "retry"
      /\ job'[w].pc \in {"idle", "patch", "rcreate", "graph"}
      /\ job'[w].pc = "rcreate" => RowOf(w).known = "full" /\ ~RowOf(w).doc
      /\ job'[w].pc = "graph" => RowOf(w).known = "dept"
  BY LoadRetryShape DEF LoadRetry, At
<1>3. Msgs(a)' = Msgs(a) /\ RetryQueued(a)' = RetryQueued(a)
  BY <1>1, <1>2, SameMessages
<1>4. /\ rows'[a].doc = rows[a].doc /\ rows'[a].known = rows[a].known
      /\ IsFinal(a) => IsFinal(a)'
  <2>1. rows' = rows \/ \E r : /\ SetRow(w, r) /\ r.known = RowOf(w).known /\ r.doc = RowOf(w).doc
                               /\ RowOf(w).st \in Terminal => r.st \in Terminal
    BY LoadRetryShape
  <2>2. QED
    BY <1>1, <2>1 DEF IsFinal
<1>5. ~Registers(w, a) /\ ~Told(w, a) /\ ~Told(w, a)'
  BY <1>2 DEF Registers, Told
<1>6. Retrying(a)
  <2>1. Retries(w, a)
    BY <1>2 DEF Retries
  <2>2. QED
    BY <1>2, <2>1, ErpView DEF Retrying
<1>7. Owed(a)' => Owed(a)
  BY <1>4, <1>6, OwedStays
<1>8. Registers(w, a)' => Owed(a)
  <2>1. Registers(w, a)' => job'[w].pc \in {"rcreate", "graph"}
    BY <1>2 DEF Registers
  <2>2. job'[w].pc = "rcreate" => Owed(a)
    BY <1>1, <1>2 DEF Owed
  <2>3. job'[w].pc = "graph" => Owed(a)
    BY <1>1, <1>2, <1>6 DEF Owed, RowShape
  <2>4. QED
    BY <2>1, <2>2, <2>3
<1>9. Load(a)' + Mail(a)' + Erp(a)' + Price <= Load(a) + Mail(a) + Erp(a) + Price'
  BY <1>1, <1>2, <1>4, <1>5, <1>7, <1>8, ErpParts, Units
<1>10. QED
  BY <1>1, <1>2, <1>3, <1>9, QuietBalance

\* sync_erp_correction_task, and the end of either document synchronisation.
LEMMA SyncSettles ==
  ASSUME Counted, CountInv, NEW w \in Workers, LoadSync(w) \/ SyncSave(w), NEW a, a = job[w].att
  PROVE  Settles(a)
<1>1. /\ ~At(w, "idle") /\ a \in Attempts /\ Shape(w) /\ Others(w) /\ Typed
      /\ docs[a] \in Nat /\ Msgs(a) \in Nat /\ RowOf(w) = rows[a]
      /\ \A r : SetRow(w, r) => rows'[a] = r
      /\ Price \in Nat /\ Price' \in Nat /\ Price' >= Price
  BY Own DEF WorkerStep
<1>2. /\ UNCHANGED <<docs, queue>> /\ w \in ErpWorkers /\ job[w].pc \in {"load", "patch"}
      /\ job'[w].pc \in {"idle", "patch"}
      /\ job'[w].pc = "patch" => job[w].task.kind = "sync" /\ LoadSync(w)
  BY LoadSyncShape, SyncSaveShape DEF LoadSync, SyncSave, At
<1>3. Msgs(a)' = Msgs(a) /\ RetryQueued(a)' = RetryQueued(a)
  BY <1>1, <1>2, SameMessages
<1>4. /\ rows'[a].doc = rows[a].doc /\ rows'[a].known = rows[a].known
      /\ rows'[a].st = rows[a].st
  <2>1. rows' = rows \/ \E r : /\ SetRow(w, r) /\ r.known = RowOf(w).known /\ r.doc = RowOf(w).doc
                               /\ r.st = RowOf(w).st
    BY LoadSyncShape, SyncSaveShape
  <2>2. QED
    BY <1>1, <2>1
<1>5. /\ ~Registers(w, a) /\ ~Told(w, a) /\ ~Registers(w, a)' /\ ~Told(w, a)'
  BY <1>2 DEF Registers, Told
<1>6. Retries(w, a)' => Retrying(a)
  <2>1. job'[w].pc = "patch" => job'[w].task = job[w].task
    BY <1>1, <1>2, GotoFields, ReturnFields DEF LoadSync
  <2>2. QED
    BY <1>2, <2>1 DEF Retries
<1>7. Owed(a)' => Owed(a)
  BY <1>1, <1>2, <1>3, <1>4, <1>6, ErpWorkerOwes, OwedStays DEF Retrying
<1>8. Load(a)' + Mail(a)' + Erp(a)' + Price <= Load(a) + Mail(a) + Erp(a) + Price'
  BY <1>1, <1>2, <1>4, <1>5, <1>7, ErpParts, Units DEF IsFinal
<1>9. QED
  BY <1>1, <1>2, <1>3, <1>8, QuietBalance


\* The end of retry_erp_task: the document it was told of is in the row, or it
\* is still owed.
LEMMA RetrySaveSettles ==
  ASSUME Counted, CountInv, NEW w \in Workers, RetrySave(w), NEW a, a = job[w].att
  PROVE  Settles(a)
<1>1. /\ ~At(w, "idle") /\ a \in Attempts /\ Others(w) /\ Typed
      /\ docs[a] \in Nat /\ Msgs(a) \in Nat /\ RowOf(w) = rows[a] /\ RowOf(w) \in Row
      /\ \A r : SetRow(w, r) => rows'[a] = r
      /\ faults \in Nat /\ decisions \in Nat /\ UNCHANGED decisions
      /\ Price \in Nat /\ Price' \in Nat /\ Price' >= Price
  BY Own DEF WorkerStep
<1>2. /\ UNCHANGED docs /\ w \in ErpWorkers /\ job[w].pc = "rsave" /\ job'[w].pc = "idle"
      /\ RowOf(w).known = "full"
  BY RetrySaveShape DEF RetrySave, At
<1>3. Msgs(a)' = Msgs(a)
  <2>1. UNCHANGED queue \/ Send(RetryTask(a, FALSE))
    BY DEF RetrySave, RetryFailed, SendOrLose
  <2>2. RetryTask(a, FALSE) \in Task /\ RetryTask(a, FALSE).kind = "retry"
    BY <1>1, TaskConstructors DEF RetryTask
  <2>3. QED
    BY <1>1, <2>1, <2>2, SameMessages, SendMessages
<1>4. /\ ~Registers(w, a) /\ ~Registers(w, a)' /\ ~Told(w, a)'
      /\ (Told(w, a) <=> job[w].out.erp \in {"ok", "attach"})
  BY <1>2 DEF Registers, Told
<1>5. CASE /\ job[w].out.erp \in {"ok", "attach"}
           /\ \E r : /\ SetRow(w, r) /\ r.doc
                     /\ RowOf(w).st \in Terminal => r.st \in Terminal
  <2>1. rows'[a].doc /\ (IsFinal(a) => IsFinal(a)')
    BY <1>1, <1>5 DEF IsFinal
  <2>2. ~Owed(a)'
    BY <2>1 DEF Owed
  <2>3. Load(a)' + Mail(a)' + Erp(a)' + Price <= Load(a) + Mail(a) + Erp(a) + Price'
    BY <1>1, <1>2, <1>4, <2>1, <2>2, ErpParts, Units
  <2>4. QED
    BY <1>1, <1>2, <1>3, <2>3, QuietBalance
<1>6. CASE /\ rows' = rows \/ SetRow(w, Exhausted(RowOf(w)))
           /\ job[w].out.erp = "fail" \/ (CanFail("db") /\ RetryFailed(w, Fault("db")))
  <2>1. rows'[a].doc = rows[a].doc /\ rows[a].known = "full" /\ (IsFinal(a) => IsFinal(a)')
    <3>1. Exhausted(RowOf(w)).doc = RowOf(w).doc /\ Exhausted(RowOf(w)).st \in Terminal
      BY <1>1 DEF Exhausted, Row, Terminal
    <3>2. rows' = rows \/ rows'[a] = Exhausted(RowOf(w))
      BY <1>1, <1>6
    <3>3. QED
      BY <1>1, <1>2, <3>1, <3>2 DEF IsFinal
  <2>2. Owed(a)' => Owed(a)
    BY <2>1 DEF Owed
  <2>3. Told(w, a) => Price' >= Price + 1
    BY <1>1, <1>4, <1>6, SaveFaultPays
  <2>4. Load(a)' + Mail(a)' + Erp(a)' + Price <= Load(a) + Mail(a) + Erp(a) + Price'
    BY <1>1, <1>2, <1>4, <2>1, <2>2, <2>3, ErpParts, Units
  <2>5. QED
    BY <1>1, <1>2, <1>3, <2>4, QuietBalance
<1>7. QED
  BY <1>5, <1>6, RetrySaveShape

-----------------------------------------------------------------------------
(* Lost workers *)

\* A worker lost between registering and saving: the fault pays for what its message repeats.
LEMMA LossSettles ==
  ASSUME Counted, Apart, Apart', CountInv, NEW w \in Workers, Crash(w) \/ Kill(w), NEW a, a = job[w].att
  PROVE  Settles(a)
<1>1. /\ ~At(w, "idle") /\ a \in Attempts /\ Shape(w) /\ Others(w) /\ Typed
      /\ docs[a] \in Nat /\ Msgs(a) \in Nat
      /\ faults \in Nat /\ decisions \in Nat /\ UNCHANGED decisions
      /\ Price \in Nat /\ Price' \in Nat
  BY Own
<1>2. /\ UNCHANGED <<rows, docs>> /\ job'[w].pc = "idle" /\ job[w].task \in Task
      /\ Fault("crash") \/ Fault("kill")
      /\ UNCHANGED queue \/ Send(job[w].task)
  BY <1>1, LossShape, Busy DEF Crash, Kill
<1>3. Price' >= Price + 1 /\ (Decisions # {} => Price' >= Price + 2)
  BY <1>1, <1>2, Paid, Harmful
<1>4. /\ ~Runs(w, a)' /\ ~Loads(w, a)' /\ ~Fails(w, a)' /\ ~Registers(w, a)' /\ ~Told(w, a)'
      /\ ~Retries(w, a)'
  BY <1>2 DEF Runs, Loads, Fails, Registers, Told, Retries
<1>5. IsFinal(a)' = IsFinal(a)
  BY <1>2 DEF IsFinal
<1>6. CASE w \notin ErpWorkers
  <2>1. /\ job[w].task.kind \in {"process", "continue", "reprocess"}
        /\ job[w].task.kind # "process" => Decisions # {} /\ job[w].task.att = a
    BY <1>1, <1>6 DEF Shape, MailShape, At
  <2>2. /\ RetryQueued(a)' => RetryQueued(a)
        /\ Msgs(a)' = Msgs(a) \/ (Msgs(a)' = Msgs(a) + 1 /\ Decisions # {})
    <3>1. UNCHANGED queue => Msgs(a)' = Msgs(a) /\ RetryQueued(a)' = RetryQueued(a)
      BY <1>1, SameMessages
    <3>2. ASSUME Send(job[w].task)
          PROVE  /\ RetryQueued(a)' => RetryQueued(a)
                 /\ Msgs(a)' = Msgs(a) \/ (Msgs(a)' = Msgs(a) + 1 /\ Decisions # {})
      BY <1>1, <1>2, <2>1, <3>2, SendMessages
    <3>3. QED
      BY <1>2, <3>1, <3>2
  <2>3. Owed(a)' => Owed(a)
    BY <1>1, <1>2, <1>4, <1>6, <2>2, MailWorkerOwes, OwedStays DEF Retrying
  <2>4. Load(a)' + Mail(a)' + Erp(a)' <= Load(a) + Mail(a) + Erp(a) + 1
    <3>1. CASE Runs(w, a) \/ Loads(w, a)
      BY <1>1, <1>4, <1>6, <2>3, <3>1, MailParts, Units
    <3>2. CASE ~Runs(w, a) /\ ~Loads(w, a)
      BY <1>1, <1>4, <1>5, <1>6, <2>3, <3>2, MailIdles, Units
    <3>3. QED
      BY <3>1, <3>2
  <2>5. CASE Msgs(a)' = Msgs(a)
    BY <1>1, <1>2, <1>3, <2>4, <2>5, Units, QuietBalance
  <2>6. CASE Msgs(a)' = Msgs(a) + 1 /\ Decisions # {}
    <3>1. docs'[a] = docs[a] + 0
      BY <1>1, <1>2
    <3>2. 0 + 1 + Load(a)' + Mail(a)' + Erp(a)' + Price <= Load(a) + Mail(a) + Erp(a) + Price'
      BY <1>1, <1>3, <2>4, <2>6, Units
    <3>3. QED
      BY <1>1, <2>6, <3>1, <3>2, Balance
  <2>7. QED
    BY <2>2, <2>5, <2>6
<1>7. CASE w \in ErpWorkers
  <2>1. job[w].task.kind \in {"retry", "sync"} /\ (job[w].task.kind = "retry" => Retries(w, a))
    BY <1>1, <1>7 DEF Shape, ErpShape, At, Retries
  <2>2. Msgs(a)' = Msgs(a) /\ (RetryQueued(a)' => RetryQueued(a) \/ job[w].task.kind = "retry")
    <3>1. UNCHANGED queue => Msgs(a)' = Msgs(a) /\ RetryQueued(a)' = RetryQueued(a)
      BY <1>1, SameMessages
    <3>2. ASSUME Send(job[w].task)
          PROVE  Msgs(a)' = Msgs(a) /\ (RetryQueued(a)' => RetryQueued(a) \/ job[w].task.kind = "retry")
      BY <1>1, <1>2, <2>1, <3>2, SendMessages
    <3>3. QED
      BY <1>2, <3>1, <3>2
  <2>3. RetryQueued(a)' => Retrying(a)
    BY <1>7, <2>1, <2>2, ErpView DEF Retrying
  <2>4. Owed(a)' => Owed(a)
    BY <1>1, <1>2, <1>4, <1>7, <2>3, ErpWorkerOwes, OwedStays
  <2>5. Load(a)' + Mail(a)' + Erp(a)' + Price <= Load(a) + Mail(a) + Erp(a) + Price'
    BY <1>1, <1>3, <1>5, <1>7, ErpParts, Units
  <2>6. QED
    BY <1>1, <1>2, <2>2, <2>5, QuietBalance
<1>8. QED
  BY <1>6, <1>7


-----------------------------------------------------------------------------
(* Taking a message, beat, and the operator *)

\* All letters: shapes, and what is owed.
AllKept == /\ JobsShaped' /\ RowsShaped' /\ QueueShaped'
           /\ \A a \in Attempts \cap Info : Settles(a)

\* Every step of a worker keeps the books of every letter.
LEMMA WorkerKept ==
  ASSUME Counted, Apart, Apart', CountInv, NEW w \in Workers, WorkerStep(w) \/ Crash(w) \/ Kill(w)
  PROVE  AllKept
<1>1. ShapeKept(w) /\ JobsShaped' /\ RowsShaped'
  BY WorkerShape, ShapesStay
<1>2. Frame(w) /\ Shape(w)'
  BY <1>1, WorkerFrame DEF ShapeKept
<1>3. ASSUME NEW a \in Attempts \cap Info
      PROVE  Settles(a)
  <2>1. CASE a # job[w].att
    BY <1>2, <2>1, OtherLetters DEF Settles
  <2>2. CASE a = job[w].att
    BY <2>2, CheckSettles, StartSettles, GraphSettles, GraphRaiseSettles, CreateSettles,
       FinalizeSettles, PostSettles, LoadSettles, HumanSyncSettles, LoadRetrySettles, SyncSettles,
       RetrySaveSettles, LossSettles DEF WorkerStep
  <2>3. QED
    BY <2>1, <2>2
<1>4. QED
  BY <1>1, <1>2, <1>3 DEF AllKept, Frame

\* The numbers the books add up.
LEMMA Numbers ==
  ASSUME CountInv, NEW a \in Attempts
  PROVE  /\ Typed /\ docs[a] \in Nat /\ Msgs(a) \in Nat /\ faults \in Nat /\ decisions \in Nat
         /\ rows \in [Attempts -> Row] /\ rows[a] \in Row /\ queue \in [Task -> Nat]
BY TypedParts, MsgsNat DEF CountInv, IInv

\* A worker takes a message: what resumed the letter is now in its hands.
LEMMA TakeKept ==
  ASSUME Counted, Apart, Apart', CountInv, NEW w \in Workers, Take(w)
  PROVE  AllKept
<1>1. PICK t \in Task :
        /\ t \in IF w \in ErpWorkers THEN ErpTask ELSE MailTask
        /\ queue[t] > 0
        /\ queue' = [queue EXCEPT ![t] = @ - 1]
        /\ job' = [job EXCEPT ![w] =
             IF t.kind = "process" THEN Recipient(t.mail, 1)
             ELSE [Idle EXCEPT !.pc = "load", !.task = t, !.att = t.att]]
  BY DEF Take, Task
<1>2. /\ queue \in [Task -> Nat] /\ UNCHANGED <<rows, docs, faults, decisions>>
      /\ job[w].pc = "idle" /\ Typed
  BY TypedParts DEF CountInv, IInv, Take, At
<1>3. More(t, -1) /\ \A u \in Task : queue'[u] > 0 => queue[u] > 0
  BY <1>1, <1>2 DEF More
<1>4. \/ /\ t.kind = "process" /\ job'[w].pc = "check" /\ job'[w].task.kind = "process"
      \/ /\ t.kind # "process" /\ job'[w].pc = "load" /\ job'[w].task = t /\ job'[w].att = t.att
  <2> DEFINE j == [Idle EXCEPT !.pc = "load", !.task = t, !.att = t.att]
             p == Recipient(t.mail, 1)
  <2>1. j.pc = "load" /\ j.task = t /\ j.att = t.att
    BY DEF Idle
  <2>2. p.pc = "check" /\ p.task.kind = "process"
    BY FreshJobs
  <2>3. job' = [job EXCEPT ![w] = IF t.kind = "process" THEN p ELSE j]
    BY <1>1
  <2> HIDE DEF j, p
  <2>4. job'[w] = IF t.kind = "process" THEN p ELSE j
    BY <1>2, <2>3, TypedParts DEF JobsTyped
  <2>5. QED
    BY <2>1, <2>2, <2>4
<1>5. Others(w)
  BY <1>1, <1>2, TypedParts DEF JobsTyped, Others
<1>6. /\ w \in ErpWorkers => t.kind \in {"retry", "sync"}
      /\ w \notin ErpWorkers => t.kind \in {"process", "continue", "reprocess"}
  BY <1>1 DEF ErpTask, MailTask
<1>7. t.kind \in {"continue", "reprocess"} => Decisions # {}
  BY <1>1 DEF CountInv, QueueShaped
<1>8. Shape(w)'
  <2>1. CASE w \in ErpWorkers
    BY <1>4, <1>6, <2>1 DEF Shape, ErpShape
  <2>2. CASE w \notin ErpWorkers
    BY <1>4, <1>6, <1>7, <2>2 DEF Shape, MailShape
  <2>3. QED
    BY <2>1, <2>2
<1>9. JobsShaped' /\ RowsShaped'
  BY <1>2, <1>5, <1>8, SameGrown, ShapesStay DEF ShapeKept
<1>10. QueueShaped'
  BY <1>3 DEF CountInv, QueueShaped
<1>11. ASSUME NEW a \in Attempts
       PROVE  Settles(a)
  <2>1. /\ docs[a] \in Nat /\ Msgs(a) \in Nat /\ Price \in Nat /\ Price' = Price
        /\ IsFinal(a)' = IsFinal(a) /\ docs'[a] = docs[a]
    BY <1>2, Numbers, PriceNat, PriceSame DEF IsFinal
  <2>2. RetryQueued(a)' => RetryQueued(a)
    BY <1>3, TaskConstructors DEF RetryQueued
  <2>3. /\ ~Runs(w, a) /\ ~Loads(w, a) /\ ~Registers(w, a) /\ ~Told(w, a)
        /\ ~Runs(w, a)' /\ ~Registers(w, a)' /\ ~Told(w, a)' /\ ~Fails(w, a)'
        /\ (Loads(w, a)' <=> t.kind # "process" /\ t.att = a)
        /\ (Retries(w, a)' => t.kind = "retry" /\ t.att = a)
    BY <1>2, <1>4 DEF Runs, Loads, Registers, Told, Fails, Retries
  <2>4. Msgs(a)' = IF t.kind \in {"continue", "reprocess"} /\ t.att = a THEN Msgs(a) - 1 ELSE Msgs(a)
    <3>1. CASE t.kind \in {"continue", "reprocess"}
      <4>1. Msgs(a)' = IF t.att = a THEN Msgs(a) + (-1) ELSE Msgs(a)
        BY <1>2, <1>3, <3>1, MsgsChange
      <4>2. QED
        BY <2>1, <3>1, <4>1
    <3>2. CASE t.kind \notin {"continue", "reprocess"}
      <4>1. \A u \in Task : u.kind \in {"continue", "reprocess"} => queue'[u] = queue[u]
        BY <1>3, <3>2 DEF More
      <4>2. QED
        BY <3>2, <4>1, MsgsSame
    <3>3. QED
      BY <3>1, <3>2
  <2>5. CASE w \notin ErpWorkers
    <3>1. Owed(a)' => Owed(a)
      BY <1>2, <1>5, <2>2, <2>3, <2>5, MailWorkerOwes, OwedStays DEF Retrying
    <3>2. Load(a)' + Mail(a)' + Erp(a)'
            <= Load(a) + Mail(a) + Erp(a)
               + IF t.kind \in {"continue", "reprocess"} /\ t.att = a THEN 1 ELSE 0
      <4>1. CASE Loads(w, a)'
        BY <1>5, <1>6, <2>1, <2>3, <2>5, <3>1, <4>1, MailParts, Units
      <4>2. CASE ~Loads(w, a)'
        BY <1>5, <2>1, <2>3, <2>5, <3>1, <4>2, MailIdles, Units
      <4>3. QED
        BY <4>1, <4>2
    <3>3. QED
      BY <2>1, <2>4, <3>2, Units DEF Settles, Cost
  <2>6. CASE w \in ErpWorkers
    <3>1. Retries(w, a)' => RetryQueued(a)
      <4>1. t.kind = "retry" => t = RetryTask(t.att, t.force) /\ t.force \in BOOLEAN
        BY <1>1, <2>6 DEF ErpTask, RetryTask
      <4>2. QED
        BY <1>1, <2>3, <4>1 DEF RetryQueued
    <3>2. Owed(a)' => Owed(a)
      BY <1>2, <1>5, <2>2, <2>6, <3>1, ErpWorkerOwes, OwedStays DEF Retrying
    <3>3. Load(a)' + Mail(a)' + Erp(a)' <= Load(a) + Mail(a) + Erp(a)
      BY <1>5, <2>1, <2>3, <2>6, <3>2, ErpParts, Units
    <3>4. Msgs(a)' = Msgs(a)
      BY <1>6, <2>4, <2>6
    <3>5. QED
      BY <2>1, <3>3, <3>4, Units DEF Settles, Cost
  <2>7. QED
    BY <2>5, <2>6
<1>12. QED
  BY <1>9, <1>10, <1>11 DEF AllKept


\* No worker takes a step.
LEMMA SameWorkersView ==
  ASSUME UNCHANGED job, NEW a
  PROVE  /\ (MailRuns(a)' <=> MailRuns(a)) /\ (MailTold(a)' <=> MailTold(a))
         /\ (MailLoads(a)' <=> MailLoads(a)) /\ (MailFails(a)' <=> MailFails(a))
         /\ (ErpRuns(a)' <=> ErpRuns(a)) /\ (ErpTold(a)' <=> ErpTold(a))
         /\ (ErpRetries(a)' <=> ErpRetries(a))
BY DEF MailRuns, MailTold, MailLoads, MailFails, ErpRuns, ErpTold, ErpRetries,
       Runs, Told, Loads, Fails, Registers, Retries, ErpFailed

\* A step outside the workers keeps their shapes.
LEMMA SameWorkersShape ==
  ASSUME CountInv, UNCHANGED job, Grown
  PROVE  JobsShaped' /\ RowsShaped'
<1>1. ASSUME NEW v \in Workers
      PROVE  Shape(v)'
  <2>1. Shape(v) /\ (job[v].pc # "idle" => job[v].att \in Attempts)
    BY DEF CountInv, JobsShaped, IInv, Typed, WellFormedJobs, At
  <2>2. job[v].pc # "idle" /\ rows[job[v].att].known = "full" => rows'[job[v].att].known = "full"
    BY <2>1 DEF Grown
  <2>3. QED
    BY <2>1, <2>2 DEF Shape, ErpShape, MailShape
<1>2. QED
  BY <1>1 DEF JobsShaped, RowsShaped, Grown

\* What writes nothing of a row but its lease and sends only polls.
LEMMA OutsideKept ==
  ASSUME Counted, CountInv, UNCHANGED <<job, docs, decisions>>,
         faults' \in Nat, faults' >= faults,
         \A a \in Attempts : /\ rows'[a].st = rows[a].st /\ rows'[a].doc = rows[a].doc
                             /\ rows'[a].known = rows[a].known,
         \A t \in Task : t.kind # "process" => queue'[t] = queue[t]
  PROVE  AllKept
<1>1. Grown
  BY DEF Grown, CountInv, RowsShaped, RowShape
<1>2. QueueShaped'
  BY DEF CountInv, QueueShaped
<1>3. ASSUME NEW a \in Attempts
      PROVE  Settles(a)
  <2>1. /\ docs[a] \in Nat /\ Msgs(a) \in Nat /\ Price \in Nat /\ Price' \in Nat /\ Price' >= Price
    BY Numbers, PriceGrows
  <2>2. Msgs(a)' = Msgs(a)
    BY MsgsSame
  <2>3. RetryQueued(a)' = RetryQueued(a)
    <3>1. \A f \in BOOLEAN : RetryTask(a, f) \in Task /\ RetryTask(a, f).kind = "retry"
      BY TaskConstructors DEF RetryTask
    <3>2. \A f \in BOOLEAN : queue'[RetryTask(a, f)] = queue[RetryTask(a, f)]
      BY <3>1
    <3>3. QED
      BY <3>2 DEF RetryQueued
  <2>4. Owed(a)' <=> Owed(a)
    BY <2>3, SameWorkersView DEF Owed, Retrying
  <2>5. Load(a)' = Load(a) /\ Mail(a)' = Mail(a) /\ Erp(a)' = Erp(a)
    BY <2>4, SameWorkersView DEF Load, Mail, Erp, IsFinal
  <2>6. QED
    BY <2>1, <2>2, <2>5, Units, QuietBalance
<1>4. QED
  BY <1>1, <1>2, <1>3, SameWorkersShape DEF AllKept

\* A polled letter owes nothing new: its row is not final yet.
LEMMA PollKept ==
  ASSUME Counted, CountInv, NEW m \in Mails, Poll(m)
  PROVE  AllKept
<1>1. ProcessTask(m).kind = "process" /\ Send(ProcessTask(m)) /\ UNCHANGED <<rows, docs, job, faults, decisions>>
  BY DEF Poll, ProcessTask
<1>2. \A t \in Task : t.kind # "process" => queue'[t] = queue[t]
  BY <1>1, TypedParts DEF Send, CountInv, IInv
<1>3. faults' \in Nat /\ faults' >= faults
  <2>1. faults \in Nat
    BY TypedParts DEF CountInv, IInv
  <2>2. QED
    BY <1>1, <2>1
<1>4. QED
  BY <1>1, <1>2, <1>3, OutsideKept

\* recover_stale_processing sends the letter itself again: nothing new is owed.
LEMMA RecoverKept ==
  ASSUME Counted, CountInv, Recover
  PROVE  AllKept
<1> DEFINE stale == {a \in Processing : ~rows[a].lease}
           leased(R) == [a \in Attempts |-> IF a \in R THEN [rows[a] EXCEPT !.lease = TRUE] ELSE rows[a]]
           published(sent) ==
             [t \in Task |-> queue[t] +
                IF t.kind = "process" THEN Cardinality({a \in sent : a[1] = t.mail}) ELSE 0]
<1>1. PICK R \in SUBSET stale : /\ UNCHANGED <<job, docs, decisions>> /\ rows' = leased(R)
                                /\ NoFault \/ Fault("broker")
                                /\ \E sent \in SUBSET R : queue' = published(sent)
  BY DEF Recover
<1>2. PICK sent \in SUBSET R : queue' = published(sent)
  BY <1>1
<1>3. rows \in [Attempts -> Row] /\ queue \in [Task -> Nat] /\ faults \in Nat
  BY TypedParts DEF CountInv, IInv
<1>4. \A a \in Attempts : /\ rows'[a].st = rows[a].st /\ rows'[a].doc = rows[a].doc
                          /\ rows'[a].known = rows[a].known
  BY <1>1, <1>3 DEF Row
<1>5. \A t \in Task : t.kind # "process" => queue'[t] = queue[t]
  BY <1>2, <1>3
<1>6. faults' \in Nat /\ faults' >= faults
  BY <1>1, <1>3, FaultGrows
<1>7. QED
  BY <1>1, <1>4, <1>5, <1>6, OutsideKept

\* An expired lease changes no book.
LEMMA LeaseExpireKept ==
  ASSUME Counted, CountInv, NEW a \in Attempts, LeaseExpire(a)
  PROVE  AllKept
<1>1. rows \in [Attempts -> Row] /\ faults \in Nat
  BY TypedParts DEF CountInv, IInv
<1>2. \A b \in Attempts : /\ rows'[b].st = rows[b].st /\ rows'[b].doc = rows[b].doc
                          /\ rows'[b].known = rows[b].known
  BY <1>1 DEF LeaseExpire, Row
<1>3. UNCHANGED <<job, docs, queue, faults, decisions>>
  BY DEF LeaseExpire
<1>4. faults' \in Nat /\ faults' >= faults
  BY <1>1, <1>3
<1>5. QED
  BY <1>2, <1>3, <1>4, OutsideKept


\* A decision about a letter: it may be run again once more, by a message and
\* by a status that is no longer final, or its registration may be retried.
Decided(a) ==
  /\ Decisions # {} /\ UNCHANGED <<job, docs>> /\ \E d : Decide(d)
  /\ \E r : /\ Saves(a, r) /\ r.doc = rows[a].doc
            /\ r.known = "full" <=> rows[a].known = "full"
            /\ \/ /\ UNCHANGED queue \/ \E t \in Task : /\ Send(t) /\ t.att = a
                                                        /\ t.kind \in {"continue", "reprocess"}
               \/ /\ rows[a].st \in Terminal => r.st \in Terminal
                  /\ UNCHANGED queue \/ \E t \in Task : /\ Send(t) /\ t.att = a
                                                        /\ t.kind \in {"retry", "sync"}
  /\ NoFault \/ \E k : Fault(k)

\* What the operator's endpoints have in common, as far as the books go.
LEMMA OperatorDecides ==
  ASSUME Typed, NEW a \in Attempts, Operator(a)
  PROVE  Decided(a)
<1> DEFINE spam     == [rows[a] EXCEPT !.st = "spam", !.rev = FALSE, !.xml = FALSE]
           notspam  == [rows[a] EXCEPT !.st = "processing", !.rev = FALSE, !.xml = FALSE]
           again    == [rows[a] EXCEPT !.st = "processing", !.rev = FALSE]
           retry    == [rows[a] EXCEPT !.retry = 0, !.rev = FALSE]
           approved == RoutedByOperator(rows[a], "processing")
           correct  == RoutedByOperator(rows[a], "done")
           verified == RoutedByOperator(rows[a], rows[a].st)
           restored == RestoredRow(rows[a])
<1>1. rows[a] \in Row /\ 0 \in 0..HumanTries /\ {"plain", "restored", "reanalyze"} \subseteq Modes
  BY TypedParts DEF HumanTries, Modes
<1>2. /\ spam.doc = rows[a].doc /\ spam.known = rows[a].known /\ spam.st \in Terminal
      /\ notspam.doc = rows[a].doc /\ notspam.known = rows[a].known
      /\ again.doc = rows[a].doc /\ again.known = rows[a].known
      /\ retry.doc = rows[a].doc /\ retry.known = rows[a].known /\ retry.st = rows[a].st
      /\ restored.doc = rows[a].doc /\ restored.known = rows[a].known
  BY <1>1 DEF Row, Terminal, RestoredRow
<1>3. /\ approved.doc = rows[a].doc /\ (approved.known = "full" <=> rows[a].known = "full")
      /\ correct.doc = rows[a].doc /\ (correct.known = "full" <=> rows[a].known = "full")
      /\ correct.st \in Terminal
      /\ verified.doc = rows[a].doc /\ (verified.known = "full" <=> rows[a].known = "full")
      /\ verified.st = rows[a].st
  BY <1>1 DEF Row, Terminal, RoutedByOperator
<1>4. /\ ContinueTask(a, 0) \in Task /\ ContinueTask(a, 0).att = a
      /\ ContinueTask(a, 0).kind = "continue"
      /\ \A d \in Modes : /\ ReprocessTask(a, d, 0) \in Task /\ ReprocessTask(a, d, 0).att = a
                          /\ ReprocessTask(a, d, 0).kind = "reprocess"
      /\ RetryTask(a, TRUE) \in Task /\ RetryTask(a, TRUE).att = a /\ RetryTask(a, TRUE).kind = "retry"
      /\ SyncTask(a) \in Task /\ SyncTask(a).att = a /\ SyncTask(a).kind = "sync"
  BY <1>1, TaskConstructors DEF ContinueTask, ReprocessTask, RetryTask, SyncTask
<1>5. \A d : Decide(d) => Decisions # {}
  BY DEF Decide
<1>6. CASE MarkSpam(a)
  <2>1. Decide("mark_spam") /\ Saves(a, spam) /\ UNCHANGED <<docs, queue, job, faults>>
    BY <1>6 DEF MarkSpam
  <2> HIDE DEF spam
  <2>2. QED
    BY <1>2, <1>5, <2>1 DEF Decided, NoFault
<1>7. CASE MarkNotSpam(a)
  <2>1. /\ Decide("mark_not_spam") /\ Saves(a, notspam) /\ UNCHANGED <<docs, job>>
        /\ SendOrLose(ReprocessTask(a, "plain", 0))
    BY <1>7 DEF MarkNotSpam
  <2> HIDE DEF notspam
  <2>2. QED
    BY <1>1, <1>2, <1>4, <1>5, <2>1 DEF Decided, SendOrLose
<1>8. CASE Approve(a)
  <2>1. /\ Decide("approve") /\ Saves(a, approved) /\ UNCHANGED <<docs, job>>
        /\ SendOrLose(ContinueTask(a, 0))
    BY <1>8 DEF Approve
  <2> HIDE DEF approved
  <2>2. QED
    BY <1>3, <1>4, <1>5, <2>1 DEF Decided, SendOrLose
<1>9. CASE Correct(a)
  <2>1. /\ Decide("correct") /\ Saves(a, correct) /\ UNCHANGED <<docs, job>>
        /\ SendOrLose(SyncTask(a)) \/ (UNCHANGED queue /\ NoFault)
    BY <1>9 DEF Correct, ScheduleSync
  <2> HIDE DEF correct
  <2>2. QED
    BY <1>3, <1>4, <1>5, <2>1 DEF Decided, SendOrLose
<1>10. CASE MarkVerified(a)
  <2>1. /\ Decide("verify") /\ Saves(a, verified) /\ UNCHANGED <<docs, job>>
        /\ SendOrLose(SyncTask(a)) \/ (UNCHANGED queue /\ NoFault)
    BY <1>10 DEF MarkVerified, ScheduleSync
  <2> HIDE DEF verified
  <2>2. QED
    BY <1>3, <1>4, <1>5, <2>1 DEF Decided, SendOrLose
<1>11. CASE Reanalyze(a)
  <2>1. /\ Decide("reanalyze") /\ Saves(a, again) /\ UNCHANGED <<docs, job>>
        /\ SendOrLose(ReprocessTask(a, "reanalyze", 0))
    BY <1>11 DEF Reanalyze
  <2> HIDE DEF again
  <2>2. QED
    BY <1>1, <1>2, <1>4, <1>5, <2>1 DEF Decided, SendOrLose
<1>12. CASE RestoreFromSpam(a)
  <2>1. /\ Decide("restore") /\ Saves(a, restored) /\ UNCHANGED <<docs, job>>
        /\ SendOrLose(ReprocessTask(a, "restored", 0))
    BY <1>12 DEF RestoreFromSpam
  <2> HIDE DEF restored
  <2>2. QED
    BY <1>1, <1>2, <1>4, <1>5, <2>1 DEF Decided, SendOrLose
<1>13. CASE RetryErp(a)
  <2>1. /\ Decide("retry_erp") /\ Saves(a, retry) /\ UNCHANGED <<docs, job>>
        /\ SendOrLose(RetryTask(a, TRUE))
    BY <1>13 DEF RetryErp
  <2> HIDE DEF retry
  <2>2. QED
    BY <1>2, <1>4, <1>5, <2>1 DEF Decided, SendOrLose
<1>14. QED
  BY <1>6, <1>7, <1>8, <1>9, <1>10, <1>11, <1>12, <1>13 DEF Operator


\* A decision pays for the message it sends and for the row it opens again.
LEMMA DecidedKept ==
  ASSUME Counted, CountInv, NEW b \in Attempts, Decided(b)
  PROVE  AllKept
<1>1. PICK r : /\ Saves(b, r) /\ r.doc = rows[b].doc
               /\ r.known = "full" <=> rows[b].known = "full"
               /\ \/ /\ UNCHANGED queue \/ \E t \in Task : /\ Send(t) /\ t.att = b
                                                           /\ t.kind \in {"continue", "reprocess"}
                  \/ /\ rows[b].st \in Terminal => r.st \in Terminal
                     /\ UNCHANGED queue \/ \E t \in Task : /\ Send(t) /\ t.att = b
                                                           /\ t.kind \in {"retry", "sync"}
  BY DEF Decided
<1>2. /\ Decisions # {} /\ UNCHANGED <<job, docs>> /\ \E d : Decide(d)
      /\ faults \in Nat /\ decisions \in Nat /\ faults' \in Nat /\ faults' >= faults
      /\ rows \in [Attempts -> Row]
  BY TypedParts, FaultGrows DEF Decided, CountInv, IInv
<1>3. Price' \in Nat /\ Price \in Nat /\ Price' >= Price + 2
  BY <1>2, DecisionPays
<1>4. rows'[b] = r /\ \A a \in Attempts \ {b} : rows'[a] = rows[a]
  BY <1>1, <1>2 DEF Saves
<1>5. Grown
  BY <1>1, <1>2, <1>4 DEF Grown, CountInv, RowsShaped, RowShape
<1>6. UNCHANGED queue \/ \E t \in Task : Send(t) /\ t.att = b /\ t.kind \in {"continue", "reprocess", "retry", "sync"}
  BY <1>1
<1>7. QueueShaped'
  <2>1. UNCHANGED queue => QueueShaped'
    BY SameMessages
  <2>2. \A t \in Task : Send(t) => QueueShaped'
    BY <1>2, SendMessages
  <2>3. QED
    BY <1>6, <2>1, <2>2
<1>8. ASSUME NEW a \in Attempts
      PROVE  Settles(a)
  <2>1. docs[a] \in Nat /\ Msgs(a) \in Nat /\ docs'[a] = docs[a]
    BY <1>2, Numbers
  <2>2. /\ rows'[a].doc = rows[a].doc /\ (rows'[a].known = "full" <=> rows[a].known = "full")
    BY <1>1, <1>4
  <2>3. CASE /\ a = b => UNCHANGED queue \/ \E t \in Task : /\ Send(t) /\ t.att = b
                                                            /\ t.kind \in {"continue", "reprocess"}
             /\ a # b => (RetryQueued(a)' => RetryQueued(a))
    <3>1. Msgs(a)' \in {Msgs(a), Msgs(a) + 1} /\ (RetryQueued(a)' => RetryQueued(a))
          /\ (a # b => Msgs(a)' = Msgs(a))
      <4>1. UNCHANGED queue => Msgs(a)' = Msgs(a) /\ RetryQueued(a)' = RetryQueued(a)
        BY SameMessages
      <4>2. ASSUME NEW t \in Task, Send(t), t.att = b
            PROVE  /\ Msgs(a)' \in {Msgs(a), Msgs(a) + 1} /\ (a # b => Msgs(a)' = Msgs(a))
                   /\ t.kind \in {"continue", "reprocess"} => (RetryQueued(a)' => RetryQueued(a))
        BY <4>2, SendMessages
      <4>3. QED
        BY <1>6, <2>3, <4>1, <4>2
    <3>2. Owed(a)' => Owed(a)
      <4>1. Retrying(a)' => Retrying(a)
        BY <1>2, <3>1, SameWorkersView DEF Retrying
      <4>2. QED
        BY <2>2, <4>1, OwedStays
    <3>3. Load(a)' = Load(a) /\ Erp(a)' <= Erp(a)
      BY <1>2, <3>2, SameWorkersView DEF Load, Erp
    <3>4. QED
      BY <1>3, <2>1, <3>1, <3>3, Units DEF Settles, Cost
  <2>4. CASE a = b /\ (rows[b].st \in Terminal => r.st \in Terminal)
             /\ (UNCHANGED queue \/ \E t \in Task : Send(t) /\ t.kind \in {"retry", "sync"})
    <3>1. Msgs(a)' = Msgs(a)
      BY <2>4, SameMessages, SendMessages
    <3>2. IsFinal(a) => IsFinal(a)'
      BY <1>4, <2>4 DEF IsFinal
    <3>3. Load(a)' = Load(a) /\ Mail(a)' <= Mail(a)
      BY <1>2, <3>2, SameWorkersView DEF Load, Mail
    <3>4. Load(a)' + Mail(a)' + Erp(a)' + Price <= Load(a) + Mail(a) + Erp(a) + Price'
      BY <1>3, <3>3, Units
    <3>5. QED
      BY <1>3, <2>1, <3>1, <3>4, QuietBalance
  <2>5. a # b => (RetryQueued(a)' => RetryQueued(a))
    <3>1. UNCHANGED queue => RetryQueued(a)' = RetryQueued(a)
      BY SameMessages
    <3>2. ASSUME NEW t \in Task, Send(t), t.att = b, a # b
          PROVE  RetryQueued(a)' => RetryQueued(a)
      BY <3>2, SendMessages
    <3>3. QED
      BY <1>6, <3>1, <3>2
  <2>6. QED
    BY <1>1, <2>3, <2>4, <2>5
<1>9. QED
  BY <1>2, <1>5, <1>7, <1>8, SameWorkersShape DEF AllKept

-----------------------------------------------------------------------------
(* The theorems *)

\* No letter has a document at first, and each is owed one.
LEMMA CountInit == Init => CountInv
<1> SUFFICES ASSUME Init PROVE CountInv
  OBVIOUS
<1>1. JobsShaped
  <2>1. \A w \in Workers : job[w] = Idle
    BY DEF Init
  <2>2. QED
    BY <2>1, FreshJobs DEF JobsShaped, Shape, ErpShape, MailShape
<1>2. RowsShaped /\ QueueShaped
  BY DEF Init, NoRow, RowsShaped, RowShape, QueueShaped
<1>3. ASSUME NEW a \in Attempts
      PROVE  Cost(a) <= 1 + Price
  <2>1. \A w \in Workers : job[w].pc = "idle"
    BY FreshJobs DEF Init
  <2>2. ~MailLoads(a) /\ ~ErpRuns(a)
    BY <2>1 DEF MailLoads, ErpRuns, Loads, Registers, Workers
  <2>3. ~Owed(a)
    <3>1. ~RetryQueued(a)
      BY TaskConstructors DEF RetryQueued, Init
    <3>2. ~ErpRetries(a) /\ ~MailFails(a)
      BY <2>1 DEF ErpRetries, MailFails, Retries, Fails, Workers
    <3>3. rows[a].known = "none"
      BY DEF Init, NoRow
    <3>4. QED
      BY <3>1, <3>2, <3>3 DEF Owed, Retrying
  <2>4. Load(a) = 0 /\ Erp(a) = 0
    BY <2>2, <2>3 DEF Load, Erp
  <2>5. docs[a] = 0
    BY DEF Init
  <2>6. Msgs(a) = 0
    <3>1. ASSUME NEW n \in {0, 1, 2}
          PROVE  Waiting(a, n) = 0
      <4>1. /\ queue[ContinueTask(a, n)] = 0 /\ queue[ReprocessTask(a, "plain", n)] = 0
            /\ queue[ReprocessTask(a, "restored", n)] = 0
            /\ queue[ReprocessTask(a, "reanalyze", n)] = 0
        BY WaitingTasks DEF Init
      <4>2. QED
        BY <4>1 DEF Waiting
    <3>2. QED
      BY <3>1 DEF Msgs
  <2>7. Price \in Nat
    BY PriceNat DEF Init
  <2>8. QED
    BY <2>4, <2>5, <2>6, <2>7, Units DEF Cost
<1>4. QED
  BY <1>1, <1>2, <1>3, InvInit DEF CountInv, Bounded

\* Every step keeps the invariant.
LEMMA CountNext ==
  ASSUME Counted, Apart, Apart', CountInv, [Next]_vars
  PROVE  CountInv'
<1>1. IInv'
  BY InvNext DEF CountInv
<1>2. AllKept
  <2>1. CASE UNCHANGED vars
    <3>1. faults' \in Nat /\ faults' >= faults
      <4>1. faults \in Nat /\ faults' = faults
        BY <2>1, TypedParts DEF vars, CountInv, IInv
      <4>2. QED
        BY <4>1
    <3>2. QED
      BY <2>1, <3>1, OutsideKept DEF vars
  <2>2. CASE Next
    <3>1. \A a \in Attempts : Operator(a) => AllKept
      BY OperatorDecides, DecidedKept DEF CountInv, IInv
    <3>2. QED
      BY <2>2, <3>1, TakeKept, WorkerKept, PollKept, RecoverKept, LeaseExpireKept DEF Next
  <2>3. QED
    BY <2>1, <2>2
<1>3. Bounded'
  <2> SUFFICES ASSUME NEW a \in Attempts \cap Info
               PROVE  Cost(a)' <= 1 + Price'
    BY DEF Bounded
  <2>1. Cost(a) <= 1 + Price /\ Cost(a)' + Price <= Cost(a) + Price'
    BY <1>2 DEF AllKept, Settles, CountInv, Bounded
  <2>2. Cost(a) \in Int
    BY Numbers, Units DEF Cost
  <2>3. Cost(a)' \in Int
    <3>1. docs'[a] \in Nat /\ queue' \in [Task -> Nat]
      BY <1>1, TypedParts DEF IInv, Typed, TypeOK
    <3>2. Msgs(a)' \in Nat
      <4>1. \A n \in {0, 1, 2} : Waiting(a, n)' \in Nat
        BY <3>1, WaitingTasks DEF Waiting, Modes
      <4>2. QED
        BY <4>1 DEF Msgs
    <3>3. QED
      BY <3>1, <3>2, Units DEF Cost
  <2>4. Price \in Nat /\ Price' \in Nat
    <3>1. faults \in Nat /\ decisions \in Nat
      BY TypedParts DEF CountInv, IInv, Typed, TypeOK
    <3>2. faults' \in Nat /\ decisions' \in Nat
      BY <1>1, TypedParts DEF IInv, Typed, TypeOK
    <3>3. 2 * (faults' + decisions') \in Nat
      <4>1. \A f, d \in Nat : 2 * (f + d) \in Nat
        OBVIOUS
      <4>2. QED
        BY <3>2, <4>1
    <3>4. Price' \in Nat
      BY <3>2, <3>3 DEF Price
    <3>5. QED
      BY <3>1, <3>4, PriceNat
  <2>5. QED
    BY <2>1, <2>2, <2>3, <2>4
<1>4. QED
  BY <1>1, <1>2, <1>3 DEF CountInv, AllKept

\* The documents alone are within what was paid.
LEMMA CountBounds ==
  ASSUME CountInv
  PROVE  DuplicatesAreCounted
<1> SUFFICES ASSUME NEW a \in Attempts
             PROVE  docs[a] <= 1 + Price
  BY DEF DuplicatesAreCounted
<1>1. docs[a] \in Nat /\ Msgs(a) \in Nat /\ Price \in Nat
  BY Numbers, PriceNat
<1>2. CASE a \in Info
  <2>1. Cost(a) <= 1 + Price
    BY <1>2 DEF CountInv, Bounded
  <2>2. QED
    BY <1>1, <2>1, Units DEF Cost
<1>3. CASE a \notin Info
  <2>1. ~(docs[a] > 0)
    BY <1>3 DEF CountInv, IInv, OnlyEligibleRegistered
  <2>2. QED
    BY <1>1, <2>1
<1>4. QED
  BY <1>2, <1>3

\* As long as no two mail workers have one letter in their hands, every document
\* of a letter beyond the first is paid for: without an operator a lost answer, a
\* lost worker or a database error that process_email_task swallows costs at most
\* one; with an operator each fault and each decision at most two. The retries of
\* retry_erp_task, the recovery of stale rows, refused messages and failed
\* attachments cost nothing.
THEOREM RepeatsArePaid ==
  ASSUME Counted
  PROVE  Spec /\ []Apart => []DuplicatesAreCounted
<1>1. CountInv /\ Apart /\ Apart' /\ [Next]_vars => CountInv'
  BY Counted, CountNext
<1>2. CountInv => DuplicatesAreCounted
  BY CountBounds
<1>3. QED
  BY <1>1, <1>2, CountInit, PTL DEF Spec

\* No operator, and only faults that cannot hide a registration.
Serial ==
  /\ \A v, w \in ErpWorkers : v = w
  /\ MailWorkers \cap ErpWorkers = {}
  /\ Decisions = {}
  /\ Faults \cup Chronic \subseteq {"erp", "attach", "raise", "broker"}

\* Without an operator, however many letters come, 1C refuses, files are not
\* attached, the graph raises or messages are lost: as long as no two mail workers
\* have one letter in their hands, the test of _is_terminal_in_db and the test for
\* a document in retry_erp_task together keep it from being registered twice.
THEOREM RegisteredOnce ==
  ASSUME Serial
  PROVE  Spec /\ []Apart => []AtMostOneDocument
<1>1. Counted
  BY DEF Serial, Counted, Harmless
<1>2. CountInv /\ Apart /\ Apart' /\ [Next]_vars => CountInv'
  BY <1>1, CountNext
<1>3. CountInv => AtMostOneDocument
  <2>1. Price = 0
    BY DEF Serial, Price, Harmless
  <2>2. QED
    BY <2>1, CountBounds DEF DuplicatesAreCounted, AtMostOneDocument
<1>4. QED
  BY <1>2, <1>3, CountInit, PTL DEF Spec

\* One process on queue celery.
OneMailWorker == \A v, w \in MailWorkers : v = w

\* A single mail worker meets no other.
LEMMA OneIsApart ==
  ASSUME OneMailWorker
  PROVE  Apart
BY DEF OneMailWorker, Apart, Alone

\* With CELERY_WORKER_CONCURRENCY=1 both hold of every behaviour: the documents of
\* a letter are counted ...
THEOREM RepeatsArePaidByOne ==
  ASSUME Counted, OneMailWorker
  PROVE  Spec => []DuplicatesAreCounted
<1>1. Apart
  BY OneIsApart
<1>2. Spec /\ []Apart => []DuplicatesAreCounted
  BY RepeatsArePaid
<1>3. QED
  BY <1>1, <1>2, PTL

\* ... and there is only one where nothing is paid.
THEOREM RegisteredOnceByOne ==
  ASSUME Serial, OneMailWorker
  PROVE  Spec => []AtMostOneDocument
<1>1. Apart
  BY OneIsApart
<1>2. Spec /\ []Apart => []AtMostOneDocument
  BY RegisteredOnce
<1>3. QED
  BY <1>1, <1>2, PTL

=============================================================================
