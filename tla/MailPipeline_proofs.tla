------------------------- MODULE MailPipeline_proofs -------------------------
(***************************************************************************)
(* Proofs about MailPipeline for every number of letters, recipients,      *)
(* workers, faults and operator calls.                                     *)
(*                                                                         *)
(* The inductive invariant adds two facts to the type invariant and to     *)
(* ClaimedDocumentExists: a busy worker has an attempt and a message       *)
(* (WellFormedJobs), and a worker that was told of a document by 1C was    *)
(* told the truth (AnswersAreBacked) - the worker carries the answer over  *)
(* a commit boundary before it claims the document in the row.             *)
(***************************************************************************)
EXTENDS MailPipeline, FiniteSetTheorems, TLAPS

-----------------------------------------------------------------------------
(* Messages and attempts *)

\* Each message names what its kind needs.
LEMMA TaskFields ==
  ASSUME NEW t \in Task
  PROVE  /\ t.kind = "process" => t.mail \in Mails /\ t = ProcessTask(t.mail)
         /\ t.kind # "process" => t.att \in Attempts
         /\ t.kind \in {"process", "continue", "reprocess", "retry", "sync"}
         /\ t.kind \in {"continue", "reprocess"} => t.tries \in 0..HumanTries
BY DEF Task, MailTask, ErpTask, ProcessTask, HumanTries

\* The constructors build messages.
LEMMA TaskConstructors ==
  /\ \A m \in Mails : ProcessTask(m) \in Task
  /\ \A a \in Attempts :
       /\ SyncTask(a) \in Task
       /\ \A f \in BOOLEAN : RetryTask(a, f) \in Task
       /\ \A n \in 0..HumanTries : ContinueTask(a, n) \in Task
       /\ \A n \in 0..HumanTries, d \in Modes : ReprocessTask(a, d, n) \in Task
BY DEF Task, MailTask, ErpTask, ProcessTask, SyncTask, RetryTask, ContinueTask, ReprocessTask

\* Every position of To is an attempt.
LEMMA RecipientIsAttempt ==
  ASSUME NEW m \in Mails, NEW i \in 1..Len(To[m])
  PROVE  <<m, To[m][i]>> \in Attempts
<1>1. To[m] \in Seq(Addresses)
  BY ConstantsAssumption
<1>2. To[m][i] \in Addresses
  BY <1>1
<1>3. QED
  BY <1>2 DEF Attempts

\* There are finitely many attempts.
LEMMA AttemptsFinite == IsFiniteSet(Attempts)
<1>1. IsFiniteSet(Mails \X Addresses)
  BY ConstantsAssumption, FS_Product
<1>2. Attempts \subseteq Mails \X Addresses
  BY DEF Attempts
<1>3. QED
  BY <1>1, <1>2, FS_Subset

-----------------------------------------------------------------------------
(* Rows: each way to write a row keeps it a row, and only a document that  *)
(* the outcome reports adds a claim.                                       *)

\* Every write to a row that is not an outcome of the graph keeps its claim
\* and yields a row.
LEMMA RowWrites ==
  ASSUME NEW r \in Row
  PROVE  /\ StartedRow(r) \in Row /\ StartedRow(r).doc = r.doc
         /\ RestoredRow(r) \in Row /\ RestoredRow(r).doc = r.doc
         /\ Exhausted(r) \in Row /\ Exhausted(r).doc = r.doc
         /\ \A rev \in BOOLEAN : FailedRow(r, rev) \in Row /\ FailedRow(r, rev).doc = r.doc
         /\ \A st \in Statuses : RoutedByOperator(r, st) \in Row /\ RoutedByOperator(r, st).doc = r.doc
BY ZenonT(120) DEF Row, StartedRow, RestoredRow, Exhausted, FailedRow, RoutedByOperator, Statuses, Terminal

\* Writing an outcome yields a row; it claims a document only if the outcome
\* names one.
LEMMA OutcomeWrites ==
  ASSUME NEW r \in Row, NEW o \in Outcome
  PROVE  /\ FinalRow(r, o) \in Row
         /\ \/ FinalRow(r, o).doc = r.doc
            \/ FinalRow(r, o).doc /\ o.erp \in {"ok", "attach"}
            \/ FinalRow(r, o).doc = FALSE /\ o.erp = "skip"
         /\ SyncedRow(r, o) \in Row
         /\ \/ SyncedRow(r, o).doc = r.doc
            \/ SyncedRow(r, o).doc /\ o.erp = "ok"
            \/ SyncedRow(r, o).doc = FALSE /\ o.erp = "skip"
<1>1. FinalStatus(o) \in Statuses
  BY DEF FinalStatus, Outcome, Statuses, Terminal
<1>2. FinalRow(r, o) \in Row /\ SyncedRow(r, o) \in Row
  BY <1>1, ZenonT(120) DEF Row, Outcome, FinalRow, SyncedRow
<1>3. /\ FinalRow(r, o).doc = (o.erp \in {"ok", "attach"} \/ (r.doc /\ o.erp # "skip"))
      /\ SyncedRow(r, o).doc = (o.erp = "ok" \/ (r.doc /\ o.erp # "skip"))
  BY DEF Row, Outcome, FinalRow, SyncedRow
<1>4. r.doc \in BOOLEAN
  BY DEF Row
<1>5. QED
  BY <1>2, <1>3, <1>4

-----------------------------------------------------------------------------
(* The inductive invariant *)

WellFormedJobs ==
  \A w \in Workers : ~At(w, "idle") => job[w].att \in Attempts /\ job[w].task \in Task

\* What a worker was told of 1C still holds when it writes it down.
AnswersAreBacked ==
  \A w \in Workers :
    /\ job[w].out.erp \in {"ok", "attach"} => job[w].att \in Attempts /\ docs[job[w].att] > 0
    /\ job[w].out.erp = "skip" => job[w].att \notin Info

\* Only letters of the info@ route are registered, so writing SKIP-ERP never
\* replaces the number of a document.
OnlyEligibleRegistered == \A a \in Attempts : docs[a] > 0 => a \in Info

Typed == TypeOK /\ WellFormedJobs

IInv == Typed /\ ClaimedDocumentExists /\ AnswersAreBacked /\ OnlyEligibleRegistered

\* What a busy worker's row, job and message are.
LEMMA BusyWorker ==
  ASSUME Typed, NEW w \in Workers, ~At(w, "idle")
  PROVE  /\ job[w] \in Job /\ job[w].out \in Outcome
         /\ job[w].att \in Attempts /\ RowOf(w) \in Row
         /\ job[w].task \in Task
BY DEF Typed, TypeOK, WellFormedJobs, RowOf, Job

\* Writing a row keeps the table typed.
LEMMA SetRowType ==
  ASSUME rows \in [Attempts -> Row], NEW w, NEW r \in Row, SetRow(w, r)
  PROVE  rows' \in [Attempts -> Row]
BY DEF SetRow

\* Sending a message keeps the queue typed.
LEMMA SendType ==
  ASSUME queue \in [Task -> Nat], NEW t, Send(t)
  PROVE  queue' \in [Task -> Nat]
<1>1. queue' = [queue EXCEPT ![t] = @ + 1]
  BY DEF Send
<1>2. \A u \in Task : queue'[u] \in Nat
  BY <1>1
<1>3. QED
  BY <1>1, <1>2

\* Counting a fault, or none, keeps the counter typed.
LEMMA FaultType ==
  ASSUME faults \in Nat, NEW k, Fault(k) \/ NoFault
  PROVE  faults' \in Nat
BY DEF Fault, NoFault

\* Sending or losing a message keeps queue and counter typed.
LEMMA SendOrLoseType ==
  ASSUME queue \in [Task -> Nat], faults \in Nat, NEW t, SendOrLose(t)
  PROVE  queue' \in [Task -> Nat] /\ faults' \in Nat
BY SendType, FaultType DEF SendOrLose

\* Replacing a worker's job by a well-formed one.
JobsTyped == job \in [Workers -> Job] /\ WellFormedJobs

\* A worker may be given any job that is idle or has a message and an attempt.
LEMMA SetJob ==
  ASSUME JobsTyped, NEW w \in Workers, NEW j \in Job,
         j.pc # "idle" => j.att \in Attempts /\ j.task \in Task,
         job' = [job EXCEPT ![w] = j]
  PROVE  JobsTyped'
BY DEF JobsTyped, WellFormedJobs, At

\* Moving a busy worker to another point keeps the jobs well-formed.
LEMMA GotoType ==
  ASSUME JobsTyped, NEW w \in Workers, ~At(w, "idle"), NEW p \in Points, Goto(w, p)
  PROVE  JobsTyped'
<1> DEFINE j == [job[w] EXCEPT !.pc = p]
<1>1. job' = [job EXCEPT ![w] = j]
  BY DEF Goto, JobsTyped
<1>2. j \in Job /\ j.att = job[w].att /\ j.task = job[w].task
  BY DEF JobsTyped, Job
<1>3. QED
  BY <1>1, <1>2, SetJob DEF JobsTyped, WellFormedJobs

\* The idle job is a job.
LEMMA IdleJob == Idle \in Job
BY DEF Idle, Job, NoTask, NoAttempt, NoOutcome, NoSnap, Points, Outcome, ErpResults, Statuses

\* Returning from a task keeps the jobs well-formed.
LEMMA ReturnType ==
  ASSUME JobsTyped, NEW w \in Workers, Return(w)
  PROVE  JobsTyped'
BY IdleJob, SetJob DEF Return, Idle

\* The job that starts on a recipient of a letter is a job.
LEMMA RecipientJob ==
  ASSUME NEW m \in Mails, NEW i \in 1..Len(To[m])
  PROVE  /\ Recipient(m, i) \in Job
         /\ Recipient(m, i).att \in Attempts
         /\ Recipient(m, i).task \in Task
         /\ Recipient(m, i).pc = "check"
         /\ Recipient(m, i).out.erp = "none"
<1>1. <<m, To[m][i]>> \in Attempts
  BY RecipientIsAttempt
<1>2. ProcessTask(m) \in Task
  BY TaskConstructors
<1>3. i \in Nat
  BY ConstantsAssumption
<1>4. QED
  BY <1>1, <1>2, <1>3, IdleJob DEF Recipient, Job, Idle, Points, NoOutcome

\* Going on to the next recipient keeps the jobs well-formed.
LEMMA NextRecipientType ==
  ASSUME Typed, NEW w \in Workers, ~At(w, "idle"), NextRecipient(w)
  PROVE  JobsTyped'
<1>1. JobsTyped
  BY DEF Typed, TypeOK, JobsTyped
<1> DEFINE m == job[w].task.mail
           i == job[w].i + 1
<1>2. CASE IsProcess(w) /\ job[w].i < Len(To[m])
  <2>1. m \in Mails
    BY <1>2, BusyWorker, TaskFields DEF IsProcess
  <2>2. i \in 1..Len(To[m])
    <3>1. job[w].i \in Nat
      BY BusyWorker DEF Job
    <3>2. Len(To[m]) \in Nat
      BY <2>1, ConstantsAssumption
    <3>3. QED
      BY <1>2, <3>1, <3>2
  <2>3. job' = [job EXCEPT ![w] = Recipient(m, i)]
    BY <1>2 DEF NextRecipient
  <2>4. QED
    BY <1>1, <2>1, <2>2, <2>3, RecipientJob, SetJob
<1>3. CASE ~(IsProcess(w) /\ job[w].i < Len(To[m]))
  BY <1>1, <1>3, ReturnType DEF NextRecipient
<1>4. QED
  BY <1>2, <1>3

-----------------------------------------------------------------------------
(* Type correctness, one lemma per action *)

\* The initial state is well typed.
LEMMA TypedInit == Init => Typed
BY IdleJob DEF Init, Typed, TypeOK, WellFormedJobs, At, Idle, NoRow, Row, Statuses, Terminal

\* The pieces of Typed, to be put together again after a step.
LEMMA TypedParts ==
  Typed <=> /\ rows \in [Attempts -> Row] /\ docs \in [Attempts -> Nat]
            /\ queue \in [Task -> Nat] /\ JobsTyped
            /\ faults \in Nat /\ decisions \in Nat
BY DEF Typed, TypeOK, JobsTyped

\* The step that disturbs some of the pieces and keeps the others.
LEMMA TypedStep ==
  ASSUME rows' \in [Attempts -> Row], docs' \in [Attempts -> Nat], queue' \in [Task -> Nat],
         JobsTyped', faults' \in Nat, decisions' \in Nat
  PROVE  Typed'
BY DEF Typed, TypeOK, JobsTyped

\* Taking a message preserves the types.
LEMMA TakeType ==
  ASSUME Typed, NEW w \in Workers, Take(w)
  PROVE  Typed'
<1>1. PICK t \in Task :
        /\ queue[t] > 0
        /\ queue' = [queue EXCEPT ![t] = @ - 1]
        /\ job' = [job EXCEPT ![w] =
             IF t.kind = "process" THEN Recipient(t.mail, 1)
             ELSE [Idle EXCEPT !.pc = "load", !.task = t, !.att = t.att]]
  BY DEF Take, Task
<1>2. queue' \in [Task -> Nat]
  <2>1. queue \in [Task -> Nat] /\ queue[t] - 1 \in Nat
    BY <1>1, TypedParts
  <2>2. QED
    BY <1>1, <2>1
<1>3. JobsTyped'
  <2>1. CASE t.kind = "process"
    <3>1. t.mail \in Mails
      BY <2>1, TaskFields
    <3>2. 1 \in 1..Len(To[t.mail])
      BY <3>1, ConstantsAssumption
    <3>3. QED
      BY <1>1, <2>1, <3>1, <3>2, RecipientJob, SetJob, TypedParts
  <2>2. CASE t.kind # "process"
    <3> DEFINE j == [Idle EXCEPT !.pc = "load", !.task = t, !.att = t.att]
    <3>1. t.att \in Attempts
      BY <2>2, TaskFields
    <3>2. j \in Job /\ j.att = t.att /\ j.task = t
      BY <3>1, IdleJob DEF Job, Points, Idle
    <3>3. QED
      BY <1>1, <2>2, <3>1, <3>2, SetJob, TypedParts
  <2>3. QED
    BY <2>1, <2>2
<1>4. QED
  BY <1>2, <1>3, TypedParts, TypedStep DEF Take

\* The terminal check preserves the types.
LEMMA CheckType ==
  ASSUME Typed, NEW w \in Workers, Check(w)
  PROVE  Typed'
<1>1. JobsTyped'
  BY NextRecipientType, GotoType, TypedParts DEF Check, At, Points
<1>2. faults' \in Nat
  BY FaultType, TypedParts DEF Check
<1>3. QED
  BY <1>1, <1>2, TypedParts, TypedStep DEF Check

\* persist_processing_start preserves the types.
LEMMA StartType ==
  ASSUME Typed, NEW w \in Workers, Start(w)
  PROVE  Typed'
<1>1. RowOf(w) \in Row /\ job[w] \in Job
  BY BusyWorker DEF Start, At
<1>2. rows' \in [Attempts -> Row]
  BY <1>1, SetRowType, RowWrites, TypedParts DEF Start
<1>3. JobsTyped'
  <2> DEFINE j == [job[w] EXCEPT !.pc = "graph", !.row = TRUE]
  <2>1. CASE job' = [job EXCEPT ![w].pc = "graph", ![w].row = TRUE]
    <3>1. job' = [job EXCEPT ![w] = j]
      BY <2>1, TypedParts DEF JobsTyped
    <3>2. j \in Job /\ j.att = job[w].att /\ j.task = job[w].task
      BY <1>1 DEF Job, Points
    <3>3. QED
      BY <3>1, <3>2, SetJob, BusyWorker, TypedParts DEF Start, At
  <2>2. CASE Goto(w, "graph")
    BY <2>2, GotoType, TypedParts DEF Start, At, Points
  <2>3. QED
    BY <2>1, <2>2 DEF Start
<1>4. faults' \in Nat
  BY FaultType, TypedParts DEF Start
<1>5. QED
  BY <1>2, <1>3, <1>4, TypedParts, TypedStep DEF Start

\* Every verdict gives an outcome without a registration result.
LEMMA VerdictOutcomes == \A v : VerdictOutcome(v) \in Outcome /\ VerdictOutcome(v).erp = "none"
BY DEF VerdictOutcome, Outcome, ErpResults, Statuses, Terminal

\* Running the graph preserves the types.
LEMMA GraphType ==
  ASSUME Typed, NEW w \in Workers, Graph(w)
  PROVE  Typed'
<1>1. PICK p \in {"create", "final"}, o \in Outcome :
        /\ o.erp = "none"
        /\ job' = [job EXCEPT ![w].pc = p, ![w].out = o]
  <2>1. Approved \in Outcome /\ Approved.erp = "none"
    BY DEF Approved, NoOutcome, Outcome, ErpResults, Statuses
  <2>2. QED
    BY <2>1, VerdictOutcomes DEF Graph
<1> DEFINE j == [job[w] EXCEPT !.pc = p, !.out = o]
<1>2. job' = [job EXCEPT ![w] = j]
  BY <1>1, TypedParts DEF JobsTyped
<1>3. j \in Job /\ j.att = job[w].att /\ j.task = job[w].task
  BY <1>1, BusyWorker DEF Graph, At, Job, Points
<1>4. JobsTyped'
  BY <1>2, <1>3, SetJob, BusyWorker, TypedParts DEF Graph, At
<1>5. QED
  BY <1>4, TypedParts, TypedStep DEF Graph

\* An exception in the graph preserves the types.
LEMMA GraphRaiseType ==
  ASSUME Typed, NEW w \in Workers, GraphRaise(w)
  PROVE  Typed'
<1>1. RowOf(w) \in Row /\ job[w].task \in Task
  BY BusyWorker DEF GraphRaise, At
<1>2. rows' \in [Attempts -> Row] /\ queue' \in [Task -> Nat]
  <2> DEFINE t == job[w].task
  <2>1. \A rev \in BOOLEAN : SetRow(w, FailedRow(RowOf(w), rev)) => rows' \in [Attempts -> Row]
    BY <1>1, RowWrites, SetRowType, TypedParts
  <2>2. CASE t.kind = "process"
    BY <2>1, <2>2, TypedParts DEF GraphRaise
  <2>3. CASE t.kind \in {"continue", "reprocess"}
    <3>1. (t.kind = "reprocess") \in BOOLEAN
      OBVIOUS
    <3>2. QED
      BY <2>1, <2>3, <3>1, SendType, TypedParts DEF GraphRaise
  <2>4. CASE t.kind \notin {"process", "continue", "reprocess"}
    BY <2>4, TypedParts DEF GraphRaise
  <2>5. QED
    BY <2>2, <2>3, <2>4
<1>3. JobsTyped'
  BY ReturnType, TypedParts DEF GraphRaise
<1>4. faults' \in Nat
  BY FaultType, TypedParts DEF GraphRaise
<1>5. QED
  BY <1>2, <1>3, <1>4, TypedParts, TypedStep DEF GraphRaise

\* The call to 1C preserves the types.
LEMMA CreateType ==
  ASSUME Typed, NEW w \in Workers, Create(w)
  PROVE  Typed'
<1>1. PICK e \in ErpResults, n \in {0, 1} :
        /\ docs' = [docs EXCEPT ![job[w].att] = @ + n]
        /\ LET failed == e \in {"fail", "attach"} /\ ~IsHuman(w)
               o == [job[w].out EXCEPT !.erp = e, !.st = IF failed THEN "error" ELSE @,
                                      !.rev = failed]
           IN  job' = [job EXCEPT ![w].pc = IF At(w, "create") THEN "final" ELSE "rsave",
                                  ![w].out = o]
        /\ CallErp(w, e, n)
  BY DEF Create
<1> DEFINE failed == e \in {"fail", "attach"} /\ ~IsHuman(w)
           o == [job[w].out EXCEPT !.erp = e, !.st = IF failed THEN "error" ELSE @, !.rev = failed]
           j == [job[w] EXCEPT !.pc = IF At(w, "create") THEN "final" ELSE "rsave", !.out = o]
<1>2. job[w] \in Job /\ job[w].out \in Outcome /\ job[w].att \in Attempts /\ job[w].task \in Task
  BY BusyWorker DEF Create, At
<1>3. o \in Outcome
  <2>1. failed \in BOOLEAN
    OBVIOUS
  <2>2. QED
    BY <1>2, <2>1 DEF Outcome, Statuses, Terminal
<1>4. j \in Job /\ j.att = job[w].att /\ j.task = job[w].task
  BY <1>2, <1>3 DEF Job, Points
<1>5. job' = [job EXCEPT ![w] = j]
  BY <1>1, TypedParts DEF JobsTyped
<1>6. JobsTyped'
  BY <1>2, <1>4, <1>5, SetJob, TypedParts
<1>7. docs' \in [Attempts -> Nat]
  <2>1. docs \in [Attempts -> Nat] /\ docs[job[w].att] + n \in Nat
    BY <1>2, TypedParts
  <2>2. QED
    BY <1>1, <2>1
<1>8. faults' \in Nat
  BY <1>1, FaultType, TypedParts DEF CallErp
<1>9. QED
  BY <1>6, <1>7, <1>8, TypedParts, TypedStep DEF Create

\* Finalizing preserves the types.
LEMMA FinalizeType ==
  ASSUME Typed, NEW w \in Workers, Finalize(w)
  PROVE  Typed'
<1>1. RowOf(w) \in Row /\ job[w].out \in Outcome
  BY BusyWorker DEF Finalize, At
<1>2. rows' \in [Attempts -> Row]
  BY <1>1, SetRowType, OutcomeWrites, TypedParts DEF Finalize
<1>3. JobsTyped'
  BY GotoType, TypedParts DEF Finalize, At, Points
<1>4. faults' \in Nat
  BY FaultType, TypedParts DEF Finalize
<1>5. QED
  BY <1>2, <1>3, <1>4, TypedParts, TypedStep DEF Finalize

\* The end of a task body preserves the types.
LEMMA PostType ==
  ASSUME Typed, NEW w \in Workers, Post(w)
  PROVE  Typed'
<1>1. queue' \in [Task -> Nat] /\ faults' \in Nat
  BY SendType, FaultType, TypedParts DEF Post
<1>2. JobsTyped'
  BY NextRecipientType, ReturnType, TypedParts DEF Post, At
<1>3. QED
  BY <1>1, <1>2, TypedParts, TypedStep DEF Post

\* The first transaction of reprocess_message preserves the types.
LEMMA LoadReprocessType ==
  ASSUME Typed, NEW w \in Workers, LoadReprocess(w)
  PROVE  Typed'
<1>1. RowOf(w) \in Row
  BY BusyWorker DEF LoadReprocess, At
<1>2. rows' \in [Attempts -> Row]
  BY <1>1, SetRowType, RowWrites, TypedParts DEF LoadReprocess
<1>3. JobsTyped'
  BY GotoType, TypedParts DEF LoadReprocess, At, Points
<1>4. QED
  BY <1>2, <1>3, TypedParts, TypedStep DEF LoadReprocess

\* The first transaction of continue_after_human preserves the types.
LEMMA LoadContinueType ==
  ASSUME Typed, NEW w \in Workers, LoadContinue(w)
  PROVE  Typed'
<1>1. RowOf(w) \in Row
  BY BusyWorker DEF LoadContinue, At
<1>2. /\ FailedRow(RowOf(w), FALSE) \in Row
      /\ [RowOf(w) EXCEPT !.st = "processing", !.rev = FALSE] \in Row
  BY <1>1, RowWrites DEF Row, Statuses
<1>3. rows' \in [Attempts -> Row]
  BY <1>2, SetRowType, TypedParts DEF LoadContinue
<1>4. JobsTyped'
  <2> DEFINE j == [job[w] EXCEPT !.pc = "graph"]
  <2>1. CASE Return(w)
    BY <2>1, ReturnType, TypedParts
  <2>2. CASE Goto(w, "graph")
    <3>1. j \in Job /\ j.att \in Attempts /\ j.task \in Task
      BY <1>1, BusyWorker DEF LoadContinue, At, Job, Points, Row
    <3>2. job' = [job EXCEPT ![w] = j]
      BY <2>2, TypedParts DEF Goto, JobsTyped
    <3>3. QED
      BY <3>1, <3>2, SetJob, TypedParts
  <2>3. Return(w) \/ Goto(w, "graph")
    BY DEF LoadContinue
  <2>4. QED
    BY <2>1, <2>2, <2>3
<1>5. QED
  BY <1>3, <1>4, TypedParts, TypedStep DEF LoadContinue

\* _sync_post_hitl_result preserves the types.
LEMMA HumanSyncType ==
  ASSUME Typed, NEW w \in Workers, HumanSync(w)
  PROVE  Typed'
<1>1. RowOf(w) \in Row /\ job[w].out \in Outcome
  BY BusyWorker DEF HumanSync, At
<1>2. rows' \in [Attempts -> Row]
  BY <1>1, SetRowType, OutcomeWrites, TypedParts DEF HumanSync
<1>3. JobsTyped'
  BY GotoType, ReturnType, TypedParts DEF HumanSync, At, Points
<1>4. faults' \in Nat
  BY FaultType, TypedParts DEF HumanSync
<1>5. QED
  BY <1>2, <1>3, <1>4, TypedParts, TypedStep DEF HumanSync

\* The tests of retry_erp preserve the types.
LEMMA LoadRetryType ==
  ASSUME Typed, NEW w \in Workers, LoadRetry(w)
  PROVE  Typed'
<1>1. RowOf(w) \in Row /\ job[w] \in Job /\ job[w].att \in Attempts /\ job[w].task \in Task
  BY BusyWorker DEF LoadRetry, At
<1>2. Exhausted(RowOf(w)) \in Row /\ [RowOf(w) EXCEPT !.retry = @ + 1] \in Row
  BY <1>1, RowWrites DEF Row
<1> DEFINE b == RetryBranch(job[w].att)
<1>3. rows' \in [Attempts -> Row]
  <2>1. CASE b \in {"exhausted", "missing_xml"}
    BY <1>2, <2>1, SetRowType, TypedParts DEF LoadRetry
  <2>2. CASE b = "create"
    BY <1>2, <2>2, SetRowType, TypedParts DEF LoadRetry
  <2>3. CASE b \notin {"exhausted", "missing_xml", "create"}
    BY <2>3, TypedParts DEF LoadRetry
  <2>4. QED
    BY <2>1, <2>2, <2>3
<1>4. JobsTyped'
  <2> DEFINE s == [xml |-> RowOf(w).xml, lease |-> RowOf(w).lease]
             j == [job[w] EXCEPT !.pc = "patch", !.snap = s]
  <2>1. CASE b = "sync_existing"
    <3>1. s \in [xml : BOOLEAN, lease : BOOLEAN]
      BY <1>1 DEF Row
    <3>2. j \in Job /\ j.att = job[w].att /\ j.task = job[w].task
      BY <1>1, <3>1 DEF Job, Points
    <3>3. job' = [job EXCEPT ![w] = j]
      BY <2>1, TypedParts DEF LoadRetry, JobsTyped
    <3>4. QED
      BY <1>1, <3>2, <3>3, SetJob, TypedParts
  <2>2. CASE b \in {"create", "no_summary"}
    BY <2>2, GotoType, TypedParts DEF LoadRetry, At, Points
  <2>3. CASE b \notin {"create", "no_summary", "sync_existing"}
    BY <2>3, ReturnType, TypedParts DEF LoadRetry
  <2>4. QED
    BY <2>1, <2>2, <2>3
<1>5. QED
  BY <1>3, <1>4, TypedParts, TypedStep DEF LoadRetry

\* The tests of sync_erp_correction preserve the types.
LEMMA LoadSyncType ==
  ASSUME Typed, NEW w \in Workers, LoadSync(w)
  PROVE  Typed'
<1>1. JobsTyped'
  BY GotoType, ReturnType, TypedParts DEF LoadSync, At, Points
<1>2. QED
  BY <1>1, TypedParts, TypedStep DEF LoadSync

\* Saving a synchronised document preserves the types.
LEMMA SyncSaveType ==
  ASSUME Typed, NEW w \in Workers, SyncSave(w)
  PROVE  Typed'
<1>1. RowOf(w) \in Row /\ job[w] \in Job
  BY BusyWorker DEF SyncSave, At
<1>2. /\ [RowOf(w) EXCEPT !.rev = FALSE] \in Row
      /\ [RowOf(w) EXCEPT !.rev = FALSE, !.xml = job[w].snap.xml,
                          !.lease = job[w].snap.lease] \in Row
  BY <1>1 DEF Row, Job
<1>3. rows' \in [Attempts -> Row]
  BY <1>2, SetRowType, TypedParts DEF SyncSave
<1>4. JobsTyped'
  BY ReturnType, TypedParts DEF SyncSave
<1>5. faults' \in Nat
  BY FaultType, TypedParts DEF SyncSave, NoFault
<1>6. QED
  BY <1>3, <1>4, <1>5, TypedParts, TypedStep DEF SyncSave

\* The end of retry_erp preserves the types.
LEMMA RetrySaveType ==
  ASSUME Typed, NEW w \in Workers, RetrySave(w)
  PROVE  Typed'
<1>1. RowOf(w) \in Row
  BY BusyWorker DEF RetrySave, At
<1>2. /\ [RowOf(w) EXCEPT !.doc = TRUE, !.st = "done", !.rev = FALSE, !.retry = 0] \in Row
      /\ [RowOf(w) EXCEPT !.doc = TRUE] \in Row
      /\ Exhausted(RowOf(w)) \in Row
  BY <1>1, RowWrites DEF Row, Statuses, Terminal
<1>3. rows' \in [Attempts -> Row]
  BY <1>2, SetRowType, TypedParts DEF RetrySave, RetryFailed
<1>4. queue' \in [Task -> Nat] /\ faults' \in Nat
  BY SendType, SendOrLoseType, FaultType, TypedParts DEF RetrySave, RetryFailed
<1>5. JobsTyped'
  BY ReturnType, TypedParts DEF RetrySave
<1>6. QED
  BY <1>3, <1>4, <1>5, TypedParts, TypedStep DEF RetrySave

\* The losses of a worker, and what beat does.
LEMMA WorkerLossType ==
  ASSUME Typed, NEW w \in Workers, Crash(w) \/ Kill(w)
  PROVE  Typed'
<1>1. queue' \in [Task -> Nat] /\ faults' \in Nat
  BY SendType, FaultType, TypedParts DEF Crash, Kill
<1>2. JobsTyped'
  BY ReturnType, TypedParts DEF Crash, Kill
<1>3. QED
  BY <1>1, <1>2, TypedParts, TypedStep DEF Crash, Kill

\* A step that leaves every worker alone leaves the jobs well-formed.
LEMMA SameJobs ==
  ASSUME JobsTyped, job' = job
  PROVE  JobsTyped'
BY DEF JobsTyped, WellFormedJobs, At

\* Polling preserves the types.
LEMMA PollType ==
  ASSUME Typed, NEW m \in Mails, Poll(m)
  PROVE  Typed'
<1>1. queue' \in [Task -> Nat]
  BY SendType, TypedParts DEF Poll
<1>2. QED
  BY <1>1, SameJobs, TypedParts, TypedStep DEF Poll

\* Recovery preserves the types, creates no document and changes no claim.
LEMMA RecoverType ==
  ASSUME Typed, Recover
  PROVE  Typed' /\ docs' = docs /\ \A a \in Attempts : rows'[a].doc = rows[a].doc
<1> DEFINE stale == {a \in Processing : ~rows[a].lease}
<1>1. PICK R \in SUBSET stale :
        /\ rows' = [a \in Attempts |-> IF a \in R THEN [rows[a] EXCEPT !.lease = TRUE] ELSE rows[a]]
        /\ \E sent \in SUBSET R :
             /\ IF sent = R THEN NoFault ELSE Fault("broker")
             /\ queue' = [t \in Task |-> queue[t] +
                            IF t.kind = "process" THEN Cardinality({a \in sent : a[1] = t.mail}) ELSE 0]
  BY DEF Recover
<1>2. PICK sent \in SUBSET R :
        /\ IF sent = R THEN NoFault ELSE Fault("broker")
        /\ queue' = [t \in Task |-> queue[t] +
                       IF t.kind = "process" THEN Cardinality({a \in sent : a[1] = t.mail}) ELSE 0]
  BY <1>1
<1>3. \A a \in Attempts : rows'[a] \in Row /\ rows'[a].doc = rows[a].doc
  <2>1. \A a \in Attempts : rows[a] \in Row
    BY TypedParts
  <2>2. QED
    BY <1>1, <2>1 DEF Row
<1>4. queue' \in [Task -> Nat]
  <2>1. \A t \in Task : Cardinality({a \in sent : a[1] = t.mail}) \in Nat
    <3>1. \A t \in Task : {a \in sent : a[1] = t.mail} \subseteq Attempts
      BY DEF Processing
    <3>2. QED
      BY <3>1, AttemptsFinite, FS_Subset, FS_CardinalityType
  <2>2. \A t \in Task : queue[t] \in Nat
    BY TypedParts
  <2>3. \A t \in Task : queue'[t] \in Nat
    BY <1>2, <2>1, <2>2
  <2>4. QED
    BY <1>2, <2>3
<1>5. faults' \in Nat
  BY <1>2, FaultType, TypedParts
<1>6. rows' \in [Attempts -> Row]
  BY <1>1, <1>3
<1>7. QED
  BY <1>3, <1>4, <1>5, <1>6, SameJobs, TypedParts, TypedStep DEF Recover

\* A lease running out preserves the types.
LEMMA LeaseExpireType ==
  ASSUME Typed, NEW a \in Attempts, LeaseExpire(a)
  PROVE  Typed'
<1>1. rows' \in [Attempts -> Row]
  <2>1. [rows[a] EXCEPT !.lease = FALSE] \in Row
    BY TypedParts DEF Row
  <2>2. QED
    BY <2>1, TypedParts DEF LeaseExpire
<1>2. QED
  BY <1>1, SameJobs, TypedParts, TypedStep DEF LeaseExpire

\* An operator's call writes one row, never its document, and sends at most
\* one message.
LEMMA OperatorWrites ==
  ASSUME Typed, NEW a \in Attempts, Operator(a)
  PROVE  /\ \E r \in Row : Saves(a, r) /\ r.doc = rows[a].doc
         /\ queue' \in [Task -> Nat] /\ faults' \in Nat /\ decisions' \in Nat
         /\ docs' = docs /\ job' = job
<1>1. rows[a] \in Row
  BY TypedParts
<1>2. \A st \in Statuses : RoutedByOperator(rows[a], st) \in Row /\ RoutedByOperator(rows[a], st).doc = rows[a].doc
  BY <1>1, RowWrites
<1> USE TypedParts, SendOrLoseType DEF NoFault
<1>3. CASE MarkSpam(a)
  <2> DEFINE r == [rows[a] EXCEPT !.st = "spam", !.rev = FALSE, !.xml = FALSE]
  <2>1. r \in Row /\ r.doc = rows[a].doc
    BY <1>1 DEF Row, Statuses, Terminal
  <2>2. Saves(a, r)
    BY <1>3 DEF MarkSpam
  <2> HIDE DEF r
  <2>3. QED
    BY <1>3, <2>1, <2>2 DEF MarkSpam, Decide
<1>4. CASE MarkNotSpam(a)
  <2> DEFINE r == [rows[a] EXCEPT !.st = "processing", !.rev = FALSE, !.xml = FALSE]
  <2>1. r \in Row /\ r.doc = rows[a].doc
    BY <1>1 DEF Row, Statuses, Terminal
  <2>2. Saves(a, r)
    BY <1>4 DEF MarkNotSpam
  <2> HIDE DEF r
  <2>3. QED
    BY <1>4, <2>1, <2>2 DEF MarkNotSpam, Decide
<1>5. CASE Approve(a)
  BY <1>2, <1>5 DEF Approve, Decide, Statuses
<1>6. CASE Correct(a)
  BY <1>2, <1>6 DEF Correct, ScheduleSync, Decide, Statuses, Terminal
<1>7. CASE MarkVerified(a)
  BY <1>2, <1>7 DEF MarkVerified, ScheduleSync, Decide, Statuses, Terminal
<1>8. CASE Reanalyze(a)
  <2> DEFINE r == [rows[a] EXCEPT !.st = "processing", !.rev = FALSE]
  <2>1. r \in Row /\ r.doc = rows[a].doc
    BY <1>1 DEF Row, Statuses, Terminal
  <2>2. Saves(a, r)
    BY <1>8 DEF Reanalyze
  <2> HIDE DEF r
  <2>3. QED
    BY <1>8, <2>1, <2>2 DEF Reanalyze, Decide
<1>9. CASE RestoreFromSpam(a)
  BY <1>1, <1>9, RowWrites DEF RestoreFromSpam, Decide
<1>10. CASE RetryErp(a)
  <2> DEFINE r == [rows[a] EXCEPT !.retry = 0, !.rev = FALSE]
  <2>1. r \in Row /\ r.doc = rows[a].doc
    BY <1>1 DEF Row, Statuses, Terminal
  <2>2. Saves(a, r)
    BY <1>10 DEF RetryErp
  <2>3. SendOrLose(RetryTask(a, TRUE)) /\ Decide("retry_erp") /\ UNCHANGED <<docs, job>>
    BY <1>10 DEF RetryErp
  <2>4. queue' \in [Task -> Nat] /\ faults' \in Nat
    BY <2>3
  <2> HIDE DEF r
  <2>5. QED
    BY <2>1, <2>2, <2>3, <2>4 DEF Decide
<1>11. QED
  BY <1>3, <1>4, <1>5, <1>6, <1>7, <1>8, <1>9, <1>10 DEF Operator

\* An operator's call preserves the types.
LEMMA OperatorType ==
  ASSUME Typed, NEW a \in Attempts, Operator(a)
  PROVE  Typed'
<1>1. rows' \in [Attempts -> Row]
  BY OperatorWrites, TypedParts DEF Saves
<1>2. QED
  BY <1>1, OperatorWrites, SameJobs, TypedParts, TypedStep

\* Every step preserves the types.
LEMMA TypedNext == Typed /\ [Next]_vars => Typed'
<1> SUFFICES ASSUME Typed, [Next]_vars
             PROVE  Typed'
  OBVIOUS
<1>1. CASE UNCHANGED vars
  BY <1>1 DEF vars, Typed, TypeOK, WellFormedJobs, At
<1>2. ASSUME NEW w \in Workers, Take(w) \/ WorkerStep(w) \/ Crash(w) \/ Kill(w)
      PROVE  Typed'
  BY <1>2, TakeType, CheckType, StartType, GraphType, GraphRaiseType, CreateType,
     FinalizeType, PostType, LoadReprocessType, LoadContinueType, HumanSyncType,
     LoadRetryType, LoadSyncType, SyncSaveType, RetrySaveType, WorkerLossType
  DEF WorkerStep
<1>3. QED
  BY <1>1, <1>2, PollType, RecoverType, LeaseExpireType, OperatorType DEF Next

\* The state stays well typed: TLC's type invariant holds for every instance.
THEOREM TypeCorrect == Spec => []TypeOK
<1>1. Typed => TypeOK
  BY DEF Typed
<1>2. QED
  BY <1>1, TypedInit, TypedNext, PTL DEF Spec

-----------------------------------------------------------------------------
(* Documents and claims *)

NoNewClaim == \A a \in Attempts : rows'[a].doc = rows[a].doc

\* A step of the agent, seen from the ledger: nothing, a document, or a claim.
Quiet    == docs' = docs /\ NoNewClaim
Made(a)  == a \in Info /\ docs' = [docs EXCEPT ![a] = @ + 1] /\ NoNewClaim
Claim(a) == /\ docs' = docs /\ docs[a] > 0 /\ rows'[a].doc
            /\ \A b \in Attempts \ {a} : rows'[b].doc = rows[b].doc

LedgerStep == Quiet \/ \E a \in Attempts : Made(a) \/ Claim(a)

\* One row is written: its claim is unchanged, or made and backed.
LEMMA WriteRow ==
  ASSUME rows \in [Attempts -> Row], NEW w, job[w].att \in Attempts, NEW r \in Row,
         SetRow(w, r), docs' = docs,
         r.doc = RowOf(w).doc \/ (r.doc /\ docs[job[w].att] > 0)
  PROVE  LedgerStep
<1> DEFINE a == job[w].att
<1>1. rows'[a] = r /\ \A b \in Attempts \ {a} : rows'[b] = rows[b]
  BY DEF SetRow
<1>2. CASE r.doc = RowOf(w).doc
  BY <1>1, <1>2 DEF RowOf, LedgerStep, Quiet, NoNewClaim
<1>3. CASE r.doc /\ docs[a] > 0
  BY <1>1, <1>3 DEF LedgerStep, Claim
<1>4. QED
  BY <1>2, <1>3

\* A failed task marks its row and claims nothing.
LEMMA FailRow ==
  ASSUME rows \in [Attempts -> Row], NEW w, job[w].att \in Attempts, RowOf(w) \in Row,
         NEW rev \in BOOLEAN, SetRow(w, FailedRow(RowOf(w), rev)), docs' = docs
  PROVE  LedgerStep
<1> DEFINE r == FailedRow(RowOf(w), rev)
<1>1. r \in Row /\ r.doc = RowOf(w).doc
  BY RowWrites
<1> HIDE DEF r
<1>2. SetRow(w, r)
  BY DEF r
<1>3. QED
  BY <1>1, <1>2, WriteRow

\* A step that leaves rows and documents alone leaves the ledger alone.
LEMMA SameRows ==
  ASSUME rows' = rows, docs' = docs
  PROVE  LedgerStep
BY DEF LedgerStep, Quiet, NoNewClaim

\* A call to 1C adds at most one document, and an answer that names one is
\* only given after it was added.
LEMMA CreateStep ==
  ASSUME Typed, NEW w \in Workers, Create(w)
  PROVE  /\ LedgerStep
         /\ job'[w].out.erp \in {"ok", "attach"} => docs'[job[w].att] > 0
         /\ job'[w].out.erp = "skip" => job[w].att \notin Info
         /\ job'[w].att = job[w].att
         /\ \A v \in Workers \ {w} : job'[v] = job[v]
<1> DEFINE a == job[w].att
<1> DEFINE failed(e) == e \in {"fail", "attach"} /\ ~IsHuman(w)
           o(e) == [job[w].out EXCEPT !.erp = e, !.st = IF failed(e) THEN "error" ELSE @,
                                     !.rev = failed(e)]
           p == IF At(w, "create") THEN "final" ELSE "rsave"
<1>1. PICK e \in ErpResults, n \in {0, 1} :
        /\ CallErp(w, e, n)
        /\ docs' = [docs EXCEPT ![a] = @ + n]
        /\ job' = [job EXCEPT ![w].pc = p, ![w].out = o(e)]
  BY DEF Create
<1>2. o(e) \in Outcome /\ o(e).erp = e /\ p \in Points
  <2>1. job[w].out \in Outcome
    BY BusyWorker DEF Create, At
  <2>2. QED
    BY <2>1 DEF Outcome, Statuses, Terminal, Points
<1> HIDE DEF o, p
<1>3. docs \in [Attempts -> Nat] /\ a \in Attempts
  BY BusyWorker, TypedParts DEF Create, At
<1>4. /\ (n = 1 /\ a \in Info) \/ (n = 0 /\ e \notin {"ok", "attach"})
      /\ e = "skip" => a \notin Info
  BY <1>1 DEF CallErp
<1>5. rows' = rows
  BY DEF Create
<1>6. LedgerStep
  <2>1. CASE n = 0
    <3>1. docs' = docs
      BY <1>1, <1>3, <2>1
    <3>2. QED
      BY <1>5, <3>1, SameRows
  <2>2. CASE n = 1
    <3>1. docs' = [docs EXCEPT ![a] = @ + 1]
      BY <1>1, <1>3, <2>2
    <3>2. a \in Info
      BY <1>4, <2>2
    <3>3. NoNewClaim
      BY <1>5 DEF NoNewClaim
    <3>4. QED
      BY <1>3, <3>1, <3>2, <3>3 DEF LedgerStep, Made
  <2>3. QED
    BY <2>1, <2>2
<1>7. /\ job'[w].out.erp = e /\ job'[w].att = a
      /\ \A v \in Workers \ {w} : job'[v] = job[v]
  <2>1. job \in [Workers -> Job]
    BY TypedParts DEF JobsTyped
  <2>2. QED
    BY <1>1, <1>2, <2>1 DEF Job
<1>8. e \in {"ok", "attach"} => docs'[a] > 0
  BY <1>1, <1>3, <1>4
<1>9. QED
  BY <1>4, <1>6, <1>7, <1>8

\* Every other step of a worker.
LEMMA WorkerStepLedger ==
  ASSUME IInv, NEW w \in Workers, WorkerStep(w)
  PROVE  LedgerStep
<1> DEFINE a == job[w].att
<1>1. rows \in [Attempts -> Row]
  BY TypedParts DEF IInv
<1>2. ASSUME ~At(w, "idle")
      PROVE  a \in Attempts /\ RowOf(w) \in Row /\ job[w].out \in Outcome /\ job[w] \in Job
  BY <1>2, BusyWorker DEF IInv
<1>3. /\ job[w].out.erp \in {"ok", "attach"} => docs[a] > 0
      /\ job[w].out.erp = "skip" /\ a \in Attempts => ~RowOf(w).doc
  BY DEF IInv, AnswersAreBacked, ClaimedDocumentExists, OnlyEligibleRegistered, RowOf
<1>4. CASE Check(w) \/ Graph(w) \/ Post(w) \/ LoadSync(w)
  BY <1>4, SameRows DEF Check, Graph, Post, LoadSync
<1>5. CASE Start(w)
  BY <1>1, <1>2, <1>5, SameRows, WriteRow, RowWrites DEF Start, At
<1>6. CASE GraphRaise(w)
  <2>1. rows' = rows \/ \E rev \in BOOLEAN : SetRow(w, FailedRow(RowOf(w), rev))
    BY <1>6 DEF GraphRaise
  <2>2. docs' = docs /\ ~At(w, "idle")
    BY <1>6 DEF GraphRaise, At
  <2>3. QED
    BY <1>1, <1>2, <2>1, <2>2, SameRows, FailRow
<1>7. CASE Create(w)
  BY <1>7, CreateStep DEF IInv
<1>8. CASE Finalize(w)
  <2>1. \/ FinalRow(RowOf(w), job[w].out).doc = RowOf(w).doc
        \/ FinalRow(RowOf(w), job[w].out).doc /\ docs[a] > 0
    <3>1. RowOf(w) \in Row /\ job[w].out \in Outcome /\ a \in Attempts
      BY <1>2, <1>8 DEF Finalize, At
    <3>2. job[w].out.erp = "skip" => RowOf(w).doc = FALSE
      BY <1>3, <3>1 DEF Row
    <3>3. QED
      BY <1>3, <3>1, <3>2, OutcomeWrites
  <2>2. QED
    BY <1>1, <1>2, <1>8, <2>1, SameRows, WriteRow, OutcomeWrites DEF Finalize, At
<1>9. CASE LoadReprocess(w)
  BY <1>1, <1>2, <1>9, SameRows, WriteRow, RowWrites DEF LoadReprocess, At
<1>10. CASE LoadContinue(w)
  <2> DEFINE r == [RowOf(w) EXCEPT !.st = "processing", !.rev = FALSE]
  <2>1. r \in Row /\ r.doc = RowOf(w).doc
    BY <1>2, <1>10 DEF LoadContinue, At, Row, Statuses
  <2>2. SetRow(w, r) \/ SetRow(w, FailedRow(RowOf(w), FALSE))
    BY <1>10 DEF LoadContinue
  <2>3. docs' = docs /\ ~At(w, "idle")
    BY <1>10 DEF LoadContinue, At
  <2> HIDE DEF r
  <2>4. QED
    BY <1>1, <1>2, <2>1, <2>2, <2>3, WriteRow, FailRow
<1>11. CASE HumanSync(w)
  <2>1. \/ SyncedRow(RowOf(w), job[w].out).doc = RowOf(w).doc
        \/ SyncedRow(RowOf(w), job[w].out).doc /\ docs[a] > 0
    <3>1. RowOf(w) \in Row /\ job[w].out \in Outcome /\ a \in Attempts
      BY <1>2, <1>11 DEF HumanSync, At
    <3>2. job[w].out.erp = "skip" => RowOf(w).doc = FALSE
      BY <1>3, <3>1 DEF Row
    <3>3. QED
      BY <1>3, <3>1, <3>2, OutcomeWrites, ZenonT(120)
  <2>2. QED
    BY <1>1, <1>2, <1>11, <2>1, SameRows, WriteRow, OutcomeWrites DEF HumanSync, At
<1>12. CASE LoadRetry(w)
  <2> DEFINE r == [RowOf(w) EXCEPT !.retry = @ + 1]
  <2>1. r \in Row /\ r.doc = RowOf(w).doc
    BY <1>2, <1>12 DEF LoadRetry, At, Row
  <2>2. SetRow(w, r) \/ SetRow(w, Exhausted(RowOf(w))) \/ rows' = rows
    BY <1>12 DEF LoadRetry
  <2>3. docs' = docs /\ ~At(w, "idle")
    BY <1>12 DEF LoadRetry, At
  <2> HIDE DEF r
  <2>4. QED
    BY <1>1, <1>2, <2>1, <2>2, <2>3, SameRows, WriteRow, RowWrites
<1>13. CASE SyncSave(w)
  <2> DEFINE r == [RowOf(w) EXCEPT !.rev = FALSE]
             f == [RowOf(w) EXCEPT !.rev = FALSE, !.xml = job[w].snap.xml,
                                   !.lease = job[w].snap.lease]
  <2>1. r \in Row /\ r.doc = RowOf(w).doc /\ f \in Row /\ f.doc = RowOf(w).doc
    BY <1>2, <1>13 DEF SyncSave, At, Row, Job
  <2>2. SetRow(w, r) \/ SetRow(w, f) \/ UNCHANGED rows
    BY <1>13 DEF SyncSave
  <2> HIDE DEF r, f
  <2>3. QED
    BY <1>1, <1>2, <1>13, <2>1, <2>2, WriteRow, SameRows DEF SyncSave, At
<1>14. CASE RetrySave(w)
  <2> DEFINE r == [RowOf(w) EXCEPT !.doc = TRUE, !.st = "done", !.rev = FALSE, !.retry = 0]
             f == [RowOf(w) EXCEPT !.doc = TRUE]
  <2>1. RowOf(w) \in Row /\ docs' = docs /\ a \in Attempts
    BY <1>2, <1>14 DEF RetrySave, At
  <2>2. r \in Row /\ r.doc /\ f \in Row /\ f.doc
    BY <2>1 DEF Row, Statuses, Terminal
  <2>3. \/ rows' = rows
        \/ SetRow(w, Exhausted(RowOf(w)))
        \/ job[w].out.erp \in {"ok", "attach"} /\ (SetRow(w, r) \/ SetRow(w, f))
    BY <1>14 DEF RetrySave, RetryFailed
  <2> HIDE DEF r, f
  <2>4. QED
    BY <1>1, <1>3, <2>1, <2>2, <2>3, SameRows, WriteRow, RowWrites
<1>15. QED
  BY <1>4, <1>5, <1>6, <1>7, <1>8, <1>9, <1>10, <1>11, <1>12, <1>13, <1>14 DEF WorkerStep

\* Every step creates one document, claims an existing one, or does neither.
LEMMA LedgerNext == IInv /\ [Next]_vars => LedgerStep
<1> SUFFICES ASSUME IInv, [Next]_vars
             PROVE  LedgerStep
  OBVIOUS
<1>1. CASE UNCHANGED vars
  BY <1>1, SameRows DEF vars
<1>2. ASSUME NEW w \in Workers, Take(w) \/ WorkerStep(w) \/ Crash(w) \/ Kill(w)
      PROVE  LedgerStep
  BY <1>2, WorkerStepLedger, SameRows DEF Take, Crash, Kill
<1>3. ASSUME NEW m \in Mails, Poll(m)
      PROVE  LedgerStep
  BY <1>3, SameRows DEF Poll
<1>4. CASE Recover
  BY <1>4, RecoverType DEF IInv, LedgerStep, Quiet, NoNewClaim
<1>5. ASSUME NEW a \in Attempts, LeaseExpire(a)
      PROVE  LedgerStep
  <2>1. rows \in [Attempts -> Row] /\ docs' = docs
    BY <1>5, TypedParts DEF IInv, LeaseExpire
  <2>2. \A b \in Attempts : rows'[b].doc = rows[b].doc
    BY <1>5, <2>1 DEF LeaseExpire, Row
  <2>3. QED
    BY <2>1, <2>2 DEF LedgerStep, Quiet, NoNewClaim
<1>6. ASSUME NEW a \in Attempts, Operator(a)
      PROVE  LedgerStep
  <2>1. PICK r \in Row : Saves(a, r) /\ r.doc = rows[a].doc
    BY <1>6, OperatorWrites DEF IInv
  <2>2. rows \in [Attempts -> Row] /\ docs' = docs
    BY <1>6, OperatorWrites, TypedParts DEF IInv
  <2>3. QED
    BY <2>1, <2>2 DEF Saves, LedgerStep, Quiet, NoNewClaim
<1>7. QED
  BY <1>1, <1>2, <1>3, <1>4, <1>5, <1>6 DEF Next

-----------------------------------------------------------------------------
(* The answers workers carry *)

\* Worker v carries no new answer of 1C.
NoNewAnswer(v) ==
  job'[v].out.erp # "none"
    => job'[v].out.erp = job[v].out.erp /\ job'[v].att = job[v].att

\* Moving a worker does not change the answer it holds.
LEMMA GotoAnswer ==
  ASSUME Typed, NEW w \in Workers, NEW p, Goto(w, p)
  PROVE  \A v \in Workers : NoNewAnswer(v)
<1>1. job \in [Workers -> Job]
  BY TypedParts DEF JobsTyped
<1>2. QED
  BY <1>1 DEF Goto, NoNewAnswer, Job

\* A worker that returns holds no answer.
LEMMA ReturnAnswer ==
  ASSUME Typed, NEW w \in Workers, Return(w)
  PROVE  \A v \in Workers : NoNewAnswer(v)
<1>1. job \in [Workers -> Job]
  BY TypedParts DEF JobsTyped
<1>2. Idle.out.erp = "none"
  BY DEF Idle, NoOutcome
<1>3. QED
  BY <1>1, <1>2 DEF Return, NoNewAnswer

\* A worker that goes on to its next recipient holds no answer.
LEMMA NextRecipientAnswer ==
  ASSUME Typed, NEW w \in Workers, NextRecipient(w)
  PROVE  \A v \in Workers : NoNewAnswer(v)
<1>1. job \in [Workers -> Job]
  BY TypedParts DEF JobsTyped
<1>2. \A m, i : Recipient(m, i).out.erp = "none"
  BY DEF Recipient, Idle, NoOutcome
<1>3. CASE Return(w)
  BY <1>3, ReturnAnswer
<1>4. CASE \E m, i : job' = [job EXCEPT ![w] = Recipient(m, i)]
  <2>1. PICK m, i : job' = [job EXCEPT ![w] = Recipient(m, i)]
    BY <1>4
  <2>2. QED
    BY <1>1, <1>2, <2>1 DEF NoNewAnswer
<1>5. QED
  BY <1>3, <1>4 DEF NextRecipient

\* No step of a worker but the call to 1C gives any worker an answer.
LEMMA WorkerAnswer ==
  ASSUME Typed, NEW w \in Workers,
         Take(w) \/ (WorkerStep(w) /\ ~Create(w)) \/ Crash(w) \/ Kill(w)
  PROVE  \A v \in Workers : NoNewAnswer(v)
<1>1. job \in [Workers -> Job]
  BY TypedParts DEF JobsTyped
<1>2. CASE Take(w)
  <2>1. PICK t : job' = [job EXCEPT ![w] =
                   IF t.kind = "process" THEN Recipient(t.mail, 1)
                   ELSE [Idle EXCEPT !.pc = "load", !.task = t, !.att = t.att]]
    BY <1>2 DEF Take
  <2>2. job'[w].out.erp = "none"
    BY <1>1, <2>1 DEF Recipient, Idle, NoOutcome
  <2>3. QED
    BY <1>1, <2>1, <2>2 DEF NoNewAnswer
<1>3. CASE Start(w)
  BY <1>1, <1>3, GotoAnswer DEF Start, NoNewAnswer, Job
<1>4. CASE Graph(w)
  <2>1. PICK p, o : o.erp = "none" /\ job' = [job EXCEPT ![w].pc = p, ![w].out = o]
    <3>1. Approved.erp = "none"
      BY DEF Approved, NoOutcome
    <3>2. QED
      BY <1>4, <3>1, VerdictOutcomes DEF Graph
  <2>2. QED
    BY <1>1, <2>1 DEF NoNewAnswer, Job
<1>5. CASE LoadRetry(w) \/ LoadContinue(w)
  <2>1. \/ \E p : Goto(w, p)
        \/ Return(w)
        \/ \E p, s : job' = [job EXCEPT ![w].pc = p, ![w].snap = s]
    BY <1>5 DEF LoadRetry, LoadContinue
  <2>2. ASSUME NEW p, NEW s, job' = [job EXCEPT ![w].pc = p, ![w].snap = s]
        PROVE  \A v \in Workers : NoNewAnswer(v)
    BY <1>1, <2>2 DEF NoNewAnswer, Job
  <2>3. QED
    BY <2>1, <2>2, GotoAnswer, ReturnAnswer
<1>6. CASE Check(w) \/ Post(w)
  BY <1>6, GotoAnswer, ReturnAnswer, NextRecipientAnswer DEF Check, Post
<1>7. CASE GraphRaise(w) \/ SyncSave(w) \/ RetrySave(w) \/ Crash(w) \/ Kill(w)
  BY <1>7, ReturnAnswer DEF GraphRaise, SyncSave, RetrySave, Crash, Kill
<1>8. CASE Finalize(w) \/ LoadReprocess(w) \/ HumanSync(w) \/ LoadSync(w)
  BY <1>8, GotoAnswer, ReturnAnswer DEF Finalize, LoadReprocess, HumanSync, LoadSync
<1>9. QED
  BY <1>2, <1>3, <1>4, <1>5, <1>6, <1>7, <1>8 DEF WorkerStep

-----------------------------------------------------------------------------
(* The invariant and the theorems *)

\* Documents are never lost.
LEMMA DocsGrow ==
  ASSUME Typed, LedgerStep
  PROVE  \A a \in Attempts : docs[a] > 0 => docs'[a] > 0
<1>1. docs \in [Attempts -> Nat]
  BY TypedParts
<1>2. QED
  BY <1>1 DEF LedgerStep, Quiet, Made, Claim

\* Every step keeps every answer a worker holds backed by a document.
LEMMA AnswersNext == IInv /\ [Next]_vars => AnswersAreBacked'
<1> DEFINE Backed(v) == /\ job[v].out.erp \in {"ok", "attach"}
                            => job[v].att \in Attempts /\ docs[job[v].att] > 0
                        /\ job[v].out.erp = "skip" => job[v].att \notin Info
<1> SUFFICES ASSUME IInv, [Next]_vars, NEW v \in Workers
             PROVE  Backed(v)'
  BY DEF AnswersAreBacked
<1>1. \A a \in Attempts : docs[a] > 0 => docs'[a] > 0
  BY DocsGrow, LedgerNext DEF IInv
<1>2. CASE NoNewAnswer(v)
  <2>1. job'[v].out.erp # "none" => job'[v].out.erp = job[v].out.erp /\ job'[v].att = job[v].att
    BY <1>2 DEF NoNewAnswer
  <2>2. QED
    BY <1>1, <2>1 DEF IInv, AnswersAreBacked
<1>3. ASSUME NEW w \in Workers, Create(w)
      PROVE  Backed(v)'
  <2>1. CASE v = w
    BY <1>3, <2>1, CreateStep, BusyWorker DEF IInv, Create, At
  <2>2. CASE v # w
    BY <1>2, <1>3, <2>2, CreateStep DEF IInv, NoNewAnswer
  <2>3. QED
    BY <2>1, <2>2
<1>4. ASSUME job' = job
      PROVE  NoNewAnswer(v)
  BY <1>4 DEF NoNewAnswer
<1>5. ASSUME NEW a \in Attempts, Operator(a)
      PROVE  job' = job
  BY <1>5, OperatorWrites DEF IInv
<1>6. CASE UNCHANGED vars
  BY <1>2, <1>4, <1>6 DEF vars
<1>7. QED
  BY <1>2, <1>3, <1>4, <1>5, <1>6, WorkerAnswer DEF Next, IInv, Poll, Recover, LeaseExpire, WorkerStep

\* No step registers a letter outside the info@ route.
LEMMA EligibleNext == IInv /\ [Next]_vars => OnlyEligibleRegistered'
<1> SUFFICES ASSUME IInv, [Next]_vars, NEW a \in Attempts, docs'[a] > 0
             PROVE  a \in Info
  BY DEF OnlyEligibleRegistered
<1>1. LedgerStep /\ docs \in [Attempts -> Nat]
  BY LedgerNext, TypedParts DEF IInv
<1>2. docs[a] > 0 => a \in Info
  BY DEF IInv, OnlyEligibleRegistered
<1>3. QED
  BY <1>1, <1>2 DEF LedgerStep, Quiet, Made, Claim

\* Every step keeps every claim of a row backed by a document.
LEMMA ClaimsNext == IInv /\ [Next]_vars => ClaimedDocumentExists'
<1> SUFFICES ASSUME IInv, [Next]_vars, NEW a \in Attempts, rows'[a].doc
             PROVE  docs'[a] > 0
  BY DEF ClaimedDocumentExists
<1>1. LedgerStep
  BY LedgerNext
<1>2. rows[a].doc => docs'[a] > 0
  BY <1>1, DocsGrow DEF IInv, ClaimedDocumentExists
<1>3. QED
  BY <1>1, <1>2 DEF LedgerStep, Quiet, Made, Claim, NoNewClaim

\* The inductive invariant holds initially ...
LEMMA InvInit == Init => IInv
<1> SUFFICES ASSUME Init
             PROVE  IInv
  OBVIOUS
<1>1. Typed
  BY TypedInit
<1>2. ClaimedDocumentExists /\ AnswersAreBacked /\ OnlyEligibleRegistered
  BY DEF Init, ClaimedDocumentExists, AnswersAreBacked, OnlyEligibleRegistered, NoRow, Idle, NoOutcome
<1>3. QED
  BY <1>1, <1>2 DEF IInv

\* ... is preserved by every step ...
LEMMA InvNext == IInv /\ [Next]_vars => IInv'
BY TypedNext, ClaimsNext, AnswersNext, EligibleNext DEF IInv

\* ... and so holds always.
LEMMA Invariance == Spec => []IInv
BY InvInit, InvNext, PTL DEF Spec

\* The row never names a document that 1C does not hold, for any number of
\* workers and any order of retries, crashes and operator calls.
THEOREM ClaimsAreTrue == Spec => []ClaimedDocumentExists
<1>1. IInv => ClaimedDocumentExists
  BY DEF IInv
<1>2. QED
  BY <1>1, Invariance, PTL

\* The mail agent implements the ledger: every step creates a document, claims
\* an existing one, or leaves the ledger alone.
THEOREM ImplementsLedger == Spec => LedgerSpec
<1>1. Init => Ledger!Init
  BY DEF Init, Ledger!Init, NoRow
<1>2. IInv /\ [Next]_vars => [Ledger!Next]_(Ledger!ledgerVars)
  <2> SUFFICES ASSUME IInv, [Next]_vars
               PROVE  [Ledger!Next]_(Ledger!ledgerVars)
    OBVIOUS
  <2> DEFINE claimed == [a \in Attempts |-> rows[a].doc]
  <2>1. LedgerStep
    BY LedgerNext
  <2>2. CASE Quiet
    BY <2>2 DEF Quiet, NoNewClaim, Ledger!ledgerVars
  <2>3. ASSUME NEW a \in Attempts, Made(a)
        PROVE  Ledger!Create(a)
    BY <2>3 DEF Made, NoNewClaim, Ledger!Create
  <2>4. ASSUME NEW a \in Attempts, Claim(a)
        PROVE  Ledger!Claim(a)
    <3>1. \A b \in Attempts : rows'[b].doc = IF b = a THEN TRUE ELSE rows[b].doc
      <4>1. rows'[a].doc = TRUE
        <5>1. rows'[a] \in Row
          BY TypedNext DEF IInv, Typed, TypeOK
        <5>2. QED
          BY <2>4, <5>1 DEF Claim, Row
      <4>2. QED
        BY <2>4, <4>1 DEF Claim
    <3>2. QED
      BY <2>4, <3>1 DEF Claim, Ledger!Claim
  <2>5. QED
    BY <2>1, <2>2, <2>3, <2>4 DEF LedgerStep, Ledger!Next
<1>3. QED
  BY <1>1, <1>2, Invariance, PTL DEF Spec, LedgerSpec, Ledger!Spec

-----------------------------------------------------------------------------
(***************************************************************************)
(* The lease.  A letter whose graph is running is protected by its lease,  *)
(* over every fault of the model but a swallowed database error, and however*)
(* many workers there are, as long as the operator sends no row back to    *)
(* processing and forces no retry (Gentle): those endpoints and their tasks*)
(* write "processing", or an older payload, without dating the row.        *)
(*                                                                         *)
(* RunningIsLeased is inductive once three facts are added: no task that   *)
(* resumes a row is queued or executed, a worker that has not started its  *)
(* row does not call it its own, and one that runs the graph does.         *)
(***************************************************************************)

Gentle == /\ Decisions \cap {"mark_not_spam", "approve", "reanalyze", "retry_erp"} = {}
          /\ "db" \notin Faults \cup Chronic

\* Tasks that write a row without dating it.
Resumes(t) == t.kind = "continue" \/ (t.kind = "retry" /\ t.force)

NoneQueued    == \A t \in Task : Resumes(t) => queue[t] = 0
NoneResumed   == \A w \in Workers : ~Resumes(job[w].task)
StartsUnrowed == \A w \in Workers : job[w].pc \in {"check", "start", "load"} => ~job[w].row

\* A run on the row it has dated keeps the date.
OwnRowIsLeased ==
  \A w \in Workers, a \in Attempts :
    Holds(w, a) /\ rows[a].st = "processing" => rows[a].lease

LeaseInv == Typed /\ NoneQueued /\ NoneResumed /\ StartsUnrowed /\ OwnRowIsLeased

-----------------------------------------------------------------------------
(* What a step may do *)

\* No row comes to be in processing without a lease.
KeepsLease ==
  \A a \in Attempts :
    rows'[a].st = "processing" /\ ~rows'[a].lease => rows[a].st = "processing" /\ ~rows[a].lease

\* Whoever comes to hold a row has leased it.
HoldsLeased ==
  \A w \in Workers, a \in Attempts : Holds(w, a)' => Holds(w, a) \/ rows'[a].lease

LEMMA StaysLeased ==
  ASSUME OwnRowIsLeased, KeepsLease, HoldsLeased
  PROVE  OwnRowIsLeased'
BY DEF OwnRowIsLeased, KeepsLease, HoldsLeased

Running == {"graph", "create", "final"}

\* Worker w goes on without taking a row, or with the row it has.
Onward(w) ==
  /\ \A v \in Workers \ {w} : job'[v] = job[v]
  /\ ~Resumes(job'[w].task)
  /\ \/ ~job'[w].row
     \/ /\ job'[w].att = job[w].att /\ job'[w].row = job[w].row
        /\ job'[w].pc \notin {"check", "start", "load"}
        /\ job'[w].pc \in Running => job[w].pc \in Running

LEMMA OnwardKeeps ==
  ASSUME LeaseInv, NEW w \in Workers, Onward(w)
  PROVE  NoneResumed' /\ StartsUnrowed' /\ HoldsLeased
BY DEF LeaseInv, Onward, NoneResumed, StartsUnrowed, HoldsLeased, Holds, Running

LEMMA IdleJobRow == ~Idle.row /\ ~Resumes(Idle.task)
BY DEF Idle, NoTask, Resumes

LEMMA ReturnOnward ==
  ASSUME Typed, NEW w \in Workers, Return(w)
  PROVE  Onward(w)
<1>1. job \in [Workers -> Job]
  BY TypedParts DEF JobsTyped
<1> QED
  BY <1>1, IdleJobRow DEF Return, Onward

LEMMA RecipientOnward ==
  ASSUME Typed, NEW w \in Workers, NEW m, NEW i, job' = [job EXCEPT ![w] = Recipient(m, i)]
  PROVE  Onward(w)
<1>1. job \in [Workers -> Job]
  BY TypedParts DEF JobsTyped
<1>2. ~Recipient(m, i).row /\ ~Resumes(Recipient(m, i).task)
  BY DEF Recipient, Idle, Resumes, ProcessTask
<1> QED
  BY <1>1, <1>2 DEF Onward

LEMMA NextRecipientOnward ==
  ASSUME Typed, NEW w \in Workers, NextRecipient(w)
  PROVE  Onward(w)
BY ReturnOnward, RecipientOnward DEF NextRecipient

\* From a point before the start of the row, or within or after the graph, to
\* a point that is not before both.
LEMMA GotoOnward ==
  ASSUME LeaseInv, NEW w \in Workers, NEW p, Goto(w, p),
         \/ ~job[w].row
         \/ p \notin {"check", "start", "load"} /\ (p \in Running => job[w].pc \in Running)
  PROVE  Onward(w)
<1>1. job \in [Workers -> Job] /\ ~Resumes(job[w].task)
  BY TypedParts DEF LeaseInv, JobsTyped, NoneResumed
<1> QED
  BY <1>1 DEF Goto, Onward, Job

-----------------------------------------------------------------------------
(* Messages *)

LEMMA SendGentle ==
  ASSUME queue \in [Task -> Nat], NoneQueued, NEW t, ~Resumes(t), Send(t)
  PROVE  NoneQueued'
BY DEF NoneQueued, Send

LEMMA QueueStays == NoneQueued /\ UNCHANGED queue => NoneQueued'
BY DEF NoneQueued

LEMMA GentleMessages ==
  /\ \A m : ~Resumes(ProcessTask(m))
  /\ \A a : ~Resumes(RetryTask(a, FALSE)) /\ ~Resumes(SyncTask(a))
  /\ \A a, d, n : ~Resumes(ReprocessTask(a, d, n))
BY DEF Resumes, ProcessTask, RetryTask, SyncTask, ReprocessTask

-----------------------------------------------------------------------------
(* Rows *)

\* The row of worker w is replaced by r, which is dated or not processing, or
\* keeps status and date.
LEMMA RowKeepsLease ==
  ASSUME Typed, NEW w \in Workers, ~At(w, "idle"), NEW r, SetRow(w, r),
         \/ r.st # "processing" \/ r.lease
         \/ r.st = RowOf(w).st /\ r.lease = RowOf(w).lease
  PROVE  KeepsLease
<1>1. job[w].att \in Attempts /\ rows \in [Attempts -> Row]
  BY BusyWorker, TypedParts
<1>2. rows' = [rows EXCEPT ![job[w].att] = r]
  BY DEF SetRow
<1> QED
  BY <1>1, <1>2 DEF KeepsLease, RowOf

LEMMA SameRowsKeep == UNCHANGED rows => KeepsLease
BY DEF KeepsLease

LEMMA WrittenRows ==
  ASSUME NEW r \in Row
  PROVE  /\ StartedRow(r).lease
         /\ RestoredRow(r).st # "processing"
         /\ Exhausted(r).st # "processing"
         /\ \A rev : FailedRow(r, rev).st # "processing"
         /\ \A o \in Outcome : FinalRow(r, o).st # "processing" /\ SyncedRow(r, o).st # "processing"
BY DEF Row, StartedRow, RestoredRow, Exhausted, FailedRow, FinalRow, SyncedRow, FinalStatus

-----------------------------------------------------------------------------
(* The steps of a worker *)

\* What a step has to keep, apart from the types.
LeaseKept == NoneQueued' /\ NoneResumed' /\ StartsUnrowed' /\ OwnRowIsLeased'

LEMMA OnwardLeased ==
  ASSUME LeaseInv, NEW w \in Workers, Onward(w), KeepsLease, NoneQueued'
  PROVE  LeaseKept
BY OnwardKeeps, StaysLeased DEF LeaseKept, LeaseInv

LEMMA TakeLeased ==
  ASSUME LeaseInv, NEW w \in Workers, Take(w)
  PROVE  LeaseKept
<1>1. PICK t \in Task :
        /\ queue[t] > 0
        /\ queue' = [queue EXCEPT ![t] = @ - 1]
        /\ job' = [job EXCEPT ![w] =
             IF t.kind = "process" THEN Recipient(t.mail, 1)
             ELSE [Idle EXCEPT !.pc = "load", !.task = t, !.att = t.att]]
  BY DEF Take, Task
<1>2. queue \in [Task -> Nat] /\ job \in [Workers -> Job] /\ Typed
  BY TypedParts DEF LeaseInv, JobsTyped
<1>3. ~Resumes(t)
  BY <1>1, <1>2 DEF LeaseInv, NoneQueued
<1>4. NoneQueued'
  BY <1>1, <1>2, <1>3 DEF LeaseInv, NoneQueued
<1>5. Onward(w)
  <2>1. CASE t.kind = "process"
    BY <1>1, <1>2, <2>1, RecipientOnward
  <2>2. CASE t.kind # "process"
    <3> DEFINE j == [Idle EXCEPT !.pc = "load", !.task = t, !.att = t.att]
    <3>1. ~j.row /\ j.task = t
      BY DEF Idle
    <3> HIDE DEF j
    <3>2. job' = [job EXCEPT ![w] = j]
      BY <1>1, <2>2 DEF j
    <3> QED
      BY <1>2, <1>3, <3>1, <3>2 DEF Onward
  <2> QED
    BY <2>1, <2>2
<1> QED
  BY <1>4, <1>5, OnwardLeased, SameRowsKeep DEF Take

LEMMA CheckLeased ==
  ASSUME LeaseInv, NEW w \in Workers, Check(w)
  PROVE  LeaseKept
<1>1. ~job[w].row
  BY DEF LeaseInv, StartsUnrowed, Check, At
<1>2. Onward(w)
  BY <1>1, NextRecipientOnward, GotoOnward DEF LeaseInv, Check
<1> QED
  BY <1>2, OnwardLeased, SameRowsKeep, QueueStays DEF Check, LeaseInv

\* The row is dated in the transaction that takes it.
LEMMA StartLeased ==
  ASSUME LeaseInv, NEW w \in Workers, Start(w)
  PROVE  LeaseKept
<1>1. /\ ~job[w].row /\ ~At(w, "idle") /\ Typed
      /\ RowOf(w) \in Row /\ job[w].att \in Attempts
  BY BusyWorker DEF LeaseInv, StartsUnrowed, Start, At
<1>2. NoneQueued'
  BY QueueStays DEF LeaseInv, Start
<1>3. CASE Goto(w, "graph") /\ UNCHANGED rows
  BY <1>1, <1>2, <1>3, GotoOnward, OnwardLeased, SameRowsKeep
<1>4. CASE SetRow(w, StartedRow(RowOf(w))) /\ job' = [job EXCEPT ![w].pc = "graph", ![w].row = TRUE]
  <2>1. StartedRow(RowOf(w)).lease
    BY <1>1, WrittenRows
  <2>2. KeepsLease
    BY <1>1, <1>4, <2>1, RowKeepsLease
  <2>3. rows'[job[w].att].lease
    BY <1>1, <1>4, <2>1, TypedParts DEF SetRow
  <2>4. /\ job'[w].task = job[w].task /\ job'[w].att = job[w].att /\ job'[w].pc = "graph"
        /\ \A v \in Workers \ {w} : job'[v] = job[v]
    BY <1>1, <1>4, TypedParts DEF JobsTyped, Job
  <2>5. NoneResumed' /\ StartsUnrowed' /\ HoldsLeased
    BY <2>3, <2>4 DEF LeaseInv, NoneResumed, StartsUnrowed, HoldsLeased, Holds
  <2> QED
    BY <1>2, <2>2, <2>5, StaysLeased DEF LeaseKept, LeaseInv
<1> QED
  BY <1>3, <1>4 DEF Start

LEMMA GraphLeased ==
  ASSUME LeaseInv, NEW w \in Workers, Graph(w)
  PROVE  LeaseKept
<1>1. PICK p, o : job' = [job EXCEPT ![w].pc = p, ![w].out = o] /\ p \in {"create", "final"}
  BY DEF Graph
<1>2. job \in [Workers -> Job] /\ ~Resumes(job[w].task)
  BY TypedParts DEF LeaseInv, JobsTyped, NoneResumed
<1>3. /\ job'[w].pc = p /\ job'[w].att = job[w].att
      /\ job'[w].row = job[w].row /\ job'[w].task = job[w].task
      /\ \A v \in Workers \ {w} : job'[v] = job[v]
  BY <1>1, <1>2 DEF Job
<1>4. job[w].pc = "graph"
  BY DEF Graph, At
<1>5. Onward(w)
  BY <1>1, <1>2, <1>3, <1>4 DEF Onward, Running
<1> QED
  BY <1>5, OnwardLeased, SameRowsKeep, QueueStays DEF Graph, LeaseInv

LEMMA GraphRaiseLeased ==
  ASSUME LeaseInv, NEW w \in Workers, GraphRaise(w)
  PROVE  LeaseKept
<1> DEFINE t == job[w].task
<1>1. /\ Typed /\ ~At(w, "idle") /\ RowOf(w) \in Row /\ t \in Task /\ ~Resumes(t)
      /\ queue \in [Task -> Nat]
  BY BusyWorker, TypedParts DEF LeaseInv, NoneResumed, GraphRaise, At
<1>2. Onward(w)
  BY <1>1, ReturnOnward DEF GraphRaise
<1>3. \A rev : SetRow(w, FailedRow(RowOf(w), rev)) => KeepsLease
  <2> TAKE rev
  <2> HAVE SetRow(w, FailedRow(RowOf(w), rev))
  <2>1. FailedRow(RowOf(w), rev).st # "processing"
    BY <1>1, WrittenRows
  <2> QED
    BY <1>1, <2>1, RowKeepsLease
<1>4. t.kind # "continue"
  BY <1>1 DEF Resumes
<1>5. KeepsLease
  <2>1. CASE t.kind = "process"
    BY <1>3, <2>1, SameRowsKeep DEF GraphRaise
  <2>2. CASE t.kind = "reprocess"
    BY <1>3, <2>2, SameRowsKeep DEF GraphRaise
  <2>3. CASE t.kind \notin {"process", "reprocess"}
    BY <1>4, <2>3, SameRowsKeep DEF GraphRaise
  <2> QED
    BY <2>1, <2>2, <2>3
<1>6. NoneQueued'
  <2>1. CASE t.kind = "reprocess" /\ Send([t EXCEPT !.tries = @ + 1])
    <3>1. [t EXCEPT !.tries = @ + 1].kind = "reprocess"
      BY <1>1, <2>1 DEF Task, MailTask, ErpTask
    <3>2. ~Resumes([t EXCEPT !.tries = @ + 1])
      BY <3>1 DEF Resumes
    <3> QED
      BY <1>1, <2>1, <3>2, SendGentle DEF LeaseInv
  <2>2. CASE UNCHANGED queue
    BY <2>2, QueueStays DEF LeaseInv
  <2> QED
    BY <1>4, <2>1, <2>2 DEF GraphRaise
<1> QED
  BY <1>2, <1>5, <1>6, OnwardLeased

LEMMA CreateLeased ==
  ASSUME LeaseInv, NEW w \in Workers, Create(w)
  PROVE  LeaseKept
<1>1. PICK p, o : /\ job' = [job EXCEPT ![w].pc = p, ![w].out = o]
                  /\ p = IF At(w, "create") THEN "final" ELSE "rsave"
  BY DEF Create
<1>2. job \in [Workers -> Job] /\ ~Resumes(job[w].task)
  BY TypedParts DEF LeaseInv, JobsTyped, NoneResumed
<1>3. Onward(w)
  BY <1>1, <1>2 DEF Onward, Job, At, Running
<1> QED
  BY <1>3, OnwardLeased, SameRowsKeep, QueueStays DEF Create, LeaseInv

LEMMA FinalizeLeased ==
  ASSUME LeaseInv, NEW w \in Workers, Finalize(w)
  PROVE  LeaseKept
<1>1. Typed /\ ~At(w, "idle") /\ RowOf(w) \in Row /\ job[w].out \in Outcome
  BY BusyWorker DEF LeaseInv, Finalize, At
<1>2. Onward(w)
  BY GotoOnward DEF Finalize, Running
<1>3. KeepsLease
  BY <1>1, WrittenRows, RowKeepsLease, SameRowsKeep DEF Finalize
<1> QED
  BY <1>2, <1>3, OnwardLeased, QueueStays DEF Finalize, LeaseInv

LEMMA PostLeased ==
  ASSUME LeaseInv, NEW w \in Workers, Post(w)
  PROVE  LeaseKept
<1>1. Typed /\ queue \in [Task -> Nat]
  BY TypedParts DEF LeaseInv
<1>2. Onward(w)
  BY <1>1, NextRecipientOnward, ReturnOnward DEF Post
<1>3. NoneQueued'
  BY <1>1, SendGentle, GentleMessages, QueueStays DEF Post, LeaseInv
<1> QED
  BY <1>2, <1>3, OnwardLeased, SameRowsKeep DEF Post

LEMMA LoadReprocessLeased ==
  ASSUME LeaseInv, NEW w \in Workers, LoadReprocess(w)
  PROVE  LeaseKept
<1>1. Typed /\ ~At(w, "idle") /\ RowOf(w) \in Row /\ ~job[w].row
  BY BusyWorker DEF LeaseInv, StartsUnrowed, LoadReprocess, At
<1>2. Onward(w)
  BY <1>1, GotoOnward DEF LoadReprocess
<1>3. KeepsLease
  BY <1>1, WrittenRows, RowKeepsLease, SameRowsKeep DEF LoadReprocess
<1> QED
  BY <1>2, <1>3, OnwardLeased, QueueStays DEF LoadReprocess, LeaseInv

\* No worker executes continue_after_human.
LEMMA HumanLeased ==
  ASSUME LeaseInv, NEW w \in Workers, HumanSync(w)
  PROVE  LeaseKept
<1>1. Typed /\ ~At(w, "idle") /\ RowOf(w) \in Row /\ job[w].out \in Outcome
  BY BusyWorker DEF LeaseInv, HumanSync, At
<1>2. Onward(w)
  BY <1>1, GotoOnward, ReturnOnward DEF HumanSync, Running
<1>3. KeepsLease
  BY <1>1, WrittenRows, RowKeepsLease, SameRowsKeep DEF HumanSync
<1> QED
  BY <1>2, <1>3, OnwardLeased, QueueStays DEF HumanSync, LeaseInv

LEMMA LoadRetryLeased ==
  ASSUME LeaseInv, NEW w \in Workers, LoadRetry(w)
  PROVE  LeaseKept
<1> DEFINE b == RetryBranch(job[w].att)
<1>1. Typed /\ ~At(w, "idle") /\ RowOf(w) \in Row /\ ~job[w].row
  BY BusyWorker DEF LeaseInv, StartsUnrowed, LoadRetry, At
<1>2. KeepsLease
  <2>1. SetRow(w, Exhausted(RowOf(w))) => KeepsLease
    BY <1>1, WrittenRows, RowKeepsLease
  <2>2. SetRow(w, [RowOf(w) EXCEPT !.retry = @ + 1]) => KeepsLease
    <3> DEFINE r == [RowOf(w) EXCEPT !.retry = @ + 1]
    <3>1. r.st = RowOf(w).st /\ r.lease = RowOf(w).lease
      BY <1>1 DEF Row
    <3> HIDE DEF r
    <3>2. SetRow(w, r) => KeepsLease
      BY <1>1, <3>1, RowKeepsLease
    <3> QED
      BY <3>2 DEF r
  <2> QED
    BY <2>1, <2>2, SameRowsKeep DEF LoadRetry
<1>3. Onward(w)
  <2>1. CASE \E s : job' = [job EXCEPT ![w].pc = "patch", ![w].snap = s]
    <3>1. job \in [Workers -> Job] /\ ~Resumes(job[w].task)
      BY TypedParts DEF LeaseInv, JobsTyped, NoneResumed
    <3> QED
      BY <1>1, <2>1, <3>1 DEF Onward, Job
  <2>2. CASE Goto(w, "rcreate") \/ Goto(w, "graph") \/ Return(w)
    BY <1>1, <2>2, GotoOnward, ReturnOnward
  <2> QED
    BY <2>1, <2>2 DEF LoadRetry
<1> QED
  BY <1>2, <1>3, OnwardLeased, QueueStays DEF LoadRetry, LeaseInv

LEMMA LoadSyncLeased ==
  ASSUME LeaseInv, NEW w \in Workers, LoadSync(w)
  PROVE  LeaseKept
<1>1. Typed /\ ~job[w].row
  BY DEF LeaseInv, StartsUnrowed, LoadSync, At
<1>2. Onward(w)
  BY <1>1, GotoOnward, ReturnOnward DEF LoadSync
<1> QED
  BY <1>2, OnwardLeased, SameRowsKeep, QueueStays DEF LoadSync, LeaseInv

\* Only a forced retry writes an older payload, and with it an older date.
LEMMA SyncSaveLeased ==
  ASSUME LeaseInv, NEW w \in Workers, SyncSave(w)
  PROVE  LeaseKept
<1>1. Typed /\ ~At(w, "idle") /\ RowOf(w) \in Row /\ ~Resumes(job[w].task)
  BY BusyWorker DEF LeaseInv, NoneResumed, SyncSave, At
<1> DEFINE r == [RowOf(w) EXCEPT !.rev = FALSE]
<1>2. SetRow(w, r) \/ UNCHANGED rows
  BY <1>1 DEF SyncSave, Resumes
<1>3. r.st = RowOf(w).st /\ r.lease = RowOf(w).lease
  BY <1>1 DEF Row
<1> HIDE DEF r
<1>4. KeepsLease
  BY <1>1, <1>2, <1>3, RowKeepsLease, SameRowsKeep
<1>5. Onward(w)
  BY <1>1, ReturnOnward DEF SyncSave
<1> QED
  BY <1>4, <1>5, OnwardLeased, QueueStays DEF SyncSave, LeaseInv

LEMMA RetrySaveLeased ==
  ASSUME LeaseInv, NEW w \in Workers, RetrySave(w)
  PROVE  LeaseKept
<1> DEFINE r == RowOf(w)
           registered == [r EXCEPT !.doc = TRUE, !.st = "done", !.rev = FALSE, !.retry = 0]
           attached   == [r EXCEPT !.doc = TRUE]
<1>1. Typed /\ ~At(w, "idle") /\ r \in Row /\ queue \in [Task -> Nat]
  BY BusyWorker, TypedParts DEF LeaseInv, RetrySave, At
<1>2. registered.st = "done" /\ attached.st = r.st /\ attached.lease = r.lease
  BY <1>1 DEF Row
<1>3. SetRow(w, registered) => KeepsLease
  <2> HIDE DEF registered
  <2> QED
    BY <1>1, <1>2, RowKeepsLease
<1>4. SetRow(w, attached) => KeepsLease
  <2> HIDE DEF attached
  <2> QED
    BY <1>1, <1>2, RowKeepsLease
<1>5. SetRow(w, Exhausted(r)) => KeepsLease
  BY <1>1, WrittenRows, RowKeepsLease
<1>6. KeepsLease
  BY <1>3, <1>4, <1>5, SameRowsKeep DEF RetrySave, RetryFailed
<1>7. NoneQueued'
  <2>1. UNCHANGED queue \/ Send(RetryTask(job[w].att, FALSE))
    BY DEF RetrySave, RetryFailed, SendOrLose
  <2> QED
    BY <1>1, <2>1, SendGentle, GentleMessages, QueueStays DEF LeaseInv
<1>8. Onward(w)
  BY <1>1, ReturnOnward DEF RetrySave
<1> QED
  BY <1>6, <1>7, <1>8, OnwardLeased

LEMMA LossLeased ==
  ASSUME LeaseInv, NEW w \in Workers, Crash(w) \/ Kill(w)
  PROVE  LeaseKept
<1>1. Typed /\ queue \in [Task -> Nat] /\ ~Resumes(job[w].task)
  BY TypedParts DEF LeaseInv, NoneResumed
<1>2. Onward(w)
  BY <1>1, ReturnOnward DEF Crash, Kill
<1>3. NoneQueued'
  BY <1>1, SendGentle, QueueStays DEF Crash, Kill, LeaseInv
<1> QED
  BY <1>2, <1>3, OnwardLeased, SameRowsKeep DEF Crash, Kill

-----------------------------------------------------------------------------
(* Beat and the operator *)

LEMMA SameWorkers ==
  ASSUME LeaseInv, UNCHANGED job
  PROVE  NoneResumed' /\ StartsUnrowed' /\ HoldsLeased
BY DEF LeaseInv, NoneResumed, StartsUnrowed, HoldsLeased, Holds

LEMMA PollLeased ==
  ASSUME LeaseInv, NEW m \in Mails, Poll(m)
  PROVE  LeaseKept
<1>1. NoneQueued'
  BY SendGentle, GentleMessages, TypedParts DEF Poll, LeaseInv
<1> QED
  BY <1>1, SameWorkers, SameRowsKeep, StaysLeased DEF Poll, LeaseKept, LeaseInv

LEMMA RecoverLeased ==
  ASSUME LeaseInv, Recover
  PROVE  LeaseKept
<1> DEFINE stale == {a \in Processing : ~rows[a].lease}
           leased(R) == [a \in Attempts |-> IF a \in R THEN [rows[a] EXCEPT !.lease = TRUE] ELSE rows[a]]
           published(sent) ==
             [t \in Task |-> queue[t] +
                IF t.kind = "process" THEN Cardinality({a \in sent : a[1] = t.mail}) ELSE 0]
<1>1. PICK R \in SUBSET stale : /\ UNCHANGED job /\ rows' = leased(R)
                                /\ \E sent \in SUBSET R : queue' = published(sent)
  BY DEF Recover
<1>2. PICK sent \in SUBSET R : queue' = published(sent)
  BY <1>1
<1>3. rows \in [Attempts -> Row] /\ queue \in [Task -> Nat]
  BY TypedParts DEF LeaseInv
<1>4. KeepsLease
  BY <1>1, <1>3 DEF KeepsLease, Row
<1>5. NoneQueued'
  <2>1. \A t \in Task : Resumes(t) => t.kind # "process"
    BY DEF Resumes
  <2> QED
    BY <1>2, <1>3, <2>1 DEF LeaseInv, NoneQueued
<1> QED
  BY <1>1, <1>4, <1>5, SameWorkers, StaysLeased DEF LeaseKept, LeaseInv

\* A lease runs out only while nobody holds the row.
LEMMA LeaseExpireLeased ==
  ASSUME LeaseInv, NEW a \in Attempts, LeaseExpire(a)
  PROVE  LeaseKept
<1>1. rows \in [Attempts -> Row]
  BY TypedParts DEF LeaseInv
<1>2. rows' = [rows EXCEPT ![a].lease = FALSE] /\ \A w \in Workers : ~Holds(w, a)
  BY DEF LeaseExpire
<1>3. \A c \in Attempts \ {a} : rows'[c] = rows[c]
  BY <1>1, <1>2
<1>4. \A w \in Workers, c \in Attempts : Holds(w, c)' <=> Holds(w, c)
  BY DEF LeaseExpire, Holds
<1>5. OwnRowIsLeased'
  BY <1>2, <1>3, <1>4 DEF LeaseInv, OwnRowIsLeased
<1> QED
  BY <1>5, SameWorkers, QueueStays DEF LeaseExpire, LeaseKept, LeaseInv

\* The endpoints that send no row back to processing.
LEMMA OperatorLeased ==
  ASSUME Gentle, LeaseInv, NEW a \in Attempts, Operator(a)
  PROVE  LeaseKept
<1>1. rows \in [Attempts -> Row] /\ rows[a] \in Row /\ queue \in [Task -> Nat]
  BY TypedParts DEF LeaseInv
<1>2. \A r : Saves(a, r) /\ (r.st # "processing" \/ (r.st = rows[a].st /\ r.lease = rows[a].lease))
               => KeepsLease
  BY <1>1 DEF Saves, KeepsLease
<1>3. MarkSpam(a) \/ Correct(a) \/ MarkVerified(a) \/ RestoreFromSpam(a)
  BY DEF Gentle, Operator, MarkNotSpam, Approve, Reanalyze, RetryErp, Decide
<1>4. /\ [rows[a] EXCEPT !.st = "spam", !.rev = FALSE, !.xml = FALSE].st = "spam"
      /\ RoutedByOperator(rows[a], "done").st = "done"
      /\ RoutedByOperator(rows[a], rows[a].st).st = rows[a].st
      /\ RestoredRow(rows[a]).st = "awaiting_human"
  BY <1>1 DEF Row, RoutedByOperator, RestoredRow
<1>5. KeepsLease
  <2>1. CASE MarkSpam(a)
    BY <1>2, <1>4, <2>1 DEF MarkSpam
  <2>2. CASE Correct(a)
    BY <1>2, <1>4, <2>2 DEF Correct
  <2>3. CASE MarkVerified(a)
    <3>1. rows[a].st # "processing"
      BY <2>3 DEF MarkVerified
    <3> QED
      BY <1>2, <1>4, <2>3, <3>1 DEF MarkVerified
  <2>4. CASE RestoreFromSpam(a)
    BY <1>2, <1>4, <2>4 DEF RestoreFromSpam
  <2> QED
    BY <1>3, <2>1, <2>2, <2>3, <2>4
<1>6. NoneQueued'
  <2>1. \/ UNCHANGED queue
        \/ Send(SyncTask(a))
        \/ Send(ReprocessTask(a, "restored", 0))
    BY <1>3 DEF MarkSpam, Correct, MarkVerified, RestoreFromSpam, ScheduleSync, SendOrLose
  <2> QED
    BY <1>1, <2>1, SendGentle, GentleMessages, QueueStays DEF LeaseInv
<1>7. UNCHANGED job
  BY <1>3 DEF MarkSpam, Correct, MarkVerified, RestoreFromSpam
<1> QED
  BY <1>5, <1>6, <1>7, SameWorkers, StaysLeased DEF LeaseKept, LeaseInv

-----------------------------------------------------------------------------
(* The theorem *)

LEMMA LeaseInit == Init => LeaseInv
<1> SUFFICES ASSUME Init PROVE LeaseInv
  OBVIOUS
<1>1. NoneQueued
  BY DEF Init, NoneQueued
<1>2. \A w \in Workers : job[w] = Idle
  BY DEF Init
<1>3. \A w \in Workers : job[w].pc = "idle" /\ ~job[w].row /\ ~Resumes(job[w].task)
  BY <1>2, IdleJobRow DEF Idle
<1>4. NoneResumed /\ StartsUnrowed /\ OwnRowIsLeased
  BY <1>3 DEF NoneResumed, StartsUnrowed, OwnRowIsLeased, Holds
<1> QED
  BY <1>1, <1>4, TypedInit DEF LeaseInv

LEMMA LeaseNext ==
  ASSUME Gentle, LeaseInv, [Next]_vars
  PROVE  LeaseInv'
<1>1. Typed'
  BY TypedNext DEF LeaseInv
<1>2. CASE UNCHANGED vars
  <2>1. UNCHANGED <<rows, queue, job>>
    BY <1>2 DEF vars
  <2> QED
    BY <1>1, <2>1 DEF LeaseInv, NoneQueued, NoneResumed, StartsUnrowed, OwnRowIsLeased, Holds
<1>3. ASSUME NEW w \in Workers, WorkerStep(w)
      PROVE  LeaseKept
  <2>1. ~LoadContinue(w)
    BY DEF LoadContinue, LeaseInv, NoneResumed, Resumes
  <2> QED
    BY <1>3, <2>1, CheckLeased, StartLeased, GraphLeased, GraphRaiseLeased, CreateLeased, FinalizeLeased,
       PostLeased, LoadReprocessLeased, HumanLeased, LoadRetryLeased, LoadSyncLeased, SyncSaveLeased,
       RetrySaveLeased DEF WorkerStep
<1>4. CASE Next
  <2>1. LeaseKept
    BY <1>3, <1>4, TakeLeased, LossLeased, PollLeased, RecoverLeased, LeaseExpireLeased, OperatorLeased DEF Next
  <2> QED
    BY <1>1, <2>1 DEF LeaseKept, LeaseInv
<1> QED
  BY <1>2, <1>4

\* A run of the graph is on a row it has dated, unless it is a retry's.
RowTaken == \A w \in Workers : job[w].pc \in Running => job[w].row \/ job[w].task.kind = "retry"

\* A step of worker w that takes it out of the graph, or on in it, keeps that.
LEMMA GotoTaken ==
  ASSUME Typed, RowTaken, NEW w \in Workers, NEW p, Goto(w, p),
         p \in Running => job[w].pc \in Running \/ job[w].task.kind = "retry"
  PROVE  RowTaken'
<1>1. job \in [Workers -> Job]
  BY TypedParts DEF JobsTyped
<1>2. /\ \A v \in Workers \ {w} : job'[v] = job[v]
      /\ job'[w].pc = p /\ job'[w].row = job[w].row /\ job'[w].task = job[w].task
  BY <1>1 DEF Goto, Job
<1> QED
  BY <1>2 DEF RowTaken

LEMMA ReturnTaken ==
  ASSUME Typed, RowTaken, NEW w \in Workers, Return(w) \/ NextRecipient(w)
  PROVE  RowTaken'
<1>1. job \in [Workers -> Job]
  BY TypedParts DEF JobsTyped
<1>2. \A m, i : Recipient(m, i).pc = "check" /\ Idle.pc = "idle"
  BY DEF Recipient, Idle
<1>3. \E j : j.pc \in {"check", "idle"} /\ job' = [job EXCEPT ![w] = j]
  BY <1>2 DEF Return, NextRecipient
<1> QED
  BY <1>1, <1>3 DEF RowTaken, Running

LEMMA TakenNext ==
  ASSUME Gentle, Typed, NoneResumed, RowTaken, [Next]_vars
  PROVE  RowTaken'
<1>1. job \in [Workers -> Job]
  BY TypedParts DEF JobsTyped
<1>2. CASE UNCHANGED job
  BY <1>2 DEF RowTaken
<1>3. ASSUME NEW w \in Workers, Take(w) PROVE RowTaken'
  <2> DEFINE Loading(t) == [Idle EXCEPT !.pc = "load", !.task = t, !.att = t.att]
  <2>1. \A t : /\ Recipient(t.mail, 1).pc \in {"check", "load"}
               /\ Loading(t).pc \in {"check", "load"}
    BY DEF Recipient, Idle
  <2>2. PICK t : \/ job' = [job EXCEPT ![w] = Recipient(t.mail, 1)]
                 \/ job' = [job EXCEPT ![w] = Loading(t)]
    BY <1>3 DEF Take
  <2> HIDE DEF Loading
  <2>3. job'[w].pc \in {"check", "load"} /\ \A v \in Workers \ {w} : job'[v] = job[v]
    BY <1>1, <2>1, <2>2
  <2> QED
    BY <2>3 DEF RowTaken, Running
<1>4. ASSUME NEW w \in Workers, WorkerStep(w) PROVE RowTaken'
  <2>1. ~LoadContinue(w)
    BY DEF LoadContinue, NoneResumed, Resumes
  <2>2. CASE Start(w)
    <3>1. job' = [job EXCEPT ![w].pc = "graph", ![w].row = TRUE]
      BY <2>2 DEF Start, Fault, Gentle
    <3>2. job'[w].row /\ \A v \in Workers \ {w} : job'[v] = job[v]
      BY <1>1, <3>1 DEF Job
    <3> QED
      BY <3>2 DEF RowTaken
  <2>3. CASE Graph(w) \/ Create(w)
    <3>1. job[w].pc \in Running \/ At(w, "rcreate")
      BY <2>3 DEF Graph, Create, At, Running
    <3>2. PICK p, o : /\ job' = [job EXCEPT ![w].pc = p, ![w].out = o]
                      /\ At(w, "rcreate") => p = "rsave"
      <4>1. CASE Graph(w)
        <5>1. ~At(w, "rcreate")
          BY <4>1 DEF Graph, At
        <5>2. \E p, o : job' = [job EXCEPT ![w].pc = p, ![w].out = o]
          BY <4>1 DEF Graph
        <5> QED
          BY <5>1, <5>2
      <4>2. CASE Create(w)
        <5>1. \E o : job' = [job EXCEPT ![w].pc = IF At(w, "create") THEN "final" ELSE "rsave",
                                      ![w].out = o]
          BY <4>2 DEF Create
        <5>2. At(w, "rcreate") => ~At(w, "create")
          BY DEF At
        <5> QED
          BY <5>1, <5>2
      <4> QED
        BY <2>3, <4>1, <4>2
    <3>3. /\ job'[w].pc = p /\ job'[w].row = job[w].row /\ job'[w].task = job[w].task
          /\ \A v \in Workers \ {w} : job'[v] = job[v]
      BY <1>1, <3>2 DEF Job
    <3> QED
      BY <3>1, <3>2, <3>3 DEF RowTaken, Running
  <2>4. CASE LoadRetry(w)
    <3>1. CASE \E p, s : job' = [job EXCEPT ![w].pc = p, ![w].snap = s]
      <4>1. PICK p, s : job' = [job EXCEPT ![w].pc = p, ![w].snap = s]
        BY <3>1
      <4>2. job'[w].task = job[w].task /\ \A v \in Workers \ {w} : job'[v] = job[v]
        BY <1>1, <4>1 DEF Job
      <4> QED
        BY <2>4, <4>2 DEF RowTaken, LoadRetry
    <3>2. CASE Return(w) \/ \E p : Goto(w, p)
      BY <2>4, <3>2, GotoTaken, ReturnTaken DEF LoadRetry
    <3> QED
      BY <2>4, <3>1, <3>2 DEF LoadRetry
  <2>5. CASE Check(w) \/ GraphRaise(w) \/ Finalize(w) \/ Post(w) \/ LoadReprocess(w)
             \/ HumanSync(w) \/ LoadSync(w) \/ SyncSave(w) \/ RetrySave(w)
    <3>1. \/ Return(w) \/ NextRecipient(w)
          \/ \E p \in {"start", "hsync", "post", "patch"} : Goto(w, p)
      BY <2>5 DEF Check, GraphRaise, Finalize, Post, LoadReprocess, HumanSync, LoadSync, SyncSave, RetrySave
    <3> QED
      BY <3>1, GotoTaken, ReturnTaken DEF Running
  <2> QED
    BY <1>4, <2>1, <2>2, <2>3, <2>4, <2>5 DEF WorkerStep
<1>5. ASSUME NEW w \in Workers, Crash(w) \/ Kill(w) PROVE RowTaken'
  BY <1>5, ReturnTaken DEF Crash, Kill
<1>6. ASSUME NEW m, Poll(m) PROVE UNCHANGED job
  BY <1>6 DEF Poll
<1>7. CASE Recover
  BY <1>2, <1>7 DEF Recover
<1>8. ASSUME NEW a, LeaseExpire(a) \/ Operator(a) PROVE UNCHANGED job
  BY <1>8 DEF LeaseExpire, Operator, MarkSpam, MarkNotSpam, Approve, Correct, MarkVerified, Reanalyze,
             RestoreFromSpam, RetryErp
<1>9. CASE UNCHANGED vars
  BY <1>2, <1>9 DEF vars
<1> QED
  BY <1>2, <1>3, <1>4, <1>5, <1>6, <1>7, <1>8, <1>9 DEF Next

\* With any number of letters and workers, over every fault but a database error
\* that persist_processing_start swallows, a letter whose graph is running stays
\* leased while its row says processing, so neither recovery nor the poll takes
\* it for abandoned: whoever sets a row to processing (ensure_processing_row, the
\* recovery) dates it, except for the endpoints that Gentle leaves out and the
\* tasks they send. With approve, continue_after_human violates it (tasks.py:773).
THEOREM RunsStayLeased ==
  ASSUME Gentle
  PROVE  Spec => []RunningIsLeased
<1>1. LeaseInv /\ RowTaken => RunningIsLeased
  BY DEF LeaseInv, RowTaken, OwnRowIsLeased, RunningIsLeased, RunsGraph, Holds, Running
<1>2. LeaseInv /\ [Next]_vars => LeaseInv'
  BY Gentle, LeaseNext
<1>3. LeaseInv /\ RowTaken /\ [Next]_vars => RowTaken'
  BY TakenNext DEF LeaseInv
<1>4. Init => RowTaken
  BY DEF Init, Idle, RowTaken, Running
<1> QED
  BY <1>1, <1>2, <1>3, <1>4, LeaseInit, PTL DEF Spec

=============================================================================
