---------------------------- MODULE MailPipeline ----------------------------
(***************************************************************************)
(* The incoming-mail agent (src/src/agent_pochta): the RabbitMQ/Celery     *)
(* queues, the email_messages table, the Celery workers that run the       *)
(* LangGraph pipeline and register documents in 1C, the beat jobs that     *)
(* poll and recover, and the operator's API decisions.                     *)
(*                                                                         *)
(* A worker step is one database transaction or one external call, so two  *)
(* workers and the operator interleave exactly where the code commits.     *)
(***************************************************************************)
EXTENDS Integers, Sequences, FiniteSets

CONSTANTS
  Mails,          \* incoming letters (Message-ID without a suffix)
  Addresses,      \* mail addresses of ours
  To,             \* To[m]: the routing recipients of m, in order
  Info,           \* attempts eligible for registration in 1C (info@ route)
  Verdicts,       \* graph outcomes that may happen
  MailWorkers,    \* processes of queue "celery"
  ErpWorkers,     \* processes of queue "erp"
  RetryMax,       \* settings.erp_retry_max
  Threshold,      \* settings.processing_backlog_pause_threshold
  RecoverLimit,   \* settings.stale_recovery_limit
  Faults,         \* kinds of fault that may happen, MaxFaults times in all
  Chronic,        \* kinds of fault that may happen any number of times
  MaxFaults,      \* bound: faults in a behaviour
  Decisions,      \* operator endpoints that may be called
  MaxDecisions,   \* bound: operator calls in a behaviour
  MaxCopies       \* bound: equal messages waiting in the broker

ASSUME ConstantsAssumption ==
  /\ IsFiniteSet(Mails) /\ IsFiniteSet(Addresses)
  /\ To \in [Mails -> Seq(Addresses)] /\ \A m \in Mails : To[m] # <<>>
  /\ RetryMax \in Nat /\ Threshold \in Nat /\ RecoverLimit \in Nat
  /\ MaxFaults \in Nat /\ MaxDecisions \in Nat /\ MaxCopies \in Nat

Workers  == MailWorkers \cup ErpWorkers

\* routing_message_id: one attempt per recipient of a letter.
Attempts == {a \in Mails \X Addresses : \E i \in 1..Len(To[a[1]]) : To[a[1]][i] = a[2]}

-----------------------------------------------------------------------------
(* The table email_messages *)

Terminal == {"done", "spam", "error", "awaiting_human", "dialog"}
Statuses == Terminal \cup {"processing", "absent"}

\* rev: human_review; retry: erp_retry_count; doc: erp_document_number and
\* erp_task_id name a real document; xml: payload has xml_document; lease:
\* processing_started_at is younger than _STALE_PROCESSING_AFTER_SEC; known:
\* what the row holds of the routing result - nothing, the department, or the
\* department and summary_ru.
Row == [st : Statuses, rev : BOOLEAN, retry : Nat, doc : BOOLEAN,
        xml : BOOLEAN, lease : BOOLEAN, known : {"none", "dept", "full"}]

NoRow == [st |-> "absent", rev |-> FALSE, retry |-> 0, doc |-> FALSE,
          xml |-> FALSE, lease |-> FALSE, known |-> "none"]

\* What a run of the graph leaves in its state dict; xml: meta has xml_document.
ErpResults == {"none", "ok", "skip", "fail", "attach"}
Outcome == [st : Statuses, rev : BOOLEAN, routed : BOOLEAN, erp : ErpResults]

\* Mutant of StartedRow: re-processing clears the document reference too.
StartedRow_DropsDocument(r) ==
  [r EXCEPT !.st = "processing", !.rev = FALSE, !.xml = FALSE, !.lease = TRUE, !.doc = FALSE]

\* ensure_processing_row: the payload is rewritten, so xml_document goes.
StartedRow(r) == [r EXCEPT !.st = "processing", !.rev = FALSE, !.xml = FALSE, !.lease = TRUE]

\* Mutant of FinalStatus: a status nobody else knows.
FinalStatus_Unknown(o) == IF o.st = "processing" THEN "finished" ELSE o.st

FinalStatus(o) == IF o.st = "processing" THEN "done" ELSE o.st

\* Mutant of FinalRow: any answer of the registration step names a document.
FinalRow_AnyResult(r, o) ==
  [r EXCEPT !.st = FinalStatus(o), !.rev = o.rev, !.xml = TRUE, !.lease = FALSE,
            !.known = IF o.routed THEN "full" ELSE @,
            !.doc = @ \/ o.erp # "none"]

\* node_finalize and upsert_from_state: the payload is rewritten again with an
\* xml_document (ensure_xml_document), so the lease goes; the number SKIP-ERP
\* replaces the number of a document.
FinalRow(r, o) ==
  [r EXCEPT !.st = FinalStatus(o), !.rev = o.rev, !.xml = TRUE, !.lease = FALSE,
            !.known = IF o.routed THEN "full" ELSE @,
            !.doc = o.erp \in {"ok", "attach"} \/ (@ /\ o.erp # "skip"),
            !.retry = IF o.erp \in {"ok", "skip"} THEN 0 ELSE @]

\* _sync_post_hitl_result
SyncedRow(r, o) ==
  [r EXCEPT !.st = FinalStatus(o), !.rev = o.rev,
            !.known = "full",
            !.doc = o.erp = "ok" \/ (@ /\ o.erp # "skip"),
            !.retry = IF o.erp \in {"ok", "skip"} THEN 0 ELSE @]

\* _fail_reprocessing (rev) and _fail_post_hitl_processing (not rev)
FailedRow(r, rev) == IF r.st = "processing" THEN [r EXCEPT !.st = "error", !.rev = rev] ELSE r

\* mark_restored_from_spam
RestoredRow(r) == [r EXCEPT !.st = "awaiting_human", !.rev = TRUE, !.xml = FALSE]

\* _apply_operator_routing_save: the department is set and the XML rebuilt.
RoutedByOperator(r, st) ==
  [r EXCEPT !.st = st, !.rev = FALSE, !.xml = TRUE,
            !.known = IF @ = "none" THEN "dept" ELSE @]

-----------------------------------------------------------------------------
(* The broker and the workers *)

Modes == {"plain", "restored", "reanalyze"}

\* max_retries of the tasks
ProcessTries == 3
HumanTries   == 2

ProcessTask(m)         == [kind |-> "process", mail |-> m, tries |-> 0]
RetryTask(a, f)        == [kind |-> "retry", att |-> a, force |-> f]
SyncTask(a)            == [kind |-> "sync", att |-> a]
ContinueTask(a, n)     == [kind |-> "continue", att |-> a, tries |-> n]
ReprocessTask(a, d, n) == [kind |-> "reprocess", att |-> a, mode |-> d, tries |-> n]

MailTask == [kind : {"process"}, mail : Mails, tries : {0}]
            \cup [kind : {"continue"}, att : Attempts, tries : 0..HumanTries]
            \cup [kind : {"reprocess"}, att : Attempts, mode : Modes, tries : 0..HumanTries]
ErpTask  == [kind : {"retry"}, att : Attempts, force : BOOLEAN]
            \cup [kind : {"sync"}, att : Attempts]
Task     == MailTask \cup ErpTask

\* Points of a task body: before its first statement ("load", "check"),
\* between commits and around external calls.
Points == {"idle", "check", "start", "graph", "create", "final", "hsync",
           "post", "load", "rcreate", "rsave", "patch"}

NoTask == [kind |-> "none"]
NoAttempt == <<>>
NoOutcome == [st |-> "processing", rev |-> FALSE, routed |-> FALSE, erp |-> "none"]
Approved  == [NoOutcome EXCEPT !.routed = TRUE]

\* i: index into To; row: row_id is not None; snap: of the payload a task read.
Job == [pc : Points, task : Task \cup {NoTask}, i : Nat, att : Attempts \cup {NoAttempt},
        row : BOOLEAN, out : Outcome, snap : [xml : BOOLEAN, lease : BOOLEAN]]

NoSnap == [xml |-> FALSE, lease |-> FALSE]
Idle == [pc |-> "idle", task |-> NoTask, i |-> 1, att |-> NoAttempt,
         row |-> FALSE, out |-> NoOutcome, snap |-> NoSnap]

VARIABLES
  rows,       \* rows[a]: the row of attempt a
  docs,       \* docs[a]: documents 1C holds for attempt a
  queue,      \* queue[t]: copies of message t waiting in the broker
  job,        \* job[w]: the task worker w executes
  faults, decisions   \* how much of each bound is used up

vars == <<rows, docs, queue, job, faults, decisions>>

Init == /\ rows = [a \in Attempts |-> NoRow]
        /\ docs = [a \in Attempts |-> 0]
        /\ queue = [t \in Task |-> 0]
        /\ job = [w \in Workers |-> Idle]
        /\ faults = 0
        /\ decisions = 0

Fault(k) == \/ k \in Chronic /\ UNCHANGED faults
            \/ k \in Faults /\ faults < MaxFaults /\ faults' = faults + 1
NoFault  == UNCHANGED faults
CanFail(k) == k \in Chronic \/ (k \in Faults /\ faults < MaxFaults)

Send(t) == queue' = [queue EXCEPT ![t] = @ + 1]

\* delay/apply_async: the message reaches the broker or the call raises.
SendOrLose(t) == \/ Send(t) /\ NoFault
                 \/ Fault("broker") /\ UNCHANGED queue

RowOf(w) == rows[job[w].att]
SetRow(w, r) == rows' = [rows EXCEPT ![job[w].att] = r]
At(w, p) == job[w].pc = p
Goto(w, p) == job' = [job EXCEPT ![w].pc = p]
Return(w) == job' = [job EXCEPT ![w] = Idle]

IsProcess(w)  == job[w].task.kind = "process"
IsHuman(w)    == job[w].task.kind \in {"continue", "retry"}   \* "human_approved" in trace

\* The state of the job that starts on recipient i of letter m.
Recipient(m, i) == [Idle EXCEPT !.pc = "check", !.task = ProcessTask(m), !.i = i,
                                !.att = <<m, To[m][i]>>]

\* process_email_task goes on to its next recipient, every other task returns.
NextRecipient(w) ==
  IF IsProcess(w) /\ job[w].i < Len(To[job[w].task.mail])
  THEN job' = [job EXCEPT ![w] = Recipient(job[w].task.mail, job[w].i + 1)]
  ELSE Return(w)

\* A worker takes one message of its queue (prefetch 1, acknowledged late).
Take(w) ==
  /\ At(w, "idle")
  /\ \E t \in IF w \in ErpWorkers THEN ErpTask ELSE MailTask :
       /\ queue[t] > 0
       /\ queue' = [queue EXCEPT ![t] = @ - 1]
       /\ job' = [job EXCEPT ![w] =
            IF t.kind = "process" THEN Recipient(t.mail, 1)
            ELSE [Idle EXCEPT !.pc = "load", !.task = t, !.att = t.att]]
  /\ UNCHANGED <<rows, docs, faults, decisions>>

-----------------------------------------------------------------------------
(* process_email_task and reprocess_message_task *)

\* Mutant of Check: every recipient with a row is taken for finished.
Check_SkipsProcessing(w) ==
  /\ At(w, "check")
  /\ IF RowOf(w).st # "absent" THEN NextRecipient(w) ELSE Goto(w, "start")
  /\ UNCHANGED <<rows, docs, queue, faults, decisions>>

\* _is_terminal_in_db, in a session of its own; a database error reads as "no".
Check(w) ==
  /\ At(w, "check")
  /\ \/ RowOf(w).st \in Terminal /\ NextRecipient(w) /\ NoFault
     \/ RowOf(w).st \notin Terminal /\ Goto(w, "start") /\ NoFault
     \/ RowOf(w).st \in Terminal /\ Goto(w, "start") /\ Fault("db")
  /\ UNCHANGED <<rows, docs, queue, decisions>>

\* persist_processing_start; a database error is swallowed.
Start(w) ==
  /\ At(w, "start")
  /\ \/ SetRow(w, StartedRow(RowOf(w))) /\ NoFault
        /\ job' = [job EXCEPT ![w].pc = "graph", ![w].row = TRUE]
     \/ UNCHANGED rows /\ Fault("db") /\ Goto(w, "graph")
  /\ UNCHANGED <<docs, queue, decisions>>

\* What the graph decides before it touches 1C: a verdict of AllVerdicts.
AllVerdicts == {"spam", "gray", "review", "dialog", "noerp", "register"}
VerdictOutcome(v) ==
  [st     |-> CASE v = "spam" -> "spam"
                [] v \in {"gray", "review"} -> "awaiting_human"
                [] v = "dialog" -> "dialog"
                [] OTHER -> "processing",
   rev    |-> v \in {"gray", "review"},
   routed |-> v \notin {"spam", "gray"},
   erp    |-> "none"]

\* A restored or re-analysed letter always ends at the operator.
PossibleVerdicts(t) ==
  IF t.kind = "reprocess" /\ t.mode # "plain" THEN {"review"} ELSE Verdicts

\* graph.invoke up to node 7; after an approval, nodes 3, 4 and 6.
Graph(w) ==
  /\ At(w, "graph")
  /\ IF IsHuman(w)
     THEN job' = [job EXCEPT ![w].pc = "create", ![w].out = Approved]
     ELSE \E v \in PossibleVerdicts(job[w].task) :
            job' = [job EXCEPT ![w].pc = IF v = "register" THEN "create" ELSE "final",
                               ![w].out = VerdictOutcome(v)]
  /\ UNCHANGED <<rows, docs, queue, faults, decisions>>

\* The graph raises (a node, or the soft time limit). process_email re-raises
\* without self.retry, so its tries stay 0; the two HITL tasks retry and then
\* fail the row; retry_erp lets the exception out.
GraphRaise(w) ==
  LET t == job[w].task IN
  /\ At(w, "graph")
  /\ Fault("raise")
  /\ CASE t.kind = "process" ->
            /\ IF job[w].row /\ t.tries >= ProcessTries
               THEN SetRow(w, FailedRow(RowOf(w), TRUE)) ELSE UNCHANGED rows
            /\ UNCHANGED queue
       [] t.kind \in {"continue", "reprocess"} ->
            IF t.tries < HumanTries
            THEN Send([t EXCEPT !.tries = @ + 1]) /\ UNCHANGED rows
            ELSE SetRow(w, FailedRow(RowOf(w), t.kind = "reprocess")) /\ UNCHANGED queue
       [] OTHER -> UNCHANGED <<rows, queue>>
  /\ Return(w)
  /\ UNCHANGED <<docs, decisions>>

\* How the call to 1C ends: e is the result, n the documents it leaves behind.
CallErp(w, e, n) ==
  \/ job[w].att \notin Info /\ e = "skip" /\ n = 0 /\ NoFault
  \/ job[w].att \in Info /\ \/ e = "ok" /\ n = 1 /\ NoFault
                            \/ e = "attach" /\ n = 1 /\ Fault("attach")
                            \/ e = "fail" /\ n = 0 /\ Fault("erp")
                            \/ e = "fail" /\ n = 1 /\ Fault("lost")   \* the answer is lost

\* node_create_erp_task, and the integration call of retry_erp_task. A failure
\* sets status error only when no operator approved the letter.
Create(w) ==
  /\ At(w, "create") \/ At(w, "rcreate")
  /\ \E e \in ErpResults, n \in {0, 1} :
       /\ CallErp(w, e, n)
       /\ docs' = [docs EXCEPT ![job[w].att] = @ + n]
       /\ LET failed == e \in {"fail", "attach"} /\ ~IsHuman(w)
              o == [job[w].out EXCEPT !.erp = e, !.st = IF failed THEN "error" ELSE @,
                                     !.rev = failed]
          IN  job' = [job EXCEPT ![w].pc = IF At(w, "create") THEN "final" ELSE "rsave",
                                 ![w].out = o]
  /\ UNCHANGED <<rows, queue, decisions>>

\* node_finalize / persist_processing_result; a database error is swallowed.
Finalize(w) ==
  /\ At(w, "final")
  /\ \/ SetRow(w, FinalRow(RowOf(w), job[w].out)) /\ NoFault
     \/ UNCHANGED rows /\ Fault("db")
  /\ Goto(w, IF job[w].task.kind = "continue" THEN "hsync" ELSE "post")
  /\ UNCHANGED <<docs, queue, decisions>>

ErpFailed(w) == job[w].out.erp \in {"fail", "attach"}

\* Mutant of Post: only process_email_task schedules a retry.
Post_NotAfterApproval(w) ==
  /\ At(w, "post")
  /\ IF ErpFailed(w) /\ IsProcess(w)
     THEN Send(RetryTask(job[w].att, FALSE)) ELSE UNCHANGED queue
  /\ NextRecipient(w)
  /\ UNCHANGED <<rows, docs, faults, decisions>>

\* The end of a task body. Only process_email_task and continue_after_human_task
\* put a failed registration on the erp queue; apply_async may raise out of it.
Post(w) ==
  /\ At(w, "post")
  /\ IF ErpFailed(w) /\ job[w].task.kind \in {"process", "continue"}
     THEN \/ Send(RetryTask(job[w].att, FALSE)) /\ NextRecipient(w) /\ NoFault
          \/ UNCHANGED queue /\ Return(w) /\ Fault("broker")
     ELSE UNCHANGED queue /\ NextRecipient(w) /\ NoFault
  /\ UNCHANGED <<rows, docs, decisions>>

\* reprocess_message_task, first transaction.
LoadReprocess(w) ==
  /\ At(w, "load") /\ job[w].task.kind = "reprocess"
  /\ IF job[w].task.mode = "restored" THEN SetRow(w, RestoredRow(RowOf(w))) ELSE UNCHANGED rows
  /\ Goto(w, "start")
  /\ UNCHANGED <<docs, queue, faults, decisions>>

-----------------------------------------------------------------------------
(* continue_after_human_task *)

\* First transaction: the row goes back to processing whatever its status is.
LoadContinue(w) ==
  /\ At(w, "load") /\ job[w].task.kind = "continue"
  /\ IF RowOf(w).known = "none"
     THEN SetRow(w, FailedRow(RowOf(w), FALSE)) /\ Return(w)
     ELSE /\ SetRow(w, [RowOf(w) EXCEPT !.st = "processing", !.rev = FALSE])
          /\ Goto(w, "graph")
  /\ UNCHANGED <<docs, queue, faults, decisions>>

\* _sync_post_hitl_result; a database error fails the task.
HumanSync(w) ==
  /\ At(w, "hsync")
  /\ \/ SetRow(w, SyncedRow(RowOf(w), job[w].out)) /\ Goto(w, "post") /\ NoFault
     \/ UNCHANGED rows /\ Return(w) /\ Fault("db")
  /\ UNCHANGED <<docs, queue, decisions>>

-----------------------------------------------------------------------------
(* retry_erp_task and sync_erp_correction_task *)

Exhausted(r) == [r EXCEPT !.st = "error", !.rev = TRUE]

\* Mutant of RetryBranch: the document number of the row is not looked at.
RetryBranch_CreatesAgain(a) ==
  LET r == rows[a] IN
  CASE r.retry >= RetryMax           -> "exhausted"
    [] r.known = "none"              -> "incomplete"
    [] a \notin Info                 -> "ineligible"
    [] r.known = "dept"              -> "no_summary"
    [] ~r.xml                        -> "missing_xml"
    [] OTHER                         -> "create"

\* The tests retry_erp_task makes before its first commit, in order.
RetryBranch(a) ==
  LET r == rows[a] IN
  CASE r.retry >= RetryMax           -> "exhausted"
    [] r.known = "none"              -> "incomplete"
    [] a \notin Info                 -> "ineligible"
    [] r.known = "dept"              -> "no_summary"
    [] r.doc                         -> "sync_existing"
    [] ~r.xml                        -> "missing_xml"
    [] OTHER                         -> "create"

\* Mutant of LoadRetry: the attempt is not counted.
LoadRetry_Uncounted(w) ==
  LET b == RetryBranch(job[w].att) IN
  /\ At(w, "load") /\ job[w].task.kind = "retry"
  /\ IF b \in {"exhausted", "missing_xml"} THEN SetRow(w, Exhausted(RowOf(w))) ELSE UNCHANGED rows
  /\ CASE b = "create"     -> Goto(w, "rcreate")
       [] b = "no_summary" -> Goto(w, "graph")
       [] b = "sync_existing" -> Goto(w, "patch")
       [] OTHER -> Return(w)
  /\ UNCHANGED <<docs, queue, faults, decisions>>

LoadRetry(w) ==
  LET b == RetryBranch(job[w].att) IN
  /\ At(w, "load") /\ job[w].task.kind = "retry"
  /\ CASE b \in {"exhausted", "missing_xml"} -> SetRow(w, Exhausted(RowOf(w)))
       [] b = "create" -> SetRow(w, [RowOf(w) EXCEPT !.retry = @ + 1])
       [] OTHER -> UNCHANGED rows
  /\ CASE b = "create"        -> Goto(w, "rcreate")
       [] b = "no_summary"    -> Goto(w, "graph")
       [] b = "sync_existing" -> job' = [job EXCEPT ![w].pc = "patch",
                                   ![w].snap = [xml |-> RowOf(w).xml, lease |-> RowOf(w).lease]]
       [] OTHER -> Return(w)
  /\ UNCHANGED <<docs, queue, faults, decisions>>

LoadSync(w) ==
  /\ At(w, "load") /\ job[w].task.kind = "sync"
  /\ IF RowOf(w).known = "none" \/ job[w].att \notin Info \/ ~RowOf(w).doc
     THEN Return(w) ELSE Goto(w, "patch")
  /\ UNCHANGED <<rows, docs, queue, faults, decisions>>

\* sync_existing_erp_document, then _persist_erp_sync_result: the status stays;
\* a forced re-attachment writes the payload read before the call to 1C back, and
\* first lists the attached files, an error of which ends the task.
SyncSave(w) ==
  /\ At(w, "patch")
  /\ LET forced == job[w].task.kind = "retry" /\ job[w].task.force IN
     \/ SetRow(w, [RowOf(w) EXCEPT !.rev = FALSE]) /\ NoFault
     \/ /\ forced /\ NoFault
        /\ SetRow(w, [RowOf(w) EXCEPT !.rev = FALSE, !.xml = job[w].snap.xml,
                                     !.lease = job[w].snap.lease])
     \/ Fault("db") /\ UNCHANGED rows
     \/ forced /\ Fault("erp") /\ UNCHANGED rows
  /\ Return(w)
  /\ UNCHANGED <<docs, queue, decisions>>

\* Mutant of RetryFailed: the last failure is not written to the row.
RetryFailed_Silent(w, F) ==
  /\ UNCHANGED rows
  /\ IF RowOf(w).retry < RetryMax THEN Send(RetryTask(job[w].att, FALSE)) ELSE UNCHANGED queue
  /\ F

\* The except branch of retry_erp_task; F accounts for the error that led here.
\* An error of its own apply_async ends the task.
RetryFailed(w, F) ==
  IF RowOf(w).retry < RetryMax
  THEN /\ UNCHANGED rows
       /\ \/ Send(RetryTask(job[w].att, FALSE)) /\ F
          \/ UNCHANGED queue /\ CanFail("broker") /\ IF "broker" \in Chronic THEN F ELSE Fault("broker")
  ELSE SetRow(w, Exhausted(RowOf(w))) /\ UNCHANGED queue /\ F

\* retry_erp_task after the call: success, document without files, exception.
RetrySave(w) ==
  LET e == job[w].out.erp  r == RowOf(w) IN
  /\ At(w, "rsave")
  /\ \/ /\ e = "ok" /\ NoFault /\ UNCHANGED queue
        /\ SetRow(w, [r EXCEPT !.doc = TRUE, !.st = "done", !.rev = FALSE, !.retry = 0])
     \/ /\ e = "attach"
        /\ SetRow(w, [r EXCEPT !.doc = TRUE])
        /\ IF r.retry < RetryMax THEN SendOrLose(RetryTask(job[w].att, FALSE))
           ELSE UNCHANGED queue /\ NoFault
     \/ /\ e = "fail" /\ RetryFailed(w, NoFault)
     \/ /\ e # "fail" /\ CanFail("db") /\ RetryFailed(w, Fault("db"))
  /\ Return(w)
  /\ UNCHANGED <<docs, decisions>>

-----------------------------------------------------------------------------
(* Beat: polling, recovery, and the passing of time *)

Processing == {a \in Attempts : rows[a].st = "processing"}
Backlogged == Cardinality(Processing) >= Threshold

\* poll_mailboxes for a letter no row is known of (module MailboxPoll has the
\* mailbox itself). A letter already queued is queued again.
Poll(m) ==
  /\ ~Backlogged
  /\ \A a \in Attempts : a[1] = m => rows[a].st = "absent"
  /\ queue[ProcessTask(m)] < MaxCopies
  /\ Send(ProcessTask(m))
  /\ UNCHANGED <<rows, docs, job, faults, decisions>>

Min(x, y) == IF x < y THEN x ELSE y

\* recover_stale_processing: lease and commit, then enqueue one process_email
\* per row; errors of delay are only collected.
Recover ==
  LET stale == {a \in Processing : ~rows[a].lease} IN
  /\ ~Backlogged
  /\ \E R \in SUBSET stale : \E sent \in SUBSET R :
       /\ R # {} /\ Cardinality(R) = Min(RecoverLimit, Cardinality(stale))
       /\ IF sent = R THEN NoFault ELSE Fault("broker")
       /\ rows' = [a \in Attempts |-> IF a \in R THEN [rows[a] EXCEPT !.lease = TRUE] ELSE rows[a]]
       /\ queue' = [t \in Task |-> queue[t] +
                      IF t.kind = "process" THEN Cardinality({a \in sent : a[1] = t.mail}) ELSE 0]
       /\ \A t \in Task : queue'[t] > queue[t] => queue'[t] <= MaxCopies
  /\ UNCHANGED <<docs, job, decisions>>

\* Worker w runs the graph on a row it has dated itself.
Holds(w, a) == job[w].att = a /\ job[w].row /\ job[w].pc \in {"graph", "create", "final"}

\* 900 s pass. The hard time limit of 720 s ends every run that took the lease.
LeaseExpire(a) ==
  /\ rows[a].lease
  /\ \A w \in Workers : ~Holds(w, a)
  /\ rows' = [rows EXCEPT ![a].lease = FALSE]
  /\ UNCHANGED <<docs, queue, job, faults, decisions>>

\* The worker process is lost: task_reject_on_worker_lost requeues the message.
Crash(w) ==
  /\ ~At(w, "idle") /\ Fault("crash")
  /\ Send(job[w].task) /\ Return(w)
  /\ UNCHANGED <<rows, docs, decisions>>

\* The hard time limit kills the child; the message is acknowledged all the same.
Kill(w) ==
  /\ ~At(w, "idle") /\ Fault("kill")
  /\ Return(w)
  /\ UNCHANGED <<rows, docs, queue, decisions>>

-----------------------------------------------------------------------------
(* The operator's endpoints: commit the row, then enqueue *)

Decide(d) == d \in Decisions /\ decisions < MaxDecisions /\ decisions' = decisions + 1

Saves(a, r) == rows' = [rows EXCEPT ![a] = r]

\* resolve-human: mark_spam, from any status
MarkSpam(a) ==
  /\ Decide("mark_spam") /\ rows[a].st # "absent"
  /\ Saves(a, [rows[a] EXCEPT !.st = "spam", !.rev = FALSE, !.xml = FALSE])
  /\ UNCHANGED <<docs, queue, job, faults>>

\* resolve-human: mark_not_spam, from any status
MarkNotSpam(a) ==
  /\ Decide("mark_not_spam") /\ rows[a].st # "absent"
  /\ Saves(a, [rows[a] EXCEPT !.st = "processing", !.rev = FALSE, !.xml = FALSE])
  /\ SendOrLose(ReprocessTask(a, "plain", 0))
  /\ UNCHANGED <<docs, job>>

\* _schedule_erp_sync_if_needed
ScheduleSync(a) == IF rows[a].doc THEN SendOrLose(SyncTask(a)) ELSE UNCHANGED queue /\ NoFault

\* resolve-human: approve_routing resumes a row that is not finished ...
Approve(a) ==
  /\ Decide("approve") /\ rows[a].st \notin {"absent", "spam", "done", "error"}
  /\ Saves(a, RoutedByOperator(rows[a], "processing"))
  /\ SendOrLose(ContinueTask(a, 0))
  /\ UNCHANGED <<docs, job>>

\* ... and corrects a done or error row: nothing is resumed ("correction_saved").
Correct(a) ==
  /\ Decide("correct") /\ rows[a].st \in {"done", "error"}
  /\ Saves(a, RoutedByOperator(rows[a], "done")) /\ ScheduleSync(a)
  /\ UNCHANGED <<docs, job>>

\* resolve-human: mark_verified
MarkVerified(a) ==
  /\ Decide("verify") /\ rows[a].st \in {"done", "error", "dialog"}
  /\ Saves(a, RoutedByOperator(rows[a], rows[a].st)) /\ ScheduleSync(a)
  /\ UNCHANGED <<docs, job>>

Reanalyze(a) ==
  /\ Decide("reanalyze") /\ rows[a].st \in {"awaiting_human", "done", "error", "processing"}
  /\ Saves(a, [rows[a] EXCEPT !.st = "processing", !.rev = FALSE])
  /\ SendOrLose(ReprocessTask(a, "reanalyze", 0))
  /\ UNCHANGED <<docs, job>>

RestoreFromSpam(a) ==
  /\ Decide("restore") /\ rows[a].st = "spam"
  /\ Saves(a, RestoredRow(rows[a]))
  /\ SendOrLose(ReprocessTask(a, "restored", 0))
  /\ UNCHANGED <<docs, job>>

RetryErp(a) ==
  /\ Decide("retry_erp") /\ rows[a].st # "absent"
  /\ Saves(a, [rows[a] EXCEPT !.retry = 0, !.rev = FALSE])
  /\ SendOrLose(RetryTask(a, TRUE))
  /\ UNCHANGED <<docs, job>>

Operator(a) == \/ MarkSpam(a) \/ MarkNotSpam(a) \/ Approve(a) \/ Correct(a)
               \/ MarkVerified(a) \/ Reanalyze(a) \/ RestoreFromSpam(a) \/ RetryErp(a)

WorkerStep(w) == \/ Check(w) \/ Start(w) \/ Graph(w) \/ GraphRaise(w) \/ Create(w)
                 \/ Finalize(w) \/ Post(w) \/ LoadReprocess(w) \/ LoadContinue(w)
                 \/ HumanSync(w) \/ LoadRetry(w) \/ LoadSync(w) \/ SyncSave(w) \/ RetrySave(w)

Next == \/ \E w \in Workers : Take(w) \/ WorkerStep(w) \/ Crash(w) \/ Kill(w)
        \/ \E m \in Mails : Poll(m)
        \/ Recover
        \/ \E a \in Attempts : LeaseExpire(a) \/ Operator(a)

Spec == Init /\ [][Next]_vars

\* Workers consume and finish tasks, beat polls and recovers, time passes.
\* Nothing is assumed of faults or of the operator.
Fairness == /\ \A w \in Workers : WF_vars(Take(w)) /\ WF_vars(WorkerStep(w))
            /\ \A m \in Mails : WF_vars(Poll(m))
            /\ WF_vars(Recover)
            /\ \A a \in Attempts : WF_vars(LeaseExpire(a))

FairSpec == Spec /\ Fairness

-----------------------------------------------------------------------------
(* Properties *)

\* The state is well typed: statuses, counters, messages and jobs are in range.
TypeOK == /\ rows \in [Attempts -> Row]
          /\ docs \in [Attempts -> Nat]
          /\ queue \in [Task -> Nat]
          /\ job \in [Workers -> Job]
          /\ faults \in Nat
          /\ decisions \in Nat

\* A row that names a 1C document (erp_document_number, erp_task_id) names one
\* that 1C holds, whichever of the five places that write it wrote it.
ClaimedDocumentExists == \A a \in Attempts : rows[a].doc => docs[a] > 0

\* The agent implements the ledger: claims only after creations, no withdrawal.
Ledger == INSTANCE ErpLedger WITH claimed <- [a \in Attempts |-> rows[a].doc]
LedgerSpec == Ledger!Spec

\* Worker w runs the graph for letter a: process_email, reprocess_message or
\* continue_after_human. (retry_erp sets no row to processing.)
RunsGraph(w, a) == job[w].att = a /\ job[w].pc \in {"graph", "create", "final"}
                   /\ job[w].task.kind # "retry"

\* Recovery and the poll take no letter for abandoned while a worker runs its
\* graph: as long as its row says processing it is leased. Recovery is for rows
\* "status=processing, зависшие дольше lease" (tasks.py:113). A run that does not
\* date its row breaks it: one that resumes an approved letter (tasks.py:773), or
\* whose first write failed.
RunningIsLeased ==
  \A w \in Workers, a \in Attempts :
    RunsGraph(w, a) /\ rows[a].st = "processing" => rows[a].lease

\* One letter, one recipient, one incoming document in 1C.
AtMostOneDocument == \A a \in Attempts : docs[a] <= 1

\* Faults that cost no document: 1C refuses, files are not attached, the broker
\* refuses a message; an exception of the graph too, unless an operator's task
\* may be sent again after it.
Harmless == {"erp", "attach", "broker"} \cup IF Decisions = {} THEN {"raise"} ELSE {}

\* What was paid so far for further documents of a letter.
Price == IF Decisions # {} THEN 2 * (faults + decisions)
         ELSE IF Faults \subseteq Harmless THEN 0 ELSE faults

\* A letter is registered again only after a fault or a decision: without an
\* operator each lost answer, lost worker or swallowed database error costs at
\* most one further document, with one each fault or decision at most two.
DuplicatesAreCounted == \A a \in Attempts : docs[a] <= 1 + Price

\* Some message or some worker is still going to work on attempt a.
Outstanding(a) ==
  \/ \E w \in Workers : job[w].att = a
  \/ \E t \in Task : queue[t] > 0 /\ IF t.kind = "process" THEN t.mail = a[1] ELSE t.att = a

\* Where every verdict leads to a registration, a row that is done without a
\* document is never forgotten: a task is still under way for it.
DoneIsRegisteredOrPending ==
  \A a \in Info : rows[a].st = "done" /\ ~rows[a].doc => Outstanding(a)

\* Every recipient of every letter keeps coming to a final status.
EveryAttemptSettles == \A a \in Attempts : []<>(rows[a].st \in Terminal)

RetryOutstanding(a) ==
  \/ \E f \in BOOLEAN : queue[RetryTask(a, f)] > 0
  \/ \E w \in Workers : job[w].task.kind = "retry" /\ job[w].att = a

\* Automatic retries of a registration come to an end even if 1C never answers.
RetriesEnd == \A a \in Attempts : <>[]~RetryOutstanding(a)

\* Whatever 1C does, a letter that has to be registered ends up registered or
\* flagged for the operator - also when the operator had taken the flag away by
\* approving it, and the first failure therefore left the row as done.
OutageIsReported == \A a \in Info : <>[](rows[a].doc \/ rows[a].rev)

\* A processing row whose lease ran out is leased again or finished.
StaleIsRecovered ==
  \A a \in Attempts :
    (rows[a].st = "processing" /\ ~rows[a].lease) ~> (rows[a].st # "processing" \/ rows[a].lease)

=============================================================================
