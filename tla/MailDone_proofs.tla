--------------------------- MODULE MailDone_proofs ---------------------------
(***************************************************************************)
(* A letter that is done without a document is never forgotten: whoever     *)
(* wrote "done" after a failed registration carries it on, to a retry in    *)
(* the queue, to the worker that takes it, to the next retry, until there   *)
(* is a document or the row asks for the operator.  Lost workers and every  *)
(* failure of 1C are allowed; what has to be left out (Recorded) is a step  *)
(* that forgets the letter with nobody to notice: the hard time limit, a    *)
(* swallowed database error, a broker that refuses the retry, and the       *)
(* endpoints that declare a letter done or retry one nobody summarised.     *)
(***************************************************************************)
EXTENDS MailPipeline_proofs

Recorded ==
  /\ Info \subseteq Attempts
  /\ (Faults \cup Chronic) \cap {"broker", "kill", "db"} = {}
  /\ Decisions \cap {"correct", "retry_erp"} = {}
  /\ Verdicts \subseteq {"spam", "gray", "review", "dialog", "register"}

Lost(a) == rows[a].st = "done" /\ ~rows[a].doc
Full(a) == rows[a].known = "full"

\* Worker w will bring its letter to a document, an error or a further task.
Carries(w) ==
  \/ /\ job[w].task.kind = "continue"
     /\ job[w].pc = "load" \/ (job[w].pc \in {"hsync", "post"} /\ ErpFailed(w))
  \/ job[w].task.kind = "retry" /\ job[w].pc \in {"load", "rcreate", "rsave"}

Queued(a) == \E t \in Task : t.kind \in {"continue", "retry"} /\ t.att = a /\ queue[t] > 0

NotForgotten ==
  \A a \in Info : Lost(a) =>
    Full(a) /\ (Queued(a) \/ \E w \in Workers : job[w].att = a /\ Carries(w))

\* What a worker has in hand: a registration was tried on a routed letter, an
\* automatic one that failed is an error, and a retry works on a full row.
JobOk(w) ==
  LET j == job[w] IN
  /\ j.task.kind \in {"continue", "reprocess", "retry", "sync"} => j.task.att = j.att
  /\ j.pc = "create" \/ (j.pc = "final" /\ j.out.erp # "none") => j.out.routed
  /\ j.pc \in {"final", "hsync", "post"} /\ j.task.kind = "continue" => j.out.erp # "none"
  /\ j.pc = "final" /\ ~IsHuman(w) /\ FinalStatus(j.out) = "done" => j.out.erp \in {"ok", "skip"}
  /\ j.pc = "hsync" => j.task.kind = "continue"
  /\ j.pc \in {"rcreate", "rsave"} => j.task.kind = "retry"
  /\ j.task.kind = "retry" => j.pc \in {"load", "rcreate", "rsave", "patch"} /\ Full(j.att)
  /\ j.pc \in {"hsync", "post"} /\ ErpFailed(w) => Full(j.att)

JobsOk  == \A w \in Workers : JobOk(w)
QueueOk == \A t \in Task : t.kind = "retry" /\ queue[t] > 0 => Full(t.att)

DoneInv == IInv /\ JobsOk /\ QueueOk /\ NotForgotten

-----------------------------------------------------------------------------
(* What a step may do *)

FullStays == \A a \in Attempts : Full(a) => Full(a)'

QueueGrows ==
  \A t \in Task : t.kind \in {"continue", "retry"} =>
    /\ queue[t] > 0 => queue'[t] > 0
    /\ t.kind = "retry" /\ queue'[t] > 0 => queue[t] > 0 \/ Full(t.att)'

\* Worker w does what it does to its own letter and goes on.
Local(w) ==
  /\ \A v \in Workers \ {w} : job'[v] = job[v]
  /\ \A b \in Attempts \ {job[w].att} : rows'[b] = rows[b]
  /\ FullStays
  /\ QueueGrows
  /\ JobOk(w)'
  /\ \A a \in Info : a = job[w].att /\ Lost(a)' =>
       /\ Full(a)'
       /\ ~Lost(a) \/ Carries(w) => Queued(a)' \/ (job'[w].att = a /\ Carries(w)')

LEMMA RetryAttempt == \A t \in Task : t.kind = "retry" => t.att \in Attempts
BY TaskFields

LEMMA QueueKept ==
  ASSUME QueueOk, FullStays, QueueGrows
  PROVE  QueueOk'
BY RetryAttempt DEF QueueOk, FullStays, QueueGrows

LEMMA OthersOk ==
  ASSUME DoneInv, FullStays, NEW v \in Workers, job'[v] = job[v]
  PROVE  JobOk(v)' /\ (Carries(v)' <=> Carries(v))
<1>1. JobOk(v) /\ (job[v].pc # "idle" => job[v].att \in Attempts)
  BY DEF DoneInv, JobsOk, IInv, Typed, WellFormedJobs, At
<1>2. (IsHuman(v)' <=> IsHuman(v)) /\ (ErpFailed(v)' <=> ErpFailed(v))
  BY DEF IsHuman, ErpFailed
<1>3. job[v].pc # "idle" /\ Full(job[v].att) => rows'[job[v].att].known = "full"
  BY <1>1 DEF FullStays, Full
<1>4. JobOk(v)'
  BY <1>1, <1>2, <1>3 DEF JobOk, Full
<1> QED
  BY <1>2, <1>4 DEF Carries

LEMMA LocalKeeps ==
  ASSUME Recorded, DoneInv, NEW w \in Workers, job[w].att \in Attempts, Local(w)
  PROVE  JobsOk' /\ QueueOk' /\ NotForgotten'
<1>1. QueueOk'
  BY QueueKept DEF Local, DoneInv
<1>2. JobsOk'
  BY OthersOk DEF Local, JobsOk
<1>3. NotForgotten'
  <2> SUFFICES ASSUME NEW a \in Info, Lost(a)'
               PROVE  Full(a)' /\ (Queued(a)' \/ \E v \in Workers : job'[v].att = a /\ Carries(v)')
    BY DEF NotForgotten
  <2>1. a \in Attempts
    BY DEF Recorded
  <2>2. Queued(a) => Queued(a)'
    BY DEF Local, QueueGrows, Queued
  <2>3. \A v \in Workers \ {w} : job[v].att = a /\ Carries(v) => job'[v].att = a /\ Carries(v)'
    BY OthersOk DEF Local
  <2>4. CASE a # job[w].att
    <3>1. rows'[a] = rows[a]
      BY <2>1, <2>4 DEF Local
    <3>2. Lost(a) /\ (Full(a) => Full(a)')
      BY <3>1 DEF Lost, Full
    <3> QED
      BY <2>2, <2>3, <2>4, <3>2 DEF DoneInv, NotForgotten
  <2>5. CASE a = job[w].att
    <3>1. CASE ~Lost(a) \/ Carries(w)
      BY <2>5, <3>1 DEF Local
    <3>2. CASE Lost(a) /\ ~Carries(w)
      BY <2>2, <2>3, <2>5, <3>2 DEF Local, DoneInv, NotForgotten
    <3> QED
      BY <3>1, <3>2
  <2> QED
    BY <2>4, <2>5
<1> QED
  BY <1>1, <1>2, <1>3

\* Without the faults that Recorded leaves out.
LEMMA NoBadFault ==
  ASSUME Recorded
  PROVE  ~Fault("broker") /\ ~CanFail("broker") /\ ~Fault("kill") /\ ~Fault("db")
BY DEF Recorded, Fault, CanFail

-----------------------------------------------------------------------------
(* Jobs that start, and messages *)

LEMMA FreshJobs ==
  /\ Idle.pc = "idle" /\ Idle.task.kind = "none" /\ Idle.out.erp = "none"
  /\ \A m, i : /\ Recipient(m, i).pc = "check" /\ Recipient(m, i).task.kind = "process"
               /\ Recipient(m, i).out.erp = "none"
BY DEF Idle, NoTask, NoOutcome, Recipient, ProcessTask

LEMMA ReturnOk ==
  ASSUME Typed, NEW w \in Workers, Return(w)
  PROVE  JobOk(w)' /\ \A v \in Workers \ {w} : job'[v] = job[v]
<1>1. job'[w] = Idle /\ \A v \in Workers \ {w} : job'[v] = job[v]
  BY TypedParts DEF Return, JobsTyped
<1> QED
  BY <1>1, FreshJobs DEF JobOk

LEMMA NextRecipientOk ==
  ASSUME Typed, NEW w \in Workers, NextRecipient(w)
  PROVE  JobOk(w)' /\ \A v \in Workers \ {w} : job'[v] = job[v]
<1>1. CASE Return(w)
  BY <1>1, ReturnOk
<1>2. CASE \E m, i : job' = [job EXCEPT ![w] = Recipient(m, i)]
  <2>1. PICK m, i : job' = [job EXCEPT ![w] = Recipient(m, i)]
    BY <1>2
  <2>2. job'[w] = Recipient(m, i) /\ \A v \in Workers \ {w} : job'[v] = job[v]
    BY <2>1, TypedParts DEF JobsTyped
  <2> QED
    BY <2>2, FreshJobs DEF JobOk
<1> QED
  BY <1>1, <1>2 DEF NextRecipient

\* A worker that goes to another point keeps what it has in hand.
LEMMA GotoFields ==
  ASSUME Typed, NEW w \in Workers, NEW p, Goto(w, p)
  PROVE  /\ job'[w].pc = p /\ job'[w].task = job[w].task
         /\ job'[w].att = job[w].att /\ job'[w].out = job[w].out
         /\ \A v \in Workers \ {w} : job'[v] = job[v]
BY TypedParts DEF Goto, JobsTyped, Job

LEMMA QueueSame == UNCHANGED queue => QueueGrows
BY DEF QueueGrows

LEMMA QueueSend ==
  ASSUME queue \in [Task -> Nat], NEW t \in Task, Send(t), t.kind = "retry" => Full(t.att)'
  PROVE  QueueGrows /\ (t.kind \in {"continue", "retry"} => Queued(t.att)')
<1>1. \A u \in Task : queue'[u] = IF u = t THEN queue[u] + 1 ELSE queue[u]
  BY DEF Send
<1>2. \A u \in Task : queue[u] \in Nat
  OBVIOUS
<1> QED
  BY <1>1, <1>2 DEF QueueGrows, Queued

\* Writes to the row of worker w.
LEMMA WriteFields ==
  ASSUME Typed, NEW w \in Workers, ~At(w, "idle"), NEW r, SetRow(w, r)
  PROVE  /\ job[w].att \in Attempts /\ rows'[job[w].att] = r
         /\ \A b \in Attempts \ {job[w].att} : rows'[b] = rows[b]
BY BusyWorker, TypedParts DEF SetRow

LEMMA FullWrites ==
  ASSUME NEW r \in Row
  PROVE  /\ StartedRow(r).known = r.known /\ StartedRow(r).st = "processing"
         /\ RestoredRow(r).known = r.known /\ RestoredRow(r).st = "awaiting_human"
         /\ Exhausted(r).known = r.known /\ Exhausted(r).st = "error"
         /\ \A rev : /\ FailedRow(r, rev).known = r.known /\ FailedRow(r, rev).doc = r.doc
                     /\ FailedRow(r, rev).st = "done" => r.st = "done"
         /\ \A o \in Outcome :
              /\ r.known = "full" \/ o.routed => FinalRow(r, o).known = "full"
              /\ FinalRow(r, o).st = FinalStatus(o)
              /\ o.erp \in {"ok", "attach"} => FinalRow(r, o).doc
              /\ SyncedRow(r, o).known = "full"
              /\ o.erp = "ok" => SyncedRow(r, o).doc
BY DEF Row, StartedRow, RestoredRow, Exhausted, FailedRow, FinalRow, SyncedRow, Outcome

-----------------------------------------------------------------------------
(* The steps of a worker *)

Kept == JobsOk' /\ QueueOk' /\ NotForgotten'

\* The letter of worker w stays in its hands or goes to the queue.
Passes(w) ==
  \A a \in Info : a = job[w].att => Queued(a)' \/ (job'[w].att = a /\ Carries(w)')

LEMMA Busy ==
  ASSUME DoneInv, NEW w \in Workers, ~At(w, "idle")
  PROVE  /\ Typed /\ job[w].att \in Attempts /\ RowOf(w) \in Row /\ RowOf(w) = rows[job[w].att]
         /\ job[w].out \in Outcome /\ job[w].task \in Task /\ JobOk(w)
         /\ queue \in [Task -> Nat]
BY BusyWorker, TypedParts DEF DoneInv, IInv, JobsOk, RowOf

\* The row of worker w is replaced by r.
LEMMA WriteKept ==
  ASSUME Recorded, DoneInv, NEW w \in Workers, ~At(w, "idle"), NEW r, SetRow(w, r),
         RowOf(w).known = "full" => r.known = "full",
         QueueGrows, JobOk(w)', \A v \in Workers \ {w} : job'[v] = job[v],
         job[w].att \in Info /\ r.st = "done" /\ ~r.doc =>
           /\ r.known = "full"
           /\ RowOf(w).st # "done" \/ RowOf(w).doc \/ Carries(w) => Passes(w)
  PROVE  Kept
<1>1. Typed /\ job[w].att \in Attempts /\ RowOf(w) = rows[job[w].att]
  BY Busy
<1>2. rows'[job[w].att] = r /\ \A b \in Attempts \ {job[w].att} : rows'[b] = rows[b]
  BY <1>1, WriteFields
<1>3. FullStays
  BY <1>1, <1>2 DEF FullStays, Full
<1>4. ASSUME NEW a \in Info, a = job[w].att, Lost(a)'
      PROVE  /\ Full(a)'
             /\ ~Lost(a) \/ Carries(w) => Queued(a)' \/ (job'[w].att = a /\ Carries(w)')
  <2>1. rows'[a] = r /\ rows[a] = RowOf(w)
    BY <1>1, <1>2, <1>4
  <2>2. r.st = "done" /\ ~r.doc
    BY <1>4, <2>1 DEF Lost
  <2>3. r.known = "full" /\ (RowOf(w).st # "done" \/ RowOf(w).doc \/ Carries(w) => Passes(w))
    BY <1>4, <2>2
  <2> QED
    BY <1>4, <2>1, <2>3 DEF Full, Lost, Passes
<1>5. Local(w)
  BY <1>2, <1>3, <1>4 DEF Local
<1> QED
  BY <1>1, <1>5, LocalKeeps DEF Kept

\* The row of worker w stays as it is.
LEMMA StayKept ==
  ASSUME Recorded, DoneInv, NEW w \in Workers, ~At(w, "idle"), UNCHANGED rows,
         QueueGrows, JobOk(w)', \A v \in Workers \ {w} : job'[v] = job[v],
         job[w].att \in Info /\ ~RowOf(w).doc /\ Carries(w) => Passes(w)
  PROVE  Kept
<1>1. Typed /\ job[w].att \in Attempts /\ RowOf(w) = rows[job[w].att]
  BY Busy
<1>2. SetRow(w, RowOf(w))
  BY <1>1, TypedParts DEF SetRow
<1>3. job[w].att \in Info /\ RowOf(w).st = "done" /\ ~RowOf(w).doc => RowOf(w).known = "full"
  BY <1>1 DEF DoneInv, NotForgotten, Lost, Full
<1> QED
  BY <1>2, <1>3, WriteKept

\* The row of worker w is replaced by one that is not lost, or no more lost
\* than it was, by a worker that does not carry the letter.
LEMMA HarmlessKept ==
  ASSUME Recorded, DoneInv, NEW w \in Workers, ~At(w, "idle"), ~Carries(w), NEW r, SetRow(w, r),
         r.known = RowOf(w).known, r.st = "done" /\ ~r.doc => RowOf(w).st = "done" /\ ~RowOf(w).doc,
         QueueGrows, JobOk(w)', \A v \in Workers \ {w} : job'[v] = job[v]
  PROVE  Kept
<1>1. RowOf(w) = rows[job[w].att]
  BY Busy
<1>2. job[w].att \in Info /\ RowOf(w).st = "done" /\ ~RowOf(w).doc => RowOf(w).known = "full"
  BY <1>1 DEF DoneInv, NotForgotten, Lost, Full
<1> QED
  BY <1>2, WriteKept

LEMMA CheckKept ==
  ASSUME Recorded, DoneInv, NEW w \in Workers, Check(w)
  PROVE  Kept
<1>1. ~At(w, "idle") /\ ~Carries(w) /\ Typed /\ JobOk(w)
  BY Busy DEF Check, At, Carries
<1>2. JobOk(w)' /\ \A v \in Workers \ {w} : job'[v] = job[v]
  <2>1. CASE NextRecipient(w)
    BY <1>1, <2>1, NextRecipientOk
  <2>2. CASE Goto(w, "start")
    <3>1. job[w].task.kind # "retry"
      BY <1>1 DEF JobOk, Check, At
    <3> QED
      BY <1>1, <2>2, <3>1, GotoFields DEF JobOk
  <2> QED
    BY <2>1, <2>2 DEF Check
<1> QED
  BY <1>1, <1>2, StayKept, QueueSame DEF Check

LEMMA StartKept ==
  ASSUME Recorded, DoneInv, NEW w \in Workers, Start(w)
  PROVE  Kept
<1>1. ~At(w, "idle") /\ ~Carries(w) /\ Typed /\ JobOk(w) /\ RowOf(w) \in Row
  BY Busy DEF Start, At, Carries
<1>2. /\ SetRow(w, StartedRow(RowOf(w))) /\ UNCHANGED queue
      /\ job' = [job EXCEPT ![w].pc = "graph", ![w].row = TRUE]
  BY NoBadFault DEF Start
<1>3. /\ job'[w].pc = "graph" /\ job'[w].task = job[w].task
      /\ job'[w].att = job[w].att /\ job'[w].out = job[w].out
      /\ \A v \in Workers \ {w} : job'[v] = job[v]
  BY <1>1, <1>2, TypedParts DEF JobsTyped, Job
<1>4. JobOk(w)'
  <2>1. job[w].task.kind # "retry"
    BY <1>1 DEF JobOk, Start, At
  <2> QED
    BY <1>1, <1>3, <2>1 DEF JobOk
<1>5. StartedRow(RowOf(w)).known = RowOf(w).known /\ StartedRow(RowOf(w)).st # "done"
  BY <1>1, FullWrites
<1> QED
  BY <1>1, <1>2, <1>3, <1>4, <1>5, HarmlessKept, QueueSame

LEMMA GraphKept ==
  ASSUME Recorded, DoneInv, NEW w \in Workers, Graph(w)
  PROVE  Kept
<1>1. ~At(w, "idle") /\ ~Carries(w) /\ Typed /\ JobOk(w) /\ job[w].task.kind # "retry"
  BY Busy DEF Graph, At, Carries, JobOk
<1>2. PICK p, o :
        /\ job' = [job EXCEPT ![w].pc = p, ![w].out = o]
        /\ \/ p = "create" /\ o.routed
           \/ p = "final" /\ o.erp = "none" /\ FinalStatus(o) # "done" /\ ~IsHuman(w)
  <2>1. CASE IsHuman(w)
    <3>1. job' = [job EXCEPT ![w].pc = "create", ![w].out = Approved]
      BY <2>1 DEF Graph
    <3>2. Approved.routed
      BY DEF Approved, NoOutcome
    <3> QED
      BY <3>1, <3>2
  <2>2. CASE ~IsHuman(w)
    <3>1. PICK v \in PossibleVerdicts(job[w].task) :
            job' = [job EXCEPT ![w].pc = IF v = "register" THEN "create" ELSE "final",
                               ![w].out = VerdictOutcome(v)]
      BY <2>2 DEF Graph
    <3>2. v \in {"spam", "gray", "review", "dialog", "register"}
      BY <3>1 DEF PossibleVerdicts, Recorded
    <3>3. CASE v = "register"
      <4>1. VerdictOutcome(v).routed
        BY <3>3 DEF VerdictOutcome
      <4> QED
        BY <3>1, <3>3, <4>1
    <3>4. CASE v # "register"
      <4>1. VerdictOutcome(v).erp = "none" /\ FinalStatus(VerdictOutcome(v)) # "done"
        BY <3>2, <3>4 DEF VerdictOutcome, FinalStatus
      <4> QED
        BY <2>2, <3>1, <3>4, <4>1
    <3> QED
      BY <3>3, <3>4
  <2> QED
    BY <2>1, <2>2
<1>3. /\ job'[w].pc = p /\ job'[w].task = job[w].task
      /\ job'[w].att = job[w].att /\ job'[w].out = o
      /\ \A v \in Workers \ {w} : job'[v] = job[v]
  BY <1>1, <1>2, TypedParts DEF JobsTyped, Job
<1>4. IsHuman(w)' <=> IsHuman(w)
  BY <1>3 DEF IsHuman
<1>5. JobOk(w)'
  BY <1>1, <1>2, <1>3, <1>4 DEF JobOk, IsHuman
<1> QED
  BY <1>1, <1>3, <1>5, StayKept, QueueSame DEF Graph

LEMMA GraphRaiseKept ==
  ASSUME Recorded, DoneInv, NEW w \in Workers, GraphRaise(w)
  PROVE  Kept
<1> DEFINE t == job[w].task
           again == [t EXCEPT !.tries = @ + 1]
<1>1. /\ ~At(w, "idle") /\ ~Carries(w) /\ Typed /\ JobOk(w) /\ t \in Task
      /\ RowOf(w) \in Row /\ queue \in [Task -> Nat]
  BY Busy DEF GraphRaise, At, Carries
<1>2. JobOk(w)' /\ \A v \in Workers \ {w} : job'[v] = job[v]
  BY <1>1, ReturnOk DEF GraphRaise
<1>3. QueueGrows
  <2>1. CASE UNCHANGED queue
    BY <2>1, QueueSame
  <2>2. CASE t.kind \in {"continue", "reprocess"} /\ t.tries < HumanTries /\ Send(again)
    <3>1. again \in Task /\ again.kind # "retry"
      BY <1>1, <2>2 DEF Task, MailTask, ErpTask, HumanTries
    <3> HIDE DEF again
    <3> QED
      BY <1>1, <2>2, <3>1, QueueSend
  <2> QED
    BY <2>1, <2>2 DEF GraphRaise
<1>4. UNCHANGED rows \/ \E rev : SetRow(w, FailedRow(RowOf(w), rev))
  BY DEF GraphRaise
<1>5. ASSUME NEW rev, SetRow(w, FailedRow(RowOf(w), rev))
      PROVE  Kept
  <2>1. /\ FailedRow(RowOf(w), rev).known = RowOf(w).known
        /\ FailedRow(RowOf(w), rev).doc = RowOf(w).doc
        /\ FailedRow(RowOf(w), rev).st = "done" => RowOf(w).st = "done"
    BY <1>1, FullWrites
  <2> QED
    BY <1>1, <1>2, <1>3, <1>5, <2>1, HarmlessKept
<1> QED
  BY <1>1, <1>2, <1>3, <1>4, <1>5, StayKept

LEMMA CreateKept ==
  ASSUME Recorded, DoneInv, NEW w \in Workers, Create(w)
  PROVE  Kept
<1>1. /\ ~At(w, "idle") /\ Typed /\ JobOk(w) /\ job[w].out \in Outcome
      /\ job[w].att \in Attempts
  BY Busy DEF Create, At
<1>2. PICK o :
        /\ o.erp \in {"ok", "attach", "fail", "skip"} /\ o.routed = job[w].out.routed
        /\ o.erp \in {"fail", "attach"} /\ ~IsHuman(w) => o.st = "error"
        /\ job' = [job EXCEPT ![w].pc = IF At(w, "create") THEN "final" ELSE "rsave", ![w].out = o]
  <2>1. PICK e \in ErpResults, n \in {0, 1} :
          /\ CallErp(w, e, n)
          /\ LET failed == e \in {"fail", "attach"} /\ ~IsHuman(w)
                 o == [job[w].out EXCEPT !.erp = e, !.st = IF failed THEN "error" ELSE @,
                                        !.rev = failed]
             IN  job' = [job EXCEPT ![w].pc = IF At(w, "create") THEN "final" ELSE "rsave",
                                    ![w].out = o]
    BY DEF Create
  <2> DEFINE failed == e \in {"fail", "attach"} /\ ~IsHuman(w)
             o == [job[w].out EXCEPT !.erp = e, !.st = IF failed THEN "error" ELSE @, !.rev = failed]
  <2>2. o.erp = e /\ o.routed = job[w].out.routed /\ (failed => o.st = "error")
    BY <1>1 DEF Outcome
  <2>3. e \in {"ok", "attach", "fail", "skip"}
    BY <2>1 DEF CallErp
  <2>4. job' = [job EXCEPT ![w].pc = IF At(w, "create") THEN "final" ELSE "rsave", ![w].out = o]
    BY <2>1
  <2> HIDE DEF o
  <2> QED
    BY <2>2, <2>3, <2>4
<1>3. /\ job'[w].pc = IF At(w, "create") THEN "final" ELSE "rsave"
      /\ job'[w].task = job[w].task
      /\ job'[w].att = job[w].att /\ job'[w].out = o
      /\ \A v \in Workers \ {w} : job'[v] = job[v]
  BY <1>1, <1>2, TypedParts DEF JobsTyped, Job
<1>4. UNCHANGED <<rows, queue>> /\ job[w].pc \in {"create", "rcreate"}
  BY DEF Create, At
<1>5. (IsHuman(w)' <=> IsHuman(w)) /\ (Full(job[w].att) <=> rows'[job'[w].att].known = "full")
  BY <1>3, <1>4 DEF IsHuman, Full
<1>6. FinalStatus(o) = "done" => o.st # "error"
  BY DEF FinalStatus
<1>7. JobOk(w)' /\ (Carries(w) => Passes(w))
  <2>1. CASE job[w].pc = "create"
    <3>1. job'[w].pc = "final" /\ job[w].task.kind # "retry" /\ job[w].out.routed /\ ~Carries(w)
      BY <1>1, <1>3, <2>1 DEF JobOk, At, Carries
    <3> QED
      BY <1>1, <1>2, <1>3, <1>5, <1>6, <3>1 DEF JobOk
  <2>2. CASE job[w].pc = "rcreate"
    <3>1. job'[w].pc = "rsave" /\ job[w].task.kind = "retry" /\ Full(job[w].att)
      BY <1>1, <1>3, <2>2 DEF JobOk, At
    <3> QED
      BY <1>1, <1>3, <1>5, <3>1 DEF JobOk, Full, Carries, Passes
  <2> QED
    BY <1>4, <2>1, <2>2
<1> QED
  BY <1>1, <1>3, <1>4, <1>7, StayKept, QueueSame

LEMMA FinalizeKept ==
  ASSUME Recorded, DoneInv, NEW w \in Workers, Finalize(w)
  PROVE  Kept
<1> DEFINE o == job[w].out
           r == FinalRow(RowOf(w), o)
           p == IF job[w].task.kind = "continue" THEN "hsync" ELSE "post"
<1>1. /\ ~At(w, "idle") /\ ~Carries(w) /\ Typed /\ JobOk(w) /\ job[w].att \in Attempts
      /\ RowOf(w) \in Row /\ o \in Outcome /\ job[w].task.kind # "retry" /\ job[w].pc = "final"
  BY Busy DEF Finalize, At, Carries, JobOk
<1>2. SetRow(w, r) /\ Goto(w, p) /\ UNCHANGED queue
  BY NoBadFault DEF Finalize
<1>3. /\ RowOf(w).known = "full" \/ o.routed => r.known = "full"
      /\ r.st = FinalStatus(o)
      /\ o.erp \in {"ok", "attach"} => r.doc
  BY <1>1, FullWrites
<1>4. o.erp = "skip" => job[w].att \notin Info
  BY DEF DoneInv, IInv, AnswersAreBacked
<1>5. o.erp # "none" => o.routed
  BY <1>1 DEF JobOk
<1> HIDE DEF r
<1>6. rows'[job[w].att] = r
  BY <1>1, <1>2, WriteFields
<1>7. /\ job'[w].pc = p /\ job'[w].task = job[w].task /\ job'[w].att = job[w].att
      /\ job'[w].out = o /\ \A v \in Workers \ {w} : job'[v] = job[v]
  BY <1>1, <1>2, GotoFields
<1>8. ErpFailed(w)' => rows'[job'[w].att].known = "full"
  BY <1>3, <1>5, <1>6, <1>7 DEF ErpFailed
<1>9. JobOk(w)'
  BY <1>1, <1>7, <1>8 DEF JobOk, Full
<1>10. ASSUME job[w].att \in Info, r.st = "done", ~r.doc
       PROVE  r.known = "full" /\ Passes(w)
  <2>1. FinalStatus(o) = "done" /\ o.erp \notin {"ok", "attach", "skip"}
    BY <1>3, <1>4, <1>10
  <2>2. job[w].task.kind = "continue" /\ o.erp # "none"
    BY <1>1, <2>1 DEF JobOk, IsHuman
  <2>3. o.erp = "fail"
    BY <1>1, <2>1, <2>2 DEF Outcome, ErpResults
  <2> QED
    BY <1>3, <1>5, <1>7, <2>2, <2>3 DEF Passes, Carries, ErpFailed
<1> QED
  BY <1>1, <1>2, <1>3, <1>7, <1>9, <1>10, WriteKept, QueueSame

LEMMA HumanSyncKept ==
  ASSUME Recorded, DoneInv, NEW w \in Workers, HumanSync(w)
  PROVE  Kept
<1> DEFINE o == job[w].out
           r == SyncedRow(RowOf(w), o)
<1>1. /\ ~At(w, "idle") /\ Typed /\ JobOk(w) /\ job[w].att \in Attempts
      /\ RowOf(w) \in Row /\ o \in Outcome
      /\ job[w].task.kind = "continue" /\ o.erp # "none"
  BY Busy DEF HumanSync, At, JobOk
<1>2. SetRow(w, r) /\ Goto(w, "post") /\ UNCHANGED queue
  BY NoBadFault DEF HumanSync
<1>3. r.known = "full" /\ (o.erp = "ok" => r.doc)
  BY <1>1, FullWrites
<1>4. o.erp = "skip" => job[w].att \notin Info
  BY DEF DoneInv, IInv, AnswersAreBacked
<1> HIDE DEF r
<1>5. rows'[job[w].att] = r
  BY <1>1, <1>2, WriteFields
<1>6. /\ job'[w].pc = "post" /\ job'[w].task = job[w].task /\ job'[w].att = job[w].att
      /\ job'[w].out = o /\ \A v \in Workers \ {w} : job'[v] = job[v]
  BY <1>1, <1>2, GotoFields
<1>7. rows'[job'[w].att].known = "full"
  BY <1>3, <1>5, <1>6
<1>8. JobOk(w)'
  BY <1>1, <1>6, <1>7 DEF JobOk, Full
<1>9. ASSUME job[w].att \in Info, ~r.doc
      PROVE  Passes(w)
  <2>1. o.erp \in {"fail", "attach"}
    BY <1>1, <1>3, <1>4, <1>9 DEF Outcome, ErpResults
  <2> QED
    BY <1>1, <1>6, <2>1 DEF Passes, Carries, ErpFailed
<1> QED
  BY <1>1, <1>2, <1>3, <1>6, <1>8, <1>9, WriteKept, QueueSame

LEMMA PostKept ==
  ASSUME Recorded, DoneInv, NEW w \in Workers, Post(w)
  PROVE  Kept
<1> DEFINE t == RetryTask(job[w].att, FALSE)
<1>1. /\ ~At(w, "idle") /\ Typed /\ JobOk(w) /\ job[w].att \in Attempts
      /\ queue \in [Task -> Nat]
  BY Busy DEF Post, At
<1>2. t \in Task /\ t.kind = "retry" /\ t.att = job[w].att
  BY <1>1, TaskConstructors DEF RetryTask
<1>3. ~Fault("broker") /\ NextRecipient(w) /\ UNCHANGED rows
  BY NoBadFault DEF Post
<1>4. JobOk(w)' /\ \A v \in Workers \ {w} : job'[v] = job[v]
  BY <1>1, <1>3, NextRecipientOk
<1>5. QueueGrows /\ (Carries(w) => Passes(w))
  <2>1. CASE ErpFailed(w) /\ job[w].task.kind \in {"process", "continue"}
    <3>1. Send(t)
      BY <1>3, <2>1 DEF Post
    <3>2. Full(job[w].att)
      BY <1>1, <2>1 DEF JobOk, Post, At
    <3>3. rows'[t.att].known = "full"
      BY <1>2, <1>3, <3>2 DEF Full
    <3>4. QueueGrows /\ \E u \in Task : u.kind \in {"continue", "retry"} /\ u.att = job[w].att /\ queue'[u] > 0
      <4> HIDE DEF t
      <4>1. QueueGrows
        BY <1>1, <1>2, <3>1, <3>3, QueueSend DEF Full
      <4>2. queue'[t] > 0
        BY <1>1, <1>2, <3>1 DEF Send
      <4> QED
        BY <1>2, <4>1, <4>2
    <3> QED
      BY <3>4 DEF Passes, Queued
  <2>2. CASE ~(ErpFailed(w) /\ job[w].task.kind \in {"process", "continue"})
    <3>1. ~Carries(w)
      BY <2>2 DEF Carries, Post, At
    <3> QED
      BY <2>2, <3>1, QueueSame DEF Post
  <2> QED
    BY <2>1, <2>2
<1> QED
  BY <1>1, <1>3, <1>4, <1>5, StayKept

LEMMA LoadReprocessKept ==
  ASSUME Recorded, DoneInv, NEW w \in Workers, LoadReprocess(w)
  PROVE  Kept
<1>1. /\ ~At(w, "idle") /\ ~Carries(w) /\ Typed /\ JobOk(w) /\ RowOf(w) \in Row
      /\ job[w].task.kind = "reprocess"
  BY Busy DEF LoadReprocess, At, Carries
<1>2. JobOk(w)' /\ \A v \in Workers \ {w} : job'[v] = job[v]
  <2>1. Goto(w, "start")
    BY DEF LoadReprocess
  <2> QED
    BY <1>1, <2>1, GotoFields DEF JobOk
<1>3. RestoredRow(RowOf(w)).known = RowOf(w).known /\ RestoredRow(RowOf(w)).st # "done"
  BY <1>1, FullWrites
<1>4. QueueGrows
  BY QueueSame DEF LoadReprocess
<1>5. CASE SetRow(w, RestoredRow(RowOf(w)))
  BY <1>1, <1>2, <1>3, <1>4, <1>5, HarmlessKept
<1>6. CASE UNCHANGED rows
  BY <1>1, <1>2, <1>4, <1>6, StayKept
<1> QED
  BY <1>5, <1>6 DEF LoadReprocess

\* The letter is resumed, or failed because nobody knows its route: then it was
\* not lost.
LEMMA LoadContinueKept ==
  ASSUME Recorded, DoneInv, NEW w \in Workers, LoadContinue(w)
  PROVE  Kept
<1>1. /\ ~At(w, "idle") /\ Typed /\ JobOk(w) /\ RowOf(w) \in Row /\ RowOf(w) = rows[job[w].att]
      /\ job[w].task.kind = "continue" /\ QueueGrows
  BY Busy, QueueSame DEF LoadContinue, At
<1>2. CASE RowOf(w).known = "none"
  <2> DEFINE r == FailedRow(RowOf(w), FALSE)
  <2>1. SetRow(w, r) /\ Return(w)
    BY <1>2 DEF LoadContinue
  <2>2. /\ r.known = RowOf(w).known /\ r.doc = RowOf(w).doc
        /\ r.st = "done" => RowOf(w).st = "done"
    BY <1>1 DEF FailedRow, Row
  <2>3. job[w].att \in Info => ~(RowOf(w).st = "done" /\ ~RowOf(w).doc)
    BY <1>1, <1>2 DEF DoneInv, NotForgotten, Lost, Full
  <2>4. JobOk(w)' /\ \A v \in Workers \ {w} : job'[v] = job[v]
    BY <1>1, <2>1, ReturnOk
  <2> HIDE DEF r
  <2> QED
    BY <1>1, <2>1, <2>2, <2>3, <2>4, WriteKept
<1>3. CASE RowOf(w).known # "none"
  <2> DEFINE r == [RowOf(w) EXCEPT !.st = "processing", !.rev = FALSE]
  <2>1. /\ SetRow(w, r)
        /\ job' = [job EXCEPT ![w].pc = "graph"]
    BY <1>3 DEF LoadContinue, Goto
  <2>2. r.known = RowOf(w).known /\ r.st # "done"
    BY <1>1 DEF Row
  <2>3. /\ job'[w].pc = "graph" /\ job'[w].task = job[w].task
        /\ job'[w].att = job[w].att /\ job'[w].out = job[w].out
        /\ \A v \in Workers \ {w} : job'[v] = job[v]
    BY <1>1, <2>1, TypedParts DEF JobsTyped, Job
  <2>4. JobOk(w)'
    BY <1>1, <2>3 DEF JobOk
  <2> HIDE DEF r
  <2> QED
    BY <1>1, <2>1, <2>2, <2>3, <2>4, WriteKept
<1> QED
  BY <1>2, <1>3

\* A retry works on a letter that was summarised, and either goes on to 1C or
\* leaves a row that is an error or names a document.
LEMMA LoadRetryKept ==
  ASSUME Recorded, DoneInv, NEW w \in Workers, LoadRetry(w)
  PROVE  Kept
<1> DEFINE b == RetryBranch(job[w].att)
           e == Exhausted(RowOf(w))
           counted == [RowOf(w) EXCEPT !.retry = @ + 1]
<1>1. /\ ~At(w, "idle") /\ Typed /\ JobOk(w) /\ RowOf(w) \in Row /\ RowOf(w) = rows[job[w].att]
      /\ job[w].task.kind = "retry" /\ RowOf(w).known = "full" /\ QueueGrows
      /\ job[w].att \in Attempts
  BY Busy, QueueSame DEF LoadRetry, At, JobOk, Full
<1>2. CASE b \in {"exhausted", "missing_xml"}
  <2>1. SetRow(w, e) /\ Return(w)
    BY <1>2 DEF LoadRetry
  <2>2. e.known = RowOf(w).known /\ e.st # "done"
    BY <1>1, FullWrites
  <2>3. JobOk(w)' /\ \A v \in Workers \ {w} : job'[v] = job[v]
    BY <1>1, <2>1, ReturnOk
  <2> HIDE DEF e
  <2> QED
    BY <1>1, <2>1, <2>2, <2>3, WriteKept
<1>3. CASE b = "create"
  <2>1. SetRow(w, counted) /\ Goto(w, "rcreate")
    BY <1>3 DEF LoadRetry
  <2>2. counted.known = "full"
    BY <1>1 DEF Row
  <2> HIDE DEF counted
  <2>3. rows'[job[w].att] = counted
    BY <1>1, <2>1, WriteFields
  <2>4. /\ job'[w].pc = "rcreate" /\ job'[w].task = job[w].task
        /\ job'[w].att = job[w].att /\ \A v \in Workers \ {w} : job'[v] = job[v]
    BY <1>1, <2>1, GotoFields
  <2>5. rows'[job'[w].att].known = "full"
    BY <2>2, <2>3, <2>4
  <2>6. JobOk(w)'
    BY <1>1, <2>4, <2>5 DEF JobOk, Full
  <2>7. Passes(w)
    BY <1>1, <2>4 DEF Passes, Carries
  <2> QED
    BY <1>1, <2>1, <2>2, <2>4, <2>6, <2>7, WriteKept
<1>4. CASE b = "sync_existing"
  <2>1. UNCHANGED rows /\ job' = [job EXCEPT ![w].pc = "patch",
                                    ![w].snap = [xml |-> RowOf(w).xml, lease |-> RowOf(w).lease]]
    BY <1>4 DEF LoadRetry
  <2>2. RowOf(w).doc
    BY <1>1, <1>4 DEF RetryBranch
  <2>3. /\ job'[w].pc = "patch" /\ job'[w].task = job[w].task
        /\ job'[w].att = job[w].att /\ \A v \in Workers \ {w} : job'[v] = job[v]
    BY <1>1, <2>1, TypedParts DEF JobsTyped, Job
  <2>4. rows'[job'[w].att].known = "full"
    BY <1>1, <2>1, <2>3
  <2>5. JobOk(w)'
    BY <1>1, <2>3, <2>4 DEF JobOk, Full
  <2> QED
    BY <1>1, <2>1, <2>2, <2>3, <2>5, StayKept
<1>5. CASE b = "ineligible"
  <2>1. UNCHANGED rows /\ Return(w)
    BY <1>5 DEF LoadRetry
  <2>2. job[w].att \notin Info
    BY <1>1, <1>5 DEF RetryBranch
  <2>3. JobOk(w)' /\ \A v \in Workers \ {w} : job'[v] = job[v]
    BY <1>1, <2>1, ReturnOk
  <2> QED
    BY <1>1, <2>1, <2>2, <2>3, StayKept
<1> QED
  <2>1. b \in {"exhausted", "missing_xml", "create", "sync_existing", "ineligible"}
    BY <1>1 DEF RetryBranch
  <2> QED
    BY <1>2, <1>3, <1>4, <1>5, <2>1

LEMMA LoadSyncKept ==
  ASSUME Recorded, DoneInv, NEW w \in Workers, LoadSync(w)
  PROVE  Kept
<1>1. /\ ~At(w, "idle") /\ ~Carries(w) /\ Typed /\ JobOk(w) /\ job[w].task.kind = "sync"
  BY Busy DEF LoadSync, At, Carries
<1>2. JobOk(w)' /\ \A v \in Workers \ {w} : job'[v] = job[v]
  <2>1. CASE Return(w)
    BY <1>1, <2>1, ReturnOk
  <2>2. CASE Goto(w, "patch")
    BY <1>1, <2>2, GotoFields DEF JobOk
  <2> QED
    BY <2>1, <2>2 DEF LoadSync
<1> QED
  BY <1>1, <1>2, StayKept, QueueSame DEF LoadSync

LEMMA SyncSaveKept ==
  ASSUME Recorded, DoneInv, NEW w \in Workers, SyncSave(w)
  PROVE  Kept
<1>1. /\ ~At(w, "idle") /\ ~Carries(w) /\ Typed /\ RowOf(w) \in Row /\ QueueGrows
  BY Busy, QueueSame DEF SyncSave, At, Carries
<1>2. JobOk(w)' /\ \A v \in Workers \ {w} : job'[v] = job[v]
  BY <1>1, ReturnOk DEF SyncSave
<1>3. PICK r : SetRow(w, r) /\ r.st = RowOf(w).st /\ r.doc = RowOf(w).doc /\ r.known = RowOf(w).known
  <2> DEFINE r1 == [RowOf(w) EXCEPT !.rev = FALSE]
             r2 == [RowOf(w) EXCEPT !.rev = FALSE, !.xml = job[w].snap.xml,
                                    !.lease = job[w].snap.lease]
  <2>1. /\ r1.st = RowOf(w).st /\ r1.doc = RowOf(w).doc /\ r1.known = RowOf(w).known
        /\ r2.st = RowOf(w).st /\ r2.doc = RowOf(w).doc /\ r2.known = RowOf(w).known
    BY <1>1 DEF Row
  <2>2. SetRow(w, r1) \/ SetRow(w, r2) \/ UNCHANGED rows
    BY DEF SyncSave
  <2>3. UNCHANGED rows => SetRow(w, RowOf(w))
    BY <1>1, TypedParts DEF SetRow, RowOf
  <2> HIDE DEF r1, r2
  <2> QED
    BY <2>1, <2>2, <2>3
<1> QED
  BY <1>1, <1>2, <1>3, HarmlessKept

\* The registration is recorded, or the row asks for the operator, or a further
\* retry is in the queue.
LEMMA RetrySaveKept ==
  ASSUME Recorded, DoneInv, NEW w \in Workers, RetrySave(w)
  PROVE  Kept
<1> DEFINE t == RetryTask(job[w].att, FALSE)
           registered == [RowOf(w) EXCEPT !.doc = TRUE, !.st = "done", !.rev = FALSE, !.retry = 0]
           attached   == [RowOf(w) EXCEPT !.doc = TRUE]
           e == Exhausted(RowOf(w))
<1>1. /\ ~At(w, "idle") /\ Typed /\ JobOk(w) /\ RowOf(w) \in Row /\ RowOf(w) = rows[job[w].att]
      /\ RowOf(w).known = "full" /\ job[w].att \in Attempts /\ queue \in [Task -> Nat]
  BY Busy DEF RetrySave, At, JobOk, Full
<1>2. t \in Task /\ t.kind = "retry" /\ t.att = job[w].att
  BY <1>1, TaskConstructors DEF RetryTask
<1>3. JobOk(w)' /\ \A v \in Workers \ {w} : job'[v] = job[v]
  BY <1>1, ReturnOk DEF RetrySave
<1>4. /\ registered.known = "full" /\ registered.doc
      /\ attached.known = "full" /\ attached.doc
      /\ e.known = "full" /\ e.st # "done"
  BY <1>1, FullWrites DEF Row
<1>5. \/ SetRow(w, registered) /\ UNCHANGED queue
      \/ SetRow(w, attached) /\ (Send(t) \/ UNCHANGED queue)
      \/ SetRow(w, e) /\ UNCHANGED queue
      \/ UNCHANGED rows /\ Send(t)
  BY NoBadFault DEF RetrySave, RetryFailed, SendOrLose
<1> HIDE DEF registered, attached, e, t
<1>6. ASSUME rows'[job[w].att].known = "full", Send(t)
      PROVE  QueueGrows /\ Passes(w)
  <2>1. rows'[t.att].known = "full"
    BY <1>2, <1>6
  <2>2. QueueGrows
    BY <1>1, <1>2, <1>6, <2>1, QueueSend DEF Full
  <2>3. queue'[t] > 0
    BY <1>1, <1>2, <1>6 DEF Send
  <2> QED
    BY <1>2, <2>2, <2>3 DEF Passes, Queued
<1>7. CASE SetRow(w, registered) /\ UNCHANGED queue
  BY <1>1, <1>3, <1>4, <1>7, WriteKept, QueueSame
<1>8. CASE SetRow(w, attached) /\ (Send(t) \/ UNCHANGED queue)
  <2>1. rows'[job[w].att].known = "full"
    BY <1>1, <1>4, <1>8, WriteFields
  <2>2. QueueGrows
    BY <1>6, <1>8, <2>1, QueueSame
  <2> QED
    BY <1>1, <1>3, <1>4, <1>8, <2>2, WriteKept
<1>9. CASE SetRow(w, e) /\ UNCHANGED queue
  BY <1>1, <1>3, <1>4, <1>9, WriteKept, QueueSame
<1>10. CASE UNCHANGED rows /\ Send(t)
  <2>1. QueueGrows /\ Passes(w)
    BY <1>1, <1>6, <1>10
  <2> QED
    BY <1>1, <1>3, <1>10, <2>1, StayKept
<1> QED
  BY <1>5, <1>7, <1>8, <1>9, <1>10

\* The message of a lost worker goes back to the queue.
LEMMA CrashKept ==
  ASSUME Recorded, DoneInv, NEW w \in Workers, Crash(w)
  PROVE  Kept
<1> DEFINE t == job[w].task
<1>1. /\ ~At(w, "idle") /\ Typed /\ JobOk(w) /\ job[w].att \in Attempts
      /\ queue \in [Task -> Nat] /\ t \in Task /\ Send(t) /\ UNCHANGED rows
  BY Busy DEF Crash
<1>2. JobOk(w)' /\ \A v \in Workers \ {w} : job'[v] = job[v]
  BY <1>1, ReturnOk DEF Crash
<1>3. /\ t.kind = "retry" => t.att = job[w].att /\ Full(job[w].att)
      /\ Carries(w) => t.kind \in {"continue", "retry"} /\ t.att = job[w].att
  BY <1>1 DEF JobOk, Carries
<1> HIDE DEF t
<1>4. t.kind = "retry" => rows'[t.att].known = "full"
  BY <1>1, <1>3 DEF Full
<1>5. QueueGrows /\ queue'[t] > 0
  <2>1. \A u \in Task : queue'[u] = IF u = t THEN queue[u] + 1 ELSE queue[u]
    BY <1>1 DEF Send
  <2>2. \A u \in Task : queue[u] \in Nat
    BY <1>1
  <2>3. \A u \in Task : u.kind = "retry" /\ queue'[u] > 0 => queue[u] > 0 \/ rows'[u.att].known = "full"
    BY <1>4, <2>1, <2>2
  <2> QED
    BY <1>1, <2>1, <2>2, <2>3 DEF QueueGrows, Full
<1>6. Carries(w) => Passes(w)
  BY <1>1, <1>3, <1>5 DEF Passes, Queued
<1> QED
  BY <1>1, <1>2, <1>5, <1>6, StayKept

-----------------------------------------------------------------------------
(* Taking a message *)

\* A worker that takes the last message of a letter carries the letter.
LEMMA TakeKept ==
  ASSUME Recorded, DoneInv, NEW w \in Workers, Take(w)
  PROVE  Kept
<1>1. PICK t \in Task :
        /\ queue[t] > 0
        /\ queue' = [queue EXCEPT ![t] = @ - 1]
        /\ job' = [job EXCEPT ![w] =
             IF t.kind = "process" THEN Recipient(t.mail, 1)
             ELSE [Idle EXCEPT !.pc = "load", !.task = t, !.att = t.att]]
  BY DEF Take, Task
<1>2. /\ queue \in [Task -> Nat] /\ job \in [Workers -> Job] /\ UNCHANGED rows
      /\ job[w].pc = "idle" /\ Typed
  BY TypedParts DEF DoneInv, IInv, JobsTyped, Take, At
<1>3. \A v \in Workers \ {w} : job'[v] = job[v]
  BY <1>1, <1>2
<1>4. FullStays
  BY <1>2 DEF FullStays, Full
<1>5. \A u \in Task : /\ queue'[u] = IF u = t THEN queue[u] - 1 ELSE queue[u]
                      /\ queue[u] \in Nat
  BY <1>1, <1>2
<1>6. QueueOk'
  <2>1. \A u \in Task : u.kind = "retry" => u.att \in Attempts
    BY RetryAttempt
  <2>2. \A u \in Task : u.kind = "retry" /\ queue'[u] > 0 => rows'[u.att].known = "full"
    BY <1>2, <1>5 DEF DoneInv, QueueOk, Full
  <2> QED
    BY <2>2 DEF QueueOk, Full
<1>7. ~Carries(w)
  BY <1>2 DEF Carries
<1>8. JobOk(w)' /\ (t.kind \in {"continue", "retry"} => job'[w].att = t.att /\ Carries(w)')
  <2>1. CASE t.kind = "process"
    <3>1. job'[w] = Recipient(t.mail, 1)
      BY <1>1, <1>2, <2>1
    <3> QED
      BY <2>1, <3>1, FreshJobs DEF JobOk
  <2>2. CASE t.kind # "process"
    <3> DEFINE j == [Idle EXCEPT !.pc = "load", !.task = t, !.att = t.att]
    <3>1. j.pc = "load" /\ j.task = t /\ j.att = t.att
      BY DEF Idle
    <3>2. job'[w] = j
      BY <1>1, <1>2, <2>2
    <3> HIDE DEF j
    <3>3. t.kind = "retry" => rows'[job'[w].att].known = "full"
      BY <1>1, <1>2, <3>1, <3>2 DEF DoneInv, QueueOk, Full
    <3> QED
      BY <3>1, <3>2, <3>3 DEF JobOk, Carries, Full
  <2> QED
    BY <2>1, <2>2
<1>9. JobsOk'
  BY <1>3, <1>4, <1>8, OthersOk DEF JobsOk
<1>10. NotForgotten'
  <2> SUFFICES ASSUME NEW a \in Info, Lost(a)'
               PROVE  Full(a)' /\ (Queued(a)' \/ \E v \in Workers : job'[v].att = a /\ Carries(v)')
    BY DEF NotForgotten
  <2>1. Lost(a) /\ (Full(a)' <=> Full(a))
    BY <1>2 DEF Lost, Full
  <2>2. Full(a) /\ (Queued(a) \/ \E v \in Workers : job[v].att = a /\ Carries(v))
    BY <2>1 DEF DoneInv, NotForgotten
  <2>3. CASE \E v \in Workers : job[v].att = a /\ Carries(v)
    <3>1. PICK v \in Workers : job[v].att = a /\ Carries(v)
      BY <2>3
    <3>2. v # w
      BY <1>7, <3>1
    <3>3. job'[v].att = a /\ Carries(v)'
      BY <1>3, <1>4, <3>1, <3>2, OthersOk
    <3> QED
      BY <2>1, <2>2, <3>3
  <2>4. CASE Queued(a)
    <3>1. PICK u \in Task : u.kind \in {"continue", "retry"} /\ u.att = a /\ queue[u] > 0
      BY <2>4 DEF Queued
    <3>2. CASE u = t
      BY <1>8, <2>1, <2>2, <3>1, <3>2
    <3>3. CASE u # t
      <4>1. queue'[u] > 0
        BY <1>5, <3>1, <3>3
      <4> QED
        BY <2>1, <2>2, <3>1, <4>1 DEF Queued
    <3> QED
      BY <3>2, <3>3
  <2> QED
    BY <2>2, <2>3, <2>4
<1> QED
  BY <1>6, <1>9, <1>10 DEF Kept

-----------------------------------------------------------------------------
(* Beat and the operator *)

LEMMA OutsideKept ==
  ASSUME Recorded, DoneInv, UNCHANGED job, FullStays, QueueGrows,
         \A a \in Attempts : Lost(a)' => Lost(a)
  PROVE  Kept
<1>1. JobsOk'
  BY OthersOk DEF JobsOk
<1>2. QueueOk'
  BY QueueKept DEF DoneInv
<1>3. \A v \in Workers : Carries(v) => Carries(v)'
  BY OthersOk
<1>4. \A a \in Info : Queued(a) => Queued(a)'
  BY DEF Queued, QueueGrows
<1>5. \A a \in Info : a \in Attempts /\ (Full(a) => Full(a)')
  BY DEF Recorded, FullStays
<1>6. NotForgotten'
  BY <1>3, <1>4, <1>5 DEF DoneInv, NotForgotten
<1> QED
  BY <1>1, <1>2, <1>6 DEF Kept

LEMMA SameRowsFull ==
  ASSUME \A a \in Attempts : /\ rows'[a].st = rows[a].st /\ rows'[a].doc = rows[a].doc
                             /\ rows'[a].known = rows[a].known
  PROVE  FullStays /\ \A a \in Attempts : Lost(a)' => Lost(a)
BY DEF FullStays, Full, Lost

LEMMA SendOther ==
  ASSUME queue \in [Task -> Nat], NEW t, t.kind # "retry", Send(t)
  PROVE  QueueGrows
<1>1. \A u \in Task : u.kind = "retry" => queue'[u] = queue[u]
  BY DEF Send
<1>2. \A u \in Task : queue[u] > 0 => queue'[u] > 0
  BY DEF Send
<1> QED
  BY <1>1, <1>2 DEF QueueGrows

LEMMA PollKept ==
  ASSUME Recorded, DoneInv, NEW m \in Mails, Poll(m)
  PROVE  Kept
<1>1. queue \in [Task -> Nat] /\ ProcessTask(m).kind # "retry"
  BY TypedParts DEF DoneInv, IInv, ProcessTask
<1>2. QueueGrows
  BY <1>1, SendOther DEF Poll
<1> QED
  BY <1>2, SameRowsFull, OutsideKept DEF Poll

LEMMA RecoverKept ==
  ASSUME Recorded, DoneInv, Recover
  PROVE  Kept
<1> DEFINE stale == {a \in Processing : ~rows[a].lease}
           leased(R) == [a \in Attempts |-> IF a \in R THEN [rows[a] EXCEPT !.lease = TRUE] ELSE rows[a]]
           published(sent) ==
             [t \in Task |-> queue[t] +
                IF t.kind = "process" THEN Cardinality({a \in sent : a[1] = t.mail}) ELSE 0]
<1>1. PICK R \in SUBSET stale : /\ UNCHANGED job /\ rows' = leased(R)
                                /\ \E sent \in SUBSET R : queue' = published(sent)
  BY DEF Recover
<1>2. PICK sent \in SUBSET R : queue' = published(sent)
  BY <1>1
<1>3. rows \in [Attempts -> Row] /\ queue \in [Task -> Nat]
  BY TypedParts DEF DoneInv, IInv
<1>4. \A a \in Attempts : /\ rows'[a].st = rows[a].st /\ rows'[a].doc = rows[a].doc
                          /\ rows'[a].known = rows[a].known
  BY <1>1, <1>3 DEF Row
<1>5. \A t \in Task : t.kind \in {"continue", "retry"} => queue'[t] = queue[t]
  BY <1>2, <1>3
<1>6. QueueGrows
  BY <1>5 DEF QueueGrows
<1> QED
  BY <1>1, <1>4, <1>6, SameRowsFull, OutsideKept

LEMMA LeaseExpireKept ==
  ASSUME Recorded, DoneInv, NEW a \in Attempts, LeaseExpire(a)
  PROVE  Kept
<1>1. rows \in [Attempts -> Row]
  BY TypedParts DEF DoneInv, IInv
<1>2. \A b \in Attempts : /\ rows'[b].st = rows[b].st /\ rows'[b].doc = rows[b].doc
                          /\ rows'[b].known = rows[b].known
  BY <1>1 DEF LeaseExpire, Row
<1> QED
  BY <1>2, SameRowsFull, QueueSame, OutsideKept DEF LeaseExpire

\* An endpoint that declares no letter done and retries none.
LEMMA OperatorKept ==
  ASSUME Recorded, DoneInv, NEW a \in Attempts, Operator(a)
  PROVE  Kept
<1>1. rows \in [Attempts -> Row] /\ rows[a] \in Row /\ queue \in [Task -> Nat]
  BY TypedParts DEF DoneInv, IInv
<1>2. ASSUME NEW r, Saves(a, r), rows[a].known = "full" => r.known = "full",
             r.st = "done" /\ ~r.doc => rows[a].st = "done" /\ ~rows[a].doc
      PROVE  FullStays /\ \A b \in Attempts : Lost(b)' => Lost(b)
  <2>1. rows'[a] = r /\ \A b \in Attempts \ {a} : rows'[b] = rows[b]
    BY <1>1, <1>2 DEF Saves
  <2> QED
    BY <1>2, <2>1 DEF FullStays, Full, Lost
<1>3. \/ MarkSpam(a) \/ MarkNotSpam(a) \/ Approve(a) \/ MarkVerified(a)
      \/ Reanalyze(a) \/ RestoreFromSpam(a)
  BY DEF Recorded, Operator, Correct, RetryErp, Decide
<1>4. PICK r : /\ Saves(a, r) /\ (rows[a].known = "full" => r.known = "full")
               /\ r.st = "done" /\ ~r.doc => rows[a].st = "done" /\ ~rows[a].doc
  <2> DEFINE spam == [rows[a] EXCEPT !.st = "spam", !.rev = FALSE, !.xml = FALSE]
             again == [rows[a] EXCEPT !.st = "processing", !.rev = FALSE, !.xml = FALSE]
             resumed == RoutedByOperator(rows[a], "processing")
             verified == RoutedByOperator(rows[a], rows[a].st)
             anew == [rows[a] EXCEPT !.st = "processing", !.rev = FALSE]
             restored == RestoredRow(rows[a])
  <2>1. /\ spam.known = rows[a].known /\ spam.st # "done"
        /\ again.known = rows[a].known /\ again.st # "done"
        /\ anew.known = rows[a].known /\ anew.st # "done"
        /\ restored.known = rows[a].known /\ restored.st # "done"
    BY <1>1 DEF Row, RestoredRow
  <2>2. /\ (rows[a].known = "full" => resumed.known = "full") /\ resumed.st # "done"
        /\ (rows[a].known = "full" => verified.known = "full")
        /\ verified.st = rows[a].st /\ verified.doc = rows[a].doc
    BY <1>1 DEF Row, RoutedByOperator
  <2>3. \E r \in {spam, again, resumed, verified, anew, restored} : Saves(a, r)
    BY <1>3 DEF MarkSpam, MarkNotSpam, Approve, MarkVerified, Reanalyze, RestoreFromSpam
  <2> HIDE DEF spam, again, resumed, verified, anew, restored
  <2> QED
    BY <2>1, <2>2, <2>3
<1>5. QueueGrows
  <2>1. /\ SyncTask(a).kind # "retry" /\ ContinueTask(a, 0).kind # "retry"
        /\ \A d : ReprocessTask(a, d, 0).kind # "retry"
    BY DEF SyncTask, ContinueTask, ReprocessTask
  <2>2. \/ UNCHANGED queue \/ Send(SyncTask(a)) \/ Send(ContinueTask(a, 0))
        \/ \E d : Send(ReprocessTask(a, d, 0))
    BY <1>3 DEF MarkSpam, MarkNotSpam, Approve, MarkVerified, Reanalyze, RestoreFromSpam,
       ScheduleSync, SendOrLose
  <2> QED
    BY <1>1, <2>1, <2>2, SendOther, QueueSame
<1>6. UNCHANGED job
  BY <1>3 DEF MarkSpam, MarkNotSpam, Approve, MarkVerified, Reanalyze, RestoreFromSpam
<1> QED
  BY <1>2, <1>4, <1>5, <1>6, OutsideKept

-----------------------------------------------------------------------------
(* The theorem *)

LEMMA DoneInit ==
  ASSUME Recorded, Init
  PROVE  DoneInv
<1>1. JobsOk
  <2>1. \A w \in Workers : job[w] = Idle
    BY DEF Init
  <2> QED
    BY <2>1, FreshJobs DEF JobsOk, JobOk
<1>2. QueueOk
  BY DEF Init, QueueOk
<1>3. NotForgotten
  <2>1. \A a \in Attempts : rows[a].st = "absent"
    BY DEF Init, NoRow
  <2> QED
    BY <2>1 DEF NotForgotten, Lost, Recorded
<1> QED
  BY <1>1, <1>2, <1>3, InvInit DEF DoneInv

LEMMA DoneNext ==
  ASSUME Recorded, DoneInv, [Next]_vars
  PROVE  DoneInv'
<1>1. IInv'
  BY InvNext DEF DoneInv
<1>2. CASE UNCHANGED vars
  <2>1. FullStays /\ QueueGrows /\ UNCHANGED job /\ \A a \in Attempts : Lost(a)' => Lost(a)
    BY <1>2, QueueSame DEF vars, FullStays, Full, Lost
  <2> QED
    BY <1>1, <2>1, OutsideKept DEF Kept, DoneInv
<1>3. CASE Next
  <2>1. \A w \in Workers : WorkerStep(w) => Kept
    BY CheckKept, StartKept, GraphKept, GraphRaiseKept, CreateKept, FinalizeKept, PostKept,
       LoadReprocessKept, LoadContinueKept, HumanSyncKept, LoadRetryKept, LoadSyncKept,
       SyncSaveKept, RetrySaveKept DEF WorkerStep
  <2>2. \A w \in Workers : ~Kill(w)
    BY NoBadFault DEF Kill
  <2>3. Kept
    BY <1>3, <2>1, <2>2, TakeKept, CrashKept, PollKept, RecoverKept, LeaseExpireKept,
       OperatorKept DEF Next
  <2> QED
    BY <1>1, <2>3 DEF Kept, DoneInv
<1> QED
  BY <1>2, <1>3

LEMMA NotForgottenIsPending ==
  ASSUME Recorded, DoneInv
  PROVE  DoneIsRegisteredOrPending
<1> SUFFICES ASSUME NEW a \in Info, rows[a].st = "done" /\ ~rows[a].doc
             PROVE  Outstanding(a)
  BY DEF DoneIsRegisteredOrPending
<1>1. Queued(a) \/ \E w \in Workers : job[w].att = a /\ Carries(w)
  BY DEF DoneInv, NotForgotten, Lost
<1> QED
  BY <1>1 DEF Queued, Outstanding

\* With any number of letters and workers, however often 1C fails, a worker is
\* lost or the graph raises, a row that is done without a document still has a
\* task under way: continue_after_human_task hands the failed registration
\* from the row to the retry it sends, retry_erp_task hands it on to the next,
\* and a message lost with its worker comes back.
THEOREM DoneIsNeverForgotten ==
  ASSUME Recorded
  PROVE  Spec => []DoneIsRegisteredOrPending
<1>1. Init => DoneInv
  BY Recorded, DoneInit
<1>2. DoneInv /\ [Next]_vars => DoneInv'
  BY Recorded, DoneNext
<1>3. DoneInv => DoneIsRegisteredOrPending
  BY Recorded, NotForgottenIsPending
<1> QED
  BY <1>1, <1>2, <1>3, PTL DEF Spec

=============================================================================
