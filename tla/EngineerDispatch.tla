-------------------------- MODULE EngineerDispatch --------------------------
(***************************************************************************)
(* The queue of engineer calculations of the procurement orchestrator       *)
(* (src/app/services/procurement_orchestrator_service.py and                *)
(* run_procurement_case_task in src/app/workers/tasks.py).                  *)
(*                                                                          *)
(* A calculation is a row of the table of tasks.  Whoever finishes a task   *)
(* of any role agent, and the periodic poll, claims the oldest waiting      *)
(* calculations while fewer than Slots are active, commits, and sends a     *)
(* message for each.  A worker holds the row of the calculation it runs     *)
(* until it commits the result; a claim skips the rows that are locked.     *)
(*                                                                          *)
(* Calculations are numbered by creation.  row has the committed columns;   *)
(* current says that the case still names the task.  What a transaction     *)
(* does between two waits (a lock, an agent, 1C, the broker) is one step.   *)
(***************************************************************************)
EXTENDS Naturals, FiniteSets, Functions

CONSTANTS
  N,           \* number of calculations
  Workers,     \* processes of the queue "agents"
  Polls,       \* polls that end with a claim
  Syncs,       \* polls that do not claim
  Slots,       \* 5 in the code
  MaxRetries,  \* retries of a message after an exception
  MaxCopies,   \* bound of equal messages in the queue
  Overlap,     \* whether several processes may claim in the same instant
  Faults,      \* the kinds of failure that occur
  MaxFaults    \* how many of them

ASSUME DispatchAssumption ==
  /\ {N, Slots, MaxRetries, MaxFaults} \subseteq Nat
  /\ MaxCopies \in Nat \ {0}
  /\ IsFiniteSet(Workers)
  /\ Overlap \in BOOLEAN

VARIABLES row, queue, work, beat, faults
vars == <<row, queue, work, beat, faults>>

Tasks    == 1..N
Beat     == Polls \cup Syncs
Retries  == 0..MaxRetries
Results  == {"waiting", "completed", "failed"}
Statuses == Results \cup {"pending", "cancelled"}

Row == [st : Statuses, claimed : BOOLEAN, current : BOOLEAN]
Job == [pc : {"idle", "read", "run", "send"}, task : Tasks \cup {0}, retry : Retries,
        todo : SUBSET Tasks]

Idle   == [pc |-> "idle", task |-> 0, retry |-> 0, todo |-> {}]
Resting == [pc |-> "idle", drop |-> {}, todo |-> {}]

TypeOK ==
  /\ row \in [Tasks -> Row]
  /\ queue \in [Tasks \X Retries -> 0..MaxCopies]
  /\ work \in [Workers -> Job]
  /\ beat \in [Beat -> [pc : {"idle", "open", "send"}, drop : SUBSET Tasks, todo : SUBSET Tasks]]
  /\ faults \in [Faults -> Nat]

Init ==
  /\ row = [t \in Tasks |-> [st |-> "pending", claimed |-> FALSE, current |-> TRUE]]
  /\ queue = [m \in Tasks \X Retries |-> 0]
  /\ work = [w \in Workers |-> Idle]
  /\ beat = [p \in Beat |-> Resting]
  /\ faults = [k \in Faults |-> 0]

Fault(k) ==
  /\ k \in Faults /\ SumFunction(faults) < MaxFaults
  /\ faults' = [faults EXCEPT ![k] = @ + 1]

Happened == {k \in Faults : faults[k] > 0}

-----------------------------------------------------------------------------
(* Locks and claims *)

Running  == {w \in Workers : work[w].pc = "run"}
Held     == {work[w].task : w \in Running}
Dropped  == UNION {beat[p].drop : p \in Beat}
Free(t)  == t \notin Held \cup Dropped
Open     == {t \in Tasks : row[t].current /\ row[t].st \in {"pending", "waiting", "failed"}}

Claimed == {t \in Tasks : row[t].st = "pending" /\ row[t].claimed}

Waiting == {t \in Tasks : row[t].st = "pending" /\ ~row[t].claimed}

\* A claim skips the rows that others lock (its caller's own are not pending in
\* its session), and keeps what it has seen locked until it commits.  Of two that
\* overlap each sees only what the other has not locked yet.
Seen  == {t \in Tasks : Free(t)}
Views == IF Overlap THEN SUBSET Seen ELSE {Seen}

\* Mutant: only the status makes a calculation active, not dispatch_claimed.
Active_ByStatus(view) == {}

Active(view) == Claimed \cap view

\* C is what claim_engineer_dispatches claims of the rows in view: the oldest, as
\* many as there is room.
Picked(C, view, limit) ==
  /\ C \subseteq view
  /\ C # {} => Cardinality(C) + Cardinality(Active(view)) <= Slots
  /\ Cardinality(C) <= limit
  /\ \/ C = Waiting \cap view
     \/ Cardinality(C) = limit
     \/ Cardinality(C) + Cardinality(Active(view)) >= Slots
  /\ \A c \in C, d \in (Waiting \cap view) \ C : c < d

Picks(limit) == {C \in SUBSET Waiting : \E view \in Views : Picked(C, view, limit)}

\* Mutant: dispatch_claimed is not saved.
Claim_Unsaved(rows, C) == rows

Claim(rows, C) == [t \in Tasks |-> IF t \in C THEN [rows[t] EXCEPT !.claimed = TRUE] ELSE rows[t]]

Put(t, k) == queue' = [queue EXCEPT ![<<t, k>>] = IF @ < MaxCopies THEN @ + 1 ELSE @]

-----------------------------------------------------------------------------
(* Workers: run_procurement_case_task *)

Becomes(w, j) == work' = [work EXCEPT ![w] = j]

Sending(j, C) == IF C = {} THEN Idle ELSE [j EXCEPT !.pc = "send", !.todo = C]

\* Mutant: a worker takes a message that is not there.
Take_Unqueued(w) ==
  \E t \in Tasks, k \in Retries :
    /\ work[w].pc = "idle" /\ row[t].current
    /\ Becomes(w, [Idle EXCEPT !.pc = "read", !.task = t, !.retry = k])
    /\ queue' = [queue EXCEPT ![<<t, k>>] = @ - 1]
    /\ UNCHANGED <<row, beat, faults>>

\* The message arrives and the case names the task.
Take(w) ==
  \E t \in Tasks, k \in Retries :
    /\ work[w].pc = "idle" /\ queue[<<t, k>>] > 0 /\ row[t].current
    /\ Becomes(w, [Idle EXCEPT !.pc = "read", !.task = t, !.retry = k])
    /\ queue' = [queue EXCEPT ![<<t, k>>] = @ - 1]
    /\ UNCHANGED <<row, beat, faults>>

\* Mutant: the early return claims but sends nothing.
Refuse_Silent(w) ==
  \E t \in Tasks, k \in Retries : \E C \in Picks(1) :
    /\ work[w].pc = "idle" /\ queue[<<t, k>>] > 0 /\ ~row[t].current
    /\ Becomes(w, Idle)
    /\ queue' = [queue EXCEPT ![<<t, k>>] = @ - 1]
    /\ row' = Claim(row, C)
    /\ UNCHANGED <<beat, faults>>

\* The case names another task: nothing is run, but one calculation is claimed.
Refuse(w) ==
  \E t \in Tasks, k \in Retries : \E C \in Picks(1) :
    /\ work[w].pc = "idle" /\ queue[<<t, k>>] > 0 /\ ~row[t].current
    /\ Becomes(w, Sending([Idle EXCEPT !.task = t, !.retry = k], C))
    /\ queue' = [queue EXCEPT ![<<t, k>>] = @ - 1]
    /\ row' = Claim(row, C)
    /\ UNCHANGED <<beat, faults>>

\* RUNNING is flushed, not committed: from here on the row is locked.
Start(w) ==
  /\ work[w].pc = "read" /\ Free(work[w].task)
  /\ Becomes(w, [work[w] EXCEPT !.pc = "run"])
  /\ UNCHANGED <<row, queue, beat, faults>>

\* The result a role agent or an operator reports.
Result(r, s) == [st |-> s, claimed |-> FALSE, current |-> r.current /\ s # "completed"]

Finish(w) ==
  \E s \in Results, C \in Picks(1) :
    /\ work[w].pc = "run"
    /\ row' = Claim([row EXCEPT ![work[w].task] = Result(@, s)], C)
    /\ Becomes(w, Sending(work[w], C))
    /\ UNCHANGED <<queue, beat, faults>>

\* A worker has run the task of another agent.
FinishOther(w) ==
  \E C \in Picks(1) :
    /\ work[w].pc = "idle"
    /\ row' = Claim(row, C)
    /\ Becomes(w, Sending(Idle, C))
    /\ UNCHANGED <<queue, beat, faults>>

Send(w) ==
  \E t \in work[w].todo :
    /\ work[w].pc = "send"
    /\ Put(t, 0)
    /\ Becomes(w, Sending(work[w], work[w].todo \ {t}))
    /\ UNCHANGED <<row, beat, faults>>

\* Mutant: an exception is not retried.
Again_Never(w) == UNCHANGED queue

\* Celery retries the message, twice; a third exception only ends the task.
Again(w) ==
  IF work[w].task \in Tasks /\ work[w].retry < MaxRetries
  THEN Put(work[w].task, work[w].retry + 1)
  ELSE UNCHANGED queue

\* The agent raises and the transaction is rolled back, or the broker refuses
\* the next message and the rest is not sent.
Raise(w) ==
  /\ \/ work[w].pc = "run" /\ Fault("raise")
     \/ work[w].pc = "send" /\ Fault("broker")
  /\ Again(w)
  /\ Becomes(w, Idle)
  /\ UNCHANGED <<row, beat>>

\* The worker is lost; its message, not yet acknowledged, returns.
Crash(w) ==
  /\ work[w].pc # "idle" /\ Fault("crash")
  /\ IF work[w].task \in Tasks THEN Put(work[w].task, work[w].retry) ELSE UNCHANGED queue
  /\ Becomes(w, Idle)
  /\ UNCHANGED <<row, beat>>

\* The message is delivered again while the worker still has it.
Redeliver(w) ==
  /\ work[w].task \in Tasks /\ Fault("redeliver")
  /\ Put(work[w].task, work[w].retry)
  /\ UNCHANGED <<row, work, beat>>

-----------------------------------------------------------------------------
(* Polls and the operator *)

\* A poll archives cases or hands them to another agent; until it commits, it
\* holds the rows of their tasks.
PollOpen(p) ==
  \E D \in SUBSET (Open \cap Seen) :
    /\ beat[p].pc = "idle"
    /\ beat' = [beat EXCEPT ![p] = [pc |-> "open", drop |-> D, todo |-> {}]]
    /\ UNCHANGED <<row, queue, work, faults>>

Cancelled(r) == [r EXCEPT !.st = "cancelled", !.current = FALSE]

\* What the poll wrote and the claim C of its last step are committed together.
CommitWith(p, C) ==
  /\ beat[p].pc = "open"
  /\ row' = Claim([t \in Tasks |-> IF t \in beat[p].drop THEN Cancelled(row[t]) ELSE row[t]], C)
  /\ beat' = [beat EXCEPT ![p] = IF C = {} THEN Resting ELSE [pc |-> "send", drop |-> {}, todo |-> C]]
  /\ UNCHANGED <<queue, work, faults>>

PollCommit(p) == \E C \in IF p \in Polls THEN Picks(Slots) ELSE {{}} : CommitWith(p, C)

\* The same while nobody else claims.
CommitAlone(p) == \E C \in SUBSET Waiting : p \in Polls /\ Picked(C, Seen, Slots) /\ CommitWith(p, C)

PollSend(p) ==
  \E t \in beat[p].todo :
    LET rest == beat[p].todo \ {t} IN
    /\ beat[p].pc = "send"
    /\ Put(t, 0)
    /\ beat' = [beat EXCEPT ![p] = IF rest = {} THEN Resting ELSE [@ EXCEPT !.todo = rest]]
    /\ UNCHANGED <<row, work, faults>>

\* The poll ends before its commit, or the broker or the process fails between
\* the commit and the messages.
PollFails(p) ==
  /\ \/ beat[p].pc = "open" /\ Fault("rollback")
     \/ beat[p].pc = "send" /\ (Fault("broker") \/ Fault("crash"))
  /\ beat' = [beat EXCEPT ![p] = Resting]
  /\ UNCHANGED <<row, queue, work>>

\* The operator confirms a result, or an endpoint reports one.
Resume(t) ==
  \E s \in Results :
    /\ t \in Open \cap Seen /\ row[t].st # "pending"
    /\ row' = [row EXCEPT ![t] = Result(@, s)]
    /\ UNCHANGED <<queue, work, beat, faults>>

-----------------------------------------------------------------------------
WorkerStep(w) == Take(w) \/ Refuse(w) \/ Start(w) \/ Finish(w) \/ Send(w)
PollStep(p)   == PollOpen(p) \/ PollCommit(p) \/ PollSend(p)

Next ==
  \/ \E w \in Workers :
       WorkerStep(w) \/ FinishOther(w) \/ Raise(w) \/ Crash(w) \/ Redeliver(w)
  \/ \E p \in Beat : PollStep(p) \/ PollFails(p)
  \/ \E t \in Tasks : Resume(t)

Spec == Init /\ [][Next]_vars

\* Workers consume and end what they began; beat starts polls for ever, and of
\* those that come to their claim again and again one claims undisturbed.
FairSpec ==
  /\ Spec
  /\ \A w \in Workers : WF_vars(WorkerStep(w))
  /\ \A p \in Beat : WF_vars(PollStep(p)) /\ SF_vars(CommitAlone(p))

-----------------------------------------------------------------------------
\* claim_engineer_dispatches claims calculations "without exceeding five active
\* slots": no more of them are claimed and not finished than there are slots.
ActiveSlots == Cardinality(Claimed \ Dropped) <= Slots

\* What its locks do guarantee as long as claims do not overlap and no poll was
\* rolled back: a claim misses at most one calculation per worker, the one that
\* worker is running, besides those about to be cancelled.
Bounded == Cardinality(Claimed \ Dropped) <= Slots + Cardinality(Workers)
ClaimsAreBounded == "rollback" \notin Happened => Bounded

\* Where the message of a calculation is: in the queue, with a worker that has not
\* acknowledged it, or with a process that is about to send it.
Carries(w, t) == (work[w].pc # "idle" /\ work[w].task = t) \/ t \in work[w].todo
Places(t) ==
  ({"queue"} \X {k \in Retries : queue[<<t, k>>] > 0})
    \cup ({"worker"} \X {w \in Workers : Carries(w, t)})
    \cup ({"poll"} \X {p \in Beat : t \in beat[p].todo})

\* Claims, retries, crashes and the broker's refusals never make two messages of
\* one calculation: that takes a message the broker has delivered twice.
NoCopies ==
  \A t \in Tasks : /\ \A k \in Retries : queue[<<t, k>>] <= 1
                   /\ \A x, y \in Places(t) : x = y
OneMessage == "redeliver" \notin Happened => NoCopies

\* Nothing looks at a claim again: a claimed calculation without a message keeps
\* its slot for ever.  Only the loss of a process or a refusal of the broker
\* separates the two, not exceptions (no more than the retries allow), polls that
\* are rolled back and repeated deliveries.
Losses == {"broker", "crash"}
RetriesSuffice == "raise" \in Faults => faults["raise"] <= MaxRetries
ClaimedIsOnItsWay ==
  Losses \cap Happened = {} /\ RetriesSuffice => \A t \in Claimed : Places(t) # {}

\* Unless a message is lost like that, every waiting calculation is run, or
\* dropped with its case.
EveryCalculationEnds ==
  <>(Losses \cap Happened # {} \/ \A t \in Tasks : row[t].st # "pending")

=============================================================================
