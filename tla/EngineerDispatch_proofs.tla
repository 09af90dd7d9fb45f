---------------------- MODULE EngineerDispatch_proofs ----------------------
(***************************************************************************)
(* The engineer queue: types, the bound that claims keep although they skip *)
(* the rows of running calculations, and one message per calculation.       *)
(***************************************************************************)
EXTENDS EngineerDispatch, FiniteSetTheorems, TLAPS

\* A poll holds rows only while its transaction is open.
DropsAreOpen == \A p \in Beat : beat[p].pc # "open" => beat[p].drop = {}

Inv == TypeOK /\ DropsAreOpen

-----------------------------------------------------------------------------
(* Types *)

LEMMA Bounds ==
  /\ N \in Nat /\ Slots \in Nat /\ MaxRetries \in Nat /\ MaxCopies \in Nat /\ MaxFaults \in Nat
  /\ IsFiniteSet(Workers)
BY DispatchAssumption

LEMMA InitInv == Init => Inv
<1> SUFFICES ASSUME Init PROVE Inv
  OBVIOUS
<1>1. 0 \in Retries /\ 0 \in 0..MaxCopies
  BY Bounds DEF Retries
<1>2. TypeOK
  BY <1>1 DEF Init, TypeOK, Row, Statuses, Results, Job, Idle, Resting
<1>3. DropsAreOpen
  BY DEF Init, DropsAreOpen, Resting
<1> QED
  BY <1>2, <1>3 DEF Inv

LEMMA IdleType == Idle \in Job
<1>1. 0 \in Retries
  BY Bounds DEF Retries
<1> QED
  BY <1>1 DEF Idle, Job

LEMMA Copies ==
  ASSUME NEW n \in 0..MaxCopies
  PROVE  /\ n > 0 => n - 1 \in 0..MaxCopies
         /\ n < MaxCopies => n + 1 \in 0..MaxCopies
BY Bounds

LEMMA QueueEntry ==
  ASSUME TypeOK, NEW t \in Tasks, NEW k \in Retries
  PROVE  queue[<<t, k>>] \in 0..MaxCopies
BY DEF TypeOK

LEMMA PutType ==
  ASSUME TypeOK, NEW t \in Tasks, NEW k \in Retries, Put(t, k)
  PROVE  queue' \in [Tasks \X Retries -> 0..MaxCopies]
<1>1. queue \in [Tasks \X Retries -> 0..MaxCopies] /\ <<t, k>> \in Tasks \X Retries
  BY DEF TypeOK
<1>2. queue[<<t, k>>] \in 0..MaxCopies
  BY QueueEntry
<1>3. (IF queue[<<t, k>>] < MaxCopies THEN queue[<<t, k>>] + 1 ELSE queue[<<t, k>>]) \in 0..MaxCopies
  BY <1>2, Copies
<1> QED
  BY <1>1, <1>3 DEF Put

LEMMA ClaimType ==
  ASSUME NEW rows \in [Tasks -> Row], NEW C \in SUBSET Tasks
  PROVE  Claim(rows, C) \in [Tasks -> Row]
<1>1. \A r \in Row : [r EXCEPT !.claimed = TRUE] \in Row
  BY DEF Row
<1> QED
  BY <1>1 DEF Claim

LEMMA PicksAreTasks == \A k : \A C \in Picks(k) : C \subseteq Tasks
BY DEF Picks, Waiting

LEMMA ResultType ==
  ASSUME NEW r \in Row, NEW s \in Results
  PROVE  Result(r, s) \in Row
BY DEF Result, Row, Statuses

LEMMA SendingType ==
  ASSUME NEW j \in Job, NEW C \in SUBSET Tasks
  PROVE  Sending(j, C) \in Job
<1>1. CASE C = {}
  BY <1>1, IdleType DEF Sending
<1>2. CASE C # {}
  BY <1>2 DEF Sending, Job
<1> QED
  BY <1>1, <1>2

LEMMA BecomesType ==
  ASSUME TypeOK, NEW w \in Workers, NEW j \in Job, Becomes(w, j)
  PROVE  work' \in [Workers -> Job]
BY DEF TypeOK, Becomes

LEMMA FaultType ==
  ASSUME TypeOK, NEW k, Fault(k)
  PROVE  faults' \in [Faults -> Nat]
BY DEF TypeOK, Fault

\* A failure is remembered.
LEMMA FaultIsRemembered ==
  ASSUME TypeOK, NEW k, Fault(k)
  PROVE  k \in Happened' /\ Happened \subseteq Happened'
BY DEF TypeOK, Fault, Happened

LEMMA HappenedGrows ==
  ASSUME TypeOK, Next
  PROVE  Happened \subseteq Happened'
<1>1. CASE faults' = faults
  BY <1>1 DEF Happened
<1>2. CASE \E k : Fault(k)
  BY <1>2, FaultIsRemembered
<1> QED
  BY <1>1, <1>2
  DEF Next, WorkerStep, PollStep, Take, Refuse, Start, Finish, Send, FinishOther, Raise, Crash,
      Redeliver, PollOpen, PollCommit, CommitWith, PollSend, PollFails, Resume

-----------------------------------------------------------------------------
(* Every step keeps the types *)

LEMMA WorkerInv ==
  ASSUME Inv, NEW w \in Workers, WorkerStep(w) \/ FinishOther(w)
  PROVE  Inv'
<1> USE DEF Inv
<1>0. work[w] \in Job /\ row \in [Tasks -> Row] /\ queue \in [Tasks \X Retries -> 0..MaxCopies]
  BY DEF TypeOK
<1>1. CASE Take(w)
  <2>0. PICK t \in Tasks : \E k \in Retries :
          /\ queue[<<t, k>>] > 0
          /\ Becomes(w, [Idle EXCEPT !.pc = "read", !.task = t, !.retry = k])
          /\ queue' = [queue EXCEPT ![<<t, k>>] = @ - 1]
          /\ UNCHANGED <<row, beat, faults>>
    BY <1>1 DEF Take
  <2>1. PICK k \in Retries :
          /\ queue[<<t, k>>] > 0
          /\ Becomes(w, [Idle EXCEPT !.pc = "read", !.task = t, !.retry = k])
          /\ queue' = [queue EXCEPT ![<<t, k>>] = @ - 1]
          /\ UNCHANGED <<row, beat, faults>>
    BY <2>0
  <2>2. [Idle EXCEPT !.pc = "read", !.task = t, !.retry = k] \in Job
    BY DEF Idle, Job
  <2>3. queue[<<t, k>>] - 1 \in 0..MaxCopies
    BY <2>1, QueueEntry, Copies
  <2>4. queue' \in [Tasks \X Retries -> 0..MaxCopies]
    BY <1>0, <2>1, <2>3
  <2> QED
    BY <2>1, <2>2, <2>4, BecomesType DEF TypeOK, DropsAreOpen
<1>2. CASE Refuse(w)
  <2>0. PICK t \in Tasks : \E k \in Retries : \E C \in Picks(1) :
          /\ queue[<<t, k>>] > 0
          /\ Becomes(w, Sending([Idle EXCEPT !.task = t, !.retry = k], C))
          /\ queue' = [queue EXCEPT ![<<t, k>>] = @ - 1]
          /\ row' = Claim(row, C)
          /\ UNCHANGED <<beat, faults>>
    BY <1>2 DEF Refuse
  <2>a. PICK k \in Retries : \E C \in Picks(1) :
          /\ queue[<<t, k>>] > 0
          /\ Becomes(w, Sending([Idle EXCEPT !.task = t, !.retry = k], C))
          /\ queue' = [queue EXCEPT ![<<t, k>>] = @ - 1]
          /\ row' = Claim(row, C)
          /\ UNCHANGED <<beat, faults>>
    BY <2>0
  <2>1. PICK C \in Picks(1) :
          /\ queue[<<t, k>>] > 0
          /\ Becomes(w, Sending([Idle EXCEPT !.task = t, !.retry = k], C))
          /\ queue' = [queue EXCEPT ![<<t, k>>] = @ - 1]
          /\ row' = Claim(row, C)
          /\ UNCHANGED <<beat, faults>>
    BY <2>a
  <2>2. [Idle EXCEPT !.task = t, !.retry = k] \in Job
    BY DEF Idle, Job
  <2>3. queue[<<t, k>>] - 1 \in 0..MaxCopies
    BY <2>1, QueueEntry, Copies
  <2>4. queue' \in [Tasks \X Retries -> 0..MaxCopies]
    BY <1>0, <2>1, <2>3
  <2>5. Sending([Idle EXCEPT !.task = t, !.retry = k], C) \in Job /\ row' \in [Tasks -> Row]
    BY <1>0, <2>1, <2>2, PicksAreTasks, SendingType, ClaimType
  <2> QED
    BY <2>1, <2>4, <2>5, BecomesType DEF TypeOK, DropsAreOpen
<1>3. CASE Start(w)
  <2>1. [work[w] EXCEPT !.pc = "run"] \in Job
    BY <1>0 DEF Job
  <2> QED
    BY <1>3, <2>1, BecomesType DEF Start, TypeOK, DropsAreOpen
<1>4. CASE Finish(w)
  <2>0. PICK s \in Results : \E C \in Picks(1) :
          /\ row' = Claim([row EXCEPT ![work[w].task] = Result(@, s)], C)
          /\ Becomes(w, Sending(work[w], C))
          /\ UNCHANGED <<queue, beat, faults>>
    BY <1>4 DEF Finish
  <2>1. PICK C \in Picks(1) :
          /\ row' = Claim([row EXCEPT ![work[w].task] = Result(@, s)], C)
          /\ Becomes(w, Sending(work[w], C))
          /\ UNCHANGED <<queue, beat, faults>>
    BY <2>0
  <2>2. [row EXCEPT ![work[w].task] = Result(@, s)] \in [Tasks -> Row]
    <3>1. work[w].task \in Tasks => Result(row[work[w].task], s) \in Row
      BY <1>0, ResultType
    <3> QED
      BY <1>0, <3>1
  <2>3. row' \in [Tasks -> Row] /\ Sending(work[w], C) \in Job
    BY <1>0, <2>1, <2>2, PicksAreTasks, SendingType, ClaimType
  <2> QED
    BY <2>1, <2>3, BecomesType DEF TypeOK, DropsAreOpen
<1>5. CASE FinishOther(w)
  <2>1. PICK C \in Picks(1) :
          /\ row' = Claim(row, C)
          /\ Becomes(w, Sending(Idle, C))
          /\ UNCHANGED <<queue, beat, faults>>
    BY <1>5 DEF FinishOther
  <2>2. row' \in [Tasks -> Row] /\ Sending(Idle, C) \in Job
    BY <1>0, <2>1, IdleType, PicksAreTasks, SendingType, ClaimType
  <2> QED
    BY <2>1, <2>2, BecomesType DEF TypeOK, DropsAreOpen
<1>6. CASE Send(w)
  <2>1. PICK t \in work[w].todo :
          /\ Put(t, 0)
          /\ Becomes(w, Sending(work[w], work[w].todo \ {t}))
          /\ UNCHANGED <<row, beat, faults>>
    BY <1>6 DEF Send
  <2>2. t \in Tasks /\ work[w].todo \ {t} \in SUBSET Tasks /\ 0 \in Retries
    BY <1>0, Bounds DEF Job, Retries
  <2>3. Sending(work[w], work[w].todo \ {t}) \in Job
    BY <1>0, <2>2, SendingType
  <2> QED
    BY <2>1, <2>2, <2>3, BecomesType, PutType DEF TypeOK, DropsAreOpen
<1> QED
  BY <1>1, <1>2, <1>3, <1>4, <1>5, <1>6 DEF WorkerStep

LEMMA FaultInv ==
  ASSUME Inv, NEW w \in Workers, Raise(w) \/ Crash(w) \/ Redeliver(w)
  PROVE  Inv'
<1> USE DEF Inv
<1>0. work[w] \in Job /\ queue \in [Tasks \X Retries -> 0..MaxCopies]
  BY DEF TypeOK
<1>1. CASE Raise(w)
  <2>1. faults' \in [Faults -> Nat]
    BY <1>1, FaultType DEF Raise
  <2>2. queue' \in [Tasks \X Retries -> 0..MaxCopies]
    <3>1. CASE work[w].task \in Tasks /\ work[w].retry < MaxRetries
      <4>1. work[w].retry + 1 \in Retries
        BY <1>0, <3>1, Bounds DEF Job, Retries
      <4>2. Put(work[w].task, work[w].retry + 1)
        BY <1>1, <3>1 DEF Raise, Again
      <4> QED
        BY <3>1, <4>1, <4>2, PutType
    <3>2. CASE ~(work[w].task \in Tasks /\ work[w].retry < MaxRetries)
      BY <1>0, <1>1, <3>2 DEF Raise, Again
    <3> QED
      BY <3>1, <3>2
  <2> QED
    BY <1>1, <2>1, <2>2, IdleType, BecomesType DEF Raise, TypeOK, DropsAreOpen
<1>2. CASE Crash(w)
  <2>1. faults' \in [Faults -> Nat]
    BY <1>2, FaultType DEF Crash
  <2>2. queue' \in [Tasks \X Retries -> 0..MaxCopies]
    <3>1. CASE work[w].task \in Tasks
      <4>1. work[w].retry \in Retries /\ Put(work[w].task, work[w].retry)
        BY <1>0, <1>2, <3>1 DEF Crash, Job
      <4> QED
        BY <3>1, <4>1, PutType
    <3>2. CASE work[w].task \notin Tasks
      BY <1>0, <1>2, <3>2 DEF Crash
    <3> QED
      BY <3>1, <3>2
  <2> QED
    BY <1>2, <2>1, <2>2, IdleType, BecomesType DEF Crash, TypeOK, DropsAreOpen
<1>3. CASE Redeliver(w)
  <2>1. faults' \in [Faults -> Nat]
    BY <1>3, FaultType DEF Redeliver
  <2>2. queue' \in [Tasks \X Retries -> 0..MaxCopies]
    <3>1. work[w].task \in Tasks /\ work[w].retry \in Retries /\ Put(work[w].task, work[w].retry)
      BY <1>0, <1>3 DEF Redeliver, Job
    <3> QED
      BY <3>1, PutType
  <2> QED
    BY <1>3, <2>1, <2>2 DEF Redeliver, TypeOK, DropsAreOpen
<1> QED
  BY <1>1, <1>2, <1>3

LEMMA PollInv ==
  ASSUME Inv, NEW p \in Beat, PollStep(p) \/ PollFails(p)
  PROVE  Inv'
<1> USE DEF Inv
<1> DEFINE Polling == [pc : {"idle", "open", "send"}, drop : SUBSET Tasks, todo : SUBSET Tasks]
<1>0. row \in [Tasks -> Row] /\ beat \in [Beat -> Polling] /\ Resting \in Polling
  BY DEF TypeOK, Resting
<1>1. CASE PollOpen(p)
  <2>1. PICK D \in SUBSET (Open \cap Seen) :
          /\ beat' = [beat EXCEPT ![p] = [pc |-> "open", drop |-> D, todo |-> {}]]
          /\ UNCHANGED <<row, queue, work, faults>>
    BY <1>1 DEF PollOpen
  <2>2. D \in SUBSET Tasks
    BY DEF Seen
  <2>3. beat' \in [Beat -> Polling]
    BY <1>0, <2>1, <2>2
  <2>4. DropsAreOpen'
    BY <1>0, <2>1 DEF DropsAreOpen
  <2> QED
    BY <2>1, <2>3, <2>4 DEF TypeOK
<1>2. CASE PollCommit(p)
  <2> DEFINE kept == [t \in Tasks |-> IF t \in beat[p].drop THEN Cancelled(row[t]) ELSE row[t]]
             next(C) == IF C = {} THEN Resting ELSE [pc |-> "send", drop |-> {}, todo |-> C]
  <2>1. PICK C \in IF p \in Polls THEN Picks(Slots) ELSE {{}} :
          /\ row' = Claim(kept, C)
          /\ beat' = [beat EXCEPT ![p] = next(C)]
          /\ UNCHANGED <<queue, work, faults>>
    BY <1>2 DEF PollCommit, CommitWith
  <2>2. C \in SUBSET Tasks
    <3>1. CASE p \in Polls
      BY <2>1, <3>1, PicksAreTasks
    <3>2. CASE p \notin Polls
      BY <2>1, <3>2
    <3> QED
      BY <3>1, <3>2
  <2>3. kept \in [Tasks -> Row]
    <3>1. \A r \in Row : Cancelled(r) \in Row
      BY DEF Cancelled, Row, Statuses
    <3> QED
      BY <1>0, <3>1
  <2>4. row' \in [Tasks -> Row]
    <3> HIDE DEF kept
    <3> QED
      BY <2>1, <2>2, <2>3, ClaimType
  <2>5. next(C) \in Polling /\ next(C).drop = {}
    BY <1>0, <2>2 DEF Resting
  <2>6. beat' \in [Beat -> Polling] /\ DropsAreOpen'
    <3> HIDE DEF next
    <3> QED
      BY <1>0, <2>1, <2>5 DEF DropsAreOpen
  <2> QED
    BY <2>1, <2>4, <2>6 DEF TypeOK
<1>3. CASE PollSend(p)
  <2>1. PICK t \in beat[p].todo :
          /\ beat[p].pc = "send"
          /\ Put(t, 0)
          /\ beat' = [beat EXCEPT ![p] = IF beat[p].todo \ {t} = {} THEN Resting
                                         ELSE [@ EXCEPT !.todo = beat[p].todo \ {t}]]
          /\ UNCHANGED <<row, work, faults>>
    BY <1>3 DEF PollSend
  <2>2. t \in Tasks /\ 0 \in Retries /\ beat[p] \in Polling
    BY <1>0, Bounds DEF Retries
  <2>3. [beat[p] EXCEPT !.todo = beat[p].todo \ {t}] \in Polling
    BY <2>2
  <2>4. beat' \in [Beat -> Polling]
    BY <1>0, <2>1, <2>3
  <2>5. DropsAreOpen'
    BY <1>0, <2>1 DEF DropsAreOpen, Resting
  <2> QED
    BY <2>1, <2>2, <2>4, <2>5, PutType DEF TypeOK
<1>4. CASE PollFails(p)
  <2>1. faults' \in [Faults -> Nat]
    BY <1>4, FaultType DEF PollFails
  <2>2. beat' \in [Beat -> Polling] /\ DropsAreOpen'
    BY <1>0, <1>4 DEF PollFails, DropsAreOpen, Resting
  <2> QED
    BY <1>4, <2>1, <2>2 DEF PollFails, TypeOK
<1> QED
  BY <1>1, <1>2, <1>3, <1>4 DEF PollStep

LEMMA ResumeInv ==
  ASSUME Inv, NEW t \in Tasks, Resume(t)
  PROVE  Inv'
<1>1. PICK s \in Results :
        /\ row' = [row EXCEPT ![t] = Result(@, s)]
        /\ UNCHANGED <<queue, work, beat, faults>>
  BY DEF Resume
<1>2. Result(row[t], s) \in Row
  BY ResultType DEF Inv, TypeOK
<1> QED
  BY <1>1, <1>2 DEF Inv, TypeOK, DropsAreOpen

LEMMA Inductive == Inv /\ [Next]_vars => Inv'
<1> SUFFICES ASSUME Inv, [Next]_vars PROVE Inv'
  OBVIOUS
<1>1. CASE UNCHANGED vars
  BY <1>1 DEF vars, Inv, TypeOK, DropsAreOpen
<1>2. CASE Next
  BY <1>2, WorkerInv, FaultInv, PollInv, ResumeInv DEF Next
<1> QED
  BY <1>1, <1>2

LEMMA AlwaysInv == Spec => []Inv
BY InitInv, Inductive, PTL DEF Spec

\* The rows, messages and jobs of the dispatch of calculations are what their
\* columns and arguments allow; no counter leaves its bounds.
THEOREM TypeCorrect == Spec => []TypeOK
BY AlwaysInv, PTL DEF Inv

-----------------------------------------------------------------------------
(* The bound of the claims *)

LEMMA TasksAreFinite == IsFiniteSet(Tasks)
BY Bounds, FS_Interval DEF Tasks

\* What a claim does not see is at most one calculation of each worker.
LEMMA HeldIsSmall ==
  /\ IsFiniteSet(Held)
  /\ Cardinality(Held) <= Cardinality(Workers)
  /\ Cardinality(Workers) \in Nat
<1> DEFINE f == [w \in Running |-> work[w].task]
<1>1. IsFiniteSet(Running) /\ Cardinality(Running) <= Cardinality(Workers)
  BY Bounds, FS_Subset DEF Running
<1>2. f \in Surjection(Running, Held)
  BY DEF Surjection, Held
<1>3. IsFiniteSet(Held) /\ Cardinality(Held) <= Cardinality(Running)
  BY <1>1, <1>2, FS_Surjection
<1>4. Cardinality(Workers) \in Nat /\ Cardinality(Running) \in Nat /\ Cardinality(Held) \in Nat
  BY <1>1, <1>3, Bounds, FS_CardinalityType
<1> QED
  BY <1>1, <1>3, <1>4

\* A claim adds to the calculations it sees as many as there is room, and what it
\* does not see a poll or a worker holds.
LEMMA ClaimKeepsBound ==
  ASSUME ~Overlap, NEW k \in Nat, NEW C \in Picks(k), Bounded,
         NEW X, X \subseteq (Claimed \ Dropped) \cup C
  PROVE  Cardinality(X) <= Slots + Cardinality(Workers)
<1> DEFINE Old == Claimed \ Dropped
           M   == Slots + Cardinality(Workers)
           act == Active(Seen)
<1>0. IsFiniteSet(Old) /\ IsFiniteSet(act) /\ IsFiniteSet(C) /\ X \in SUBSET (Old \cup C)
  BY TasksAreFinite, FS_Subset, PicksAreTasks DEF Claimed, Active
<1>1. CASE C = {}
  <2>1. X \in SUBSET Old
    BY <1>0, <1>1
  <2>2. Cardinality(X) <= Cardinality(Old) /\ IsFiniteSet(X)
    BY <1>0, <2>1, FS_Subset
  <2>3. Cardinality(X) \in Nat /\ Cardinality(Old) \in Nat /\ M \in Nat
    BY <1>0, <2>2, FS_CardinalityType, HeldIsSmall, Bounds
  <2> QED
    BY <2>2, <2>3 DEF Bounded
<1>2. CASE C # {}
  <2>1. Cardinality(C) + Cardinality(act) <= Slots
    BY <1>2 DEF Picks, Picked, Views
  <2>2. X \in SUBSET ((C \cup act) \cup Held)
    BY <1>0 DEF Active, Seen, Free, Claimed
  <2> DEFINE CA == C \cup act
  <2>3. IsFiniteSet(CA) /\ Cardinality(CA) = Cardinality(C) + Cardinality(act) - Cardinality(C \cap act)
    BY <1>0, FS_Union
  <2>4. IsFiniteSet(CA \cup Held)
        /\ Cardinality(CA \cup Held) = Cardinality(CA) + Cardinality(Held) - Cardinality(CA \cap Held)
    BY <2>3, HeldIsSmall, FS_Union
  <2>5. IsFiniteSet(C \cap act) /\ IsFiniteSet(CA \cap Held)
    BY <1>0, HeldIsSmall, FS_Subset
  <2>6. IsFiniteSet(X) /\ Cardinality(X) <= Cardinality(CA \cup Held)
    BY <2>2, <2>4, FS_Subset
  <2>7. /\ Cardinality(C) \in Nat /\ Cardinality(act) \in Nat /\ Cardinality(Held) \in Nat
        /\ Cardinality(CA) \in Nat /\ Cardinality(C \cap act) \in Nat
        /\ Cardinality(CA \cap Held) \in Nat /\ Cardinality(X) \in Nat
        /\ Cardinality(CA \cup Held) \in Nat
    BY <1>0, <2>3, <2>4, <2>5, <2>6, HeldIsSmall, FS_CardinalityType
  <2> HIDE DEF CA
  <2> QED
    BY <2>1, <2>3, <2>4, <2>6, <2>7, HeldIsSmall, Bounds
<1> QED
  BY <1>1, <1>2

\* The same for a step that claims nothing.
LEMMA NoClaimKeepsBound ==
  ASSUME Bounded, NEW X, X \subseteq Claimed \ Dropped
  PROVE  Cardinality(X) <= Slots + Cardinality(Workers)
<1>1. IsFiniteSet(Claimed \ Dropped)
  BY TasksAreFinite, FS_Subset DEF Claimed
<1>2. IsFiniteSet(X) /\ Cardinality(X) <= Cardinality(Claimed \ Dropped)
  BY <1>1, FS_Subset
<1>3. /\ Cardinality(X) \in Nat /\ Cardinality(Claimed \ Dropped) \in Nat
      /\ Slots + Cardinality(Workers) \in Nat
  BY <1>1, <1>2, FS_CardinalityType, HeldIsSmall, Bounds
<1> QED
  BY <1>2, <1>3 DEF Bounded

LEMMA InitBounded == Init => Bounded
<1> SUFFICES ASSUME Init PROVE Bounded
  OBVIOUS
<1>1. Claimed \ Dropped = {}
  BY DEF Init, Claimed
<1>2. Cardinality(Claimed \ Dropped) = 0
  BY <1>1, FS_EmptySet
<1> QED
  BY <1>2, HeldIsSmall, Bounds DEF Bounded

\* The rows a step writes: the picked ones are claimed, of the others none is
\* newly claimed.
LEMMA ClaimedAfter ==
  ASSUME TypeOK, NEW rows \in [Tasks -> Row], NEW C \in SUBSET Tasks, row' = Claim(rows, C),
         \A t \in Tasks : rows[t].st = "pending" /\ rows[t].claimed => t \in Claimed
  PROVE  Claimed' \subseteq Claimed \cup C
<1> SUFFICES ASSUME NEW t \in Tasks, t \notin C, t \in Claimed' PROVE t \in Claimed
  BY DEF Claimed
<1>1. row'[t] = rows[t]
  BY DEF Claim
<1> QED
  BY <1>1 DEF Claimed

LEMMA DroppedSame == beat' = beat => Dropped' = Dropped
BY DEF Dropped

LEMMA WorkerKeepsBound ==
  ASSUME ~Overlap, Inv, Bounded, NEW w \in Workers,
         WorkerStep(w) \/ FinishOther(w) \/ Raise(w) \/ Crash(w) \/ Redeliver(w)
  PROVE  Bounded'
<1>0. row \in [Tasks -> Row] /\ TypeOK
  BY DEF Inv, TypeOK
<1>a. beat' = beat
  BY DEF WorkerStep, Take, Refuse, Start, Finish, Send, FinishOther, Raise, Crash, Redeliver
<1>1. CASE Refuse(w) \/ FinishOther(w)
  <2>1. PICK C \in Picks(1) : row' = Claim(row, C)
    BY <1>1 DEF Refuse, FinishOther
  <2>2. Claimed' \subseteq Claimed \cup C
    BY <1>0, <2>1, PicksAreTasks, ClaimedAfter DEF Claimed
  <2>3. (Claimed \ Dropped)' \subseteq (Claimed \ Dropped) \cup C
    BY <1>a, <2>2, DroppedSame
  <2> QED
    BY <2>3, ClaimKeepsBound DEF Bounded
<1>2. CASE Finish(w)
  <2>0. PICK s \in Results : \E C \in Picks(1) :
          row' = Claim([row EXCEPT ![work[w].task] = Result(@, s)], C)
    BY <1>2 DEF Finish
  <2> DEFINE rows == [row EXCEPT ![work[w].task] = Result(@, s)]
  <2>1. PICK C \in Picks(1) : row' = Claim(rows, C)
    BY <2>0
  <2>2. rows \in [Tasks -> Row]
    <3>1. work[w].task \in Tasks => Result(row[work[w].task], s) \in Row
      BY <1>0, ResultType
    <3> QED
      BY <1>0, <3>1
  <2>3. \A t \in Tasks : rows[t].st = "pending" /\ rows[t].claimed => t \in Claimed
    BY <1>0 DEF Claimed, Result
  <2>4. Claimed' \subseteq Claimed \cup C
    <3> HIDE DEF rows
    <3> QED
      BY <1>0, <2>1, <2>2, <2>3, PicksAreTasks, ClaimedAfter
  <2>5. (Claimed \ Dropped)' \subseteq (Claimed \ Dropped) \cup C
    BY <1>a, <2>4, DroppedSame
  <2> QED
    BY <2>5, ClaimKeepsBound DEF Bounded
<1>3. CASE row' = row
  <2>1. (Claimed \ Dropped)' = Claimed \ Dropped
    BY <1>3, <1>a, DroppedSame DEF Claimed
  <2> QED
    BY <2>1, HeldIsSmall DEF Bounded
<1> QED
  BY <1>1, <1>2, <1>3 DEF WorkerStep, Take, Start, Send, Raise, Crash, Redeliver

\* A poll gives the rows it holds back only when it commits or is rolled back.
LEMMA PollKeepsBound ==
  ASSUME ~Overlap, Inv, Bounded, NEW p \in Beat, PollStep(p) \/ PollFails(p),
         ~Fault("rollback")
  PROVE  Bounded'
<1>0. /\ row \in [Tasks -> Row] /\ TypeOK /\ DropsAreOpen
      /\ beat \in [Beat -> [pc : {"idle", "open", "send"}, drop : SUBSET Tasks, todo : SUBSET Tasks]]
  BY DEF Inv, TypeOK
<1>1. CASE PollOpen(p) \/ PollSend(p) \/ PollFails(p)
  <2>1. beat[p].drop = {} /\ row' = row /\ \A q \in Beat : q # p => beat'[q] = beat[q]
    BY <1>0, <1>1 DEF PollOpen, PollSend, PollFails, DropsAreOpen
  <2>2. Dropped \subseteq Dropped'
    BY <2>1 DEF Dropped
  <2>3. (Claimed \ Dropped)' \subseteq Claimed \ Dropped
    BY <2>1, <2>2 DEF Claimed
  <2> QED
    BY <2>3, NoClaimKeepsBound DEF Bounded
<1>2. CASE PollCommit(p)
  <2> DEFINE rows == [t \in Tasks |-> IF t \in beat[p].drop THEN Cancelled(row[t]) ELSE row[t]]
  <2>1. PICK C \in IF p \in Polls THEN Picks(Slots) ELSE {{}} :
          /\ row' = Claim(rows, C)
          /\ beat' = [beat EXCEPT ![p] = IF C = {} THEN Resting
                                         ELSE [pc |-> "send", drop |-> {}, todo |-> C]]
    BY <1>2 DEF PollCommit, CommitWith
  <2>2. C \in SUBSET Tasks
    <3>1. CASE p \in Polls
      BY <2>1, <3>1, PicksAreTasks
    <3>2. CASE p \notin Polls
      BY <2>1, <3>2
    <3> QED
      BY <3>1, <3>2
  <2>3. rows \in [Tasks -> Row]
    <3>1. \A r \in Row : Cancelled(r) \in Row
      BY DEF Cancelled, Row, Statuses
    <3> QED
      BY <1>0, <3>1
  <2>4. \A t \in Tasks : rows[t].st = "pending" /\ rows[t].claimed => t \in Claimed \ beat[p].drop
    BY <1>0 DEF Claimed, Cancelled, Row
  <2>5. Claimed' \subseteq (Claimed \ beat[p].drop) \cup C
    <3> SUFFICES ASSUME NEW t \in Tasks, t \notin C, t \in Claimed'
                 PROVE  t \in Claimed \ beat[p].drop
      BY DEF Claimed
    <3>1. row'[t] = rows[t]
      BY <2>1 DEF Claim
    <3> HIDE DEF rows
    <3> QED
      BY <2>4, <3>1 DEF Claimed
  <2>6. \A q \in Beat : q # p => beat'[q] = beat[q]
    BY <1>0, <2>1
  <2>7. Dropped \subseteq Dropped' \cup beat[p].drop
    BY <2>6 DEF Dropped
  <2>8. (Claimed \ Dropped)' \subseteq (Claimed \ Dropped) \cup C
    BY <2>5, <2>7
  <2>9. CASE p \in Polls
    BY <2>1, <2>8, <2>9, Bounds, ClaimKeepsBound DEF Bounded
  <2>10. CASE p \notin Polls
    <3>1. (Claimed \ Dropped)' \subseteq Claimed \ Dropped
      BY <2>1, <2>8, <2>10
    <3> QED
      BY <3>1, NoClaimKeepsBound DEF Bounded
  <2> QED
    BY <2>9, <2>10
<1> QED
  BY <1>1, <1>2 DEF PollStep

LEMMA ResumeKeepsBound ==
  ASSUME Inv, Bounded, NEW t \in Tasks, Resume(t)
  PROVE  Bounded'
<1>1. PICK s \in Results : row' = [row EXCEPT ![t] = Result(@, s)] /\ beat' = beat
  BY DEF Resume
<1>2. Claimed' \subseteq Claimed
  BY <1>1 DEF Claimed, Result, Inv, TypeOK
<1>3. (Claimed \ Dropped)' \subseteq Claimed \ Dropped
  BY <1>1, <1>2, DroppedSame
<1> QED
  BY <1>3, NoClaimKeepsBound DEF Bounded

LEMMA BoundInductive ==
  ASSUME ~Overlap
  PROVE  Inv /\ ClaimsAreBounded /\ [Next]_vars => ClaimsAreBounded'
<1> SUFFICES ASSUME Inv, ClaimsAreBounded, [Next]_vars PROVE ClaimsAreBounded'
  OBVIOUS
<1>1. CASE UNCHANGED vars
  BY <1>1, HeldIsSmall DEF vars, ClaimsAreBounded, Bounded, Happened, Claimed, Dropped
<1>2. CASE Next
  <2> SUFFICES ASSUME "rollback" \notin Happened' PROVE Bounded'
    BY DEF ClaimsAreBounded
  <2>1. ~Fault("rollback")
    BY FaultIsRemembered DEF Inv
  <2>2. Bounded
    BY <1>2, HappenedGrows DEF Inv, ClaimsAreBounded
  <2> QED
    BY <1>2, <2>1, <2>2, WorkerKeepsBound, PollKeepsBound, ResumeKeepsBound DEF Next
<1> QED
  BY <1>1, <1>2

\* Although a claim skips the rows that are locked, and a running calculation is
\* always locked, the calculations that are claimed and not finished exceed the
\* slots by no more than the number of workers, as long as claims do not overlap
\* and polls commit.
THEOREM ClaimsKeepTheirBound ==
  ASSUME ~Overlap
  PROVE  Spec => []ClaimsAreBounded
<1>1. Bounded => ClaimsAreBounded
  BY DEF ClaimsAreBounded
<1> QED
  BY <1>1, AlwaysInv, InitBounded, BoundInductive, PTL DEF Spec

-----------------------------------------------------------------------------
(* One message per calculation *)

WaitingHasNone == \A t \in Waiting : Places(t) = {}
TodoIsOthers   == \A w \in Workers : work[w].task \notin work[w].todo

OneInv == NoCopies /\ WaitingHasNone /\ TodoIsOthers

\* Of each calculation a step only removes messages, or it leaves at most one.
Removed(t) ==
  /\ Places(t)' \subseteq Places(t)
  /\ \A k \in Retries : queue'[<<t, k>>] <= queue[<<t, k>>]
  /\ t \in Waiting' => t \in Waiting
Single(t) ==
  /\ t \notin Waiting'
  /\ \E z : Places(t)' \subseteq {z}
  /\ \A k \in Retries : queue'[<<t, k>>] <= 1

LEMMA EachKeepsOne ==
  ASSUME TypeOK, TypeOK', OneInv, \A t \in Tasks : Removed(t) \/ Single(t)
  PROVE  NoCopies' /\ WaitingHasNone'
<1>1. ASSUME NEW t \in Tasks
      PROVE  /\ \A k \in Retries : queue'[<<t, k>>] <= 1
             /\ \A x, y \in Places(t)' : x = y
             /\ t \in Waiting' => Places(t)' = {}
  <2>0. \A k \in Retries : queue[<<t, k>>] \in Nat /\ queue'[<<t, k>>] \in Nat
    BY <1>1, Bounds DEF TypeOK
  <2>1. CASE Removed(t)
    <3>1. \A k \in Retries : queue[<<t, k>>] <= 1
      BY <1>1 DEF OneInv, NoCopies
    <3>2. \A x, y \in Places(t) : x = y
      BY <1>1 DEF OneInv, NoCopies
    <3>3. \A k \in Retries : queue'[<<t, k>>] <= 1
      BY <2>0, <2>1, <3>1 DEF Removed
    <3>4. t \in Waiting' => Places(t)' = {}
      BY <2>1 DEF Removed, OneInv, WaitingHasNone
    <3> QED
      BY <2>1, <3>2, <3>3, <3>4 DEF Removed
  <2>2. CASE Single(t)
    BY <2>2 DEF Single
  <2> QED
    BY <1>1, <2>1, <2>2
<1>2. WaitingHasNone'
  BY <1>1 DEF WaitingHasNone, Waiting
<1> QED
  BY <1>1, <1>2 DEF NoCopies

LEMMA InPlaces ==
  ASSUME NEW t
  PROVE  /\ \A k \in Retries : queue[<<t, k>>] > 0 => <<"queue", k>> \in Places(t)
         /\ \A w \in Workers : Carries(w, t) => <<"worker", w>> \in Places(t)
         /\ \A q \in Beat : t \in beat[q].todo => <<"poll", q>> \in Places(t)
<1>1. ASSUME NEW k \in Retries, queue[<<t, k>>] > 0 PROVE <<"queue", k>> \in Places(t)
  BY <1>1 DEF Places
<1>2. ASSUME NEW w \in Workers, Carries(w, t) PROVE <<"worker", w>> \in Places(t)
  BY <1>2 DEF Places
<1>3. ASSUME NEW q \in Beat, t \in beat[q].todo PROVE <<"poll", q>> \in Places(t)
  BY <1>3 DEF Places
<1> QED
  BY <1>1, <1>2, <1>3

\* Who holds the only message of t, and where messages are not.
LEMMA OnlyPlace ==
  ASSUME TypeOK, OneInv, NEW t \in Tasks, NEW x \in Places(t)
  PROVE  /\ t \notin Waiting
         /\ \A k \in Retries : <<"queue", k>> # x => queue[<<t, k>>] = 0
         /\ \A w \in Workers : <<"worker", w>> # x => ~Carries(w, t)
         /\ \A q \in Beat : <<"poll", q>> # x => t \notin beat[q].todo
<1>1. \A y \in Places(t) : y = x
  BY DEF OneInv, NoCopies
<1>2. t \notin Waiting
  BY DEF OneInv, WaitingHasNone
<1>3. ASSUME NEW k \in Retries, <<"queue", k>> # x PROVE queue[<<t, k>>] = 0
  <2>1. ~(queue[<<t, k>>] > 0)
    BY <1>1, <1>3, InPlaces
  <2>2. queue[<<t, k>>] \in Nat
    BY <1>3, Bounds DEF TypeOK
  <2> QED
    BY <2>1, <2>2
<1>4. \A w \in Workers : <<"worker", w>> # x => ~Carries(w, t)
  BY <1>1, InPlaces
<1>5. \A q \in Beat : <<"poll", q>> # x => t \notin beat[q].todo
  BY <1>1, InPlaces
<1> QED
  BY <1>2, <1>3, <1>4, <1>5

LEMMA NoPlace ==
  ASSUME TypeOK, OneInv, NEW t \in Waiting
  PROVE  /\ \A k \in Retries : queue[<<t, k>>] = 0
         /\ \A w \in Workers : ~Carries(w, t)
         /\ \A q \in Beat : t \notin beat[q].todo
<1>1. Places(t) = {} /\ t \in Tasks
  BY DEF OneInv, WaitingHasNone, Waiting
<1>2. ASSUME NEW k \in Retries PROVE queue[<<t, k>>] = 0
  <2>1. ~(queue[<<t, k>>] > 0)
    BY <1>1, <1>2, InPlaces
  <2>2. queue[<<t, k>>] \in Nat
    BY <1>1, Bounds DEF TypeOK
  <2> QED
    BY <2>1, <2>2
<1>3. (\A w \in Workers : ~Carries(w, t)) /\ (\A q \in Beat : t \notin beat[q].todo)
  BY <1>1, InPlaces
<1> QED
  BY <1>2, <1>3

\* The two shapes of the argument for one calculation.
LEMMA Fewer ==
  ASSUME TypeOK, NEW t \in Tasks,
         \A k \in Retries : queue'[<<t, k>>] = queue[<<t, k>>],
         \A w \in Workers : Carries(w, t)' => Carries(w, t),
         \A q \in Beat : t \in beat'[q].todo => t \in beat[q].todo,
         t \in Waiting' => t \in Waiting
  PROVE  Removed(t)
<1>1. Places(t)' \subseteq Places(t)
  BY DEF Places
<1>2. \A k \in Retries : queue[<<t, k>>] \in Nat
  BY Bounds DEF TypeOK
<1> QED
  BY <1>1, <1>2 DEF Removed

LEMMA OnlyQueue ==
  ASSUME TypeOK', NEW t \in Tasks, NEW r \in Retries, t \notin Waiting',
         queue'[<<t, r>>] <= 1,
         \A k \in Retries : k # r => queue'[<<t, k>>] = 0,
         \A w \in Workers : ~Carries(w, t)',
         \A q \in Beat : t \notin beat'[q].todo
  PROVE  Single(t)
<1>1. Places(t)' \subseteq {<<"queue", r>>}
  BY DEF Places
<1> QED
  BY <1>1 DEF Single

LEMMA OnlyWorker ==
  ASSUME TypeOK', NEW t \in Tasks, NEW w \in Workers, t \notin Waiting',
         \A k \in Retries : queue'[<<t, k>>] = 0,
         \A v \in Workers : v # w => ~Carries(v, t)',
         \A q \in Beat : t \notin beat'[q].todo
  PROVE  Single(t)
<1>1. Places(t)' \subseteq {<<"worker", w>>}
  BY DEF Places
<1> QED
  BY <1>1 DEF Single

LEMMA OnlyPoll ==
  ASSUME TypeOK', NEW t \in Tasks, NEW p \in Beat, t \notin Waiting',
         \A k \in Retries : queue'[<<t, k>>] = 0,
         \A v \in Workers : ~Carries(v, t)',
         \A q \in Beat : q # p => t \notin beat'[q].todo
  PROVE  Single(t)
<1>1. Places(t)' \subseteq {<<"poll", p>>}
  BY DEF Places
<1> QED
  BY <1>1 DEF Single

LEMMA InitOne == Init => OneInv
<1> SUFFICES ASSUME Init PROVE OneInv
  OBVIOUS
<1>1. ASSUME NEW t \in Tasks PROVE Places(t) = {} /\ \A k \in Retries : queue[<<t, k>>] = 0
  BY <1>1 DEF Init, Places, Carries, Idle, Resting
<1>2. TodoIsOthers
  BY DEF Init, TodoIsOthers, Idle
<1>3. WaitingHasNone
  BY <1>1 DEF WaitingHasNone, Waiting
<1> QED
  BY <1>1, <1>2, <1>3 DEF OneInv, NoCopies

\* What the entries of the queue are after a message is put or taken.
LEMMA AfterPut ==
  ASSUME TypeOK, NEW t \in Tasks, NEW k \in Retries, Put(t, k), queue[<<t, k>>] = 0
  PROVE  /\ queue'[<<t, k>>] <= 1
         /\ \A u \in Tasks, j \in Retries : <<u, j>> # <<t, k>> => queue'[<<u, j>>] = queue[<<u, j>>]
<1>1. queue \in [Tasks \X Retries -> 0..MaxCopies]
  BY DEF TypeOK
<1>2. queue'[<<t, k>>] = IF 0 < MaxCopies THEN 1 ELSE 0
  BY <1>1 DEF Put
<1>3. \A u \in Tasks, j \in Retries : <<u, j>> # <<t, k>> => queue'[<<u, j>>] = queue[<<u, j>>]
  BY <1>1 DEF Put
<1> QED
  BY <1>2, <1>3

\* The rows after a claim: what is claimed waits no more, and nothing waits anew.
LEMMA WaitingAfter ==
  ASSUME NEW rows, NEW C \in SUBSET Tasks, row' = Claim(rows, C),
         \A t \in Tasks : rows[t].st = "pending" /\ ~rows[t].claimed => t \in Waiting,
         NEW t \in Tasks, rows[t] \in Row
  PROVE  t \in Waiting' => t \in Waiting /\ t \notin C
<1> SUFFICES ASSUME t \in Waiting' PROVE t \in Waiting /\ t \notin C
  OBVIOUS
<1>1. row'[t].st = "pending" /\ ~row'[t].claimed
  BY DEF Waiting
<1>2. CASE t \in C
  <2>1. row'[t] = [rows[t] EXCEPT !.claimed = TRUE]
    BY <1>2 DEF Claim
  <2>2. row'[t].claimed = TRUE
    BY <2>1 DEF Row
  <2> QED
    BY <1>1, <2>2
<1>3. CASE t \notin C
  BY <1>1, <1>3 DEF Claim
<1> QED
  BY <1>2, <1>3

LEMMA CarriesAfter ==
  ASSUME TypeOK, NEW w \in Workers, NEW j, Becomes(w, j)
  PROVE  /\ work'[w] = j
         /\ \A v \in Workers : \A t : v # w => (Carries(v, t)' <=> Carries(v, t))
<1>1. work' = [work EXCEPT ![w] = j] /\ work \in [Workers -> Job]
  BY DEF Becomes, TypeOK
<1>2. work'[w] = j /\ \A v \in Workers : v # w => work'[v] = work[v]
  BY <1>1
<1> QED
  BY <1>2 DEF Carries

LEMMA Rest ==
  ASSUME NEW w \in Workers, TodoIsOthers, TypeOK, NEW j, Becomes(w, j), j.task \notin j.todo
  PROVE  TodoIsOthers'
<1>1. work' = [work EXCEPT ![w] = j] /\ work \in [Workers -> Job]
  BY DEF Becomes, TypeOK
<1>2. work'[w] = j /\ \A v \in Workers : v # w => work'[v] = work[v]
  BY <1>1
<1>3. ASSUME NEW v \in Workers PROVE work'[v].task \notin work'[v].todo
  BY <1>2 DEF TodoIsOthers
<1> QED
  BY <1>3 DEF TodoIsOthers

LEMMA Together ==
  ASSUME TypeOK, TypeOK', OneInv, TodoIsOthers', \A t \in Tasks : Removed(t) \/ Single(t)
  PROVE  OneInv'
<1>1. NoCopies' /\ WaitingHasNone'
  BY EachKeepsOne
<1> QED
  BY <1>1 DEF OneInv

LEMMA TakeOne ==
  ASSUME TypeOK, TypeOK', OneInv, NEW w \in Workers, Take(w)
  PROVE  OneInv'
<1>0. PICK t0 \in Tasks : \E k \in Retries :
        /\ queue[<<t0, k>>] > 0
        /\ Becomes(w, [Idle EXCEPT !.pc = "read", !.task = t0, !.retry = k])
        /\ queue' = [queue EXCEPT ![<<t0, k>>] = @ - 1]
        /\ UNCHANGED <<row, beat, faults>>
  BY DEF Take
<1>1. PICK k0 \in Retries :
        /\ queue[<<t0, k0>>] > 0
        /\ Becomes(w, [Idle EXCEPT !.pc = "read", !.task = t0, !.retry = k0])
        /\ queue' = [queue EXCEPT ![<<t0, k0>>] = @ - 1]
        /\ UNCHANGED <<row, beat, faults>>
  BY <1>0
<1> DEFINE j == [Idle EXCEPT !.pc = "read", !.task = t0, !.retry = k0]
<1>2. queue \in [Tasks \X Retries -> 0..MaxCopies] /\ Waiting' = Waiting
  BY <1>1 DEF TypeOK, Waiting
<1>3. j.task = t0 /\ j.todo = {}
  BY DEF Idle
<1> HIDE DEF j
<1>4. work'[w] = j /\ \A v \in Workers : \A t : v # w => (Carries(v, t)' <=> Carries(v, t))
  BY <1>1, CarriesAfter DEF j
<1>5. ASSUME NEW t \in Tasks, t # t0 PROVE Removed(t)
  <2>1. \A k \in Retries : queue'[<<t, k>>] = queue[<<t, k>>]
    BY <1>1, <1>2, <1>5
  <2>2. \A v \in Workers : Carries(v, t)' => Carries(v, t)
    <3>1. ~Carries(w, t)'
      BY <1>3, <1>4, <1>5 DEF Carries
    <3> QED
      BY <1>4, <3>1
  <2> QED
    BY <1>1, <1>2, <2>1, <2>2, Fewer
<1>6. Single(t0)
  <2>1. <<"queue", k0>> \in Places(t0) /\ queue[<<t0, k0>>] <= 1
    BY <1>1, InPlaces DEF OneInv, NoCopies
  <2>2. /\ t0 \notin Waiting
        /\ \A k \in Retries : k # k0 => queue[<<t0, k>>] = 0
        /\ \A v \in Workers : ~Carries(v, t0)
        /\ \A q \in Beat : t0 \notin beat[q].todo
    BY <2>1, OnlyPlace
  <2>3. queue[<<t0, k0>>] \in Nat
    BY <1>2, Bounds
  <2>4. \A k \in Retries : queue'[<<t0, k>>] = 0
    BY <1>1, <1>2, <2>1, <2>2, <2>3
  <2>5. \A v \in Workers : v # w => ~Carries(v, t0)'
    BY <1>4, <2>2
  <2> QED
    BY <1>1, <1>2, <2>2, <2>4, <2>5, OnlyWorker
<1>7. TodoIsOthers'
  BY <1>1, <1>3, Rest DEF j, OneInv
<1> QED
  BY <1>5, <1>6, <1>7, Together

\* A worker that ends its message and claims C.
LEMMA WorkerClaims ==
  ASSUME TypeOK, TypeOK', OneInv, NEW w \in Workers, NEW C \in SUBSET Waiting,
         NEW rows \in [Tasks -> Row], row' = Claim(rows, C),
         \A t \in Tasks : rows[t].st = "pending" /\ ~rows[t].claimed => t \in Waiting,
         NEW j \in Job, Becomes(w, Sending(j, C)), beat' = beat, j.task \notin Waiting
  PROVE  /\ TodoIsOthers'
         /\ \A t \in Tasks : /\ \A k \in Retries : queue'[<<t, k>>] = queue[<<t, k>>]
                             /\ j.task = t => Carries(w, t)
                             => Removed(t) \/ Single(t)
<1>1. work'[w] = Sending(j, C)
      /\ \A v \in Workers : \A t : v # w => (Carries(v, t)' <=> Carries(v, t))
  BY CarriesAfter
<1>2. C \in SUBSET Tasks
  BY DEF Waiting
<1>3. CASE C = {}
  <2>1. Sending(j, C) = Idle
    BY <1>3 DEF Sending
  <2>2. Idle.pc = "idle" /\ Idle.todo = {}
    BY DEF Idle
  <2>3. TodoIsOthers'
    BY <2>1, <2>2, Rest DEF OneInv
  <2>4. ASSUME NEW t \in Tasks, \A k \in Retries : queue'[<<t, k>>] = queue[<<t, k>>]
        PROVE  Removed(t)
    <3>1. ~Carries(w, t)'
      BY <1>1, <2>1, <2>2 DEF Carries
    <3>2. \A v \in Workers : Carries(v, t)' => Carries(v, t)
      BY <1>1, <3>1
    <3>3. t \in Waiting' => t \in Waiting
      BY <1>2, WaitingAfter
    <3> QED
      BY <2>4, <3>2, <3>3, Fewer
  <2> QED
    BY <2>3, <2>4
<1>4. CASE C # {}
  <2>1. Sending(j, C).pc = "send" /\ Sending(j, C).task = j.task /\ Sending(j, C).todo = C
    BY <1>4 DEF Sending, Job
  <2>2. TodoIsOthers'
    <3>1. Sending(j, C).task \notin Sending(j, C).todo
      BY <2>1
    <3> QED
      BY <3>1, Rest DEF OneInv
  <2>3. ASSUME NEW t \in Tasks, \A k \in Retries : queue'[<<t, k>>] = queue[<<t, k>>],
               j.task = t => Carries(w, t)
        PROVE  Removed(t) \/ Single(t)
    <3>1. t \in Waiting' => t \in Waiting /\ t \notin C
      BY <1>2, WaitingAfter
    <3>2. CASE t \in C
      <4>1. /\ \A k \in Retries : queue[<<t, k>>] = 0
            /\ \A v \in Workers : ~Carries(v, t)
            /\ \A q \in Beat : t \notin beat[q].todo
        BY <3>2, NoPlace
      <4>2. Single(t)
        BY <1>1, <2>3, <3>1, <3>2, <4>1, OnlyWorker
      <4> QED
        BY <4>2
    <3>3. CASE t \notin C
      <4>1. Carries(w, t)' => Carries(w, t)
        BY <1>1, <2>1, <2>3, <3>3 DEF Carries
      <4>2. \A v \in Workers : Carries(v, t)' => Carries(v, t)
        BY <1>1, <4>1
      <4>3. Removed(t)
        BY <2>3, <3>1, <4>2, Fewer
      <4> QED
        BY <4>3
    <3> QED
      BY <3>2, <3>3
  <2> QED
    BY <2>2, <2>3
<1> QED
  BY <1>3, <1>4

LEMMA RefuseOne ==
  ASSUME TypeOK, TypeOK', OneInv, NEW w \in Workers, Refuse(w)
  PROVE  OneInv'
<1>0. PICK t0 \in Tasks : \E k \in Retries : \E C \in Picks(1) :
        /\ queue[<<t0, k>>] > 0
        /\ Becomes(w, Sending([Idle EXCEPT !.task = t0, !.retry = k], C))
        /\ queue' = [queue EXCEPT ![<<t0, k>>] = @ - 1]
        /\ row' = Claim(row, C)
        /\ UNCHANGED <<beat, faults>>
  BY DEF Refuse
<1>a. PICK k0 \in Retries : \E C \in Picks(1) :
        /\ queue[<<t0, k0>>] > 0
        /\ Becomes(w, Sending([Idle EXCEPT !.task = t0, !.retry = k0], C))
        /\ queue' = [queue EXCEPT ![<<t0, k0>>] = @ - 1]
        /\ row' = Claim(row, C)
        /\ UNCHANGED <<beat, faults>>
  BY <1>0
<1>1. PICK C \in Picks(1) :
        /\ queue[<<t0, k0>>] > 0
        /\ Becomes(w, Sending([Idle EXCEPT !.task = t0, !.retry = k0], C))
        /\ queue' = [queue EXCEPT ![<<t0, k0>>] = @ - 1]
        /\ row' = Claim(row, C)
        /\ UNCHANGED <<beat, faults>>
  BY <1>a
<1> DEFINE j == [Idle EXCEPT !.task = t0, !.retry = k0]
<1>2. /\ queue \in [Tasks \X Retries -> 0..MaxCopies] /\ row \in [Tasks -> Row]
      /\ C \in SUBSET Waiting /\ C \in SUBSET Tasks
  BY DEF TypeOK, Picks, Waiting
<1>3. j \in Job /\ j.task = t0
  BY DEF Idle, Job
<1>4. \A t \in Tasks : row[t].st = "pending" /\ ~row[t].claimed => t \in Waiting
  BY DEF Waiting
<1>5. <<"queue", k0>> \in Places(t0) /\ queue[<<t0, k0>>] <= 1
  BY <1>1, InPlaces DEF OneInv, NoCopies
<1>6. /\ t0 \notin Waiting
      /\ \A k \in Retries : k # k0 => queue[<<t0, k>>] = 0
      /\ \A v \in Workers : ~Carries(v, t0)
      /\ \A q \in Beat : t0 \notin beat[q].todo
  BY <1>5, OnlyPlace
<1> HIDE DEF j
<1>7. Becomes(w, Sending(j, C)) /\ beat' = beat
  BY <1>1 DEF j
<1>8. /\ TodoIsOthers'
      /\ \A t \in Tasks : /\ \A k \in Retries : queue'[<<t, k>>] = queue[<<t, k>>]
                          /\ j.task = t => Carries(w, t)
                          => Removed(t) \/ Single(t)
  BY <1>1, <1>2, <1>3, <1>4, <1>6, <1>7, WorkerClaims
<1>9. ASSUME NEW t \in Tasks PROVE Removed(t) \/ Single(t)
  <2>1. CASE t # t0
    <3>1. \A k \in Retries : queue'[<<t, k>>] = queue[<<t, k>>]
      BY <1>1, <1>2, <2>1
    <3> QED
      BY <1>3, <1>8, <2>1, <3>1
  <2>2. CASE t = t0
    <3>1. \A k \in Retries : queue'[<<t0, k>>] = 0
      BY <1>1, <1>2, <1>5, <1>6, Bounds
    <3>2. t0 \notin Waiting'
      BY <1>1, <1>2, <1>4, <1>6, WaitingAfter
    <3>3. \A v \in Workers : v # w => ~Carries(v, t0)'
      BY <1>6, <1>7, CarriesAfter
    <3>4. Single(t0)
      BY <1>6, <1>7, <3>1, <3>2, <3>3, OnlyWorker
    <3> QED
      BY <2>2, <3>4
  <2> QED
    BY <2>1, <2>2
<1> QED
  BY <1>8, <1>9, Together

LEMMA FinishOne ==
  ASSUME TypeOK, TypeOK', OneInv, NEW w \in Workers, Finish(w) \/ FinishOther(w)
  PROVE  OneInv'
<1>0. /\ row \in [Tasks -> Row] /\ work[w] \in Job
      /\ \A C \in Picks(1) : C \in SUBSET Waiting
  BY DEF TypeOK, Picks
<1>1. CASE Finish(w)
  <2>0. PICK s \in Results : \E C \in Picks(1) :
          /\ work[w].pc = "run"
          /\ row' = Claim([row EXCEPT ![work[w].task] = Result(@, s)], C)
          /\ Becomes(w, Sending(work[w], C))
          /\ UNCHANGED <<queue, beat, faults>>
    BY <1>1 DEF Finish
  <2> DEFINE rows == [row EXCEPT ![work[w].task] = Result(@, s)]
  <2>1. PICK C \in Picks(1) :
          /\ work[w].pc = "run"
          /\ row' = Claim(rows, C)
          /\ Becomes(w, Sending(work[w], C))
          /\ UNCHANGED <<queue, beat, faults>>
    BY <2>0
  <2>2. rows \in [Tasks -> Row]
    <3>1. work[w].task \in Tasks => Result(row[work[w].task], s) \in Row
      BY <1>0, ResultType
    <3> QED
      BY <1>0, <3>1
  <2>3. \A t \in Tasks : rows[t].st = "pending" /\ ~rows[t].claimed => t \in Waiting
    BY <1>0 DEF Waiting, Result, Results
  <2> HIDE DEF rows
  <2>4. \A t \in Tasks : work[w].task = t => Carries(w, t)
    BY <2>1 DEF Carries
  <2>5. work[w].task \notin Waiting
    <3>1. \A t \in Waiting : ~Carries(w, t) /\ t \in Tasks
      BY NoPlace DEF Waiting
    <3> QED
      BY <2>4, <3>1
  <2>6. /\ TodoIsOthers'
        /\ \A t \in Tasks : /\ \A k \in Retries : queue'[<<t, k>>] = queue[<<t, k>>]
                            /\ work[w].task = t => Carries(w, t)
                            => Removed(t) \/ Single(t)
    BY <1>0, <2>1, <2>2, <2>3, <2>5, WorkerClaims
  <2> QED
    BY <2>1, <2>4, <2>6, Together
<1>2. CASE FinishOther(w)
  <2>1. PICK C \in Picks(1) :
          /\ row' = Claim(row, C)
          /\ Becomes(w, Sending(Idle, C))
          /\ UNCHANGED <<queue, beat, faults>>
    BY <1>2 DEF FinishOther
  <2>2. Idle \in Job /\ Idle.task \notin Tasks /\ Idle.task \notin Waiting
    BY IdleType, Bounds DEF Idle, Tasks, Waiting
  <2>3. \A t \in Tasks : row[t].st = "pending" /\ ~row[t].claimed => t \in Waiting
    BY DEF Waiting
  <2>4. /\ TodoIsOthers'
        /\ \A t \in Tasks : /\ \A k \in Retries : queue'[<<t, k>>] = queue[<<t, k>>]
                            /\ Idle.task = t => Carries(w, t)
                            => Removed(t) \/ Single(t)
    BY <1>0, <2>1, <2>2, <2>3, WorkerClaims
  <2> QED
    BY <2>1, <2>2, <2>4, Together
<1> QED
  BY <1>1, <1>2

LEMMA StartOne ==
  ASSUME TypeOK, TypeOK', OneInv, NEW w \in Workers, Start(w)
  PROVE  OneInv'
<1> DEFINE j == [work[w] EXCEPT !.pc = "run"]
<1>1. j.task = work[w].task /\ j.todo = work[w].todo /\ work[w].pc = "read" /\ work[w] \in Job
  BY DEF TypeOK, Job, Start
<1>2. Becomes(w, j) /\ UNCHANGED <<row, queue, beat, faults>>
  BY DEF Start
<1> HIDE DEF j
<1>3. TodoIsOthers'
  BY <1>1, <1>2, Rest DEF OneInv, TodoIsOthers
<1>4. ASSUME NEW t \in Tasks PROVE Removed(t)
  <2>1. work'[w] = j /\ \A v \in Workers : \A u : v # w => (Carries(v, u)' <=> Carries(v, u))
    BY <1>2, CarriesAfter
  <2>2. Carries(w, t)' => Carries(w, t)
    BY <1>1, <2>1 DEF Carries
  <2>3. \A v \in Workers : Carries(v, t)' => Carries(v, t)
    BY <2>1, <2>2
  <2> QED
    BY <1>2, <2>3, Fewer DEF Waiting
<1> QED
  BY <1>3, <1>4, Together

LEMMA SendOne ==
  ASSUME TypeOK, TypeOK', OneInv, NEW w \in Workers, Send(w)
  PROVE  OneInv'
<1>1. PICK t0 \in work[w].todo :
        /\ work[w].pc = "send"
        /\ Put(t0, 0)
        /\ Becomes(w, Sending(work[w], work[w].todo \ {t0}))
        /\ UNCHANGED <<row, beat, faults>>
  BY DEF Send
<1> DEFINE j == Sending(work[w], work[w].todo \ {t0})
<1>2. work[w] \in Job /\ t0 \in Tasks /\ 0 \in Retries /\ Waiting' = Waiting
  BY <1>1, Bounds DEF TypeOK, Job, Retries, Waiting
<1>3. work[w].task \notin work[w].todo
  BY DEF OneInv, TodoIsOthers
<1>4. \/ j.pc = "idle" /\ j.todo = {}
      \/ j.task = work[w].task /\ j.todo = work[w].todo \ {t0}
  <2>1. CASE work[w].todo \ {t0} = {}
    BY <2>1 DEF Sending, Idle
  <2>2. CASE work[w].todo \ {t0} # {}
    <3>1. j = [work[w] EXCEPT !.pc = "send", !.todo = work[w].todo \ {t0}]
      BY <2>2 DEF Sending
    <3> HIDE DEF j
    <3> QED
      BY <1>2, <3>1 DEF Job
  <2> QED
    BY <2>1, <2>2
<1>5. j.task \notin j.todo
  BY <1>3, <1>4
<1> HIDE DEF j
<1>6. work'[w] = j /\ \A v \in Workers : \A u : v # w => (Carries(v, u)' <=> Carries(v, u))
  BY <1>1, CarriesAfter DEF j
<1>7. TodoIsOthers'
  BY <1>1, <1>5, Rest DEF j, OneInv
<1>8. Carries(w, t0) /\ ~Carries(w, t0)'
  BY <1>1, <1>3, <1>4, <1>6 DEF Carries
<1>9. <<"worker", w>> \in Places(t0)
  BY <1>8, InPlaces
<1>10. /\ t0 \notin Waiting
       /\ \A k \in Retries : queue[<<t0, k>>] = 0
       /\ \A v \in Workers : v # w => ~Carries(v, t0)
       /\ \A q \in Beat : t0 \notin beat[q].todo
  BY <1>2, <1>9, OnlyPlace
<1>11. /\ queue'[<<t0, 0>>] <= 1
       /\ \A u \in Tasks, k \in Retries : <<u, k>> # <<t0, 0>> => queue'[<<u, k>>] = queue[<<u, k>>]
  BY <1>1, <1>2, <1>10, AfterPut
<1>12. Single(t0)
  <2>1. \A k \in Retries : k # 0 => queue'[<<t0, k>>] = 0
    BY <1>2, <1>10, <1>11
  <2>2. \A v \in Workers : ~Carries(v, t0)'
    BY <1>6, <1>8, <1>10
  <2> QED
    BY <1>1, <1>2, <1>10, <1>11, <2>1, <2>2, OnlyQueue
<1>13. ASSUME NEW t \in Tasks, t # t0 PROVE Removed(t)
  <2>1. Carries(w, t)' => Carries(w, t)
    BY <1>1, <1>4, <1>6, <1>13 DEF Carries
  <2>2. \A v \in Workers : Carries(v, t)' => Carries(v, t)
    BY <1>6, <2>1
  <2>3. \A k \in Retries : queue'[<<t, k>>] = queue[<<t, k>>]
    BY <1>11, <1>13
  <2> QED
    BY <1>1, <1>2, <2>2, <2>3, Fewer
<1> QED
  BY <1>7, <1>12, <1>13, Together

\* A worker that stops without a result gives its message back, or loses it.
LEMMA GiveBackOne ==
  ASSUME TypeOK, TypeOK', OneInv, NEW w \in Workers, work[w].pc # "idle",
         Becomes(w, Idle), UNCHANGED <<row, beat>>,
         \/ queue' = queue
         \/ work[w].task \in Tasks /\ \E r \in Retries : Put(work[w].task, r)
  PROVE  OneInv'
<1>1. Idle.pc = "idle" /\ Idle.todo = {} /\ Waiting' = Waiting
  BY DEF Idle, Waiting
<1>2. TodoIsOthers'
  BY <1>1, Rest DEF OneInv
<1>3. /\ \A t : ~Carries(w, t)'
      /\ \A v \in Workers : \A t : v # w => (Carries(v, t)' <=> Carries(v, t))
  <2>1. work'[w] = Idle /\ \A v \in Workers : \A t : v # w => (Carries(v, t)' <=> Carries(v, t))
    BY CarriesAfter
  <2> QED
    BY <1>1, <2>1 DEF Carries
<1>4. ASSUME NEW t \in Tasks, \A k \in Retries : queue'[<<t, k>>] = queue[<<t, k>>]
      PROVE  Removed(t)
  <2>1. \A v \in Workers : Carries(v, t)' => Carries(v, t)
    BY <1>3
  <2> QED
    BY <1>1, <1>4, <2>1, Fewer
<1>5. CASE queue' = queue
  BY <1>2, <1>4, <1>5, Together
<1>6. CASE work[w].task \in Tasks /\ \E r \in Retries : Put(work[w].task, r)
  <2>3. PICK t0 \in Tasks : t0 = work[w].task
    BY <1>6
  <2>1. PICK r \in Retries : Put(t0, r)
    BY <1>6, <2>3
  <2>2. <<"worker", w>> \in Places(t0)
    BY <2>3, InPlaces DEF Carries
  <2>4. /\ t0 \notin Waiting
        /\ \A k \in Retries : queue[<<t0, k>>] = 0
        /\ \A v \in Workers : v # w => ~Carries(v, t0)
        /\ \A q \in Beat : t0 \notin beat[q].todo
    BY <2>2, <2>3, OnlyPlace
  <2>5. /\ queue'[<<t0, r>>] <= 1
        /\ \A u \in Tasks, k \in Retries : <<u, k>> # <<t0, r>> => queue'[<<u, k>>] = queue[<<u, k>>]
    BY <2>1, <2>3, <2>4, AfterPut
  <2>6. Single(t0)
    <3>1. \A k \in Retries : k # r => queue'[<<t0, k>>] = 0
      BY <2>3, <2>4, <2>5
    <3>2. \A v \in Workers : ~Carries(v, t0)'
      BY <1>3, <2>4
    <3> QED
      BY <1>1, <2>3, <2>4, <2>5, <3>1, <3>2, OnlyQueue
  <2>7. ASSUME NEW t \in Tasks, t # t0 PROVE Removed(t)
    BY <1>4, <2>5, <2>7
  <2> QED
    BY <1>2, <2>6, <2>7, Together
<1> QED
  BY <1>5, <1>6

LEMMA FaultOne ==
  ASSUME TypeOK, TypeOK', OneInv, NEW w \in Workers, Raise(w) \/ Crash(w)
  PROVE  OneInv'
<1>1. /\ work[w].pc # "idle" /\ Becomes(w, Idle) /\ UNCHANGED <<row, beat>>
      /\ work[w] \in Job
  BY DEF Raise, Crash, TypeOK
<1>2. CASE Raise(w)
  <2>1. CASE work[w].task \in Tasks /\ work[w].retry < MaxRetries
    <3>1. work[w].retry + 1 \in Retries /\ Put(work[w].task, work[w].retry + 1)
      BY <1>1, <1>2, <2>1, Bounds DEF Raise, Again, Job, Retries
    <3> QED
      BY <1>1, <2>1, <3>1, GiveBackOne
  <2>2. CASE ~(work[w].task \in Tasks /\ work[w].retry < MaxRetries)
    <3>1. queue' = queue
      BY <1>2, <2>2 DEF Raise, Again
    <3> QED
      BY <1>1, <3>1, GiveBackOne
  <2> QED
    BY <2>1, <2>2
<1>3. CASE Crash(w)
  <2>1. CASE work[w].task \in Tasks
    <3>1. work[w].retry \in Retries /\ Put(work[w].task, work[w].retry)
      BY <1>1, <1>3, <2>1 DEF Crash, Job
    <3> QED
      BY <1>1, <2>1, <3>1, GiveBackOne
  <2>2. CASE work[w].task \notin Tasks
    <3>1. queue' = queue
      BY <1>3, <2>2 DEF Crash
    <3> QED
      BY <1>1, <3>1, GiveBackOne
  <2> QED
    BY <2>1, <2>2
<1> QED
  BY <1>2, <1>3

LEMMA PollOne ==
  ASSUME TypeOK, TypeOK', OneInv, NEW p \in Beat, PollStep(p) \/ PollFails(p)
  PROVE  OneInv'
<1> DEFINE Polling == [pc : {"idle", "open", "send"}, drop : SUBSET Tasks, todo : SUBSET Tasks]
<1>0. row \in [Tasks -> Row] /\ beat \in [Beat -> Polling]
  BY DEF TypeOK
<1>a. work' = work
  BY DEF PollStep, PollOpen, PollCommit, CommitWith, PollSend, PollFails
<1>1. /\ TodoIsOthers'
      /\ \A v \in Workers : \A t : Carries(v, t)' <=> Carries(v, t)
  BY <1>a DEF OneInv, TodoIsOthers, Carries
<1>2. CASE PollOpen(p) \/ PollFails(p)
  <2>1. row' = row /\ queue' = queue /\ beat'[p].todo = {} /\ \A q \in Beat : q # p => beat'[q] = beat[q]
    BY <1>0, <1>2 DEF PollOpen, PollFails, Resting
  <2>2. ASSUME NEW t \in Tasks PROVE Removed(t)
    BY <1>1, <2>1, Fewer DEF Waiting
  <2> QED
    BY <1>1, <2>2, Together
<1>3. CASE PollCommit(p)
  <2> DEFINE rows == [t \in Tasks |-> IF t \in beat[p].drop THEN Cancelled(row[t]) ELSE row[t]]
  <2>1. PICK C \in IF p \in Polls THEN Picks(Slots) ELSE {{}} :
          /\ row' = Claim(rows, C)
          /\ beat' = [beat EXCEPT ![p] = IF C = {} THEN Resting
                                         ELSE [pc |-> "send", drop |-> {}, todo |-> C]]
          /\ queue' = queue
    BY <1>3 DEF PollCommit, CommitWith
  <2>2. C \in SUBSET Waiting
    <3>1. CASE p \in Polls
      BY <2>1, <3>1 DEF Picks
    <3>2. CASE p \notin Polls
      BY <2>1, <3>2
    <3> QED
      BY <3>1, <3>2
  <2>3. rows \in [Tasks -> Row]
    <3>1. \A r \in Row : Cancelled(r) \in Row
      BY DEF Cancelled, Row, Statuses
    <3> QED
      BY <1>0, <3>1
  <2>4. \A t \in Tasks : rows[t].st = "pending" /\ ~rows[t].claimed => t \in Waiting
    BY <1>0 DEF Waiting, Cancelled, Row
  <2> HIDE DEF rows
  <2>5. C \in SUBSET Tasks
    BY <2>2 DEF Waiting
  <2>6. beat'[p].todo = C /\ \A q \in Beat : q # p => beat'[q] = beat[q]
    BY <1>0, <2>1 DEF Resting
  <2>7. ASSUME NEW t \in Tasks PROVE Removed(t) \/ Single(t)
    <3>1. t \in Waiting' => t \in Waiting /\ t \notin C
      BY <2>1, <2>3, <2>4, <2>5, WaitingAfter
    <3>2. CASE t \in C
      <4>1. /\ \A k \in Retries : queue[<<t, k>>] = 0
            /\ \A v \in Workers : ~Carries(v, t)
            /\ \A q \in Beat : t \notin beat[q].todo
        BY <2>2, <3>2, NoPlace
      <4>2. Single(t)
        BY <1>1, <2>1, <2>6, <3>1, <3>2, <4>1, OnlyPoll
      <4> QED
        BY <4>2
    <3>3. CASE t \notin C
      <4>1. Removed(t)
        BY <1>1, <2>1, <2>6, <3>1, <3>3, Fewer
      <4> QED
        BY <4>1
    <3> QED
      BY <3>2, <3>3
  <2> QED
    BY <1>1, <2>7, Together
<1>4. CASE PollSend(p)
  <2>1. PICK t0 \in beat[p].todo :
          /\ Put(t0, 0)
          /\ beat' = [beat EXCEPT ![p] = IF beat[p].todo \ {t0} = {} THEN Resting
                                         ELSE [@ EXCEPT !.todo = beat[p].todo \ {t0}]]
          /\ row' = row
    BY <1>4 DEF PollSend
  <2>2. t0 \in Tasks /\ 0 \in Retries /\ beat[p] \in Polling /\ Waiting' = Waiting
    BY <1>0, <2>1, Bounds DEF Retries, Waiting
  <2>3. beat'[p].todo = beat[p].todo \ {t0} /\ \A q \in Beat : q # p => beat'[q] = beat[q]
    <3>1. CASE beat[p].todo \ {t0} = {}
      BY <1>0, <2>1, <3>1 DEF Resting
    <3>2. CASE beat[p].todo \ {t0} # {}
      BY <1>0, <2>1, <3>2
    <3> QED
      BY <3>1, <3>2
  <2>4. <<"poll", p>> \in Places(t0)
    BY InPlaces
  <2>5. /\ t0 \notin Waiting
        /\ \A k \in Retries : queue[<<t0, k>>] = 0
        /\ \A v \in Workers : ~Carries(v, t0)
        /\ \A q \in Beat : q # p => t0 \notin beat[q].todo
    BY <2>2, <2>4, OnlyPlace
  <2>6. /\ queue'[<<t0, 0>>] <= 1
        /\ \A u \in Tasks, k \in Retries : <<u, k>> # <<t0, 0>> => queue'[<<u, k>>] = queue[<<u, k>>]
    BY <2>1, <2>2, <2>5, AfterPut
  <2>7. Single(t0)
    <3>1. \A k \in Retries : k # 0 => queue'[<<t0, k>>] = 0
      BY <2>2, <2>5, <2>6
    <3>2. \A q \in Beat : t0 \notin beat'[q].todo
      BY <2>3, <2>5
    <3> QED
      BY <1>1, <2>2, <2>5, <2>6, <3>1, <3>2, OnlyQueue
  <2>8. ASSUME NEW t \in Tasks, t # t0 PROVE Removed(t)
    <3>1. \A k \in Retries : queue'[<<t, k>>] = queue[<<t, k>>]
      BY <2>6, <2>8
    <3>2. \A q \in Beat : t \in beat'[q].todo => t \in beat[q].todo
      BY <2>3
    <3> QED
      BY <1>1, <2>2, <3>1, <3>2, Fewer
  <2> QED
    BY <1>1, <2>7, <2>8, Together
<1> QED
  BY <1>2, <1>3, <1>4 DEF PollStep

LEMMA ResumeOne ==
  ASSUME TypeOK, TypeOK', OneInv, NEW t \in Tasks, Resume(t)
  PROVE  OneInv'
<1>1. PICK s \in Results :
        /\ row' = [row EXCEPT ![t] = Result(@, s)]
        /\ UNCHANGED <<queue, work, beat, faults>>
  BY DEF Resume
<1>2. /\ TodoIsOthers'
      /\ \A v \in Workers : \A u : Carries(v, u)' <=> Carries(v, u)
  BY <1>1 DEF OneInv, TodoIsOthers, Carries
<1>3. \A u \in Tasks : u \in Waiting' => u \in Waiting
  BY <1>1 DEF Waiting, Result, Results, TypeOK
<1>4. ASSUME NEW u \in Tasks PROVE Removed(u)
  BY <1>1, <1>2, <1>3, Fewer
<1> QED
  BY <1>2, <1>4, Together

OneUnlessRepeated == "redeliver" \notin Happened => OneInv

LEMMA OneInductive == Inv /\ Inv' /\ OneUnlessRepeated /\ [Next]_vars => OneUnlessRepeated'
<1> SUFFICES ASSUME Inv, Inv', OneUnlessRepeated, [Next]_vars, "redeliver" \notin Happened'
             PROVE  OneInv'
  BY DEF OneUnlessRepeated
<1>0. TypeOK /\ TypeOK'
  BY DEF Inv
<1>1. CASE UNCHANGED vars
  <2>1. OneInv
    BY <1>1 DEF vars, OneUnlessRepeated, Happened
  <2> QED
    BY <1>1, <2>1 DEF vars, OneInv, NoCopies, WaitingHasNone, TodoIsOthers, Places, Carries, Waiting
<1>2. CASE Next
  <2>1. OneInv
    BY <1>0, <1>2, HappenedGrows DEF OneUnlessRepeated
  <2>2. \A w \in Workers : ~Redeliver(w)
    BY <1>0, FaultIsRemembered DEF Redeliver
  <2>3. CASE \E w \in Workers : WorkerStep(w)
    BY <1>0, <2>1, <2>3, TakeOne, RefuseOne, StartOne, FinishOne, SendOne DEF WorkerStep
  <2> QED
    BY <1>0, <1>2, <2>1, <2>2, <2>3, FinishOne, FaultOne, PollOne, ResumeOne DEF Next
<1> QED
  BY <1>1, <1>2

\* Claims of workers and polls, their retries after an exception, a crash or a
\* refusal of the broker never leave two messages of one calculation, as long as
\* the broker has not delivered a message twice.
THEOREM NeverTwoMessages == Spec => []OneMessage
<1>1. OneInv => OneUnlessRepeated
  BY DEF OneUnlessRepeated
<1>2. OneUnlessRepeated => OneMessage
  BY DEF OneUnlessRepeated, OneInv, OneMessage
<1> QED
  BY <1>1, <1>2, AlwaysInv, InitOne, OneInductive, PTL DEF Spec

-----------------------------------------------------------------------------
(* A claimed calculation has its message *)

\* Calculations that have no result yet and are not dropped.
Pending == {t \in Tasks : row[t].st = "pending"}

\* What a process still has to do goes with where it is: a calculation a worker has
\* ended is pending no more, and only who sends has something to send.
Ended ==
  /\ \A t \in Pending : row[t].current
  /\ \A w \in Workers : /\ work[w].pc = "idle" => work[w] = Idle
                        /\ work[w].pc # "send" => work[w].todo = {}
                        /\ work[w].pc = "send" => work[w].task \notin Pending
  /\ \A p \in Beat : beat[p].pc # "send" => beat[p].todo = {}

\* A message is at most as many times retried as an agent has raised.
Raised == IF "raise" \in Faults THEN faults["raise"] ELSE 0
RetriesAreRaises ==
  /\ \A t \in Tasks, k \in Retries : queue[<<t, k>>] > 0 => k <= Raised
  /\ \A w \in Workers : work[w].retry <= Raised

\* The message of t is in the queue, with a worker, or about to be sent by a poll.
Reached(t) ==
  \/ \E k \in Retries : queue[<<t, k>>] > 0
  \/ \E w \in Workers : Carries(w, t)
  \/ \E p \in Beat : t \in beat[p].todo

\* What ClaimedIsOnItsWay asks of the behaviour so far.
NothingLost == Losses \cap Happened = {} /\ RetriesSuffice

\* Reached says that Places names a place.
LEMMA PlacesReach ==
  ASSUME NEW t
  PROVE  Places(t) # {} <=> Reached(t)
<1>1. Reached(t) => Places(t) # {}
  BY InPlaces DEF Reached
<1>2. Places(t) # {} => Reached(t)
  BY DEF Reached, Places
<1> QED
  BY <1>1, <1>2

LEMMA InitEnded == Init => Ended /\ RetriesAreRaises
<1> SUFFICES ASSUME Init PROVE Ended /\ RetriesAreRaises
  OBVIOUS
<1>1. Ended
  BY DEF Init, Ended, Pending, Idle, Resting
<1>2. Raised = 0
  BY DEF Init, Raised
<1>3. RetriesAreRaises
  BY <1>2, Bounds DEF Init, RetriesAreRaises, Idle
<1> QED
  BY <1>1, <1>3

\* What a worker does next, when it has claimed C.
LEMMA AfterSending ==
  ASSUME NEW j \in Job, NEW C
  PROVE  /\ C = {} => Sending(j, C) = Idle
         /\ C # {} => /\ Sending(j, C).pc = "send" /\ Sending(j, C).task = j.task
                      /\ Sending(j, C).todo = C /\ Sending(j, C).retry = j.retry
BY DEF Sending, Job

LEMMA IdleIs == Idle.pc = "idle" /\ Idle.task = 0 /\ Idle.todo = {} /\ Idle.retry = 0 /\ 0 \notin Tasks
BY Bounds DEF Idle, Tasks

\* A worker that ends with j and claims C leaves the others as they were.
LEMMA SendingEnds ==
  ASSUME TypeOK, Ended, NEW w \in Workers, NEW j \in Job, NEW C, Becomes(w, Sending(j, C)),
         Pending' \subseteq Pending, \A t \in Pending' : row'[t].current,
         j.task \notin Pending', beat' = beat
  PROVE  Ended'
<1>1. work'[w] = Sending(j, C) /\ \A v \in Workers : v # w => work'[v] = work[v]
  BY DEF Becomes, TypeOK
<1>2. /\ work'[w].pc = "idle" => work'[w] = Idle
      /\ work'[w].pc # "send" => work'[w].todo = {}
      /\ work'[w].pc = "send" => work'[w].task \notin Pending'
  BY <1>1, AfterSending, IdleIs
<1>3. ASSUME NEW v \in Workers, v # w
      PROVE  /\ work'[v].pc = "idle" => work'[v] = Idle
             /\ work'[v].pc # "send" => work'[v].todo = {}
             /\ work'[v].pc = "send" => work'[v].task \notin Pending'
  BY <1>1, <1>3 DEF Ended
<1>4. \A p \in Beat : beat'[p].pc # "send" => beat'[p].todo = {}
  BY DEF Ended
<1> QED
  BY <1>2, <1>3, <1>4 DEF Ended

\* A claim makes nothing pending, and what it finds pending it keeps current.
LEMMA ClaimPending ==
  ASSUME NEW rows \in [Tasks -> Row], NEW C, row' = Claim(rows, C)
  PROVE  \A t \in Tasks : row'[t].st = rows[t].st /\ row'[t].current = rows[t].current
BY DEF Claim, Row

LEMMA WorkerEnded ==
  ASSUME Inv, Ended, NEW w \in Workers, WorkerStep(w) \/ FinishOther(w)
  PROVE  Ended'
<1>0. work[w] \in Job /\ row \in [Tasks -> Row] /\ TypeOK
  BY DEF Inv, TypeOK
<1>1. CASE Take(w)
  <2>1. PICK t \in Tasks, k \in Retries :
          /\ Becomes(w, [Idle EXCEPT !.pc = "read", !.task = t, !.retry = k])
          /\ UNCHANGED <<row, beat, faults>>
    BY <1>1 DEF Take
  <2>2. work'[w].pc = "read" /\ work'[w].todo = {} /\ \A v \in Workers : v # w => work'[v] = work[v]
    BY <1>0, <2>1 DEF Becomes, TypeOK, Idle
  <2> QED
    BY <2>1, <2>2 DEF Ended, Pending
<1>2. CASE Refuse(w)
  <2>0. PICK t \in Tasks : \E k \in Retries : \E C \in Picks(1) :
          /\ ~row[t].current
          /\ Becomes(w, Sending([Idle EXCEPT !.task = t, !.retry = k], C))
          /\ row' = Claim(row, C)
          /\ UNCHANGED <<beat, faults>>
    BY <1>2 DEF Refuse
  <2>a. PICK k \in Retries : \E C \in Picks(1) :
          /\ Becomes(w, Sending([Idle EXCEPT !.task = t, !.retry = k], C))
          /\ row' = Claim(row, C)
          /\ UNCHANGED <<beat, faults>>
    BY <2>0
  <2>1. PICK C \in Picks(1) :
          /\ Becomes(w, Sending([Idle EXCEPT !.task = t, !.retry = k], C))
          /\ row' = Claim(row, C)
          /\ UNCHANGED <<beat, faults>>
    BY <2>a
  <2>2. [Idle EXCEPT !.task = t, !.retry = k] \in Job /\ [Idle EXCEPT !.task = t, !.retry = k].task = t
    BY DEF Idle, Job
  <2>3. Pending' = Pending /\ \A u \in Pending' : row'[u].current
    BY <1>0, <2>1, ClaimPending DEF Ended, Pending
  <2>4. t \notin Pending'
    BY <2>0, <2>3 DEF Ended
  <2> DEFINE j == [Idle EXCEPT !.task = t, !.retry = k]
  <2>5. j \in Job /\ j.task \notin Pending' /\ Becomes(w, Sending(j, C)) /\ beat' = beat
    BY <2>1, <2>2, <2>4
  <2> HIDE DEF j
  <2> QED
    BY <1>0, <2>3, <2>5, SendingEnds
<1>3. CASE Start(w)
  <2>1. /\ work'[w] = [work[w] EXCEPT !.pc = "run"] /\ work[w].pc = "read"
        /\ \A v \in Workers : v # w => work'[v] = work[v]
    BY <1>0, <1>3 DEF Start, Becomes, TypeOK
  <2>2. work'[w].pc = "run" /\ work'[w].todo = {}
    BY <1>0, <2>1 DEF Job, Ended
  <2> QED
    BY <1>3, <2>1, <2>2, ZenonT(120) DEF Start, Ended, Pending
<1>4. CASE Finish(w)
  <2>0. PICK s \in Results : \E C \in Picks(1) :
          /\ row' = Claim([row EXCEPT ![work[w].task] = Result(@, s)], C)
          /\ Becomes(w, Sending(work[w], C))
          /\ UNCHANGED <<queue, beat, faults>>
    BY <1>4 DEF Finish
  <2> DEFINE rows == [row EXCEPT ![work[w].task] = Result(@, s)]
  <2>1. PICK C \in Picks(1) :
          /\ row' = Claim(rows, C)
          /\ Becomes(w, Sending(work[w], C))
          /\ UNCHANGED <<queue, beat, faults>>
    BY <2>0
  <2>2. rows \in [Tasks -> Row]
    <3>1. work[w].task \in Tasks => Result(row[work[w].task], s) \in Row
      BY <1>0, ResultType
    <3> QED
      BY <1>0, <3>1
  <2>3. \A t \in Tasks : rows[t].st = "pending" => t # work[w].task /\ rows[t] = row[t]
    BY <1>0 DEF Result, Results
  <2> HIDE DEF rows
  <2>4. \A t \in Tasks : row'[t].st = rows[t].st /\ row'[t].current = rows[t].current
    BY <2>1, <2>2, ClaimPending
  <2>5. \A t \in Pending' : t \in Tasks /\ t # work[w].task /\ t \in Pending /\ row'[t].current
    BY <2>3, <2>4 DEF Pending, Ended
  <2> QED
    BY <1>0, <2>1, <2>5, SendingEnds
<1>5. CASE FinishOther(w)
  <2>1. PICK C \in Picks(1) :
          /\ row' = Claim(row, C)
          /\ Becomes(w, Sending(Idle, C))
          /\ UNCHANGED <<queue, beat, faults>>
    BY <1>5 DEF FinishOther
  <2>2. Pending' = Pending /\ \A u \in Pending' : row'[u].current
    BY <1>0, <2>1, ClaimPending DEF Ended, Pending
  <2>3. Idle.task \notin Pending
    BY IdleIs DEF Pending
  <2> QED
    BY <1>0, <2>1, <2>2, <2>3, IdleType, SendingEnds
<1>6. CASE Send(w)
  <2>1. PICK t \in work[w].todo :
          /\ work[w].pc = "send"
          /\ Becomes(w, Sending(work[w], work[w].todo \ {t}))
          /\ UNCHANGED <<row, beat, faults>>
    BY <1>6 DEF Send
  <2>2. work[w].task \notin Pending /\ Pending' = Pending /\ \A u \in Pending' : row'[u].current
    BY <2>1 DEF Ended, Pending
  <2> QED
    BY <1>0, <2>1, <2>2, SendingEnds
<1> QED
  BY <1>1, <1>2, <1>3, <1>4, <1>5, <1>6 DEF WorkerStep

LEMMA OthersEnded ==
  ASSUME Inv, Ended,
         \/ \E w \in Workers : Raise(w) \/ Crash(w) \/ Redeliver(w)
         \/ \E p \in Beat : PollStep(p) \/ PollFails(p)
         \/ \E t \in Tasks : Resume(t)
  PROVE  Ended'
<1> DEFINE Polling == [pc : {"idle", "open", "send"}, drop : SUBSET Tasks, todo : SUBSET Tasks]
<1>0. row \in [Tasks -> Row] /\ TypeOK /\ beat \in [Beat -> Polling]
  BY DEF Inv, TypeOK
<1>1. ASSUME NEW w \in Workers, Raise(w) \/ Crash(w) PROVE Ended'
  <2>1. /\ work'[w] = Idle /\ \A v \in Workers : v # w => work'[v] = work[v]
        /\ UNCHANGED <<row, beat>>
    BY <1>0, <1>1 DEF Raise, Crash, Becomes, TypeOK
  <2> QED
    BY <2>1, IdleIs DEF Ended, Pending
<1>2. ASSUME NEW w \in Workers, Redeliver(w) PROVE Ended'
  BY <1>2 DEF Redeliver, Ended, Pending
<1>3. ASSUME NEW p \in Beat, PollOpen(p) \/ PollFails(p) \/ PollSend(p) PROVE Ended'
  <2>1. row' = row /\ work' = work /\ \A q \in Beat : q # p => beat'[q] = beat[q]
    BY <1>0, <1>3 DEF PollOpen, PollFails, PollSend
  <2>2. beat'[p].pc # "send" => beat'[p].todo = {}
    <3>1. CASE PollOpen(p) \/ PollFails(p)
      BY <1>0, <3>1 DEF PollOpen, PollFails, Resting
    <3>2. CASE PollSend(p)
      <4>1. PICK t \in beat[p].todo :
              /\ beat[p].pc = "send"
              /\ beat' = [beat EXCEPT ![p] = IF beat[p].todo \ {t} = {} THEN Resting
                                             ELSE [@ EXCEPT !.todo = beat[p].todo \ {t}]]
        BY <3>2 DEF PollSend
      <4> QED
        BY <1>0, <4>1 DEF Resting
    <3> QED
      BY <1>3, <3>1, <3>2
  <2> QED
    BY <2>1, <2>2 DEF Ended, Pending
<1>4. ASSUME NEW p \in Beat, PollCommit(p) PROVE Ended'
  <2> DEFINE rows == [t \in Tasks |-> IF t \in beat[p].drop THEN Cancelled(row[t]) ELSE row[t]]
  <2>1. PICK C :
          /\ row' = Claim(rows, C)
          /\ beat' = [beat EXCEPT ![p] = IF C = {} THEN Resting
                                         ELSE [pc |-> "send", drop |-> {}, todo |-> C]]
          /\ work' = work
    BY <1>4 DEF PollCommit, CommitWith
  <2>2. rows \in [Tasks -> Row]
    <3>1. \A r \in Row : Cancelled(r) \in Row
      BY DEF Cancelled, Row, Statuses
    <3> QED
      BY <1>0, <3>1
  <2>3. \A t \in Tasks : rows[t].st = "pending" => rows[t] = row[t]
    BY <1>0 DEF Cancelled, Row
  <2> HIDE DEF rows
  <2>4. \A t \in Tasks : row'[t].st = rows[t].st /\ row'[t].current = rows[t].current
    BY <2>1, <2>2, ClaimPending
  <2>5. \A t \in Pending' : t \in Pending /\ row'[t].current
    BY <2>3, <2>4 DEF Pending, Ended
  <2>6. /\ \A q \in Beat : q # p => beat'[q] = beat[q]
        /\ beat'[p].pc # "send" => beat'[p].todo = {}
    BY <1>0, <2>1 DEF Resting
  <2> QED
    BY <2>1, <2>5, <2>6 DEF Ended
<1>5. ASSUME NEW t \in Tasks, Resume(t) PROVE Ended'
  <2>1. PICK s \in Results : row' = [row EXCEPT ![t] = Result(@, s)] /\ UNCHANGED <<work, beat>>
    BY <1>5 DEF Resume
  <2>2. \A u \in Pending' : u \in Pending /\ row'[u].current
    BY <1>0, <2>1 DEF Pending, Result, Results, Ended
  <2> QED
    BY <2>1, <2>2 DEF Ended
<1> QED
  BY <1>1, <1>2, <1>3, <1>4, <1>5 DEF PollStep

\* Every step keeps to where its process is.
LEMMA EndedInductive == Inv /\ Ended /\ [Next]_vars => Ended'
<1> SUFFICES ASSUME Inv, Ended, [Next]_vars PROVE Ended'
  OBVIOUS
<1>1. CASE UNCHANGED vars
  BY <1>1 DEF vars, Ended, Pending
<1>2. CASE Next
  BY <1>2, WorkerEnded, OthersEnded DEF Next
<1> QED
  BY <1>1, <1>2

\* A claimed calculation has its message; a message is given up only after more
\* exceptions than the retries allow.
WayInv == NothingLost => RetriesAreRaises /\ \A t \in Claimed : Reached(t)

\* The count of exceptions never goes down.
LEMMA RaisedGrows ==
  ASSUME TypeOK, Next
  PROVE  Raised \in Nat /\ Raised' \in Nat /\ Raised <= Raised'
<1>1. CASE faults' = faults
  BY <1>1 DEF Raised, TypeOK
<1>2. CASE \E k : Fault(k)
  BY <1>2 DEF Raised, TypeOK, Fault
<1> QED
  BY <1>1, <1>2
  DEF Next, WorkerStep, PollStep, Take, Refuse, Start, Finish, Send, FinishOther, Raise, Crash,
      Redeliver, PollOpen, PollCommit, CommitWith, PollSend, PollFails, Resume

\* What is lost stays lost.
LEMMA NothingWasLost ==
  ASSUME TypeOK, Next, NothingLost'
  PROVE  NothingLost /\ ~Fault("broker") /\ ~Fault("crash")
<1>1. Losses \cap Happened = {}
  BY HappenedGrows DEF NothingLost
<1>2. RetriesSuffice
  <2>1. CASE "raise" \in Faults
    <3>1. Raised = faults["raise"] /\ Raised' = faults'["raise"]
      BY <2>1 DEF Raised
    <3> QED
      BY <2>1, <3>1, RaisedGrows, Bounds DEF NothingLost, RetriesSuffice
  <2>2. CASE "raise" \notin Faults
    BY <2>2 DEF RetriesSuffice
  <2> QED
    BY <2>1, <2>2
<1>3. ~Fault("broker") /\ ~Fault("crash")
  BY FaultIsRemembered DEF NothingLost, Losses
<1> QED
  BY <1>1, <1>2, <1>3 DEF NothingLost

\* A message that was put is there, and no other was touched.
LEMMA PutArrives ==
  ASSUME TypeOK, NEW t \in Tasks, NEW k \in Retries, Put(t, k)
  PROVE  /\ queue'[<<t, k>>] > 0
         /\ \A u \in Tasks, j \in Retries : <<u, j>> # <<t, k>> => queue'[<<u, j>>] = queue[<<u, j>>]
<1>1. queue \in [Tasks \X Retries -> 0..MaxCopies] /\ MaxCopies \in Nat \ {0}
  BY DispatchAssumption DEF TypeOK
<1>2. queue'[<<t, k>>] = IF queue[<<t, k>>] < MaxCopies THEN queue[<<t, k>>] + 1 ELSE queue[<<t, k>>]
  BY <1>1 DEF Put
<1>3. queue'[<<t, k>>] > 0
  <2>1. queue[<<t, k>>] \in 0..MaxCopies
    BY <1>1
  <2> QED
    BY <1>1, <1>2, <2>1
<1>4. \A u \in Tasks, j \in Retries : <<u, j>> # <<t, k>> => queue'[<<u, j>>] = queue[<<u, j>>]
  BY <1>1 DEF Put
<1> QED
  BY <1>3, <1>4

\* Putting a message that has not been retried too often keeps the count, and what
\* was reached through the queue stays reached.
LEMMA PutKeepsRetries ==
  ASSUME TypeOK, Next, RetriesAreRaises, NEW t \in Tasks, NEW k \in Retries, Put(t, k), k <= Raised'
  PROVE  /\ \A u \in Tasks, j \in Retries : queue'[<<u, j>>] > 0 => j <= Raised'
         /\ \A u \in Tasks, j \in Retries : queue[<<u, j>>] > 0 => queue'[<<u, j>>] > 0
         /\ Reached(t)'
<1>1. ASSUME NEW u \in Tasks, NEW j \in Retries, queue'[<<u, j>>] > 0 PROVE j <= Raised'
  <2>1. CASE <<u, j>> = <<t, k>>
    BY <2>1
  <2>2. CASE <<u, j>> # <<t, k>>
    <3>1. queue'[<<u, j>>] = queue[<<u, j>>]
      BY <2>2, PutArrives
    <3>2. j <= Raised
      BY <1>1, <3>1 DEF RetriesAreRaises
    <3>3. j \in Nat
      BY Bounds DEF Retries
    <3> QED
      BY <3>2, <3>3, RaisedGrows
  <2> QED
    BY <2>1, <2>2
<1>2. \A u \in Tasks, j \in Retries : queue[<<u, j>>] > 0 => queue'[<<u, j>>] > 0
  BY PutArrives
<1>3. Reached(t)'
  BY PutArrives DEF Reached
<1> QED
  BY <1>1, <1>2, <1>3

\* The worker of a step: its next job has no more retries than there were raises.
LEMMA JobRetries ==
  ASSUME TypeOK, Next, RetriesAreRaises, NEW w \in Workers, NEW j, Becomes(w, j), j.retry <= Raised'
  PROVE  \A v \in Workers : work'[v].retry <= Raised'
<1>1. \A v \in Workers : v # w => work'[v] = work[v] /\ work[v].retry <= Raised /\ work[v].retry \in Nat
  BY Bounds DEF Becomes, TypeOK, RetriesAreRaises, Job, Retries
<1>2. work'[w].retry <= Raised'
  BY DEF Becomes, TypeOK
<1> QED
  BY <1>1, <1>2, RaisedGrows

\* The queue only loses messages.
LEMMA FewerRetries ==
  ASSUME TypeOK, Next, RetriesAreRaises,
         \A u \in Tasks, j \in Retries : queue'[<<u, j>>] > 0 => queue[<<u, j>>] > 0
  PROVE  \A u \in Tasks, j \in Retries : queue'[<<u, j>>] > 0 => j <= Raised'
<1> SUFFICES ASSUME NEW u \in Tasks, NEW j \in Retries, queue'[<<u, j>>] > 0 PROVE j <= Raised'
  OBVIOUS
<1>1. j <= Raised /\ j \in Nat
  BY Bounds DEF RetriesAreRaises, Retries
<1> QED
  BY <1>1, RaisedGrows

LEMMA TakeWay ==
  ASSUME Inv, Next, Ended, RetriesAreRaises, \A t \in Claimed : Reached(t),
         NEW w \in Workers, Take(w)
  PROVE  RetriesAreRaises' /\ \A t \in Claimed' : Reached(t)'
<1>1. PICK t0 \in Tasks, k0 \in Retries :
        /\ work[w].pc = "idle" /\ queue[<<t0, k0>>] > 0
        /\ Becomes(w, [Idle EXCEPT !.pc = "read", !.task = t0, !.retry = k0])
        /\ queue' = [queue EXCEPT ![<<t0, k0>>] = @ - 1]
        /\ UNCHANGED <<row, beat, faults>>
  BY DEF Take
<1> DEFINE j == [Idle EXCEPT !.pc = "read", !.task = t0, !.retry = k0]
<1>2. j.pc = "read" /\ j.task = t0 /\ j.retry = k0 /\ Becomes(w, j)
  BY <1>1 DEF Idle
<1> HIDE DEF j
<1>3. TypeOK /\ queue \in [Tasks \X Retries -> 0..MaxCopies]
  BY DEF Inv, TypeOK
<1>4. \A u \in Tasks, i \in Retries :
        <<u, i>> # <<t0, k0>> => queue'[<<u, i>>] = queue[<<u, i>>]
  BY <1>1, <1>3
<1>5. \A u \in Tasks, i \in Retries : queue'[<<u, i>>] > 0 => queue[<<u, i>>] > 0
  BY <1>1, <1>4
<1>6. k0 <= Raised /\ k0 \in Nat
  BY <1>1, Bounds DEF RetriesAreRaises, Retries
<1>7. RetriesAreRaises'
  BY <1>2, <1>3, <1>5, <1>6, FewerRetries, JobRetries, RaisedGrows DEF RetriesAreRaises
<1>8. work'[w] = j /\ \A v \in Workers : \A t : v # w => (Carries(v, t)' <=> Carries(v, t))
  BY <1>2, <1>3, CarriesAfter
<1>9. ASSUME NEW t \in Claimed' PROVE Reached(t)'
  <2>1. t \in Claimed /\ t \in Tasks
    BY <1>1 DEF Claimed
  <2>2. CASE t = t0
    BY <1>2, <1>8, <2>2 DEF Reached, Carries
  <2>3. CASE t # t0
    <3>1. ~Carries(w, t)
      BY <1>1, IdleIs DEF Ended, Carries
    <3> QED
      BY <1>1, <1>4, <1>8, <2>1, <2>3, <3>1 DEF Reached
  <2> QED
    BY <2>2, <2>3
<1> QED
  BY <1>7, <1>9

\* A worker that acknowledges its message and claims C, when it has nothing else to
\* send: what was reached through it is claimed no more.
LEMMA ClaimsWay ==
  ASSUME TypeOK, Next, RetriesAreRaises, \A t \in Claimed : Reached(t),
         NEW w \in Workers, NEW j \in Job, NEW C, Becomes(w, Sending(j, C)),
         j.retry <= Raised', beat' = beat, Claimed' \subseteq Claimed \cup C,
         \A u \in Tasks, i \in Retries : queue'[<<u, i>>] > 0 => queue[<<u, i>>] > 0,
         \A t \in Claimed' \ C : /\ ~Carries(w, t)
                                 /\ \A i \in Retries : queue'[<<t, i>>] = queue[<<t, i>>]
  PROVE  RetriesAreRaises' /\ \A t \in Claimed' : Reached(t)'
<1>1. Sending(j, C).retry <= Raised'
  BY AfterSending, IdleIs, RaisedGrows
<1>2. RetriesAreRaises'
  BY <1>1, FewerRetries, JobRetries DEF RetriesAreRaises
<1>3. work'[w] = Sending(j, C)
      /\ \A v \in Workers : \A t : v # w => (Carries(v, t)' <=> Carries(v, t))
  BY CarriesAfter
<1>4. ASSUME NEW t \in Claimed' PROVE Reached(t)'
  <2>1. CASE t \in C
    BY <1>3, <2>1, AfterSending DEF Reached, Carries
  <2>2. CASE t \notin C
    BY <1>3, <2>2 DEF Reached
  <2> QED
    BY <2>1, <2>2
<1> QED
  BY <1>2, <1>4

LEMMA RefuseWay ==
  ASSUME Inv, Next, Ended, RetriesAreRaises, \A t \in Claimed : Reached(t),
         NEW w \in Workers, Refuse(w)
  PROVE  RetriesAreRaises' /\ \A t \in Claimed' : Reached(t)'
<1>0. PICK t0 \in Tasks, k0 \in Retries : \E C \in Picks(1) :
        /\ work[w].pc = "idle" /\ queue[<<t0, k0>>] > 0 /\ ~row[t0].current
        /\ Becomes(w, Sending([Idle EXCEPT !.task = t0, !.retry = k0], C))
        /\ queue' = [queue EXCEPT ![<<t0, k0>>] = @ - 1]
        /\ row' = Claim(row, C)
        /\ UNCHANGED <<beat, faults>>
  BY DEF Refuse
<1>1. PICK C \in Picks(1) :
        /\ work[w].pc = "idle" /\ queue[<<t0, k0>>] > 0 /\ ~row[t0].current
        /\ Becomes(w, Sending([Idle EXCEPT !.task = t0, !.retry = k0], C))
        /\ queue' = [queue EXCEPT ![<<t0, k0>>] = @ - 1]
        /\ row' = Claim(row, C)
        /\ UNCHANGED <<beat, faults>>
  BY <1>0
<1> DEFINE j == [Idle EXCEPT !.task = t0, !.retry = k0]
<1>2. j \in Job /\ j.task = t0 /\ j.retry = k0 /\ Becomes(w, Sending(j, C))
  BY <1>1 DEF Idle, Job
<1> HIDE DEF j
<1>3. TypeOK /\ queue \in [Tasks \X Retries -> 0..MaxCopies] /\ row \in [Tasks -> Row]
  BY DEF Inv, TypeOK
<1>4. \A u \in Tasks, i \in Retries :
        <<u, i>> # <<t0, k0>> => queue'[<<u, i>>] = queue[<<u, i>>]
  BY <1>1, <1>3
<1>5. \A u \in Tasks, i \in Retries : queue'[<<u, i>>] > 0 => queue[<<u, i>>] > 0
  BY <1>1, <1>4
<1>6. k0 <= Raised /\ k0 \in Nat
  BY <1>1, Bounds DEF RetriesAreRaises, Retries
<1>7. j.retry <= Raised'
  BY <1>2, <1>3, <1>6, RaisedGrows
<1>8. Claimed' \subseteq Claimed \cup C
  BY <1>1, <1>3, PicksAreTasks, ClaimedAfter DEF Claimed
<1>9. \A t \in Claimed' \ C : /\ ~Carries(w, t)
                              /\ \A i \in Retries : queue'[<<t, i>>] = queue[<<t, i>>]
  <2> SUFFICES ASSUME NEW t \in Claimed' \ C
               PROVE  ~Carries(w, t) /\ \A i \in Retries : queue'[<<t, i>>] = queue[<<t, i>>]
    OBVIOUS
  <2>1. t \in Claimed /\ t \in Tasks
    BY <1>8 DEF Claimed
  <2>2. row[t].current
    BY <2>1 DEF Claimed, Ended, Pending
  <2>3. t # t0
    BY <1>1, <2>2
  <2>4. ~Carries(w, t)
    BY <1>1, IdleIs DEF Ended, Carries
  <2> QED
    BY <1>4, <2>1, <2>3, <2>4
<1> QED
  BY <1>1, <1>2, <1>3, <1>5, <1>7, <1>8, <1>9, ClaimsWay

LEMMA FinishWay ==
  ASSUME Inv, Next, Ended, RetriesAreRaises, \A t \in Claimed : Reached(t),
         NEW w \in Workers, Finish(w) \/ FinishOther(w)
  PROVE  RetriesAreRaises' /\ \A t \in Claimed' : Reached(t)'
<1>0. TypeOK /\ row \in [Tasks -> Row] /\ work[w] \in Job
  BY DEF Inv, TypeOK
<1>1. CASE Finish(w)
  <2>0. PICK s \in Results : \E C \in Picks(1) :
          /\ work[w].pc = "run"
          /\ row' = Claim([row EXCEPT ![work[w].task] = Result(@, s)], C)
          /\ Becomes(w, Sending(work[w], C))
          /\ UNCHANGED <<queue, beat, faults>>
    BY <1>1 DEF Finish
  <2> DEFINE rows == [row EXCEPT ![work[w].task] = Result(@, s)]
  <2>1. PICK C \in Picks(1) :
          /\ work[w].pc = "run"
          /\ row' = Claim(rows, C)
          /\ Becomes(w, Sending(work[w], C))
          /\ UNCHANGED <<queue, beat, faults>>
    BY <2>0
  <2>2. rows \in [Tasks -> Row]
    <3>1. work[w].task \in Tasks => Result(row[work[w].task], s) \in Row
      BY <1>0, ResultType
    <3> QED
      BY <1>0, <3>1
  <2>3. \A t \in Tasks : rows[t].st = "pending" /\ rows[t].claimed => t \in Claimed /\ t # work[w].task
    BY <1>0 DEF Claimed, Result, Results
  <2> HIDE DEF rows
  <2>4. Claimed' \subseteq Claimed \cup C
    BY <1>0, <2>1, <2>2, <2>3, PicksAreTasks, ClaimedAfter
  <2>5. \A t \in Claimed' \ C : ~Carries(w, t)
    <3> SUFFICES ASSUME NEW t \in Claimed', t \notin C PROVE ~Carries(w, t)
      OBVIOUS
    <3>1. t \in Tasks /\ row'[t] = rows[t]
      BY <2>1 DEF Claimed, Claim
    <3>2. t # work[w].task
      BY <2>3, <3>1 DEF Claimed
    <3>3. work[w].todo = {}
      BY <2>1 DEF Ended
    <3> QED
      BY <3>2, <3>3 DEF Carries
  <2>6. work[w].retry <= Raised'
    <3>1. work[w].retry <= Raised /\ work[w].retry \in Nat
      BY <1>0, Bounds DEF RetriesAreRaises, Job, Retries
    <3> QED
      BY <1>0, <3>1, RaisedGrows
  <2> QED
    BY <1>0, <2>1, <2>4, <2>5, <2>6, ClaimsWay
<1>2. CASE FinishOther(w)
  <2>1. PICK C \in Picks(1) :
          /\ work[w].pc = "idle"
          /\ row' = Claim(row, C)
          /\ Becomes(w, Sending(Idle, C))
          /\ UNCHANGED <<queue, beat, faults>>
    BY <1>2 DEF FinishOther
  <2>2. Claimed' \subseteq Claimed \cup C
    BY <1>0, <2>1, PicksAreTasks, ClaimedAfter DEF Claimed
  <2>3. \A t \in Claimed' \ C : ~Carries(w, t)
    BY <2>1, IdleIs DEF Ended, Carries
  <2>4. Idle.retry <= Raised'
    BY <1>0, IdleIs, RaisedGrows
  <2> QED
    BY <1>0, <2>1, <2>2, <2>3, <2>4, IdleType, ClaimsWay
<1> QED
  BY <1>1, <1>2

LEMMA StartWay ==
  ASSUME Inv, Next, RetriesAreRaises, \A t \in Claimed : Reached(t), NEW w \in Workers, Start(w)
  PROVE  RetriesAreRaises' /\ \A t \in Claimed' : Reached(t)'
<1> DEFINE j == [work[w] EXCEPT !.pc = "run"]
<1>1. TypeOK /\ work[w] \in Job
  BY DEF Inv, TypeOK
<1>2. /\ j.pc = "run" /\ j.task = work[w].task /\ j.todo = work[w].todo /\ j.retry = work[w].retry
      /\ work[w].pc = "read"
  BY <1>1 DEF Job, Start
<1>3. Becomes(w, j) /\ UNCHANGED <<row, queue, beat, faults>>
  BY DEF Start
<1> HIDE DEF j
<1>4. work'[w] = j /\ \A v \in Workers : \A t : v # w => (Carries(v, t)' <=> Carries(v, t))
  BY <1>1, <1>3, CarriesAfter
<1>5. Raised' = Raised /\ j.retry <= Raised'
  BY <1>2, <1>3 DEF Raised, RetriesAreRaises
<1>6. RetriesAreRaises'
  BY <1>1, <1>3, <1>5, FewerRetries, JobRetries DEF RetriesAreRaises
<1>7. \A v \in Workers : \A t : Carries(v, t) => Carries(v, t)'
  BY <1>2, <1>4 DEF Carries
<1> QED
  BY <1>3, <1>6, <1>7 DEF Reached, Claimed

LEMMA SendWay ==
  ASSUME Inv, Next, Ended, RetriesAreRaises, \A t \in Claimed : Reached(t),
         NEW w \in Workers, Send(w)
  PROVE  RetriesAreRaises' /\ \A t \in Claimed' : Reached(t)'
<1>1. PICK t0 \in work[w].todo :
        /\ work[w].pc = "send"
        /\ Put(t0, 0)
        /\ Becomes(w, Sending(work[w], work[w].todo \ {t0}))
        /\ UNCHANGED <<row, beat, faults>>
  BY DEF Send
<1> DEFINE C == work[w].todo \ {t0}
           j == Sending(work[w], C)
<1>2. TypeOK /\ work[w] \in Job /\ t0 \in Tasks /\ 0 \in Retries /\ 0 <= Raised'
  <2>1. TypeOK /\ work[w] \in Job
    BY DEF Inv, TypeOK
  <2>2. 0 <= Raised'
    BY <2>1, RaisedGrows
  <2> QED
    BY <1>1, <2>1, <2>2, Bounds DEF Job, Retries
<1>3. /\ j = Idle /\ C = {}
      \/ /\ j.pc = "send" /\ j.task = work[w].task /\ j.todo = C
         /\ j.retry = work[w].retry
  BY <1>2, AfterSending
<1>4. j.retry <= Raised'
  <2>1. work[w].retry <= Raised /\ work[w].retry \in Nat
    BY <1>2, Bounds DEF RetriesAreRaises, Job, Retries
  <2>2. Idle.retry <= Raised'
    BY <1>2, IdleIs
  <2> QED
    BY <1>2, <1>3, <2>1, <2>2, RaisedGrows
<1>5. work[w].task \notin Claimed /\ Claimed' = Claimed
  BY <1>1 DEF Ended, Pending, Claimed
<1>6. \A t : t \in C <=> t \in work[w].todo /\ t # t0
  OBVIOUS
<1> HIDE DEF C, j
<1>7. Becomes(w, j)
  BY <1>1 DEF C, j
<1>8. work'[w] = j /\ \A v \in Workers : \A t : v # w => (Carries(v, t)' <=> Carries(v, t))
  BY <1>2, <1>7, CarriesAfter
<1>9. /\ \A u \in Tasks, i \in Retries : queue'[<<u, i>>] > 0 => i <= Raised'
      /\ \A u \in Tasks, i \in Retries : queue[<<u, i>>] > 0 => queue'[<<u, i>>] > 0
      /\ Reached(t0)'
  BY <1>1, <1>2, PutKeepsRetries
<1>10. RetriesAreRaises'
  BY <1>2, <1>4, <1>7, <1>9, JobRetries DEF RetriesAreRaises
<1>11. ASSUME NEW t \in Claimed' PROVE Reached(t)'
  <2>1. t \in Claimed /\ t \in Tasks /\ t # work[w].task
    BY <1>5 DEF Claimed
  <2>2. CASE t = t0
    BY <1>9, <2>2
  <2>3. CASE t # t0
    <3>1. Carries(w, t) => Carries(w, t)'
      BY <1>3, <1>6, <1>8, <2>1, <2>3 DEF Carries
    <3> QED
      BY <1>1, <1>8, <1>9, <2>1, <3>1 DEF Reached
  <2> QED
    BY <2>2, <2>3
<1> QED
  BY <1>10, <1>11

\* An agent raises: its message goes back with one more retry.
LEMMA RaiseWay ==
  ASSUME Inv, Next, Ended, RetriesAreRaises, \A t \in Claimed : Reached(t), NothingLost',
         NEW w \in Workers, Raise(w)
  PROVE  RetriesAreRaises' /\ \A t \in Claimed' : Reached(t)'
<1>1. TypeOK /\ work[w] \in Job
  BY DEF Inv, TypeOK
<1>2. /\ work[w].pc = "run" /\ Fault("raise") /\ Again(w) /\ Becomes(w, Idle)
      /\ UNCHANGED <<row, beat>>
  BY <1>1, NothingWasLost DEF Raise
<1>3. Raised' = Raised + 1 /\ Raised' <= MaxRetries
  BY <1>1, <1>2 DEF Raised, Fault, TypeOK, NothingLost, RetriesSuffice
<1>4. work[w].retry <= Raised /\ work[w].retry \in Nat
  BY <1>1, Bounds DEF RetriesAreRaises, Job, Retries
<1>5. work'[w] = Idle /\ \A v \in Workers : \A t : v # w => (Carries(v, t)' <=> Carries(v, t))
  BY <1>1, <1>2, CarriesAfter
<1>6. \A v \in Workers : work'[v].retry <= Raised'
  BY <1>1, <1>2, IdleIs, RaisedGrows, JobRetries
<1>7. Claimed' = Claimed /\ \A t \in Claimed : t \in Tasks
  BY <1>2 DEF Claimed
<1>8. CASE work[w].task \in Tasks
  <2>0. PICK t0 \in Tasks, k0 \in Nat : t0 = work[w].task /\ k0 = work[w].retry + 1
    BY <1>4, <1>8
  <2>1. k0 \in Retries /\ k0 <= Raised' /\ Put(t0, k0)
    BY <1>1, <1>2, <1>3, <1>4, <2>0, RaisedGrows, Bounds DEF Again, Retries
  <2>2. /\ \A u \in Tasks, i \in Retries : queue'[<<u, i>>] > 0 => i <= Raised'
        /\ \A u \in Tasks, i \in Retries : queue[<<u, i>>] > 0 => queue'[<<u, i>>] > 0
        /\ Reached(t0)'
    BY <1>1, <2>1, PutKeepsRetries
  <2>3. ASSUME NEW t \in Claimed' PROVE Reached(t)'
    <3>1. CASE t = t0
      BY <2>2, <3>1
    <3>2. CASE t # t0
      <4>1. ~Carries(w, t)
        BY <1>2, <2>0, <3>2 DEF Ended, Carries
      <4> QED
        BY <1>2, <1>5, <1>7, <2>2, <4>1 DEF Reached
    <3> QED
      BY <3>1, <3>2
  <2> QED
    BY <1>6, <2>2, <2>3 DEF RetriesAreRaises
<1>9. CASE work[w].task \notin Tasks
  <2>1. queue' = queue
    BY <1>2, <1>9 DEF Again
  <2>2. \A t \in Tasks : ~Carries(w, t)
    BY <1>2, <1>9 DEF Ended, Carries
  <2>3. RetriesAreRaises'
    BY <1>1, <1>6, <2>1, FewerRetries DEF RetriesAreRaises
  <2> QED
    BY <1>2, <1>5, <1>7, <2>1, <2>2, <2>3 DEF Reached
<1> QED
  BY <1>8, <1>9

LEMMA RedeliverWay ==
  ASSUME Inv, Next, RetriesAreRaises, \A t \in Claimed : Reached(t),
         NEW w \in Workers, Redeliver(w)
  PROVE  RetriesAreRaises' /\ \A t \in Claimed' : Reached(t)'
<1>1. /\ TypeOK /\ work[w] \in Job /\ work[w].task \in Tasks /\ Put(work[w].task, work[w].retry)
      /\ UNCHANGED <<row, work, beat>>
  BY DEF Inv, TypeOK, Redeliver
<1>2. \A v \in Workers : work[v].retry <= Raised /\ work[v].retry \in Nat /\ work[v].retry \in Retries
  BY Bounds DEF RetriesAreRaises, Inv, TypeOK, Job, Retries
<1>3. \A v \in Workers : work[v].retry <= Raised'
  BY <1>1, <1>2, RaisedGrows
<1>4. /\ \A u \in Tasks, i \in Retries : queue'[<<u, i>>] > 0 => i <= Raised'
      /\ \A u \in Tasks, i \in Retries : queue[<<u, i>>] > 0 => queue'[<<u, i>>] > 0
  BY <1>1, <1>2, <1>3, PutKeepsRetries
<1>5. RetriesAreRaises'
  BY <1>1, <1>3, <1>4 DEF RetriesAreRaises
<1> QED
  BY <1>1, <1>4, <1>5 DEF Reached, Carries, Claimed

LEMMA PollWay ==
  ASSUME Inv, Next, Ended, RetriesAreRaises, \A t \in Claimed : Reached(t), NothingLost',
         NEW p \in Beat, PollStep(p) \/ PollFails(p)
  PROVE  RetriesAreRaises' /\ \A t \in Claimed' : Reached(t)'
<1> DEFINE Polling == [pc : {"idle", "open", "send"}, drop : SUBSET Tasks, todo : SUBSET Tasks]
<1>0. TypeOK /\ row \in [Tasks -> Row] /\ beat \in [Beat -> Polling]
  BY DEF Inv, TypeOK
<1>a. work' = work
  BY DEF PollStep, PollOpen, PollCommit, CommitWith, PollSend, PollFails
<1>1. \A v \in Workers : work'[v].retry <= Raised'
  <2>1. \A v \in Workers : work[v].retry <= Raised /\ work[v].retry \in Nat
    BY Bounds DEF RetriesAreRaises, Inv, TypeOK, Job, Retries
  <2> QED
    BY <1>0, <1>a, <2>1, RaisedGrows
<1>2. \A v \in Workers : \A t : Carries(v, t)' <=> Carries(v, t)
  BY <1>a DEF Carries
<1>3. CASE PollOpen(p) \/ PollFails(p)
  <2>1. /\ row' = row /\ queue' = queue /\ \A q \in Beat : q # p => beat'[q] = beat[q]
        /\ beat[p].pc # "send"
    BY <1>0, <1>3, NothingWasLost DEF PollOpen, PollFails
  <2>2. RetriesAreRaises'
    BY <1>0, <1>1, <2>1, FewerRetries DEF RetriesAreRaises
  <2> QED
    BY <1>2, <2>1, <2>2 DEF Reached, Claimed, Ended
<1>4. CASE PollCommit(p)
  <2> DEFINE rows == [t \in Tasks |-> IF t \in beat[p].drop THEN Cancelled(row[t]) ELSE row[t]]
  <2>1. PICK C \in IF p \in Polls THEN Picks(Slots) ELSE {{}} :
          /\ beat[p].pc = "open"
          /\ row' = Claim(rows, C)
          /\ beat' = [beat EXCEPT ![p] = IF C = {} THEN Resting
                                         ELSE [pc |-> "send", drop |-> {}, todo |-> C]]
          /\ queue' = queue
    BY <1>4 DEF PollCommit, CommitWith
  <2>2. C \in SUBSET Tasks
    <3>1. CASE p \in Polls
      BY <2>1, <3>1, PicksAreTasks
    <3>2. CASE p \notin Polls
      BY <2>1, <3>2
    <3> QED
      BY <3>1, <3>2
  <2>3. rows \in [Tasks -> Row]
    <3>1. \A r \in Row : Cancelled(r) \in Row
      BY DEF Cancelled, Row, Statuses
    <3> QED
      BY <1>0, <3>1
  <2>4. \A t \in Tasks : rows[t].st = "pending" /\ rows[t].claimed => t \in Claimed
    BY <1>0 DEF Claimed, Cancelled, Row
  <2> HIDE DEF rows
  <2>5. Claimed' \subseteq Claimed \cup C
    BY <1>0, <2>1, <2>2, <2>3, <2>4, ClaimedAfter
  <2>6. beat'[p].todo = C /\ beat[p].todo = {} /\ \A q \in Beat : q # p => beat'[q] = beat[q]
    BY <1>0, <2>1 DEF Resting, Ended
  <2>7. RetriesAreRaises'
    BY <1>0, <1>1, <2>1, FewerRetries DEF RetriesAreRaises
  <2>8. ASSUME NEW t \in Claimed' PROVE Reached(t)'
    <3>1. CASE t \in C
      BY <2>6, <3>1 DEF Reached
    <3>2. CASE t \notin C
      BY <1>2, <2>1, <2>5, <2>6, <3>2 DEF Reached
    <3> QED
      BY <3>1, <3>2
  <2> QED
    BY <2>7, <2>8
<1>5. CASE PollSend(p)
  <2>1. PICK t0 \in beat[p].todo :
          /\ Put(t0, 0)
          /\ beat' = [beat EXCEPT ![p] = IF beat[p].todo \ {t0} = {} THEN Resting
                                         ELSE [@ EXCEPT !.todo = beat[p].todo \ {t0}]]
          /\ row' = row
    BY <1>5 DEF PollSend
  <2>2. t0 \in Tasks /\ 0 \in Retries /\ beat[p] \in Polling /\ 0 <= Raised'
    BY <1>0, <2>1, Bounds, RaisedGrows DEF Retries
  <2>3. beat'[p].todo = beat[p].todo \ {t0} /\ \A q \in Beat : q # p => beat'[q] = beat[q]
    <3>1. CASE beat[p].todo \ {t0} = {}
      BY <1>0, <2>1, <3>1 DEF Resting
    <3>2. CASE beat[p].todo \ {t0} # {}
      BY <1>0, <2>1, <3>2
    <3> QED
      BY <3>1, <3>2
  <2>4. /\ \A u \in Tasks, i \in Retries : queue'[<<u, i>>] > 0 => i <= Raised'
        /\ \A u \in Tasks, i \in Retries : queue[<<u, i>>] > 0 => queue'[<<u, i>>] > 0
        /\ Reached(t0)'
    BY <1>0, <2>1, <2>2, PutKeepsRetries
  <2>5. RetriesAreRaises'
    BY <1>1, <2>4 DEF RetriesAreRaises
  <2>6. ASSUME NEW t \in Claimed' PROVE Reached(t)'
    <3>1. t \in Claimed /\ t \in Tasks
      BY <2>1 DEF Claimed
    <3>2. CASE t = t0
      BY <2>4, <3>2
    <3>3. CASE t # t0
      <4>1. \A q \in Beat : t \in beat[q].todo => t \in beat'[q].todo
        BY <2>3, <3>3
      <4> QED
        BY <1>2, <2>4, <3>1, <4>1 DEF Reached
    <3> QED
      BY <3>2, <3>3
  <2> QED
    BY <2>5, <2>6
<1> QED
  BY <1>3, <1>4, <1>5 DEF PollStep

LEMMA ResumeWay ==
  ASSUME Inv, Next, RetriesAreRaises, \A t \in Claimed : Reached(t), NEW t0 \in Tasks, Resume(t0)
  PROVE  RetriesAreRaises' /\ \A t \in Claimed' : Reached(t)'
<1>1. PICK s \in Results :
        /\ row' = [row EXCEPT ![t0] = Result(@, s)]
        /\ UNCHANGED <<queue, work, beat, faults>>
  BY DEF Resume
<1>2. Claimed' \subseteq Claimed
  BY <1>1 DEF Claimed, Result, Inv, TypeOK
<1>3. RetriesAreRaises' /\ \A t : Reached(t)' <=> Reached(t)
  BY <1>1 DEF RetriesAreRaises, Raised, Reached, Carries
<1> QED
  BY <1>2, <1>3

\* Every step leaves each claimed calculation its message.
LEMMA WayInductive == Inv /\ Ended /\ WayInv /\ [Next]_vars => WayInv'
<1> SUFFICES ASSUME Inv, Ended, WayInv, [Next]_vars, NothingLost'
             PROVE  RetriesAreRaises' /\ \A t \in Claimed' : Reached(t)'
  BY DEF WayInv
<1>0. TypeOK
  BY DEF Inv
<1>1. CASE UNCHANGED vars
  <2>1. NothingLost /\ Claimed' = Claimed /\ \A t : Reached(t)' <=> Reached(t)
    BY <1>1 DEF vars, NothingLost, RetriesSuffice, Happened, Claimed, Reached, Carries
  <2>2. RetriesAreRaises' <=> RetriesAreRaises
    BY <1>1 DEF vars, RetriesAreRaises, Raised
  <2> QED
    BY <2>1, <2>2 DEF WayInv
<1>2. CASE Next
  <2>1. RetriesAreRaises /\ (\A t \in Claimed : Reached(t)) /\ ~Fault("crash")
    BY <1>0, <1>2, NothingWasLost DEF WayInv
  <2>2. \A w \in Workers : ~Crash(w)
    BY <2>1 DEF Crash
  <2>3. CASE \E w \in Workers : WorkerStep(w) \/ FinishOther(w)
    BY <1>2, <2>1, <2>3, TakeWay, RefuseWay, StartWay, FinishWay, SendWay DEF WorkerStep
  <2>4. CASE \E w \in Workers : Raise(w) \/ Redeliver(w)
    BY <1>2, <2>1, <2>4, RaiseWay, RedeliverWay
  <2>5. CASE \E p \in Beat : PollStep(p) \/ PollFails(p)
    BY <1>2, <2>1, <2>5, PollWay
  <2>6. CASE \E t \in Tasks : Resume(t)
    BY <1>2, <2>1, <2>6, ResumeWay
  <2> QED
    BY <1>2, <2>2, <2>3, <2>4, <2>5, <2>6 DEF Next
<1> QED
  BY <1>1, <1>2

\* As long as no process dies while it has a message and the broker refuses none, a
\* claimed calculation has its message in the queue, with a worker or with who is
\* about to send it, however many claim at once, however often a message is delivered
\* again, and whatever polls are rolled back.
THEOREM ClaimsAreOnTheirWay == Spec => []ClaimedIsOnItsWay
<1>1. Init => WayInv
  <2>1. Init => Claimed = {}
    BY DEF Init, Claimed
  <2> QED
    BY <2>1, InitEnded DEF WayInv
<1>2. WayInv => ClaimedIsOnItsWay
  BY PlacesReach DEF WayInv, ClaimedIsOnItsWay, NothingLost
<1>3. Init => Ended
  BY InitEnded
<1> QED
  BY <1>1, <1>2, <1>3, AlwaysInv, EndedInductive, WayInductive, PTL DEF Spec

=============================================================================
