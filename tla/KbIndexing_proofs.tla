-------------------------- MODULE KbIndexing_proofs --------------------------
(***************************************************************************)
(* Proofs about KbIndexing for every number of sources, workers, clients   *)
(* and jobs, every kind of fault and every bound.                          *)
(*                                                                         *)
(* The inductive invariant adds to the type invariant that busy workers    *)
(* and open requests name a job (WellFormed) and that the jobs an open     *)
(* recovery is about to create do not exist yet (HeirsAreNew): otherwise   *)
(* its commit could bring a stopped job back. NamesExist says that what    *)
(* they name does exist: otherwise a stop could be lost to the creation of *)
(* its job. Two more invariants hold with one worker process: SearchInv    *)
(* follows a source while its points are replaced, BusyInv follows the job *)
(* that must be left over when a worker leaves the base processing.        *)
(***************************************************************************)
EXTENDS KbIndexing, TLAPS

\* A busy worker has a job, and a source where it works on one; a request that
\* has created or read a job names it.
WellFormed ==
  /\ \A w \in Workers : /\ work[w].pc # "idle" => work[w].job \in Jobs
                        /\ work[w].pc \in {"mark", "extract", "embed", "save"} => work[w].src \in Sources
  /\ \A c \in Clients : api[c].pc \in {"send", "attach", "cancel"} => api[c].job \in Jobs

\* The jobs that an open recovery will create are still absent.
HeirsAreNew == \A j \in New : RecOpen /\ jobs[j].st = "absent"

IInv == TypeOK /\ WellFormed /\ HeirsAreNew

-----------------------------------------------------------------------------
(* Types of the records that steps write *)

\* Every way to write a job row yields a job row.
LEMMA JobWrites ==
  /\ NoJob \in Job
  /\ \A k \in Kinds : NewJob(k) \in Job /\ [NewJob(k) EXCEPT !.tid = TRUE] \in Job
  /\ \A r \in Job :
       /\ [r EXCEPT !.tid = TRUE, !.old = FALSE] \in Job
       /\ [r EXCEPT !.cancel = TRUE, !.old = FALSE] \in Job
       /\ [r EXCEPT !.cancel = TRUE, !.old = FALSE, !.st = "cancelled"] \in Job
       /\ [r EXCEPT !.st = "cancelled", !.cancel = TRUE, !.old = FALSE] \in Job
       /\ [r EXCEPT !.st = "cancelled"] \in Job
       /\ [r EXCEPT !.st = "failed"] \in Job
       /\ [r EXCEPT !.err = TRUE] \in Job
       /\ [r EXCEPT !.old = TRUE] \in Job
       /\ [r EXCEPT !.st = "failed", !.err = TRUE, !.old = FALSE] \in Job
       /\ \A st \in JobStatuses : [r EXCEPT !.st = st, !.old = FALSE] \in Job
       /\ \A e \in BOOLEAN : [r EXCEPT !.st = "running", !.old = FALSE, !.err = e] \in Job
BY ZenonT(120) DEF Job, NewJob, NoJob, JobStatuses, Kinds

\* The states a cancelled or aborted base returns to, and those it resolves to:
\* none of them is "processing".
LEMMA BaseWrites ==
  /\ \A f : Restored(f) \subseteq KbStatuses \ {"processing"}
  /\ \A j, f : Resolved(j, f) \subseteq KbStatuses \ {"processing"}
BY DEF Restored, Resolved, KbStatuses

\* Writing the status of the base keeps its type, also over a loaded copy.
LEMMA BaseTyped ==
  ASSUME TypeOK
  PROVE  /\ \A st \in KbStatuses : [kb EXCEPT !.st = st] \in KbRow
         /\ \A f : \A st \in Restored(f) : [kb EXCEPT !.st = st] \in KbRow
         /\ \A c : \A st \in KbStatuses : Base(c, st) \in KbRow
<1>1. kb \in KbRow
  BY DEF TypeOK
<1>2. \A c : \A st \in KbStatuses : Base(c, st) \in KbRow
  BY <1>1 DEF Base, KbRow
<1>3. QED
  BY <1>1, <1>2, BaseWrites DEF KbRow

\* A stop writes a status other than processing, unless it misses it.
LEMMA BaseStops ==
  ASSUME TypeOK, NEW c, NEW st \in KbStatuses, st # "processing"
  PROVE  Base(c, st).st # "processing" \/ Base(c, st).missed
BY DEF TypeOK, KbRow, Base

\* Outside the recovery's transaction no job is about to be created by it.
LEMMA ClosedRecovery == HeirsAreNew /\ ~RecOpen => New = {}
BY DEF HeirsAreNew, New

\* What a session loads is a copy.
LEMMA CopyTyped ==
  /\ NoCopy \in Copy
  /\ TypeOK => Loaded \in Copy
BY DEF NoCopy, Copy, Loaded, TypeOK, KbRow, KbStatuses, SourceStatuses

\* Releasing or claiming the sources a session has loaded keeps their type and
\* makes none READY.
LEMMA SourceWrites ==
  ASSUME src \in [Sources -> SourceStatuses], NEW c
  PROVE  /\ Released(c) \in [Sources -> SourceStatuses]
         /\ Claimed(c) \in [Sources -> SourceStatuses]
         /\ \A s \in Sources : Released(c)[s] = "ready" => src[s] = "ready"
         /\ \A s \in Sources : Claimed(c)[s] = "ready" => src[s] = "ready"
BY DEF SourceStatuses, Released, Claimed

\* What workers go through.
LEMMA WorkWrites ==
  /\ Idle \in Work
  /\ \A r \in Work :
       /\ \A p \in Points : /\ [r EXCEPT !.pc = p] \in Work
                            /\ [r EXCEPT !.pc = p, !.held = FALSE] \in Work
       /\ \A s \in Sources : [r EXCEPT !.pc = "mark", !.src = s, !.todo = @ \ {s}] \in Work
       /\ \A s \in Sources, h \in BOOLEAN :
            [r EXCEPT !.pc = "extract", !.held = h, !.seen = @ \ {s}] \in Work
       /\ \A f \in BOOLEAN, st \in KbStatuses :
            [r EXCEPT !.pc = "finish", !.frag = f, !.final = st] \in Work
  /\ \A p \in Points, j \in Jobs, T, S \in SUBSET Sources, f \in BOOLEAN :
       [Idle EXCEPT !.pc = p, !.job = j, !.todo = T, !.frag = f, !.seen = S] \in Work
BY ZenonT(120) DEF Idle, Work, Points, KbStatuses

\* What requests go through.
LEMMA CallWrites ==
  /\ NoCall \in Call
  /\ \A k \in Kinds, b \in Copy : [NoCall EXCEPT !.pc = "check", !.copy = b, !.kind = k] \in Call
  /\ \A j \in Jobs : [NoCall EXCEPT !.pc = "send", !.job = j] \in Call
  /\ \A j \in Jobs, b \in BOOLEAN : [NoCall EXCEPT !.pc = "cancel", !.job = j, !.queued = b] \in Call
  /\ \A J \in SUBSET Jobs, b \in Copy : [NoCall EXCEPT !.pc = "force", !.copy = b, !.read = J] \in Call
  /\ \A r \in Call : /\ [r EXCEPT !.pc = "attach"] \in Call
                     /\ \A J \in SUBSET Jobs : [r EXCEPT !.pc = "create", !.read = J] \in Call
<1>1. NoCall \in Call
  BY CopyTyped DEF NoCall, Call, Kinds
<1>2. QED
  BY <1>1 DEF Call

-----------------------------------------------------------------------------
(* The endpoints keep the invariant *)

\* What a request that is answered leaves behind.
LEMMA AnswerKeeps ==
  ASSUME IInv, NEW c \in Clients, Answer(c)
  PROVE  /\ api' \in [Clients -> Call]
         /\ \A d \in Clients : api'[d].pc \in {"send", "attach", "cancel"} => api'[d].job \in Jobs
BY CallWrites DEF IInv, TypeOK, WellFormed, Answer, NoCall

LEMMA AskingKeeps ==
  ASSUME IInv, NEW c \in Clients, Asking(c)
  PROVE  IInv'
<1> USE DEF IInv, Call1
<1>0. calls' \in Nat /\ faults' \in Nat
  <2>1. calls' = calls + 1
    BY DEF Asking, StartCheck, Reindex, CancelRead, ForceRead, Archive, ConfirmReview, Exclude
  <2>2. CASE ForceRead(c)
    <3>1. faults' = faults \/ faults' = faults + 1
      BY <2>2 DEF ForceRead, Fault, NoFault
    <3>2. QED
      BY <2>1, <3>1 DEF TypeOK
  <2>3. CASE ~ForceRead(c)
    <3>1. faults' = faults
      BY <2>3 DEF Asking, StartCheck, Reindex, CancelRead, Archive, ConfirmReview, Exclude
    <3>2. QED
      BY <2>1, <3>1 DEF TypeOK
  <2>4. QED
    BY <2>2, <2>3
<1>1. ASSUME NEW k \in Starts, StartCheck(c, k) PROVE IInv'
  <2>1. api' \in [Clients -> Call]
    <3>1. api' = [api EXCEPT ![c] = [NoCall EXCEPT !.pc = "check", !.copy = Loaded, !.kind = k]]
      BY <1>1 DEF StartCheck
    <3>2. k \in Kinds /\ Loaded \in Copy
      BY CopyTyped, KbAssumption DEF Kinds
    <3>3. QED
      BY <3>1, <3>2, CallWrites DEF TypeOK
  <2>2. TypeOK'
    BY <1>0, <1>1, <2>1 DEF StartCheck, TypeOK, base, broker
  <2>3. WellFormed'
    BY <1>1 DEF StartCheck, TypeOK, WellFormed, NoCall
  <2>4. HeirsAreNew'
    BY <1>1 DEF StartCheck, HeirsAreNew, New, RecOpen
  <2>5. QED
    BY <2>2, <2>3, <2>4
<1>2. ASSUME NEW k \in Retries, Reindex(c, k) PROVE IInv'
  <2>0. PICK n \in Jobs : /\ NextNumber(n)
                          /\ jobs' = [jobs EXCEPT ![n] = NewJob(k)]
                          /\ api' = [api EXCEPT ![c] = [NoCall EXCEPT !.pc = "send", !.job = n]]
    BY <1>2 DEF Reindex
  <2>1. api' \in [Clients -> Call]
    BY <2>0, CallWrites DEF TypeOK
  <2>2. jobs' \in [Jobs -> Job]
    BY <2>0, JobWrites, KbAssumption DEF TypeOK, Kinds
  <2>3. TypeOK'
    BY <1>0, <1>2, <2>1, <2>2 DEF Reindex, TypeOK, base, broker
  <2>4. WellFormed'
    BY <1>2, <2>0 DEF Reindex, TypeOK, WellFormed, NoCall
  <2>5. HeirsAreNew'
    BY <1>2, <2>0 DEF Reindex, TypeOK, HeirsAreNew, New, RecOpen, NextNumber, Unused
  <2>6. QED
    BY <2>3, <2>4, <2>5
<1>3. CASE CancelRead(c)
  <2>0. PICK j \in Jobs : api' = [api EXCEPT ![c] = [NoCall EXCEPT !.pc = "cancel", !.job = j,
                                                        !.queued = jobs[j].st = "queued"]]
    BY <1>3 DEF CancelRead, ActiveJobs
  <2>1. api' \in [Clients -> Call]
    BY <2>0, CallWrites DEF TypeOK
  <2>2. TypeOK'
    BY <1>0, <1>3, <2>1 DEF CancelRead, TypeOK, base, broker
  <2>3. WellFormed'
    BY <1>3, <2>0 DEF CancelRead, TypeOK, WellFormed, NoCall
  <2>4. HeirsAreNew'
    BY <1>3 DEF CancelRead, HeirsAreNew, New, RecOpen
  <2>5. QED
    BY <2>2, <2>3, <2>4
<1>4. CASE ForceRead(c)
  <2>1. api' \in [Clients -> Call]
    <3>1. ActiveJobs \in SUBSET Jobs
      BY DEF ActiveJobs
    <3>2. Loaded \in Copy
      BY CopyTyped
    <3>3. api' = [api EXCEPT ![c] = [NoCall EXCEPT !.pc = "force", !.copy = Loaded, !.read = ActiveJobs]]
      BY <1>4 DEF ForceRead
    <3>4. QED
      BY <3>1, <3>2, <3>3, CallWrites DEF TypeOK
  <2>2. revoked' \subseteq Jobs /\ kills' \subseteq Workers
    BY <1>4 DEF ForceRead, TypeOK, Work, Revoke, Attached, ActiveJobs
  <2>3. TypeOK'
    BY <1>0, <1>4, <2>1, <2>2 DEF ForceRead, TypeOK, base
  <2>4. WellFormed'
    BY <1>4 DEF ForceRead, TypeOK, WellFormed, NoCall
  <2>5. HeirsAreNew'
    BY <1>4 DEF ForceRead, HeirsAreNew, New, RecOpen
  <2>6. QED
    BY <2>3, <2>4, <2>5
<1>5. CASE Archive(c)
  <2>1. TypeOK'
    BY <1>0, <1>5 DEF Archive, TypeOK, KbRow, KbStatuses, broker
  <2>2. QED
    BY <1>5, <2>1 DEF Archive, WellFormed, HeirsAreNew, New, RecOpen
<1>6. CASE ConfirmReview(c)
  <2>1. TypeOK'
    BY <1>0, <1>6 DEF ConfirmReview, TypeOK, KbRow, KbStatuses, broker
  <2>2. QED
    BY <1>6, <2>1 DEF ConfirmReview, WellFormed, HeirsAreNew, New, RecOpen
<1>7. ASSUME NEW s \in Sources, Exclude(c, s) PROVE IInv'
  <2>1. TypeOK'
    BY <1>0, <1>7 DEF Exclude, TypeOK, SourceStatuses, broker
  <2>2. QED
    BY <1>7, <2>1 DEF Exclude, WellFormed, HeirsAreNew, New, RecOpen
<1>8. QED
  BY <1>1, <1>2, <1>3, <1>4, <1>5, <1>6, <1>7 DEF Asking

LEMMA AnsweringKeeps ==
  ASSUME IInv, NEW c \in Clients, Answering(c)
  PROVE  IInv'
<1> USE DEF IInv
<1>0. CASE StartRead(c)
  <2> DEFINE J == {j \in Jobs : jobs[j].st = "queued"}
  <2>1. api' = [api EXCEPT ![c] = [api[c] EXCEPT !.pc = "create", !.read = J]] /\ api[c] \in Call
    BY <1>0 DEF StartRead, TypeOK
  <2>2. api' \in [Clients -> Call]
    <3>1. J \in SUBSET Jobs
      OBVIOUS
    <3>2. QED
      BY <2>1, <3>1, CallWrites DEF TypeOK
  <2>3. TypeOK'
    BY <1>0, <2>2 DEF StartRead, TypeOK, base, broker
  <2>4. WellFormed'
    <3>1. /\ api'[c].pc = "create"
          /\ \A d \in Clients : d # c => api'[d] = api[d]
      BY <2>1 DEF TypeOK, Call
    <3>2. QED
      BY <1>0, <3>1 DEF StartRead, WellFormed
  <2>5. HeirsAreNew'
    BY <1>0 DEF StartRead, HeirsAreNew, New, RecOpen
  <2>6. QED
    BY <2>3, <2>4, <2>5
<1>1. CASE StartCreate(c)
  <2>0. New = {} /\ UNCHANGED rec
    BY <1>1, ClosedRecovery DEF StartCreate
  <2>1. PICK n \in Jobs :
          /\ jobs' = [j \in Jobs |-> CASE j = n -> NewJob(api[c].kind)
                                       [] j \in api[c].read -> [jobs[j] EXCEPT !.st = "failed"]
                                       [] OTHER -> jobs[j]]
          /\ api' = [api EXCEPT ![c] = [NoCall EXCEPT !.pc = "send", !.job = n]]
    BY <1>1 DEF StartCreate
  <2>2. api[c].kind \in Kinds
    BY DEF TypeOK, Call
  <2>3. api' \in [Clients -> Call]
    BY <2>1, CallWrites DEF TypeOK
  <2>4. jobs' \in [Jobs -> Job]
    BY <2>1, <2>2, JobWrites DEF TypeOK
  <2>5. kb' \in KbRow
    BY <1>1, BaseTyped DEF StartCreate, KbStatuses
  <2>6. src' \in [Sources -> SourceStatuses]
    BY <1>1, SourceWrites DEF StartCreate, TypeOK
  <2>7. TypeOK'
    BY <1>1, <2>3, <2>4, <2>5, <2>6 DEF StartCreate, TypeOK, broker
  <2>8. WellFormed'
    BY <1>1, <2>1 DEF StartCreate, TypeOK, WellFormed, NoCall
  <2>9. HeirsAreNew'
    BY <2>0 DEF HeirsAreNew, New
  <2>10. QED
    BY <2>7, <2>8, <2>9
<1>2. CASE Send(c)
  <2>0. api[c] \in Call /\ api[c].job \in Jobs
    BY <1>2 DEF Send, TypeOK, WellFormed
  <2>1. api' = [api EXCEPT ![c] = [api[c] EXCEPT !.pc = "attach"]] \/ Answer(c)
    BY <1>2 DEF Send, TypeOK
  <2>2. api' \in [Clients -> Call]
    BY <2>0, <2>1, CallWrites, AnswerKeeps DEF TypeOK
  <2>3. queue' \in [Jobs -> Nat] /\ faults' \in Nat
    BY <1>2, <2>0 DEF Send, TypeOK, Fault, NoFault
  <2>4. TypeOK'
    BY <1>2, <2>2, <2>3 DEF Send, TypeOK, base
  <2>5. \A d \in Clients : api'[d].pc \in {"send", "attach", "cancel"} => api'[d].job \in Jobs
    BY <2>0, <2>1, AnswerKeeps DEF TypeOK, WellFormed, Call
  <2>6. WellFormed' /\ HeirsAreNew'
    BY <1>2, <2>5 DEF Send, WellFormed, HeirsAreNew, New, RecOpen
  <2>7. QED
    BY <2>4, <2>6
<1>3. CASE Attach(c)
  <2>0. api[c].job \in Jobs
    BY <1>3 DEF Attach, WellFormed
  <2>1. jobs' = [jobs EXCEPT ![api[c].job] = [jobs[api[c].job] EXCEPT !.tid = TRUE, !.old = FALSE]]
    BY <1>3, <2>0 DEF Attach, TypeOK
  <2>2. jobs' \in [Jobs -> Job]
    BY <2>0, <2>1, JobWrites DEF TypeOK
  <2>3. \A j \in Jobs : jobs'[j].st = jobs[j].st
    BY <2>0, <2>1 DEF TypeOK, Job
  <2>4. Answer(c)
    BY <1>3 DEF Attach
  <2>5. TypeOK'
    BY <1>3, <2>2, <2>4, AnswerKeeps DEF Attach, TypeOK, base, broker
  <2>6. WellFormed'
    BY <1>3, <2>4, AnswerKeeps DEF Attach, WellFormed
  <2>7. HeirsAreNew'
    BY <1>3, <2>3 DEF Attach, HeirsAreNew, New, RecOpen
  <2>8. QED
    BY <2>5, <2>6, <2>7
<1>4. CASE CancelWrite(c)
  <2> DEFINE j == api[c].job
  <2>0. j \in Jobs /\ jobs[j] \in Job
    BY <1>4 DEF CancelWrite, TypeOK, WellFormed
  <2>1. New = {} /\ UNCHANGED rec
    BY <1>4, ClosedRecovery DEF CancelWrite
  <2>2. PICK r \in Job : jobs' = [jobs EXCEPT ![j] = r]
    <3>1. \/ jobs' = [jobs EXCEPT ![j] = [jobs[j] EXCEPT !.cancel = TRUE, !.old = FALSE, !.st = "cancelled"]]
          \/ jobs' = [jobs EXCEPT ![j] = [jobs[j] EXCEPT !.cancel = TRUE, !.old = FALSE]]
      BY <1>4, <2>0 DEF CancelWrite, TypeOK
    <3>2. QED
      BY <2>0, <3>1, JobWrites
  <2>3. jobs' \in [Jobs -> Job]
    BY <2>0, <2>2, JobWrites DEF TypeOK
  <2>4. revoked' \subseteq Jobs /\ kills' \subseteq Workers
    BY <1>4, <2>0 DEF CancelWrite, TypeOK, Revoke, Attached
  <2>5. kb' \in KbRow /\ src' \in [Sources -> SourceStatuses]
    BY <1>4, BaseTyped, SourceWrites DEF CancelWrite, TypeOK
  <2>6. Answer(c)
    BY <1>4 DEF CancelWrite
  <2>7. TypeOK'
    BY <1>4, <2>3, <2>4, <2>5, <2>6, AnswerKeeps DEF CancelWrite, TypeOK
  <2>8. WellFormed'
    BY <1>4, <2>6, AnswerKeeps DEF CancelWrite, WellFormed
  <2>9. QED
    BY <2>1, <2>7, <2>8 DEF HeirsAreNew, New, RecOpen
<1>5. CASE ForceWrite(c)
  <2>1. New = {} /\ UNCHANGED rec
    BY <1>5, ClosedRecovery DEF ForceWrite
  <2>2. jobs' \in [Jobs -> Job]
    BY <1>5, JobWrites DEF ForceWrite, TypeOK
  <2>3. kb' \in KbRow /\ src' \in [Sources -> SourceStatuses]
    <3>1. \/ UNCHANGED <<kb, src>>
          \/ /\ src' = Released(api[c].copy.src)
             /\ \E st \in Restored(api[c].copy.frag) : kb' = Base(api[c].copy.st, st)
      BY <1>5 DEF ForceWrite
    <3>2. QED
      BY <3>1, BaseTyped, BaseWrites, SourceWrites DEF TypeOK
  <2>4. Answer(c)
    BY <1>5 DEF ForceWrite
  <2>5. TypeOK'
    BY <1>5, <2>2, <2>3, <2>4, AnswerKeeps DEF ForceWrite, TypeOK, broker
  <2>6. WellFormed'
    BY <1>5, <2>4, AnswerKeeps DEF ForceWrite, WellFormed
  <2>7. QED
    BY <2>1, <2>5, <2>6 DEF HeirsAreNew, New, RecOpen
<1>6. QED
  BY <1>0, <1>1, <1>2, <1>3, <1>4, <1>5 DEF Answering

-----------------------------------------------------------------------------
(* Workers keep the invariant *)

\* The workers' part of WellFormed.
WorkersFormed ==
  \A w \in Workers : /\ work[w].pc # "idle" => work[w].job \in Jobs
                     /\ work[w].pc \in {"mark", "extract", "embed", "save"} => work[w].src \in Sources

\* A worker that ends its task.
LEMMA DoneKeeps ==
  ASSUME IInv, NEW w \in Workers, Done(w)
  PROVE  work' \in [Workers -> Work] /\ kills' \subseteq Workers /\ WorkersFormed'
BY WorkWrites DEF IInv, TypeOK, WellFormed, WorkersFormed, Done, Idle

\* A worker that moves on with the job it has.
LEMMA MoveKeeps ==
  ASSUME IInv, NEW w \in Workers, NEW p \in Points, p # "idle", ~On(w, "idle"),
         p \in {"mark", "extract", "embed", "save"} => work[w].src \in Sources,
         \/ work' = [work EXCEPT ![w] = [work[w] EXCEPT !.pc = p]]
         \/ work' = [work EXCEPT ![w] = [work[w] EXCEPT !.pc = p, !.held = FALSE]]
  PROVE  work' \in [Workers -> Work] /\ WorkersFormed'
<1>1. work[w] \in Work
  BY DEF IInv, TypeOK
<1>2. work' \in [Workers -> Work]
  BY <1>1, WorkWrites, ZenonT(40) DEF IInv, TypeOK
<1>3. WorkersFormed'
  <2>1. /\ work'[w].pc = p /\ work'[w].job = work[w].job /\ work'[w].src = work[w].src
        /\ \A v \in Workers : v # w => work'[v] = work[v]
    <3>1. work \in [Workers -> Work]
      BY DEF IInv, TypeOK
    <3>2. CASE work' = [work EXCEPT ![w] = [work[w] EXCEPT !.pc = p]]
      BY <1>1, <3>1, <3>2 DEF Work
    <3>3. CASE work' = [work EXCEPT ![w] = [work[w] EXCEPT !.pc = p, !.held = FALSE]]
      BY <1>1, <3>1, <3>3 DEF Work
    <3>4. QED
      BY <3>2, <3>3
  <2>2. QED
    BY <2>1 DEF IInv, WellFormed, WorkersFormed, On
<1>4. QED
  BY <1>2, <1>3

\* A step of a worker that leaves requests and the recovery alone keeps the
\* invariant if it keeps the parts it changes.
LEMMA WorkerFrame ==
  ASSUME IInv,
         kb' \in KbRow, src' \in [Sources -> SourceStatuses],
         chunks' \subseteq Sources, points' \subseteq Sources,
         jobs' \in [Jobs -> Job], queue' \in [Jobs -> Nat], kills' \subseteq Workers,
         work' \in [Workers -> Work], faults' \in Nat, WorkersFormed',
         UNCHANGED <<revoked, api, rec, calls>>,
         \A j \in New : jobs'[j].st = jobs[j].st
  PROVE  IInv'
<1>1. TypeOK'
  BY DEF IInv, TypeOK
<1>2. WellFormed'
  BY DEF IInv, WellFormed, WorkersFormed
<1>3. HeirsAreNew'
  BY DEF IInv, HeirsAreNew, New, RecOpen
<1>4. QED
  BY <1>1, <1>2, <1>3 DEF IInv

\* Faults are counted.
LEMMA FaultCounts ==
  ASSUME IInv, NoFault \/ \E k : Fault(k)
  PROVE  faults' \in Nat
BY DEF IInv, TypeOK, Fault, NoFault

LEMMA WorkerKeeps ==
  ASSUME IInv, NEW w \in Workers,
         WorkerStep(w) \/ SourceError(w) \/ Raise(w) \/ Terminated(w) \/ Crash(w)
  PROVE  IInv'
<1> DEFINE j == work[w].job
<1> USE DEF IInv
<1>0. /\ kb \in KbRow /\ work[w] \in Work /\ (j \in Jobs => jobs[j] \in Job)
      /\ Free(w) => New = {}
  BY ClosedRecovery DEF TypeOK, Free
<1>j. ~On(w, "idle") => j \in Jobs
  BY DEF On, WellFormed
<1>1. CASE Cancelled(w)
  <2>1. kb' \in KbRow
    BY <1>1, <1>0, BaseTyped DEF Cancelled, KbRow
  <2>2. jobs' \in [Jobs -> Job]
    <3>1. jobs' = jobs \/ jobs' = [jobs EXCEPT ![j] = [jobs[j] EXCEPT !.st = "cancelled"]]
      <4>1. CASE jobs[j].st = "cancelled"
        BY <1>1, <4>1 DEF Cancelled
      <4>2. CASE jobs[j].st # "cancelled"
        <5>1. jobs' = [jobs EXCEPT ![j].st = "cancelled"]
          BY <1>1, <4>2 DEF Cancelled
        <5>2. j \in Jobs
          BY <1>1, <1>j DEF Cancelled, On
        <5>3. QED
          BY <5>1, <5>2 DEF TypeOK
      <4>3. QED
        BY <4>1, <4>2
    <3>2. j \in Jobs
      BY <1>1, <1>j DEF Cancelled, On
    <3>3. QED
      BY <1>0, <3>1, <3>2, JobWrites, ZenonT(120) DEF TypeOK
  <2>3. Done(w)
    BY <1>1 DEF Cancelled
  <2>4. Free(w) /\ UNCHANGED <<chunks, points, queue, revoked, api, rec, calls, faults>>
    BY <1>1 DEF Cancelled
  <2>5. src' \in [Sources -> SourceStatuses]
    BY <1>1 DEF Cancelled, TypeOK, SourceStatuses
  <2>6. QED
    BY <1>0, <2>1, <2>2, <2>3, <2>4, <2>5, DoneKeeps, WorkerFrame DEF TypeOK
<1>2. ASSUME NEW s \in Sources, NextSource(w, s) PROVE IInv'
  <2>1. work' = [work EXCEPT ![w] = [work[w] EXCEPT !.pc = "mark", !.src = s, !.todo = @ \ {s}]]
    BY <1>2 DEF NextSource, TypeOK
  <2>2. work' \in [Workers -> Work]
    BY <1>0, <2>1, WorkWrites DEF TypeOK
  <2>3. WorkersFormed'
    BY <1>0, <1>2, <2>1 DEF NextSource, TypeOK, WellFormed, WorkersFormed, On, Work
  <2>4. UNCHANGED <<base, jobs, broker, api, rec, calls, faults>>
    BY <1>2 DEF NextSource
  <2>5. QED
    BY <1>0, <2>2, <2>3, <2>4, WorkerFrame DEF TypeOK, base, broker
<1>14. CASE Mark(w)
  <2> DEFINE s == work[w].src
  <2>1. s \in Sources
    BY <1>14 DEF Mark, On, WellFormed
  <2>2. PICK h \in BOOLEAN : work' = [work EXCEPT ![w] = [work[w] EXCEPT !.pc = "extract", !.held = h, !.seen = @ \ {s}]]
    <3>1. Stopped(j) \in BOOLEAN
      BY <1>14, <1>0, <1>j DEF Mark, On, Stopped, Job
    <3>2. QED
      BY <1>14, <3>1 DEF Mark, TypeOK
  <2>3. work' \in [Workers -> Work]
    BY <1>0, <2>1, <2>2, WorkWrites DEF TypeOK
  <2>4. WorkersFormed'
    BY <1>0, <1>14, <2>1, <2>2 DEF Mark, TypeOK, WellFormed, WorkersFormed, On, Work
  <2>5. src' \in [Sources -> SourceStatuses]
    BY <1>14 DEF Mark, TypeOK, SourceStatuses
  <2>6. UNCHANGED <<kb, chunks, points, jobs, broker, api, rec, calls, faults>>
    BY <1>14 DEF Mark
  <2>7. QED
    BY <1>0, <2>3, <2>4, <2>5, <2>6, WorkerFrame DEF TypeOK, broker
<1>3. CASE Extract(w)
  <2>1. work' = [work EXCEPT ![w] = [work[w] EXCEPT !.pc = "embed"]]
    BY <1>3 DEF Extract, TypeOK
  <2>2. work' \in [Workers -> Work] /\ WorkersFormed'
    BY <1>3, <2>1, MoveKeeps DEF Extract, On, WellFormed, Points
  <2>3. points' \subseteq Sources
    BY <1>3 DEF Extract, TypeOK
  <2>4. UNCHANGED <<kb, src, chunks, jobs, broker, api, rec, calls, faults>>
    BY <1>3 DEF Extract
  <2>5. QED
    BY <1>0, <2>2, <2>3, <2>4, WorkerFrame DEF TypeOK, broker
<1>4. CASE Embed(w)
  <2>1. work' = [work EXCEPT ![w] = [work[w] EXCEPT !.pc = "save"]]
    BY <1>4 DEF Embed, TypeOK
  <2>2. work' \in [Workers -> Work] /\ WorkersFormed'
    BY <1>4, <2>1, MoveKeeps DEF Embed, On, WellFormed, Points
  <2>3. points' \subseteq Sources
    BY <1>4 DEF Embed, TypeOK, On, WellFormed
  <2>4. UNCHANGED <<kb, src, chunks, jobs, broker, api, rec, calls, faults>>
    BY <1>4 DEF Embed
  <2>5. QED
    BY <1>0, <2>2, <2>3, <2>4, WorkerFrame DEF TypeOK, broker
<1>5. CASE Save(w)
  <2>1. work[w].src \in Sources
    BY <1>5 DEF Save, On, WellFormed
  <2>2. src' \in [Sources -> SourceStatuses] /\ chunks' \subseteq Sources
    BY <1>5, <2>1 DEF Save, TypeOK, SourceStatuses
  <2>3. \/ Done(w)
        \/ work' = [work EXCEPT ![w] = [work[w] EXCEPT !.pc = "next"]] /\ UNCHANGED kills
    BY <1>5 DEF Save, TypeOK
  <2>4. work' \in [Workers -> Work] /\ kills' \subseteq Workers /\ WorkersFormed'
    BY <1>5, <2>3, MoveKeeps, DoneKeeps DEF Save, On, Points, TypeOK
  <2>5. UNCHANGED <<kb, points, jobs, queue, revoked, api, rec, calls, faults>>
    BY <1>5 DEF Save
  <2>6. QED
    BY <1>0, <2>2, <2>4, <2>5, WorkerFrame DEF TypeOK
<1>6. CASE Decide(w)
  <2> DEFINE frag == chunks # {}
  <2>1. PICK st \in KbStatuses :
          work' = [work EXCEPT ![w] = [work[w] EXCEPT !.pc = "finish", !.frag = frag, !.final = st]]
    <3>1. PICK st \in IF ActiveJobs \ {j} # {} THEN {"processing"} ELSE Resolved(j, frag) :
            work' = [work EXCEPT ![w].pc = "finish", ![w].frag = frag, ![w].final = st]
      BY <1>6 DEF Decide
    <3>2. st \in KbStatuses
      BY <3>1, BaseWrites DEF KbStatuses
    <3>3. QED
      BY <3>1, <3>2 DEF TypeOK
  <2>2. work' \in [Workers -> Work]
    BY <1>0, <2>1, WorkWrites DEF TypeOK
  <2>3. WorkersFormed'
    BY <1>0, <1>6, <2>1 DEF Decide, TypeOK, WellFormed, WorkersFormed, On, Work
  <2>4. UNCHANGED <<base, jobs, broker, api, rec, calls, faults>>
    BY <1>6 DEF Decide
  <2>5. QED
    BY <1>0, <2>2, <2>3, <2>4, WorkerFrame DEF TypeOK, base, broker
<1>7. CASE Complete(w)
  <2>1. kb' \in KbRow
    BY <1>0, <1>7 DEF Complete, KbRow, Work
  <2>2. jobs' \in [Jobs -> Job]
    <3> DEFINE st == IF jobs[j].err THEN "partial" ELSE "completed"
    <3>1. st \in JobStatuses /\ j \in Jobs
      BY <1>7, <1>j DEF Complete, On, JobStatuses
    <3>2. CASE Stopped(j)
      BY <1>7, <3>2 DEF Complete, TypeOK
    <3>3. CASE ~Stopped(j)
      <4>1. jobs' = [jobs EXCEPT ![j].st = st, ![j].old = FALSE]
        BY <1>7, <3>3 DEF Complete
      <4>2. jobs' = [jobs EXCEPT ![j] = [jobs[j] EXCEPT !.st = st, !.old = FALSE]]
        BY <3>1, <4>1 DEF TypeOK
      <4>3. [jobs[j] EXCEPT !.st = st, !.old = FALSE] \in Job
        BY <1>0, <3>1, JobWrites
      <4>4. QED
        BY <4>2, <4>3 DEF TypeOK
    <3>4. QED
      BY <3>2, <3>3
  <2>3. Done(w) /\ Free(w)
    BY <1>7 DEF Complete
  <2>4. UNCHANGED <<src, chunks, points, queue, revoked, api, rec, calls, faults>>
    BY <1>7 DEF Complete
  <2>5. QED
    BY <1>0, <2>1, <2>2, <2>3, <2>4, DoneKeeps, WorkerFrame DEF TypeOK
<1>8. CASE Abort(w)
  <2>1. kb' \in KbRow /\ src' \in [Sources -> SourceStatuses]
    BY <1>0, <1>8, BaseTyped, SourceWrites DEF Abort, TypeOK, KbRow
  <2>2. jobs' \in [Jobs -> Job]
    <3>1. \/ jobs' = jobs
          \/ jobs' = [jobs EXCEPT ![j] = [jobs[j] EXCEPT !.st = "failed", !.err = TRUE, !.old = FALSE]]
      BY <1>8, <1>j DEF Abort, On, TypeOK
    <3>2. j \in Jobs => [jobs[j] EXCEPT !.st = "failed", !.err = TRUE, !.old = FALSE] \in Job
      <4>1. SUFFICES ASSUME j \in Jobs PROVE jobs[j] \in Job
        BY JobWrites
      <4>2. QED
        BY <1>0, <4>1 DEF TypeOK
    <3>3. jobs \in [Jobs -> Job]
      BY <1>0 DEF TypeOK
    <3>4. QED
      BY <3>1, <3>2, <3>3
  <2>3. Done(w) /\ Free(w)
    BY <1>8 DEF Abort
  <2>4. UNCHANGED <<chunks, points, queue, revoked, api, rec, calls, faults>>
    BY <1>8 DEF Abort
  <2>5. QED
    BY <1>0, <2>1, <2>2, <2>3, <2>4, DoneKeeps, WorkerFrame DEF TypeOK
<1>9. CASE SourceError(w)
  <2>1. src' \in [Sources -> SourceStatuses]
    BY <1>9 DEF SourceError, TypeOK, SourceStatuses
  <2>2. jobs' \in [Jobs -> Job]
    <3>1. jobs' = jobs \/ jobs' = [jobs EXCEPT ![j] = [jobs[j] EXCEPT !.err = TRUE]]
      BY <1>9 DEF SourceError, TypeOK
    <3>2. j \in Jobs => [jobs[j] EXCEPT !.err = TRUE] \in Job
      <4>1. SUFFICES ASSUME j \in Jobs PROVE jobs[j] \in Job
        BY JobWrites
      <4>2. QED
        BY <1>0, <4>1 DEF TypeOK
    <3>3. jobs \in [Jobs -> Job]
      BY <1>0 DEF TypeOK
    <3>4. QED
      BY <3>1, <3>2, <3>3
  <2>3. PICK p \in {"next", "abort"} :
          \/ work' = [work EXCEPT ![w] = [work[w] EXCEPT !.pc = p]]
          \/ work' = [work EXCEPT ![w] = [work[w] EXCEPT !.pc = p, !.held = FALSE]]
    BY <1>9 DEF SourceError, TypeOK
  <2>4. work' \in [Workers -> Work] /\ WorkersFormed'
    BY <1>9, <2>3, MoveKeeps DEF SourceError, On, Points
  <2>5. Free(w) /\ Fault("source") /\ UNCHANGED <<kb, chunks, points, broker, api, rec, calls>>
    BY <1>9 DEF SourceError
  <2>6. faults' \in Nat
    BY <2>5, FaultCounts
  <2>7. QED
    BY <1>0, <2>1, <2>2, <2>4, <2>5, <2>6, WorkerFrame DEF TypeOK, broker
<1>10. CASE Raise(w)
  <2>1. work' = [work EXCEPT ![w] = [work[w] EXCEPT !.pc = "abort", !.held = FALSE]]
    BY <1>10 DEF Raise, TypeOK
  <2>2. work' \in [Workers -> Work] /\ WorkersFormed'
    BY <1>10, <2>1, MoveKeeps DEF Raise, On, Points
  <2>3. Fault("raise") /\ UNCHANGED <<base, jobs, broker, api, rec, calls>>
    BY <1>10 DEF Raise
  <2>4. faults' \in Nat
    BY <2>3, FaultCounts
  <2>5. QED
    BY <1>0, <2>2, <2>3, <2>4, WorkerFrame DEF TypeOK, base, broker
<1>11. CASE Terminated(w)
  <2>1. Done(w) /\ UNCHANGED <<base, jobs, queue, revoked, api, rec, calls, faults>>
    BY <1>11 DEF Terminated
  <2>2. QED
    BY <1>0, <2>1, DoneKeeps, WorkerFrame DEF TypeOK, base
<1>12. CASE Crash(w)
  <2>1. Done(w) /\ Fault("crash") /\ UNCHANGED <<base, jobs, revoked, api, rec, calls>>
    BY <1>12 DEF Crash
  <2>2. queue' \in [Jobs -> Nat]
    BY <1>12 DEF Crash, TypeOK, On, WellFormed
  <2>3. faults' \in Nat
    BY <2>1, FaultCounts
  <2>4. QED
    BY <1>0, <2>1, <2>2, <2>3, DoneKeeps, WorkerFrame DEF TypeOK, base
<1>13. QED
  BY <1>1, <1>2, <1>3, <1>4, <1>5, <1>6, <1>7, <1>8, <1>9, <1>10, <1>11, <1>12, <1>14 DEF WorkerStep

LEMMA TakingKeeps ==
  ASSUME IInv, NEW w \in Workers, NEW j \in Jobs, Drop(w, j) \/ Begin(w, j)
  PROVE  IInv'
<1> USE DEF IInv
<1>0. kb \in KbRow /\ jobs[j] \in Job /\ (Begin(w, j) => New = {})
  BY ClosedRecovery DEF TypeOK, KbRow, Begin
<1>q. queue' \in [Jobs -> Nat]
  <2>1. queue[j] > 0 /\ queue' = [queue EXCEPT ![j] = @ - 1]
    BY DEF Drop, Begin
  <2>2. QED
    BY <2>1 DEF TypeOK
<1>1. CASE Drop(w, j)
  <2>1. UNCHANGED <<base, jobs, revoked, work, kills, api, rec, calls>> /\ (NoFault \/ Fault("early"))
    BY <1>1 DEF Drop
  <2>2. faults' \in Nat
    BY <2>1, FaultCounts
  <2>3. QED
    BY <1>0, <1>q, <2>1, <2>2, WorkerFrame DEF TypeOK, WellFormed, WorkersFormed, base
<1>2. CASE Begin(w, j)
  <2> DEFINE k == jobs[j].kind
             E == Eligible(j)
  <2>0. PICK bad \in SUBSET E, kept \in SUBSET E :
          /\ IF bad = {} THEN NoFault ELSE Fault("precheck")
          /\ jobs' = [jobs EXCEPT ![j].st = "running", ![j].old = FALSE,
                                  ![j].err = jobs[j].err \/ (k = "full" /\ bad # {})]
          /\ src' = Prechecked(E, bad, kept)
          /\ work' = [work EXCEPT ![w] =
               [Idle EXCEPT !.pc = IF k # "full" /\ bad # {} THEN "abort" ELSE "next",
                            !.job = j, !.todo = E \ bad, !.frag = kb.frag,
                            !.seen = {s \in Sources : Prechecked(E, bad, kept)[s] = "processing"}]]
    BY <1>2, ZenonT(40) DEF Begin
  <2>1. faults' \in Nat
    BY <2>0, FaultCounts
  <2>2. jobs' \in [Jobs -> Job]
    <3>1. PICK e \in BOOLEAN :
            jobs' = [jobs EXCEPT ![j] = [jobs[j] EXCEPT !.st = "running", !.old = FALSE, !.err = e]]
      BY <1>0, <2>0 DEF TypeOK, Job
    <3>2. QED
      BY <1>0, <3>1, JobWrites DEF TypeOK
  <2>3. src' \in [Sources -> SourceStatuses]
    BY <2>0 DEF TypeOK, SourceStatuses, Prechecked
  <2>4. work' \in [Workers -> Work] /\ WorkersFormed'
    <3>1. PICK p \in {"next", "abort"}, T \in SUBSET Sources, S \in SUBSET Sources :
            work' = [work EXCEPT ![w] = [Idle EXCEPT !.pc = p, !.job = j, !.todo = T, !.frag = kb.frag,
                                                     !.seen = S]]
      <4>1. E \ bad \in SUBSET Sources
        BY <1>0 DEF Job, Kinds, Eligible
      <4>2. {s \in Sources : Prechecked(E, bad, kept)[s] = "processing"} \in SUBSET Sources
        OBVIOUS
      <4>3. QED
        BY <2>0, <4>1, <4>2
    <3>2. work' \in [Workers -> Work]
      BY <1>0, <3>1, WorkWrites DEF TypeOK, Points, KbRow
    <3>3. WorkersFormed'
      BY <3>1 DEF TypeOK, WellFormed, WorkersFormed, Idle
    <3>4. QED
      BY <3>2, <3>3
  <2>5. kb' \in KbRow
    BY <1>2, BaseTyped DEF Begin, KbStatuses, KbRow
  <2>6. UNCHANGED <<chunks, points, revoked, kills, api, rec, calls>>
    BY <1>2 DEF Begin
  <2>7. QED
    BY <1>0, <1>2, <1>q, <2>1, <2>2, <2>3, <2>4, <2>5, <2>6, WorkerFrame DEF TypeOK
<1>3. QED
  BY <1>1, <1>2

-----------------------------------------------------------------------------
(* Time, redelivery and the recovery job keep the invariant *)

LEMMA TimeKeeps ==
  ASSUME IInv, NEW j \in Jobs, Redeliver(j) \/ Age(j)
  PROVE  IInv'
<1> USE DEF IInv
<1>1. CASE Redeliver(j)
  <2>1. queue' \in [Jobs -> Nat]
    BY <1>1 DEF Redeliver, TypeOK
  <2>2. Fault("redeliver") /\ UNCHANGED <<base, jobs, revoked, work, kills, api, rec, calls>>
    BY <1>1 DEF Redeliver
  <2>3. faults' \in Nat
    BY <2>2, FaultCounts
  <2>4. QED
    BY <2>1, <2>2, <2>3, WorkerFrame DEF TypeOK, WellFormed, WorkersFormed, KbRow, base
<1>2. CASE Age(j)
  <2>1. jobs' \in [Jobs -> Job]
    <3>1. jobs' = [jobs EXCEPT ![j] = [jobs[j] EXCEPT !.old = TRUE]] /\ jobs[j] \in Job
      BY <1>2 DEF Age, TypeOK
    <3>2. QED
      BY <3>1, JobWrites DEF TypeOK
  <2>2. (NoFault \/ Fault("slow")) /\ UNCHANGED <<base, broker, work, api, rec, calls>> /\ New = {}
    BY <1>2, ClosedRecovery DEF Age
  <2>3. faults' \in Nat
    BY <2>2, FaultCounts
  <2>4. QED
    BY <2>1, <2>2, <2>3, WorkerFrame DEF TypeOK, WellFormed, WorkersFormed, KbRow, base, broker
<1>3. QED
  BY <1>1, <1>2

LEMMA RecoverReadKeeps ==
  ASSUME IInv, RecoverRead
  PROVE  IInv'
<1> USE DEF IInv
<1>1. PICK shown \in {Workers, {}}, J \in SUBSET Jobs :
        /\ IF shown = {} THEN Fault("inspect") ELSE NoFault
        /\ Revoke(Attached(J) \cup ({work[w].job : w \in shown} \ {0}))
        /\ rec' = [NoRec EXCEPT !.pc = "read", !.copy = Loaded, !.old = J]
  BY DEF RecoverRead, Lost, ActiveJobs
<1>2. rec' \in Recovery
  BY <1>1, CopyTyped DEF Recovery, NoRec
<1>3. revoked' \subseteq Jobs /\ kills' \subseteq Workers
  BY <1>1 DEF Revoke, Attached, TypeOK, Work
<1>4. faults' \in Nat
  BY <1>1, FaultCounts
<1>5. UNCHANGED <<base, jobs, queue, work, api, calls>>
  BY DEF RecoverRead
<1>6. TypeOK'
  BY <1>2, <1>3, <1>4, <1>5 DEF TypeOK, base
<1>7. WellFormed'
  BY <1>5 DEF WellFormed
<1>8. HeirsAreNew'
  BY <1>1 DEF HeirsAreNew, New, NoRec
<1>9. QED
  BY <1>6, <1>7, <1>8

LEMMA RecoverKeeps ==
  ASSUME IInv, Recover
  PROVE  IInv'
<1> USE DEF IInv
<1>1. PICK from \in [Jobs -> rec.old \cup {0}] :
        /\ IF rec.copy.gone THEN \A j \in Jobs : from[j] = 0 ELSE Replaces(from, rec.old)
        /\ rec' = [rec EXCEPT !.pc = "open", !.from = from]
        /\ queue' = [j \in Jobs |-> IF from[j] # 0 THEN queue[j] + 1 ELSE queue[j]]
  BY DEF Recover
<1>2. rec \in Recovery
  BY DEF TypeOK
<1>3. rec' \in Recovery /\ rec'.pc = "open" /\ rec'.from = from
  BY <1>1, <1>2 DEF Recovery
<1>4. queue' \in [Jobs -> Nat]
  BY <1>1 DEF TypeOK
<1>5. UNCHANGED <<base, jobs, revoked, work, kills, api, calls, faults>>
  BY DEF Recover
<1>6. TypeOK'
  BY <1>3, <1>4, <1>5 DEF TypeOK, base
<1>7. WellFormed'
  BY <1>5 DEF WellFormed
<1>8. HeirsAreNew'
  BY <1>1, <1>3, <1>5 DEF HeirsAreNew, New, RecOpen, Replaces, Unused
<1>9. QED
  BY <1>6, <1>7, <1>8

LEMMA RecoverCommitKeeps ==
  ASSUME IInv, RecoverCommit
  PROVE  IInv'
<1> USE DEF IInv
<1>1. jobs' \in [Jobs -> Job]
  <2>1. \A j \in Jobs : jobs'[j] \in Job
    <3>1. TAKE j \in Jobs
    <3>2. CASE j \in rec.old
      <4>1. jobs'[j] = [jobs[j] EXCEPT !.st = "cancelled", !.cancel = TRUE, !.old = FALSE]
        BY <3>2 DEF RecoverCommit
      <4>2. jobs[j] \in Job
        BY DEF TypeOK
      <4>3. QED
        BY <4>1, <4>2, JobWrites
    <3>3. CASE j \notin rec.old /\ j \in New
      <4>1. jobs'[j] = [NewJob(jobs[rec.from[j]].kind) EXCEPT !.tid = TRUE]
        BY <3>3 DEF RecoverCommit
      <4>2. rec.from[j] \in Jobs
        BY <3>3 DEF New, TypeOK, Recovery
      <4>3. jobs[rec.from[j]].kind \in Kinds
        BY <4>2 DEF TypeOK, Job
      <4>4. QED
        BY <4>1, <4>3, JobWrites
    <3>4. CASE j \notin rec.old /\ j \notin New
      BY <3>4 DEF RecoverCommit, TypeOK
    <3>5. QED
      BY <3>2, <3>3, <3>4
  <2>2. QED
    BY <2>1 DEF RecoverCommit
<1>2. kb' \in KbRow
  <2>1. PICK st \in {"processing", "ready", "draft"} : kb' = Base(rec.copy.st, st)
    BY DEF RecoverCommit
  <2>2. st \in KbStatuses
    BY DEF KbStatuses
  <2>3. QED
    BY <2>1, <2>2, BaseTyped
<1>3. src' \in [Sources -> SourceStatuses]
  BY SourceWrites DEF RecoverCommit, TypeOK
<1>4. rec' = NoRec
  BY DEF RecoverCommit
<1>5. TypeOK'
  <2>1. rec' \in Recovery
    BY <1>4, CopyTyped DEF NoRec, Recovery
  <2>2. UNCHANGED <<chunks, points, broker, work, api, calls, faults>>
    BY DEF RecoverCommit
  <2>3. QED
    BY <1>1, <1>2, <1>3, <2>1, <2>2 DEF TypeOK, broker
<1>6. WellFormed'
  BY DEF RecoverCommit, WellFormed
<1>7. HeirsAreNew'
  BY <1>4 DEF HeirsAreNew, New, NoRec
<1>8. QED
  BY <1>5, <1>6, <1>7

-----------------------------------------------------------------------------
(* The theorems *)

LEMMA InitIInv == Init => IInv
<1> SUFFICES ASSUME Init PROVE IInv
  OBVIOUS
<1>1. TypeOK
  BY JobWrites, WorkWrites, CallWrites, CopyTyped DEF Init, TypeOK, KbRow, KbStatuses, SourceStatuses, NoRec, Recovery
<1>2. WellFormed
  BY DEF Init, WellFormed, Idle, NoCall
<1>3. HeirsAreNew
  BY DEF Init, HeirsAreNew, New, NoRec
<1>4. QED
  BY <1>1, <1>2, <1>3 DEF IInv

LEMMA NextIInv == IInv /\ [Next]_vars => IInv'
<1> SUFFICES ASSUME IInv, [Next]_vars PROVE IInv'
  OBVIOUS
<1>1. ASSUME NEW c \in Clients, Asking(c) PROVE IInv'
  BY <1>1, AskingKeeps
<1>2. ASSUME NEW c \in Clients, Answering(c) PROVE IInv'
  BY <1>2, AnsweringKeeps
<1>3. ASSUME NEW w \in Workers,
             WorkerStep(w) \/ SourceError(w) \/ Raise(w) \/ Terminated(w) \/ Crash(w)
      PROVE  IInv'
  BY <1>3, WorkerKeeps
<1>4. ASSUME NEW w \in Workers, NEW j \in Jobs, Drop(w, j) \/ Begin(w, j) PROVE IInv'
  BY <1>4, TakingKeeps
<1>5. ASSUME NEW j \in Jobs, Redeliver(j) \/ Age(j) PROVE IInv'
  BY <1>5, TimeKeeps
<1>9. CASE RecoverRead
  BY <1>9, RecoverReadKeeps
<1>6. CASE Recover
  BY <1>6, RecoverKeeps
<1>7. CASE RecoverCommit
  BY <1>7, RecoverCommitKeeps
<1>8. CASE UNCHANGED vars
  BY <1>8 DEF IInv, TypeOK, WellFormed, HeirsAreNew, New, RecOpen, vars
<1>10. QED
  BY <1>1, <1>2, <1>3, <1>4, <1>5, <1>6, <1>7, <1>8, <1>9 DEF Next

\* The inductive invariant holds in every reachable state.
THEOREM Inductive == Spec => []IInv
<1>1. QED
  BY InitIInv, NextIInv, PTL DEF Spec

\* Base, sources, jobs, messages, workers, requests and the open recovery stay
\* in range through every interleaving, crash, signal and redelivery.
THEOREM TypeCorrect == Spec => []TypeOK
<1>1. IInv => TypeOK
  BY DEF IInv
<1>2. QED
  BY <1>1, Inductive, PTL

-----------------------------------------------------------------------------
(* Stops *)

\* The jobs that workers execute, requests name or have read and the recovery
\* takes over exist, and a job is stopped exactly if that is recorded in its row.
NamesExist ==
  /\ \A w \in Workers : work[w].pc # "idle" => jobs[work[w].job].st # "absent"
  /\ \A c \in Clients : /\ api[c].pc \in {"send", "attach", "cancel"} => jobs[api[c].job].st # "absent"
                        /\ \A j \in api[c].read : jobs[j].st # "absent"
  /\ \A j \in rec.old : jobs[j].st # "absent"
  /\ \A j \in Jobs : /\ jobs[j].cancel => jobs[j].st # "absent"
                     /\ jobs[j].st = "cancelled" => jobs[j].cancel

\* What a step may do to a job.
Lives(j) ==
  /\ jobs[j].st # "absent" => jobs'[j].st # "absent" /\ jobs'[j].kind = jobs[j].kind
  /\ jobs[j].cancel => jobs'[j].cancel /\ jobs'[j].st \in {jobs[j].st, "cancelled", "failed"}
  /\ jobs'[j].cancel => jobs'[j].st # "absent"
  /\ jobs'[j].st = "cancelled" => jobs'[j].cancel

LEMMA JobSteps ==
  ASSUME IInv, NamesExist, [Next]_vars, NEW j \in Jobs
  PROVE  Lives(j)
<1> USE DEF IInv
<1>0. /\ jobs \in [Jobs -> Job] /\ jobs[j] \in Job
      /\ \A k : /\ NewJob(k).st = "queued" /\ ~NewJob(k).cancel /\ NewJob(k).kind = k
                /\ [NewJob(k) EXCEPT !.tid = TRUE].st = "queued"
                /\ ~[NewJob(k) EXCEPT !.tid = TRUE].cancel
  BY DEF TypeOK, NewJob, NoJob
<1>n. /\ jobs[j].cancel => jobs[j].st # "absent"
      /\ jobs[j].st = "cancelled" => jobs[j].cancel
      /\ j \in New \/ NextNumber(j) => jobs[j].st = "absent"
  BY DEF NamesExist, HeirsAreNew, NextNumber, Unused
<1>k. jobs'[j] = jobs[j] => Lives(j)
  BY <1>n DEF Lives
<1>1. ASSUME NEW c \in Clients, Asking(c) PROVE Lives(j)
  <2>1. ASSUME NEW k \in Retries, Reindex(c, k) PROVE Lives(j)
    <3>1. PICK n \in Jobs : NextNumber(n) /\ jobs' = [jobs EXCEPT ![n] = NewJob(k)]
      BY <2>1 DEF Reindex
    <3>2. CASE n = j
      <4>1. jobs'[j] = NewJob(k) /\ jobs[j].st = "absent"
        BY <1>0, <1>n, <3>1, <3>2
      <4>2. QED
        BY <1>0, <1>n, <4>1 DEF Lives
    <3>3. CASE n # j
      BY <1>0, <1>k, <3>1, <3>3
    <3>4. QED
      BY <3>2, <3>3
  <2>2. CASE \A k \in Retries : ~Reindex(c, k)
    <3>1. jobs' = jobs
      BY <1>1, <2>2 DEF Asking, StartCheck, CancelRead, ForceRead, Archive, ConfirmReview, Exclude
    <3>2. QED
      BY <1>k, <3>1
  <2>3. QED
    BY <2>1, <2>2
<1>2. ASSUME NEW c \in Clients, Answering(c) PROVE Lives(j)
  <2>0. CASE StartRead(c) \/ Send(c)
    BY <1>k, <2>0 DEF StartRead, Send
  <2>1. CASE StartCreate(c)
    <3>1. PICK n \in Jobs :
            /\ NextNumber(n)
            /\ jobs' = [i \in Jobs |-> CASE i = n -> NewJob(api[c].kind)
                                         [] i \in api[c].read -> [jobs[i] EXCEPT !.st = "failed"]
                                         [] OTHER -> jobs[i]]
      BY <2>1 DEF StartCreate
    <3>2. CASE n = j
      <4>1. NextNumber(j)
        BY <3>1, <3>2
      <4>2. jobs[j].st = "absent" /\ j \notin api[c].read
        BY <1>n, <4>1 DEF NamesExist
      <4>3. jobs'[j] = NewJob(api[c].kind)
        BY <3>1, <3>2, <4>2
      <4>4. QED
        BY <1>0, <1>n, <4>2, <4>3 DEF Lives
    <3>3. CASE n # j /\ j \in api[c].read
      <4>1. jobs'[j] = [jobs[j] EXCEPT !.st = "failed"]
        BY <3>1, <3>3
      <4>2. QED
        BY <1>0, <1>n, <4>1 DEF Lives, Job
    <3>4. CASE n # j /\ j \notin api[c].read
      <4>1. jobs'[j] = jobs[j]
        BY <3>1, <3>4
      <4>2. QED
        BY <1>k, <4>1
    <3>5. QED
      BY <3>2, <3>3, <3>4
  <2>3. CASE Attach(c)
    BY <1>0, <1>n, <2>3 DEF Attach, Lives, TypeOK, Job
  <2>4. CASE CancelWrite(c)
    <3>1. jobs[api[c].job].st # "absent"
      BY <2>4 DEF CancelWrite, NamesExist
    <3>2. QED
      BY <1>0, <1>n, <2>4, <3>1 DEF CancelWrite, Lives, Job
  <2>5. CASE ForceWrite(c)
    <3>1. CASE j \in api[c].read
      <4>1. jobs'[j] = [jobs[j] EXCEPT !.st = "cancelled", !.cancel = TRUE, !.old = FALSE]
        BY <2>5, <3>1 DEF ForceWrite
      <4>2. QED
        BY <1>0, <4>1 DEF Lives, Job
    <3>2. CASE j \notin api[c].read
      BY <1>k, <2>5, <3>2 DEF ForceWrite
    <3>3. QED
      BY <3>1, <3>2
  <2>6. QED
    BY <1>2, <2>0, <2>1, <2>3, <2>4, <2>5 DEF Answering
<1>3. ASSUME NEW w \in Workers,
             WorkerStep(w) \/ SourceError(w) \/ Raise(w) \/ Terminated(w) \/ Crash(w)
      PROVE  Lives(j)
  <2>1. CASE Cancelled(w)
    <3>1. work[w].job \in Jobs /\ Stopped(work[w].job)
      BY <2>1 DEF Cancelled, On, WellFormed
    <3>2. jobs' = jobs \/ jobs' = [jobs EXCEPT ![work[w].job].st = "cancelled"]
      BY <2>1 DEF Cancelled
    <3>3. jobs[work[w].job].cancel
      BY <3>1 DEF NamesExist, Stopped
    <3>4. QED
      BY <1>0, <1>n, <3>1, <3>2, <3>3 DEF Lives, Job
  <2>2. CASE Complete(w)
    <3>1. jobs[work[w].job].st # "absent"
      BY <2>2 DEF Complete, On, NamesExist
    <3>2. CASE Stopped(work[w].job) \/ j # work[w].job
      BY <1>0, <1>k, <2>2, <3>2 DEF Complete
    <3>3. CASE ~Stopped(work[w].job) /\ j = work[w].job
      <4>1. PICK st \in {"partial", "completed"} : jobs'[j] = [jobs[j] EXCEPT !.st = st, !.old = FALSE]
        BY <1>0, <2>2, <3>3 DEF Complete
      <4>2. ~jobs[j].cancel
        BY <3>3 DEF Stopped
      <4>3. QED
        BY <1>0, <3>1, <3>3, <4>1, <4>2 DEF Lives, Job
    <3>4. QED
      BY <3>2, <3>3
  <2>3. CASE Abort(w)
    BY <1>0, <1>n, <2>3 DEF Abort, Stopped, Lives, TypeOK, Job
  <2>4. CASE SourceError(w)
    BY <1>0, <1>n, <2>4 DEF SourceError, Lives, TypeOK, Job
  <2>5. CASE ~(Cancelled(w) \/ Complete(w) \/ Abort(w) \/ SourceError(w))
    <3>1. jobs' = jobs
      BY <1>3, <2>5 DEF WorkerStep, NextSource, Mark, Extract, Embed, Save, Decide, Raise, Terminated, Crash
    <3>2. QED
      BY <1>k, <3>1
  <2>6. QED
    BY <2>1, <2>2, <2>3, <2>4, <2>5
<1>4. ASSUME NEW w \in Workers, NEW i \in Jobs, Drop(w, i) \/ Begin(w, i)
      PROVE  Lives(j)
  <2>1. CASE Drop(w, i)
    BY <1>k, <2>1 DEF Drop
  <2>2. CASE Begin(w, i)
    <3>1. PICK e : jobs' = [jobs EXCEPT ![i].st = "running", ![i].old = FALSE, ![i].err = e]
      BY <2>2, SMTT(30) DEF Begin
    <3>2. ~Stopped(i) /\ jobs[i].st # "absent"
      BY <2>2 DEF Begin
    <3>3. QED
      BY <1>0, <1>n, <3>1, <3>2 DEF Stopped, Lives, Job
  <2>3. QED
    BY <1>4, <2>1, <2>2
<1>5. ASSUME NEW i \in Jobs, Redeliver(i) \/ Age(i) PROVE Lives(j)
  BY <1>0, <1>n, <1>5 DEF Redeliver, Age, Lives, TypeOK, Job
<1>6. CASE RecoverRead \/ Recover
  BY <1>k, <1>6 DEF RecoverRead, Recover
<1>7. CASE RecoverCommit
  <2>1. CASE j \in rec.old
    <3>1. jobs'[j] = [jobs[j] EXCEPT !.st = "cancelled", !.cancel = TRUE, !.old = FALSE]
      BY <1>7, <2>1 DEF RecoverCommit
    <3>2. QED
      BY <1>0, <3>1 DEF Lives, Job
  <2>2. CASE j \notin rec.old /\ j \in New
    <3>1. jobs'[j] = [NewJob(jobs[rec.from[j]].kind) EXCEPT !.tid = TRUE]
      BY <1>7, <2>2 DEF RecoverCommit
    <3>2. QED
      BY <1>0, <1>n, <2>2, <3>1 DEF Lives
  <2>3. CASE j \notin rec.old /\ j \notin New
    BY <1>k, <1>7, <2>3 DEF RecoverCommit
  <2>4. QED
    BY <2>1, <2>2, <2>3
<1>8. CASE UNCHANGED vars
  BY <1>k, <1>8 DEF vars
<1>9. QED
  BY <1>1, <1>2, <1>3, <1>4, <1>5, <1>6, <1>7, <1>8 DEF Next

\* A worker that takes no task ends the one it has or goes on with its job.
LEMMA WorkerMoves ==
  ASSUME IInv, NEW w \in Workers,
         WorkerStep(w) \/ SourceError(w) \/ Raise(w) \/ Terminated(w) \/ Crash(w)
  PROVE  \/ Done(w)
         \/ /\ work[w].pc # "idle" /\ work'[w].job = work[w].job
            /\ \A v \in Workers \ {w} : work'[v] = work[v]
<1>0. work \in [Workers -> Work]
  BY DEF IInv, TypeOK
<1>1. CASE Cancelled(w) \/ Complete(w) \/ Abort(w) \/ Terminated(w) \/ Crash(w)
  BY <1>1 DEF Cancelled, Complete, Abort, Terminated, Crash
<1>2. ASSUME NEW s \in Sources, NextSource(w, s) PROVE work[w].pc # "idle" /\ work'[w].job = work[w].job
  BY <1>0, <1>2 DEF NextSource, On, Work
<1>3. CASE Mark(w)
  BY <1>0, <1>3 DEF Mark, On, Work
<1>4. CASE Extract(w) \/ Embed(w)
  BY <1>0, <1>4 DEF Extract, Embed, On, Work
<1>5. CASE Raise(w)
  BY <1>0, <1>5 DEF Raise, Work
<1>6. CASE SourceError(w)
  BY <1>0, <1>6 DEF SourceError, Work
<1>7. CASE Save(w) /\ ~Done(w)
  BY <1>0, <1>7 DEF Save, On, Work
<1>8. CASE Decide(w)
  <2>1. PICK st : work' = [work EXCEPT ![w].pc = "finish", ![w].frag = (chunks # {}), ![w].final = st]
    BY <1>8 DEF Decide
  <2>2. work'[w].job = work[w].job /\ \A v \in Workers \ {w} : work'[v] = work[v]
    BY <1>0, <2>1 DEF Work
  <2>3. work[w].pc # "idle"
    BY <1>8 DEF Decide, On
  <2>4. QED
    BY <2>2, <2>3
<1>9. (\E s \in Sources : NextSource(w, s)) => \A v \in Workers \ {w} : work'[v] = work[v]
  BY <1>0 DEF NextSource
<1>10. QED
  BY <1>1, <1>2, <1>3, <1>4, <1>5, <1>6, <1>7, <1>8, <1>9 DEF WorkerStep

\* What workers, requests and the recovery name after a step they named before,
\* or it existed before, or it is created by the step.
LEMMA NamesKept ==
  ASSUME IInv, NamesExist, [Next]_vars
  PROVE  NamesExist'
<1> USE DEF IInv
<1>0. /\ \A j \in Jobs : Lives(j)
      /\ jobs \in [Jobs -> Job] /\ api \in [Clients -> Call] /\ work \in [Workers -> Work]
      /\ rec.old \subseteq Jobs /\ \A c \in Clients : api[c].read \subseteq Jobs
      /\ \A w \in Workers : work[w].pc # "idle" => work[w].job \in Jobs
  BY JobSteps DEF TypeOK, Recovery, Call, WellFormed
<1>f. ASSUME \A w \in Workers : \/ work'[w].pc = "idle"
                                \/ work'[w].job = work[w].job /\ work[w].pc # "idle"
                                \/ work'[w].job \in Jobs /\ jobs[work'[w].job].st # "absent",
             \A c \in Clients :
               /\ api'[c].pc \in {"send", "attach", "cancel"} =>
                    \/ api'[c].job = api[c].job /\ api[c].pc \in {"send", "attach", "cancel"}
                    \/ api'[c].job \in Jobs /\ jobs'[api'[c].job].st # "absent"
               /\ \A j \in api'[c].read : j \in api[c].read \/ (j \in Jobs /\ jobs[j].st # "absent"),
             \A j \in rec'.old : j \in rec.old \/ (j \in Jobs /\ jobs[j].st # "absent")
      PROVE  NamesExist'
  <2>1. \A w \in Workers : work'[w].pc # "idle" => jobs'[work'[w].job].st # "absent"
    BY <1>0, <1>f DEF NamesExist, Lives
  <2>2. \A c \in Clients : /\ api'[c].pc \in {"send", "attach", "cancel"} => jobs'[api'[c].job].st # "absent"
                           /\ \A j \in api'[c].read : jobs'[j].st # "absent"
    BY <1>0, <1>f DEF NamesExist, Lives, WellFormed
  <2>3. \A j \in rec'.old : jobs'[j].st # "absent"
    BY <1>0, <1>f DEF NamesExist, Lives
  <2>4. \A j \in Jobs : (jobs'[j].cancel => jobs'[j].st # "absent") /\ (jobs'[j].st = "cancelled" => jobs'[j].cancel)
    BY <1>0 DEF Lives
  <2>5. QED
    BY <2>1, <2>2, <2>3, <2>4 DEF NamesExist
<1>w. UNCHANGED work => \A w \in Workers : work'[w].pc = "idle" \/ (work'[w].job = work[w].job /\ work[w].pc # "idle")
  OBVIOUS
<1>a. UNCHANGED api => \A c \in Clients :
        /\ api'[c].pc \in {"send", "attach", "cancel"} =>
             api'[c].job = api[c].job /\ api[c].pc \in {"send", "attach", "cancel"}
        /\ \A j \in api'[c].read : j \in api[c].read
  OBVIOUS
<1>1. ASSUME NEW c \in Clients, Asking(c) \/ Answering(c) PROVE NamesExist'
  <2>1. UNCHANGED <<work, rec>>
    BY <1>1 DEF Asking, Answering, StartCheck, Reindex, CancelRead, ForceRead, Archive, ConfirmReview,
         Exclude, StartRead, StartCreate, Send, Attach, CancelWrite, ForceWrite
  <2>2. ASSUME \A d \in Clients \ {c} : api'[d] = api[d],
               api'[c].pc \in {"send", "attach", "cancel"} =>
                 \/ api'[c].job = api[c].job /\ api[c].pc \in {"send", "attach", "cancel"}
                 \/ api'[c].job \in Jobs /\ jobs'[api'[c].job].st # "absent",
               \A j \in api'[c].read : j \in api[c].read \/ (j \in Jobs /\ jobs[j].st # "absent")
        PROVE  NamesExist'
    <3>1. \A d \in Clients :
            /\ api'[d].pc \in {"send", "attach", "cancel"} =>
                 \/ api'[d].job = api[d].job /\ api[d].pc \in {"send", "attach", "cancel"}
                 \/ api'[d].job \in Jobs /\ jobs'[api'[d].job].st # "absent"
            /\ \A j \in api'[d].read : j \in api[d].read \/ (j \in Jobs /\ jobs[j].st # "absent")
      BY <2>2
    <3>2. /\ \A j \in rec'.old : j \in rec.old
          /\ \A w \in Workers : work'[w].pc = "idle" \/ (work'[w].job = work[w].job /\ work[w].pc # "idle")
      BY <2>1
    <3>3. QED
      BY <1>f, <3>1, <3>2
  <2>3. CASE UNCHANGED api
    BY <2>2, <2>3
  <2>4. CASE Answer(c)
    BY <1>0, <2>2, <2>4 DEF Answer, NoCall
  <2>5. ASSUME NEW k \in Starts, StartCheck(c, k) PROVE NamesExist'
    <3>1. api' = [api EXCEPT ![c] = [NoCall EXCEPT !.pc = "check", !.copy = Loaded, !.kind = k]]
      BY <2>5 DEF StartCheck
    <3>2. QED
      BY <1>0, <2>2, <3>1 DEF NoCall
  <2>6. ASSUME NEW k \in Retries, Reindex(c, k) PROVE NamesExist'
    <3>1. PICK n \in Jobs : /\ jobs' = [jobs EXCEPT ![n] = NewJob(k)]
                            /\ api' = [api EXCEPT ![c] = [NoCall EXCEPT !.pc = "send", !.job = n]]
      BY <2>6 DEF Reindex
    <3>2. jobs'[n].st # "absent"
      BY <1>0, <3>1 DEF NewJob, NoJob
    <3>3. QED
      BY <1>0, <2>2, <3>1, <3>2 DEF NoCall
  <2>7. CASE CancelRead(c)
    <3>1. PICK j \in ActiveJobs : api' = [api EXCEPT ![c] = [NoCall EXCEPT !.pc = "cancel", !.job = j,
                                                               !.queued = jobs[j].st = "queued"]]
      BY <2>7 DEF CancelRead
    <3>2. j \in Jobs /\ jobs'[j].st # "absent"
      BY <1>0, <2>7, <3>1 DEF CancelRead, ActiveJobs, Active
    <3>3. QED
      BY <1>0, <2>2, <3>1, <3>2 DEF NoCall
  <2>8. CASE ForceRead(c)
    <3>1. api' = [api EXCEPT ![c] = [NoCall EXCEPT !.pc = "force", !.copy = Loaded, !.read = ActiveJobs]]
      BY <2>8 DEF ForceRead
    <3>2. \A j \in ActiveJobs : j \in Jobs /\ jobs[j].st # "absent"
      BY DEF ActiveJobs, Active
    <3>3. QED
      BY <1>0, <2>2, <3>1, <3>2 DEF NoCall
  <2>9. CASE StartRead(c)
    <3>1. /\ api'[c].pc = "create" /\ api'[c].read = {j \in Jobs : jobs[j].st = "queued"}
          /\ \A d \in Clients \ {c} : api'[d] = api[d]
      BY <1>0, <2>9 DEF StartRead, Call
    <3>2. QED
      BY <2>2, <3>1
  <2>10. CASE StartCreate(c)
    <3>1. PICK n \in Jobs :
            /\ jobs' = [j \in Jobs |-> CASE j = n -> NewJob(api[c].kind)
                                         [] j \in api[c].read -> [jobs[j] EXCEPT !.st = "failed"]
                                         [] OTHER -> jobs[j]]
            /\ api' = [api EXCEPT ![c] = [NoCall EXCEPT !.pc = "send", !.job = n]]
      BY <2>10 DEF StartCreate
    <3>2. jobs'[n].st # "absent"
      BY <3>1 DEF NewJob, NoJob
    <3>3. QED
      BY <1>0, <2>2, <3>1, <3>2 DEF NoCall
  <2>11. CASE Send(c) /\ ~Answer(c)
    <3>1. /\ api'[c].pc = "attach" /\ api'[c].job = api[c].job /\ api'[c].read = api[c].read
          /\ api[c].pc = "send" /\ \A d \in Clients \ {c} : api'[d] = api[d]
      BY <1>0, <2>11 DEF Send, Call
    <3>2. QED
      BY <2>2, <3>1
  <2>12. QED
    BY <1>1, <2>3, <2>4, <2>5, <2>6, <2>7, <2>8, <2>9, <2>10, <2>11
       DEF Asking, Answering, Archive, ConfirmReview, Exclude, Attach, CancelWrite, ForceWrite
<1>2. ASSUME NEW w \in Workers,
             WorkerStep(w) \/ SourceError(w) \/ Raise(w) \/ Terminated(w) \/ Crash(w)
      PROVE  NamesExist'
  <2>1. UNCHANGED <<api, rec>>
    BY <1>2 DEF WorkerStep, Cancelled, NextSource, Mark, Extract, Embed, Save, Decide, Complete, Abort,
         SourceError, Raise, Terminated, Crash
  <2>2. Done(w) => \A v \in Workers : work'[v].pc = "idle" \/ (work'[v].job = work[v].job /\ work[v].pc # "idle")
    BY <1>0 DEF Done, Idle
  <2>3. Done(w) \/ (work[w].pc # "idle" /\ work'[w].job = work[w].job /\ \A v \in Workers \ {w} : work'[v] = work[v])
    BY <1>0, WorkerMoves, <1>2
  <2>4. QED
    BY <1>f, <1>a, <2>1, <2>2, <2>3
<1>3. ASSUME NEW w \in Workers, NEW j \in Jobs, Drop(w, j) \/ Begin(w, j) PROVE NamesExist'
  <2>1. CASE Drop(w, j)
    BY <1>f, <1>w, <1>a, <2>1 DEF Drop
  <2>2. CASE Begin(w, j)
    <3> DEFINE k == jobs[j].kind
               E == Eligible(j)
    <3>0. PICK bad \in SUBSET E, kept \in SUBSET E :
            work' = [work EXCEPT ![w] =
              [Idle EXCEPT !.pc = IF k # "full" /\ bad # {} THEN "abort" ELSE "next",
                           !.job = j, !.todo = E \ bad, !.frag = kb.frag,
                           !.seen = {s \in Sources : Prechecked(E, bad, kept)[s] = "processing"}]]
      BY <2>2, ZenonT(40) DEF Begin
    <3>1. work'[w].job = j /\ \A v \in Workers \ {w} : work'[v] = work[v]
      BY <1>0, <3>0 DEF Idle
    <3>2. jobs[j].st # "absent" /\ UNCHANGED <<api, rec>>
      BY <2>2 DEF Begin
    <3>3. \A v \in Workers : \/ work'[v].pc = "idle"
                             \/ work'[v].job = work[v].job /\ work[v].pc # "idle"
                             \/ work'[v].job \in Jobs /\ jobs[work'[v].job].st # "absent"
      BY <1>0, <3>1, <3>2
    <3>4. QED
      BY <1>f, <1>a, <3>2, <3>3
  <2>3. QED
    BY <1>3, <2>1, <2>2
<1>4. ASSUME NEW j \in Jobs, Redeliver(j) \/ Age(j) PROVE NamesExist'
  BY <1>f, <1>w, <1>a, <1>4 DEF Redeliver, Age
<1>5. CASE RecoverRead
  <2>1. \A j \in rec'.old : j \in Jobs /\ jobs[j].st # "absent"
    BY <1>5 DEF RecoverRead, NoRec, Lost, ActiveJobs, Active
  <2>2. QED
    BY <1>f, <1>w, <1>a, <1>5, <2>1 DEF RecoverRead
<1>6. CASE Recover
  <2>1. rec'.old = rec.old
    BY <1>6 DEF Recover, TypeOK, Recovery
  <2>2. QED
    BY <1>f, <1>w, <1>a, <1>6, <2>1 DEF Recover
<1>7. CASE RecoverCommit
  BY <1>f, <1>w, <1>a, <1>7 DEF RecoverCommit, NoRec
<1>8. CASE UNCHANGED vars
  BY <1>f, <1>w, <1>a, <1>8 DEF vars
<1>9. QED
  BY <1>1, <1>2, <1>3, <1>4, <1>5, <1>6, <1>7, <1>8 DEF Next

LEMMA NamesAlways == Spec => []NamesExist
<1>1. Init => NamesExist
  BY DEF Init, NamesExist, NoJob, Idle, NoCall, NoRec
<1>2. QED
  BY <1>1, NamesKept, Inductive, PTL DEF Spec

\* Whoever writes last - a client over jobs it has read as queued, a worker that
\* is about to finish, another worker on the same job, or the recovery over its
\* open transaction - a job whose stop is recorded does not run or complete.
THEOREM StopsAreFinal == Spec => StopIsFinal
<1>1. IInv /\ NamesExist /\ [Next]_vars =>
        [\A j \in Jobs : jobs[j].cancel => /\ jobs'[j].cancel
                                           /\ jobs'[j].st \in {jobs[j].st, "cancelled", "failed"}]_vars
  BY JobSteps DEF Lives
<1>2. QED
  BY <1>1, Inductive, NamesAlways, PTL DEF Spec, StopIsFinal

-----------------------------------------------------------------------------
(* One worker: the search index *)

OneWorker == \A v, w \in Workers : v = w

\* The job of worker w is stopped: it may leave its source READY without points.
Given(w) == Stopped(work[w].job)

\* The job of a worker is for the source it works on and for those to come.
ForSources ==
  \A w \in Workers : work[w].pc # "idle" /\ JobOf(w).kind # "full" =>
    /\ work[w].todo \subseteq {JobOf(w).kind}
    /\ work[w].pc \in {"mark", "extract", "embed", "save"} => work[w].src = JobOf(w).kind

\* While its points are being replaced a source is not shown as READY, unless
\* the job is stopped, and when the worker is about to show it they are there.
SearchInv ==
  /\ ReadyIsSearchable
  /\ ForSources
  /\ \A w \in Workers : /\ work[w].pc \in {"extract", "embed"} => src[work[w].src] # "ready" \/ Given(w)
                        /\ work[w].pc = "save" => work[w].src \in points
                        /\ \A s \in work[w].seen : src[s] # "ready"
                        /\ work[w].pc \in {"extract", "embed", "save"} => work[w].src \notin work[w].seen

\* A job that is stopped stays so, and is for the same sources.
LEMMA StoppedStays ==
  ASSUME NamesExist, \A j \in Jobs : Lives(j)
  PROVE  \A j \in Jobs : /\ Stopped(j) => jobs'[j].cancel /\ jobs'[j].kind = jobs[j].kind
                         /\ jobs[j].st # "absent" => jobs'[j].kind = jobs[j].kind
BY DEF NamesExist, Lives, Stopped

\* A source that may be READY without points may still be so after a step.
LEMMA ReadyKept ==
  ASSUME NamesExist, \A j \in Jobs : Lives(j),
         \A s \in Sources : src'[s] = "ready" /\ s \notin points' =>
           \/ src[s] = "ready" /\ s \notin points
           \/ \E j \in Jobs : Stopped(j) /\ jobs[j].kind \in {s, "full"},
         ReadyIsSearchable
  PROVE  ReadyIsSearchable'
<1> SUFFICES ASSUME NEW s \in Sources, src'[s] = "ready", s \notin points'
             PROVE  \E j \in Jobs : Stopped(j)' /\ jobs'[j].kind \in {s, "full"}
  BY DEF ReadyIsSearchable, Stopped
<1>1. PICK j \in Jobs : Stopped(j) /\ jobs[j].kind \in {s, "full"}
  BY DEF ReadyIsSearchable
<1>2. jobs'[j].cancel /\ jobs'[j].kind = jobs[j].kind
  BY <1>1, StoppedStays
<1>3. QED
  BY <1>1, <1>2 DEF Stopped

\* Steps that replace no points and make no source READY.
LEMMA SearchFrame ==
  ASSUME IInv, NamesExist, \A j \in Jobs : Lives(j), SearchInv, UNCHANGED points,
         \A s \in Sources : src'[s] = "ready" => src[s] = "ready",
         \A w \in Workers :
           \/ work'[w] = work[w]
           \/ work'[w].pc = "idle" /\ work'[w].seen = {}
           \/ /\ work[w].pc # "idle" /\ work'[w].pc \in {"next", "finish", "abort"}
              /\ work'[w].job = work[w].job
              /\ work'[w].todo \subseteq work[w].todo /\ work'[w].seen \subseteq work[w].seen
  PROVE  SearchInv'
<1>1. ReadyIsSearchable'
  BY ReadyKept DEF SearchInv
<1>2. \A w \in Workers : work[w].pc # "idle" =>
        /\ work[w].job \in Jobs /\ JobOf(w).st # "absent"
        /\ Given(w) => jobs'[work[w].job].cancel
        /\ jobs'[work[w].job].kind = JobOf(w).kind
  BY StoppedStays DEF IInv, WellFormed, NamesExist, JobOf, Given
<1>3. ForSources'
  BY <1>2 DEF SearchInv, ForSources, JobOf
<1>4. ASSUME NEW w \in Workers
      PROVE  /\ work'[w].pc \in {"extract", "embed"} => src'[work'[w].src] # "ready" \/ Given(w)'
             /\ work'[w].pc = "save" => work'[w].src \in points'
             /\ \A s \in work'[w].seen : src'[s] # "ready"
             /\ work'[w].pc \in {"extract", "embed", "save"} => work'[w].src \notin work'[w].seen
  <2>1. \A s \in work[w].seen : s \in Sources /\ src'[s] # "ready"
    BY DEF SearchInv, IInv, TypeOK, Work
  <2>2. CASE work'[w] = work[w]
    <3>1. work[w].pc \in {"extract", "embed"} => src'[work[w].src] # "ready" \/ Given(w)'
      BY <1>2, <2>2 DEF SearchInv, IInv, WellFormed, Given, Stopped
    <3>2. QED
      BY <2>1, <2>2, <3>1 DEF SearchInv
  <2>3. CASE work'[w] # work[w]
    BY <2>1, <2>3
  <2>4. QED
    BY <2>2, <2>3
<1>5. QED
  BY <1>1, <1>3, <1>4 DEF SearchInv

\* Steps of the only worker on a source.
LEMMA SearchStep ==
  ASSUME OneWorker, IInv, NamesExist, \A j \in Jobs : Lives(j), SearchInv,
         NEW w \in Workers, work[w].pc # "idle", work'[w].job = work[w].job,
         work'[w].todo \subseteq work[w].todo, work'[w].seen \subseteq work[w].seen,
         work'[w].pc \in {"mark", "extract", "embed", "save"} =>
           (work'[w].src = work[w].src /\ work[w].pc # "next") \/ work'[w].src \in work[w].todo,
         work[w].pc \in {"next", "mark", "extract", "embed", "save"},
         work'[w].pc \in {"extract", "embed"} => src'[work'[w].src] # "ready" \/ Given(w),
         work'[w].pc = "save" => work'[w].src \in points',
         \A s \in work'[w].seen : src'[s] # "ready",
         work'[w].pc \in {"extract", "embed", "save"} => work'[w].src \notin work'[w].seen,
         \A s \in Sources : src'[s] = "ready" /\ s \notin points' =>
           \/ src[s] = "ready" /\ s \notin points
           \/ \E j \in Jobs : Stopped(j) /\ jobs[j].kind \in {s, "full"}
  PROVE  SearchInv'
<1>1. ReadyIsSearchable'
  BY ReadyKept DEF SearchInv
<1>2. /\ work[w].job \in Jobs /\ JobOf(w).st # "absent"
      /\ Given(w) => jobs'[work[w].job].cancel
      /\ jobs'[work[w].job].kind = JobOf(w).kind
  BY StoppedStays DEF IInv, WellFormed, NamesExist, JobOf, Given
<1>3. \A v \in Workers : v = w
  BY DEF OneWorker
<1>4. ForSources'
  BY <1>2, <1>3 DEF SearchInv, ForSources, JobOf
<1>5. work'[w].pc \in {"extract", "embed"} => src'[work'[w].src] # "ready" \/ Given(w)'
  BY <1>2 DEF Given, Stopped
<1>6. QED
  BY <1>1, <1>3, <1>4, <1>5 DEF SearchInv

LEMMA SearchKept ==
  ASSUME OneWorker, IInv, NamesExist, SearchInv, [Next]_vars
  PROVE  SearchInv'
<1> USE DEF IInv
<1>0. src \in [Sources -> SourceStatuses] /\ work \in [Workers -> Work]
  BY DEF TypeOK
<1>l. \A j \in Jobs : Lives(j)
  BY JobSteps
<1>1. ASSUME NEW c \in Clients, Asking(c) PROVE SearchInv'
  <2>1. UNCHANGED <<points, work>>
    BY <1>1 DEF Asking, StartCheck, Reindex, CancelRead, ForceRead, Archive, ConfirmReview, Exclude, base
  <2>2. ASSUME NEW s \in Sources, Exclude(c, s) PROVE src' = [src EXCEPT ![s] = "excluded"]
    BY <2>2 DEF Exclude
  <2>3. (\A s \in Sources : ~Exclude(c, s)) => src' = src
    BY <1>1 DEF Asking, StartCheck, Reindex, CancelRead, ForceRead, Archive, ConfirmReview, base
  <2>4. \A s \in Sources : src'[s] = "ready" => src[s] = "ready"
    BY <1>0, <2>2, <2>3
  <2>5. QED
    BY <1>l, <2>1, <2>4, SearchFrame
<1>2. ASSUME NEW c \in Clients, Answering(c) PROVE SearchInv'
  <2>1. UNCHANGED <<points, work>>
    BY <1>2 DEF Answering, StartRead, StartCreate, Send, Attach, CancelWrite, ForceWrite, base
  <2>2. src' = src \/ \E b : src' = Released(b) \/ src' = Claimed(b)
    BY <1>2 DEF Answering, StartRead, StartCreate, Send, Attach, CancelWrite, ForceWrite, base
  <2>3. QED
    BY <1>0, <1>l, <2>1, <2>2, SourceWrites, SearchFrame
<1>3. ASSUME NEW w \in Workers, NEW j \in Jobs, Drop(w, j) PROVE SearchInv'
  BY <1>l, <1>3, SearchFrame DEF Drop, base
<1>4. ASSUME NEW w \in Workers, NEW j \in Jobs, Begin(w, j) PROVE SearchInv'
  <2> DEFINE k == jobs[j].kind
             E == Eligible(j)
  <2>1. PICK bad \in SUBSET E, kept \in SUBSET E :
          /\ src' = Prechecked(E, bad, kept)
          /\ work' = [work EXCEPT ![w] =
               [Idle EXCEPT !.pc = IF k # "full" /\ bad # {} THEN "abort" ELSE "next",
                            !.job = j, !.todo = E \ bad, !.frag = kb.frag,
                            !.seen = {s \in Sources : Prechecked(E, bad, kept)[s] = "processing"}]]
    BY <1>4, ZenonT(40) DEF Begin
  <2>2. /\ work'[w].pc \in {"next", "abort"} /\ work'[w].job = j /\ work'[w].todo = E \ bad
        /\ work'[w].seen = {s \in Sources : src'[s] = "processing"}
    BY <1>0, <2>1 DEF Idle
  <2>3. UNCHANGED points /\ jobs[j].st # "absent"
    BY <1>4 DEF Begin
  <2>4. \A s \in Sources : src'[s] = "ready" => src[s] = "ready"
    BY <2>1 DEF Prechecked
  <2>5. ReadyIsSearchable'
    BY <1>l, <2>3, <2>4, ReadyKept DEF SearchInv
  <2>6. jobs'[j].kind # "full" => work'[w].todo \subseteq {jobs'[j].kind}
    <3>1. jobs'[j].kind = k
      BY <1>l, <2>3, StoppedStays
    <3>2. k # "full" => E = {k}
      BY DEF Eligible
    <3>3. QED
      BY <2>2, <3>1, <3>2
  <2>7. \A v \in Workers : v = w
    BY DEF OneWorker
  <2>8. QED
    BY <2>2, <2>5, <2>6, <2>7 DEF SearchInv, ForSources, JobOf
<1>5. ASSUME NEW w \in Workers,
             Cancelled(w) \/ Complete(w) \/ Terminated(w) \/ Crash(w) \/ Abort(w)
      PROVE  SearchInv'
  <2>1. Done(w) /\ UNCHANGED points
    BY <1>5 DEF Cancelled, Complete, Terminated, Crash, Abort, base
  <2>2. \A s \in Sources : src'[s] = "ready" => src[s] = "ready"
    <3>1. CASE Cancelled(w)
      BY <1>0, <3>1 DEF Cancelled
    <3>2. CASE ~Cancelled(w)
      <4>1. src' = src \/ src' = Released(src)
        BY <1>5, <3>2 DEF Complete, Terminated, Crash, Abort, base
      <4>2. QED
        BY <1>0, <4>1, SourceWrites
    <3>3. QED
      BY <3>1, <3>2
  <2>3. \A v \in Workers : work'[v] = work[v] \/ (work'[v].pc = "idle" /\ work'[v].seen = {})
    BY <1>0, <2>1 DEF Done, Idle
  <2>4. QED
    BY <1>l, <2>1, <2>2, <2>3, SearchFrame
<1>6. ASSUME NEW w \in Workers, Decide(w) \/ Raise(w) \/ SourceError(w) PROVE SearchInv'
  <2>1. UNCHANGED points
    BY <1>6 DEF Decide, Raise, SourceError, base
  <2>2. \A s \in Sources : src'[s] = "ready" => src[s] = "ready"
    BY <1>0, <1>6 DEF Decide, Raise, SourceError, base
  <2>3. /\ work[w].pc # "idle" /\ work'[w].pc \in {"finish", "abort", "next"} /\ work'[w].job = work[w].job
        /\ work'[w].todo = work[w].todo /\ work'[w].seen = work[w].seen
        /\ \A v \in Workers \ {w} : work'[v] = work[v]
    <3>1. CASE Decide(w)
      <4>1. PICK st : work' = [work EXCEPT ![w].pc = "finish", ![w].frag = (chunks # {}), ![w].final = st]
        BY <3>1 DEF Decide
      <4>2. /\ work'[w].pc = "finish" /\ work'[w].job = work[w].job
            /\ work'[w].todo = work[w].todo /\ work'[w].seen = work[w].seen
            /\ \A v \in Workers \ {w} : work'[v] = work[v]
        BY <1>0, <4>1 DEF Work
      <4>3. work[w].pc # "idle"
        BY <3>1 DEF Decide, On
      <4>4. QED
        BY <4>2, <4>3
    <3>2. CASE Raise(w)
      BY <1>0, <3>2 DEF Raise, Work
    <3>3. CASE SourceError(w)
      <4>1. work[w].pc # "idle" /\ work[w] \in Work
        BY <1>0, <3>3 DEF SourceError
      <4>2. \/ work' = [work EXCEPT ![w].pc = "next"]
            \/ work' = [work EXCEPT ![w].pc = "abort", ![w].held = FALSE]
        BY <3>3 DEF SourceError
      <4>3. QED
        BY <1>0, <4>1, <4>2 DEF Work
    <3>4. QED
      BY <1>6, <3>1, <3>2, <3>3
  <2>4. QED
    BY <1>l, <2>1, <2>2, <2>3, SearchFrame
<1>7. ASSUME NEW w \in Workers, NEW s \in Sources, NextSource(w, s) PROVE SearchInv'
  <2>1. /\ work[w].pc = "next" /\ s \in work[w].todo /\ work'[w].pc = "mark" /\ work'[w].src = s
        /\ work'[w].job = work[w].job /\ work'[w].todo \subseteq work[w].todo /\ work'[w].seen = work[w].seen
    BY <1>0, <1>7 DEF NextSource, On, Work
  <2>2. src' = src /\ points' = points
    BY <1>7 DEF NextSource, base
  <2>3. \A r \in work'[w].seen : src'[r] # "ready"
    BY <2>1, <2>2 DEF SearchInv
  <2>4. QED
    BY <1>l, <2>1, <2>2, <2>3, SearchStep
<1>8. ASSUME NEW w \in Workers, Mark(w) PROVE SearchInv'
  <2> DEFINE s == work[w].src
  <2>1. /\ work[w].pc = "mark" /\ work'[w].pc = "extract" /\ work'[w].src = s
        /\ work'[w].job = work[w].job /\ work'[w].todo = work[w].todo /\ work'[w].seen = work[w].seen \ {s}
    BY <1>0, <1>8 DEF Mark, On, Work
  <2>2. s \in Sources /\ points' = points
    BY <1>8, <2>1 DEF Mark, WellFormed
  <2>3. src' = IF Given(w) \/ s \in work[w].seen THEN src ELSE [src EXCEPT ![s] = "processing"]
    BY <1>8 DEF Mark, Given
  <2>4. src'[s] # "ready" \/ Given(w)
    BY <1>0, <2>2, <2>3 DEF SearchInv
  <2>5. \A r \in Sources : src'[r] = "ready" => src[r] = "ready"
    BY <1>0, <2>3
  <2>6. \A r \in work'[w].seen : src'[r] # "ready"
    <3>1. \A r \in work[w].seen : r \in Sources /\ src[r] # "ready"
      BY <1>0 DEF SearchInv, Work
    <3>2. QED
      BY <2>1, <2>5, <3>1
  <2>7. QED
    BY <1>l, <2>1, <2>2, <2>4, <2>5, <2>6, SearchStep
<1>9. ASSUME NEW w \in Workers, Extract(w) \/ Embed(w) \/ Save(w) PROVE SearchInv'
  <2> DEFINE s == work[w].src
  <2>1. s \in Sources /\ s \notin work[w].seen /\ work[w].pc \in {"extract", "embed", "save"}
    BY <1>9 DEF Extract, Embed, Save, On, WellFormed, SearchInv
  <2>s. \A r \in work[w].seen : r \in Sources /\ src[r] # "ready"
    BY <1>0 DEF SearchInv, Work
  <2>2. CASE Extract(w)
    <3>1. /\ work'[w].pc = "embed" /\ work'[w].src = s /\ work'[w].job = work[w].job
          /\ work'[w].todo = work[w].todo /\ work'[w].seen = work[w].seen /\ src' = src
      BY <1>0, <2>2 DEF Extract, Work
    <3>2. (src[s] # "ready" \/ Given(w)) /\ points' = points \ {s}
      BY <2>2 DEF Extract, On, SearchInv
    <3>3. src[s] = "ready" => \E j \in Jobs : Stopped(j) /\ jobs[j].kind \in {s, "full"}
      <4>1. work[w].job \in Jobs /\ JobOf(w).kind \in {s, "full"}
        BY <2>1, <2>2 DEF Extract, On, WellFormed, SearchInv, ForSources
      <4>2. QED
        BY <3>2, <4>1 DEF Given, JobOf
    <3>4. \A r \in Sources : src'[r] = "ready" /\ r \notin points' =>
            \/ src[r] = "ready" /\ r \notin points
            \/ \E j \in Jobs : Stopped(j) /\ jobs[j].kind \in {r, "full"}
      BY <3>1, <3>2, <3>3
    <3>5. QED
      BY <1>l, <2>1, <2>s, <3>1, <3>2, <3>4, SearchStep
  <2>3. CASE Embed(w)
    <3>1. /\ work'[w].pc = "save" /\ work'[w].src = s /\ work'[w].job = work[w].job
          /\ work'[w].todo = work[w].todo /\ work'[w].seen = work[w].seen /\ src' = src
      BY <1>0, <2>3 DEF Embed, Work
    <3>2. points' = points \cup {s}
      BY <2>3 DEF Embed
    <3>3. QED
      BY <1>l, <2>1, <2>s, <3>1, <3>2, SearchStep
  <2>4. CASE Save(w)
    <3>1. s \in points /\ points' = points /\ src' = [src EXCEPT ![s] = "ready"]
      BY <2>4 DEF Save, On, SearchInv
    <3>2. \A r \in Sources : src'[r] = "ready" /\ r \notin points' => src[r] = "ready" /\ r \notin points
      BY <1>0, <3>1
    <3>3. \A r \in work[w].seen : src'[r] # "ready"
      BY <1>0, <2>1, <2>s, <3>1
    <3>4. CASE Done(w)
      <4>1. work'[w] = Idle
        BY <1>0, <3>4 DEF Done
      <4>2. ReadyIsSearchable'
        BY <1>l, <3>2, ReadyKept DEF SearchInv
      <4>3. \A v \in Workers : v = w
        BY DEF OneWorker
      <4>4. QED
        BY <4>1, <4>2, <4>3 DEF SearchInv, ForSources, Idle
    <3>5. CASE ~Done(w)
      <4>1. /\ work'[w].pc = "next" /\ work'[w].job = work[w].job
            /\ work'[w].todo = work[w].todo /\ work'[w].seen = work[w].seen
        BY <1>0, <2>4, <3>5 DEF Save, Work
      <4>2. QED
        BY <1>l, <2>1, <3>2, <3>3, <4>1, SearchStep
    <3>6. QED
      BY <3>4, <3>5
  <2>5. QED
    BY <1>9, <2>2, <2>3, <2>4
<1>10. ASSUME NEW j \in Jobs, Redeliver(j) \/ Age(j) PROVE SearchInv'
  BY <1>l, <1>10, SearchFrame DEF Redeliver, Age, base
<1>11. CASE RecoverRead \/ Recover
  BY <1>l, <1>11, SearchFrame DEF RecoverRead, Recover, base
<1>12. CASE RecoverCommit
  <2>1. UNCHANGED <<points, work>> /\ \E b : src' = Claimed(b) \/ src' = Released(b)
    BY <1>12 DEF RecoverCommit
  <2>2. QED
    BY <1>0, <1>l, <2>1, SourceWrites, SearchFrame
<1>13. CASE UNCHANGED vars
  BY <1>l, <1>13, SearchFrame DEF vars
<1>14. QED
  BY <1>1, <1>2, <1>3, <1>4, <1>5, <1>6, <1>7, <1>8, <1>9, <1>10, <1>11, <1>12, <1>13 DEF Next, WorkerStep

\* With one process on the queue a source shown as READY can be found, unless a
\* job for it was stopped: its points are deleted and written only while it is
\* shown as being processed, whatever clients and the recovery write to it.
THEOREM ReadyCanBeFound ==
  ASSUME OneWorker
  PROVE  Spec => []ReadyIsSearchable
<1>1. Init => SearchInv
  BY DEF Init, SearchInv, ReadyIsSearchable, ForSources, Idle
<1>2. IInv /\ NamesExist /\ SearchInv /\ [Next]_vars => SearchInv'
  BY OneWorker, SearchKept
<1>3. SearchInv => ReadyIsSearchable
  BY DEF SearchInv
<1>4. QED
  BY <1>1, <1>2, <1>3, Inductive, NamesAlways, PTL DEF Spec

-----------------------------------------------------------------------------
(* One worker: the base that is being processed *)

\* The base is processing and no stop has missed that.
Processing == kb.st = "processing" /\ ~kb.missed

\* When the worker is about to finish a job and to leave a base processing,
\* another job is active.
BusyInv ==
  /\ ProcessingHasJob
  /\ \A w \in Workers :
       work[w].pc = "finish" /\ work[w].final = "processing" /\ Processing =>
         ActiveJobs \ {work[w].job} # {}

\* Steps that keep the jobs' statuses and the workers, or only send them idle or
\* to a point before the end, and do not turn the base to processing.
LEMMA BusyFrame ==
  ASSUME IInv, BusyInv,
         \A j \in Jobs : jobs'[j].st = jobs[j].st,
         Processing' => Processing,
         \A w \in Workers : work'[w] = work[w] \/ work'[w].pc # "finish"
  PROVE  BusyInv'
<1>1. ActiveJobs' = ActiveJobs
  BY DEF ActiveJobs, Active
<1>2. QED
  BY <1>1 DEF BusyInv, ProcessingHasJob, Processing

\* A base that is not processing needs no job.
LEMMA BusyElsewhere ==
  ASSUME kb'.st # "processing" \/ kb'.missed
  PROVE  BusyInv'
BY DEF BusyInv, ProcessingHasJob, Processing

\* A job that is created and queued keeps the base busy.
LEMMA BusyCreated ==
  ASSUME NamesExist, NEW n \in Jobs, jobs[n].st = "absent", jobs'[n].st = "queued",
         UNCHANGED work
  PROVE  BusyInv'
<1>1. n \in ActiveJobs'
  BY DEF ActiveJobs, Active
<1>2. \A w \in Workers : work[w].pc # "idle" => work[w].job # n
  BY DEF NamesExist
<1>3. QED
  BY <1>1, <1>2 DEF BusyInv, ProcessingHasJob

LEMMA BusyByRequests ==
  ASSUME IInv, NamesExist, BusyInv, NEW c \in Clients, Asking(c) \/ Answering(c)
  PROVE  BusyInv'
<1> USE DEF IInv
<1>0. UNCHANGED <<work, rec>>
  BY DEF Asking, Answering, StartCheck, Reindex, CancelRead, ForceRead, Archive, ConfirmReview,
         Exclude, StartRead, StartCreate, Send, Attach, CancelWrite, ForceWrite
<1>1. jobs \in [Jobs -> Job] /\ kb \in KbRow
  BY DEF TypeOK
<1>2. ASSUME NEW k \in Retries, Reindex(c, k) PROVE BusyInv'
  <2>1. PICK n \in Jobs : NextNumber(n) /\ jobs' = [jobs EXCEPT ![n] = NewJob(k)]
    BY <1>2 DEF Reindex
  <2>2. jobs[n].st = "absent" /\ jobs'[n].st = "queued"
    BY <1>1, <2>1 DEF NextNumber, Unused, NewJob, NoJob
  <2>3. QED
    BY <1>0, <2>2, BusyCreated
<1>3. CASE StartCreate(c)
  <2>1. PICK n \in Jobs :
          /\ NextNumber(n)
          /\ jobs' = [j \in Jobs |-> CASE j = n -> NewJob(api[c].kind)
                                       [] j \in api[c].read -> [jobs[j] EXCEPT !.st = "failed"]
                                       [] OTHER -> jobs[j]]
    BY <1>3 DEF StartCreate
  <2>2. jobs[n].st = "absent" /\ n \notin api[c].read
    BY <2>1 DEF NextNumber, Unused, NamesExist
  <2>3. jobs'[n].st = "queued"
    BY <2>1, <2>2 DEF NewJob, NoJob
  <2>4. QED
    BY <1>0, <2>2, <2>3, BusyCreated
<1>4. CASE CancelWrite(c)
  <2> DEFINE j == api[c].job
  <2>0. j \in Jobs /\ jobs[j] \in Job
    BY <1>1, <1>4 DEF CancelWrite, WellFormed
  <2>1. CASE api[c].queued
    <3>1. kb'.st # "processing"
      BY <1>1, <1>4, <2>1, BaseWrites DEF CancelWrite, KbRow
    <3>2. QED
      BY <3>1, BusyElsewhere
  <2>2. CASE ~api[c].queued
    <3>1. jobs' = [jobs EXCEPT ![j].cancel = TRUE, ![j].old = FALSE] /\ kb' = kb
      BY <1>4, <2>2 DEF CancelWrite
    <3>2. \A i \in Jobs : jobs'[i].st = jobs[i].st
      BY <1>1, <2>0, <3>1 DEF Job
    <3>3. QED
      BY <1>0, <3>1, <3>2, BusyFrame DEF Processing
  <2>3. QED
    BY <2>1, <2>2
<1>5. CASE ForceWrite(c)
  <2> DEFINE J == api[c].read
             copy == api[c].copy
  <2>1. CASE J = {} /\ copy.st # "processing"
    <3>1. jobs' = [j \in Jobs |-> IF j \in J THEN [jobs[j] EXCEPT !.st = "cancelled", !.cancel = TRUE, !.old = FALSE]
                                  ELSE jobs[j]]
      BY <1>5 DEF ForceWrite
    <3>2. \A i \in Jobs : jobs'[i].st = jobs[i].st
      BY <2>1, <3>1
    <3>3. kb' = kb
      BY <1>5, <2>1 DEF ForceWrite
    <3>4. QED
      BY <1>0, <3>2, <3>3, BusyFrame DEF Processing
  <2>2. CASE ~(J = {} /\ copy.st # "processing")
    <3>1. PICK st \in Restored(copy.frag) : kb' = Base(copy.st, st)
      BY <1>5, <2>2 DEF ForceWrite
    <3>2. QED
      BY <3>1, BaseWrites, BaseStops, BusyElsewhere
  <2>3. QED
    BY <2>1, <2>2
<1>6. CASE Attach(c)
  <2>1. \A i \in Jobs : jobs'[i].st = jobs[i].st
    BY <1>1, <1>6 DEF Attach, Job
  <2>2. kb' = kb
    BY <1>6 DEF Attach, base
  <2>3. QED
    BY <1>0, <2>1, <2>2, BusyFrame DEF Processing
<1>7. CASE \/ \E k \in Starts : StartCheck(c, k)
           \/ CancelRead(c) \/ ForceRead(c) \/ Archive(c) \/ ConfirmReview(c)
           \/ (\E s \in Sources : Exclude(c, s))
           \/ StartRead(c) \/ Send(c)
  <2>1. jobs' = jobs
    BY <1>7 DEF StartCheck, CancelRead, ForceRead, Archive, ConfirmReview, Exclude, StartRead, Send
  <2>2. Processing' => Processing
    BY <1>1, <1>7 DEF StartCheck, CancelRead, ForceRead, Archive, ConfirmReview, Exclude, StartRead, Send,
       base, KbRow, Processing
  <2>3. QED
    BY <1>0, <2>1, <2>2, BusyFrame
<1>8. QED
  BY <1>2, <1>3, <1>4, <1>5, <1>6, <1>7 DEF Asking, Answering

LEMMA BusyByWorkers ==
  ASSUME OneWorker, IInv, NamesExist, BusyInv, NEW w \in Workers,
         WorkerStep(w) \/ SourceError(w) \/ Raise(w) \/ Terminated(w) \/ Crash(w)
  PROVE  BusyInv'
<1> DEFINE j == work[w].job
<1> USE DEF IInv
<1>1. jobs \in [Jobs -> Job] /\ kb \in KbRow /\ work \in [Workers -> Work]
  BY DEF TypeOK
<1>2. ~On(w, "idle") => j \in Jobs /\ jobs[j] \in Job
  BY <1>1 DEF On, WellFormed
<1>d. Done(w) => \A v \in Workers : work'[v] = work[v] \/ work'[v].pc # "finish"
  BY <1>1 DEF Done, Idle
<1>3. CASE Cancelled(w)
  <2>1. CASE jobs[j].st = "cancelled"
    BY <1>3, <1>d, <2>1, BusyFrame DEF Cancelled, Processing
  <2>2. CASE jobs[j].st # "cancelled"
    <3>1. kb'.st # "processing"
      BY <1>1, <1>3, <2>2, BaseWrites DEF Cancelled, KbRow
    <3>2. QED
      BY <3>1, BusyElsewhere
  <2>3. QED
    BY <2>1, <2>2
<1>4. CASE Complete(w)
  <2>1. \A i \in Jobs : i # j => jobs'[i] = jobs[i]
    BY <1>1, <1>2, <1>4 DEF Complete, On, Job
  <2>2. CASE work[w].final # "processing" \/ ~Processing
    <3>1. kb'.st # "processing" \/ kb'.missed
      BY <1>1, <1>4, <2>2 DEF Complete, KbRow, Processing
    <3>2. QED
      BY <3>1, BusyElsewhere
  <2>3. CASE work[w].final = "processing" /\ Processing
    <3>1. ActiveJobs \ {j} # {}
      BY <1>4, <2>3 DEF Complete, On, BusyInv
    <3>2. ActiveJobs' # {}
      BY <2>1, <3>1 DEF ActiveJobs, Active
    <3>3. \A v \in Workers : work'[v].pc = "idle"
      BY <1>1, <1>4 DEF Complete, Done, Idle, OneWorker
    <3>4. QED
      BY <3>2, <3>3 DEF BusyInv, ProcessingHasJob
  <2>4. QED
    BY <2>2, <2>3
<1>5. CASE Abort(w)
  <2>1. CASE Stopped(j) \/ ~Active(j)
    BY <1>5, <1>d, <2>1, BusyFrame DEF Abort, Processing
  <2>2. CASE ~(Stopped(j) \/ ~Active(j))
    <3>1. kb'.st # "processing"
      BY <1>1, <1>5, <2>2, BaseWrites DEF Abort, KbRow
    <3>2. QED
      BY <3>1, BusyElsewhere
  <2>3. QED
    BY <2>1, <2>2
<1>6. CASE Decide(w)
  <2>1. PICK st \in IF ActiveJobs \ {j} # {} THEN {"processing"} ELSE Resolved(j, chunks # {}) :
          work' = [work EXCEPT ![w].pc = "finish", ![w].frag = (chunks # {}), ![w].final = st]
    BY <1>6 DEF Decide
  <2>2. work'[w].pc = "finish" /\ work'[w].job = j /\ work'[w].final = st
    BY <1>1, <2>1 DEF Work
  <2>3. st = "processing" => ActiveJobs \ {j} # {}
    BY <2>1, BaseWrites
  <2>4. jobs' = jobs /\ kb' = kb
    BY <1>6 DEF Decide, base
  <2>5. ActiveJobs' = ActiveJobs
    BY <2>4 DEF ActiveJobs, Active
  <2>6. QED
    BY <2>2, <2>3, <2>4, <2>5 DEF BusyInv, ProcessingHasJob, OneWorker
<1>7. CASE \/ (\E s \in Sources : NextSource(w, s)) \/ Mark(w) \/ Extract(w) \/ Embed(w) \/ Save(w)
           \/ Raise(w) \/ SourceError(w) \/ Terminated(w) \/ Crash(w)
  <2>1. kb' = kb
    BY <1>7 DEF NextSource, Mark, Extract, Embed, Save, Raise, SourceError, Terminated, Crash, base
  <2>2. \A i \in Jobs : jobs'[i].st = jobs[i].st
    <3>1. CASE SourceError(w)
      BY <1>1, <1>2, <3>1 DEF SourceError, On, Job
    <3>2. CASE ~SourceError(w)
      BY <1>7, <3>2 DEF NextSource, Mark, Extract, Embed, Save, Raise, Terminated, Crash
    <3>3. QED
      BY <3>1, <3>2
  <2>3. Done(w) \/ work'[w].pc # "finish"
    <3>1. CASE Terminated(w) \/ Crash(w)
      BY <3>1 DEF Terminated, Crash
    <3>2. ASSUME NEW s \in Sources, NextSource(w, s) PROVE work'[w].pc # "finish"
      BY <1>1, <3>2 DEF NextSource, Work
    <3>3. CASE Mark(w)
      BY <1>1, <3>3 DEF Mark, Work
    <3>4. CASE Extract(w) \/ Embed(w)
      BY <1>1, <3>4 DEF Extract, Embed, Work
    <3>5. CASE Raise(w)
      BY <1>1, <3>5 DEF Raise, Work
    <3>6. CASE SourceError(w)
      BY <1>1, <3>6 DEF SourceError, Work
    <3>7. CASE Save(w)
      BY <1>1, <3>7 DEF Save, Work
    <3>8. QED
      BY <1>7, <3>1, <3>2, <3>3, <3>4, <3>5, <3>6, <3>7
  <2>4. QED
    BY <1>d, <2>1, <2>2, <2>3, BusyFrame DEF OneWorker, Processing
<1>8. QED
  BY <1>3, <1>4, <1>5, <1>6, <1>7 DEF WorkerStep

LEMMA BusyByBeginning ==
  ASSUME OneWorker, IInv, BusyInv, NEW w \in Workers, NEW j \in Jobs, Drop(w, j) \/ Begin(w, j)
  PROVE  BusyInv'
<1> USE DEF IInv
<1>1. jobs \in [Jobs -> Job] /\ work \in [Workers -> Work]
  BY DEF TypeOK
<1>2. CASE Drop(w, j)
  BY <1>2, BusyFrame DEF Drop, base, Processing
<1>3. CASE Begin(w, j)
  <2> DEFINE k == jobs[j].kind
             E == Eligible(j)
  <2>0. PICK bad \in SUBSET E, kept \in SUBSET E :
          /\ jobs' = [jobs EXCEPT ![j].st = "running", ![j].old = FALSE,
                                  ![j].err = jobs[j].err \/ (k = "full" /\ bad # {})]
          /\ work' = [work EXCEPT ![w] =
               [Idle EXCEPT !.pc = IF k # "full" /\ bad # {} THEN "abort" ELSE "next",
                            !.job = j, !.todo = E \ bad, !.frag = kb.frag,
                            !.seen = {s \in Sources : Prechecked(E, bad, kept)[s] = "processing"}]]
    BY <1>3, ZenonT(40) DEF Begin
  <2>1. jobs'[j].st = "running"
    BY <1>1, <2>0 DEF Job
  <2>2. work'[w].pc \in {"next", "abort"}
    BY <1>1, <2>0 DEF Idle
  <2>3. j \in ActiveJobs'
    BY <2>1 DEF ActiveJobs, Active
  <2>4. QED
    BY <2>2, <2>3 DEF BusyInv, ProcessingHasJob, OneWorker
<1>4. QED
  BY <1>2, <1>3

LEMMA BusyByRecovery ==
  ASSUME IInv, NamesExist, BusyInv, RecoverRead \/ Recover \/ RecoverCommit
  PROVE  BusyInv'
<1> USE DEF IInv
<1>1. CASE RecoverRead \/ Recover
  BY <1>1, BusyFrame DEF RecoverRead, Recover, base, Processing
<1>2. CASE RecoverCommit
  <2>1. CASE New = {}
    <3>1. PICK st \in {"ready", "draft"} : kb' = Base(rec.copy.st, st)
      BY <1>2, <2>1 DEF RecoverCommit
    <3>2. QED
      BY <3>1, BaseStops, BusyElsewhere DEF KbStatuses
  <2>2. CASE New # {}
    <3>1. PICK n \in New : TRUE
      BY <2>2
    <3>2. n \in Jobs /\ n \notin rec.old /\ jobs[n].st = "absent"
      BY <3>1 DEF New, HeirsAreNew, NamesExist
    <3>3. jobs'[n] = [NewJob(jobs[rec.from[n]].kind) EXCEPT !.tid = TRUE] /\ work' = work
      BY <1>2, <3>1, <3>2 DEF RecoverCommit
    <3>4. jobs'[n].st = "queued"
      BY <3>3 DEF NewJob, NoJob
    <3>5. QED
      BY <3>2, <3>3, <3>4, BusyCreated
  <2>3. QED
    BY <2>1, <2>2
<1>3. QED
  BY <1>1, <1>2

\* With one process on the queue a base shown as being processed has a job,
\* queued or running, also when a job that was stopped, superseded or replaced
\* by the recovery is finished by a worker that has not noticed yet; unless a
\* stop of what was loaded before has left the base as it is.
THEOREM ProcessingIsBacked ==
  ASSUME OneWorker
  PROVE  Spec => []ProcessingHasJob
<1>1. Init => BusyInv
  BY DEF Init, BusyInv, ProcessingHasJob, Idle
<1>2. ASSUME IInv, NamesExist, BusyInv, [Next]_vars PROVE BusyInv'
  <2>1. ASSUME NEW j \in Jobs, Redeliver(j) PROVE BusyInv'
    BY <1>2, <2>1, BusyFrame DEF Redeliver, base, Processing
  <2>2. ASSUME NEW j \in Jobs, Age(j) PROVE BusyInv'
    <3>1. \A i \in Jobs : jobs'[i].st = jobs[i].st
      BY <1>2, <2>2 DEF Age, IInv, TypeOK, Job
    <3>2. QED
      BY <1>2, <2>2, <3>1, BusyFrame DEF Age, base, Processing
  <2>3. CASE UNCHANGED vars
    BY <1>2, <2>3, BusyFrame DEF vars, Processing
  <2>4. QED
    BY OneWorker, <1>2, <2>1, <2>2, <2>3, BusyByRequests, BusyByWorkers, BusyByBeginning, BusyByRecovery DEF Next
<1>3. BusyInv => ProcessingHasJob
  BY DEF BusyInv
<1>4. QED
  BY <1>1, <1>2, <1>3, Inductive, NamesAlways, PTL DEF Spec

=============================================================================
