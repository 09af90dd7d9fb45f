------------------------------ MODULE KbIndexing ------------------------------
(***************************************************************************)
(* Indexing of one knowledge base (src/app): the endpoints that start and  *)
(* cancel it, the job rows, the Celery workers that walk its sources, the  *)
(* search index in Qdrant, and the beat job that recovers lost jobs.       *)
(*                                                                         *)
(* A step is what runs between two external calls (parser, embeddings,     *)
(* Qdrant, broker, Celery inspection) or between two API round trips.      *)
(* Rows a transaction has flushed stay locked until it commits: whoever    *)
(* wants to write them waits. A session writes a column only if the value  *)
(* differs from the one it has loaded (autoflush and expire_on_commit are  *)
(* off): what others have written since is then left as it is.             *)
(***************************************************************************)
EXTENDS Integers, FiniteSets

CONSTANTS
  Sources,     \* documents of the knowledge base
  Workers,     \* processes of queue "indexing"
  Clients,     \* API requests that may be under way at once
  MaxJobs,     \* bound: job rows, numbered as they are created
  ClientJobs,  \* bound: clients create none with a higher number
  Starts,      \* kinds of job POST /index may ask for: "full" or a source
  Retries,     \* kinds of job reindex_source and retry_indexing_error ask for
  Stops,       \* endpoints that stop or change: cancel, force, archive, exclude
  MaxCalls,    \* bound: API calls
  Faults,      \* kinds of fault that may happen, MaxFaults times in all
  MaxFaults    \* bound: faults in a behaviour

ASSUME KbAssumption ==
  /\ IsFiniteSet(Sources) /\ "full" \notin Sources
  /\ Starts \subseteq Sources \cup {"full"} /\ Retries \subseteq Sources \cup {"full"}
  /\ MaxJobs \in Nat /\ ClientJobs \in 0..MaxJobs /\ MaxCalls \in Nat /\ MaxFaults \in Nat

Jobs  == 1..MaxJobs
Kinds == Sources \cup {"full"}

KbStatuses     == {"draft", "processing", "ready", "review", "error", "archived"}
SourceStatuses == {"to_index", "processing", "ready", "error", "excluded"}
JobStatuses    == {"absent", "queued", "running", "completed", "partial", "failed", "cancelled"}

KbRow == [st : KbStatuses, deleted : BOOLEAN, frag : BOOLEAN, missed : BOOLEAN]

\* cancel: cancel_requested; tid: celery_task_id is attached; old: updated_at
\* is older than KB_INDEXING_STALE_AFTER_SECONDS; err: errors_count > 0.
Job == [st : JobStatuses, kind : Kinds, cancel : BOOLEAN, tid : BOOLEAN, old : BOOLEAN, err : BOOLEAN]
NoJob == [st |-> "absent", kind |-> "full", cancel |-> FALSE, tid |-> FALSE, old |-> FALSE, err |-> FALSE]
NewJob(k) == [NoJob EXCEPT !.st = "queued", !.kind = k]

\* todo: eligible sources still to come; src: the one being indexed; held: its
\* mark is flushed and not committed; seen: sources to come that the session has
\* loaded as processing; frag: kb.fragments_count > 0 as the session knows it;
\* final: kb.status to write.
Points == {"idle", "next", "mark", "extract", "embed", "save", "finish", "abort"}
Work == [pc : Points, job : Jobs \cup {0}, todo : SUBSET Sources, src : Sources \cup {"none"},
         held : BOOLEAN, seen : SUBSET Sources, frag : BOOLEAN, final : KbStatuses]
Idle == [pc |-> "idle", job |-> 0, todo |-> {}, src |-> "none", held |-> FALSE, seen |-> {},
         frag |-> FALSE, final |-> "draft"]

\* What a session has loaded of the base and its sources.
Copy == [st : KbStatuses, gone : BOOLEAN, frag : BOOLEAN, src : [Sources -> SourceStatuses]]
NoCopy == [st |-> "draft", gone |-> FALSE, frag |-> FALSE, src |-> [s \in Sources |-> "to_index"]]

\* A request between its statements: its copy of the base, the jobs it has read
\* as queued or active, or the job it read or created.
Call == [pc : {"idle", "check", "create", "send", "attach", "cancel", "force"}, copy : Copy,
         kind : Kinds, job : Jobs \cup {0}, read : SUBSET Jobs, queued : BOOLEAN]
NoCall == [pc |-> "idle", copy |-> NoCopy, kind |-> "full", job |-> 0, read |-> {}, queued |-> FALSE]

VARIABLES
  kb,        \* [st, deleted, frag]: the row knowledge_bases; missed, a history:
             \* a stop has not written over a processing it had not loaded
  src,       \* src[s]: processing_status of source s
  chunks,    \* sources with chunk rows
  points,    \* sources with points in Qdrant
  jobs,      \* jobs[j]: row of knowledge_base_indexing_jobs
  queue,     \* queue[j]: messages of job j waiting in the broker
  revoked,   \* jobs whose Celery task is marked cancelled in Redis
  work,      \* work[w]: the task worker w executes
  kills,     \* workers a terminate signal is on its way to
  api,       \* api[c]: the request of client c
  rec,       \* the transaction of the recovery job
  calls, faults

base   == <<kb, src, chunks, points>>
broker == <<queue, revoked, kills>>
vars == <<kb, src, chunks, points, jobs, queue, revoked, work, kills, api, rec, calls, faults>>

\* old: the jobs given up; from[j]: the one of them that the new job j replaces.
Recovery == [pc : {"idle", "read", "open"}, copy : Copy, old : SUBSET Jobs, from : [Jobs -> Jobs \cup {0}]]
NoRec == [pc |-> "idle", copy |-> NoCopy, old |-> {}, from |-> [j \in Jobs |-> 0]]

Init == /\ kb = [st |-> "draft", deleted |-> FALSE, frag |-> FALSE, missed |-> FALSE]
        /\ src = [s \in Sources |-> "to_index"]
        /\ chunks = {} /\ points = {}
        /\ jobs = [j \in Jobs |-> NoJob]
        /\ queue = [j \in Jobs |-> 0]
        /\ revoked = {} /\ kills = {}
        /\ work = [w \in Workers |-> Idle]
        /\ api = [c \in Clients |-> NoCall]
        /\ rec = NoRec
        /\ calls = 0 /\ faults = 0

Fault(k) == k \in Faults /\ faults < MaxFaults /\ faults' = faults + 1
NoFault  == UNCHANGED faults

Active(j)   == jobs[j].st \in {"queued", "running"}
ActiveJobs  == {j \in Jobs : Active(j)}
FullJobs    == {j \in ActiveJobs : jobs[j].kind = "full"}
Stopped(j)  == jobs[j].st = "cancelled" \/ jobs[j].cancel   \* _is_job_cancelled
New         == {j \in Jobs : rec.from[j] # 0}
Unused      == {j \in Jobs \ New : jobs[j].st = "absent"}
NextNumber(j)   == j \in Unused /\ j <= ClientJobs /\ \A i \in Unused : j <= i

On(w, p) == work[w].pc = p
JobOf(w) == jobs[work[w].job]
Running(j) == {w \in Workers : work[w].job = j}

\* The recovery job's open transaction has flushed the base, its sources and
\* the jobs it takes over.
RecOpen == rec.pc = "open"

\* A worker holds the row of its job while its mark is not committed, from the
\* flush of stage "embeddings" to the commit, and from stage "quality_control"
\* to the end of a full indexing.
Flushed(w) == \/ work[w].held
              \/ work[w].pc \in {"embed", "save"}
              \/ work[w].pc = "finish" /\ JobOf(w).kind = "full"
Locked(j)  == \E w \in Running(j) : Flushed(w)

\* A worker holds the row of the source whose mark it has not committed.
NoneHeld == \A w \in Workers : ~work[w].held

\* Worker w gets the rows it wants to write.
Free(w) == ~RecOpen /\ \A v \in Running(work[w].job) \ {w} : ~Flushed(v)

\* The base and its sources as a session loads them.
Loaded == [st |-> kb.st, gone |-> kb.deleted \/ kb.st = "archived", frag |-> kb.frag, src |-> src]

\* The base after a session that has loaded the status c has set it to st.
Base(c, st) ==
  [kb EXCEPT !.st = IF st = c THEN @ ELSE st,
             !.missed = @ \/ (st = c /\ st # "processing" /\ kb.st = "processing")]

\* What cancelling and aborting write to kb.status. The metadata that names the
\* previous status is not kept here: any status a base can rest in may return.
Restored(frag) == IF frag THEN {"ready", "review", "error"} ELSE {"draft"}

\* The sources loaded as processing go back to READY_TO_INDEX.
Released(c) == [s \in Sources |-> IF c[s] = "processing" THEN "to_index" ELSE src[s]]

\* mark_indexing_queued
Claimed(c) == [s \in Sources |-> IF c[s] \in {"excluded", "processing"} THEN src[s] ELSE "processing"]

-----------------------------------------------------------------------------
(* The endpoints *)

Call1(c) == api[c].pc = "idle" /\ calls < MaxCalls /\ calls' = calls + 1

Answer(c) == api' = [api EXCEPT ![c] = NoCall]

\* start_indexing loads the base and looks for an existing full job; one that
\* is found is the answer. Nothing is locked before the job is created.
StartCheck(c, k) ==
  /\ Call1(c) /\ ~kb.deleted /\ \E j \in Jobs : NextNumber(j)
  /\ k = "full" => FullJobs = {}
  /\ api' = [api EXCEPT ![c] = [NoCall EXCEPT !.pc = "check", !.copy = Loaded, !.kind = k]]
  /\ UNCHANGED <<base, jobs, broker, work, rec, faults>>

\* supersede_stale_queued_jobs reads the queued jobs, without a lock ...
StartRead(c) ==
  /\ api[c].pc = "check"
  /\ api' = [api EXCEPT ![c].pc = "create", ![c].read = {j \in Jobs : jobs[j].st = "queued"}]
  /\ UNCHANGED <<base, jobs, broker, work, rec, calls, faults>>

\* ... and fails them once it gets the rows, whatever has become of them;
\* mark_indexing_queued, create_job and the commit follow.
StartCreate(c) ==
  LET call == api[c] IN
  /\ call.pc = "create" /\ ~RecOpen /\ NoneHeld /\ \A j \in call.read : ~Locked(j)
  /\ \E n \in Jobs :
       /\ NextNumber(n)
       /\ jobs' = [j \in Jobs |-> CASE j = n -> NewJob(call.kind)
                                    [] j \in call.read -> [jobs[j] EXCEPT !.st = "failed"]
                                    [] OTHER -> jobs[j]]
       /\ api' = [api EXCEPT ![c] = [NoCall EXCEPT !.pc = "send", !.job = n]]
  /\ kb' = Base(call.copy.st, "processing")
  /\ src' = Claimed(call.copy.src)
  /\ UNCHANGED <<chunks, points, broker, work, rec, calls, faults>>

\* reindex_source and retry_indexing_error create a job and touch nothing else.
Reindex(c, k) ==
  /\ Call1(c) /\ ~kb.deleted
  /\ \E n \in Jobs :
       /\ NextNumber(n)
       /\ jobs' = [jobs EXCEPT ![n] = NewJob(k)]
       /\ api' = [api EXCEPT ![c] = [NoCall EXCEPT !.pc = "send", !.job = n]]
  /\ UNCHANGED <<base, broker, work, rec, faults>>

\* delay, after the commit; the broker may refuse.
Send(c) ==
  /\ api[c].pc = "send"
  /\ \/ /\ queue' = [queue EXCEPT ![api[c].job] = @ + 1]
        /\ api' = [api EXCEPT ![c].pc = "attach"] /\ NoFault
     \/ UNCHANGED queue /\ Answer(c) /\ Fault("broker")
  /\ UNCHANGED <<base, jobs, revoked, work, kills, rec, calls>>

\* attach_celery_task_id and the second commit.
Attach(c) ==
  LET j == api[c].job IN
  /\ api[c].pc = "attach" /\ ~Locked(j) /\ j \notin rec.old
  /\ jobs' = [jobs EXCEPT ![j].tid = TRUE, ![j].old = FALSE]
  /\ Answer(c)
  /\ UNCHANGED <<base, broker, work, rec, calls, faults>>

\* revoke_indexing_celery_task of the jobs J: the mark in Redis and SIGTERM.
Revoke(J) == /\ revoked' = revoked \cup J
             /\ kills' = kills \cup {w \in Workers : work[w].job \in J}

Attached(J) == {j \in J : jobs[j].tid}

\* cancel_indexing reads the newest active job (request_cancel) ...
CancelRead(c) ==
  /\ "cancel" \in Stops /\ Call1(c)
  /\ \E j \in ActiveJobs :
       /\ \A i \in ActiveJobs : i <= j
       /\ api' = [api EXCEPT ![c] = [NoCall EXCEPT !.pc = "cancel", !.job = j,
                                               !.queued = jobs[j].st = "queued"]]
  /\ UNCHANGED <<base, jobs, broker, work, rec, faults>>

\* ... and flags it once it gets the row; a job it has read as queued it also
\* marks cancelled itself, a running one is left to its worker.
CancelWrite(c) ==
  LET j == api[c].job IN
  /\ api[c].pc = "cancel" /\ ~Locked(j) /\ ~RecOpen /\ NoneHeld
  /\ Revoke(Attached({j}))
  /\ IF api[c].queued
     THEN /\ jobs' = [jobs EXCEPT ![j].cancel = TRUE, ![j].old = FALSE, ![j].st = "cancelled"]
          /\ \E st \in Restored(kb.frag) : kb' = [kb EXCEPT !.st = st]
          /\ src' = Released(src)
     ELSE /\ jobs' = [jobs EXCEPT ![j].cancel = TRUE, ![j].old = FALSE]
          /\ UNCHANGED <<kb, src>>
  /\ Answer(c)
  /\ UNCHANGED <<chunks, points, queue, work, rec, calls, faults>>

\* force_cancel reads all active jobs, loads the base and revokes every task of
\* it that it knows by id or that the inspection, which takes 2 s, shows ...
ForceRead(c) ==
  /\ "force" \in Stops /\ Call1(c)
  /\ \E shown \in {Workers, {}} :
       /\ IF shown = {} THEN Fault("inspect") ELSE NoFault
       /\ Revoke(IF ActiveJobs = {} THEN {}
                 ELSE Attached(ActiveJobs) \cup ({work[w].job : w \in shown} \ {0}))
  /\ api' = [api EXCEPT ![c] = [NoCall EXCEPT !.pc = "force", !.copy = Loaded, !.read = ActiveJobs]]
  /\ UNCHANGED <<base, jobs, queue, work, rec>>

\* ... and then marks those jobs cancelled and restores the base it has loaded;
\* without any job it only frees a base that it has loaded as processing.
ForceWrite(c) ==
  LET J == api[c].read  copy == api[c].copy IN
  /\ api[c].pc = "force" /\ ~RecOpen /\ NoneHeld /\ \A j \in J : ~Locked(j)
  /\ IF J = {} /\ copy.st # "processing" THEN UNCHANGED <<kb, src>>
     ELSE src' = Released(copy.src) /\ \E st \in Restored(copy.frag) : kb' = Base(copy.st, st)
  /\ jobs' = [j \in Jobs |-> IF j \in J THEN [jobs[j] EXCEPT !.st = "cancelled", !.cancel = TRUE,
                                                            !.old = FALSE]
                             ELSE jobs[j]]
  /\ Answer(c)
  /\ UNCHANGED <<chunks, points, broker, work, rec, calls, faults>>

\* KnowledgeBaseService.archive
Archive(c) ==
  /\ "archive" \in Stops /\ Call1(c) /\ ~kb.deleted /\ ~RecOpen
  /\ kb' = [kb EXCEPT !.st = "archived", !.deleted = TRUE]
  /\ UNCHANGED <<src, chunks, points, jobs, broker, work, api, rec, faults>>

\* KnowledgeBaseService.exclude_source
Exclude(c, s) ==
  /\ "exclude" \in Stops /\ Call1(c) /\ ~RecOpen /\ \A w \in Workers : ~(work[w].held /\ work[w].src = s)
  /\ src' = [src EXCEPT ![s] = "excluded"]
  /\ UNCHANGED <<kb, chunks, points, jobs, broker, work, api, rec, faults>>

\* KnowledgeBaseService.confirm_review, refused during an indexing.
ConfirmReview(c) ==
  /\ "confirm" \in Stops /\ Call1(c) /\ ~RecOpen
  /\ kb.st = "review" /\ ~kb.deleted /\ ActiveJobs = {}
  /\ kb' = [kb EXCEPT !.st = "ready"]
  /\ UNCHANGED <<src, chunks, points, jobs, broker, work, api, rec, faults>>

-----------------------------------------------------------------------------
(* The worker: index_knowledge_base_full and index_knowledge_base_source *)

Done(w) == work' = [work EXCEPT ![w] = Idle] /\ kills' = kills \ {w}

\* A task that is revoked, or whose job is stopped, returns; so does one that
\* comes before the transaction that creates its job has been committed.
Drop(w, j) ==
  /\ On(w, "idle") /\ queue[j] > 0
  /\ \/ (j \in revoked \/ Stopped(j)) /\ NoFault
     \/ j \in New /\ Fault("early")
  /\ queue' = [queue EXCEPT ![j] = @ - 1]
  /\ UNCHANGED <<base, jobs, revoked, work, kills, api, rec, calls>>

\* The sources job j is for.
Eligible(j) == LET k == jobs[j].kind IN IF k = "full" THEN {s \in Sources : src[s] # "excluded"} ELSE {k}

\* Sources E after the precheck: the bad ones fail it, those in kept stay as they are.
Prechecked(E, bad, kept) ==
  [s \in Sources |-> IF s \notin E \/ s \in kept THEN src[s] ELSE IF s \in bad THEN "error" ELSE "to_index"]

\* run_job up to the loop over the sources: the job is set running and the base
\* processing whatever they were before, and the sources are prechecked; those
\* that fail it are not eligible, those that need OCR keep their status. The one
\* source of a source job is taken as it is; if it fails the precheck the task
\* ends with an exception.
Begin(w, j) ==
  LET k == jobs[j].kind  E == Eligible(j) IN
  /\ On(w, "idle") /\ queue[j] > 0 /\ jobs[j].st # "absent" /\ ~RecOpen /\ NoneHeld /\ ~Locked(j)
  /\ j \notin revoked /\ ~Stopped(j)
  /\ queue' = [queue EXCEPT ![j] = @ - 1]
  /\ kb' = [kb EXCEPT !.st = "processing"]
  /\ \E bad, kept \in SUBSET E :
       /\ IF k = "full" THEN kept \cap bad = {} ELSE kept = E
       /\ IF bad = {} THEN NoFault ELSE Fault("precheck")
       /\ jobs' = [jobs EXCEPT ![j].st = "running", ![j].old = FALSE,
                               ![j].err = jobs[j].err \/ (k = "full" /\ bad # {})]
       /\ src' = Prechecked(E, bad, kept)
       /\ work' = [work EXCEPT ![w] =
            [Idle EXCEPT !.pc = IF k # "full" /\ bad # {} THEN "abort" ELSE "next",
                         !.job = j, !.todo = E \ bad, !.frag = kb.frag,
                         !.seen = {s \in Sources : Prechecked(E, bad, kept)[s] = "processing"}]]
  /\ UNCHANGED <<chunks, points, revoked, kills, api, rec, calls>>

\* _abort_if_cancelled, at the head of the loop and after it: a flagged job is
\* marked cancelled by its worker.
Cancelled(w) ==
  LET j == work[w].job IN
  /\ On(w, "next") /\ Stopped(j) /\ Free(w)
  /\ IF jobs[j].st = "cancelled" THEN UNCHANGED <<kb, src, jobs>>
     ELSE /\ jobs' = [jobs EXCEPT ![j].st = "cancelled"]
          /\ \E st \in Restored(work[w].frag) : kb' = [kb EXCEPT !.st = st]
          /\ src' = [s \in Sources |-> IF s \in work[w].seen THEN "to_index" ELSE src[s]]
  /\ Done(w)
  /\ UNCHANGED <<chunks, points, queue, revoked, api, rec, calls, faults>>

\* The check before a source, in the loop or in index_source.
NextSource(w, s) ==
  /\ On(w, "next") /\ s \in work[w].todo /\ ~Stopped(work[w].job) /\ Free(w)
  /\ work' = [work EXCEPT ![w].pc = "mark", ![w].src = s, ![w].todo = @ \ {s}]
  /\ UNCHANGED <<base, jobs, broker, api, rec, calls, faults>>

\* Mutant of Mark: the source is not marked while its points are replaced.
Mark_Never(w) ==
  /\ On(w, "mark") /\ Free(w) /\ NoneHeld
  /\ work' = [work EXCEPT ![w].pc = "extract"]
  /\ UNCHANGED <<base, jobs, broker, api, rec, calls, faults>>

\* _index_loaded_source up to the parser: the source is marked and committed as
\* progress. Of a job that was stopped since the check _update_job_progress
\* commits nothing and the indexing goes on.
Mark(w) ==
  LET s == work[w].src  stopped == Stopped(work[w].job) IN
  /\ On(w, "mark") /\ Free(w) /\ NoneHeld
  /\ src' = IF stopped \/ s \in work[w].seen THEN src ELSE [src EXCEPT ![s] = "processing"]
  /\ work' = [work EXCEPT ![w].pc = "extract", ![w].held = stopped, ![w].seen = @ \ {s}]
  /\ UNCHANGED <<kb, chunks, points, jobs, broker, api, rec, calls, faults>>

\* The parser has answered: delete_by_filter empties the source's points at
\* once, outside the transaction, and the job row is flushed.
Extract(w) ==
  /\ On(w, "extract") /\ Free(w)
  /\ points' = points \ {work[w].src}
  /\ work' = [work EXCEPT ![w].pc = "embed"]
  /\ UNCHANGED <<kb, src, chunks, jobs, broker, api, rec, calls, faults>>

\* embed_texts and upsert_points
Embed(w) ==
  /\ On(w, "embed")
  /\ points' = points \cup {work[w].src}
  /\ work' = [work EXCEPT ![w].pc = "save"]
  /\ UNCHANGED <<kb, src, chunks, jobs, broker, api, rec, calls, faults>>

\* Parser, embeddings or Qdrant fail: a full indexing records the error and
\* goes on with the next source, a source job raises.
SourceError(w) ==
  /\ work[w].pc \in {"extract", "embed"} /\ Fault("source") /\ Free(w)
  /\ IF JobOf(w).kind = "full"
     THEN /\ jobs' = [jobs EXCEPT ![work[w].job].err = TRUE]
          /\ src' = [src EXCEPT ![work[w].src] = "error"]
          /\ work' = [work EXCEPT ![w].pc = "next"]
     ELSE work' = [work EXCEPT ![w].pc = "abort", ![w].held = FALSE] /\ UNCHANGED <<jobs, src>>
  /\ UNCHANGED <<kb, chunks, points, broker, api, rec, calls>>

\* The source is committed as READY, also when the job was stopped while it was
\* parsed: the progress calls inside _index_loaded_source are not looked at. The
\* one in the loop is: a full indexing then returns and marks nothing.
Save(w) ==
  /\ On(w, "save") /\ Free(w)
  /\ src' = [src EXCEPT ![work[w].src] = "ready"]
  /\ chunks' = chunks \cup {work[w].src}
  /\ IF Stopped(work[w].job) /\ JobOf(w).kind = "full" THEN Done(w)
     ELSE work' = [work EXCEPT ![w].pc = "next"] /\ UNCHANGED kills
  /\ UNCHANGED <<kb, points, jobs, queue, revoked, api, rec, calls, faults>>

\* Mutant of Resolved: a status no base has.
Resolved_Unknown(j, frag) == {"indexed"}

\* _resolve_final_kb_status. In a full indexing processed_sources_count is still
\* 0 here: every refresh of the job discards it before it is flushed.
Resolved(j, frag) ==
  IF jobs[j].err THEN {IF jobs[j].kind = "full" THEN "error" ELSE "review"}
  ELSE IF jobs[j].kind = "full" /\ ~frag THEN {"error"}
  ELSE {"ready", "review"}

\* Mutant of Decide: the job counts itself among the other active jobs.
Decide_CountsItself(w) ==
  LET j == work[w].job  frag == chunks # {} IN
  /\ On(w, "next") /\ work[w].todo = {} /\ ~Stopped(j) /\ Free(w)
  /\ work' = [work EXCEPT ![w].pc = "finish", ![w].frag = frag, ![w].final = "processing"]
  /\ UNCHANGED <<base, jobs, broker, api, rec, calls, faults>>

\* _run_qc, _refresh_aggregates and _resolve_final_kb_status_async: another job
\* that is active now keeps the base processing.
Decide(w) ==
  LET j == work[w].job  frag == chunks # {} IN
  /\ On(w, "next") /\ work[w].todo = {} /\ ~Stopped(j) /\ Free(w)
  /\ \E st \in IF ActiveJobs \ {j} # {} THEN {"processing"} ELSE Resolved(j, frag) :
       work' = [work EXCEPT ![w].pc = "finish", ![w].frag = frag, ![w].final = st]
  /\ UNCHANGED <<base, jobs, broker, api, rec, calls, faults>>

\* Mutant of Complete: the result is written without looking at the job again.
Complete_Blind(w) ==
  LET j == work[w].job IN
  /\ On(w, "finish") /\ Free(w)
  /\ kb' = [kb EXCEPT !.frag = work[w].frag,
                      !.st = IF work[w].final = "processing" THEN @ ELSE work[w].final]
  /\ jobs' = [jobs EXCEPT ![j].st = IF @ = "absent" THEN @ ELSE "completed", ![j].old = FALSE]
  /\ Done(w)
  /\ UNCHANGED <<src, chunks, points, queue, revoked, api, rec, calls, faults>>

\* _mark_job_completed and the commit of the task. The session takes the base
\* for processing already, so that status is not written.
Complete(w) ==
  LET j == work[w].job IN
  /\ On(w, "finish") /\ Free(w)
  /\ kb' = [kb EXCEPT !.frag = work[w].frag,
                      !.st = IF work[w].final = "processing" THEN @ ELSE work[w].final]
  /\ jobs' = IF Stopped(j) THEN jobs
             ELSE [jobs EXCEPT ![j].st = IF jobs[j].err THEN "partial" ELSE "completed", ![j].old = FALSE]
  /\ Done(w)
  /\ UNCHANGED <<src, chunks, points, queue, revoked, api, rec, calls, faults>>

\* ensure_collection, quality control or a commit raise.
Raise(w) ==
  /\ work[w].pc \in {"next", "finish"} /\ Fault("raise")
  /\ work' = [work EXCEPT ![w].pc = "abort", ![w].held = FALSE]
  /\ UNCHANGED <<base, jobs, broker, api, rec, calls>>

\* Mutant of Abort: the base is left as it is.
Abort_KeepsBase(w) ==
  LET j == work[w].job IN
  /\ On(w, "abort") /\ Free(w)
  /\ jobs' = IF Stopped(j) \/ ~Active(j) THEN jobs
             ELSE [jobs EXCEPT ![j].st = "failed", ![j].err = TRUE, ![j].old = FALSE]
  /\ Done(w)
  /\ UNCHANGED <<base, queue, revoked, api, rec, calls, faults>>

\* rollback, then abort_job_from_worker in a new session; a stopped job is left
\* as it is.
Abort(w) ==
  LET j == work[w].job IN
  /\ On(w, "abort") /\ Free(w)
  /\ IF Stopped(j) \/ ~Active(j) THEN UNCHANGED <<kb, src, jobs>>
     ELSE /\ jobs' = [jobs EXCEPT ![j].st = "failed", ![j].err = TRUE, ![j].old = FALSE]
          /\ \E st \in Restored(kb.frag) : kb' = [kb EXCEPT !.st = st]
          /\ src' = Released(src)
  /\ Done(w)
  /\ UNCHANGED <<chunks, points, queue, revoked, api, rec, calls, faults>>

\* SIGTERM reaches the child process; the message counts as handled.
Terminated(w) ==
  /\ w \in kills /\ ~On(w, "idle")
  /\ Done(w)
  /\ UNCHANGED <<base, jobs, queue, revoked, api, rec, calls, faults>>

\* The process is lost (reject_on_worker_lost=False), or the machine with it:
\* then the broker delivers again after the visibility timeout.
Crash(w) ==
  /\ ~On(w, "idle") /\ Fault("crash")
  /\ Done(w)
  /\ queue' \in {queue, [queue EXCEPT ![work[w].job] = @ + 1]}
  /\ UNCHANGED <<base, jobs, revoked, api, rec, calls>>

\* The task takes longer than the visibility timeout and is delivered again.
Redeliver(j) ==
  /\ Running(j) # {} /\ queue[j] = 0 /\ Fault("redeliver")
  /\ queue' = [queue EXCEPT ![j] = 1]
  /\ UNCHANGED <<base, jobs, revoked, work, kills, api, rec, calls>>

-----------------------------------------------------------------------------
(* recover_stale_knowledge_base_indexing_jobs *)

\* KB_INDEXING_STALE_AFTER_SECONDS go by over a queued job. That they do so
\* while its message waits takes workers that are busy for as long.
Age(j) ==
  /\ jobs[j].st = "queued" /\ ~jobs[j].old /\ ~RecOpen
  /\ \A c \in Clients : api[c].job # j
  /\ IF queue[j] = 0 THEN NoFault ELSE Fault("slow")
  /\ jobs' = [jobs EXCEPT ![j].old = TRUE]
  /\ UNCHANGED <<base, broker, work, api, rec, calls>>

\* Mutant of Lost: only jobs that were never started are looked for.
Lost_QueuedOnly(shown) == {j \in ActiveJobs : jobs[j].st = "queued" /\ jobs[j].old}

\* Duplicated, orphaned or stale jobs, given the workers the inspection shows.
Lost(shown) ==
  {j \in ActiveJobs : LET n == Cardinality(Running(j) \cap shown) IN
     n > 1 \/ (jobs[j].st = "running" /\ n = 0) \/ (jobs[j].st = "queued" /\ jobs[j].old)}

\* Every job of J gets one new job, with the next unused numbers.
Replaces(from, J) ==
  LET new == {j \in Jobs : from[j] # 0} IN
  /\ new \subseteq Unused
  /\ \A o \in J : \E j \in new : from[j] = o /\ \A i \in new : from[i] = o => i = j
  /\ \A j \in new, i \in Unused \ new : j < i

\* Inspection, query and revocations. The tasks to terminate are matched by job
\* or by base; the limit on recovered jobs may leave some for the next time.
RecoverRead ==
  /\ rec.pc = "idle"
  /\ \E shown \in {Workers, {}} : \E J \in SUBSET Lost(shown) :
       /\ J # {}
       /\ IF shown = {} THEN Fault("inspect") ELSE NoFault
       /\ Revoke(Attached(J) \cup ({work[w].job : w \in shown} \ {0}))
       /\ rec' = [NoRec EXCEPT !.pc = "read", !.copy = Loaded, !.old = J]
  /\ UNCHANGED <<base, jobs, queue, work, api, calls>>

\* The flushes, after an inspection of 2 s; the new messages are published
\* before the commit.
Recover ==
  /\ rec.pc = "read" /\ NoneHeld /\ \A j \in rec.old : ~Locked(j)
  /\ \E from \in [Jobs -> rec.old \cup {0}] :
       /\ IF rec.copy.gone THEN \A j \in Jobs : from[j] = 0 ELSE Replaces(from, rec.old)
       /\ rec' = [rec EXCEPT !.pc = "open", !.from = from]
       /\ queue' = [j \in Jobs |-> IF from[j] # 0 THEN queue[j] + 1 ELSE queue[j]]
  /\ UNCHANGED <<base, jobs, revoked, work, kills, api, calls, faults>>

\* The commit: the lost jobs are cancelled, whatever has become of them, and
\* their replacements queued.
RecoverCommit ==
  /\ RecOpen
  /\ jobs' = [j \in Jobs |->
       CASE j \in rec.old -> [jobs[j] EXCEPT !.st = "cancelled", !.cancel = TRUE, !.old = FALSE]
         [] j \in New \ rec.old -> [NewJob(jobs[rec.from[j]].kind) EXCEPT !.tid = TRUE]
         [] OTHER -> jobs[j]]
  /\ IF New # {} THEN kb' = Base(rec.copy.st, "processing") /\ src' = Claimed(rec.copy.src)
     ELSE kb' = Base(rec.copy.st, IF rec.copy.frag THEN "ready" ELSE "draft") /\ src' = Released(rec.copy.src)
  /\ rec' = NoRec
  /\ UNCHANGED <<chunks, points, broker, work, api, calls, faults>>

-----------------------------------------------------------------------------
WorkerStep(w) == \/ Cancelled(w) \/ (\E s \in Sources : NextSource(w, s)) \/ Mark(w) \/ Extract(w) \/ Embed(w)
                 \/ Save(w) \/ Decide(w) \/ Complete(w) \/ Abort(w)

Answering(c) == StartRead(c) \/ StartCreate(c) \/ Send(c) \/ Attach(c) \/ CancelWrite(c) \/ ForceWrite(c)

Asking(c) == \/ \E k \in Starts : StartCheck(c, k)
             \/ \E k \in Retries : Reindex(c, k)
             \/ CancelRead(c) \/ ForceRead(c) \/ Archive(c) \/ ConfirmReview(c)
             \/ \E s \in Sources : Exclude(c, s)

Next == \/ \E c \in Clients : Asking(c) \/ Answering(c)
        \/ \E w \in Workers : \/ WorkerStep(w) \/ SourceError(w) \/ Raise(w) \/ Terminated(w) \/ Crash(w)
                              \/ \E j \in Jobs : Drop(w, j) \/ Begin(w, j)
        \/ \E j \in Jobs : Redeliver(j) \/ Age(j)
        \/ RecoverRead \/ Recover \/ RecoverCommit

Spec == Init /\ [][Next]_vars

\* Workers take and finish tasks, requests are answered, the beat job runs and
\* time passes. Nothing is assumed of clients, signals and faults.
Fairness == /\ \A w \in Workers : /\ WF_vars(WorkerStep(w))
                                  /\ WF_vars(\E j \in Jobs : Drop(w, j) \/ Begin(w, j))
            /\ \A c \in Clients : WF_vars(Answering(c))
            /\ WF_vars(\E j \in Jobs : Age(j))
            /\ WF_vars(RecoverRead) /\ WF_vars(Recover) /\ WF_vars(RecoverCommit)

FairSpec == Spec /\ Fairness

-----------------------------------------------------------------------------
(* Properties *)

\* The state is well typed: statuses, jobs, requests and the recovery in range.
TypeOK == /\ kb \in KbRow
          /\ src \in [Sources -> SourceStatuses]
          /\ chunks \subseteq Sources /\ points \subseteq Sources
          /\ jobs \in [Jobs -> Job]
          /\ queue \in [Jobs -> Nat]
          /\ revoked \subseteq Jobs /\ kills \subseteq Workers
          /\ work \in [Workers -> Work]
          /\ api \in [Clients -> Call]
          /\ rec \in Recovery
          /\ calls \in Nat /\ faults \in Nat

\* A job whose stop is recorded - by a client, force_cancel or the recovery, on
\* rows they have read before a worker took or finished the job - never runs or
\* completes afterwards: its status only becomes cancelled, or failed when an
\* older read of it as queued is written last.
StopIsFinal ==
  [][\A j \in Jobs : jobs[j].cancel =>
       /\ jobs'[j].cancel
       /\ jobs'[j].st \in {jobs[j].st, "cancelled", "failed"}]_vars

\* With one worker, a base shown as being processed has a job that will end
\* that, whoever finishes, fails, cancels, supersedes or replaces jobs; unless a
\* force_cancel or a recovery had loaded it before it became processing.
ProcessingHasJob ==
  kb.st = "processing" /\ ~kb.missed => ActiveJobs # {}

\* With one worker, a source shown as READY has its points in the search index,
\* although they are deleted and written outside every transaction; only a job
\* that was stopped may have left it without.
ReadyIsSearchable ==
  \A s \in Sources : src[s] = "ready" /\ s \notin points =>
    \E j \in Jobs : Stopped(j) /\ jobs[j].kind \in {s, "full"}

\* Every job comes to an end: queued and running jobs are finished, given up by
\* whoever cancels them, or replaced by the recovery.
JobsSettle == \A j \in Jobs : Active(j) ~> ~Active(j)

\* The base does not stay processing: the clients' only indexing ends, over
\* lost workers and messages, and the one that ends it sees no other active job.
BaseSettles == []<>(kb.st # "processing")

=============================================================================
