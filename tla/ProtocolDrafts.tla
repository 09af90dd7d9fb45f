--------------------------- MODULE ProtocolDrafts ---------------------------
(***************************************************************************)
(* One card of the meeting registry and its protocol in 1C.  Celery makes  *)
(* a draft of the protocol shortly before the meeting; the operators of the *)
(* registry move, cancel and restore the meeting and may ask for the draft  *)
(* at once; beat rolls the card of a series to its next occurrence and      *)
(* dispatches drafts that nobody scheduled; listing the registry copies the *)
(* status of the protocol into the card.                                   *)
(*                                                                         *)
(* A step is what runs between two calls to 1C, Outlook or the broker.      *)
(* Each actor works on its own copy of the row, as its session loaded it,   *)
(* and writes the columns it changed; the row is locked from the first of   *)
(* these writes to the commit.                                             *)
(***************************************************************************)
EXTENDS Naturals, FiniteSets

CONSTANTS
  Workers,      \* Celery workers that make drafts
  Clients,      \* requests to the registry that may be open at a time
  Beat,         \* the periodic tasks: dispatch of drafts, roll of the cards
  Docs,         \* protocols in 1C that the card or an actor may name at a time
  None,         \* no message
  Kinds,        \* "series": card of a series, "memo": of a single meeting
  Leads,        \* how far ahead the slot of a moved meeting may be
  Faults,       \* what may go wrong: see Trouble
  MaxEvents     \* bound on new slots and faults together

ASSUME ProtocolAssumption ==
  /\ Docs \subseteq Nat \ {0}
  /\ Beat \notin Workers \cup Clients
  /\ Workers \cap Clients = {}
  /\ Leads \subseteq {"ahead", "due", "past"}
  /\ MaxEvents \in Nat

VARIABLES
  kind,         \* what the card stands for
  entry,        \* the committed row
  phase,        \* where the clock is, seen from the committed slot
  docs,         \* protocols in 1C
  queue,        \* messages create_registry_protocol_draft
  revoked,      \* slots whose message was revoked
  work,         \* what each actor is at
  lost,         \* a history of what failed and left no error on the card:
                \* moved: the last session that was to schedule the draft, or
                \* one that revoked its task, ended without a task; ref: the
                \* protocol that a lost session had deleted; spent: the task of
                \* the slot could not read 1C at its last try
  moves, faults \* counters for the bounds

vars == <<kind, entry, phase, docs, queue, revoked, work, lost, moves, faults>>

Actors == Workers \cup Clients \cup {Beat}
Slots == 1 .. MaxEvents + 1
Stages == {"scheduled", "invitations_sent", "protocol_created",
           "meeting_completed", "cancelled"}
SCHEDULABLE_STAGES == {"scheduled", "invitations_sent"}
Phases == {"ahead", "due", "past"}
MaxRetries == 2

\* A message is named by the slot it was scheduled for: one is sent per slot.
Messages == [slot : Slots, tries : 0 .. MaxRetries]

\* The columns the code reads later.  "closed": the payload holds a status of
\* the protocol that says it is in force or closed.
Entries == [stage : Stages, slot : Slots, ref : Docs \cup {0},
            task : Slots \cup {0}, err : BOOLEAN, closed : BOOLEAN]

Losses == [moved : BOOLEAN, ref : Docs \cup {0}, spent : BOOLEAN]
NoLoss == [moved |-> FALSE, ref |-> 0, spent |-> FALSE]

Places == {"idle", "creating", "posted", "moving", "regrouping", "cancelling",
           "flushed", "ready", "checking"}

FirstEntry(k) ==
  [stage |-> IF k = "series" THEN "scheduled" ELSE "invitations_sent",
   slot |-> 1, ref |-> 0, task |-> 1, err |-> FALSE, closed |-> FALSE]

\* doc: the protocol the actor has made, or deleted, and not yet written down.
Idle == [at |-> "idle", seen |-> FirstEntry("memo"), msg |-> None, doc |-> 0]

TypeOK ==
  /\ kind \in Kinds
  /\ entry \in Entries
  /\ phase \in Phases
  /\ docs \in [Docs -> {"absent", "draft", "closed"}]
  /\ queue \subseteq Messages
  /\ revoked \subseteq Slots
  /\ work \in [Actors -> [at : Places, seen : Entries,
                          msg : Messages \cup {None}, doc : Docs \cup {0}]]
  /\ lost \in Losses
  /\ moves \in 0 .. MaxEvents
  /\ faults \in 0 .. MaxEvents

Init ==
  /\ kind \in Kinds
  /\ entry = FirstEntry(kind)
  /\ phase = "ahead"
  /\ docs = [d \in Docs |-> "absent"]
  /\ queue = {[slot |-> 1, tries |-> 0]}
  /\ revoked = {}
  /\ work = [a \in Actors |-> Idle]
  /\ lost = NoLoss
  /\ moves = 0
  /\ faults = 0

(***************************************************************************)
(* Sessions                                                                *)
(***************************************************************************)

\* What a flush leaves in the row: the columns the session changed.
Flushed(old, new) ==
  [c \in DOMAIN entry |-> IF new[c] = old[c] THEN entry[c] ELSE new[c]]

Locked == \E a \in Actors : work[a].at \in {"flushed", "ready"}

Session(at, seen, m) == [at |-> at, seen |-> seen, msg |-> m, doc |-> 0]

\* The slot and the status a session loads are never compared later, of the task
\* only whether there is one.
Loaded == [entry EXCEPT !.slot = 1, !.closed = FALSE, !.task = IF @ = 0 THEN 0 ELSE 1]

Open(a, at, m) == work' = [work EXCEPT ![a] = Session(at, Loaded, m)]

Message(s) == [slot |-> s, tries |-> 0]

\* A session that gives the meeting the slot moves + 2, and schedules it.
OpenMove(a, at, seen) ==
  /\ moves + faults < MaxEvents
  /\ moves' = moves + 1
  /\ work' = [work EXCEPT ![a] = Session(at, seen, Message(moves + 2))]

Done(a) == work' = [work EXCEPT ![a] = Idle]

Trouble(f) == f \in Faults /\ moves + faults < MaxEvents /\ faults' = faults + 1


(***************************************************************************)
(* create_protocol_draft_for_entry                                         *)
(***************************************************************************)

\* Mutant: a worker that is late skips the draft.
MayCreate_OnlyDue(force) == entry.stage # "cancelled" /\ entry.ref = 0 /\ (force \/ phase = "due")

\* The skips at the head of the function; force is the operator's call.
MayCreate(force) ==
  /\ entry.stage # "cancelled"
  /\ entry.ref = 0
  /\ force \/ phase # "ahead"

\* A worker takes a message whose time has come.  The time of a message for an
\* earlier slot says nothing about the present one.
Deliver(w) ==
  \E m \in queue :
    /\ work[w].at = "idle"
    /\ m.slot = entry.slot => phase # "ahead"
    /\ queue' = queue \ {m}
    /\ IF MayCreate(FALSE) THEN Open(w, "creating", m) ELSE UNCHANGED work
    /\ UNCHANGED <<kind, entry, phase, docs, revoked, lost, moves, faults>>

\* create_registry_protocol: the operator asks for the protocol now.
Ask(c) ==
  /\ work[c].at = "idle"
  /\ MayCreate(TRUE)
  /\ Open(c, "creating", None)
  /\ UNCHANGED <<kind, entry, phase, docs, queue, revoked, lost, moves, faults>>

Named(d) == d = entry.ref \/ \E a \in Actors : d \in {work[a].doc, work[a].seen.ref}

\* Documents that neither the card nor an actor names are forgotten, so that
\* their numbers can be used again.
Forget == docs' = [d \in Docs |-> IF Named(d)' THEN docs[d] ELSE "absent"]

Post(a) ==
  \E d \in Docs :
    /\ work[a].at = "creating"
    /\ ~Named(d)
    /\ \A e \in Docs : Named(e) \/ d <= e
    /\ docs' = [docs EXCEPT ![d] = "draft"]
    /\ work' = [work EXCEPT ![a].at = "posted", ![a].doc = d]
    /\ lost' = [lost EXCEPT !.ref = IF @ = d THEN 0 ELSE @]
    /\ UNCHANGED <<kind, entry, phase, queue, revoked, moves, faults>>

Save(a) ==
  /\ work[a].at = "posted"
  /\ ~Locked
  /\ entry' = Flushed(work[a].seen,
                      [work[a].seen EXCEPT !.ref = work[a].doc, !.task = 0, !.err = FALSE,
                                           !.stage = "protocol_created"])
  /\ Done(a)
  /\ Forget
  /\ UNCHANGED <<kind, phase, queue, revoked, lost, moves, faults>>

\* The topic has no participants, or 1C refuses the protocol or its answer is
\* lost.  A worker and the dispatcher keep the error; the operator's request is
\* rolled back.
CreateFails(a) ==
  /\ work[a].at = "creating"
  /\ Trouble("onec")
  /\ IF a \in Clients
       THEN UNCHANGED entry
       ELSE /\ ~Locked
            /\ entry' = Flushed(work[a].seen, [work[a].seen EXCEPT !.err = TRUE])
  /\ \/ UNCHANGED queue
     \/ /\ work[a].msg # None
        /\ work[a].msg.tries < MaxRetries
        /\ work[a].msg.slot \notin revoked
        /\ queue' = queue \cup {[work[a].msg EXCEPT !.tries = @ + 1]}
  /\ Done(a)
  /\ UNCHANGED <<kind, phase, docs, revoked, lost, moves>>

\* The worker is at the last try of the task of the slot.
Exhausted(a) ==
  a \in Workers /\ work[a].msg.tries = MaxRetries /\ work[a].msg.slot = entry.slot

\* 1C goes down; while it is down every further try fails too.
Unreadable(a) ==
  /\ "read" \in Faults
  /\ IF a \in Workers /\ work[a].msg.tries > 0 THEN UNCHANGED faults ELSE Trouble("read")

\* Mutant: what is read before the protocol is outside the task's retry.
ReadFails_NoRetry(a) ==
  /\ work[a].at = "creating"
  /\ Unreadable(a)
  /\ lost' = [lost EXCEPT !.spent = @ \/ Exhausted(a)]
  /\ Done(a)
  /\ UNCHANGED <<kind, entry, phase, docs, queue, revoked, moves>>

\* 1C cannot be read, or does not know the manager: the participants of the
\* topic and the fields of the protocol are read outside the blocks that record
\* an error.  A worker tries again, and after its last try nothing is left.
ReadFails(a) ==
  LET m == work[a].msg IN
  /\ work[a].at = "creating"
  /\ Unreadable(a)
  /\ queue' = IF a \in Workers /\ m.tries < MaxRetries /\ m.slot \notin revoked
                THEN queue \cup {[m EXCEPT !.tries = @ + 1]} ELSE queue
  /\ lost' = [lost EXCEPT !.spent = @ \/ Exhausted(a)]
  /\ Done(a)
  /\ UNCHANGED <<kind, entry, phase, docs, revoked, moves>>

(***************************************************************************)
(* dispatch_due_entries                                                    *)
(***************************************************************************)

\* The catch-up makes the drafts that became due within the grace period.
Dispatch ==
  /\ work[Beat].at = "idle"
  /\ entry.stage \in SCHEDULABLE_STAGES
  /\ entry.ref = 0
  /\ \/ /\ phase = "ahead"
        /\ entry.task = 0
        /\ ~Locked
        /\ queue' = queue \cup {Message(entry.slot)}
        /\ entry' = [entry EXCEPT !.task = entry.slot, !.err = FALSE]
        /\ UNCHANGED work
     \/ /\ phase = "due"
        /\ Open(Beat, "creating", None)
        /\ UNCHANGED <<entry, queue>>
  /\ UNCHANGED <<kind, phase, docs, revoked, lost, moves, faults>>

(***************************************************************************)
(* A new slot: the operator moves, invites again or restores; beat rolls   *)
(***************************************************************************)

\* approve_registry_reschedule, and the two requests that change the people
\* invited and the slot at once.  Outlook is told before the row is written.
MoveStart(c) ==
  /\ work[c].at = "idle"
  /\ \/ entry.stage \in {"invitations_sent", "cancelled"} /\ OpenMove(c, "moving", Loaded)
     \/ entry.stage # "cancelled" /\ OpenMove(c, "regrouping", Idle.seen)
  /\ UNCHANGED <<kind, entry, phase, docs, queue, revoked, lost, faults>>

\* apply_reschedule writes the row, drops the status of the protocol from the
\* payload and reads the row again.  After apply_participants_update, which
\* does the same first, the stage is compared with the fresh one.
MoveFlush(c) ==
  LET old == IF work[c].at = "moving" THEN work[c].seen ELSE entry
      row == Flushed(old, [old EXCEPT !.stage = "invitations_sent"])
  IN
  /\ work[c].at \in {"moving", "regrouping"}
  /\ ~Locked
  /\ work' = [work EXCEPT ![c].at = "flushed",
                          ![c].seen = [row EXCEPT !.slot = work[c].msg.slot, !.closed = FALSE]]
  /\ UNCHANGED <<kind, entry, phase, docs, queue, revoked, lost, moves, faults>>

\* upsert_from_invite loads and writes the row at once.  Only the invitation
\* to a cancelled meeting does away with its protocol.
Invite(c) ==
  /\ kind = "memo"
  /\ work[c].at = "idle"
  /\ ~Locked
  /\ OpenMove(c, IF entry.stage = "cancelled" THEN "flushed" ELSE "ready",
              [entry EXCEPT !.slot = moves + 2, !.stage = "invitations_sent", !.closed = FALSE])
  /\ UNCHANGED <<kind, entry, phase, docs, queue, revoked, lost, faults>>

\* sync_series_card: the occurrence is over and the card goes on to the next,
\* or its slot differs from the calendar.  The payload keeps the status.
Roll ==
  /\ kind = "series"
  /\ work[Beat].at = "idle"
  /\ ~Locked
  /\ entry.stage # "cancelled"
  /\ OpenMove(Beat, "flushed",
              [entry EXCEPT !.slot = moves + 2, !.stage = IF phase = "past" THEN "scheduled" ELSE @])
  /\ UNCHANGED <<kind, entry, phase, docs, queue, revoked, lost, faults>>

(***************************************************************************)
(* recreate_protocol_draft_on_reschedule, with the row locked              *)
(***************************************************************************)

\* Mutant: the reference to the deleted protocol stays.
DeleteProtocol_KeepsRef(a) ==
  /\ work[a].at = "flushed"
  /\ work[a].seen.ref # 0 => docs[work[a].seen.ref] # "absent"
  /\ docs' = [d \in Docs |-> IF d = work[a].seen.ref THEN "absent" ELSE docs[d]]
  /\ work' = [work EXCEPT ![a].at = "ready"]
  /\ UNCHANGED <<kind, entry, phase, queue, revoked, lost, moves, faults>>

DeleteProtocol(a) ==
  LET seen == work[a].seen
      without == [seen EXCEPT !.ref = 0,
                    !.stage = IF @ = "protocol_created" THEN "invitations_sent" ELSE @]
  IN
  /\ work[a].at = "flushed"
  /\ \/ /\ seen.ref = 0
        /\ work' = [work EXCEPT ![a].at = "ready"]
        /\ UNCHANGED docs
     \/ /\ seen.ref # 0
        /\ docs[seen.ref] # "absent"
        /\ docs' = [docs EXCEPT ![seen.ref] = "absent"]
        /\ work' = [work EXCEPT ![a].at = "ready", ![a].seen = without, ![a].doc = seen.ref]
  /\ UNCHANGED <<kind, entry, phase, queue, revoked, lost, moves, faults>>

\* 1C refuses, or does not know the protocol.  A request is rolled back; the
\* roll is logged, and what it has changed so far is committed with the batch.
DeleteFails(a) ==
  LET seen == work[a].seen IN
  /\ work[a].at = "flushed"
  /\ seen.ref # 0
  /\ \/ Trouble("delete")
     \/ docs[seen.ref] = "absent" /\ UNCHANGED faults
  /\ IF a = Beat
       THEN /\ entry' = seen
            /\ phase' \in Leads
            /\ lost' = [lost EXCEPT !.moved = TRUE]
       ELSE UNCHANGED <<entry, phase, lost>>
  /\ Done(a)
  /\ UNCHANGED <<kind, docs, queue, revoked, moves>>

\* Mutant: an empty task id is revoked like any other.
Revoke_Empty(slot, sent) ==
  queue' = {m \in queue : m.slot # slot} \cup sent /\ revoked' = revoked \cup {slot}

Revoke(slot, sent) ==
  /\ queue' = {m \in queue : m.slot # slot} \cup sent
  /\ revoked' = IF slot = 0 THEN revoked ELSE revoked \cup {slot}

\* cancel_protocol_draft_schedule and refresh_protocol_draft_schedule: revoke
\* the message the session knows of, and send a new one if there is still time.
Reschedule(a) ==
  LET seen == work[a].seen
      may  == /\ seen.stage \in SCHEDULABLE_STAGES
              /\ seen.ref = 0
              /\ phase' = "ahead"
      sent == IF may THEN {work[a].msg} ELSE {}
      row  == IF may THEN [seen EXCEPT !.task = seen.slot, !.err = FALSE]
                     ELSE [seen EXCEPT !.task = 0]
  IN
  /\ work[a].at = "ready"
  /\ phase' \in Leads
  /\ Revoke(seen.task, sent)
  /\ entry' = row
  /\ lost' = [lost EXCEPT !.moved = FALSE, !.spent = FALSE]
  /\ Done(a)
  /\ UNCHANGED <<kind, docs, moves, faults>>

\* The broker refuses the new message of a roll: logged, the rest committed.
RollRefused ==
  LET seen == work[Beat].seen IN
  /\ work[Beat].at = "ready"
  /\ seen.stage \in SCHEDULABLE_STAGES
  /\ seen.ref = 0
  /\ Trouble("refuse")
  /\ phase' = "ahead"
  /\ Revoke(seen.task, {})
  /\ entry' = [seen EXCEPT !.task = 0]
  /\ lost' = [lost EXCEPT !.moved = TRUE]
  /\ Done(Beat)
  /\ UNCHANGED <<kind, docs, moves>>

(***************************************************************************)
(* cancel_registry_meeting                                                 *)
(***************************************************************************)

CancelStart(c) ==
  /\ work[c].at = "idle"
  /\ entry.stage \notin {"meeting_completed", "cancelled"}
  /\ work' = [work EXCEPT ![c].at = "cancelling"]
  /\ UNCHANGED <<kind, entry, phase, docs, queue, revoked, lost, moves, faults>>

\* The meeting is off the calendar; mark_cancelled writes the row, reads it
\* again and revokes the message it finds there.
CancelEnd(c) ==
  /\ work[c].at = "cancelling"
  /\ ~Locked
  /\ entry' = [entry EXCEPT !.stage = "cancelled", !.task = 0, !.closed = FALSE]
  /\ Revoke(entry.task, {})
  /\ Done(c)
  /\ UNCHANGED <<kind, phase, docs, lost, moves, faults>>

(***************************************************************************)
(* The loss of a session                                                   *)
(***************************************************************************)

\* The task a session revokes before its commit.
Unscheduled(a) ==
  CASE work[a].at = "ready" -> work[a].seen.task
    [] work[a].at = "cancelling" /\ ~Locked -> entry.task
    [] OTHER -> 0

\* A request or a periodic task ends before its commit: its process dies, or the
\* broker refuses the message of a request.  The row is rolled back; a protocol
\* deleted in 1C, a task revoked and a message sent stay so.
Perish(a) ==
  LET seen == work[a].seen
      held == work[a].at = "ready"
  IN
  /\ a \notin Workers
  /\ work[a].at # "idle"
  /\ Trouble("crash")
  /\ \E s \in {0, Unscheduled(a)}, sent \in SUBSET {work[a].msg} :
       /\ sent # {} => held /\ seen.stage \in SCHEDULABLE_STAGES /\ seen.ref = 0 /\ s = seen.task
       /\ Revoke(s, sent)
       /\ lost' = [lost EXCEPT !.moved = @ \/ s # 0,
                               !.ref = IF held /\ work[a].doc # 0 THEN work[a].doc ELSE @]
  /\ Done(a)
  /\ UNCHANGED <<kind, entry, phase, moves>>
  /\ Forget

(***************************************************************************)
(* sync_protocol_stages: somebody lists the registry                       *)
(***************************************************************************)

CheckStart(c) ==
  /\ work[c].at = "idle"
  /\ entry.ref # 0
  /\ entry.stage \notin {"meeting_completed", "cancelled"}
  /\ \/ ~entry.closed /\ Open(c, "checking", None) /\ UNCHANGED entry
     \/ /\ entry.closed
        /\ ~Locked
        /\ entry' = [entry EXCEPT !.stage = "meeting_completed"]
        /\ UNCHANGED work
  /\ UNCHANGED <<kind, phase, docs, queue, revoked, lost, moves, faults>>

\* A protocol 1C does not know is passed over.  The payload is written whole.
CheckEnd(c) ==
  LET seen   == work[c].seen
      closed == docs[seen.ref] = "closed"
      stage  == IF closed THEN "meeting_completed" ELSE seen.stage
  IN
  /\ work[c].at = "checking"
  /\ \/ docs[seen.ref] = "absent" /\ UNCHANGED entry
     \/ /\ docs[seen.ref] # "absent"
        /\ ~Locked
        /\ entry' = [Flushed(seen, [seen EXCEPT !.stage = stage]) EXCEPT !.closed = closed]
  /\ Done(c)
  /\ UNCHANGED <<kind, phase, docs, queue, revoked, lost, moves, faults>>

(***************************************************************************)
(* The world                                                               *)
(***************************************************************************)

\* Somebody signs or closes the protocol in 1C once the meeting is over.
CloseProtocol(d) ==
  /\ phase = "past"
  /\ d = entry.ref
  /\ docs[d] = "draft"
  /\ docs' = [docs EXCEPT ![d] = "closed"]
  /\ UNCHANGED <<kind, entry, phase, queue, revoked, work, lost, moves, faults>>

Tick ==
  /\ phase # "past"
  /\ phase' = IF phase = "ahead" THEN "due" ELSE "past"
  /\ UNCHANGED <<kind, entry, docs, queue, revoked, work, lost, moves, faults>>

\* A worker is lost: an unrevoked message is delivered again.
Crash(w) ==
  /\ work[w].at # "idle"
  /\ Trouble("crash")
  /\ queue' = queue \cup {m \in {work[w].msg} : m.slot \notin revoked}
  /\ Done(w)
  /\ UNCHANGED <<kind, entry, phase, revoked, lost, moves>>
  /\ Forget

\* The revocation of a running task terminates its process.
Terminated(w) ==
  /\ work[w].at # "idle"
  /\ work[w].msg.slot \in revoked
  /\ Done(w)
  /\ UNCHANGED <<kind, entry, phase, queue, revoked, lost, moves, faults>>
  /\ Forget

\* The visibility timeout is shorter than the time messages are held: Redis
\* hands out a copy.
Redeliver(w) ==
  /\ work[w].at # "idle"
  /\ work[w].msg.slot \notin revoked
  /\ Trouble("copy")
  /\ queue' = queue \cup {work[w].msg}
  /\ UNCHANGED <<kind, entry, phase, docs, revoked, work, lost, moves>>

\* What a process does without waiting for anybody but 1C and the lock.
Step(a) == Post(a) \/ Save(a) \/ DeleteProtocol(a) \/ Reschedule(a)

Answer(c) == MoveFlush(c) \/ CancelEnd(c) \/ CheckEnd(c)

Next ==
  \/ \E a \in Actors : Step(a) \/ CreateFails(a) \/ ReadFails(a) \/ DeleteFails(a) \/ Perish(a)
  \/ \E w \in Workers : Deliver(w) \/ Crash(w) \/ Terminated(w) \/ Redeliver(w)
  \/ \E c \in Clients : \/ Ask(c) \/ MoveStart(c) \/ Invite(c)
                         \/ CancelStart(c) \/ CheckStart(c) \/ Answer(c)
  \/ Dispatch \/ Roll \/ RollRefused
  \/ \E d \in Docs : CloseProtocol(d)
  \/ Tick

Spec == Init /\ [][Next]_vars

Fairness ==
  /\ \A w \in Workers : WF_vars(Step(w) \/ Deliver(w))
  /\ \A c \in Clients : WF_vars(Step(c) \/ DeleteFails(c) \/ Answer(c))
  /\ WF_vars(Step(Beat) \/ DeleteFails(Beat))
  /\ WF_vars(Tick)

FairSpec == Spec /\ Fairness

(***************************************************************************)
(* Properties                                                              *)
(***************************************************************************)

\* The protocol the card names exists in 1C, except while the session that has
\* deleted it still holds the row, or if such a session was lost before its
\* commit.  Deletion, creation and the write of the reference are separate calls
\* of several sessions; a dead reference makes every later deletion, and so every
\* later move of the meeting, fail.
RefIsLive ==
  entry.ref # 0 =>
    \/ docs[entry.ref] # "absent"
    \/ \E a \in Actors : work[a].at = "ready" /\ work[a].doc = entry.ref
    \/ entry.ref = lost.ref

Waiting == entry.stage \in SCHEDULABLE_STAGES /\ entry.ref = 0 /\ ~entry.err

\* Nobody has failed in silence: neither the session that was to schedule the
\* draft for the slot, nor the task of the slot at its last try.
Unharmed == ~lost.moved /\ ~lost.spent

\* A card that waits for its draft, shows no error and names a task has a
\* message for its slot, in the queue or at a worker: nobody revokes it, drops
\* it or replaces the slot without sending a new one, unless a session was lost
\* with the task revoked, the roll of the card logged an error, or 1C could not
\* be read at the last try.
DraftIsOnTheWay ==
  Waiting /\ entry.task # 0 /\ Unharmed =>
    \/ \E m \in queue : m.slot = entry.slot
    \/ \E w \in Workers : work[w].at # "idle" /\ work[w].msg.slot = entry.slot

\* A card with a task for its slot gets its draft, moves on, is cancelled or
\* shows an error: the task taken early or late, retried, copied or redelivered
\* does not leave the meeting waiting for ever, with the same exceptions.
DraftComes == (Waiting /\ entry.task = entry.slot) ~> ~(Waiting /\ Unharmed)

\* Listing the registry completes a meeting that is still ahead only if its
\* protocol is closed in 1C (sync_protocol_stages: stages by the status of the
\* protocols in 1C).
CompletedMeansClosed ==
  entry.stage = "meeting_completed" /\ entry.ref # 0 /\ phase = "ahead" /\ ~Locked =>
    docs[entry.ref] = "closed"
=============================================================================
