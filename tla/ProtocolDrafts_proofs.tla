------------------------ MODULE ProtocolDrafts_proofs ------------------------
(***************************************************************************)
(* Proofs about ProtocolDrafts for every number of workers, requests and    *)
(* protocols, every choice among its faults and every bound.                *)
(*                                                                         *)
(* RefIsLive is not inductive: whether the reference an actor writes, or    *)
(* the protocol it deletes, is the right one depends on the copy of the row *)
(* it has been working on since its session loaded it.  The inductive       *)
(* invariant says what these copies are worth at each point.                *)
(***************************************************************************)
EXTENDS ProtocolDrafts, TLAPS

Holds(a) == work[a].at \in {"flushed", "ready"}

\* Who carries a message, and what a worker does.
WellFormed ==
  /\ \A w \in Workers : work[w].at \in {"idle", "creating", "posted"}
  /\ \A w \in Workers : work[w].at # "idle" => work[w].msg \in Messages
  /\ \A a \in Actors :
       work[a].at \in {"moving", "regrouping", "flushed", "ready"} => work[a].msg \in Messages

Typed == TypeOK /\ WellFormed

\* Who creates a draft has seen a card without one.
CreatorsSawNone ==
  \A a \in Actors : work[a].at \in {"creating", "posted"} => work[a].seen.ref = 0

\* A protocol that was posted and not yet saved exists, and nobody else has it.
PostedIsThere ==
  \A a \in Actors : work[a].at = "posted" =>
    /\ work[a].doc \in Docs
    /\ docs[work[a].doc] # "absent"
    /\ work[a].doc # entry.ref
    /\ \A b \in Actors : work[b].at = "posted" /\ work[b].doc = work[a].doc => b = a

\* One session at a time holds the row, and it knows what the row names.
HolderKnows ==
  /\ \A a, b \in Actors : Holds(a) /\ Holds(b) => a = b
  /\ \A a \in Actors :
       /\ work[a].at = "flushed" => work[a].seen.ref = entry.ref
       /\ work[a].at = "ready" =>
            /\ work[a].seen.ref \in {0, entry.ref}
            /\ work[a].seen.ref # 0 =>
                 docs[work[a].seen.ref] # "absent" \/ work[a].seen.ref = lost.ref
            /\ entry.ref = 0 \/ work[a].doc \in {0, entry.ref}

Safe == CreatorsSawNone /\ PostedIsThere /\ HolderKnows /\ RefIsLive

IInv == Typed /\ Safe

-----------------------------------------------------------------------------
(* What the helpers yield *)

Work == [at : Places, seen : Entries, msg : Messages \cup {None}, doc : Docs \cup {0}]

LEMMA SlotsAreNumbers == 1 \in Slots /\ \A n \in Nat : n < MaxEvents => n + 2 \in Slots
BY ProtocolAssumption DEF Slots

LEMMA FirstIsEntry == \A k : FirstEntry(k) \in Entries
BY SlotsAreNumbers DEF FirstEntry, Entries, Stages

LEMMA IdleIsWork == Idle \in Work /\ Idle.at = "idle" /\ Idle.seen.ref = 0
BY FirstIsEntry DEF Idle, Work, Places, FirstEntry

\* What a flush leaves is a row, and it names what the session wrote.
LEMMA FlushedRow ==
  ASSUME NEW old \in Entries, NEW new \in Entries, entry \in Entries
  PROVE  /\ Flushed(old, new) \in Entries
         /\ Flushed(old, new).ref = IF new.ref = old.ref THEN entry.ref ELSE new.ref
<1>1. DOMAIN entry = {"stage", "slot", "ref", "task", "err", "closed"}
  BY DEF Entries
<1>2. Flushed(old, new) = [stage  |-> IF new.stage = old.stage THEN entry.stage ELSE new.stage,
                           slot   |-> IF new.slot = old.slot THEN entry.slot ELSE new.slot,
                           ref    |-> IF new.ref = old.ref THEN entry.ref ELSE new.ref,
                           task   |-> IF new.task = old.task THEN entry.task ELSE new.task,
                           err    |-> IF new.err = old.err THEN entry.err ELSE new.err,
                           closed |-> IF new.closed = old.closed THEN entry.closed ELSE new.closed]
  BY <1>1 DEF Flushed
<1> QED
  BY <1>2 DEF Entries

LEMMA LoadedRow ==
  ASSUME entry \in Entries
  PROVE  Loaded \in Entries /\ Loaded.ref = entry.ref
BY SlotsAreNumbers DEF Loaded, Entries

LEMMA SessionIsWork ==
  ASSUME NEW at \in Places, NEW seen \in Entries, NEW m \in Messages \cup {None}
  PROVE  /\ Session(at, seen, m) \in Work
         /\ Session(at, seen, m).at = at
         /\ Session(at, seen, m).seen = seen
         /\ Session(at, seen, m).msg = m
         /\ Session(at, seen, m).doc = 0
BY DEF Session, Work

-----------------------------------------------------------------------------
(* One actor moves *)

\* The types of the actors after one of them went on to x.
LEMMA WorkTyped ==
  ASSUME Typed, NEW a \in Actors, NEW x \in Work, work' = [work EXCEPT ![a] = x],
         a \in Workers => /\ x.at \in {"idle", "creating", "posted"}
                          /\ x.at # "idle" => x.msg \in Messages,
         x.at \in {"moving", "regrouping", "flushed", "ready"} => x.msg \in Messages
  PROVE  work' \in [Actors -> Work] /\ WellFormed'
<1>1. work \in [Actors -> Work] /\ Workers \subseteq Actors
  BY DEF Typed, TypeOK, Work, Actors
<1>2. \A b \in Actors : work'[b] = IF b = a THEN x ELSE work[b]
  BY <1>1
<1>3. work' \in [Actors -> Work]
  BY <1>1
<1> QED
  BY <1>1, <1>2, <1>3 DEF Typed, WellFormed

\* The protocols that somebody counts on, a excepted, are still there.
Kept(a) ==
  \A d \in Docs :
    /\ docs[d] # "absent"
    /\ d = entry.ref \/ \E b \in Actors \ {a} : work[b].at = "posted" /\ work[b].doc = d
    => docs'[d] # "absent"

\* An actor that ends up with neither a protocol nor the row disturbs nobody.
LEMMA QuietStep ==
  ASSUME IInv, NEW a \in Actors, NEW x \in Work, work' = [work EXCEPT ![a] = x],
         entry'.ref = entry.ref, Kept(a),
         x.at \notin {"posted", "flushed", "ready"},
         x.at = "creating" => x.seen.ref = 0,
         work[a].at # "ready", lost'.ref = lost.ref
  PROVE  Safe'
<1>1. /\ work \in [Actors -> Work]
      /\ entry.ref \in Docs \cup {0}
  BY DEF IInv, Typed, TypeOK, Work, Entries
<1>2. \A b \in Actors : work'[b] = IF b = a THEN x ELSE work[b]
  BY <1>1
<1>3. CreatorsSawNone'
  BY <1>2 DEF IInv, Safe, CreatorsSawNone
<1>4. PostedIsThere'
  BY <1>2 DEF IInv, Safe, PostedIsThere, Kept
<1>5. \A b \in Actors : Holds(b)' => Holds(b) /\ work'[b] = work[b]
  BY <1>2 DEF Holds
<1>6. HolderKnows'
  BY <1>1, <1>5, <1>2 DEF IInv, Safe, HolderKnows, Kept
<1>7. RefIsLive'
  <2>1. ASSUME NEW b \in Actors, work[b].at = "ready" PROVE work'[b] = work[b]
    BY <1>2, <2>1
  <2> QED
    BY <1>1, <2>1 DEF IInv, Safe, RefIsLive, Kept
<1> QED
  BY <1>3, <1>4, <1>6, <1>7 DEF Safe

\* Nobody moves, and the protocols in use stay.
LEMMA StillStep ==
  ASSUME IInv, work' = work, entry'.ref = entry.ref, lost'.ref = lost.ref,
         \A d \in Docs : docs[d] # "absent" => docs'[d] # "absent"
  PROVE  Safe'
<1>1. entry.ref \in Docs \cup {0}
  BY DEF IInv, Typed, TypeOK, Entries
<1>2. CreatorsSawNone' /\ PostedIsThere'
  BY DEF IInv, Safe, CreatorsSawNone, PostedIsThere
<1>3. HolderKnows'
  BY <1>1 DEF IInv, Safe, HolderKnows, Holds
<1>4. RefIsLive'
  BY <1>1 DEF IInv, Safe, RefIsLive
<1> QED
  BY <1>2, <1>3, <1>4 DEF Safe

\* A session takes the free row, as it is.
LEMMA TakeRow ==
  ASSUME IInv, NEW a \in Actors, NEW x \in Work, work' = [work EXCEPT ![a] = x],
         ~Locked, x.at \in {"flushed", "ready"}, x.seen.ref = entry.ref,
         x.at = "ready" => x.doc = 0, UNCHANGED <<entry, docs, lost>>
  PROVE  Safe'
<1>1. /\ work \in [Actors -> Work]
      /\ entry.ref \in Docs \cup {0}
  BY DEF IInv, Typed, TypeOK, Work, Entries
<1>2. \A b \in Actors : work'[b] = IF b = a THEN x ELSE work[b]
  BY <1>1
<1>3. \A b \in Actors : ~Holds(b)
  BY DEF Locked, Holds
<1>4. entry.ref # 0 => docs[entry.ref] # "absent" \/ entry.ref = lost.ref
  BY <1>3 DEF Holds, IInv, Safe, RefIsLive
<1>5. CreatorsSawNone' /\ PostedIsThere'
  BY <1>2 DEF IInv, Safe, CreatorsSawNone, PostedIsThere
<1>6. HolderKnows'
  BY <1>2, <1>3, <1>4 DEF HolderKnows, Holds
<1>7. RefIsLive'
  BY <1>4 DEF RefIsLive
<1> QED
  BY <1>5, <1>6, <1>7 DEF Safe

\* The holder of the row writes what it knows and commits.
LEMMA GiveRow ==
  ASSUME IInv, NEW a \in Actors, work' = [work EXCEPT ![a] = Idle],
         work[a].at = "ready", entry'.ref = work[a].seen.ref, UNCHANGED docs,
         lost'.ref = lost.ref
  PROVE  Safe'
<1>1. /\ work \in [Actors -> Work]
      /\ entry.ref \in Docs \cup {0}
      /\ 0 \notin Docs
  BY ProtocolAssumption DEF IInv, Typed, TypeOK, Work, Entries
<1>2. \A b \in Actors : work'[b] = IF b = a THEN Idle ELSE work[b]
  BY <1>1
<1>3. \A b \in Actors : ~Holds(b)'
  BY <1>2, IdleIsWork DEF IInv, Safe, HolderKnows, Holds
<1>4. /\ work[a].seen.ref \in {0, entry.ref}
      /\ work[a].seen.ref # 0 =>
           docs[work[a].seen.ref] # "absent" \/ work[a].seen.ref = lost.ref
  BY DEF IInv, Safe, HolderKnows
<1>5. CreatorsSawNone'
  BY <1>2, IdleIsWork DEF IInv, Safe, CreatorsSawNone
<1>6. PostedIsThere'
  BY <1>1, <1>2, <1>4, IdleIsWork DEF IInv, Safe, PostedIsThere
<1>7. HolderKnows'
  BY <1>3 DEF HolderKnows, Holds
<1>8. RefIsLive'
  BY <1>4 DEF RefIsLive
<1> QED
  BY <1>5, <1>6, <1>7, <1>8 DEF Safe

-----------------------------------------------------------------------------
(* Every step keeps the invariant *)

LEMMA Types ==
  ASSUME Typed
  PROVE  /\ work \in [Actors -> Work]
         /\ \A a \in Actors : /\ work[a] \in Work
                              /\ work[a].seen \in Entries
                              /\ work[a].seen.ref \in Docs \cup {0}
                              /\ work[a].msg \in Messages \cup {None}
                              /\ work[a].doc \in Docs \cup {0}
         /\ entry \in Entries
         /\ docs \in [Docs -> {"absent", "draft", "closed"}]
         /\ lost \in Losses
         /\ 0 \notin Docs
         /\ Workers \subseteq Actors /\ Clients \subseteq Actors /\ Beat \in Actors
         /\ Beat \notin Workers /\ \A c \in Clients : c \notin Workers
BY ProtocolAssumption DEF Typed, TypeOK, Work, Entries, Actors

\* Whatever is unchanged is kept for everybody.
LEMMA SameDocs == docs' = docs => \A a \in Actors : Kept(a)
BY DEF Kept

\* Forgetting the protocols nobody names keeps those of the others.
LEMMA ForgetKeeps ==
  ASSUME Typed, NEW a \in Actors, Done(a), UNCHANGED entry, Forget
  PROVE  Kept(a) /\ docs' \in [Docs -> {"absent", "draft", "closed"}]
<1>1. \A b \in Actors : b # a => work'[b] = work[b]
  BY Types DEF Done
<1>2. \A d \in Docs : docs'[d] = IF Named(d)' THEN docs[d] ELSE "absent"
  BY DEF Forget
<1>3. ASSUME NEW d \in Docs,
             d = entry.ref \/ \E b \in Actors \ {a} : work[b].at = "posted" /\ work[b].doc = d
      PROVE  Named(d)'
  BY <1>1, <1>3 DEF Named
<1>4. docs' \in [Docs -> {"absent", "draft", "closed"}]
  BY Types DEF Forget
<1> QED
  BY <1>2, <1>3, <1>4 DEF Kept

\* A worker or a request opens a session to create a draft.
LEMMA OpenKeeps ==
  ASSUME IInv, NEW a \in Actors, NEW at \in {"creating", "checking"},
         NEW m \in Messages \cup {None}, Open(a, at, m),
         a \in Workers => at = "creating" /\ m \in Messages,
         at = "creating" => entry.ref = 0,
         work[a].at # "ready", entry'.ref = entry.ref, UNCHANGED <<docs, lost>>
  PROVE  work' \in [Actors -> Work] /\ WellFormed' /\ Safe'
<1> DEFINE x == Session(at, Loaded, m)
<1>1. /\ Typed
      /\ entry \in Entries
      /\ at \in Places
  BY Types DEF IInv, Places
<1>2. /\ x \in Work
      /\ x.at = at /\ x.seen.ref = entry.ref /\ x.msg = m
  BY <1>1, LoadedRow, SessionIsWork
<1>3. work' = [work EXCEPT ![a] = x]
  BY DEF Open
<1> HIDE DEF x
<1>4. work' \in [Actors -> Work] /\ WellFormed'
  BY <1>1, <1>2, <1>3, WorkTyped
<1>5. Safe'
  BY <1>2, <1>3, QuietStep, SameDocs
<1> QED
  BY <1>4, <1>5

\* An actor is done, having neither the row nor an unsaved protocol to lose.
LEMMA DoneKeeps ==
  ASSUME IInv, NEW a \in Actors, Done(a), Kept(a),
         work[a].at # "ready", entry'.ref = entry.ref, lost'.ref = lost.ref
  PROVE  work' \in [Actors -> Work] /\ WellFormed' /\ Safe'
<1>1. work' = [work EXCEPT ![a] = Idle]
  BY DEF Done
<1>2. work' \in [Actors -> Work] /\ WellFormed'
  BY <1>1, IdleIsWork, WorkTyped DEF IInv
<1>3. Safe'
  BY <1>1, IdleIsWork, QuietStep
<1> QED
  BY <1>2, <1>3

LEMMA DeliverKeeps ==
  ASSUME IInv, NEW w \in Workers, Deliver(w)
  PROVE  IInv'
<1>1. PICK m \in queue : /\ work[w].at = "idle"
                         /\ queue' = queue \ {m}
                         /\ IF MayCreate(FALSE) THEN Open(w, "creating", m) ELSE UNCHANGED work
                         /\ UNCHANGED <<kind, entry, phase, docs, revoked, lost, moves, faults>>
  BY DEF Deliver
<1>2. Typed /\ w \in Actors /\ m \in Messages
  BY <1>1, Types DEF IInv, Typed, TypeOK
<1>3. work' \in [Actors -> Work] /\ WellFormed' /\ Safe'
  <2>1. CASE MayCreate(FALSE)
    BY <1>1, <1>2, <2>1, OpenKeeps DEF MayCreate
  <2>2. CASE ~MayCreate(FALSE)
    <3>1. Safe'
      BY <1>1, <2>2, StillStep
    <3> QED
      BY <1>1, <1>2, <2>2, <3>1, Types DEF Typed, WellFormed
  <2> QED
    BY <2>1, <2>2
<1> QED
  BY <1>1, <1>2, <1>3 DEF IInv, Typed, TypeOK, Work

LEMMA AskKeeps ==
  ASSUME IInv, NEW c \in Clients, Ask(c)
  PROVE  IInv'
<1>1. Typed /\ c \in Actors /\ c \notin Workers
  BY Types DEF IInv
<1>2. work' \in [Actors -> Work] /\ WellFormed' /\ Safe'
  BY <1>1, OpenKeeps DEF Ask, MayCreate
<1> QED
  BY <1>1, <1>2 DEF Ask, IInv, Typed, TypeOK, Work

LEMMA PostKeeps ==
  ASSUME IInv, NEW a \in Actors, Post(a)
  PROVE  IInv'
<1>1. PICK d \in Docs : /\ work[a].at = "creating"
                        /\ ~Named(d)
                        /\ docs' = [docs EXCEPT ![d] = "draft"]
                        /\ work' = [work EXCEPT ![a].at = "posted", ![a].doc = d]
                        /\ lost' = [lost EXCEPT !.ref = IF @ = d THEN 0 ELSE @]
                        /\ UNCHANGED <<kind, entry, phase, queue, revoked, moves, faults>>
  BY DEF Post
<1> DEFINE x == [work[a] EXCEPT !.at = "posted", !.doc = d]
<1>2. /\ Typed
      /\ x \in Work
      /\ x.at = "posted" /\ x.doc = d /\ x.seen = work[a].seen /\ x.msg = work[a].msg
      /\ work' = [work EXCEPT ![a] = x]
  BY <1>1, Types DEF IInv, Work, Places
<1> HIDE DEF x
<1>3. work[a].seen.ref = 0 /\ (a \in Workers => work[a].msg \in Messages)
  BY <1>1, <1>2 DEF IInv, Safe, CreatorsSawNone, Typed, WellFormed
<1>4. work' \in [Actors -> Work] /\ WellFormed'
  BY <1>2, <1>3, WorkTyped
<1>5. \A b \in Actors : work'[b] = IF b = a THEN x ELSE work[b]
  BY <1>2, Types
<1>6. \A e \in Docs : docs[e] # "absent" => docs'[e] # "absent"
  BY <1>1, <1>2, Types
<1>7. CreatorsSawNone'
  BY <1>2, <1>3, <1>5 DEF IInv, Safe, CreatorsSawNone
<1>8. PostedIsThere'
  <2>1. docs'[d] # "absent" /\ d # entry'.ref
    BY <1>1, <1>2, Types DEF Named
  <2>2. \A b \in Actors : work[b].doc # d
    BY <1>1 DEF Named
  <2>3. entry' = entry /\ PostedIsThere
    BY <1>1 DEF IInv, Safe
  <2>4. SUFFICES ASSUME NEW b \in Actors, work'[b].at = "posted"
                 PROVE  /\ work'[b].doc \in Docs
                        /\ docs'[work'[b].doc] # "absent"
                        /\ work'[b].doc # entry'.ref
                        /\ \A e \in Actors : work'[e].at = "posted" /\ work'[e].doc = work'[b].doc => e = b
    BY DEF PostedIsThere
  <2>5. CASE b = a
    BY <1>2, <1>5, <2>1, <2>2, <2>5
  <2>6. CASE b # a
    BY <1>2, <1>5, <1>6, <2>2, <2>3, <2>4, <2>6 DEF PostedIsThere
  <2> QED
    BY <2>5, <2>6
<1>l. lost' \in Losses /\ (lost.ref = entry.ref => lost'.ref = lost.ref)
  <2>1. entry.ref # d
    BY <1>1 DEF Named
  <2> QED
    BY <1>1, <1>2, <2>1, Types DEF Losses
<1>9. \A b \in Actors : Holds(b)' => Holds(b) /\ work'[b] = work[b]
  BY <1>2, <1>5 DEF Holds
<1>10. HolderKnows'
  <2>1. entry' = entry /\ entry.ref \in Docs \cup {0}
    BY <1>1, <1>2, Types DEF Entries
  <2>2. \A b, e \in Actors : Holds(b)' /\ Holds(e)' => b = e
    BY <1>9 DEF IInv, Safe, HolderKnows
  <2>3. ASSUME NEW b \in Actors, work'[b].at = "flushed" PROVE work'[b].seen.ref = entry'.ref
    BY <1>9, <2>1, <2>3 DEF IInv, Safe, HolderKnows, Holds
  <2>4. ASSUME NEW b \in Actors, work'[b].at = "ready"
        PROVE  /\ work'[b].seen.ref \in {0, entry'.ref}
               /\ work'[b].seen.ref # 0 =>
                    docs'[work'[b].seen.ref] # "absent" \/ work'[b].seen.ref = lost'.ref
               /\ entry'.ref = 0 \/ work'[b].doc \in {0, entry'.ref}
    <3>1. work'[b] = work[b] /\ work[b].at = "ready"
      BY <1>9, <2>4 DEF Holds
    <3> QED
      BY <1>6, <1>l, <2>1, <3>1 DEF IInv, Safe, HolderKnows
  <2> QED
    BY <2>2, <2>3, <2>4 DEF HolderKnows
<1>11. RefIsLive'
  <2>1. ASSUME NEW b \in Actors, work[b].at = "ready" PROVE work'[b] = work[b]
    BY <1>1, <1>5, <2>1
  <2>2. entry.ref \in Docs \cup {0}
    BY <1>2, Types DEF Entries
  <2> QED
    BY <1>1, <1>6, <1>l, <2>1, <2>2 DEF IInv, Safe, RefIsLive
<1>12. docs' \in [Docs -> {"absent", "draft", "closed"}]
  BY <1>1, <1>2, Types
<1> QED
  BY <1>1, <1>4, <1>7, <1>8, <1>10, <1>11, <1>12, <1>l DEF IInv, Safe, Typed, TypeOK, Work

LEMMA SaveKeeps ==
  ASSUME IInv, NEW a \in Actors, Save(a)
  PROVE  IInv'
<1> DEFINE old == work[a].seen
           new == [old EXCEPT !.ref = work[a].doc, !.task = 0, !.err = FALSE,
                              !.stage = "protocol_created"]
<1>1. /\ Typed
      /\ work[a].at = "posted" /\ ~Locked
      /\ work[a].doc \in Docs
      /\ old.ref = 0
      /\ work[a].doc # 0
  BY Types DEF Save, IInv, Safe, CreatorsSawNone, PostedIsThere
<1>2. old \in Entries /\ new \in Entries /\ new.ref = work[a].doc
  BY <1>1, Types DEF Entries, Stages
<1>3. entry' = Flushed(old, new)
  BY DEF Save
<1> HIDE DEF old, new
<1>4. entry' \in Entries /\ entry'.ref = work[a].doc
  BY <1>1, <1>2, <1>3, FlushedRow, Types
<1>5. work' = [work EXCEPT ![a] = Idle]
  BY DEF Save, Done
<1>6. work' \in [Actors -> Work] /\ WellFormed'
  BY <1>1, <1>5, IdleIsWork, WorkTyped
<1>7. \A b \in Actors : work'[b] = IF b = a THEN Idle ELSE work[b]
  BY <1>1, <1>5, Types
<1>8. /\ docs' \in [Docs -> {"absent", "draft", "closed"}]
      /\ \A d \in Docs :
           d = entry'.ref \/ (\E b \in Actors : work'[b].doc = d) => docs'[d] = docs[d]
  <2>1. \A d \in Docs : docs'[d] = IF Named(d)' THEN docs[d] ELSE "absent"
    BY DEF Save, Forget
  <2>2. docs' \in [Docs -> {"absent", "draft", "closed"}]
    BY <1>1, Types DEF Save, Forget
  <2> QED
    BY <2>1, <2>2 DEF Named
<1>9. \A b \in Actors : ~Holds(b)'
  BY <1>1, <1>7, IdleIsWork DEF Locked, Holds
<1>10. CreatorsSawNone'
  BY <1>7, IdleIsWork DEF IInv, Safe, CreatorsSawNone
<1>11. PostedIsThere'
  BY <1>1, <1>4, <1>7, <1>8, IdleIsWork DEF IInv, Safe, PostedIsThere
<1>12. HolderKnows'
  BY <1>9 DEF HolderKnows, Holds
<1>13. RefIsLive'
  BY <1>1, <1>4, <1>8 DEF IInv, Safe, PostedIsThere, RefIsLive
<1> QED
  BY <1>4, <1>6, <1>8, <1>10, <1>11, <1>12, <1>13 DEF Save, IInv, Safe, Typed, TypeOK, Work

LEMMA CreateFailsKeeps ==
  ASSUME IInv, NEW a \in Actors, CreateFails(a)
  PROVE  IInv'
<1> DEFINE old == work[a].seen
           new == [old EXCEPT !.err = TRUE]
<1>1. Typed /\ Done(a) /\ work[a].at = "creating" /\ UNCHANGED <<docs, lost>>
  BY DEF CreateFails, IInv
<1>2. old \in Entries /\ new \in Entries /\ new.ref = old.ref
  BY <1>1, Types DEF Entries
<1>3. entry' = entry \/ entry' = Flushed(old, new)
  BY DEF CreateFails
<1> HIDE DEF old, new
<1>4. entry' \in Entries /\ entry'.ref = entry.ref
  BY <1>1, <1>2, <1>3, FlushedRow, Types
<1>5. work' \in [Actors -> Work] /\ WellFormed' /\ Safe'
  BY <1>1, <1>4, SameDocs, DoneKeeps
<1>6. queue' \subseteq Messages
  <2>1. ASSUME work[a].msg # None, work[a].msg.tries < MaxRetries
        PROVE  [work[a].msg EXCEPT !.tries = @ + 1] \in Messages
    BY <1>1, <2>1, Types DEF Messages, MaxRetries
  <2> QED
    BY <1>1, <2>1 DEF CreateFails, Typed, TypeOK
<1>7. faults' \in 0 .. MaxEvents
  BY <1>1, ProtocolAssumption DEF CreateFails, Trouble, Typed, TypeOK
<1> QED
  BY <1>1, <1>4, <1>5, <1>6, <1>7 DEF CreateFails, IInv, Typed, TypeOK, Work

LEMMA ReadFailsKeeps ==
  ASSUME IInv, NEW a \in Actors, ReadFails(a)
  PROVE  IInv'
<1>1. /\ Typed /\ Done(a) /\ work[a].at = "creating"
      /\ UNCHANGED <<kind, entry, phase, docs, revoked, moves>>
  BY DEF ReadFails, IInv
<1>2. lost' \in Losses /\ lost'.ref = lost.ref
  BY <1>1, Types DEF ReadFails, Losses, Exhausted
<1>3. work' \in [Actors -> Work] /\ WellFormed' /\ Safe'
  BY <1>1, <1>2, SameDocs, DoneKeeps
<1>4. queue' \subseteq Messages
  <2>1. ASSUME a \in Workers, work[a].msg.tries < MaxRetries
        PROVE  [work[a].msg EXCEPT !.tries = @ + 1] \in Messages
    <3>1. work[a].msg \in Messages
      BY <1>1, <2>1 DEF Typed, WellFormed
    <3> QED
      BY <2>1, <3>1 DEF Messages, MaxRetries
  <2> QED
    BY <1>1, <2>1 DEF ReadFails, Typed, TypeOK
<1>5. faults' \in 0 .. MaxEvents
  BY <1>1, ProtocolAssumption DEF ReadFails, Unreadable, Trouble, Typed, TypeOK
<1> QED
  BY <1>1, <1>2, <1>3, <1>4, <1>5 DEF IInv, Typed, TypeOK, Work

LEMMA DispatchKeeps ==
  ASSUME IInv, Dispatch
  PROVE  IInv'
<1>1. Typed /\ Beat \in Actors /\ Beat \notin Workers
  BY Types DEF IInv
<1>2. CASE entry' = [entry EXCEPT !.task = entry.slot, !.err = FALSE] /\ UNCHANGED work
  <2>1. entry' \in Entries /\ entry'.ref = entry.ref
    BY <1>1, <1>2, Types DEF Entries
  <2>2. Safe'
    BY <1>2, <2>1, StillStep DEF Dispatch
  <2>3. queue' \subseteq Messages
    BY <1>1, Types DEF Dispatch, Message, Messages, MaxRetries, Entries, Typed, TypeOK
  <2> QED
    BY <1>1, <1>2, <2>1, <2>2, <2>3 DEF Dispatch, IInv, Typed, TypeOK, WellFormed
<1>3. CASE Open(Beat, "creating", None) /\ UNCHANGED <<entry, queue>>
  <2>1. work' \in [Actors -> Work] /\ WellFormed' /\ Safe'
    BY <1>1, <1>3, OpenKeeps DEF Dispatch
  <2> QED
    BY <1>1, <1>3, <2>1 DEF Dispatch, IInv, Typed, TypeOK, Work
<1> QED
  BY <1>2, <1>3 DEF Dispatch

\* A new slot is scheduled by the message of a later number.
LEMMA MoveOpened ==
  ASSUME Typed, NEW a \in Actors, NEW at \in Places, NEW seen \in Entries, OpenMove(a, at, seen)
  PROVE  /\ moves' \in 0 .. MaxEvents
         /\ moves + 2 \in Slots
         /\ Session(at, seen, Message(moves + 2)) \in Work
         /\ Session(at, seen, Message(moves + 2)).at = at
         /\ Session(at, seen, Message(moves + 2)).seen = seen
         /\ Session(at, seen, Message(moves + 2)).msg \in Messages
         /\ Session(at, seen, Message(moves + 2)).doc = 0
         /\ work' = [work EXCEPT ![a] = Session(at, seen, Message(moves + 2))]
<1>1. moves' \in 0 .. MaxEvents /\ moves + 2 \in Slots
  BY ProtocolAssumption DEF OpenMove, Slots, Typed, TypeOK
<1>2. Message(moves + 2) \in Messages
  BY <1>1 DEF Message, Messages, MaxRetries
<1> QED
  BY <1>1, <1>2, SessionIsWork DEF OpenMove

LEMMA MoveStartKeeps ==
  ASSUME IInv, NEW c \in Clients, MoveStart(c)
  PROVE  IInv'
<1>1. Typed /\ c \in Actors /\ c \notin Workers /\ work[c].at = "idle" /\ entry \in Entries
  BY Types DEF IInv, MoveStart
<1>2. PICK at \in {"moving", "regrouping"}, seen \in Entries : OpenMove(c, at, seen)
  BY <1>1, LoadedRow, IdleIsWork DEF MoveStart, Work
<1> DEFINE x == Session(at, seen, Message(moves + 2))
<1>3. /\ moves' \in 0 .. MaxEvents
      /\ x \in Work /\ x.at = at /\ x.msg \in Messages
      /\ work' = [work EXCEPT ![c] = x]
  BY <1>1, <1>2, MoveOpened DEF Places
<1> HIDE DEF x
<1>4. work' \in [Actors -> Work] /\ WellFormed'
  BY <1>1, <1>3, WorkTyped
<1>5. Safe'
  BY <1>1, <1>3, SameDocs, QuietStep DEF MoveStart
<1> QED
  BY <1>1, <1>3, <1>4, <1>5 DEF MoveStart, IInv, Typed, TypeOK, Work

LEMMA MoveFlushKeeps ==
  ASSUME IInv, NEW c \in Clients, MoveFlush(c)
  PROVE  IInv'
<1> DEFINE old == IF work[c].at = "moving" THEN work[c].seen ELSE entry
           new == [old EXCEPT !.stage = "invitations_sent"]
           row == Flushed(old, new)
           seen == [row EXCEPT !.slot = work[c].msg.slot, !.closed = FALSE]
           x == [work[c] EXCEPT !.at = "flushed", !.seen = seen]
<1>1. /\ Typed /\ c \in Actors /\ c \notin Workers
      /\ work[c].at \in {"moving", "regrouping"} /\ ~Locked
      /\ work[c].msg \in Messages
      /\ work[c] \in Work
  BY Types DEF IInv, MoveFlush, Typed, WellFormed
<1>2. old \in Entries /\ new \in Entries /\ new.ref = old.ref
  BY <1>1, Types DEF Entries, Stages
<1>3. work' = [work EXCEPT ![c].at = "flushed", ![c].seen = seen]
  BY DEF MoveFlush
<1> HIDE DEF old, new
<1>4. row \in Entries /\ row.ref = entry.ref
  BY <1>1, <1>2, FlushedRow, Types
<1> HIDE DEF row
<1>5. seen \in Entries /\ seen.ref = entry.ref
  BY <1>1, <1>4 DEF Entries, Messages
<1> HIDE DEF seen
<1>6. /\ x \in Work /\ x.at = "flushed" /\ x.seen = seen /\ x.msg \in Messages
      /\ work' = [work EXCEPT ![c] = x]
  BY <1>1, <1>3, <1>5, Types DEF Work, Places
<1> HIDE DEF x
<1>7. work' \in [Actors -> Work] /\ WellFormed'
  BY <1>1, <1>6, WorkTyped
<1>8. Safe'
  BY <1>1, <1>5, <1>6, TakeRow DEF MoveFlush
<1> QED
  BY <1>7, <1>8 DEF MoveFlush, IInv, Typed, TypeOK, Work

\* Sessions that load and write the row at once.
LEMMA TakeMove ==
  ASSUME IInv, NEW a \in Actors, a \notin Workers, ~Locked,
         NEW at \in {"flushed", "ready"}, NEW seen \in Entries, seen.ref = entry.ref,
         OpenMove(a, at, seen), UNCHANGED <<kind, entry, phase, docs, queue, revoked, lost, faults>>
  PROVE  IInv'
<1> DEFINE x == Session(at, seen, Message(moves + 2))
<1>1. /\ moves' \in 0 .. MaxEvents
      /\ x \in Work /\ x.at = at /\ x.seen = seen /\ x.msg \in Messages /\ x.doc = 0
      /\ work' = [work EXCEPT ![a] = x]
  BY MoveOpened DEF Places, IInv
<1> HIDE DEF x
<1>2. work' \in [Actors -> Work] /\ WellFormed'
  BY <1>1, WorkTyped DEF IInv
<1>3. Safe'
  BY <1>1, TakeRow
<1> QED
  BY <1>1, <1>2, <1>3 DEF IInv, Typed, TypeOK, Work

LEMMA InviteKeeps ==
  ASSUME IInv, NEW c \in Clients, Invite(c)
  PROVE  IInv'
<1> DEFINE seen == [entry EXCEPT !.slot = moves + 2, !.stage = "invitations_sent", !.closed = FALSE]
<1>1. Typed /\ c \in Actors /\ c \notin Workers /\ entry \in Entries
  BY Types DEF IInv
<1>2. PICK at \in {"flushed", "ready"} : OpenMove(c, at, seen)
  BY DEF Invite
<1>3. moves + 2 \in Slots
  BY <1>1, <1>2, ProtocolAssumption DEF OpenMove, Slots, Typed, TypeOK
<1>4. seen \in Entries /\ seen.ref = entry.ref
  BY <1>1, <1>3 DEF Entries, Stages
<1> HIDE DEF seen
<1> QED
  BY <1>1, <1>2, <1>4, TakeMove DEF Invite

LEMMA RollKeeps ==
  ASSUME IInv, Roll
  PROVE  IInv'
<1> DEFINE seen == [entry EXCEPT !.slot = moves + 2,
                                 !.stage = IF phase = "past" THEN "scheduled" ELSE @]
<1>1. Typed /\ Beat \in Actors /\ Beat \notin Workers /\ entry \in Entries
  BY Types DEF IInv
<1>2. OpenMove(Beat, "flushed", seen)
  BY DEF Roll
<1>3. moves + 2 \in Slots
  BY <1>1, <1>2, ProtocolAssumption DEF OpenMove, Slots, Typed, TypeOK
<1>4. seen \in Entries /\ seen.ref = entry.ref
  BY <1>1, <1>3 DEF Entries, Stages
<1> HIDE DEF seen
<1> QED
  BY <1>1, <1>2, <1>4, TakeMove DEF Roll

LEMMA DeleteProtocolKeeps ==
  ASSUME IInv, NEW a \in Actors, DeleteProtocol(a)
  PROVE  IInv'
<1>1. /\ Typed /\ work[a] \in Work /\ work[a].at = "flushed" /\ entry' = entry
      /\ work[a].seen \in Entries /\ work[a].seen.ref = entry.ref
      /\ entry.ref \in Docs \cup {0}
      /\ a \notin Workers /\ work[a].msg \in Messages
  BY Types DEF IInv, Safe, HolderKnows, DeleteProtocol, Typed, WellFormed
<1>2. PICK x \in Work : /\ work' = [work EXCEPT ![a] = x]
                        /\ x.at = "ready" /\ x.msg = work[a].msg
                        /\ x.seen.ref = 0
                        /\ entry.ref # 0 => x.doc = entry.ref
  <2> DEFINE without == [work[a].seen EXCEPT !.ref = 0,
                           !.stage = IF @ = "protocol_created" THEN "invitations_sent" ELSE @]
             kept == [work[a] EXCEPT !.at = "ready"]
             gone == [work[a] EXCEPT !.at = "ready", !.seen = without, !.doc = work[a].seen.ref]
  <2>1. without \in Entries /\ without.ref = 0
    BY <1>1 DEF Entries, Stages
  <2>2. CASE work[a].seen.ref = 0 /\ work' = [work EXCEPT ![a].at = "ready"]
    <3>1. kept \in Work /\ kept.at = "ready" /\ kept.msg = work[a].msg /\ kept.seen.ref = 0
      BY <1>1, <2>2 DEF Work, Places
    <3>2. work' = [work EXCEPT ![a] = kept]
      BY <1>1, <2>2, Types
    <3> QED
      BY <1>1, <2>2, <3>1, <3>2
  <2>3. CASE work' = [work EXCEPT ![a].at = "ready", ![a].seen = without,
                                  ![a].doc = work[a].seen.ref]
    <3> HIDE DEF without
    <3>1. /\ gone \in Work /\ gone.at = "ready" /\ gone.msg = work[a].msg
          /\ gone.seen.ref = 0 /\ gone.doc = entry.ref
      BY <1>1, <2>1 DEF Work, Places
    <3>2. work' = [work EXCEPT ![a] = gone]
      BY <1>1, <2>3, Types
    <3> QED
      BY <3>1, <3>2
  <2> QED
    BY <2>2, <2>3 DEF DeleteProtocol
<1>3. work' \in [Actors -> Work] /\ WellFormed'
  BY <1>1, <1>2, WorkTyped
<1>4. /\ docs' \in [Docs -> {"absent", "draft", "closed"}]
      /\ \A d \in Docs : d # entry.ref => docs'[d] = docs[d]
  BY <1>1, Types DEF DeleteProtocol
<1>5. \A b \in Actors : work'[b] = IF b = a THEN x ELSE work[b]
  BY <1>1, <1>2, Types
<1>6. CreatorsSawNone'
  BY <1>2, <1>5 DEF IInv, Safe, CreatorsSawNone
<1>7. PostedIsThere'
  BY <1>1, <1>2, <1>4, <1>5 DEF IInv, Safe, PostedIsThere
<1>8. \A b \in Actors : Holds(b)' => b = a
  BY <1>1, <1>5 DEF IInv, Safe, HolderKnows, Holds
<1>9. HolderKnows'
  BY <1>1, <1>2, <1>5, <1>8 DEF HolderKnows, Holds
<1>10. RefIsLive'
  BY <1>1, <1>2, <1>5 DEF RefIsLive
<1> QED
  BY <1>1, <1>3, <1>4, <1>6, <1>7, <1>9, <1>10
  DEF DeleteProtocol, IInv, Safe, Typed, TypeOK, Work

LEMMA DeleteFailsKeeps ==
  ASSUME IInv, NEW a \in Actors, DeleteFails(a)
  PROVE  IInv'
<1>1. /\ Typed /\ Done(a) /\ docs' = docs /\ work[a].at = "flushed"
      /\ work[a].seen \in Entries /\ work[a].seen.ref = entry.ref /\ entry \in Entries
  BY Types DEF DeleteFails, IInv, Safe, HolderKnows
<1>2. entry' \in Entries /\ entry'.ref = entry.ref
  BY <1>1 DEF DeleteFails
<1>3. work' \in [Actors -> Work] /\ WellFormed' /\ Safe'
  <2>1. lost'.ref = lost.ref
    BY <1>1, Types DEF DeleteFails, Losses
  <2> QED
    BY <1>1, <1>2, <2>1, SameDocs, DoneKeeps
<1>4. phase' \in Phases /\ lost' \in Losses
  BY ProtocolAssumption DEF DeleteFails, Phases, Losses, IInv, Typed, TypeOK
<1>5. faults' \in 0 .. MaxEvents
  BY ProtocolAssumption DEF DeleteFails, Trouble, IInv, Typed, TypeOK
<1> QED
  BY <1>1, <1>2, <1>3, <1>4, <1>5 DEF DeleteFails, IInv, Typed, TypeOK, Work

\* Revocation removes messages and notes a slot.
LEMMA RevokeTyped ==
  ASSUME TypeOK, NEW slot \in Slots \cup {0}, NEW sent, sent \subseteq Messages, Revoke(slot, sent)
  PROVE  queue' \subseteq Messages /\ revoked' \subseteq Slots
BY DEF Revoke, TypeOK

\* The holder commits: a row that names what it knows.
LEMMA CommitKeeps ==
  ASSUME IInv, NEW a \in Actors, work[a].at = "ready", Done(a),
         entry' \in Entries, entry'.ref = work[a].seen.ref, UNCHANGED docs,
         lost'.ref = lost.ref
  PROVE  work' \in [Actors -> Work] /\ WellFormed' /\ Safe'
<1>1. work' = [work EXCEPT ![a] = Idle]
  BY DEF Done
<1>2. work' \in [Actors -> Work] /\ WellFormed'
  BY <1>1, IdleIsWork, WorkTyped DEF IInv
<1>3. Safe'
  BY <1>1, GiveRow
<1> QED
  BY <1>2, <1>3

LEMMA RescheduleKeeps ==
  ASSUME IInv, NEW a \in Actors, Reschedule(a)
  PROVE  IInv'
<1>1. /\ Typed /\ work[a].at = "ready" /\ Done(a) /\ docs' = docs
      /\ work[a].seen \in Entries /\ work[a].msg \in Messages
  BY Types DEF Reschedule, IInv, Typed, WellFormed
<1>2. entry' \in Entries /\ entry'.ref = work[a].seen.ref
  <2>1. \/ entry' = [work[a].seen EXCEPT !.task = work[a].seen.slot, !.err = FALSE]
        \/ entry' = [work[a].seen EXCEPT !.task = 0]
    BY DEF Reschedule
  <2> QED
    BY <1>1, <2>1 DEF Entries
<1>l. lost' \in Losses /\ lost'.ref = lost.ref
  BY <1>1, Types DEF Reschedule, Losses
<1>3. work' \in [Actors -> Work] /\ WellFormed' /\ Safe'
  BY <1>1, <1>2, <1>l, CommitKeeps
<1>4. phase' \in Phases
  BY ProtocolAssumption DEF Reschedule, Phases
<1>5. queue' \subseteq Messages /\ revoked' \subseteq Slots
  <2>1. PICK sent \in {{}, {work[a].msg}} : Revoke(work[a].seen.task, sent)
    BY DEF Reschedule
  <2>2. work[a].seen.task \in Slots \cup {0}
    BY <1>1 DEF Entries
  <2> QED
    BY <1>1, <2>1, <2>2, RevokeTyped DEF Typed
<1> QED
  BY <1>1, <1>2, <1>3, <1>4, <1>5, <1>l DEF Reschedule, IInv, Typed, TypeOK, Work

LEMMA RollRefusedKeeps ==
  ASSUME IInv, RollRefused
  PROVE  IInv'
<1>1. /\ Typed /\ Beat \in Actors /\ work[Beat].at = "ready" /\ Done(Beat) /\ docs' = docs
      /\ work[Beat].seen \in Entries
  BY Types DEF RollRefused, IInv
<1>2. entry' \in Entries /\ entry'.ref = work[Beat].seen.ref
  BY <1>1 DEF RollRefused, Entries
<1>l. lost' \in Losses /\ lost'.ref = lost.ref
  BY <1>1, Types DEF RollRefused, Losses
<1>3. work' \in [Actors -> Work] /\ WellFormed' /\ Safe'
  BY <1>1, <1>2, <1>l, CommitKeeps
<1>4. queue' \subseteq Messages /\ revoked' \subseteq Slots
  <2>1. work[Beat].seen.task \in Slots \cup {0} /\ {} \subseteq Messages
    BY <1>1 DEF Entries
  <2> QED
    BY <1>1, <2>1, RevokeTyped DEF RollRefused, Typed
<1>5. phase' \in Phases /\ faults' \in 0 .. MaxEvents
  BY ProtocolAssumption DEF RollRefused, Trouble, Phases, IInv, Typed, TypeOK
<1> QED
  BY <1>1, <1>2, <1>3, <1>4, <1>5, <1>l DEF RollRefused, IInv, Typed, TypeOK, Work

LEMMA CancelStartKeeps ==
  ASSUME IInv, NEW c \in Clients, CancelStart(c)
  PROVE  IInv'
<1> DEFINE x == [work[c] EXCEPT !.at = "cancelling"]
<1>1. /\ Typed /\ c \in Actors /\ c \notin Workers /\ work[c] \in Work
      /\ work' = [work EXCEPT ![c].at = "cancelling"]
  BY Types DEF IInv, CancelStart
<1>2. x \in Work /\ x.at = "cancelling" /\ work' = [work EXCEPT ![c] = x]
  BY <1>1, Types DEF Work, Places
<1> HIDE DEF x
<1>3. work' \in [Actors -> Work] /\ WellFormed'
  BY <1>1, <1>2, WorkTyped
<1>4. Safe'
  BY <1>1, <1>2, SameDocs, QuietStep DEF CancelStart
<1> QED
  BY <1>3, <1>4 DEF CancelStart, IInv, Typed, TypeOK, Work

LEMMA CancelEndKeeps ==
  ASSUME IInv, NEW c \in Clients, CancelEnd(c)
  PROVE  IInv'
<1>1. /\ Typed /\ c \in Actors /\ Done(c) /\ UNCHANGED <<docs, lost>> /\ work[c].at = "cancelling"
      /\ entry \in Entries
  BY Types DEF IInv, CancelEnd
<1>2. entry' \in Entries /\ entry'.ref = entry.ref /\ entry.task \in Slots \cup {0}
  BY <1>1 DEF CancelEnd, Entries, Stages
<1>3. work' \in [Actors -> Work] /\ WellFormed' /\ Safe'
  BY <1>1, <1>2, SameDocs, DoneKeeps
<1>4. queue' \subseteq Messages /\ revoked' \subseteq Slots
  BY <1>1, <1>2, RevokeTyped, {} \subseteq Messages DEF CancelEnd, Typed
<1> QED
  BY <1>2, <1>3, <1>4 DEF CancelEnd, IInv, Typed, TypeOK, Work

\* A session that held the row is lost, and what it deleted is noted.
LEMMA HolderLost ==
  ASSUME IInv, NEW a \in Actors, Done(a), Kept(a), UNCHANGED entry, work[a].at = "ready",
         lost'.ref = IF work[a].doc # 0 THEN work[a].doc ELSE lost.ref
  PROVE  work' \in [Actors -> Work] /\ WellFormed' /\ Safe'
<1>1. /\ Typed /\ work' = [work EXCEPT ![a] = Idle]
      /\ entry.ref \in Docs \cup {0} /\ 0 \notin Docs
  BY Types DEF Done, IInv, Entries
<1>2. work' \in [Actors -> Work] /\ WellFormed'
  BY <1>1, IdleIsWork, WorkTyped
<1>3. \A b \in Actors : work'[b] = IF b = a THEN Idle ELSE work[b]
  BY <1>1, Types
<1>4. CreatorsSawNone'
  BY <1>3, IdleIsWork DEF IInv, Safe, CreatorsSawNone
<1>5. PostedIsThere'
  BY <1>3, IdleIsWork DEF IInv, Safe, PostedIsThere, Kept
<1>6. \A b \in Actors : ~Holds(b)'
  BY <1>3, IdleIsWork DEF IInv, Safe, HolderKnows, Holds
<1>7. HolderKnows'
  BY <1>6 DEF HolderKnows, Holds
<1>8. RefIsLive'
  <2> SUFFICES ASSUME entry.ref # 0 PROVE docs'[entry.ref] # "absent" \/ entry.ref = lost'.ref
    BY DEF RefIsLive
  <2>1. work[a].doc \in {0, entry.ref}
    BY DEF IInv, Safe, HolderKnows
  <2>2. CASE docs[entry.ref] # "absent"
    BY <1>1, <2>2 DEF Kept
  <2>3. CASE \E b \in Actors : work[b].at = "ready" /\ work[b].doc = entry.ref
    <3>1. work[a].doc = entry.ref
      BY <2>3 DEF IInv, Safe, HolderKnows, Holds
    <3> QED
      BY <3>1
  <2>4. CASE entry.ref = lost.ref
    BY <2>1, <2>4
  <2> QED
    BY <2>2, <2>3, <2>4 DEF IInv, Safe, RefIsLive
<1> QED
  BY <1>2, <1>4, <1>5, <1>7, <1>8 DEF Safe

LEMMA PerishKeeps ==
  ASSUME IInv, NEW a \in Actors, Perish(a)
  PROVE  IInv'
<1>1. /\ Typed /\ Done(a) /\ Forget /\ UNCHANGED <<kind, entry, phase, moves>>
      /\ entry \in Entries /\ work[a].seen \in Entries /\ work[a].doc \in Docs \cup {0}
      /\ lost \in Losses
  BY Types DEF Perish, IInv
<1>2. PICK s \in {0, Unscheduled(a)}, sent \in SUBSET {work[a].msg} :
        /\ sent # {} => work[a].at = "ready"
        /\ Revoke(s, sent)
        /\ lost' = [lost EXCEPT !.moved = @ \/ s # 0,
                      !.ref = IF work[a].at = "ready" /\ work[a].doc # 0 THEN work[a].doc ELSE @]
  BY DEF Perish
<1>3. Kept(a) /\ docs' \in [Docs -> {"absent", "draft", "closed"}]
  BY <1>1, ForgetKeeps
<1>4. /\ lost' \in Losses
      /\ lost'.ref = IF work[a].at = "ready" /\ work[a].doc # 0 THEN work[a].doc ELSE lost.ref
  BY <1>1, <1>2 DEF Losses
<1>5. work' \in [Actors -> Work] /\ WellFormed' /\ Safe'
  <2>1. CASE work[a].at = "ready"
    BY <1>1, <1>3, <1>4, <2>1, HolderLost
  <2>2. CASE work[a].at # "ready"
    BY <1>1, <1>3, <1>4, <2>2, DoneKeeps
  <2> QED
    BY <2>1, <2>2
<1>6. queue' \subseteq Messages /\ revoked' \subseteq Slots
  <2>1. s \in Slots \cup {0}
    BY <1>1, <1>2 DEF Unscheduled, Entries
  <2>2. sent \subseteq Messages
    BY <1>1, <1>2 DEF Typed, WellFormed
  <2> QED
    BY <1>1, <1>2, <2>1, <2>2, RevokeTyped DEF Typed
<1>7. faults' \in 0 .. MaxEvents
  BY <1>1, ProtocolAssumption DEF Perish, Trouble, Typed, TypeOK
<1> QED
  BY <1>1, <1>3, <1>4, <1>5, <1>6, <1>7 DEF IInv, Typed, TypeOK, Work

LEMMA CheckStartKeeps ==
  ASSUME IInv, NEW c \in Clients, CheckStart(c)
  PROVE  IInv'
<1>1. Typed /\ c \in Actors /\ c \notin Workers /\ entry \in Entries
  BY Types DEF IInv
<1>2. CASE Open(c, "checking", None) /\ UNCHANGED entry
  <2>1. work' \in [Actors -> Work] /\ WellFormed' /\ Safe'
    BY <1>1, <1>2, OpenKeeps DEF CheckStart
  <2> QED
    BY <1>2, <2>1 DEF CheckStart, IInv, Typed, TypeOK, Work
<1>3. CASE entry' = [entry EXCEPT !.stage = "meeting_completed"] /\ UNCHANGED work
  <2>1. entry' \in Entries /\ entry'.ref = entry.ref
    BY <1>1, <1>3 DEF Entries, Stages
  <2>2. Safe'
    BY <1>3, <2>1, StillStep DEF CheckStart
  <2> QED
    BY <1>3, <2>1, <2>2 DEF CheckStart, IInv, Typed, TypeOK, WellFormed
<1> QED
  BY <1>2, <1>3 DEF CheckStart

LEMMA CheckEndKeeps ==
  ASSUME IInv, NEW c \in Clients, CheckEnd(c)
  PROVE  IInv'
<1> DEFINE old == work[c].seen
           closed == docs[old.ref] = "closed"
           new == [old EXCEPT !.stage = IF closed THEN "meeting_completed" ELSE old.stage]
           row == Flushed(old, new)
<1>1. /\ Typed /\ c \in Actors /\ Done(c) /\ UNCHANGED <<docs, lost>> /\ work[c].at = "checking"
      /\ entry \in Entries
  BY Types DEF IInv, CheckEnd
<1>2. old \in Entries /\ new \in Entries /\ new.ref = old.ref
  BY <1>1, Types DEF Entries, Stages
<1>3. row \in Entries /\ row.ref = entry.ref
  BY <1>1, <1>2, FlushedRow, ZenonT(120)
<1>4. entry' = entry \/ entry' = [row EXCEPT !.closed = closed]
  BY DEF CheckEnd
<1>5. closed \in BOOLEAN
  OBVIOUS
<1> HIDE DEF row, closed
<1>6. entry' \in Entries /\ entry'.ref = entry.ref
  BY <1>1, <1>3, <1>4, <1>5 DEF Entries
<1>7. work' \in [Actors -> Work] /\ WellFormed' /\ Safe'
  BY <1>1, <1>6, SameDocs, DoneKeeps
<1> QED
  BY <1>6, <1>7 DEF CheckEnd, IInv, Typed, TypeOK, Work

LEMMA CloseProtocolKeeps ==
  ASSUME IInv, NEW d \in Docs, CloseProtocol(d)
  PROVE  IInv'
<1>1. /\ docs' \in [Docs -> {"absent", "draft", "closed"}]
      /\ \A e \in Docs : docs[e] # "absent" => docs'[e] # "absent"
  BY Types DEF CloseProtocol, IInv
<1>2. Safe'
  BY <1>1, StillStep DEF CloseProtocol
<1> QED
  BY <1>1, <1>2 DEF CloseProtocol, IInv, Typed, TypeOK, WellFormed

LEMMA TickKeeps ==
  ASSUME IInv, Tick
  PROVE  IInv'
<1>1. Safe'
  BY StillStep DEF Tick
<1> QED
  BY <1>1 DEF Tick, Phases, IInv, Typed, TypeOK, WellFormed

LEMMA CrashKeeps ==
  ASSUME IInv, NEW w \in Workers, Crash(w)
  PROVE  IInv'
<1>1. /\ Typed /\ w \in Actors /\ Done(w) /\ UNCHANGED <<entry, lost>> /\ Forget
      /\ work[w].at \in {"creating", "posted"} /\ work[w].msg \in Messages
  BY Types DEF Crash, IInv, Typed, WellFormed
<1>2. Kept(w) /\ docs' \in [Docs -> {"absent", "draft", "closed"}]
  BY <1>1, ForgetKeeps
<1>3. work' \in [Actors -> Work] /\ WellFormed' /\ Safe'
  BY <1>1, <1>2, DoneKeeps
<1>4. queue' \subseteq Messages /\ faults' \in 0 .. MaxEvents
  BY <1>1, ProtocolAssumption DEF Crash, Trouble, Typed, TypeOK
<1> QED
  BY <1>1, <1>2, <1>3, <1>4 DEF Crash, IInv, Typed, TypeOK, Work

LEMMA TerminatedKeeps ==
  ASSUME IInv, NEW w \in Workers, Terminated(w)
  PROVE  IInv'
<1>1. /\ Typed /\ w \in Actors /\ Done(w) /\ UNCHANGED <<entry, lost>> /\ Forget
      /\ work[w].at \in {"creating", "posted"}
  BY Types DEF Terminated, IInv, Typed, WellFormed
<1>2. Kept(w) /\ docs' \in [Docs -> {"absent", "draft", "closed"}]
  BY <1>1, ForgetKeeps
<1>3. work' \in [Actors -> Work] /\ WellFormed' /\ Safe'
  BY <1>1, <1>2, DoneKeeps
<1> QED
  BY <1>1, <1>2, <1>3 DEF Terminated, IInv, Typed, TypeOK, Work

LEMMA RedeliverKeeps ==
  ASSUME IInv, NEW w \in Workers, Redeliver(w)
  PROVE  IInv'
<1>1. Safe'
  BY StillStep DEF Redeliver
<1>2. queue' \subseteq Messages /\ faults' \in 0 .. MaxEvents
  BY ProtocolAssumption DEF Redeliver, Trouble, IInv, Typed, TypeOK, WellFormed
<1> QED
  BY <1>1, <1>2 DEF Redeliver, IInv, Typed, TypeOK, WellFormed

-----------------------------------------------------------------------------
(* Theorems *)

\* No actor has started, and the card names no protocol.
LEMMA Initially == Init => IInv
<1> SUFFICES ASSUME Init PROVE IInv
  OBVIOUS
<1>1. /\ entry \in Entries /\ entry.ref = 0
      /\ \A a \in Actors : work[a] = Idle
  BY FirstIsEntry DEF Init, FirstEntry
<1>2. TypeOK
  <2>1. queue \subseteq Messages
    BY SlotsAreNumbers DEF Init, Messages, MaxRetries
  <2>2. work \in [Actors -> Work]
    BY IdleIsWork DEF Init
  <2>3. 0 \in 0 .. MaxEvents
    BY ProtocolAssumption
  <2>4. docs \in [Docs -> {"absent", "draft", "closed"}]
    BY DEF Init
  <2>5. kind \in Kinds /\ phase \in Phases /\ revoked \subseteq Slots /\ lost \in Losses
    BY DEF Init, Phases, Losses, NoLoss
  <2>6. moves \in 0 .. MaxEvents /\ faults \in 0 .. MaxEvents
    BY <2>3 DEF Init
  <2> QED
    BY <1>1, <2>1, <2>2, <2>4, <2>5, <2>6 DEF TypeOK, Work
<1>3. WellFormed
  BY <1>1, IdleIsWork DEF WellFormed, Actors
<1>4. Safe
  BY <1>1, IdleIsWork DEF Safe, CreatorsSawNone, PostedIsThere, HolderKnows, Holds, RefIsLive
<1> QED
  BY <1>2, <1>3, <1>4 DEF IInv, Typed

LEMMA Stutters == IInv /\ UNCHANGED vars => IInv'
<1> SUFFICES ASSUME IInv, UNCHANGED vars PROVE IInv'
  OBVIOUS
<1>1. Safe'
  BY StillStep DEF vars
<1> QED
  BY <1>1 DEF vars, IInv, Typed, TypeOK, WellFormed

\* Every step of the card's actors, of the clock and of the faults keeps the
\* invariant.
THEOREM Inductive == Spec => []IInv
<1>1. IInv /\ [Next]_vars => IInv'
  <2> SUFFICES ASSUME IInv, [Next]_vars PROVE IInv'
    OBVIOUS
  <2>1. CASE \E a \in Actors :
               Step(a) \/ CreateFails(a) \/ ReadFails(a) \/ DeleteFails(a) \/ Perish(a)
    BY <2>1, PostKeeps, SaveKeeps, DeleteProtocolKeeps, RescheduleKeeps, CreateFailsKeeps,
       ReadFailsKeeps, DeleteFailsKeeps, PerishKeeps DEF Step
  <2>2. CASE \E w \in Workers : Deliver(w) \/ Crash(w) \/ Terminated(w) \/ Redeliver(w)
    BY <2>2, DeliverKeeps, CrashKeeps, TerminatedKeeps, RedeliverKeeps
  <2>3. CASE \E c \in Clients : \/ Ask(c) \/ MoveStart(c) \/ Invite(c)
                                 \/ CancelStart(c) \/ CheckStart(c) \/ Answer(c)
    BY <2>3, AskKeeps, MoveStartKeeps, InviteKeeps, CancelStartKeeps, CheckStartKeeps,
       MoveFlushKeeps, CancelEndKeeps, CheckEndKeeps DEF Answer
  <2>4. CASE Dispatch \/ Roll \/ RollRefused
    BY <2>4, DispatchKeeps, RollKeeps, RollRefusedKeeps
  <2>5. CASE Tick \/ \E d \in Docs : CloseProtocol(d)
    BY <2>5, TickKeeps, CloseProtocolKeeps
  <2>6. CASE UNCHANGED vars
    BY <2>6, Stutters
  <2> QED
    BY <2>1, <2>2, <2>3, <2>4, <2>5, <2>6 DEF Next
<1> QED
  BY Initially, <1>1, PTL DEF Spec

\* Card, messages, protocols and sessions stay in range.
THEOREM TypeCorrect == Spec => []TypeOK
<1>1. IInv => TypeOK
  BY DEF IInv, Typed
<1> QED
  BY <1>1, Inductive, PTL

\* However many workers and requests create, delete and move at a time, the card
\* names a protocol that 1C has, except while the session that has just deleted
\* it holds the row, and except the protocol that a session had deleted when it
\* was lost before its commit.  Refused and unanswered calls, copied and
\* redelivered messages leave no other dead reference.
THEOREM CardNamesLiveProtocol == Spec => []RefIsLive
<1>1. IInv => RefIsLive
  BY DEF IInv, Safe
<1> QED
  BY <1>1, Inductive, PTL

-----------------------------------------------------------------------------
(* The draft is on the way *)

\* The session has chosen a new slot for the meeting and not written it yet.
Moving(a) == work[a].at \in {"moving", "regrouping", "flushed", "ready"}

\* The slots the card or a revocation has named.
Used == revoked \cup {entry.slot, entry.task}

\* A session that gives the meeting a new slot is the only one to know of it.
SlotsAreNew ==
  /\ \A s \in Used : s <= moves + 1
  /\ \A a \in Actors : Moving(a) =>
       /\ work[a].msg.slot <= moves + 1
       /\ work[a].msg.slot \notin Used
       /\ \A b \in Actors : Moving(b) /\ work[b].msg.slot = work[a].msg.slot => a = b

\* Who holds the row revokes the message the row names and writes its own slot.
HolderSchedules ==
  \A a \in Actors : Holds(a) =>
    work[a].seen.task = entry.task /\ work[a].seen.slot = work[a].msg.slot

\* The message of a slot is revoked only with the slot, the meeting or the draft,
\* or by a session that was lost.
Standing == entry.stage \in SCHEDULABLE_STAGES /\ entry.ref = 0 /\ ~lost.moved
SlotStands == Standing => entry.slot \notin revoked

\* A worker that found an error on the card does not write a second one, so its
\* message alone is not enough.
Expected == Waiting /\ entry.task # 0 /\ Unharmed
HasMessage(s) ==
  \/ \E m \in queue : m.slot = s
  \/ \E w \in Workers : work[w].at # "idle" /\ work[w].msg.slot = s /\ ~work[w].seen.err
MessageIsThere == Expected => HasMessage(entry.slot)

WayInv == SlotsAreNew /\ HolderSchedules /\ SlotStands /\ MessageIsThere

LEMMA SlotNumbers ==
  ASSUME Typed
  PROVE  /\ moves \in Nat /\ MaxEvents \in Nat
         /\ \A s \in Slots : s \in Nat /\ s # 0
         /\ entry.slot \in Slots /\ entry.task \in Slots \cup {0} /\ revoked \subseteq Slots
         /\ \A s \in Used : s \in Nat
         /\ \A m \in Messages : m.slot \in Slots
<1>1. \A s \in Slots : s \in Nat /\ s # 0
  BY ProtocolAssumption DEF Slots
<1>2. entry.slot \in Slots /\ entry.task \in Slots \cup {0} /\ revoked \subseteq Slots
  BY DEF Typed, TypeOK, Entries
<1>3. moves \in Nat /\ MaxEvents \in Nat
  BY ProtocolAssumption DEF Typed, TypeOK
<1>4. \A m \in Messages : m.slot \in Slots
  BY DEF Messages
<1> QED
  BY <1>1, <1>2, <1>3, <1>4 DEF Used

LEMMA MovingSlots ==
  ASSUME Typed, NEW a \in Actors, Moving(a)
  PROVE  /\ work[a].msg \in Messages /\ work[a].msg.slot \in Nat /\ work[a].msg.slot # 0
         /\ a \notin Workers
<1>1. work[a].msg \in Messages /\ a \notin Workers
  BY DEF Moving, Typed, WellFormed
<1> QED
  BY <1>1, SlotNumbers

LEMMA Others ==
  ASSUME Typed, NEW a \in Actors, NEW x, work' = [work EXCEPT ![a] = x]
  PROVE  \A b \in Actors : work'[b] = IF b = a THEN x ELSE work[b]
BY Types

\* What a flush leaves in the columns a draft depends on.
LEMMA FlushedColumns ==
  ASSUME NEW old \in Entries, NEW new \in Entries, entry \in Entries
  PROVE  /\ Flushed(old, new).stage = IF new.stage = old.stage THEN entry.stage ELSE new.stage
         /\ Flushed(old, new).slot = IF new.slot = old.slot THEN entry.slot ELSE new.slot
         /\ Flushed(old, new).task = IF new.task = old.task THEN entry.task ELSE new.task
         /\ Flushed(old, new).err = IF new.err = old.err THEN entry.err ELSE new.err
<1>1. DOMAIN entry = {"stage", "slot", "ref", "task", "err", "closed"}
  BY DEF Entries
<1> QED
  BY <1>1 DEF Flushed

\* The slots after a step of one actor: nobody else's becomes used.
LEMMA SlotsStep ==
  ASSUME Typed, SlotsAreNew, NEW a \in Actors, NEW x, work' = [work EXCEPT ![a] = x],
         moves' = moves, Moving(a)' => Moving(a) /\ x.msg = work[a].msg,
         Used' \subseteq Used \cup {0} \cup {s \in {work[a].msg.slot} : Moving(a) /\ ~Moving(a)'}
  PROVE  SlotsAreNew'
<1>1. \A b \in Actors : Moving(b)' => Moving(b) /\ work'[b].msg = work[b].msg
  BY Others DEF Moving
<1>2. ASSUME NEW s \in Used' PROVE s <= moves' + 1
  <2>1. s \in Used \/ s = 0 \/ (Moving(a) /\ s = work[a].msg.slot)
    BY <1>2
  <2> QED
    BY <2>1, SlotNumbers DEF SlotsAreNew
<1>3. ASSUME NEW b \in Actors, Moving(b)'
      PROVE  /\ work'[b].msg.slot <= moves' + 1
             /\ work'[b].msg.slot \notin Used'
             /\ \A c \in Actors : Moving(c)' /\ work'[c].msg.slot = work'[b].msg.slot => b = c
  <2>1. Moving(b) /\ work'[b].msg = work[b].msg
    BY <1>1, <1>3
  <2>2. /\ work[b].msg.slot <= moves + 1 /\ work[b].msg.slot \notin Used
        /\ \A c \in Actors : Moving(c) /\ work[c].msg.slot = work[b].msg.slot => b = c
    BY <2>1 DEF SlotsAreNew
  <2>3. work[b].msg.slot # 0
    BY <2>1, MovingSlots
  <2>4. work'[b].msg.slot \notin Used'
    BY <1>3, <2>1, <2>2, <2>3
  <2> QED
    BY <1>1, <2>1, <2>2, <2>4
<1> QED
  BY <1>2, <1>3 DEF SlotsAreNew

\* An actor goes on without a new slot of its own; the row keeps its slot, and is
\* not scheduled anew.
LEMMA QuietWay ==
  ASSUME IInv, WayInv, NEW a \in Actors, NEW x, work' = [work EXCEPT ![a] = x],
         x.at \notin {"moving", "regrouping", "flushed", "ready"},
         moves' = moves, entry'.slot = entry.slot, entry'.task \in {entry.task, 0},
         entry'.task # entry.task => ~Locked,
         revoked' \subseteq revoked \cup {entry.task, 0},
         Standing' => Standing /\ revoked' = revoked,
         Expected' => Expected /\ (HasMessage(entry.slot) => HasMessage(entry.slot)')
  PROVE  WayInv'
<1>1. Typed /\ SlotsAreNew /\ HolderSchedules /\ SlotStands /\ MessageIsThere
  BY DEF IInv, WayInv
<1>a. work'[a] = x
  BY <1>1, Types
<1>2. ~Moving(a)'
  BY <1>a DEF Moving
<1>3. SlotsAreNew'
  BY <1>1, <1>2, SlotsStep DEF Used
<1>4. \A b \in Actors : Holds(b)' => Holds(b) /\ work'[b] = work[b]
  BY <1>1, <1>2, Others DEF Holds, Moving
<1>5. HolderSchedules'
  BY <1>1, <1>4 DEF HolderSchedules, Locked, Holds
<1>6. SlotStands' /\ MessageIsThere'
  BY <1>1 DEF SlotStands, MessageIsThere
<1> QED
  BY <1>3, <1>5, <1>6 DEF WayInv

\* Nobody moves.
LEMMA StillWay ==
  ASSUME IInv, WayInv, work' = work, moves' = moves, revoked' = revoked,
         entry'.slot = entry.slot, Used' \subseteq Used,
         entry'.task # entry.task => ~Locked,
         Standing' => Standing,
         Expected' => HasMessage(entry.slot)'
  PROVE  WayInv'
<1>1. \A b \in Actors : (Moving(b)' <=> Moving(b)) /\ (Holds(b)' <=> Holds(b))
  BY DEF Moving, Holds
<1>2. SlotsAreNew'
  BY <1>1 DEF WayInv, SlotsAreNew
<1>3. HolderSchedules'
  BY <1>1 DEF WayInv, HolderSchedules, Locked, Holds
<1>4. SlotStands' /\ MessageIsThere'
  BY DEF WayInv, SlotStands, MessageIsThere
<1> QED
  BY <1>2, <1>3, <1>4 DEF WayInv

\* A session sets out to give the meeting the next slot.
LEMMA OpenMoveWay ==
  ASSUME IInv, WayInv, NEW a \in Actors, a \notin Workers, NEW at \in Places, NEW seen \in Entries,
         OpenMove(a, at, seen),
         at \in {"moving", "regrouping", "flushed", "ready"},
         at \in {"flushed", "ready"} => seen.task = entry.task /\ seen.slot = moves + 2,
         UNCHANGED <<entry, queue, revoked, lost>>
  PROVE  WayInv'
<1> DEFINE x == Session(at, seen, Message(moves + 2))
<1>1. Typed /\ SlotsAreNew /\ HolderSchedules /\ SlotStands /\ MessageIsThere
  BY DEF IInv, WayInv
<1>2. /\ x.at = at /\ x.seen = seen /\ x.msg.slot = moves + 2
      /\ work' = [work EXCEPT ![a] = x] /\ moves' = moves + 1
  BY DEF OpenMove, Session, Message
<1> HIDE DEF x
<1>3. \A b \in Actors : work'[b] = IF b = a THEN x ELSE work[b]
  BY <1>1, <1>2, Others, ZenonT(120)
<1>4. Used' = Used
  BY DEF Used
<1>5. SlotsAreNew'
  <2>1. \A s \in Used' : s <= moves' + 1
    BY <1>1, <1>2, <1>4, SlotNumbers DEF SlotsAreNew
  <2>2. ASSUME NEW b \in Actors, b # a, Moving(b)'
        PROVE  Moving(b) /\ work'[b] = work[b] /\ work[b].msg.slot <= moves + 1 /\ work[b].msg.slot \in Nat
    <3>1. Moving(b) /\ work'[b] = work[b]
      BY <1>3, <2>2 DEF Moving
    <3> QED
      BY <1>1, <3>1, MovingSlots DEF SlotsAreNew
  <2>3. ASSUME NEW b \in Actors, Moving(b)'
        PROVE  /\ work'[b].msg.slot <= moves' + 1
               /\ work'[b].msg.slot \notin Used'
               /\ \A c \in Actors : Moving(c)' /\ work'[c].msg.slot = work'[b].msg.slot => b = c
    <3>1. CASE b = a
      <4>1. work'[b].msg.slot = moves + 2 /\ moves \in Nat
        BY <1>1, <1>2, <1>3, <3>1, SlotNumbers
      <4>2. moves + 2 \notin Used
        BY <1>1, <4>1, SlotNumbers DEF SlotsAreNew
      <4>3. \A c \in Actors : c # a /\ Moving(c)' => work'[c].msg.slot # moves + 2
        BY <2>2, <4>1
      <4> QED
        BY <1>2, <1>4, <3>1, <4>1, <4>2, <4>3
    <3>2. CASE b # a
      <4>1. Moving(b) /\ work'[b] = work[b] /\ work[b].msg.slot <= moves + 1 /\ work[b].msg.slot \in Nat
        BY <2>2, <2>3, <3>2
      <4>2. moves \in Nat
        BY <1>1, SlotNumbers
      <4>3. work[b].msg.slot # moves + 2
        BY <4>1, <4>2
      <4>4. \A c \in Actors : Moving(c)' /\ work'[c].msg.slot = work'[b].msg.slot => b = c
        BY <1>1, <1>2, <1>3, <2>2, <4>1, <4>3 DEF SlotsAreNew
      <4> QED
        BY <1>1, <1>2, <1>4, <4>1, <4>2, <4>4 DEF SlotsAreNew
    <3> QED
      BY <3>1, <3>2
  <2> QED
    BY <2>1, <2>3 DEF SlotsAreNew
<1>6. HolderSchedules'
  BY <1>1, <1>2, <1>3 DEF HolderSchedules, Holds
<1>7. SlotStands'
  BY <1>1 DEF SlotStands, Standing
<1>8. HasMessage(entry.slot) => HasMessage(entry.slot)'
  <2>1. \A w \in Workers : w # a /\ w \in Actors
    BY DEF Actors
  <2> QED
    BY <1>3, <2>1 DEF HasMessage
<1>9. MessageIsThere'
  BY <1>1, <1>8 DEF MessageIsThere, Expected, Unharmed, Waiting
<1> QED
  BY <1>5, <1>6, <1>7, <1>9 DEF WayInv

\* The holder of the row commits its slot.
LEMMA CommitWay ==
  ASSUME IInv, WayInv, NEW a \in Actors, Holds(a), Done(a), moves' = moves,
         entry'.slot = work[a].seen.slot,
         entry'.task \in {0, work[a].seen.slot, work[a].seen.task},
         revoked' \subseteq revoked \cup {work[a].seen.task},
         Expected' => \E m \in queue' : m.slot = work[a].seen.slot
  PROVE  WayInv'
<1>1. Typed /\ SlotsAreNew /\ HolderSchedules
  BY DEF IInv, WayInv
<1>2. Moving(a) /\ work[a].seen.task = entry.task /\ work[a].seen.slot = work[a].msg.slot
  BY <1>1 DEF Holds, Moving, HolderSchedules
<1>3. work' = [work EXCEPT ![a] = Idle]
  BY DEF Done
<1>a. \A b \in Actors : work'[b] = IF b = a THEN Idle ELSE work[b]
  BY <1>1, <1>3, Others
<1>4. ~Moving(a)' /\ \A b \in Actors : ~Holds(b)'
  <2>1. work'[a].at = "idle"
    BY <1>a, IdleIsWork
  <2>2. \A b \in Actors : b # a => ~Holds(b)
    BY DEF IInv, Safe, HolderKnows
  <2> QED
    BY <1>a, <2>1, <2>2 DEF Moving, Holds
<1>5. SlotsAreNew'
  BY <1>1, <1>2, <1>3, <1>4, SlotsStep DEF Used
<1>6. HolderSchedules'
  BY <1>4 DEF HolderSchedules
<1>7. entry'.slot \notin revoked'
  BY <1>1, <1>2 DEF SlotsAreNew, Used
<1>8. SlotStands' /\ MessageIsThere'
  BY <1>7 DEF SlotStands, MessageIsThere, HasMessage
<1> QED
  BY <1>5, <1>6, <1>8 DEF WayInv

LEMMA WorkersAreActors ==
  /\ Workers \subseteq Actors /\ Clients \subseteq Actors /\ Beat \in Actors
  /\ Beat \notin Workers /\ \A c \in Clients : c \notin Workers
BY ProtocolAssumption DEF Actors

\* Whoever carries a message goes on carrying it, unless it is a's.
LEMMA StillCarried ==
  ASSUME Typed, NEW a \in Actors, NEW x, work' = [work EXCEPT ![a] = x], queue \subseteq queue',
         a \in Workers /\ work[a].at # "idle" =>
           /\ x.at # "idle" /\ x.msg = work[a].msg /\ x.seen = work[a].seen
  PROVE  \A s : HasMessage(s) => HasMessage(s)'
<1>1. \A w \in Workers : work[w].at # "idle" =>
        work'[w].at # "idle" /\ work'[w].msg = work[w].msg /\ work'[w].seen = work[w].seen
  BY WorkersAreActors, Types
<1> QED
  BY <1>1 DEF HasMessage

LEMMA DeliverWay ==
  ASSUME IInv, WayInv, NEW w \in Workers, Deliver(w)
  PROVE  WayInv'
<1>1. PICK m \in queue : /\ work[w].at = "idle"
                         /\ m.slot = entry.slot => phase # "ahead"
                         /\ queue' = queue \ {m}
                         /\ IF MayCreate(FALSE) THEN Open(w, "creating", m) ELSE UNCHANGED work
                         /\ UNCHANGED <<kind, entry, phase, docs, revoked, lost, moves, faults>>
  BY DEF Deliver
<1>2. Typed /\ w \in Actors /\ entry \in Entries
  BY Types, WorkersAreActors DEF IInv
<1>3. Expected' => Expected /\ (m.slot = entry.slot => MayCreate(FALSE)) /\ entry.err = FALSE
  BY <1>1, <1>2 DEF Expected, Unharmed, Waiting, MayCreate, SCHEDULABLE_STAGES, Entries
<1>4. CASE MayCreate(FALSE)
  <2> DEFINE x == Session("creating", Loaded, m)
  <2>1. /\ x.at = "creating" /\ x.seen.err = entry.err /\ x.msg = m
        /\ work' = [work EXCEPT ![w] = x]
    BY <1>1, <1>2, <1>4 DEF Open, Session, Loaded, Entries
  <2> HIDE DEF x
  <2>2. \A b \in Actors : work'[b] = IF b = w THEN x ELSE work[b]
    BY <1>2, <2>1, Types
  <2>3. HasMessage(entry.slot) /\ entry.err = FALSE => HasMessage(entry.slot)'
    <3>1. CASE m.slot = entry.slot
      BY <1>1, <1>2, <2>1, <2>2, <3>1 DEF HasMessage
    <3>2. CASE m.slot # entry.slot
      <4>1. \A v \in Workers : work[v].at # "idle" => work'[v] = work[v]
        BY <1>1, <2>2, WorkersAreActors
      <4> QED
        BY <1>1, <3>2, <4>1 DEF HasMessage
    <3> QED
      BY <3>1, <3>2
  <2>4. Standing' => Standing
    BY <1>1 DEF Standing
  <2> QED
    BY <1>1, <1>2, <1>3, <2>1, <2>3, <2>4, QuietWay
<1>5. CASE ~MayCreate(FALSE)
  <2>1. work' = work
    BY <1>1, <1>5
  <2>2. Expected' => HasMessage(entry.slot)'
    BY <1>1, <1>3, <1>5, <2>1 DEF HasMessage, WayInv, MessageIsThere
  <2> QED
    BY <1>1, <2>1, <2>2, StillWay DEF Used, Standing
<1> QED
  BY <1>4, <1>5

\* A request or the dispatcher sets out to create, check or cancel.
LEMMA OpenWay ==
  ASSUME IInv, WayInv, NEW a \in Actors, a \notin Workers, NEW x, work' = [work EXCEPT ![a] = x],
         x.at \notin {"moving", "regrouping", "flushed", "ready"},
         UNCHANGED <<entry, queue, revoked, lost, moves>>
  PROVE  WayInv'
<1>1. Typed
  BY DEF IInv
<1>2. HasMessage(entry.slot) => HasMessage(entry.slot)'
  BY <1>1, StillCarried
<1>3. (Standing' => Standing) /\ (Expected' => Expected)
  BY DEF Standing, Expected, Unharmed, Waiting
<1> QED
  BY <1>1, <1>2, <1>3, QuietWay

LEMMA PostWay ==
  ASSUME IInv, WayInv, NEW a \in Actors, Post(a)
  PROVE  WayInv'
<1>1. PICK d \in Docs : /\ work[a].at = "creating"
                        /\ work' = [work EXCEPT ![a].at = "posted", ![a].doc = d]
                        /\ lost' = [lost EXCEPT !.ref = IF @ = d THEN 0 ELSE @]
                        /\ UNCHANGED <<kind, entry, phase, queue, revoked, moves, faults>>
  BY DEF Post
<1> DEFINE x == [work[a] EXCEPT !.at = "posted", !.doc = d]
<1>2. /\ Typed
      /\ x.at = "posted" /\ x.seen = work[a].seen /\ x.msg = work[a].msg
      /\ work' = [work EXCEPT ![a] = x]
  BY <1>1, Types DEF IInv, Work
<1> HIDE DEF x
<1>3. HasMessage(entry.slot) => HasMessage(entry.slot)'
  BY <1>1, <1>2, StillCarried
<1>l. lost'.moved = lost.moved /\ lost'.spent = lost.spent
  BY <1>1, <1>2, Types DEF Losses
<1>4. (Standing' => Standing) /\ (Expected' => Expected)
  BY <1>1, <1>l DEF Standing, Expected, Unharmed, Waiting
<1> QED
  BY <1>1, <1>2, <1>3, <1>4, QuietWay

LEMMA SaveWay ==
  ASSUME IInv, WayInv, NEW a \in Actors, Save(a)
  PROVE  WayInv'
<1> DEFINE old == work[a].seen
           new == [old EXCEPT !.ref = work[a].doc, !.task = 0, !.err = FALSE,
                              !.stage = "protocol_created"]
<1>1. /\ Typed /\ entry \in Entries
      /\ work[a].at = "posted" /\ ~Locked
      /\ work[a].doc \in Docs /\ work[a].doc # 0
      /\ old.ref = 0
  BY Types DEF Save, IInv, Safe, CreatorsSawNone, PostedIsThere
<1>2. /\ old \in Entries /\ new \in Entries
      /\ new.ref = work[a].doc /\ new.slot = old.slot /\ new.task = 0
  BY <1>1, Types DEF Entries, Stages
<1>3. entry' = Flushed(old, new)
  BY DEF Save
<1> HIDE DEF old, new
<1>4. entry'.ref # 0 /\ entry'.slot = entry.slot /\ entry'.task \in {entry.task, 0}
  BY <1>1, <1>2, <1>3, FlushedRow, FlushedColumns, ZenonT(120)
<1>5. ~Standing' /\ ~Expected'
  BY <1>4 DEF Standing, Expected, Unharmed, Waiting
<1>6. work' = [work EXCEPT ![a] = Idle] /\ moves' = moves /\ revoked' = revoked
  BY DEF Save, Done
<1> QED
  BY <1>1, <1>4, <1>5, <1>6, IdleIsWork, QuietWay

LEMMA CreateFailsWay ==
  ASSUME IInv, WayInv, NEW a \in Actors, CreateFails(a)
  PROVE  WayInv'
<1> DEFINE old == work[a].seen
           new == [old EXCEPT !.err = TRUE]
<1>1. /\ Typed /\ entry \in Entries /\ work[a].at = "creating"
      /\ work' = [work EXCEPT ![a] = Idle] /\ UNCHANGED <<revoked, lost, moves>>
      /\ queue \subseteq queue'
  BY Types DEF CreateFails, Done, IInv
<1>2. /\ old \in Entries /\ new \in Entries
      /\ new.ref = old.ref /\ new.stage = old.stage /\ new.slot = old.slot /\ new.task = old.task
      /\ new.err = TRUE
  BY <1>1, Types DEF Entries
<1>3. IF a \in Clients THEN entry' = entry ELSE entry' = Flushed(old, new)
  BY DEF CreateFails
<1>4. old.err \in BOOLEAN /\ entry.err \in BOOLEAN /\ old = work[a].seen
  BY <1>1, <1>2 DEF Entries
<1> HIDE DEF old, new
<1>5. /\ entry'.slot = entry.slot /\ entry'.task = entry.task
      /\ entry'.ref = entry.ref /\ entry'.stage = entry.stage
      /\ a \notin Clients => entry'.err = IF old.err THEN entry.err ELSE TRUE
      /\ a \in Clients => entry'.err = entry.err
  <2>1. CASE a \in Clients
    BY <1>3, <2>1
  <2>2. CASE a \notin Clients
    <3> DEFINE row == Flushed(old, new)
    <3>1. /\ row.ref = entry.ref /\ row.stage = entry.stage
          /\ row.slot = entry.slot /\ row.task = entry.task
      BY <1>1, <1>2, FlushedRow, FlushedColumns
    <3>2. row.err = IF new.err = old.err THEN entry.err ELSE new.err
      BY <1>1, <1>2, FlushedColumns
    <3>3. entry' = row
      BY <1>3, <2>2
    <3> HIDE DEF row
    <3>4. row.err = IF old.err THEN entry.err ELSE TRUE
      BY <1>2, <1>4, <3>2
    <3> QED
      BY <2>2, <3>1, <3>3, <3>4
  <2> QED
    BY <2>1, <2>2
<1>6. Standing' => Standing
  BY <1>1, <1>5 DEF Standing
<1>7. Expected' => Expected /\ (a \in Workers => old.err)
  BY <1>1, <1>4, <1>5, WorkersAreActors DEF Expected, Unharmed, Waiting
<1>8. (a \in Workers => old.err) /\ HasMessage(entry.slot) => HasMessage(entry.slot)'
  <2> SUFFICES ASSUME a \in Workers => old.err, HasMessage(entry.slot) PROVE HasMessage(entry.slot)'
    OBVIOUS
  <2>1. \A w \in Workers : ~work[w].seen.err => work'[w] = work[w]
    BY <1>1, <1>4, WorkersAreActors, Types
  <2> QED
    BY <1>1, <1>5, <2>1 DEF HasMessage
<1>9. Expected' => Expected /\ (HasMessage(entry.slot) => HasMessage(entry.slot)')
  BY <1>7, <1>8
<1> QED
  BY <1>1, <1>5, <1>6, <1>9, IdleIsWork, QuietWay

LEMMA ReadFailsWay ==
  ASSUME IInv, WayInv, NEW a \in Actors, ReadFails(a)
  PROVE  WayInv'
<1>1. /\ Typed /\ work[a].at = "creating" /\ lost \in Losses
      /\ work' = [work EXCEPT ![a] = Idle] /\ UNCHANGED <<entry, revoked, moves>>
      /\ lost' = [lost EXCEPT !.spent = @ \/ Exhausted(a)]
      /\ queue \subseteq queue'
  BY Types DEF ReadFails, Done, IInv
<1>2. lost'.moved = lost.moved /\ lost'.spent = (lost.spent \/ Exhausted(a))
  BY <1>1 DEF Losses, Exhausted
<1>3. (Standing' => Standing) /\ (Expected' => Expected /\ ~Exhausted(a))
  BY <1>1, <1>2 DEF Standing, Expected, Unharmed, Waiting
<1>4. ASSUME Expected', HasMessage(entry.slot) PROVE HasMessage(entry.slot)'
  <2>1. CASE a \in Workers /\ work[a].msg.slot = entry.slot
    <3>1. work[a].msg \in Messages /\ work[a].msg.tries # MaxRetries
      BY <1>1, <1>3, <1>4, <2>1 DEF Typed, WellFormed, Exhausted
    <3>2. work[a].msg.tries < MaxRetries
      BY <3>1 DEF Messages, MaxRetries
    <3>3. work[a].msg.slot \notin revoked
      BY <1>3, <1>4, <2>1 DEF WayInv, SlotStands, Standing, Expected, Unharmed, Waiting
    <3>4. [work[a].msg EXCEPT !.tries = @ + 1] \in queue'
      BY <2>1, <3>2, <3>3 DEF ReadFails
    <3>5. [work[a].msg EXCEPT !.tries = @ + 1].slot = entry.slot
      BY <2>1, <3>1 DEF Messages
    <3> QED
      BY <1>1, <3>4, <3>5 DEF HasMessage
  <2>2. CASE ~(a \in Workers /\ work[a].msg.slot = entry.slot)
    <3>1. \A w \in Workers : work[w].msg.slot = entry.slot => work'[w] = work[w]
      BY <1>1, <2>2, Others, WorkersAreActors
    <3> QED
      BY <1>1, <1>4, <3>1 DEF HasMessage
  <2> QED
    BY <2>1, <2>2
<1> QED
  BY <1>1, <1>3, <1>4, IdleIsWork, QuietWay

LEMMA DispatchWay ==
  ASSUME IInv, WayInv, Dispatch
  PROVE  WayInv'
<1>1. CASE /\ ~Locked
           /\ queue' = queue \cup {Message(entry.slot)}
           /\ entry' = [entry EXCEPT !.task = entry.slot, !.err = FALSE]
           /\ UNCHANGED work
  <2>1. /\ entry \in Entries /\ UNCHANGED <<moves, revoked>>
        /\ entry.stage \in SCHEDULABLE_STAGES /\ entry.ref = 0
    BY Types DEF IInv, Dispatch
  <2>2. entry'.slot = entry.slot /\ entry'.task = entry.slot
    BY <1>1, <2>1 DEF Entries
  <2>3. Message(entry.slot) \in queue' /\ Message(entry.slot).slot = entry.slot
    BY <1>1 DEF Message
  <2>4. HasMessage(entry.slot)'
    BY <2>2, <2>3 DEF HasMessage
  <2>5. Used' \subseteq Used
    BY <2>1, <2>2 DEF Used
  <2>6. Standing' => Standing
    BY <2>1 DEF Standing, Dispatch
  <2> QED
    BY <1>1, <2>1, <2>2, <2>4, <2>5, <2>6, StillWay
<1>2. CASE Open(Beat, "creating", None) /\ UNCHANGED <<entry, queue>>
  <2> DEFINE x == Session("creating", Loaded, None)
  <2>1. x.at = "creating" /\ work' = [work EXCEPT ![Beat] = x]
    BY <1>2 DEF Open, Session
  <2> HIDE DEF x
  <2>2. UNCHANGED <<entry, queue, revoked, lost, moves>>
    BY <1>2 DEF Dispatch
  <2> QED
    BY <2>1, <2>2, OpenWay, WorkersAreActors
<1> QED
  BY <1>1, <1>2 DEF Dispatch

LEMMA DeleteProtocolWay ==
  ASSUME IInv, WayInv, NEW a \in Actors, DeleteProtocol(a)
  PROVE  WayInv'
<1>1. /\ Typed /\ work[a] \in Work /\ work[a].at = "flushed" /\ work[a].seen \in Entries
      /\ UNCHANGED <<entry, queue, revoked, lost, moves>>
  BY Types DEF IInv, DeleteProtocol
<1>2. Moving(a) /\ Holds(a) /\ a \notin Workers
  BY <1>1, MovingSlots DEF Moving, Holds
<1>3. PICK x : /\ work' = [work EXCEPT ![a] = x]
               /\ x.at = "ready" /\ x.msg = work[a].msg
               /\ x.seen.task = work[a].seen.task /\ x.seen.slot = work[a].seen.slot
  <2> DEFINE without == [work[a].seen EXCEPT !.ref = 0,
                           !.stage = IF @ = "protocol_created" THEN "invitations_sent" ELSE @]
             kept == [work[a] EXCEPT !.at = "ready"]
             gone == [work[a] EXCEPT !.at = "ready", !.seen = without, !.doc = work[a].seen.ref]
  <2>1. without.task = work[a].seen.task /\ without.slot = work[a].seen.slot
    BY <1>1 DEF Entries
  <2>2. CASE work' = [work EXCEPT ![a].at = "ready"]
    <3>1. /\ kept.at = "ready" /\ kept.msg = work[a].msg /\ kept.seen = work[a].seen
          /\ work' = [work EXCEPT ![a] = kept]
      BY <1>1, <2>2, Types DEF Work
    <3> QED
      BY <3>1
  <2>3. CASE work' = [work EXCEPT ![a].at = "ready", ![a].seen = without,
                                  ![a].doc = work[a].seen.ref]
    <3> HIDE DEF without
    <3>1. /\ gone.at = "ready" /\ gone.msg = work[a].msg /\ gone.seen = without
          /\ work' = [work EXCEPT ![a] = gone]
      BY <1>1, <2>3, Types DEF Work
    <3> QED
      BY <2>1, <3>1
  <2> QED
    BY <2>2, <2>3 DEF DeleteProtocol
<1>4. \A b \in Actors : work'[b] = IF b = a THEN x ELSE work[b]
  BY <1>1, <1>3, Types
<1>5. SlotsAreNew'
  BY <1>1, <1>2, <1>3, SlotsStep DEF WayInv, Used
<1>6. HolderSchedules'
  <2>1. work[a].seen.task = entry.task /\ work[a].seen.slot = work[a].msg.slot
    BY <1>2 DEF WayInv, HolderSchedules
  <2>2. ASSUME NEW b \in Actors, Holds(b)'
        PROVE  work'[b].seen.task = entry'.task /\ work'[b].seen.slot = work'[b].msg.slot
    <3>1. CASE b = a
      BY <1>1, <1>3, <1>4, <2>1, <3>1
    <3>2. CASE b # a
      BY <1>1, <1>4, <2>2, <3>2 DEF WayInv, HolderSchedules, Holds
    <3> QED
      BY <3>1, <3>2
  <2> QED
    BY <2>2 DEF HolderSchedules
<1>7. HasMessage(entry.slot) => HasMessage(entry.slot)'
  BY <1>1, <1>2, <1>3, StillCarried
<1>8. SlotStands' /\ MessageIsThere'
  BY <1>1, <1>7 DEF WayInv, SlotStands, Standing, MessageIsThere, Expected, Unharmed, Waiting
<1> QED
  BY <1>5, <1>6, <1>8 DEF WayInv

LEMMA DeleteFailsWay ==
  ASSUME IInv, WayInv, NEW a \in Actors, DeleteFails(a)
  PROVE  WayInv'
<1>1. /\ Typed /\ Holds(a) /\ Moving(a) /\ Done(a) /\ UNCHANGED <<queue, revoked, moves>>
      /\ work[a].seen \in Entries
  BY Types DEF DeleteFails, Holds, Moving, IInv
<1>2. CASE a = Beat
  <2>1. lost'.moved
    BY <1>1, <1>2, Types DEF DeleteFails, Losses
  <2> QED
    BY <1>1, <1>2, <2>1, CommitWay DEF DeleteFails, Expected, Unharmed
<1>3. CASE a # Beat
  <2>1. UNCHANGED <<entry, lost>>
    BY <1>3 DEF DeleteFails
  <2> QED
    BY <1>1, <2>1, OpenWay, MovingSlots, IdleIsWork DEF Done
<1> QED
  BY <1>2, <1>3

LEMMA RescheduleWay ==
  ASSUME IInv, WayInv, NEW a \in Actors, Reschedule(a)
  PROVE  WayInv'
<1> DEFINE seen == work[a].seen
           may  == seen.stage \in SCHEDULABLE_STAGES /\ seen.ref = 0 /\ phase' = "ahead"
<1>1. /\ Typed /\ Holds(a) /\ Done(a) /\ moves' = moves /\ seen \in Entries
      /\ seen.slot = work[a].msg.slot
  BY Types DEF Reschedule, Holds, IInv, WayInv, HolderSchedules
<1>2. Revoke(seen.task, IF may THEN {work[a].msg} ELSE {})
  BY DEF Reschedule
<1>3. entry' = IF may THEN [seen EXCEPT !.task = seen.slot, !.err = FALSE] ELSE [seen EXCEPT !.task = 0]
  BY DEF Reschedule
<1>4. entry'.slot = seen.slot /\ entry'.task = IF may THEN seen.slot ELSE 0
  BY <1>1, <1>3 DEF Entries
<1>5. revoked' \subseteq revoked \cup {seen.task} /\ (may => work[a].msg \in queue')
  BY <1>2 DEF Revoke
<1>6. Expected' => \E m \in queue' : m.slot = seen.slot
  BY <1>1, <1>4, <1>5 DEF Expected
<1> QED
  BY <1>1, <1>4, <1>5, <1>6, CommitWay

LEMMA RollRefusedWay ==
  ASSUME IInv, WayInv, RollRefused
  PROVE  WayInv'
<1>1. /\ Typed /\ Beat \in Actors /\ Holds(Beat) /\ Done(Beat) /\ moves' = moves
      /\ work[Beat].seen \in Entries
  BY Types DEF RollRefused, Holds, IInv
<1>2. entry'.slot = work[Beat].seen.slot /\ entry'.task = 0
  BY <1>1 DEF RollRefused, Entries
<1>3. revoked' \subseteq revoked \cup {work[Beat].seen.task}
  BY DEF RollRefused, Revoke
<1> QED
  BY <1>1, <1>2, <1>3, CommitWay DEF Expected

LEMMA MoveStartWay ==
  ASSUME IInv, WayInv, NEW c \in Clients, MoveStart(c)
  PROVE  WayInv'
<1>1. c \in Actors /\ c \notin Workers /\ entry \in Entries
  BY Types, WorkersAreActors DEF IInv
<1>2. PICK at \in {"moving", "regrouping"}, seen \in Entries : OpenMove(c, at, seen)
  BY <1>1, LoadedRow, IdleIsWork DEF MoveStart, Work
<1> QED
  BY <1>1, <1>2, OpenMoveWay DEF MoveStart, Places

LEMMA InviteWay ==
  ASSUME IInv, WayInv, NEW c \in Clients, Invite(c)
  PROVE  WayInv'
<1> DEFINE seen == [entry EXCEPT !.slot = moves + 2, !.stage = "invitations_sent", !.closed = FALSE]
<1>1. Typed /\ c \in Actors /\ c \notin Workers /\ entry \in Entries
  BY Types, WorkersAreActors DEF IInv
<1>2. PICK at \in {"flushed", "ready"} : OpenMove(c, at, seen)
  BY DEF Invite
<1>3. moves + 2 \in Slots
  BY <1>1, <1>2, ProtocolAssumption DEF OpenMove, Slots, Typed, TypeOK
<1>4. seen \in Entries /\ seen.task = entry.task /\ seen.slot = moves + 2
  BY <1>1, <1>3 DEF Entries, Stages
<1> HIDE DEF seen
<1> QED
  BY <1>1, <1>2, <1>4, OpenMoveWay DEF Invite, Places

LEMMA RollWay ==
  ASSUME IInv, WayInv, Roll
  PROVE  WayInv'
<1> DEFINE seen == [entry EXCEPT !.slot = moves + 2,
                                 !.stage = IF phase = "past" THEN "scheduled" ELSE @]
<1>1. Typed /\ entry \in Entries
  BY Types DEF IInv
<1>2. OpenMove(Beat, "flushed", seen)
  BY DEF Roll
<1>3. moves + 2 \in Slots
  BY <1>1, <1>2, ProtocolAssumption DEF OpenMove, Slots, Typed, TypeOK
<1>4. seen \in Entries /\ seen.task = entry.task /\ seen.slot = moves + 2
  BY <1>1, <1>3 DEF Entries, Stages
<1> HIDE DEF seen
<1> QED
  BY <1>1, <1>2, <1>4, OpenMoveWay, WorkersAreActors DEF Roll, Places

\* The session that takes the row has its slot, and reads the row's task.
LEMMA MoveFlushWay ==
  ASSUME IInv, WayInv, NEW c \in Clients, MoveFlush(c)
  PROVE  WayInv'
<1> DEFINE old == IF work[c].at = "moving" THEN work[c].seen ELSE entry
           new == [old EXCEPT !.stage = "invitations_sent"]
           row == Flushed(old, new)
           seen == [row EXCEPT !.slot = work[c].msg.slot, !.closed = FALSE]
           x == [work[c] EXCEPT !.at = "flushed", !.seen = seen]
<1>1. /\ Typed /\ c \in Actors /\ c \notin Workers
      /\ work[c].at \in {"moving", "regrouping"} /\ ~Locked
      /\ work[c] \in Work /\ entry \in Entries
      /\ UNCHANGED <<entry, queue, revoked, lost, moves>>
  BY Types, WorkersAreActors DEF IInv, MoveFlush
<1>2. old \in Entries /\ new \in Entries /\ new.task = old.task
  BY <1>1, Types DEF Entries, Stages
<1>3. work' = [work EXCEPT ![c].at = "flushed", ![c].seen = seen]
  BY DEF MoveFlush
<1> HIDE DEF old, new
<1>4. row \in Entries /\ row.task = entry.task
  BY <1>1, <1>2, FlushedRow, FlushedColumns
<1> HIDE DEF row
<1>5. seen.task = entry.task /\ seen.slot = work[c].msg.slot
  BY <1>4 DEF Entries
<1> HIDE DEF seen
<1>6. /\ x.at = "flushed" /\ x.seen = seen /\ x.msg = work[c].msg
      /\ work' = [work EXCEPT ![c] = x]
  BY <1>1, <1>3, Types DEF Work
<1> HIDE DEF x
<1>7. \A b \in Actors : work'[b] = IF b = c THEN x ELSE work[b]
  BY <1>1, <1>6, Others, ZenonT(120)
<1>8. SlotsAreNew'
  BY <1>1, <1>6, SlotsStep DEF WayInv, Used, Moving
<1>9. HolderSchedules'
  BY <1>1, <1>5, <1>6, <1>7 DEF HolderSchedules, Holds, Locked
<1>10. HasMessage(entry.slot) => HasMessage(entry.slot)'
  BY <1>1, <1>6, StillCarried
<1>11. SlotStands' /\ MessageIsThere'
  BY <1>1, <1>10 DEF WayInv, SlotStands, Standing, MessageIsThere, Expected, Unharmed, Waiting
<1> QED
  BY <1>8, <1>9, <1>11 DEF WayInv

LEMMA AskWay ==
  ASSUME IInv, WayInv, NEW c \in Clients, Ask(c)
  PROVE  WayInv'
<1>1. /\ work' = [work EXCEPT ![c] = Session("creating", Loaded, None)]
      /\ UNCHANGED <<entry, queue, revoked, lost, moves>>
  BY DEF Ask, Open
<1> QED
  BY <1>1, OpenWay, WorkersAreActors DEF Session

LEMMA CancelStartWay ==
  ASSUME IInv, WayInv, NEW c \in Clients, CancelStart(c)
  PROVE  WayInv'
<1> DEFINE x == [work[c] EXCEPT !.at = "cancelling"]
<1>1. Typed /\ c \in Actors /\ c \notin Workers /\ work[c] \in Work
  BY Types, WorkersAreActors DEF IInv
<1>2. x.at = "cancelling" /\ work' = [work EXCEPT ![c] = x]
  BY <1>1, Types DEF Work, CancelStart
<1> HIDE DEF x
<1> QED
  BY <1>1, <1>2, OpenWay DEF CancelStart

LEMMA CancelEndWay ==
  ASSUME IInv, WayInv, NEW c \in Clients, CancelEnd(c)
  PROVE  WayInv'
<1>1. /\ c \in Actors /\ entry \in Entries /\ ~Locked /\ moves' = moves
      /\ work' = [work EXCEPT ![c] = Idle]
  BY Types DEF IInv, CancelEnd, Done
<1>2. entry'.slot = entry.slot /\ entry'.task = 0 /\ entry'.stage = "cancelled"
  BY <1>1 DEF CancelEnd, Entries
<1>3. revoked' \subseteq revoked \cup {entry.task, 0}
  BY DEF CancelEnd, Revoke
<1>4. ~Standing' /\ ~Expected'
  BY <1>2 DEF Standing, Expected, Unharmed, Waiting, SCHEDULABLE_STAGES
<1> QED
  BY <1>1, <1>2, <1>3, <1>4, IdleIsWork, QuietWay

LEMMA PerishWay ==
  ASSUME IInv, WayInv, NEW a \in Actors, Perish(a)
  PROVE  WayInv'
<1>1. /\ Typed /\ lost \in Losses /\ a \notin Workers
      /\ work' = [work EXCEPT ![a] = Idle] /\ UNCHANGED <<entry, moves>>
  BY Types DEF Perish, Done, IInv
<1>2. PICK s \in {0, Unscheduled(a)}, sent \in SUBSET {work[a].msg} :
        /\ Revoke(s, sent)
        /\ lost' = [lost EXCEPT !.moved = @ \/ s # 0,
                      !.ref = IF work[a].at = "ready" /\ work[a].doc # 0 THEN work[a].doc ELSE @]
  BY DEF Perish
<1>3. lost'.moved = (lost.moved \/ s # 0) /\ lost'.spent = lost.spent
  BY <1>1, <1>2 DEF Losses
<1>4. s \in {0, entry.task}
  BY <1>1, <1>2 DEF Unscheduled, WayInv, HolderSchedules, Holds
<1>5. revoked' \subseteq revoked \cup {entry.task, 0}
  BY <1>2, <1>4 DEF Revoke
<1>6. CASE s # 0
  <2>1. ~Standing' /\ ~Expected'
    BY <1>3, <1>6 DEF Standing, Expected, Unharmed
  <2> QED
    BY <1>1, <1>5, <2>1, IdleIsWork, QuietWay
<1>7. CASE s = 0
  <2>1. revoked' = revoked
    BY <1>2, <1>7 DEF Revoke
  <2>2. queue \subseteq queue'
    <3>1. \A m \in queue : m.slot # 0
      BY <1>1, SlotNumbers DEF Typed, TypeOK
    <3> QED
      BY <1>2, <1>7, <3>1 DEF Revoke
  <2>3. HasMessage(entry.slot) => HasMessage(entry.slot)'
    BY <1>1, <2>2, StillCarried DEF HasMessage
  <2>4. (Standing' => Standing) /\ (Expected' => Expected)
    BY <1>1, <1>3 DEF Standing, Expected, Unharmed, Waiting
  <2> QED
    BY <1>1, <1>5, <2>1, <2>3, <2>4, IdleIsWork, QuietWay
<1> QED
  BY <1>6, <1>7

LEMMA CheckStartWay ==
  ASSUME IInv, WayInv, NEW c \in Clients, CheckStart(c)
  PROVE  WayInv'
<1>1. c \in Actors /\ c \notin Workers /\ entry \in Entries
      /\ UNCHANGED <<queue, revoked, lost, moves>>
  BY Types, WorkersAreActors DEF IInv, CheckStart
<1>2. CASE Open(c, "checking", None) /\ UNCHANGED entry
  <2>1. work' = [work EXCEPT ![c] = Session("checking", Loaded, None)]
    BY <1>2 DEF Open
  <2> QED
    BY <1>1, <1>2, <2>1, OpenWay DEF Session
<1>3. CASE entry' = [entry EXCEPT !.stage = "meeting_completed"] /\ UNCHANGED work
  <2>1. entry'.slot = entry.slot /\ entry'.task = entry.task /\ entry'.stage = "meeting_completed"
    BY <1>1, <1>3 DEF Entries
  <2>2. ~Standing' /\ ~Expected'
    BY <2>1 DEF Standing, Expected, Unharmed, Waiting, SCHEDULABLE_STAGES
  <2>3. Used' \subseteq Used
    BY <1>1, <2>1 DEF Used
  <2> QED
    BY <1>1, <1>3, <2>1, <2>2, <2>3, StillWay
<1> QED
  BY <1>2, <1>3 DEF CheckStart

LEMMA CheckEndWay ==
  ASSUME IInv, WayInv, NEW c \in Clients, CheckEnd(c)
  PROVE  WayInv'
<1> DEFINE old == work[c].seen
           closed == docs[old.ref] = "closed"
           new == [old EXCEPT !.stage = IF closed THEN "meeting_completed" ELSE old.stage]
           row == Flushed(old, new)
<1>1. /\ Typed /\ c \in Actors /\ c \notin Workers /\ entry \in Entries
      /\ work' = [work EXCEPT ![c] = Idle] /\ UNCHANGED <<queue, revoked, lost, moves>>
  BY Types, WorkersAreActors DEF IInv, CheckEnd, Done
<1>2. /\ old \in Entries /\ new \in Entries
      /\ new.ref = old.ref /\ new.slot = old.slot /\ new.task = old.task /\ new.err = old.err
      /\ new.stage \in {old.stage, "meeting_completed"}
  BY <1>1, Types DEF Entries, Stages
<1>3. entry' = entry \/ entry' = [row EXCEPT !.closed = closed]
  BY DEF CheckEnd
<1> HIDE DEF old, new
<1>4. /\ row \in Entries
      /\ row.ref = entry.ref /\ row.slot = entry.slot
      /\ row.task = entry.task /\ row.err = entry.err
      /\ row.stage \in {entry.stage, "meeting_completed"}
  BY <1>1, <1>2, FlushedRow, FlushedColumns, ZenonT(120)
<1> HIDE DEF row, closed
<1>5. /\ entry'.ref = entry.ref /\ entry'.slot = entry.slot
      /\ entry'.task = entry.task /\ entry'.err = entry.err
      /\ entry'.stage \in {entry.stage, "meeting_completed"}
  BY <1>3, <1>4 DEF Entries
<1>6. (Standing' => Standing) /\ (Expected' => Expected)
  BY <1>1, <1>5 DEF Standing, Expected, Unharmed, Waiting, SCHEDULABLE_STAGES
<1>7. HasMessage(entry.slot) => HasMessage(entry.slot)'
  BY <1>1, <1>5, StillCarried DEF HasMessage
<1> QED
  BY <1>1, <1>5, <1>6, <1>7, IdleIsWork, QuietWay

\* The message of a worker that is lost goes back to the queue, and one whose
\* message was revoked has lost nothing the card waits for.
LEMMA LostWay ==
  ASSUME IInv, WayInv, NEW w \in Workers, Done(w), work[w].at # "idle",
         UNCHANGED <<entry, revoked, lost, moves>>, queue \subseteq queue',
         work[w].msg.slot \notin revoked => work[w].msg \in queue'
  PROVE  WayInv'
<1>1. Typed /\ w \in Actors /\ work' = [work EXCEPT ![w] = Idle]
  BY WorkersAreActors DEF IInv, Done
<1>2. \A b \in Actors : work'[b] = IF b = w THEN Idle ELSE work[b]
  BY <1>1, Others
<1>3. (Standing' => Standing) /\ (Expected' => Expected)
  BY DEF Standing, Expected, Unharmed, Waiting
<1>4. ASSUME Expected, HasMessage(entry.slot) PROVE HasMessage(entry.slot)'
  <2>1. entry.slot \notin revoked
    BY <1>4 DEF WayInv, SlotStands, Standing, Expected, Unharmed, Waiting
  <2>2. CASE work[w].msg.slot = entry.slot
    BY <2>1, <2>2 DEF HasMessage
  <2>3. CASE work[w].msg.slot # entry.slot
    BY <1>2, <1>4, <2>3, WorkersAreActors DEF HasMessage
  <2> QED
    BY <2>2, <2>3
<1> QED
  BY <1>1, <1>3, <1>4, IdleIsWork, QuietWay

LEMMA CrashWay ==
  ASSUME IInv, WayInv, NEW w \in Workers, Crash(w)
  PROVE  WayInv'
BY LostWay DEF Crash

LEMMA TerminatedWay ==
  ASSUME IInv, WayInv, NEW w \in Workers, Terminated(w)
  PROVE  WayInv'
BY LostWay DEF Terminated

\* The world leaves the row and the sessions alone, and takes no message.
LEMMA WorldWay ==
  ASSUME IInv, WayInv, UNCHANGED <<entry, revoked, work, lost, moves>>, queue \subseteq queue'
  PROVE  WayInv'
<1>1. HasMessage(entry.slot) => HasMessage(entry.slot)'
  BY DEF HasMessage
<1>2. Expected' => HasMessage(entry.slot)'
  BY <1>1 DEF Expected, Unharmed, Waiting, WayInv, MessageIsThere
<1> QED
  BY <1>2, StillWay DEF Used, Standing

LEMMA InitiallyWay == Init => WayInv
<1> SUFFICES ASSUME Init PROVE WayInv
  OBVIOUS
<1>1. /\ entry.slot = 1 /\ entry.task = 1
      /\ revoked = {} /\ moves = 0 /\ \A a \in Actors : work[a].at = "idle"
  BY IdleIsWork DEF Init, FirstEntry
<1>2. \E m \in queue : m.slot = entry.slot
  BY <1>1 DEF Init
<1>3. \A a \in Actors : ~Moving(a) /\ ~Holds(a)
  BY <1>1 DEF Moving, Holds
<1>4. SlotsAreNew
  BY <1>1, <1>3 DEF SlotsAreNew, Used
<1> QED
  BY <1>1, <1>2, <1>3, <1>4 DEF WayInv, HolderSchedules, SlotStands, MessageIsThere, HasMessage

LEMMA WayStep == IInv /\ WayInv /\ [Next]_vars => WayInv'
<1> SUFFICES ASSUME IInv, WayInv, [Next]_vars PROVE WayInv'
  OBVIOUS
<1>1. CASE \E a \in Actors :
             Step(a) \/ CreateFails(a) \/ ReadFails(a) \/ DeleteFails(a) \/ Perish(a)
  BY <1>1, PostWay, SaveWay, DeleteProtocolWay, RescheduleWay, CreateFailsWay, ReadFailsWay,
     DeleteFailsWay, PerishWay DEF Step
<1>2. CASE \E w \in Workers : Deliver(w) \/ Crash(w) \/ Terminated(w) \/ Redeliver(w)
  <2>1. ASSUME NEW w \in Workers, Redeliver(w) PROVE WayInv'
    BY <2>1, WorldWay DEF Redeliver
  <2> QED
    BY <1>2, <2>1, DeliverWay, CrashWay, TerminatedWay
<1>3. CASE \E c \in Clients : \/ Ask(c) \/ MoveStart(c) \/ Invite(c)
                               \/ CancelStart(c) \/ CheckStart(c) \/ Answer(c)
  BY <1>3, AskWay, MoveStartWay, InviteWay, CancelStartWay, CheckStartWay, MoveFlushWay,
     CancelEndWay, CheckEndWay DEF Answer
<1>4. CASE Dispatch \/ Roll \/ RollRefused
  BY <1>4, DispatchWay, RollWay, RollRefusedWay
<1>5. CASE Tick \/ (\E d \in Docs : CloseProtocol(d)) \/ UNCHANGED vars
  BY <1>5, WorldWay DEF Tick, CloseProtocol, vars
<1> QED
  BY <1>1, <1>2, <1>3, <1>4, <1>5 DEF Next

\* Whoever moves, cancels, rolls and invites at a time, and whichever message is
\* copied or terminated, a card that waits for its draft, shows no error and names
\* a task has a message for its slot, in the queue or at a worker.  Three losses
\* are excepted: a session lost with the task revoked, a roll that logged an
\* error, and a task that could not read 1C at its last try.
THEOREM DraftsAreOnTheWay == Spec => []DraftIsOnTheWay
<1>1. Init => WayInv
  BY InitiallyWay
<1>2. IInv /\ WayInv /\ [Next]_vars => WayInv'
  BY WayStep
<1>3. WayInv => DraftIsOnTheWay
  BY DEF WayInv, MessageIsThere, Expected, HasMessage, DraftIsOnTheWay
<1> QED
  BY <1>1, <1>2, <1>3, Inductive, PTL DEF Spec

=============================================================================
