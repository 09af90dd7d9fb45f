----------------------------- MODULE MailboxPoll -----------------------------
(***************************************************************************)
(* The beat job poll_imap on one mailbox (src/src/agent_pochta/imap):      *)
(* unread letters are fetched and thereby marked read, letters of the      *)
(* catch-up window are fetched on top, and at most a budget of them is     *)
(* handed to Celery.  A letter that is fetched and not handed over is      *)
(* only ever seen again through the catch-up window, whose start moves     *)
(* with the newest row of the mailbox.  The workers appear only in what    *)
(* they do to a letter's row.                                              *)
(***************************************************************************)
EXTENDS Integers, FiniteSets

CONSTANTS
  Letters,      \* the letters, numbered by IMAP uid
  Arrival,      \* Arrival[l]: day the server received l (SINCE looks at it)
  Dated,        \* Dated[l]: day of the Date header (received_at of its row)
  Demo,         \* letters that is_demo_email recognises
  CatchupDays,  \* settings.imap_catchup_days
  MaxUids,      \* settings.imap_catchup_max_uids
  HeaderCap,    \* max(10 * MaxUids, 200)
  Budgets,      \* what other mailboxes may leave of imap_poll_max_enqueue
  Threshold,    \* settings.processing_backlog_pause_threshold
  LastDay,      \* bound: days
  Patience,     \* bound: midnights a letter on the server waits for its row
  MaxFaults,    \* bound: faults in a behaviour
  MaxCopies     \* bound: equal messages waiting in the broker

ASSUME PollAssumption ==
  /\ IsFiniteSet(Letters) /\ Letters \subseteq Nat
  /\ Arrival \in [Letters -> 0..LastDay] /\ Dated \in [Letters -> Int]
  /\ Demo \subseteq Letters /\ Budgets \subseteq Nat
  /\ MaxUids \in Nat /\ HeaderCap \in Nat /\ HeaderCap >= MaxUids
  /\ CatchupDays \in Nat /\ Threshold \in Nat /\ LastDay \in Nat /\ Patience \in Nat
  /\ MaxFaults \in Nat /\ MaxCopies \in Nat

VARIABLES
  day,       \* today
  inbox,     \* letters on the server
  seen,      \* letters with the flag \Seen
  row,       \* row[l]: absent, fresh or stale (processing, by age of the lease), terminal
  queue,     \* queue[l]: process_email messages waiting
  poll,      \* the running poll_mailboxes call: what it read at its start, the
             \* unread letters it fetched and those of the catch-up window
  faults     \* how much of MaxFaults is used up

vars == <<day, inbox, seen, row, queue, poll, faults>>

NoPoll == [pc |-> "idle", since |-> 0, paused |-> FALSE, budget |-> 0,
           todo |-> {}, late |-> {}]

Init == /\ day = 0 /\ inbox = {} /\ seen = {} /\ faults = 0
        /\ row = [l \in Letters |-> "absent"]
        /\ queue = [l \in Letters |-> 0]
        /\ poll = NoPoll

Fault == faults < MaxFaults /\ faults' = faults + 1

Known == {l \in Letters : row[l] # "absent"}
Processing == {l \in Letters : row[l] \in {"fresh", "stale"}}

\* The n newest letters of S.
Newest(S, n) == {l \in S : Cardinality({k \in S : k > l}) < n}

\* Mutant of Since: no day of overlap.
Since_SameDay == IF Known = {} THEN day - CatchupDays
                 ELSE CHOOSE d \in {Dated[l] : l \in Known} : \A l \in Known : Dated[l] <= d

\* catchup_since_date
Since == IF Known = {} THEN day - CatchupDays
         ELSE (CHOOSE d \in {Dated[l] : l \in Known} : \A l \in Known : Dated[l] <= d) - 1

\* _should_skip_imap_enqueue
SkipEnqueue(l) == row[l] \in {"terminal", "fresh"}

-----------------------------------------------------------------------------
(* The mail server and the calendar *)

Deliver(l) ==
  /\ l \notin inbox /\ Arrival[l] = day
  /\ \A k \in Letters \ inbox : k >= l
  /\ inbox' = inbox \cup {l}
  /\ UNCHANGED <<day, seen, row, queue, poll, faults>>

\* The workers keep up: the day does not end while a letter has waited Patience
\* midnights. Nothing is asked of the polls of that day.
NextDay ==
  /\ day < LastDay /\ \A l \in Letters : Arrival[l] <= day => l \in inbox
  /\ \A l \in Letters \ Demo : row[l] = "absent" => Arrival[l] + Patience > day
  /\ day' = day + 1
  /\ UNCHANGED <<inbox, seen, row, queue, poll, faults>>

-----------------------------------------------------------------------------
(* poll_mailboxes *)

\* The backlog, the budget and the newest row are read before any IMAP call.
PollStart ==
  /\ poll.pc = "idle"
  /\ LET paused == Cardinality(Processing) >= Threshold IN
     \E b \in IF paused THEN {0} ELSE Budgets :
       poll' = [pc |-> "unseen", since |-> Since, paused |-> paused, budget |-> b,
                todo |-> {}, late |-> {}]
  /\ UNCHANGED <<day, inbox, seen, row, queue, faults>>

\* fetch_unseen_messages. A fault cuts the fetch short: the server has marked
\* at least what was returned, and either the soft time limit is swallowed and
\* the poll goes on with a prefix, or the error ends it for this mailbox.
FetchUnseen ==
  LET unread == inbox \ seen
      rest   == IF poll.paused THEN "enqueue" ELSE "catchup"
      Go(n)  == [poll EXCEPT !.pc = rest, !.todo = Newest(unread, n)]
  IN
  /\ poll.pc = "unseen"
  /\ \/ /\ seen' = seen \cup Newest(unread, MaxUids)
        /\ poll' = Go(MaxUids)
        /\ UNCHANGED faults
     \/ /\ Fault
        /\ \E got, marked \in 0..MaxUids :
             /\ got <= marked
             /\ seen' = seen \cup Newest(unread, marked)
             /\ poll' \in {NoPoll, Go(got)}
  /\ UNCHANGED <<day, inbox, row, queue>>

\* Mutant of FetchSince: letters with a row are not left out of the window.
FetchSince_Known ==
  LET window == {l \in inbox : Arrival[l] >= poll.since} IN
  /\ poll.pc = "catchup"
  /\ poll' = [poll EXCEPT !.pc = "enqueue", !.late = Newest(window, MaxUids) \ poll.todo]
  /\ UNCHANGED <<day, inbox, seen, row, queue, faults>>

\* fetch_since_messages: newest first, only so many headers, known ids left out.
\* Its failure does not end the poll.
FetchSince ==
  LET window  == {l \in inbox : Arrival[l] >= poll.since}
      scanned == Newest(window, IF Known = {} THEN MaxUids ELSE HeaderCap)
      caught  == Newest(scanned \ Known, MaxUids)
  IN
  /\ poll.pc = "catchup"
  /\ \/ /\ poll' = [poll EXCEPT !.pc = "enqueue", !.late = caught \ poll.todo]
        /\ UNCHANGED faults
     \/ Fault /\ poll' = [poll EXCEPT !.pc = "enqueue"]
  /\ UNCHANGED <<day, inbox, seen, row, queue>>

\* The letter whose turn it is: the unread ones first, newest first.
Turn(l) == \/ l \in poll.todo /\ \A k \in poll.todo : k <= l
           \/ poll.todo = {} /\ l \in poll.late /\ \A k \in poll.late : k <= l

Without(l) == [poll EXCEPT !.todo = @ \ {l}, !.late = @ \ {l}]

\* Mutant of Enqueue: the budget is counted down and never looked at.
Enqueue_NoBudget(l) ==
  /\ poll.pc = "enqueue" /\ Turn(l)
  /\ poll' = [Without(l) EXCEPT !.budget = @ - 1]
  /\ queue' = [queue EXCEPT ![l] = IF @ < MaxCopies THEN @ + 1 ELSE @]
  /\ UNCHANGED <<day, inbox, seen, row, faults>>

\* One round of the enqueue loop; an error of delay ends it for this mailbox.
Enqueue(l) ==
  /\ poll.pc = "enqueue" /\ Turn(l)
  /\ IF poll.budget = 0 \/ l \in Demo \/ SkipEnqueue(l)
     THEN poll' = Without(l) /\ UNCHANGED <<queue, faults>>
     ELSE \/ /\ queue[l] < MaxCopies
             /\ queue' = [queue EXCEPT ![l] = @ + 1]
             /\ poll' = [Without(l) EXCEPT !.budget = @ - 1]
             /\ UNCHANGED faults
          \/ Fault /\ poll' = NoPoll /\ UNCHANGED queue
  /\ UNCHANGED <<day, inbox, seen, row>>

PollEnd ==
  /\ poll.pc = "enqueue" /\ poll.todo = {} /\ poll.late = {}
  /\ poll' = NoPoll
  /\ UNCHANGED <<day, inbox, seen, row, queue, faults>>

\* The imap worker is lost or runs into its time limit.
PollCrash ==
  /\ poll.pc # "idle" /\ Fault
  /\ poll' = NoPoll
  /\ UNCHANGED <<day, inbox, seen, row, queue>>

-----------------------------------------------------------------------------
(* What the workers do to a row, and recover_stale_processing after the poll *)

\* process_email_task: a terminal row is left alone; a failed first write
\* leaves no row behind.
StartRow(l) ==
  /\ queue[l] > 0
  /\ queue' = [queue EXCEPT ![l] = @ - 1]
  /\ \/ row' = [row EXCEPT ![l] = IF @ = "terminal" THEN @ ELSE "fresh"] /\ UNCHANGED faults
     \/ row[l] = "absent" /\ UNCHANGED row /\ Fault
  /\ UNCHANGED <<day, inbox, seen, poll>>

FinishRow(l) ==
  /\ row[l] = "fresh"
  /\ row' = [row EXCEPT ![l] = "terminal"]
  /\ UNCHANGED <<day, inbox, seen, queue, poll, faults>>

\* The worker died and 900 s went by.
LeaseExpire(l) ==
  /\ row[l] = "fresh" /\ Fault
  /\ row' = [row EXCEPT ![l] = "stale"]
  /\ UNCHANGED <<day, inbox, seen, queue, poll>>

Recover(l) ==
  /\ row[l] = "stale" /\ Cardinality(Processing) < Threshold /\ queue[l] < MaxCopies
  /\ row' = [row EXCEPT ![l] = "fresh"]
  /\ queue' = [queue EXCEPT ![l] = @ + 1]
  /\ UNCHANGED <<day, inbox, seen, poll, faults>>

Poll == \/ PollStart \/ FetchUnseen \/ FetchSince \/ PollEnd
        \/ \E l \in Letters : Enqueue(l)

Next == \/ NextDay \/ Poll \/ PollCrash
        \/ \E l \in Letters : \/ Deliver(l) \/ StartRow(l) \/ FinishRow(l)
                              \/ LeaseExpire(l) \/ Recover(l)

Spec == Init /\ [][Next]_vars

\* Beat starts polls for ever and workers consume; nothing makes letters come.
FairSpec == /\ Spec
            /\ WF_vars(Poll)
            /\ \A l \in Letters : WF_vars(StartRow(l)) /\ WF_vars(FinishRow(l)) /\ WF_vars(Recover(l))

-----------------------------------------------------------------------------
(* Properties *)

\* The state is well typed: days, letters, row stages and the poll's fields.
TypeOK == /\ day \in 0..LastDay
          /\ inbox \subseteq Letters /\ seen \subseteq inbox
          /\ row \in [Letters -> {"absent", "fresh", "stale", "terminal"}]
          /\ queue \in [Letters -> 0..MaxCopies]
          /\ poll \in [pc : {"idle", "unseen", "catchup", "enqueue"}, since : Int,
                       paused : BOOLEAN, budget : Nat, todo : SUBSET Letters, late : SUBSET Letters]
          /\ faults \in 0..MaxFaults

Real == Letters \ Demo

\* The poll marks a letter read long before a worker writes its row. Until
\* then some way back must exist: a queued message, the poll itself, the
\* missing \Seen flag, or a catch-up window that still reaches the letter.
\* The window forgives one midnight (Patience = 1), whatever the budget, the
\* pause or a fault makes the poll drop; it does not forgive a downtime,
\* although it is there for one: "Дата начала догоняющего IMAP-опроса (SINCE)
\* при простое сервиса." (poller.py:40)
NothingOutOfReach ==
  \A l \in inbox \cap Real :
    row[l] = "absent" =>
      \/ queue[l] > 0
      \/ l \in poll.todo \cup poll.late
      \/ l \notin seen
      \/ Arrival[l] >= Since

\* Every letter the server holds gets its row in the end, over crashes of the
\* poll, failed hand-overs, the pause at a full backlog and a budget of one.
EveryLetterIsTakenOn == \A l \in Real : l \in inbox ~> row[l] # "absent"

=============================================================================
