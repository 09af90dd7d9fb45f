------------------------- MODULE MailboxPoll_proofs -------------------------
(***************************************************************************)
(* Proofs about MailboxPoll for every mailbox, calendar and budget that    *)
(* satisfies PollAssumption.  NothingOutOfReach fails after a downtime; the*)
(* second theorem says how long a letter may wait for its row without      *)
(* getting out of reach: over one midnight, whatever a poll has dropped.   *)
(***************************************************************************)
EXTENDS MailboxPoll, TLAPS, FiniteSetTheorems, WellFoundedInduction

\* No Date header is ahead of the server's own date, and the window of an empty
\* mailbox reaches back at least a day.
SoundDates == CatchupDays > 0 /\ \A l \in Letters : Dated[l] <= Arrival[l]

\* Only letters on the server have rows, messages or a place in the poll.
OnlyReceived ==
  \A l \in Letters :
    row[l] # "absent" \/ queue[l] > 0 \/ l \in poll.todo \cup poll.late => l \in inbox

\* A letter without a row came today or yesterday.
NoneOverdue ==
  /\ \A l \in inbox : Arrival[l] <= day
  /\ \A l \in inbox \cap Real : row[l] = "absent" => Arrival[l] >= day - 1

-----------------------------------------------------------------------------
(* Operators *)

\* The newest of some letters are some of them.
LEMMA NewestAreSome == ASSUME NEW S, NEW n PROVE Newest(S, n) \subseteq S
BY DEF Newest

\* A function of a finite set takes a greatest value.
LEMMA Greatest ==
  ASSUME NEW K, IsFiniteSet(K), K # {}, NEW f \in [K -> Int]
  PROVE  \E l \in K : \A k \in K : f[k] <= f[l]
<1> DEFINE Above(l) == {k \in K : f[k] > f[l]}
           Ranks == {Cardinality(Above(l)) : l \in K}
<1>1. \A l \in K : IsFiniteSet(Above(l)) /\ Cardinality(Above(l)) \in Nat
  BY FS_Subset, FS_CardinalityType
<1>2. Ranks \subseteq Nat /\ Ranks # {}
  BY <1>1
<1>3. PICK r \in Ranks : \A q \in Ranks : ~ (<<q, r>> \in OpToRel(<, Nat))
  BY <1>2, NatLessThanWellFounded, WFMin
<1>4. PICK l \in K : r = Cardinality(Above(l))
  BY <1>3
<1>5. SUFFICES ASSUME NEW k \in K, ~ (f[k] <= f[l]) PROVE FALSE
  OBVIOUS
<1>6. k \in Above(l) /\ k \notin Above(k)
  BY <1>5
<1>7. Above(k) \subseteq Above(l)
  BY <1>5
<1>8. Cardinality(Above(k)) < r
  <2>1. /\ Cardinality(Above(k)) <= Cardinality(Above(l))
        /\ Cardinality(Above(l)) = Cardinality(Above(k)) => Above(l) = Above(k)
    BY <1>1, <1>7, FS_Subset
  <2>2. Cardinality(Above(k)) # Cardinality(Above(l))
    BY <1>6, <2>1
  <2>3. QED
    BY <1>1, <1>4, <2>1, <2>2
<1>9. <<Cardinality(Above(k)), r>> \in OpToRel(<, Nat)
  BY <1>1, <1>4, <1>8 DEF OpToRel
<1>10. QED
  BY <1>3, <1>9

\* The catch-up window begins on some day.
LEMMA SinceIsADay == ASSUME TypeOK PROVE Since \in Int
<1>1. day \in Int /\ CatchupDays \in Int /\ Dated \in [Letters -> Int] /\ IsFiniteSet(Letters)
  BY PollAssumption DEF TypeOK
<1>2. CASE Known = {}
  BY <1>1, <1>2 DEF Since
<1>3. CASE Known # {}
  <2> DEFINE days == {Dated[l] : l \in Known}
  <2>1. Known \subseteq Letters
    BY DEF Known
  <2>2. IsFiniteSet(Known)
    BY <1>1, <2>1, FS_Subset
  <2>3. [l \in Known |-> Dated[l]] \in [Known -> Int]
    BY <1>1, <2>1
  <2>4. \E l \in Known : \A k \in Known : Dated[k] <= Dated[l]
    BY <1>3, <2>2, <2>3, Greatest
  <2>5. \E d \in days : \A l \in Known : Dated[l] <= d
    BY <2>4
  <2>6. (CHOOSE d \in days : \A l \in Known : Dated[l] <= d) \in days
    BY <2>5
  <2>7. days \subseteq Int
    BY <1>1, <2>1
  <2>8. Since = (CHOOSE d \in days : \A l \in Known : Dated[l] <= d) - 1
    BY <1>3 DEF Since
  <2>9. (CHOOSE d \in days : \A l \in Known : Dated[l] <= d) \in Int
    BY <2>6, <2>7
  <2>10. QED
    BY <2>8, <2>9
<1>4. QED
  BY <1>2, <1>3

\* The poll that does not run, and the poll without one of its letters.
LEMMA PollShapes ==
  /\ NoPoll \in [pc : {"idle", "unseen", "catchup", "enqueue"}, since : Int,
                 paused : BOOLEAN, budget : Nat, todo : SUBSET Letters, late : SUBSET Letters]
  /\ NoPoll.pc = "idle" /\ NoPoll.todo = {}
BY DEF NoPoll

\* What a round of the enqueue loop writes into the poll.
LEMMA EnqueueWrites ==
  ASSUME TypeOK, NEW l \in Letters, Enqueue(l)
  PROVE  /\ poll' \in [pc : {"idle", "unseen", "catchup", "enqueue"}, since : Int,
                        paused : BOOLEAN, budget : Nat, todo : SUBSET Letters, late : SUBSET Letters]
         /\ \/ Fault /\ poll' = NoPoll
            \/ poll'.todo = poll.todo \ {l} /\ poll'.pc = "enqueue"
<1> DEFINE P == Without(l)
<1>1. /\ P \in [pc : {"idle", "unseen", "catchup", "enqueue"}, since : Int,
                 paused : BOOLEAN, budget : Nat, todo : SUBSET Letters, late : SUBSET Letters]
      /\ P.todo = poll.todo \ {l} /\ P.pc = "enqueue" /\ P.budget = poll.budget
  BY DEF Without, TypeOK, Enqueue
<1>2. CASE poll' = P
  BY <1>1, <1>2
<1>3. CASE poll.budget # 0 /\ poll' = [P EXCEPT !.budget = @ - 1]
  <2>1. P.budget - 1 \in Nat
    BY <1>1, <1>3 DEF TypeOK
  <2> HIDE DEF P
  <2>2. QED
    BY <1>1, <1>3, <2>1
<1>4. CASE Fault /\ poll' = NoPoll
  BY <1>4, PollShapes
<1>5. QED
  <2>1. \/ poll' = P
        \/ poll.budget # 0 /\ poll' = [P EXCEPT !.budget = @ - 1]
        \/ Fault /\ poll' = NoPoll
    BY DEF Enqueue
  <2>2. QED
    BY <1>2, <1>3, <1>4, <2>1

-----------------------------------------------------------------------------
(* Types *)

\* Init is well typed.
LEMMA TypeInit == Init => TypeOK
BY PollAssumption, PollShapes DEF Init, TypeOK

\* A fault is counted within its bound.
LEMMA FaultType == ASSUME TypeOK, Fault PROVE faults' \in 0..MaxFaults
BY PollAssumption DEF TypeOK, Fault

\* The steps of the server and of the calendar keep the types.
LEMMA TypeOutside ==
  ASSUME TypeOK, NextDay \/ \E l \in Letters : Deliver(l)
  PROVE  TypeOK'
<1>1. CASE NextDay
  BY <1>1, PollAssumption DEF NextDay, TypeOK
<1>2. ASSUME NEW l \in Letters, Deliver(l) PROVE TypeOK'
  BY <1>2 DEF Deliver, TypeOK
<1>3. QED
  BY <1>1, <1>2

\* The steps of the poll keep the types.
LEMMA TypePoll == ASSUME TypeOK, Poll \/ PollCrash PROVE TypeOK'
<1> USE PollShapes
<1>1. CASE PollStart
  <2> DEFINE paused == Cardinality(Processing) >= Threshold
  <2>1. PICK b \in {0} \cup Budgets :
          poll' = [pc |-> "unseen", since |-> Since, paused |-> paused, budget |-> b,
                   todo |-> {}, late |-> {}]
    BY <1>1 DEF PollStart
  <2>2. b \in Nat
    BY PollAssumption
  <2>3. poll' \in [pc : {"idle", "unseen", "catchup", "enqueue"}, since : Int,
                   paused : BOOLEAN, budget : Nat, todo : SUBSET Letters, late : SUBSET Letters]
    BY <2>1, <2>2, SinceIsADay
  <2>4. QED
    BY <1>1, <2>3 DEF PollStart, TypeOK
<1>2. CASE FetchUnseen
  <2> DEFINE unread == inbox \ seen
             rest == IF poll.paused THEN "enqueue" ELSE "catchup"
             Go(n) == [poll EXCEPT !.pc = rest, !.todo = Newest(unread, n)]
  <2>1. \A n : Newest(unread, n) \subseteq unread
    BY NewestAreSome
  <2>2. unread \subseteq Letters
    BY DEF TypeOK
  <2>3. \A n : Go(n) \in [pc : {"idle", "unseen", "catchup", "enqueue"}, since : Int,
                          paused : BOOLEAN, budget : Nat, todo : SUBSET Letters, late : SUBSET Letters]
    BY <2>1, <2>2 DEF TypeOK
  <2>4. faults' \in 0..MaxFaults
    BY <1>2, FaultType DEF FetchUnseen, TypeOK
  <2>5. \E n, m : seen' = seen \cup Newest(unread, n) /\ poll' \in {NoPoll, Go(m)}
    BY <1>2 DEF FetchUnseen
  <2>6. seen' \subseteq inbox
    BY <2>1, <2>5 DEF TypeOK
  <2>7. poll' \in [pc : {"idle", "unseen", "catchup", "enqueue"}, since : Int,
                   paused : BOOLEAN, budget : Nat, todo : SUBSET Letters, late : SUBSET Letters]
    BY <2>3, <2>5
  <2>8. QED
    BY <1>2, <2>4, <2>6, <2>7 DEF FetchUnseen, TypeOK
<1>3. CASE FetchSince
  <2>1. faults' \in 0..MaxFaults
    BY <1>3, FaultType DEF FetchSince, TypeOK
  <2>2. \E L \in SUBSET Letters : \/ poll' = [poll EXCEPT !.pc = "enqueue", !.late = L]
                                  \/ poll' = [poll EXCEPT !.pc = "enqueue"]
    <3> DEFINE window == {l \in inbox : Arrival[l] >= poll.since}
               scanned == Newest(window, IF Known = {} THEN MaxUids ELSE HeaderCap)
               caught == Newest(scanned \ Known, MaxUids)
    <3>1. scanned \subseteq window /\ caught \subseteq scanned \ Known
      BY NewestAreSome
    <3>2. caught \ poll.todo \in SUBSET Letters
      BY <3>1 DEF TypeOK
    <3>3. \/ poll' = [poll EXCEPT !.pc = "enqueue", !.late = caught \ poll.todo]
          \/ poll' = [poll EXCEPT !.pc = "enqueue"]
      BY <1>3 DEF FetchSince
    <3>4. QED
      BY <3>2, <3>3
  <2>3. QED
    BY <1>3, <2>1, <2>2 DEF FetchSince, TypeOK
<1>4. ASSUME NEW l \in Letters, Enqueue(l) PROVE TypeOK'
  <2>1. faults' \in 0..MaxFaults
    BY <1>4, FaultType DEF Enqueue, TypeOK
  <2>2. queue' \in [Letters -> 0..MaxCopies]
    BY <1>4, PollAssumption DEF Enqueue, TypeOK
  <2>3. poll' \in [pc : {"idle", "unseen", "catchup", "enqueue"}, since : Int,
                   paused : BOOLEAN, budget : Nat, todo : SUBSET Letters, late : SUBSET Letters]
    BY <1>4, EnqueueWrites DEF TypeOK
  <2>4. QED
    BY <1>4, <2>1, <2>2, <2>3 DEF Enqueue, TypeOK
<1>5. CASE PollEnd
  BY <1>5 DEF PollEnd, TypeOK
<1>6. CASE PollCrash
  BY <1>6, FaultType DEF PollCrash, TypeOK
<1>7. QED
  BY <1>1, <1>2, <1>3, <1>4, <1>5, <1>6 DEF Poll

\* The steps of the workers keep the types.
LEMMA TypeWorkers ==
  ASSUME TypeOK, NEW l \in Letters, StartRow(l) \/ FinishRow(l) \/ LeaseExpire(l) \/ Recover(l)
  PROVE  TypeOK'
<1>1. CASE StartRow(l)
  <2>1. faults' \in 0..MaxFaults
    BY <1>1, FaultType DEF StartRow, TypeOK
  <2>2. queue' \in [Letters -> 0..MaxCopies]
    BY <1>1, PollAssumption DEF StartRow, TypeOK
  <2>3. row' \in [Letters -> {"absent", "fresh", "stale", "terminal"}]
    BY <1>1 DEF StartRow, TypeOK
  <2>4. QED
    BY <1>1, <2>1, <2>2, <2>3 DEF StartRow, TypeOK
<1>2. CASE FinishRow(l)
  BY <1>2 DEF FinishRow, TypeOK
<1>3. CASE LeaseExpire(l)
  BY <1>3, FaultType DEF LeaseExpire, TypeOK
<1>4. CASE Recover(l)
  <2>1. queue' \in [Letters -> 0..MaxCopies]
    BY <1>4, PollAssumption DEF Recover, TypeOK
  <2>2. QED
    BY <1>4, <2>1 DEF Recover, TypeOK
<1>5. QED
  BY <1>1, <1>2, <1>3, <1>4

\* Every step keeps the types.
LEMMA TypeStep == TypeOK /\ [Next]_vars => TypeOK'
<1>1. CASE UNCHANGED vars
  BY <1>1 DEF vars, TypeOK
<1>2. CASE Next
  BY <1>2, TypeOutside, TypePoll, TypeWorkers DEF Next
<1>3. QED
  BY <1>1, <1>2

\* The days, the letters, the row stages and the poll's fields stay in their
\* sets: the start of the window is a day, the budget never goes below zero.
THEOREM TypeCorrect == Spec => []TypeOK
<1>1. QED
  BY TypeInit, TypeStep, PTL DEF Spec

-----------------------------------------------------------------------------
(* How long a letter may wait *)

\* The server and the calendar: a new letter is of today, and the day changes
\* only when older letters have their rows.
LEMMA PaceOutside ==
  ASSUME Patience <= 1, TypeOK, OnlyReceived, NoneOverdue,
         NextDay \/ \E l \in Letters : Deliver(l)
  PROVE  OnlyReceived' /\ NoneOverdue'
<1>1. CASE NextDay
  <2>1. /\ day' = day + 1 /\ day \in Nat /\ UNCHANGED <<inbox, row, queue, poll>>
        /\ inbox \subseteq Letters
    BY <1>1 DEF NextDay, TypeOK
  <2>2. Patience \in Int /\ \A l \in Letters : Arrival[l] \in Int
    BY PollAssumption
  <2>3. \A l \in Real : row[l] = "absent" => Arrival[l] + Patience > day
    BY <1>1 DEF NextDay, Real
  <2>4. \A l \in Real : row[l] = "absent" => Arrival[l] >= day
    BY <2>1, <2>2, <2>3 DEF Real
  <2> QED
    BY <2>1, <2>2, <2>4 DEF OnlyReceived, NoneOverdue
<1>2. ASSUME NEW l \in Letters, Deliver(l) PROVE OnlyReceived' /\ NoneOverdue'
  <2>1. /\ Arrival[l] = day /\ inbox' = inbox \cup {l} /\ day \in Nat
        /\ UNCHANGED <<day, row, queue, poll>>
    BY <1>2 DEF Deliver, TypeOK
  <2> QED
    BY <2>1 DEF OnlyReceived, NoneOverdue
<1> QED
  BY <1>1, <1>2

\* The poll takes up only letters on the server.
LEMMA PacePoll ==
  ASSUME TypeOK, OnlyReceived, NoneOverdue, Poll \/ PollCrash
  PROVE  OnlyReceived' /\ NoneOverdue'
<1>1. UNCHANGED <<day, inbox, row>>
  BY DEF Poll, PollCrash, PollStart, FetchUnseen, FetchSince, PollEnd, Enqueue
<1>2. NoneOverdue'
  BY <1>1 DEF NoneOverdue
<1>3. CASE UNCHANGED queue /\ poll'.todo \cup poll'.late \subseteq inbox
  <2> SUFFICES ASSUME NEW l \in Letters,
                      (row[l] # "absent" \/ queue[l] > 0 \/ l \in poll.todo \cup poll.late)'
               PROVE  l \in inbox'
    BY <1>2 DEF OnlyReceived
  <2>1. CASE l \in poll'.todo \cup poll'.late
    BY <1>1, <1>3, <2>1
  <2>2. CASE row[l] # "absent" \/ queue[l] > 0
    BY <1>1, <2>2 DEF OnlyReceived
  <2> QED
    BY <1>1, <1>3, <2>1, <2>2
<1>4. poll.todo \cup poll.late \subseteq inbox
  BY DEF OnlyReceived, TypeOK
<1>5. CASE PollStart
  <2>1. poll'.todo = {} /\ poll'.late = {} /\ UNCHANGED queue
    BY <1>5 DEF PollStart
  <2> QED
    BY <1>2, <1>3, <2>1
<1>6. CASE FetchUnseen
  <2> DEFINE rest == IF poll.paused THEN "enqueue" ELSE "catchup"
             Go(n) == [poll EXCEPT !.pc = rest, !.todo = Newest(inbox \ seen, n)]
  <2>1. UNCHANGED queue /\ \E n : poll' \in {NoPoll, Go(n)}
    BY <1>6 DEF FetchUnseen
  <2>2. \A n : Go(n).todo = Newest(inbox \ seen, n) /\ Go(n).late = poll.late
    BY DEF TypeOK
  <2>3. \A n : Newest(inbox \ seen, n) \subseteq inbox
    BY NewestAreSome
  <2> HIDE DEF Go
  <2> QED
    BY <1>2, <1>3, <1>4, <2>1, <2>2, <2>3 DEF NoPoll
<1>7. CASE FetchSince
  <2> DEFINE window == {l \in inbox : Arrival[l] >= poll.since}
             scanned == Newest(window, IF Known = {} THEN MaxUids ELSE HeaderCap)
             caught == Newest(scanned \ Known, MaxUids)
  <2>1. caught \subseteq inbox
    <3>1. scanned \subseteq window /\ caught \subseteq scanned \ Known
      BY NewestAreSome
    <3> QED
      BY <3>1
  <2>2. /\ UNCHANGED queue
        /\ \/ poll' = [poll EXCEPT !.pc = "enqueue", !.late = caught \ poll.todo]
           \/ poll' = [poll EXCEPT !.pc = "enqueue"]
    BY <1>7 DEF FetchSince
  <2> HIDE DEF caught
  <2>3. poll'.todo = poll.todo /\ poll'.late \in {poll.late, caught \ poll.todo}
    BY <2>2 DEF TypeOK
  <2> QED
    BY <1>2, <1>3, <1>4, <2>1, <2>2, <2>3
<1>8. ASSUME NEW l \in Letters, Enqueue(l) PROVE OnlyReceived'
  <2>1. l \in inbox
    BY <1>4, <1>8 DEF Enqueue, Turn
  <2>2. \A k \in Letters : k # l => queue'[k] = queue[k]
    BY <1>8 DEF Enqueue, TypeOK
  <2>3. poll'.todo \subseteq poll.todo /\ poll'.late \subseteq poll.late
    <3>1. /\ Without(l).todo = poll.todo \ {l} /\ Without(l).late = poll.late \ {l}
          /\ [Without(l) EXCEPT !.budget = @ - 1].todo = poll.todo \ {l}
          /\ [Without(l) EXCEPT !.budget = @ - 1].late = poll.late \ {l}
          /\ NoPoll.todo = {} /\ NoPoll.late = {}
      BY DEF Without, TypeOK, NoPoll
    <3>2. poll' \in {Without(l), [Without(l) EXCEPT !.budget = @ - 1], NoPoll}
      BY <1>8 DEF Enqueue
    <3> QED
      BY <3>1, <3>2
  <2> QED
    BY <1>1, <1>4, <2>1, <2>2, <2>3 DEF OnlyReceived
<1>9. CASE PollEnd \/ PollCrash
  BY <1>2, <1>3, <1>9 DEF PollEnd, PollCrash, NoPoll
<1> QED
  BY <1>2, <1>5, <1>6, <1>7, <1>8, <1>9 DEF Poll

\* The workers make rows and take none away.
LEMMA PaceWorkers ==
  ASSUME TypeOK, OnlyReceived, NoneOverdue, NEW l \in Letters,
         StartRow(l) \/ FinishRow(l) \/ LeaseExpire(l) \/ Recover(l)
  PROVE  OnlyReceived' /\ NoneOverdue'
<1>1. UNCHANGED <<day, inbox, poll>> /\ inbox \subseteq Letters
  BY DEF StartRow, FinishRow, LeaseExpire, Recover, TypeOK
<1>2. \A k \in Letters : /\ k # l => row'[k] = row[k] /\ queue'[k] = queue[k]
                         /\ row'[k] = "absent" => row[k] = "absent"
  BY DEF StartRow, FinishRow, LeaseExpire, Recover, TypeOK
<1>3. l \in inbox
  <2>1. row[l] # "absent" \/ queue[l] > 0
    BY DEF StartRow, FinishRow, LeaseExpire, Recover
  <2> QED
    BY <2>1 DEF OnlyReceived
<1> QED
  BY <1>1, <1>2, <1>3 DEF OnlyReceived, NoneOverdue

\* No step makes a letter wait longer than over one midnight.
LEMMA PaceStep ==
  ASSUME Patience <= 1
  PROVE  TypeOK /\ OnlyReceived /\ NoneOverdue /\ [Next]_vars => OnlyReceived' /\ NoneOverdue'
<1> SUFFICES ASSUME TypeOK, OnlyReceived, NoneOverdue, [Next]_vars
             PROVE  OnlyReceived' /\ NoneOverdue'
  OBVIOUS
<1>1. CASE UNCHANGED vars
  BY <1>1 DEF vars, OnlyReceived, NoneOverdue
<1>2. CASE Next
  BY <1>2, PaceOutside, PacePoll, PaceWorkers DEF Next
<1> QED
  BY <1>1, <1>2

\* The window begins yesterday or earlier, however new the newest row is.
LEMMA SinceReachesBack ==
  ASSUME SoundDates, TypeOK, OnlyReceived, NoneOverdue
  PROVE  Since \in Int /\ Since <= day - 1
<1>1. day \in Int /\ CatchupDays \in Int /\ Dated \in [Letters -> Int] /\ IsFiniteSet(Letters)
  BY PollAssumption DEF TypeOK
<1>2. Since \in Int
  BY SinceIsADay
<1>3. CASE Known = {}
  BY <1>1, <1>2, <1>3 DEF Since, SoundDates
<1>4. CASE Known # {}
  <2> DEFINE newest == CHOOSE d \in {Dated[l] : l \in Known} : \A l \in Known : Dated[l] <= d
  <2>1. Known \subseteq Letters
    BY DEF Known
  <2>2. [l \in Known |-> Dated[l]] \in [Known -> Int] /\ IsFiniteSet(Known)
    BY <1>1, <2>1, FS_Subset
  <2>3. \E l \in Known : \A k \in Known : Dated[k] <= Dated[l]
    BY <1>4, <2>2, Greatest
  <2>4. newest \in {Dated[l] : l \in Known}
    BY <2>3
  <2>5. \A k \in Known : Dated[k] \in Int /\ Dated[k] <= day
    <3> SUFFICES ASSUME NEW k \in Known PROVE Dated[k] \in Int /\ Dated[k] <= day
      OBVIOUS
    <3>1. k \in Letters /\ k \in inbox
      BY <2>1 DEF OnlyReceived, Known
    <3>2. Arrival[k] \in Int
      BY <3>1, PollAssumption
    <3> QED
      BY <1>1, <3>1, <3>2 DEF NoneOverdue, SoundDates
  <2>6. Since = newest - 1
    BY <1>4 DEF Since
  <2>7. newest \in Int /\ newest <= day
    BY <2>4, <2>5
  <2> HIDE DEF newest
  <2> QED
    BY <1>1, <2>6, <2>7
<1> QED
  BY <1>2, <1>3, <1>4

\* While no letter waits for its row over two midnights, every letter without a
\* row can still be found, whatever poll_mailboxes drops after marking it read:
\* with any budget, any pause, any failed fetch, hand-over, first write or poll,
\* the window of catchup_since_date reaches back far enough.  Letters must not be
\* dated ahead of their arrival: one date in the future moves the window past all.
THEOREM WindowForgivesADay ==
  ASSUME SoundDates, Patience <= 1
  PROVE  Spec => []NothingOutOfReach
<1>1. Init => OnlyReceived /\ NoneOverdue
  BY DEF Init, NoPoll, OnlyReceived, NoneOverdue
<1>2. TypeOK /\ OnlyReceived /\ NoneOverdue => NothingOutOfReach
  <2> SUFFICES ASSUME TypeOK, OnlyReceived, NoneOverdue, NEW l \in inbox \cap Real,
                      row[l] = "absent"
               PROVE  Arrival[l] >= Since
    BY DEF NothingOutOfReach
  <2>1. Since \in Int /\ Since <= day - 1 /\ day \in Int
    BY SinceReachesBack DEF TypeOK
  <2>2. Arrival[l] \in Int
    <3>1. l \in Letters /\ Arrival[l] \in 0..LastDay /\ LastDay \in Nat
      BY PollAssumption DEF Real
    <3> QED
      BY <3>1
  <2> QED
    BY <2>1, <2>2 DEF NoneOverdue
<1> QED
  BY <1>1, <1>2, TypeInit, TypeStep, PaceStep, PTL DEF Spec

=============================================================================
