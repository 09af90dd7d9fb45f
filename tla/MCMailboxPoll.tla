---------------------------- MODULE MCMailboxPoll ----------------------------
(***************************************************************************)
(* Small instances of MailboxPoll.  Workdays: mail on three adjacent days, *)
(* one of the letters a demo letter, one a day on its way; the window      *)
(* leaves old letters out.  OverWeekend: the service was down for two days *)
(* and finds two unread letters.                                           *)
(***************************************************************************)
EXTENDS MailboxPoll

Workdays     == [l \in Letters |-> IF l = 1 THEN 0 ELSE IF l = 4 THEN 2 ELSE 1]
WorkdayDates == [Workdays EXCEPT ![2] = 0]
OverWeekend  == [l \in Letters |-> IF l = 1 THEN 0 ELSE 2]

=============================================================================
