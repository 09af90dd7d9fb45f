--------------------------- MODULE MCMailPipeline ---------------------------
(***************************************************************************)
(* Small instances of MailPipeline: at most two letters, to one or two     *)
(* recipients, all of them on the info@ route.                             *)
(***************************************************************************)
EXTENDS MailPipeline

CONSTANTS m1, m2, r1, r2

OneRecipient  == [m \in Mails |-> <<r1>>]
TwoRecipients == [m \in Mails |-> <<r1, r2>>]
AllAttempts   == Mails \X Addresses

=============================================================================
