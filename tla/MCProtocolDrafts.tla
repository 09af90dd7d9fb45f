-------------------------- MODULE MCProtocolDrafts --------------------------
(***************************************************************************)
(* Small instances of ProtocolDrafts: one worker, one request at a time     *)
(* and the periodic tasks.  Four protocols suffice: the card's, and one for *)
(* each actor.                                                             *)
(***************************************************************************)
EXTENDS ProtocolDrafts

CONSTANTS w1, c1

FourDocs == 1 .. 4

=============================================================================
