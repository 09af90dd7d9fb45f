---------------------------- MODULE MCKbIndexing ----------------------------
(***************************************************************************)
(* Small instances of KbIndexing: one source and up to five jobs; the      *)
(* clients are interchangeable.                                            *)
(***************************************************************************)
EXTENDS KbIndexing, TLC

CONSTANTS s1, s2, c1, c2

AnyClient == Permutations(Clients)

=============================================================================
