------------------------------ MODULE ErpLedger ------------------------------
(***************************************************************************)
(* What the mail agent promises about 1C, with no worker, queue or         *)
(* operator in sight.  The 1C database holds some number of incoming       *)
(* documents per routing attempt; our own table may claim that the attempt *)
(* is registered.  A claim is only ever made about a document that exists, *)
(* and neither a document nor a claim is ever withdrawn.                   *)
(***************************************************************************)
EXTENDS Integers

CONSTANT Attempts

VARIABLES docs,      \* docs[a]: documents of attempt a in the 1C database
          claimed    \* claimed[a]: our row names a document of attempt a

ledgerVars == <<docs, claimed>>

Init == /\ docs = [a \in Attempts |-> 0]
        /\ claimed = [a \in Attempts |-> FALSE]

Create(a) == /\ docs' = [docs EXCEPT ![a] = @ + 1]
             /\ UNCHANGED claimed

Claim(a) == /\ docs[a] > 0
            /\ claimed' = [claimed EXCEPT ![a] = TRUE]
            /\ UNCHANGED docs

Next == \E a \in Attempts : Create(a) \/ Claim(a)

Spec == Init /\ [][Next]_ledgerVars

=============================================================================
