---------------------------- MODULE Reservation ----------------------------
(***************************************************************************)
(* What a plan of cover promises, whatever order the code looks things up  *)
(* in.  Demands are served one at a time, earlier deadlines first, out of  *)
(* what those already served have left: a demand gets all it needs or      *)
(* everything that fits it, and touches the second tier (suppliers) only   *)
(* when nothing of the first (stock, internal transfers) is left for it.   *)
(***************************************************************************)
EXTENDS Naturals, FiniteSets, FiniteSetsExt

CONSTANTS Sources, FirstTier, Inputs

VARIABLES
  input,   \* the demands and sources of this calculation
  served,  \* the demands already served
  given    \* what each demand got from each source

vars == <<input, served, given>>

Demands == 1 .. input.count
Total(f, S) == MapThenSumSet(LAMBDA s : f[s], S)

\* What the demands served so far have left of each source.
Free == [s \in Sources |->
           input.supply[s] - Total([d \in Demands |-> given[d][s]], Demands)]

Init ==
  /\ input \in Inputs
  /\ served = {}
  /\ given = [d \in Demands |-> [s \in Sources |-> 0]]

\* A demand whose deadline no unserved demand precedes takes its share.
Serve(d) ==
  /\ d \notin served
  /\ \A e \in Demands \ served : input.rank[d] <= input.rank[e]
  /\ \E share \in [Sources -> 0 .. input.need[d]] :
       /\ given' = [given EXCEPT ![d] = share]
       /\ \A s \in Sources : share[s] <= Free[s]
       /\ \A s \in Sources \ input.fits[d] : share[s] = 0
       /\ \/ Total(share, Sources) = input.need[d]
          \/ /\ Total(share, Sources) < input.need[d]
             /\ \A s \in input.fits[d] : share[s] = Free[s]
       /\ \/ \A s \in Sources \ FirstTier : share[s] = 0
          \/ \A s \in input.fits[d] \cap FirstTier : share[s] = Free[s]
  /\ served' = served \cup {d}
  /\ UNCHANGED input

Next == \E d \in Demands : Serve(d)

Spec == Init /\ [][Next]_vars
=============================================================================
