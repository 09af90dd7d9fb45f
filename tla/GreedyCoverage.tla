--------------------------- MODULE GreedyCoverage ---------------------------
(***************************************************************************)
(* The loop that covers demands from a shared bank.  The repository has it *)
(* twice: allocate_materials_by_deadline (demands of the managers' queue   *)
(* from stock lines, then from supplier offers) and                        *)
(* build_material_order_coverage with _allocate_docs (positions of one     *)
(* material order from lines of transfer orders, then of supplier orders). *)
(* CoverageInputs derives, from the records either one reads, the order in *)
(* which it serves the demands and the sources it looks at for each.       *)
(***************************************************************************)
EXTENDS Naturals, Sequences, FiniteSets, FiniteSetsExt

CONSTANTS
  Sources,    \* stock lines and supplier offers, or lines of orders
  FirstTier,  \* the stock lines, or the lines of transfer orders
  Inputs      \* the calculations: see InputsAssumption

\* One calculation: count demands in the order of the loop, of each its
\* quantity, the rank of its deadline, the sources that match it and the
\* sources the loop looks at, in turn; and the quantity of each source.
InputsAssumption ==
  \A i \in Inputs :
    /\ i.count \in Nat
    /\ i.need \in [1 .. i.count -> Nat]
    /\ i.rank \in [1 .. i.count -> Nat]
    /\ i.fits \in [1 .. i.count -> SUBSET Sources]
    /\ i.scan \in [1 .. i.count -> Seq(Sources)]
    /\ i.supply \in [Sources -> Nat]
    /\ \A d, e \in 1 .. i.count : i.rank[d] < i.rank[e] => d < e
    /\ \A d \in 1 .. i.count :
         /\ \A s \in i.fits[d] : \/ i.supply[s] = 0
                                 \/ \E k \in 1 .. Len(i.scan[d]) : i.scan[d][k] = s
         /\ \A k, l \in 1 .. Len(i.scan[d]) :
              i.scan[d][k] \notin FirstTier /\ i.scan[d][l] \in FirstTier => l < k
         /\ \A k \in 1 .. Len(i.scan[d]) : i.scan[d][k] \in i.fits[d]

ASSUME CoverageAssumption == IsFiniteSet(Sources) /\ InputsAssumption

VARIABLES
  input,     \* what this calculation reads
  demand,    \* the demand being served; count + 1 when all are
  at,        \* the place in its scan
  left,      \* what it still needs
  residual,  \* what is left of each source (remaining_stock, remaining_supplier;
             \* quantity - consumed)
  given,     \* what each demand got (warehouse_parts, supplier_parts; used)
  deficit    \* what a closed demand lacks

vars == <<input, demand, at, left, residual, given, deficit>>

Demands == 1 .. input.count
Needed(i, d) == IF d \in 1 .. i.count THEN i.need[d] ELSE 0
Source == input.scan[demand][at]
Scanning == demand \in Demands /\ at <= Len(input.scan[demand]) /\ left > 0
Smaller(a, b) == IF a < b THEN a ELSE b

-----------------------------------------------------------------------------
Init ==
  /\ input \in Inputs
  /\ demand = 1 /\ at = 1 /\ left = Needed(input, 1)
  /\ residual = input.supply
  /\ given = [d \in Demands |-> [s \in Sources |-> 0]]
  /\ deficit = [d \in Demands |-> 0]

\* Mutant: the whole need is taken from a source that has less.
TakenHere_Unbounded == left

\* What the next source gives: what it has, at most what is needed.
TakenHere == Smaller(left, residual[Source])

\* Mutant: the loop ends at the first source that gave anything.
Take_FirstOnly ==
  /\ Scanning /\ residual[Source] > 0
  /\ residual' = [residual EXCEPT ![Source] = @ - TakenHere]
  /\ given' = [given EXCEPT ![demand][Source] = @ + TakenHere]
  /\ left' = left - TakenHere
  /\ at' = Len(input.scan[demand]) + 1
  /\ UNCHANGED <<input, demand, deficit>>

\* Mutant: what was taken is not consumed.
Take_NotConsumed ==
  /\ Scanning /\ residual[Source] > 0
  /\ given' = [given EXCEPT ![demand][Source] = @ + TakenHere]
  /\ left' = left - TakenHere
  /\ at' = at + 1
  /\ UNCHANGED <<input, demand, residual, deficit>>

\* The next source has something left.
Take ==
  /\ Scanning
  /\ residual[Source] > 0
  /\ residual' = [residual EXCEPT ![Source] = @ - TakenHere]
  /\ given' = [given EXCEPT ![demand][Source] = @ + TakenHere]
  /\ left' = left - TakenHere
  /\ at' = at + 1
  /\ UNCHANGED <<input, demand, deficit>>

\* The next source has nothing left.
Skip ==
  /\ Scanning
  /\ residual[Source] = 0
  /\ at' = at + 1
  /\ UNCHANGED <<input, demand, left, residual, given, deficit>>

\* Mutant: the last source of the scan is never looked at.
Close_LastUnseen ==
  /\ demand \in Demands
  /\ left = 0 \/ at >= Len(input.scan[demand])
  /\ deficit' = [deficit EXCEPT ![demand] = left]
  /\ demand' = demand + 1
  /\ at' = 1
  /\ left' = Needed(input, demand + 1)
  /\ UNCHANGED <<input, residual, given>>

\* The demand is covered, or there is nothing more to look at: its line is
\* written and the next demand begins.
Close ==
  /\ demand \in Demands
  /\ left = 0 \/ at > Len(input.scan[demand])
  /\ deficit' = [deficit EXCEPT ![demand] = left]
  /\ demand' = demand + 1
  /\ at' = 1
  /\ left' = Needed(input, demand + 1)
  /\ UNCHANGED <<input, residual, given>>

Next == Take \/ Skip \/ Close

Spec == Init /\ [][Next]_vars

-----------------------------------------------------------------------------
(* Properties *)

\* The type invariant: the loop's counters and quantities stay in range, and
\* no residual falls below zero (Decimal("0") is where both loops stop taking).
TypeOK ==
  /\ input \in Inputs
  /\ demand \in 1 .. input.count + 1
  /\ at \in Nat \ {0}
  /\ left \in Nat
  /\ residual \in [Sources -> Nat]
  /\ given \in [Demands -> [Sources -> Nat]]
  /\ deficit \in [Demands -> Nat]

\* A demand with an earlier deadline never goes short of, nor is sent to a
\* supplier for, something a demand with a later deadline got: "Earlier orders
\* lock warehouse qty; later orders see the residual bank only"
\* (allocate_materials_by_deadline), whatever pair of keys each matched by.
EarlierDeadlineFirst ==
  \A d, e \in Demands : \A s \in input.fits[d] :
    input.rank[d] < input.rank[e] /\ given[e][s] > 0 =>
      /\ deficit[d] = 0
      /\ s \in FirstTier => \A t \in Sources \ FirstTier : given[d][t] = 0

Total(f, S) == MapThenSumSet(LAMBDA x : f[x], S)

\* Nothing is promised twice: what all demands got of a source and what is left
\* of it is what there was, and what a demand got and lacks is what it needed
\* (consumed in _allocate_docs; remaining_stock and remaining_supplier).
NothingTwice ==
  /\ \A s \in Sources :
       residual[s] + Total([d \in Demands |-> given[d][s]], Demands) = input.supply[s]
  /\ \A d \in Demands :
       d < demand => deficit[d] + Total(given[d], Sources) = input.need[d]

\* The loop keeps the promise of Reservation: each demand, when it is closed,
\* has been served all it needs or all that fits it, the first tier first.
Closed == 1 .. demand - 1
Promised == INSTANCE Reservation
              WITH served <- Closed,
                   given <- [d \in Demands |->
                               [s \in Sources |-> IF d \in Closed THEN given[d][s] ELSE 0]]
Promise == Promised!Spec
=============================================================================
