------------------------ MODULE GreedyCoverage_proofs ------------------------
(***************************************************************************)
(* Proofs about GreedyCoverage for every set of sources and calculations   *)
(* that satisfies CoverageAssumption.  That an earlier deadline comes      *)
(* first is not inductive: the strengthening says what the loop has used   *)
(* up when it leaves a source behind (Drained), that stock was used up     *)
(* before a supplier was asked (StockFirst), and that a demand not yet     *)
(* reached has nothing (Untouched).                                        *)
(***************************************************************************)
EXTENDS GreedyCoverage, TLAPS, FiniteSetTheorems, WellFoundedInduction

\* What was passed over is used up: by a closed demand that lacks something,
\* everything that fits it; by the demand being served, every source before at.
Drained ==
  /\ \A d \in Demands : deficit[d] > 0 => \A s \in input.fits[d] : residual[s] = 0
  /\ demand \in Demands /\ left > 0 =>
       \A k \in 1 .. Len(input.scan[demand]) : k < at => residual[input.scan[demand][k]] = 0

\* A demand that got something of the second tier left nothing of the first.
StockFirst ==
  \A d \in Demands :
    (\E t \in Sources \ FirstTier : given[d][t] > 0) =>
      \A s \in input.fits[d] \cap FirstTier : residual[s] = 0

\* A demand after the one being served has nothing, and no source grows.
Untouched ==
  /\ \A d \in Demands : d > demand => \A s \in Sources : given[d][s] = 0
  /\ \A d \in Demands : d >= demand => deficit[d] = 0
  /\ \A s \in Sources : residual[s] <= input.supply[s]

IInv == TypeOK /\ Drained /\ StockFirst /\ Untouched /\ EarlierDeadlineFirst

-----------------------------------------------------------------------------
(* The calculation that is read *)

\* What CoverageAssumption says of the calculation being run.
LEMMA InputShape ==
  ASSUME input \in Inputs
  PROVE  /\ input.count \in Nat
         /\ input.need \in [Demands -> Nat]
         /\ input.rank \in [Demands -> Nat]
         /\ input.fits \in [Demands -> SUBSET Sources]
         /\ input.scan \in [Demands -> Seq(Sources)]
         /\ input.supply \in [Sources -> Nat]
         /\ \A d, e \in Demands : input.rank[d] < input.rank[e] => d < e
         /\ \A d \in Demands : \A s \in input.fits[d] :
              \/ input.supply[s] = 0
              \/ \E k \in 1 .. Len(input.scan[d]) : input.scan[d][k] = s
         /\ \A d \in Demands : \A k, l \in 1 .. Len(input.scan[d]) :
              input.scan[d][k] \notin FirstTier /\ input.scan[d][l] \in FirstTier => l < k
         /\ \A d \in Demands : \A k \in 1 .. Len(input.scan[d]) :
              input.scan[d][k] \in input.fits[d]
BY CoverageAssumption DEF InputsAssumption, Demands

\* The source the loop looks at is one of the sources, and fits the demand.
LEMMA SourceShape ==
  ASSUME TypeOK, Scanning
  PROVE  /\ demand \in Demands /\ demand \in Nat /\ left \in Nat /\ left > 0
         /\ at \in 1 .. Len(input.scan[demand])
         /\ Len(input.scan[demand]) \in Nat
         /\ Source \in Sources /\ Source \in input.fits[demand]
         /\ residual[Source] \in Nat
<1>1. /\ demand \in Demands /\ at <= Len(input.scan[demand]) /\ left > 0
      /\ at \in Nat \ {0} /\ left \in Nat /\ input \in Inputs /\ residual \in [Sources -> Nat]
  BY DEF TypeOK, Scanning
<1>2. input.scan[demand] \in Seq(Sources)
  BY <1>1, InputShape
<1>3. Len(input.scan[demand]) \in Nat /\ demand \in Nat
  BY <1>1, <1>2, InputShape DEF Demands
<1>4. at \in 1 .. Len(input.scan[demand])
  BY <1>1, <1>3
<1>5. Source \in Sources
  BY <1>2, <1>4 DEF Source
<1>6. Source \in input.fits[demand]
  BY <1>1, <1>4, InputShape DEF Source
<1>7. QED
  BY <1>1, <1>3, <1>4, <1>5, <1>6

\* The next demand's need is a number.
LEMMA NeededShape ==
  ASSUME input \in Inputs, NEW d \in Nat
  PROVE  Needed(input, d) \in Nat
BY InputShape DEF Needed, Demands

\* What one step of Take writes.
LEMMA TakeWrites ==
  ASSUME TypeOK, Take
  PROVE  /\ TakenHere \in Nat /\ TakenHere > 0
         /\ residual' \in [Sources -> Nat]
         /\ \A s \in Sources : residual'[s] <= residual[s] /\ (s # Source => residual'[s] = residual[s])
         /\ given' \in [Demands -> [Sources -> Nat]]
         /\ \A d \in Demands : \A s \in Sources :
              d # demand \/ s # Source => given'[d][s] = given[d][s]
         /\ residual'[Source] + TakenHere = residual[Source]
         /\ given'[demand][Source] = given[demand][Source] + TakenHere
         /\ left' \in Nat /\ (left' > 0 => residual'[Source] = 0) /\ left' + TakenHere = left
         /\ at' = at + 1
         /\ UNCHANGED <<input, demand, deficit>>
<1>1. Scanning /\ residual[Source] > 0
  BY DEF Take
<1>2. Source \in Sources /\ residual[Source] \in Nat /\ left \in Nat /\ left > 0 /\ demand \in Demands
  BY <1>1, SourceShape
<1>3. /\ TakenHere \in Nat /\ TakenHere > 0 /\ TakenHere <= left /\ TakenHere <= residual[Source]
      /\ TakenHere = left \/ TakenHere = residual[Source]
  BY <1>1, <1>2 DEF TakenHere, Smaller
<1>4. residual' = [residual EXCEPT ![Source] = residual[Source] - TakenHere]
  BY DEF Take
<1>5. residual \in [Sources -> Nat] /\ given \in [Demands -> [Sources -> Nat]]
  BY DEF TypeOK
<1>6. residual[Source] - TakenHere \in Nat
  BY <1>2, <1>3
<1>7. residual'[Source] = residual[Source] - TakenHere
  BY <1>2, <1>4, <1>5
<1>8. /\ residual' \in [Sources -> Nat]
      /\ \A s \in Sources : residual'[s] <= residual[s] /\ (s # Source => residual'[s] = residual[s])
  <2>1. residual' \in [Sources -> Nat]
    BY <1>4, <1>5, <1>6
  <2>2. \A s \in Sources : s # Source => residual'[s] = residual[s]
    BY <1>4, <1>5
  <2>3. residual'[Source] <= residual[Source]
    BY <1>2, <1>3, <1>7
  <2>4. ASSUME NEW s \in Sources PROVE residual'[s] <= residual[s]
    <3>1. CASE s = Source
      BY <2>3, <3>1
    <3>2. CASE s # Source
      BY <1>5, <2>2, <3>2
    <3>3. QED
      BY <3>1, <3>2
  <2>5. QED
    BY <2>1, <2>2, <2>4
<1>9. given' = [given EXCEPT ![demand][Source] = given[demand][Source] + TakenHere]
  BY DEF Take
<1>10. given[demand] \in [Sources -> Nat] /\ given[demand][Source] + TakenHere \in Nat
  BY <1>2, <1>3, <1>5
<1>12. /\ given' \in [Demands -> [Sources -> Nat]]
       /\ \A d \in Demands : \A s \in Sources :
            d # demand \/ s # Source => given'[d][s] = given[d][s]
       /\ given'[demand][Source] = given[demand][Source] + TakenHere
  BY <1>2, <1>5, <1>9, <1>10
<1>13. left' = left - TakenHere /\ at' = at + 1 /\ UNCHANGED <<input, demand, deficit>>
  BY DEF Take
<1>14. /\ left' \in Nat /\ (left' > 0 => residual'[Source] = 0) /\ left' + TakenHere = left
       /\ residual'[Source] + TakenHere = residual[Source]
  BY <1>2, <1>3, <1>7, <1>13
<1>15. QED
  BY <1>3, <1>8, <1>12, <1>13, <1>14

-----------------------------------------------------------------------------
(* The initial state *)

\* The loop starts within the invariant.
LEMMA InitInductive == Init => IInv
<1> SUFFICES ASSUME Init PROVE IInv
  OBVIOUS
<1>1. input \in Inputs /\ demand = 1 /\ at = 1 /\ left = Needed(input, 1) /\ residual = input.supply
  BY DEF Init
<1>2. given = [d \in Demands |-> [s \in Sources |-> 0]] /\ deficit = [d \in Demands |-> 0]
  BY DEF Init
<1>3. input.count \in Nat /\ input.supply \in [Sources -> Nat] /\ input.fits \in [Demands -> SUBSET Sources]
  BY <1>1, InputShape
<1>4. TypeOK
  <2>1. left \in Nat
    BY <1>1, NeededShape
  <2>2. given \in [Demands -> [Sources -> Nat]] /\ deficit \in [Demands -> Nat]
    BY <1>2
  <2>3. QED
    BY <1>1, <1>3, <2>1, <2>2 DEF TypeOK
<1>5. \A d \in Demands : deficit[d] = 0 /\ \A s \in Sources : given[d][s] = 0
  BY <1>2
<1>6. Drained
  BY <1>1, <1>5 DEF Drained
<1>7. StockFirst
  BY <1>5 DEF StockFirst
<1>8. Untouched
  BY <1>1, <1>3, <1>5 DEF Untouched
<1>9. EarlierDeadlineFirst
  <2>1. ASSUME NEW d \in Demands, NEW s \in input.fits[d] PROVE s \in Sources
    BY <1>3
  <2>2. QED
    BY <1>5, <2>1 DEF EarlierDeadlineFirst
<1>10. QED
  BY <1>4, <1>6, <1>7, <1>8, <1>9 DEF IInv

-----------------------------------------------------------------------------
(* The three steps *)

\* What the loop has passed over stays used up when more is taken.
LEMMA TakeInductive ==
  ASSUME IInv, Take
  PROVE  IInv'
<1>1. TypeOK /\ Drained /\ StockFirst /\ Untouched /\ EarlierDeadlineFirst
  BY DEF IInv
<1>2. Scanning /\ residual[Source] > 0
  BY DEF Take
<1>3. /\ residual' \in [Sources -> Nat]
      /\ \A s \in Sources : residual'[s] <= residual[s] /\ (s # Source => residual'[s] = residual[s])
      /\ given' \in [Demands -> [Sources -> Nat]]
      /\ \A d \in Demands : \A s \in Sources :
           d # demand \/ s # Source => given'[d][s] = given[d][s]
      /\ left' \in Nat /\ (left' > 0 => residual'[Source] = 0)
      /\ at' = at + 1
      /\ input' = input /\ demand' = demand /\ deficit' = deficit
  BY <1>1, TakeWrites
<1>4. /\ demand \in Demands /\ demand \in Nat /\ left > 0
      /\ at \in 1 .. Len(input.scan[demand]) /\ Len(input.scan[demand]) \in Nat
      /\ Source \in Sources /\ Source \in input.fits[demand]
  BY <1>1, <1>2, SourceShape
<1>5. Demands' = Demands
  BY <1>3 DEF Demands
<1>6. /\ input \in Inputs /\ at \in Nat \ {0} /\ residual \in [Sources -> Nat]
      /\ given \in [Demands -> [Sources -> Nat]] /\ deficit \in [Demands -> Nat]
      /\ demand \in 1 .. input.count + 1
  BY <1>1 DEF TypeOK
<1>7. /\ input.count \in Nat /\ input.supply \in [Sources -> Nat]
      /\ input.rank \in [Demands -> Nat]
      /\ input.fits \in [Demands -> SUBSET Sources]
      /\ input.scan \in [Demands -> Seq(Sources)]
  BY <1>6, InputShape
<1>8. ASSUME NEW s \in Sources, residual[s] = 0 PROVE residual'[s] = 0
  BY <1>3, <1>6, <1>8
<1>9. TypeOK'
  BY <1>3, <1>5, <1>6 DEF TypeOK
<1>10. Drained'
  <2>1. ASSUME NEW d \in Demands, deficit[d] > 0, NEW s \in input.fits[d]
        PROVE  residual'[s] = 0
    BY <1>1, <1>7, <1>8, <2>1 DEF Drained
  <2>2. ASSUME left' > 0, NEW k \in 1 .. Len(input.scan[demand]), k < at + 1
        PROVE  residual'[input.scan[demand][k]] = 0
    <3>1. CASE k = at
      BY <1>3, <2>2, <3>1 DEF Source
    <3>2. CASE k < at
      <4>1. residual[input.scan[demand][k]] = 0
        BY <1>1, <1>4, <3>2 DEF Drained
      <4>2. input.scan[demand][k] \in Sources
        BY <1>4, <1>7
      <4>3. QED
        BY <1>8, <4>1, <4>2
    <3>3. QED
      BY <1>6, <2>2, <3>1, <3>2
  <2>3. QED
    BY <1>3, <1>5, <2>1, <2>2 DEF Drained
<1>11. StockFirst'
  <2>1. ASSUME NEW d \in Demands, NEW t \in Sources \ FirstTier, given'[d][t] > 0,
               NEW s \in input.fits[d] \cap FirstTier
        PROVE  residual'[s] = 0
    <3>1. s \in Sources
      BY <1>7
    <3>2. CASE d # demand \/ t # Source
      <4>1. given[d][t] > 0
        BY <1>3, <2>1, <3>2
      <4>2. residual[s] = 0
        BY <1>1, <4>1 DEF StockFirst
      <4>3. QED
        BY <1>8, <3>1, <4>2
    <3>3. CASE d = demand /\ t = Source
      <4>1. CASE input.supply[s] = 0
        BY <1>1, <1>6, <1>8, <3>1, <4>1 DEF Untouched
      <4>2. ASSUME NEW k \in 1 .. Len(input.scan[d]), input.scan[d][k] = s
            PROVE  residual'[s] = 0
        <5>1. input.scan[d][at] \notin FirstTier /\ input.scan[d][k] \in FirstTier
          BY <3>3, <4>2 DEF Source
        <5>2. k < at
          BY <1>4, <1>6, <3>3, <5>1, InputShape
        <5>3. residual[s] = 0
          BY <1>1, <1>4, <3>3, <4>2, <5>2 DEF Drained
        <5>4. QED
          BY <1>8, <3>1, <5>3
      <4>3. QED
        BY <1>6, <4>1, <4>2, InputShape
    <3>4. QED
      BY <3>2, <3>3
  <2>2. QED
    BY <1>3, <1>5, <2>1 DEF StockFirst
<1>12. Untouched'
  <2>1. ASSUME NEW d \in Demands, d > demand, NEW s \in Sources PROVE given'[d][s] = 0
    <3>1. d # demand
      BY <1>1, <2>1 DEF Demands
    <3>2. given[d][s] = 0
      BY <1>1, <2>1 DEF Untouched
    <3> QED
      BY <1>3, <1>7, <3>1, <3>2
  <2>2. \A s \in Sources : residual'[s] <= input.supply[s]
    BY <1>1, <1>3, <1>6, <1>7 DEF Untouched
  <2>3. \A d \in Demands : d >= demand => deficit[d] = 0
    BY <1>1 DEF Untouched
  <2>4. QED
    BY <1>3, <1>5, <2>1, <2>2, <2>3 DEF Untouched
<1>13. EarlierDeadlineFirst'
  <2>1. ASSUME NEW d \in Demands, NEW e \in Demands, NEW s \in input.fits[d],
               input.rank[d] < input.rank[e], given'[e][s] > 0
        PROVE  /\ deficit[d] = 0
               /\ s \in FirstTier => \A t \in Sources \ FirstTier : given'[d][t] = 0
    <3>1. s \in Sources /\ d \in Nat /\ e \in Nat
      BY <1>7 DEF Demands
    <3>2. d < e
      BY <1>6, <2>1, InputShape
    <3>3. e <= demand
      <4>1. SUFFICES ASSUME e > demand PROVE FALSE
        BY <1>4, <3>1
      <4>2. given'[e][s] = given[e][s] /\ given[e][s] = 0
        BY <1>1, <1>3, <1>4, <3>1, <4>1 DEF Untouched
      <4>3. QED
        BY <2>1, <4>2
    <3>4. \A t \in Sources : given'[d][t] = given[d][t]
      BY <1>3, <1>4, <3>1, <3>2, <3>3
    <3>5. CASE given[e][s] > 0
      BY <1>1, <2>1, <3>4, <3>5 DEF EarlierDeadlineFirst
    <3>6. CASE ~(given[e][s] > 0)
      <4>1. e = demand /\ s = Source
        BY <1>3, <2>1, <3>1, <3>6
      <4>2. residual[s] # 0
        BY <1>2, <4>1
      <4>3. deficit[d] = 0
        <5>1. ~(deficit[d] > 0)
          BY <1>1, <4>2 DEF Drained
        <5>2. QED
          BY <1>6, <5>1
      <4>4. ASSUME s \in FirstTier, NEW t \in Sources \ FirstTier PROVE given'[d][t] = 0
        BY <1>1, <1>6, <2>1, <3>4, <4>2, <4>4 DEF StockFirst
      <4>5. QED
        BY <4>3, <4>4
    <3>7. QED
      BY <3>5, <3>6
  <2>2. QED
    BY <1>3, <1>5, <2>1 DEF EarlierDeadlineFirst
<1>14. QED
  BY <1>9, <1>10, <1>11, <1>12, <1>13 DEF IInv

\* A source that is skipped has nothing left.
LEMMA SkipInductive ==
  ASSUME IInv, Skip
  PROVE  IInv'
<1>1. TypeOK /\ Drained /\ StockFirst /\ Untouched /\ EarlierDeadlineFirst
  BY DEF IInv
<1>2. /\ Scanning /\ residual[Source] = 0 /\ at' = at + 1
      /\ input' = input /\ demand' = demand /\ left' = left
      /\ residual' = residual /\ given' = given /\ deficit' = deficit
  BY DEF Skip
<1>3. demand \in Demands /\ left > 0 /\ at \in Nat \ {0}
  BY <1>1, <1>2 DEF Scanning, TypeOK
<1>4. Demands' = Demands
  BY <1>2 DEF Demands
<1>5. TypeOK'
  BY <1>1, <1>2, <1>4 DEF TypeOK
<1>6. Drained'
  <2>1. ASSUME NEW k \in 1 .. Len(input.scan[demand]), k < at + 1
        PROVE  residual[input.scan[demand][k]] = 0
    <3>1. CASE k = at
      BY <1>2, <3>1 DEF Source
    <3>2. CASE k < at
      BY <1>1, <1>3, <3>2 DEF Drained
    <3>3. QED
      BY <1>3, <2>1, <3>1, <3>2
  <2>2. \A d \in Demands : deficit[d] > 0 => \A s \in input.fits[d] : residual[s] = 0
    BY <1>1 DEF Drained
  <2>3. QED
    BY <1>2, <1>4, <2>1, <2>2 DEF Drained
<1>7. StockFirst'
  BY <1>1, <1>2, <1>4 DEF StockFirst
<1>8. Untouched'
  BY <1>1, <1>2, <1>4 DEF Untouched
<1>9. EarlierDeadlineFirst'
  BY <1>1, <1>2, <1>4 DEF EarlierDeadlineFirst
<1>10. QED
  BY <1>5, <1>6, <1>7, <1>8, <1>9 DEF IInv

\* A demand closed short has seen everything that fits it used up, and no
\* later one has anything yet.
LEMMA CloseInductive ==
  ASSUME IInv, Close
  PROVE  IInv'
<1>1. TypeOK /\ Drained /\ StockFirst /\ Untouched /\ EarlierDeadlineFirst
  BY DEF IInv
<1>2. /\ demand \in Demands /\ (left = 0 \/ at > Len(input.scan[demand]))
      /\ deficit' = [deficit EXCEPT ![demand] = left]
      /\ demand' = demand + 1 /\ at' = 1 /\ left' = Needed(input, demand + 1)
      /\ input' = input /\ residual' = residual /\ given' = given
  BY DEF Close
<1>3. Demands' = Demands
  BY <1>2 DEF Demands
<1>4. /\ input \in Inputs /\ at \in Nat \ {0} /\ left \in Nat /\ residual \in [Sources -> Nat]
      /\ given \in [Demands -> [Sources -> Nat]] /\ deficit \in [Demands -> Nat]
  BY <1>1 DEF TypeOK
<1>5. /\ input.count \in Nat /\ demand \in Nat /\ demand + 1 \in 1 .. input.count + 1
      /\ input.supply \in [Sources -> Nat]
      /\ input.fits \in [Demands -> SUBSET Sources]
      /\ input.scan \in [Demands -> Seq(Sources)]
  BY <1>2, <1>4, InputShape DEF Demands
<1>6. /\ deficit' \in [Demands -> Nat] /\ deficit'[demand] = left
      /\ \A d \in Demands : d # demand => deficit'[d] = deficit[d]
  BY <1>2, <1>4
<1>7. TypeOK'
  <2>1. left' \in Nat
    BY <1>2, <1>4, <1>5, NeededShape
  <2>2. QED
    BY <1>2, <1>3, <1>4, <1>5, <1>6, <2>1 DEF TypeOK
<1>8. Drained'
  <2>1. ASSUME NEW d \in Demands, deficit'[d] > 0, NEW s \in input.fits[d]
        PROVE  residual[s] = 0
    <3>1. CASE d # demand
      BY <1>1, <1>6, <2>1, <3>1 DEF Drained
    <3>2. CASE d = demand
      <4>1. left > 0 /\ s \in Sources
        BY <1>5, <1>6, <2>1, <3>2
      <4>2. at > Len(input.scan[demand])
        BY <1>2, <4>1
      <4>3. CASE input.supply[s] = 0
        BY <1>1, <1>4, <4>1, <4>3 DEF Untouched
      <4>4. ASSUME NEW k \in 1 .. Len(input.scan[d]), input.scan[d][k] = s
            PROVE  residual[s] = 0
        <5>1. Len(input.scan[demand]) \in Nat
          BY <1>2, <1>5
        <5>2. k < at
          BY <1>4, <3>2, <4>2, <5>1
        <5>3. QED
          BY <1>1, <1>2, <3>2, <4>1, <4>4, <5>2 DEF Drained
      <4>5. QED
        BY <1>4, <4>3, <4>4, InputShape
    <3>3. QED
      BY <3>1, <3>2
  <2>2. ASSUME NEW k \in 1 .. Len(input.scan[demand + 1]) PROVE ~(k < 1)
    OBVIOUS
  <2>3. QED
    BY <1>2, <1>3, <2>1, <2>2 DEF Drained
<1>9. StockFirst'
  BY <1>1, <1>2, <1>3 DEF StockFirst
<1>10. Untouched'
  <2>1. \A d \in Demands : d > demand + 1 => \A s \in Sources : given[d][s] = 0
    BY <1>1, <1>5 DEF Untouched, Demands
  <2>2. \A d \in Demands : d >= demand + 1 => deficit'[d] = 0
    BY <1>1, <1>5, <1>6 DEF Untouched, Demands
  <2>3. \A s \in Sources : residual[s] <= input.supply[s]
    BY <1>1 DEF Untouched
  <2>4. QED
    BY <1>2, <1>3, <2>1, <2>2, <2>3 DEF Untouched
<1>11. EarlierDeadlineFirst'
  <2>1. ASSUME NEW d \in Demands, NEW e \in Demands, NEW s \in input.fits[d],
               input.rank[d] < input.rank[e], given[e][s] > 0
        PROVE  /\ deficit'[d] = 0
               /\ s \in FirstTier => \A t \in Sources \ FirstTier : given[d][t] = 0
    <3>1. CASE d # demand
      BY <1>1, <1>6, <2>1, <3>1 DEF EarlierDeadlineFirst
    <3>2. CASE d = demand
      <4>1. demand < e
        BY <1>4, <2>1, <3>2, InputShape
      <4>2. s \in Sources
        BY <1>5
      <4>3. e \in Nat /\ e > demand
        BY <1>5, <4>1 DEF Demands
      <4>4. given[e][s] = 0
        BY <1>1, <4>2, <4>3 DEF Untouched
      <4>5. QED
        BY <2>1, <4>4
    <3>3. QED
      BY <3>1, <3>2
  <2>2. QED
    BY <1>2, <1>3, <2>1 DEF EarlierDeadlineFirst
<1>12. QED
  BY <1>7, <1>8, <1>9, <1>10, <1>11 DEF IInv

-----------------------------------------------------------------------------
(* Sums.  The library's induction theorems take a predicate; these two take *)
(* the set of what satisfies it, and rest on the order of finite subsets.   *)

\* A set with 0 and the successor of each of its numbers has all numbers.
LEMMA NumberInduction ==
  ASSUME NEW G, 0 \in G, \A n \in Nat : n \in G => n + 1 \in G
  PROVE  Nat \subseteq G
<1> SUFFICES ASSUME NEW n \in Nat \ G PROVE FALSE
  OBVIOUS
<1> DEFINE S == 0 .. n
           T == {0 .. m : m \in S \ G}
<1>1. T \subseteq FiniteSubsetsOf(S)
  <2>1. \A m \in S : IsFiniteSet(0 .. m) /\ 0 .. m \subseteq S
    BY FS_Interval
  <2> QED
    BY <2>1 DEF FiniteSubsetsOf
<1>2. T # {}
  OBVIOUS
<1>3. PICK X \in T : \A Y \in T : <<Y, X>> \notin StrictSubsetOrdering(S)
  BY <1>1, <1>2, FS_StrictSubsetOrderingWellFounded, WFMin
<1>4. PICK m \in S \ G : X = 0 .. m
  BY <1>3
<1>5. m - 1 \in S \ G
  BY <1>4
<1>6. /\ 0 .. m - 1 \in T /\ 0 .. m - 1 \subseteq S /\ X \subseteq S
      /\ 0 .. m - 1 \subseteq X /\ m \in X /\ m \notin 0 .. m - 1
  BY <1>4, <1>5
<1> QED
  BY <1>3, <1>6 DEF StrictSubsetOrdering

\* The element a sum takes next.
Chosen(s) == CHOOSE x \in s : TRUE

\* A set with {} and each subset that is there without its Chosen has all subsets.
LEMMA SubsetInduction ==
  ASSUME NEW S, IsFiniteSet(S), NEW G, {} \in G,
         \A s \in SUBSET S : s # {} /\ s \ {Chosen(s)} \in G => s \in G
  PROVE  SUBSET S \subseteq G
<1> SUFFICES ASSUME NEW r \in (SUBSET S) \ G PROVE FALSE
  OBVIOUS
<1> DEFINE T == (SUBSET S) \ G
<1>1. T \subseteq FiniteSubsetsOf(S)
  BY FS_FiniteSubsetsOfFinite
<1>2. T # {}
  OBVIOUS
<1> HIDE DEF T
<1>3. PICK X \in T : \A Y \in T : <<Y, X>> \notin StrictSubsetOrdering(S)
  BY <1>1, <1>2, FS_StrictSubsetOrderingWellFounded, WFMin
<1>4. X # {} /\ X \in SUBSET S /\ X \notin G
  BY DEF T
<1>5. Chosen(X) \in X
  BY <1>4 DEF Chosen
<1> DEFINE Y == X \ {Chosen(X)}
<1>6. Y \in T /\ Y \in SUBSET S
  BY <1>4 DEF T
<1>7. Y \subseteq X /\ Y # X
  BY <1>5
<1> HIDE DEF Y
<1>8. <<Y, X>> \in StrictSubsetOrdering(S)
  BY <1>4, <1>6, <1>7 DEF StrictSubsetOrdering
<1> QED
  BY <1>3, <1>6, <1>8

\* The recursion of the library's sum: g[s] is the sum of f over s.
Sums(f, S, g) ==
  g = [s \in SUBSET S |-> IF s = {} THEN 0 ELSE f[Chosen(s)] + g[s \ {Chosen(s)}]]

\* f assigns a number to every element of S.
Numbers(f, S) == \A x \in S : f[x] \in Nat

\* There is a function that adds up as the library does.
LEMMA SumsExist ==
  ASSUME NEW S, IsFiniteSet(S), NEW f, Numbers(f, S)
  PROVE  \E g \in [SUBSET S -> Nat] : Sums(f, S, g)
<1> DEFINE NextSums(g) == [s \in SUBSET S |-> IF s = {} THEN 0 ELSE f[Chosen(s)] + g[s \ {Chosen(s)}]]
           G == {n \in Nat : \E g \in [SUBSET S -> Nat] : \A s \in SUBSET S :
                               Cardinality(s) <= n => g[s] = NextSums(g)[s]}
<1>0. \A s \in SUBSET S : s # {} => Chosen(s) \in s /\ s \ {Chosen(s)} \in SUBSET S
  BY DEF Chosen
<1>1. \A g \in [SUBSET S -> Nat] : NextSums(g) \in [SUBSET S -> Nat]
  BY <1>0 DEF Numbers
<1>2. ASSUME NEW s \in SUBSET S
      PROVE  /\ Cardinality(s) \in Nat
             /\ s # {} => Cardinality(s \ {Chosen(s)}) = Cardinality(s) - 1
             /\ Cardinality(s) = 0 => s = {}
  <2>1. IsFiniteSet(s)
    BY FS_Subset
  <2>2. Cardinality(s) \in Nat
    BY <2>1, FS_CardinalityType
  <2>3. s # {} => Cardinality(s \ {Chosen(s)}) = Cardinality(s) - 1
    BY <1>0, <2>1, FS_RemoveElement
  <2>4. Cardinality(s) = 0 => s = {}
    BY <2>1, FS_EmptySet
  <2> QED
    BY <2>2, <2>3, <2>4
<1>3. 0 \in G
  <2> DEFINE g == [s \in SUBSET S |-> 0]
  <2>1. g \in [SUBSET S -> Nat]
    OBVIOUS
  <2>2. ASSUME NEW s \in SUBSET S, Cardinality(s) <= 0 PROVE g[s] = NextSums(g)[s]
    <3>1. Cardinality(s) \in Nat /\ (Cardinality(s) = 0 => s = {})
      BY <1>2
    <3>2. s = {}
      BY <2>2, <3>1
    <3> QED
      BY <3>2
  <2> QED
    BY <2>1, <2>2
<1>4. ASSUME NEW n \in Nat, n \in G PROVE n + 1 \in G
  <2>1. PICK g \in [SUBSET S -> Nat] : \A s \in SUBSET S : Cardinality(s) <= n => g[s] = NextSums(g)[s]
    BY <1>4
  <2> DEFINE h == NextSums(g)
  <2>2. h \in [SUBSET S -> Nat]
    BY <1>1
  <2>3. ASSUME NEW s \in SUBSET S, Cardinality(s) <= n + 1 PROVE h[s] = NextSums(h)[s]
    <3>1. CASE s = {}
      BY <3>1
    <3>2. CASE s # {}
      <4>1. s \ {Chosen(s)} \in SUBSET S /\ Cardinality(s \ {Chosen(s)}) <= n
        BY <1>0, <1>2, <2>3, <3>2
      <4>2. g[s \ {Chosen(s)}] = h[s \ {Chosen(s)}]
        BY <2>1, <4>1
      <4>3. h[s] = f[Chosen(s)] + g[s \ {Chosen(s)}]
        BY <3>2
      <4>4. NextSums(h)[s] = f[Chosen(s)] + h[s \ {Chosen(s)}]
        BY <3>2
      <4> QED
        BY <4>2, <4>3, <4>4
    <3> QED
      BY <3>1, <3>2
  <2>4. \A s \in SUBSET S : Cardinality(s) <= n + 1 => h[s] = NextSums(h)[s]
    BY <2>3
  <2> HIDE DEF h, NextSums
  <2> QED
    BY <2>2, <2>4
<1> HIDE DEF G
<1>5. Nat \subseteq G
  BY <1>3, <1>4, NumberInduction
<1> USE DEF G
<1>6. Cardinality(S) \in G /\ Cardinality(S) \in Nat
  BY <1>2, <1>5
<1>7. PICK g \in [SUBSET S -> Nat] : \A s \in SUBSET S : Cardinality(s) <= Cardinality(S) => g[s] = NextSums(g)[s]
  BY <1>6
<1>8. \A s \in SUBSET S : g[s] = NextSums(g)[s]
  BY <1>7, FS_Subset
<1>9. g = NextSums(g)
  BY <1>1, <1>8
<1> QED
  BY <1>9 DEF Sums

\* g holds the sums that Total goes through.
Adds(f, S, g) ==
  /\ g \in [SUBSET S -> Nat]
  /\ Total(f, S) = g[S]
  /\ \A s \in SUBSET S : g[s] = IF s = {} THEN 0 ELSE f[Chosen(s)] + g[s \ {Chosen(s)}]
  /\ \A s \in SUBSET S : s # {} => Chosen(s) \in s

\* Total is the value of such a function.
LEMMA TotalSums ==
  ASSUME NEW S, IsFiniteSet(S), NEW f, Numbers(f, S)
  PROVE  \E g : Adds(f, S, g)
<1> DEFINE g == CHOOSE h : Sums(f, S, h)
<1>1. Total(f, S) = g[S]
  BY DEF Total, MapThenSumSet, MapThenFoldSet, Sums, Chosen
<1>2. Sums(f, S, g)
  BY SumsExist
<1> HIDE DEF g
<1>3. \A s \in SUBSET S : g[s] = IF s = {} THEN 0 ELSE f[Chosen(s)] + g[s \ {Chosen(s)}]
  BY <1>2 DEF Sums
<1>4. \A s \in SUBSET S : s # {} => Chosen(s) \in s
  BY DEF Chosen
<1>5. g \in [SUBSET S -> Nat]
  <2> DEFINE G == {s \in SUBSET S : g[s] \in Nat}
  <2>1. {} \in G
    <3>1. {} \in SUBSET S
      OBVIOUS
    <3>2. g[{}] = 0
      BY <1>3, <3>1
    <3> QED
      BY <3>1, <3>2
  <2>2. \A s \in SUBSET S : s # {} /\ s \ {Chosen(s)} \in G => s \in G
    BY <1>3, <1>4 DEF Numbers
  <2> HIDE DEF G
  <2>3. SUBSET S \subseteq G
    BY <2>1, <2>2, SubsetInduction
  <2> QED
    BY <1>2, <2>3 DEF G, Sums
<1> QED
  BY <1>1, <1>3, <1>4, <1>5 DEF Adds

\* Every place of h is the sum of that place of f and of g.
Adding(h, f, g, S) == \A x \in S : h[x] = f[x] + g[x]

\* The sum is a number, and adding up in parts gives the same.
LEMMA TotalPlus ==
  ASSUME NEW S, IsFiniteSet(S), NEW f, NEW g, NEW h, Numbers(f, S), Numbers(g, S),
         Adding(h, f, g, S)
  PROVE  /\ Total(f, S) \in Nat /\ Total(g, S) \in Nat /\ Total(h, S) \in Nat
         /\ Total(h, S) = Total(f, S) + Total(g, S)
<1>1. Numbers(h, S)
  BY DEF Numbers, Adding
<1>2. PICK sf : Adds(f, S, sf)
  BY TotalSums
<1>3. PICK sg : Adds(g, S, sg)
  BY TotalSums
<1>4. PICK sh : Adds(h, S, sh)
  BY <1>1, TotalSums
<1> DEFINE G == {s \in SUBSET S : sh[s] = sf[s] + sg[s]}
<1>5. {} \in G
  <2>1. {} \in SUBSET S
    OBVIOUS
  <2>2. sf[{}] = 0 /\ sg[{}] = 0 /\ sh[{}] = 0
    BY <1>2, <1>3, <1>4, <2>1 DEF Adds
  <2> QED
    BY <2>1, <2>2
<1>6. ASSUME NEW s \in SUBSET S, s # {}, s \ {Chosen(s)} \in G
      PROVE  s \in G
  <2> DEFINE x == Chosen(s)
             r == s \ {x}
  <2>1. x \in S /\ r \in SUBSET S
    BY <1>2, <1>6 DEF Adds
  <2>2. sf[s] = f[x] + sf[r] /\ sg[s] = g[x] + sg[r] /\ sh[s] = h[x] + sh[r]
    BY <1>2, <1>3, <1>4, <1>6 DEF Adds
  <2>3. sh[r] = sf[r] + sg[r] /\ h[x] = f[x] + g[x] /\ f[x] \in Nat /\ g[x] \in Nat
    BY <1>6, <2>1 DEF Numbers, Adding
  <2>4. sf[r] \in Nat /\ sg[r] \in Nat
    BY <1>2, <1>3, <2>1 DEF Adds
  <2> HIDE DEF x, r
  <2>5. sh[s] = sf[s] + sg[s]
    BY <2>2, <2>3, <2>4
  <2> QED
    BY <2>5
<1> HIDE DEF G
<1>7. SUBSET S \subseteq G
  BY <1>5, <1>6, SubsetInduction
<1>8. sh[S] = sf[S] + sg[S]
  BY <1>7 DEF G
<1> QED
  BY <1>2, <1>3, <1>4, <1>8 DEF Adds

\* One place alone makes the sum.
LEMMA TotalPoint ==
  ASSUME NEW S, IsFiniteSet(S), NEW f, NEW x, NEW k \in Nat,
         \A y \in S : f[y] = IF y = x THEN k ELSE 0
  PROVE  Total(f, S) = IF x \in S THEN k ELSE 0
<1>1. Numbers(f, S)
  BY DEF Numbers
<1>2. PICK sf : Adds(f, S, sf)
  BY <1>1, TotalSums
<1> DEFINE G == {s \in SUBSET S : sf[s] = IF x \in s THEN k ELSE 0}
<1>5. {} \in G
  <2>1. {} \in SUBSET S
    OBVIOUS
  <2>2. sf[{}] = 0
    BY <1>2, <2>1 DEF Adds
  <2> QED
    BY <2>1, <2>2
<1>6. ASSUME NEW s \in SUBSET S, s # {}, s \ {Chosen(s)} \in G
      PROVE  s \in G
  <2> DEFINE z == Chosen(s)
             r == s \ {z}
  <2>1. z \in s /\ z \in S /\ r \in SUBSET S
    BY <1>2, <1>6 DEF Adds
  <2>2. sf[s] = f[z] + sf[r] /\ f[z] = (IF z = x THEN k ELSE 0)
    BY <1>2, <1>6, <2>1 DEF Adds
  <2>3. sf[r] = (IF x \in r THEN k ELSE 0) /\ (x \in r <=> x \in s /\ z # x)
    BY <1>6
  <2> HIDE DEF z, r
  <2>4. sf[s] = IF x \in s THEN k ELSE 0
    BY <2>1, <2>2, <2>3
  <2> QED
    BY <2>4
<1> HIDE DEF G
<1>7. SUBSET S \subseteq G
  BY <1>5, <1>6, SubsetInduction
<1> QED
  BY <1>2, <1>7 DEF G, Adds

\* A place that grows by k makes the sum grow by k.
LEMMA TotalGrows ==
  ASSUME NEW S, IsFiniteSet(S), NEW f, NEW g, Numbers(f, S), NEW x \in S, NEW k \in Nat,
         \A y \in S : g[y] = IF y = x THEN f[y] + k ELSE f[y]
  PROVE  /\ Total(f, S) \in Nat /\ Total(g, S) = Total(f, S) + k
<1> DEFINE p == [y \in S |-> IF y = x THEN k ELSE 0]
<1>1. Numbers(p, S) /\ \A y \in S : p[y] = IF y = x THEN k ELSE 0
  BY DEF Numbers
<1>2. Adding(g, f, p, S)
  BY <1>1 DEF Numbers, Adding
<1> HIDE DEF p
<1>3. Total(p, S) = k
  BY <1>1, TotalPoint
<1> QED
  BY <1>1, <1>2, <1>3, TotalPlus

\* Nothing anywhere adds up to nothing.
LEMMA TotalZero ==
  ASSUME NEW S, IsFiniteSet(S), NEW f, \A y \in S : f[y] = 0
  PROVE  Total(f, S) = 0
<1>1. \A y \in S : f[y] = IF y = S THEN 0 ELSE 0
  OBVIOUS
<1> QED
  BY <1>1, TotalPoint

\* The sum depends on the values only.
LEMMA TotalSame ==
  ASSUME NEW S, IsFiniteSet(S), NEW f, NEW g, Numbers(f, S), \A y \in S : g[y] = f[y]
  PROVE  Total(g, S) = Total(f, S)
<1> DEFINE z == [y \in S |-> 0]
<1>1. Numbers(z, S) /\ Adding(g, f, z, S)
  BY DEF Numbers, Adding
<1>2. \A y \in S : z[y] = 0
  OBVIOUS
<1> HIDE DEF z
<1>3. Total(z, S) = 0
  BY <1>2, TotalZero
<1>4. Total(f, S) \in Nat /\ Total(g, S) = Total(f, S) + Total(z, S)
  BY <1>1, TotalPlus
<1> QED
  BY <1>3, <1>4

\* No part is more than the sum.
LEMMA TotalBounds ==
  ASSUME NEW S, IsFiniteSet(S), NEW f, Numbers(f, S), NEW x \in S
  PROVE  f[x] <= Total(f, S)
<1> DEFINE p == [y \in S |-> IF y = x THEN f[x] ELSE 0]
           r == [y \in S |-> IF y = x THEN 0 ELSE f[y]]
<1>1. /\ f[x] \in Nat /\ Numbers(p, S) /\ Numbers(r, S)
      /\ \A y \in S : p[y] = IF y = x THEN f[x] ELSE 0
      /\ Adding(f, p, r, S)
  BY DEF Numbers, Adding
<1> HIDE DEF p, r
<1>2. Total(p, S) = f[x]
  BY <1>1, TotalPoint
<1>3. Total(r, S) \in Nat /\ Total(f, S) = Total(p, S) + Total(r, S)
  BY <1>1, TotalPlus
<1> QED
  BY <1>1, <1>2, <1>3

-----------------------------------------------------------------------------
(* What is given adds up *)

\* What each demand got of source s.
Got(s) == [d \in Demands |-> given[d][s]]

\* NothingTwice, and the same of the demand being served.
Balance ==
  /\ NothingTwice
  /\ demand \in Demands => left + Total(given[demand], Sources) = input.need[demand]

\* A demand gets nothing that does not fit it.
Fitting == \A d \in Demands : \A s \in Sources : given[d][s] > 0 => s \in input.fits[d]

\* What can be added up.
LEMMA SumsShape ==
  ASSUME TypeOK
  PROVE  /\ IsFiniteSet(Sources) /\ IsFiniteSet(Demands)
         /\ \A s \in Sources : Numbers(Got(s), Demands)
         /\ \A d \in Demands : Numbers(given[d], Sources)
<1>1. input.count \in Nat
  BY InputShape DEF TypeOK
<1>2. IsFiniteSet(Demands)
  BY <1>1, FS_Interval DEF Demands
<1>3. IsFiniteSet(Sources)
  BY CoverageAssumption
<1>4. given \in [Demands -> [Sources -> Nat]]
  BY DEF TypeOK
<1> QED
  BY <1>2, <1>3, <1>4 DEF Numbers, Got

\* At the start nothing is given and every source is full.
LEMMA InitBalance == Init => Balance /\ Fitting
<1> SUFFICES ASSUME Init PROVE Balance /\ Fitting
  OBVIOUS
<1>1. /\ input \in Inputs /\ demand = 1 /\ left = Needed(input, 1) /\ residual = input.supply
      /\ given = [d \in Demands |-> [s \in Sources |-> 0]]
      /\ TypeOK
  BY InitInductive DEF Init, IInv
<1>2. /\ input.supply \in [Sources -> Nat] /\ input.need \in [Demands -> Nat]
      /\ input.count \in Nat
  BY <1>1, InputShape
<1>3. ASSUME NEW s \in Sources PROVE residual[s] + Total(Got(s), Demands) = input.supply[s]
  <2>1. \A d \in Demands : Got(s)[d] = 0
    BY <1>1 DEF Got
  <2>2. Total(Got(s), Demands) = 0
    BY <1>1, <2>1, SumsShape, TotalZero
  <2> QED
    BY <1>1, <1>2, <2>2
<1>4. ASSUME NEW d \in Demands PROVE ~(d < demand)
  BY <1>1, <1>2 DEF Demands
<1>5. ASSUME demand \in Demands PROVE left + Total(given[demand], Sources) = input.need[demand]
  <2>1. \A s \in Sources : given[demand][s] = 0
    BY <1>1, <1>5
  <2>2. Total(given[demand], Sources) = 0
    BY <1>1, <2>1, SumsShape, TotalZero
  <2>3. left = input.need[demand] /\ input.need[demand] \in Nat
    BY <1>1, <1>2, <1>5 DEF Needed, Demands
  <2> QED
    BY <2>2, <2>3
<1>6. Fitting
  BY <1>1 DEF Fitting
<1> QED
  BY <1>3, <1>4, <1>5, <1>6 DEF Balance, NothingTwice, Got

\* What a step takes of its source and of the need, it gives to the demand.
LEMMA TakeBalance ==
  ASSUME IInv, Balance, Fitting, Take
  PROVE  Balance' /\ Fitting'
<1>1. TypeOK /\ TypeOK' /\ Scanning
  BY TakeInductive DEF IInv, Take
<1>2. /\ TakenHere \in Nat
      /\ residual' \in [Sources -> Nat]
      /\ \A s \in Sources : s # Source => residual'[s] = residual[s]
      /\ given' \in [Demands -> [Sources -> Nat]]
      /\ \A d \in Demands : \A s \in Sources :
           d # demand \/ s # Source => given'[d][s] = given[d][s]
      /\ residual'[Source] + TakenHere = residual[Source]
      /\ given'[demand][Source] = given[demand][Source] + TakenHere
      /\ left' \in Nat /\ left' + TakenHere = left
      /\ input' = input /\ demand' = demand /\ deficit' = deficit
  BY <1>1, TakeWrites
<1>3. /\ demand \in Demands /\ demand \in Nat
      /\ Source \in Sources /\ Source \in input.fits[demand]
  BY <1>1, SourceShape
<1>4. Demands' = Demands
  BY <1>2 DEF Demands
<1>5. given \in [Demands -> [Sources -> Nat]] /\ residual \in [Sources -> Nat]
  BY <1>1 DEF TypeOK
<1>6. ASSUME NEW s \in Sources
      PROVE  residual'[s] + Total(Got(s)', Demands) = input.supply[s]
  <2>1. residual[s] + Total(Got(s), Demands) = input.supply[s]
    BY DEF Balance, NothingTwice, Got
  <2>2. CASE s = Source
    <3>1. \A d \in Demands : Got(s)'[d] = IF d = demand THEN Got(s)[d] + TakenHere ELSE Got(s)[d]
      BY <1>2, <1>3, <1>4, <1>5, <2>2 DEF Got
    <3>2. Numbers(Got(s), Demands) /\ IsFiniteSet(Demands)
      BY <1>1, SumsShape
    <3> DEFINE f == Got(s)
               g == Got(s)'
    <3>3. \A d \in Demands : g[d] = IF d = demand THEN f[d] + TakenHere ELSE f[d]
      BY <3>1
    <3>4. Numbers(f, Demands)
      BY <3>2
    <3> HIDE DEF f, g
    <3>a. IsFiniteSet(Demands) /\ TakenHere \in Nat /\ demand \in Demands
      BY <1>2, <1>3, <3>2
    <3>5. Total(f, Demands) \in Nat /\ Total(g, Demands) = Total(f, Demands) + TakenHere
      BY <3>a, <3>3, <3>4, TotalGrows
    <3>6. residual[s] = residual'[s] + TakenHere /\ residual'[s] \in Nat
      BY <1>2, <2>2
    <3>7. residual[s] + Total(f, Demands) = input.supply[s]
      BY <2>1 DEF f
    <3>8. residual'[s] + Total(g, Demands) = input.supply[s]
      BY <1>2, <3>5, <3>6, <3>7
    <3> QED
      BY <3>8 DEF g
  <2>3. CASE s # Source
    <3>1. Got(s)' = Got(s) /\ residual'[s] = residual[s]
      BY <1>2, <1>4, <1>5, <2>3 DEF Got
    <3> QED
      BY <2>1, <3>1
  <2> QED
    BY <2>2, <2>3
<1>7. left' + Total(given'[demand], Sources) = input.need[demand]
  <2> DEFINE f == given[demand]
             g == given'[demand]
  <2>1. \A s \in Sources : g[s] = IF s = Source THEN f[s] + TakenHere ELSE f[s]
    BY <1>2, <1>3
  <2>2. Numbers(f, Sources) /\ IsFiniteSet(Sources)
    BY <1>1, <1>3, SumsShape
  <2>3. left + Total(f, Sources) = input.need[demand]
    BY <1>3 DEF Balance
  <2> HIDE DEF f, g
  <2>4. Total(f, Sources) \in Nat /\ Total(g, Sources) = Total(f, Sources) + TakenHere
    BY <1>2, <1>3, <2>1, <2>2, TotalGrows
  <2>5. left' + Total(g, Sources) = input.need[demand]
    BY <1>2, <2>3, <2>4
  <2> QED
    BY <2>5 DEF g
<1>8. ASSUME NEW d \in Demands, d < demand
      PROVE  deficit[d] + Total(given'[d], Sources) = input.need[d]
  <2>1. d # demand
    BY <1>3, <1>8
  <2>2. given'[d] = given[d]
    BY <1>2, <1>5, <2>1
  <2> QED
    BY <1>8, <2>2 DEF Balance, NothingTwice
<1>9. Fitting'
  <2>1. ASSUME NEW d \in Demands, NEW s \in Sources, given'[d][s] > 0
        PROVE  s \in input.fits[d]
    <3>1. CASE d = demand /\ s = Source
      BY <1>3, <3>1
    <3>2. CASE d # demand \/ s # Source
      BY <1>2, <2>1, <3>2 DEF Fitting
    <3> QED
      BY <3>1, <3>2
  <2> QED
    BY <1>2, <1>4, <2>1 DEF Fitting
<1> QED
  BY <1>2, <1>4, <1>6, <1>7, <1>8, <1>9 DEF Balance, NothingTwice, Got

\* A demand is closed with what it still lacks; the next has nothing yet.
LEMMA CloseBalance ==
  ASSUME IInv, Balance, Fitting, Close
  PROVE  Balance' /\ Fitting'
<1>1. TypeOK /\ Untouched
  BY DEF IInv
<1>2. /\ demand \in Demands
      /\ deficit' = [deficit EXCEPT ![demand] = left]
      /\ demand' = demand + 1 /\ left' = Needed(input, demand + 1)
      /\ input' = input /\ residual' = residual /\ given' = given
  BY DEF Close
<1>3. Demands' = Demands
  BY <1>2 DEF Demands
<1>4. /\ input.need \in [Demands -> Nat] /\ deficit \in [Demands -> Nat]
      /\ \A d \in Demands : d \in Nat
  BY <1>1, InputShape DEF TypeOK, Demands
<1>5. ASSUME NEW d \in Demands, d < demand + 1
      PROVE  deficit'[d] + Total(given[d], Sources) = input.need[d]
  <2>1. CASE d = demand
    BY <1>2, <1>4, <2>1 DEF Balance
  <2>2. CASE d # demand
    <3>1. d < demand /\ deficit'[d] = deficit[d]
      BY <1>2, <1>4, <1>5, <2>2
    <3> QED
      BY <3>1 DEF Balance, NothingTwice
  <2> QED
    BY <2>1, <2>2
<1>6. ASSUME demand + 1 \in Demands
      PROVE  left' + Total(given[demand + 1], Sources) = input.need[demand + 1]
  <2>1. \A s \in Sources : given[demand + 1][s] = 0
    BY <1>1, <1>2, <1>4, <1>6 DEF Untouched
  <2>2. Total(given[demand + 1], Sources) = 0
    BY <1>1, <2>1, SumsShape, TotalZero
  <2>3. left' = input.need[demand + 1] /\ input.need[demand + 1] \in Nat
    BY <1>2, <1>4, <1>6 DEF Needed, Demands
  <2> QED
    BY <2>2, <2>3
<1>7. Fitting'
  BY <1>2, <1>3 DEF Fitting
<1> QED
  BY <1>2, <1>3, <1>5, <1>6, <1>7 DEF Balance, NothingTwice

\* Every step keeps what is given in balance.
LEMMA BalanceStep == IInv /\ Balance /\ Fitting /\ [Next]_vars => Balance' /\ Fitting'
<1> SUFFICES ASSUME IInv, Balance, Fitting, [Next]_vars PROVE Balance' /\ Fitting'
  OBVIOUS
<1>1. CASE Skip
  BY <1>1 DEF Skip, Balance, NothingTwice, Fitting, Demands
<1>2. CASE UNCHANGED vars
  BY <1>2 DEF vars, Balance, NothingTwice, Fitting, Demands
<1> QED
  BY <1>1, <1>2, TakeBalance, CloseBalance DEF Next

-----------------------------------------------------------------------------
(* The promise *)

\* What the closed demands got: given, as Reservation sees it.
Served == [d \in Demands |-> [s \in Sources |-> IF d \in Closed THEN given[d][s] ELSE 0]]

\* Reservation adds up as the loop does.
LEMMA SameTotal == \A f, S : Promised!Total(f, S) = Total(f, S)
BY DEF Total, Promised!Total, MapThenSumSet, MapThenFoldSet, Promised!MapThenSumSet,
       Promised!MapThenFoldSet

\* The terms of Reservation under the refinement mapping.
LEMMA PromisedTerms ==
  /\ Promised!Demands = Demands
  /\ Promised!vars = <<input, Closed, Served>>
  /\ Promised!Free = [s \in Sources |->
                        input.supply[s] - Total([d \in Demands |-> Served[d][s]], Demands)]
BY SameTotal DEF Promised!Demands, Demands, Promised!vars, Served, Promised!Free

\* What the closed demands have left is what is left now and what the demand
\* being served has taken.
LEMMA FreeNow ==
  ASSUME IInv, Balance, demand \in Demands, NEW s \in Sources
  PROVE  Promised!Free[s] = residual[s] + given[demand][s]
<1> DEFINE f == [d \in Demands |-> Served[d][s]]
           g == Got(s)
<1>1. /\ TypeOK /\ Untouched
      /\ given \in [Demands -> [Sources -> Nat]] /\ residual \in [Sources -> Nat]
  BY DEF IInv, TypeOK
<1>2. \A d \in Demands : d \in Nat
  BY DEF Demands
<1>3. \A d \in Demands : f[d] = IF d < demand THEN given[d][s] ELSE 0
  BY <1>2 DEF Served, Closed, Demands
<1>4. \A d \in Demands : g[d] = given[d][s] /\ given[d][s] \in Nat /\ (d > demand => given[d][s] = 0)
  BY <1>1 DEF Untouched, Got
<1>5. Promised!Free[s] = input.supply[s] - Total(f, Demands)
  BY PromisedTerms
<1>6. residual[s] + Total(g, Demands) = input.supply[s]
  BY DEF Balance, NothingTwice, Got
<1> HIDE DEF f, g
<1>7. /\ Numbers(f, Demands)
      /\ \A d \in Demands : g[d] = IF d = demand THEN f[d] + given[demand][s] ELSE f[d]
  BY <1>2, <1>3, <1>4 DEF Numbers
<1>8. IsFiniteSet(Demands) /\ given[demand][s] \in Nat /\ residual[s] \in Nat
  BY <1>1, <1>4, SumsShape
<1>9. Total(f, Demands) \in Nat /\ Total(g, Demands) = Total(f, Demands) + given[demand][s]
  BY <1>7, <1>8, TotalGrows
<1> QED
  BY <1>5, <1>6, <1>8, <1>9

\* Everything that fits a demand closed short is used up.
LEMMA ShortMeansDrained ==
  ASSUME IInv, Close, left > 0, NEW s \in input.fits[demand]
  PROVE  residual[s] = 0
<1>1. Drained' /\ TypeOK /\ demand \in Demands /\ Demands' = Demands
  BY CloseInductive DEF IInv, Close, Demands
<1>2. deficit'[demand] = left /\ residual' = residual /\ input' = input
  BY <1>1 DEF Close, TypeOK
<1> QED
  BY <1>1, <1>2 DEF Drained

\* When the loop closes a demand, what it took is a share that Reservation
\* allows.
LEMMA CloseServes ==
  ASSUME IInv, Balance, Fitting, Close, NEW c \in Demands, c = demand
  PROVE  Promised!Serve(c)
<1> DEFINE share == given[demand]
<1>1. /\ TypeOK /\ StockFirst /\ demand \in Demands /\ input \in Inputs
      /\ demand' = demand + 1 /\ input' = input /\ given' = given
      /\ (left = 0 \/ at > Len(input.scan[demand]))
      /\ given \in [Demands -> [Sources -> Nat]] /\ residual \in [Sources -> Nat]
      /\ left \in Nat
  BY DEF IInv, TypeOK, Close
<1>2. /\ input.count \in Nat
      /\ input.need \in [Demands -> Nat] /\ input.rank \in [Demands -> Nat]
      /\ input.fits \in [Demands -> SUBSET Sources]
      /\ \A d, e \in Demands : input.rank[d] < input.rank[e] => d < e
  BY <1>1, InputShape
<1>3. \A d \in Demands : d \in Nat /\ (d \in Closed <=> d < demand)
  BY <1>1, <1>2 DEF Demands, Closed
<1>4. Demands' = Demands /\ Closed' = Closed \cup {demand} /\ demand \notin Closed
  BY <1>1, <1>3 DEF Demands, Closed
<1>5. ASSUME NEW e \in Demands \ Closed PROVE input.rank[demand] <= input.rank[e]
  BY <1>1, <1>2, <1>3, <1>5
<1>6. left + Total(share, Sources) = input.need[demand]
  BY <1>1 DEF Balance
<1>7. Total(share, Sources) \in Nat /\ \A s \in Sources : share[s] \in Nat /\ share[s] <= Total(share, Sources)
  <2>1. Numbers(share, Sources) /\ IsFiniteSet(Sources)
    BY <1>1, SumsShape
  <2> HIDE DEF share
  <2>2. Total(share, Sources) \in Nat
    <3> DEFINE z == [s \in Sources |-> 0]
    <3>1. Numbers(z, Sources) /\ Adding(share, share, z, Sources)
      BY <2>1 DEF Numbers, Adding
    <3> HIDE DEF z
    <3> QED
      BY <2>1, <3>1, TotalPlus
  <2>3. \A s \in Sources : share[s] \in Nat /\ share[s] <= Total(share, Sources)
    BY <2>1, TotalBounds DEF Numbers
  <2> QED
    BY <2>2, <2>3
<1>8. share \in [Sources -> 0 .. input.need[demand]]
  <2>1. input.need[demand] \in Nat /\ DOMAIN share = Sources /\ share = [s \in Sources |-> share[s]]
    BY <1>1, <1>2
  <2> HIDE DEF share
  <2>2. \A s \in Sources : share[s] \in 0 .. input.need[demand]
    BY <1>1, <1>6, <1>7, <2>1
  <2> QED
    BY <2>1, <2>2
<1>9. Served' = [Served EXCEPT ![demand] = share]
  <2>1. ASSUME NEW d \in Demands
        PROVE  Served'[d] = IF d = demand THEN share ELSE Served[d]
    <3>1. Served'[d] = [s \in Sources |-> IF d \in Closed' THEN given[d][s] ELSE 0]
      BY <1>1, <1>4 DEF Served
    <3>2. CASE d = demand
      <4>1. Served'[d] = [s \in Sources |-> given[demand][s]]
        BY <1>4, <3>1, <3>2
      <4> QED
        BY <1>1, <3>2, <4>1
    <3>3. CASE d # demand
      BY <1>4, <3>1, <3>3 DEF Served
    <3> QED
      BY <3>2, <3>3
  <2> QED
    BY <1>1, <1>4, <2>1 DEF Served
<1>10. \A s \in Sources : Promised!Free[s] = residual[s] + share[s]
  BY <1>1, FreeNow
<1>11. \A s \in Sources : share[s] <= Promised!Free[s]
  BY <1>1, <1>7, <1>10
<1>12. \A s \in Sources \ input.fits[demand] : share[s] = 0
  BY <1>1, <1>7 DEF Fitting
<1>13. \/ Total(share, Sources) = input.need[demand]
       \/ /\ Total(share, Sources) < input.need[demand]
          /\ \A s \in input.fits[demand] : share[s] = Promised!Free[s]
  <2>1. CASE left = 0
    BY <1>6, <1>7, <2>1
  <2>2. CASE left > 0
    <3>1. \A s \in input.fits[demand] : residual[s] = 0 /\ s \in Sources
      BY <1>1, <1>2, <2>2, ShortMeansDrained
    <3>2. Total(share, Sources) < input.need[demand]
      BY <1>1, <1>6, <1>7, <2>2
    <3>3. \A s \in input.fits[demand] : share[s] = Promised!Free[s]
      BY <1>7, <1>10, <3>1
    <3> QED
      BY <3>2, <3>3
  <2> QED
    BY <1>1, <2>1, <2>2
<1>14. \/ \A s \in Sources \ FirstTier : share[s] = 0
       \/ \A s \in input.fits[demand] \cap FirstTier : share[s] = Promised!Free[s]
  <2>1. CASE \E t \in Sources \ FirstTier : share[t] > 0
    <3>1. \A s \in input.fits[demand] \cap FirstTier : residual[s] = 0 /\ s \in Sources
      BY <1>1, <1>2, <2>1 DEF StockFirst
    <3> QED
      BY <1>7, <1>10, <3>1
  <2>2. CASE ~\E t \in Sources \ FirstTier : share[t] > 0
    BY <1>7, <2>2
  <2> QED
    BY <2>1, <2>2
<1> HIDE DEF share
<1>15. Promised!Total(share, Sources) = Total(share, Sources)
  BY SameTotal
<1>16. \E q \in [Sources -> 0 .. input.need[c]] :
         /\ Served' = [Served EXCEPT ![c] = q]
         /\ \A s \in Sources : q[s] <= Promised!Free[s]
         /\ \A s \in Sources \ input.fits[c] : q[s] = 0
         /\ \/ Promised!Total(q, Sources) = input.need[c]
            \/ /\ Promised!Total(q, Sources) < input.need[c]
               /\ \A s \in input.fits[c] : q[s] = Promised!Free[s]
         /\ \/ \A s \in Sources \ FirstTier : q[s] = 0
            \/ \A s \in input.fits[c] \cap FirstTier : q[s] = Promised!Free[s]
  <2>1. share \in [Sources -> 0 .. input.need[c]] /\ Served' = [Served EXCEPT ![c] = share]
    BY <1>8, <1>9
  <2>2. \/ Promised!Total(share, Sources) = input.need[c]
        \/ /\ Promised!Total(share, Sources) < input.need[c]
           /\ \A s \in input.fits[c] : share[s] = Promised!Free[s]
    BY <1>13, <1>15
  <2>3. /\ \A s \in Sources : share[s] <= Promised!Free[s]
        /\ \A s \in Sources \ input.fits[c] : share[s] = 0
        /\ \/ \A s \in Sources \ FirstTier : share[s] = 0
           \/ \A s \in input.fits[c] \cap FirstTier : share[s] = Promised!Free[s]
    BY <1>11, <1>12, <1>14
  <2> QED
    BY <2>1, <2>2, <2>3
<1>17. /\ c \notin Closed /\ Closed' = Closed \cup {c} /\ input' = input
       /\ \A e \in Demands \ Closed : input.rank[c] <= input.rank[e]
  BY <1>1, <1>4, <1>5
<1> QED
  BY <1>16, <1>17, PromisedTerms DEF Promised!Serve, Served

\* To Reservation, what the loop does within a demand is a stutter.
LEMMA PromiseStep ==
  IInv /\ Balance /\ Fitting /\ [Next]_vars => [Promised!Next]_(Promised!vars)
<1> SUFFICES ASSUME IInv, Balance, Fitting, [Next]_vars PROVE [Promised!Next]_(Promised!vars)
  OBVIOUS
<1>1. CASE Close
  <2>1. PICK c \in Demands : c = demand
    BY <1>1 DEF Close
  <2>2. c \in Promised!Demands /\ Promised!Serve(c)
    BY <1>1, <2>1, CloseServes, PromisedTerms
  <2>3. Promised!Next
    BY <2>2 DEF Promised!Next
  <2> QED
    BY <2>3
<1>2. CASE Take
  <2>1. /\ TypeOK
        /\ \A d \in Demands : \A s \in Sources : d # demand => given'[d][s] = given[d][s]
        /\ input' = input /\ demand' = demand
    BY <1>2, TakeWrites DEF IInv
  <2>2. Demands' = Demands /\ Closed' = Closed /\ demand \notin Closed
    BY <2>1 DEF Demands, Closed, TypeOK
  <2>3. Served' = Served
    BY <2>1, <2>2 DEF Served
  <2>4. UNCHANGED Promised!vars
    BY <2>1, <2>2, <2>3 DEF Promised!vars, Served
  <2> QED
    BY <2>4
<1>3. CASE Skip \/ UNCHANGED vars
  <2>1. input' = input /\ demand' = demand /\ given' = given
    BY <1>3 DEF Skip, vars
  <2>2. Closed' = Closed /\ Served' = Served
    BY <2>1 DEF Closed, Served, Demands
  <2>3. UNCHANGED Promised!vars
    BY <2>1, <2>2 DEF Promised!vars, Served
  <2> QED
    BY <2>3
<1> QED
  BY <1>1, <1>2, <1>3 DEF Next

\* The loop starts as Reservation does.
LEMMA PromiseInit == Init => Promised!Init
<1> SUFFICES ASSUME Init PROVE Promised!Init
  OBVIOUS
<1>1. input \in Inputs /\ demand = 1
  BY DEF Init
<1>2. Closed = {}
  BY <1>1 DEF Closed
<1>3. Served = [d \in Demands |-> [s \in Sources |-> 0]]
  BY <1>2 DEF Served
<1> QED
  BY <1>1, <1>2, <1>3, PromisedTerms DEF Promised!Init, Served

-----------------------------------------------------------------------------
(* The theorems *)

\* Every state of the loop satisfies the strengthening.
THEOREM Inductive == Spec => []IInv
<1>1. Init => IInv
  BY InitInductive
<1>2. IInv /\ [Next]_vars => IInv'
  <2>1. CASE Take
    BY <2>1, TakeInductive
  <2>2. CASE Skip
    BY <2>2, SkipInductive
  <2>3. CASE Close
    BY <2>3, CloseInductive
  <2>4. CASE UNCHANGED vars
    BY <2>4 DEF vars, IInv, TypeOK, Demands, Drained, StockFirst, Untouched, EarlierDeadlineFirst
  <2>5. QED
    BY <2>1, <2>2, <2>3, <2>4 DEF Next
<1>3. QED
  BY <1>1, <1>2, PTL DEF Spec

\* The loop never takes more of a source than there is, nor more than is needed.
THEOREM TypeCorrect == Spec => []TypeOK
<1>1. IInv => TypeOK
  BY DEF IInv
<1>2. QED
  BY <1>1, Inductive, PTL

\* A demand with an earlier deadline never goes short of, nor is sent to a
\* supplier for, what a later one got: for every calculation in which the loop
\* sees the sources that fit a demand, the first tier before the second.
THEOREM DeadlinesComeFirst == Spec => []EarlierDeadlineFirst
<1>1. IInv => EarlierDeadlineFirst
  BY DEF IInv
<1>2. QED
  BY <1>1, Inductive, PTL

\* Nothing is promised twice: of every source, what the demands got and what is
\* left add up to what there was; what a demand got and lacks is its need.
THEOREM NothingPromisedTwice == Spec => []NothingTwice
<1>1. Init => Balance /\ Fitting
  BY InitBalance
<1>2. IInv /\ (Balance /\ Fitting) /\ [Next]_vars => (Balance /\ Fitting)'
  BY BalanceStep
<1>3. Balance => NothingTwice
  BY DEF Balance
<1> QED
  BY <1>1, <1>2, <1>3, Inductive, PTL DEF Spec

\* The loop implements Reservation: every demand it closes has been served, out
\* of what the earlier ones left, all it needs or all that fits it, the second
\* tier only when nothing of the first is left for it, and none out of turn.
THEOREM LoopKeepsPromise == Spec => Promise
<1>1. Init => Promised!Init /\ Balance /\ Fitting
  BY PromiseInit, InitBalance
<1>2. IInv /\ (Balance /\ Fitting) /\ [Next]_vars => (Balance /\ Fitting)'
  BY BalanceStep
<1>3. IInv /\ (Balance /\ Fitting) /\ [Next]_vars => [Promised!Next]_(Promised!vars)
  BY PromiseStep
<1> QED
  BY <1>1, <1>2, <1>3, Inductive, PTL DEF Spec, Promise, Promised!Spec
=============================================================================
