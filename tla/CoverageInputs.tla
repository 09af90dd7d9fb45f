--------------------------- MODULE CoverageInputs ---------------------------
(***************************************************************************)
(* How each of the two calculations turns the records it reads into the    *)
(* order in which it serves demands and the sources it looks at.  Ids,     *)
(* names and characteristics are strings, "" when the record has none;     *)
(* deadlines, warehouses and suppliers are numbers in their sort order.    *)
(***************************************************************************)
EXTENDS Naturals, Sequences, FiniteSets, SequencesExt

NoDate == 1000    \* datetime.max: a demand without a deadline comes last
NoLead == 99      \* the lead time of an offer that names none

None == ""

-----------------------------------------------------------------------------
(* allocation.py: a bank [stock, offers], stock a set of lines             *)
(* [src, warehouse, id, name, quantity, reserved], offers[p] the sequence  *)
(* of offers [src, id, name, lead, quantity] of supplier p.                *)

\* The id first, then the name: a demand whose id is a GUID of 1C still finds
\* the bank's line by its name.
MatchKeys(x) ==
  SelectSeq(<<x.id, IF x.name = x.id THEN None ELSE x.name>>, LAMBDA k : k # None)
Matches(x, k) == k \in ToSet(MatchKeys(x))
SameGoods(x, y) == ToSet(MatchKeys(x)) \cap ToSet(MatchKeys(y)) # {}

\* The buckets of a demand's keys one after the other, no entry twice
\* (seen_stock, seen_suppliers).
InTurn(buckets) ==
  FoldLeft(LAMBDA seen, b : seen \o SelectSeq(b, LAMBDA x : x \notin ToSet(seen)), <<>>, buckets)

\* stock_by_nom[k]
StockOf(bank, k) ==
  SetToSortSeq({s \in bank.stock : Matches(s, k)},
               LAMBDA s, t : \/ s.warehouse < t.warehouse
                             \/ s.warehouse = t.warehouse /\ s.src < t.src)

\* The lead time of the first offer of supplier p listed under key k.
Lead(bank, p, k) ==
  LET named == SelectSeq(bank.offers[p], LAMBDA o : Matches(o, k))
  IN  IF named = <<>> THEN NoLead ELSE Head(named).lead

\* supplier_by_nom[k]: who has anything under key k, the fastest first.
SuppliersOf(bank, k) ==
  SetToSortSeq({p \in DOMAIN bank.offers :
                  \E o \in ToSet(bank.offers[p]) : o.quantity > 0 /\ Matches(o, k)},
               LAMBDA p, q : \/ Lead(bank, p, k) < Lead(bank, q, k)
                             \/ Lead(bank, p, k) = Lead(bank, q, k) /\ p < q)

StockScan(bank, d) ==
  LET keys == MatchKeys(d) IN InTurn([i \in DOMAIN keys |-> StockOf(bank, keys[i])])
SupplierScan(bank, d) ==
  LET keys == MatchKeys(d)
      candidates == InTurn([i \in DOMAIN keys |-> SuppliersOf(bank, keys[i])])
  IN  FlattenSeq([i \in DOMAIN candidates |->
                    SelectSeq(bank.offers[candidates[i]], LAMBDA o : SameGoods(o, d))])

\* remaining_stock and remaining_supplier before the first demand.
BankSupply(bank) ==
  LET offers == UNION {ToSet(bank.offers[p]) : p \in DOMAIN bank.offers}
  IN  [x \in {s.src : s \in bank.stock \cup offers} |->
         IF \E s \in bank.stock : s.src = x
         THEN LET s == CHOOSE s \in bank.stock : s.src = x
              IN  IF s.quantity < s.reserved THEN 0 ELSE s.quantity - s.reserved
         ELSE (CHOOSE o \in offers : o.src = x).quantity]

\* demands_from_cases: cancelled positions and those that ask for nothing are out.
DemandsFromCases(positions) == {p \in positions : ~p.cancelled /\ p.quantity > 0}

\* _sort_key: deadline, then case, then line.
SortDemands(demands) ==
  SetToSortSeq(demands, LAMBDA d, e :
                 \/ d.due < e.due
                 \/ d.due = e.due /\ d.case < e.case
                 \/ d.due = e.due /\ d.case = e.case /\ d.line < e.line)

Srcs(records) == [k \in DOMAIN records |-> records[k].src]

\* allocate_materials_by_deadline as a calculation of GreedyCoverage.
AllocationInput(bank, positions) ==
  LET ds == SortDemands(DemandsFromCases(positions))
      all == bank.stock \cup UNION {ToSet(bank.offers[p]) : p \in DOMAIN bank.offers}
  IN  [count  |-> Len(ds),
       need   |-> [i \in 1 .. Len(ds) |-> ds[i].quantity],
       rank   |-> [i \in 1 .. Len(ds) |-> ds[i].due],
       fits   |-> [i \in 1 .. Len(ds) |-> {x.src : x \in {y \in all : SameGoods(y, ds[i])}}],
       scan   |-> [i \in 1 .. Len(ds) |->
                     Srcs(StockScan(bank, ds[i])) \o Srcs(SupplierScan(bank, ds[i]))],
       supply |-> BankSupply(bank)]

-----------------------------------------------------------------------------
(* material_order_coverage.py: orders are sequences of                     *)
(* [ref, definite, cancelled, parents, lines] with lines a sequence of     *)
(* [src, id, char, quantity, cancelled], parents the refs of its chain.    *)

\* Cancelled orders are out, and so is a conditional order once a definite
\* order that descends from it is there (by_ref: the supplier orders come with
\* one record for each ref).
SelectForQty(orders) ==
  LET live == {o \in ToSet(orders) : ~o.cancelled}
      replaced == {p.ref : p \in {q \in live :
                     /\ ~q.definite
                     /\ \E o \in live : o.definite /\ o.ref # q.ref /\ q.ref \in o.parents}}
  IN  SelectSeq(orders, LAMBDA o : ~o.cancelled /\ o.ref \notin replaced)

\* A line covers a position of the same nomenclature unless both name a
\* characteristic and the two differ.
Covers(l, p) ==
  ~l.cancelled /\ l.id = p.id /\ (None \in {l.char, p.char} \/ l.char = p.char)

\* The lines _allocate_docs looks at for a position, in turn.
LineScan(orders, p) ==
  LET live == SelectSeq(orders, LAMBDA o : ~o.cancelled)
  IN  FlattenSeq([i \in DOMAIN live |-> SelectSeq(live[i].lines, LAMBDA l : Covers(l, p))])

LinesOf(orders) == UNION {ToSet(o.lines) : o \in ToSet(orders)}

\* build_material_order_coverage as a calculation of GreedyCoverage: positions
\* in the order of the document, transfers first.
CoverageInput(positions, suppliers, transfers) ==
  LET ps == SelectSeq(positions, LAMBDA p : ~p.cancelled /\ p.id # None)
      counted == SelectForQty(suppliers)
      live == SelectSeq(transfers, LAMBDA o : ~o.cancelled)
      lines == LinesOf(suppliers) \cup LinesOf(transfers)
  IN  [count  |-> Len(ps),
       need   |-> [i \in 1 .. Len(ps) |-> ps[i].quantity],
       rank   |-> [i \in 1 .. Len(ps) |-> i],
       fits   |-> [i \in 1 .. Len(ps) |->
                     {l.src : l \in {m \in LinesOf(counted \o live) : Covers(m, ps[i])}}],
       scan   |-> [i \in 1 .. Len(ps) |->
                     Srcs(LineScan(transfers, ps[i])) \o Srcs(LineScan(counted, ps[i]))],
       supply |-> [x \in {l.src : l \in lines} |-> (CHOOSE l \in lines : l.src = x).quantity]]
=============================================================================
