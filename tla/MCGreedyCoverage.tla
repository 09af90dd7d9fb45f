-------------------------- MODULE MCGreedyCoverage --------------------------
(* Both calculations over four sources: two of the first tier (1, 2) and two *)
(* of the second (3, 4), and up to three demands.                            *)
EXTENDS GreedyCoverage, CoverageInputs

MCSources == 1 .. 4
MCFirstTier == 1 .. 2

\* Goods that match one another by id, by name, or through a third.
Goods == {[id |-> "a", name |-> "m"], [id |-> "guid", name |-> "m"],
          [id |-> None, name |-> "n"]}

Banks ==
  {[stock  |-> {[src |-> 1, warehouse |-> 2, id |-> "a", name |-> "n", quantity |-> q1, reserved |-> 1],
                [src |-> 2, warehouse |-> 1, id |-> "b", name |-> "m", quantity |-> q2, reserved |-> 0]},
    offers |-> << <<[src |-> 3, id |-> "a", name |-> "m", lead |-> 5, quantity |-> q3]>>,
                  <<[src |-> 4, id |-> "b", name |-> "m", lead |-> 2, quantity |-> q4]>> >>] :
     q1 \in {0, 2, 3}, q2 \in 0 .. 1, q3 \in {0, 2}, q4 \in 0 .. 1}

Demand(c, g, q, due) ==
  [case |-> c, line |-> 1, id |-> g.id, name |-> g.name, quantity |-> q, due |-> due,
   cancelled |-> FALSE]

AllocationInputs ==
  {AllocationInput(b, {Demand(1, g1, q1, due[1]), Demand(2, g2, 2, due[2]), Demand(3, g3, 1, 2)}) :
     b \in Banks, g1 \in Goods, g2 \in Goods, g3 \in Goods,
     q1 \in 0 .. 2, due \in {<<1, 2>>, <<2, 2>>, <<3, 2>>, <<3, NoDate>>}}

Line(x, c, q) == [src |-> x, id |-> "a", char |-> c, quantity |-> q, cancelled |-> FALSE]
Order(r, def, par, out, ls) ==
  [ref |-> r, definite |-> def, parents |-> par, cancelled |-> out, lines |-> ls]
Position(c, q) == [id |-> "a", char |-> c, quantity |-> q, cancelled |-> FALSE]

Chars == {None, "red", "blue"}

\* A transfer that the list may name twice, a conditional supplier order, and a
\* definite one that descends from it and may be cancelled.
OrderInputs ==
  {LET transfer == Order("t", FALSE, {}, FALSE, <<Line(1, None, q1), Line(2, "red", 1)>>)
       parent   == Order("p", FALSE, {}, FALSE, <<Line(3, None, 2)>>)
       child    == Order("c", TRUE, {"p", "c"}, out, <<Line(4, "blue", q4)>>)
   IN  CoverageInput(<<Position(c1, n1), Position(c2, 2), Position("red", 1)>>,
                     <<parent, child>>,
                     IF twice THEN <<transfer, transfer>> ELSE <<transfer>>) :
     q1 \in {0, 2}, q4 \in 1 .. 2, out \in BOOLEAN, twice \in BOOLEAN,
     c1 \in Chars, c2 \in Chars, n1 \in 0 .. 2}

MCInputs == AllocationInputs \cup OrderInputs
=============================================================================
