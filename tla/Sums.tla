-------------------------------- MODULE Sums --------------------------------
(***************************************************************************)
(* The total of a function whose values are natural numbers, as the number *)
(* of its units: a payment of 3 to u is the three units <<u,1>>, <<u,2>>,  *)
(* <<u,3>>.  It is the sum the program's loops accumulate; written without *)
(* recursion so that facts about it can be proved (SumsTheorems).          *)
(***************************************************************************)
EXTENDS Integers, FiniteSets

Units(f) == UNION {{x} \X (1 .. f[x]) : x \in DOMAIN f}

Total(f) == Cardinality(Units(f))

\* The elements a function gives a positive amount.
Support(f) == {x \in DOMAIN f : f[x] > 0}
=============================================================================
