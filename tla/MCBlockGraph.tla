----------------------------- MODULE MCBlockGraph -----------------------------
(* Two flows of three blocks: chains, a fan, a cycle, an attached block.     *)
EXTENDS BlockGraph, TLC

CONSTANTS b1, b2, b3, k1, k2, r1, r2

MCBlocks == {b1, b2, b3}

Flat(c1, c2, c3, n1, n2, n3, t1, t2) ==
  [category |-> (b1 :> c1) @@ (b2 :> c2) @@ (b3 :> c3),
   next     |-> (b1 :> n1) @@ (b2 :> n2) @@ (b3 :> n3),
   attached |-> (b1 :> t1) @@ (b2 :> t2) @@ (b3 :> NoBlock)]

MCFlows ==
  {Flat(k1, k1, k1, {b2, b3}, {b3}, {}, NoBlock, NoBlock), \* b1 asks, b2 or b3 follow
   Flat(k1, k1, k1, {}, {b1, b3}, {b2}, b2, NoBlock),      \* b2 attached to b1, and back
   Flat(k1, k2, Unused, {b1}, {}, {}, NoBlock, NoBlock)}

Mode(overlap, kinds, faults) == [overlap |-> overlap, kinds |-> kinds, faults |-> faults]

MCModes ==
  {Mode(FALSE, {"create", "draw", "attach", "move", "delete", "deleteCategory"}, {"crash"}),
   Mode(FALSE, {"patch", "move", "delete", "deleteCategory"}, {}),
   Mode(FALSE, {"patchMany", "deleteCategory"}, {}),
   Mode(FALSE, {"move", "delete"}, {"db"}),
   Mode(TRUE, {"move", "delete"}, {})}

RequestSymmetry == Permutations(Reqs)

=============================================================================
