------------------------------ MODULE FlowGraph ------------------------------
(***************************************************************************)
(* What the visual editor promises about the blocks of the flows and the   *)
(* links between them: a request of an editor has its whole effect at      *)
(* once.  Blocks that move to another flow lose the links that would cross *)
(* flows, blocks that are removed take the links to them along, and a      *)
(* request that does not succeed may at worst lose links.                  *)
(***************************************************************************)
CONSTANTS
  Blocks,
  Categories, \* a category is a flow of the editor
  NoBlock,
  Unused,     \* category of an id that no block was created with yet
  Gone        \* category of the id of a deleted block: ids are not used again

VARIABLES
  category, \* category[b]: the flow of b, Unused or Gone
  next,     \* next[b]: the blocks a reply to b may lead to
  attached  \* attached[b]: the block sent right after b, or NoBlock

vars == <<category, next, attached>>

Existing == {b \in Blocks : category[b] \in Categories}

Links(b) == next[b] \cup ({attached[b]} \ {NoBlock})

\* Links lead to blocks of the same flow, and a block has links of one kind only.
WellDrawn ==
  \A b \in Blocks :
    /\ Links(b) \subseteq {x \in Existing : category[x] = category[b]}
    /\ attached[b] = NoBlock \/ next[b] = {}

Init ==
  /\ category \in [Blocks -> Categories \cup {Unused}]
  /\ next \in [Blocks -> SUBSET Blocks]
  /\ attached \in [Blocks -> Blocks \cup {NoBlock}]
  /\ WellDrawn

Add(b, c) ==
  /\ category[b] = Unused
  /\ category' = [category EXCEPT ![b] = c]
  /\ \E s \in SUBSET Existing : next' = [next EXCEPT ![b] = s]
  /\ \E x \in Existing \cup {NoBlock} : attached' = [attached EXCEPT ![b] = x]
  /\ WellDrawn'

DrawNext(b) ==
  /\ \E s \in SUBSET Existing : next' = [next EXCEPT ![b] = s]
  /\ WellDrawn'
  /\ UNCHANGED <<category, attached>>

DrawAttached(b) ==
  /\ \E x \in Existing \cup {NoBlock} : attached' = [attached EXCEPT ![b] = x]
  /\ WellDrawn'
  /\ UNCHANGED <<category, next>>

\* The links between the blocks that move and those that stay are cut.
Relocate(ids, c) ==
  /\ category' = [b \in Blocks |-> IF b \in ids THEN c ELSE category[b]]
  /\ next' = [b \in Blocks |-> {x \in next[b] : x \in ids <=> b \in ids}]
  /\ attached' = [b \in Blocks |-> IF attached[b] \in ids <=> b \in ids
                                   THEN attached[b] ELSE NoBlock]

Remove(ids) ==
  /\ category' = [b \in Blocks |-> IF b \in ids THEN Gone ELSE category[b]]
  /\ next' = [b \in Blocks |-> IF b \in ids THEN {} ELSE next[b] \ ids]
  /\ attached' = [b \in Blocks |-> IF b \in ids \/ attached[b] \in ids
                                   THEN NoBlock ELSE attached[b]]

LoseLinks ==
  /\ next' \in [Blocks -> SUBSET Blocks]
  /\ \A b \in Blocks : next'[b] \subseteq next[b]
  /\ attached' \in [Blocks -> Blocks \cup {NoBlock}]
  /\ \A b \in Blocks : attached'[b] \in {attached[b], NoBlock}
  /\ UNCHANGED category

Next ==
  \/ \E b \in Blocks, c \in Categories : Add(b, c)
  \/ \E b \in Existing : DrawNext(b) \/ DrawAttached(b)
  \/ \E ids \in (SUBSET Existing) \ {{}} : Remove(ids) \/ \E c \in Categories : Relocate(ids, c)
  \/ LoseLinks

Spec == Init /\ [][Next]_vars

=============================================================================
