---------------------------- MODULE MCSubscriber ----------------------------
(* Two exclusive labels and a free one, for model-checking Subscriber.     *)
EXTENDS Subscriber, TLC

CONSTANTS m1, m2, gold, silver, vip, tier, u1

MCGroup == [l \in Labels |-> IF l = vip THEN NoGroup ELSE tier]

\* Blocks that assign one label of the group, a free one, both or none.
MCBlockLabels == {{}, {gold, vip}, {silver}, {vip}}

Mode(existing, operators, overlap, faults, chain) ==
  [existing |-> existing, operators |-> operators, overlap |-> overlap,
   faults |-> faults, chain |-> chain]

\* Messages that overlap, with failures; with operators who edit labels; and
\* messages in sequence, with chains of blocks.
MCModes ==
  {Mode({Visitor}, {"assign"}, TRUE, {"db", "crash"}, 2),
   Mode({Visitor}, {"labels"}, FALSE, {"db"}, 1),
   Mode({}, {"assign"}, FALSE, {}, 2)}

MessageSymmetry == Permutations(Msgs)

=============================================================================
