-------------------------------- MODULE MCBot --------------------------------
(* A catalogue with every kind of block, for model-checking Bot.           *)
EXTENDS Bot, TLC

CONSTANTS m1, m2, m3, m4, s1, s2

Catalogue == {"ask", "info", "menu", "check", "promo", "bye"}

\*  ask   : a question with a local fallback; replies lead to info or check
\*  info  : a message with menu attached to it (and a next block it never uses)
\*  menu  : a question without local fallback
\*  check : a plugin whose outcome leads to ask or bye
\*  promo : another entry, a question that only bye answers
\*  bye   : ends the flow
MCNextBlocks == [b \in Catalogue |->
  CASE b = "ask"   -> {"info", "check"}
    [] b = "info"  -> {"promo"}
    [] b = "menu"  -> {"check", "bye"}
    [] b = "check" -> {"ask", "bye"}
    [] b = "promo" -> {"bye"}
    [] b = "bye"   -> {}]

MCAttachedBlock == [b \in Catalogue |-> IF b = "info" THEN "menu" ELSE NoBlock]

MCMaxAttempts == [b \in Catalogue |-> IF b = "ask" THEN 1 ELSE 0]

MCSystemBlocks == {"check"}
MCEntryBlocks == {"ask", "check", "promo"}
MCCaptureBlocks == {"ask", "info", "check"}
MCFallbackBlock == "bye"

\* With four messages, fewer ways to start.
ShortEntryBlocks == {"ask", "promo"}

OneSubscriber == [m \in Msgs |-> s1]
TwoSubscribers == [m \in Msgs |-> IF m = m3 THEN s2 ELSE s1]

PairSymmetry == Permutations({m1, m2})

=============================================================================
