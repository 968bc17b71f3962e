--------------------------- MODULE MCNlpDictionary ---------------------------
(* Three entities, one of them shipped, and one value, for NlpDictionary.    *)
EXTENDS NlpDictionary, TLC

Mode(overlap, faults) == [overlap |-> overlap, faults |-> faults]

MCModes == {Mode(TRUE, {}), Mode(FALSE, {"crash"}), Mode(FALSE, {"engine"})}

DictionarySymmetry ==
  Permutations(Reqs) \cup Permutations(Entities \ Shipped) \cup Permutations(Values)

=============================================================================
