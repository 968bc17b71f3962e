----------------------------- MODULE MCAnalytics -----------------------------
(* A few messages of one sender, and thresholds in the order of config's.  *)
EXTENDS Analytics

\* One by one; two at once; and two at once with every fault.
MCModes ==
  {[messages |-> 3, atOnce |-> 1, names |-> Names, faults |-> {}],
   [messages |-> 3, atOnce |-> 2, names |-> {"All Messages", "Returning users"}, faults |-> {}],
   [messages |-> 3, atOnce |-> 2, names |-> {"Returning users"}, faults |-> {"db", "crash"}],
   [messages |-> 3, atOnce |-> 2, names |-> {"All Messages"}, faults |-> {"db", "crash"}]}

OneMessage == {[messages |-> 1, atOnce |-> 1, names |-> {"All Messages"}, faults |-> {}]}

=============================================================================
