---------------------------- MODULE MCReadThrough ----------------------------
(* The caches of the API, with what may fail, for model-checking ReadThrough. *)
EXTENDS ReadThrough

Cache(clearing, store, faults) == [clearing |-> clearing, store |-> store, faults |-> faults]

\* The permissions, the menu and the NLP map; the settings; the languages.
MCModes ==
  {Cache("awaited", "memory", {"db", "crash"}), Cache("awaited", "redis", {"cache"}),
   Cache("detached", "redis", {"crash"}), Cache("never", "redis", {})}

=============================================================================
