---------------------------- MODULE MCWebSession ----------------------------
(* Browsers for model-checking WebSession.                                   *)
EXTENDS WebSession, TLC

CONSTANTS s1, s2

Use(number, tabs, socket, http, overlap, faults) ==
  [requests |-> number, sockets |-> tabs, socket |-> socket, http |-> http,
   overlap |-> overlap, faults |-> faults]

\* One tab whose requests overlap with those over HTTP: it sends files and polls,
\* or leaves and comes back over either; and two tabs used one after the other.
MCUses ==
  {Use(3, {s1}, {"subscribe", "file", "leave"}, {"poll"}, TRUE, {"db"}),
   Use(3, {s1}, {"subscribe", "message"}, {"subscribe", "leave"}, TRUE, {"db"}),
   Use(3, {s1, s2}, {"subscribe", "message"}, {"message", "file"}, FALSE, {})}

=============================================================================
