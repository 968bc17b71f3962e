----------------------------- MODULE ReadThrough -----------------------------
(***************************************************************************)
(* The cached reads of the API: a method under @Cacheable looks for its    *)
(* key in the cache, and otherwise queries the database and stores what it *)
(* got.  Listeners of the hooks of the repository delete the key whenever  *)
(* a document is written.  The settings, the permissions, the menu, the    *)
(* languages and the NLP map are read this way, each under a key of its    *)
(* own; this module is one of them.                                        *)
(*                                                                         *)
(* What the query returns is the version of the documents.  The handlers   *)
(* run at the same time, on servers that share the cache if it is Redis;   *)
(* an action is the code between two awaits.  A read that finds the key    *)
(* changes nothing and is no action.  The names of its specification begin *)
(* with Cache: BlockMatchProofs extends it beside BlockMatch, where the    *)
(* weights of NLU entities come from such a cache.                         *)
(***************************************************************************)
EXTENDS Naturals

CONSTANTS
  Readers, \* calls of the cached method, each of them any number of times
  Writers, \* requests that write a document, once
  NoEntry, \* the key is not in the cache
  Modes    \* the circumstances considered; of each,
           \* clearing: whether the listeners await the deletion of the key
           \* ("awaited"), start it only ("detached"), or do not exist ("never");
           \* store: "memory" of the server, or "redis";
           \* faults: "cache", "db" (a call fails); "crash" (the server stops)

ASSUME CacheAssumption ==
  /\ NoEntry \notin Nat
  /\ Modes \subseteq [clearing : {"awaited", "detached", "never"},
                      store    : {"memory", "redis"},
                      faults   : SUBSET {"cache", "db", "crash"}]

VARIABLES
  mode,      \* the circumstances of this behaviour, which never change
  version,   \* the documents: how often they were written
  entry,     \* the version under the key, or NoEntry
  rpc, got,  \* rpc[r]: where the read is; got[r]: what its query returned
  wpc,       \* wpc[w]: where the write is
  pending,   \* pending[w]: deletions of the key that w started and nobody awaits
  overtaken, \* history: reads that have queried, but not stored, before a deletion
  late,      \* history: the entry was stored by an overtaken read
  lost       \* history: a write's last deletion did not happen, and none since

reads == <<rpc, got, overtaken>>
writes == <<wpc, pending>>
cacheVars == <<mode, version, entry, reads, writes, late, lost>>

-----------------------------------------------------------------------------

\* updateOne emits two events before its two hooks, a creation three before
\* it is saved; deletions and updateMany have a hook before and one after.
Hooked == {"validate", "validated", "pre", "post"}

CacheInit ==
  /\ mode \in Modes
  /\ version = 0
  /\ entry = NoEntry
  /\ rpc = [r \in Readers |-> "idle"]
  /\ got = [r \in Readers |-> 0]
  /\ wpc = [w \in Writers |-> "idle"]
  /\ pending = [w \in Writers |-> 0]
  /\ overtaken = {}
  /\ late = FALSE
  /\ lost = FALSE

\* The key is deleted.
Delete ==
  /\ entry' = NoEntry
  /\ overtaken' = {r \in Readers : rpc[r] = "set"}
  /\ late' = FALSE
  /\ lost' = FALSE

-----------------------------------------------------------------------------
(* Cacheable.                                                              *)

\* The key is not there, or asking for it failed.
Get(r) ==
  /\ rpc[r] = "idle"
  /\ entry = NoEntry \/ "cache" \in mode.faults
  /\ rpc' = [rpc EXCEPT ![r] = "query"]
  /\ UNCHANGED <<mode, version, entry, got, overtaken, writes, late, lost>>

Query(r) ==
  /\ rpc[r] = "query"
  /\ \/ /\ rpc' = [rpc EXCEPT ![r] = "set"]
        /\ got' = [got EXCEPT ![r] = version]
     \/ /\ "db" \in mode.faults
        /\ rpc' = [rpc EXCEPT ![r] = "idle"]
        /\ UNCHANGED got
  /\ UNCHANGED <<mode, version, entry, overtaken, writes, late, lost>>

\* What was read is stored whatever happened since; a failure is only logged.
Set(r) ==
  /\ rpc[r] = "set"
  /\ rpc' = [rpc EXCEPT ![r] = "idle"]
  /\ \/ entry' = got[r] /\ late' = (r \in overtaken)
     \/ "cache" \in mode.faults /\ UNCHANGED <<entry, late>>
  /\ overtaken' = overtaken \ {r}
  /\ got' = [got EXCEPT ![r] = 0]
  /\ UNCHANGED <<mode, version, writes, lost>>

\* A bug: entries are stored without a time to live.
Expire_Never == FALSE

\* Five minutes after it was stored, by default.
Expire ==
  /\ entry # NoEntry
  /\ entry' = NoEntry
  /\ late' = FALSE
  /\ UNCHANGED <<mode, version, reads, writes, lost>>

-----------------------------------------------------------------------------
(* Writes, with the listeners of their hooks.                              *)

StartWrite(w) ==
  /\ wpc[w] = "idle"
  /\ \E first \in {"validate", "pre"} : wpc' = [wpc EXCEPT ![w] = first]
  /\ UNCHANGED <<mode, version, entry, reads, pending, late, lost>>

\* A deletion that does not happen matters if it is the last of the write.
Skip(last) ==
  /\ lost' = (lost \/ last)
  /\ UNCHANGED <<entry, overtaken, late>>

AfterHook == [validate |-> "validated", validated |-> "pre", pre |-> "write", post |-> "done"]

\* The error of a listener is logged, and the write goes on.
Clear(w) ==
  /\ wpc[w] \in Hooked
  /\ wpc' = [wpc EXCEPT ![w] = AfterHook[wpc[w]]]
  /\ \/ /\ mode.clearing = "awaited"
        /\ Delete \/ ("cache" \in mode.faults /\ Skip(wpc[w] = "post"))
        /\ UNCHANGED pending
     \/ /\ mode.clearing = "detached"
        /\ pending' = [pending EXCEPT ![w] = @ + 1]
        /\ UNCHANGED <<entry, overtaken, late, lost>>
     \/ /\ mode.clearing = "never"
        /\ Skip(wpc[w] = "post")
        /\ UNCHANGED pending
  /\ UNCHANGED <<mode, version, rpc, got>>

\* A bug: the update fires no hook after it.
Write_Unhooked(w) ==
  /\ wpc[w] = "write"
  /\ version' = version + 1
  /\ wpc' = [wpc EXCEPT ![w] = "done"]
  /\ UNCHANGED <<mode, entry, reads, pending, late, lost>>

\* There is no hook after a write that failed, or that matched nothing.
Write(w) ==
  /\ wpc[w] = "write"
  /\ \/ version' = version + 1 /\ wpc' = [wpc EXCEPT ![w] = "post"]
     \/ "db" \in mode.faults /\ wpc' = [wpc EXCEPT ![w] = "done"] /\ UNCHANGED version
  /\ UNCHANGED <<mode, entry, reads, pending, late, lost>>

\* A deletion nobody awaits reaches the cache.
Arrive(w) ==
  /\ pending[w] > 0
  /\ pending' = [pending EXCEPT ![w] = @ - 1]
  /\ Delete \/ ("cache" \in mode.faults /\ Skip(wpc[w] = "done"))
  /\ UNCHANGED <<mode, version, rpc, got, wpc>>

\* The last deletion of a write that may have changed a document is to come.
Outstanding(w) == wpc[w] = "post" \/ (wpc[w] = "done" /\ pending[w] > 0)

\* The server of the writers stops, with its cache or with some readers.
Crash ==
  /\ "crash" \in mode.faults
  /\ wpc' = [w \in Writers |-> IF wpc[w] = "idle" THEN "idle" ELSE "done"]
  /\ pending' = [w \in Writers |-> 0]
  /\ lost' = (lost \/ \E w \in Writers : Outstanding(w))
  /\ \E stopped \in SUBSET Readers :
       /\ mode.store = "memory" => stopped = Readers
       /\ rpc' = [r \in Readers |-> IF r \in stopped THEN "idle" ELSE rpc[r]]
       /\ got' = [r \in Readers |-> IF r \in stopped THEN 0 ELSE got[r]]
       /\ overtaken' = overtaken \ stopped
  /\ IF mode.store = "memory" THEN entry' = NoEntry /\ late' = FALSE
                              ELSE UNCHANGED <<entry, late>>
  /\ UNCHANGED <<mode, version>>

-----------------------------------------------------------------------------

ReaderStep(r) == Query(r) \/ Set(r)

WriterStep(w) == Clear(w) \/ Write(w)

CacheNext ==
  \/ \E r \in Readers : Get(r) \/ ReaderStep(r)
  \/ \E w \in Writers : StartWrite(w) \/ WriterStep(w) \/ Arrive(w)
  \/ Expire
  \/ Crash

CacheSpec == CacheInit /\ [][CacheNext]_cacheVars

\* Calls that were made settle, and entries expire.
FairCacheSpec ==
  /\ CacheSpec
  /\ \A r \in Readers : WF_cacheVars(ReaderStep(r))
  /\ \A w \in Writers : WF_cacheVars(WriterStep(w)) /\ WF_cacheVars(Arrive(w))
  /\ WF_cacheVars(Expire)

-----------------------------------------------------------------------------
(* Properties.                                                             *)

CacheTypeOK ==
  /\ mode \in Modes
  /\ version \in Nat
  /\ entry \in Nat \cup {NoEntry}
  /\ rpc \in [Readers -> {"idle", "query", "set"}]
  /\ got \in [Readers -> Nat]
  /\ wpc \in [Writers -> {"idle", "write", "done"} \cup Hooked]
  /\ pending \in [Writers -> Nat]
  /\ overtaken \in SUBSET Readers
  /\ late \in BOOLEAN
  /\ lost \in BOOLEAN

\* What is cached is what the database has, except until the last deletion of
\* a write, when that one was lost, or when a deletion came between the query
\* of a read and its storing (Cacheable, the listeners of hook:setting:*,
\* hook:role:*, hook:permission:*, hook:menu:*, hook:nlpEntity:* and
\* hook:nlpValue:*).
StaleOnlyIfRaced ==
  entry # NoEntry /\ entry # version =>
    late \/ lost \/ \E w \in Writers : Outstanding(w)

\* Whatever was raced, lost or never deleted, once the documents stay as they
\* are the cache comes to show them: the time to live of an entry is not
\* renewed by reads (Cacheable, CACHE_TTL).
Freshens == <>[](entry # NoEntry => entry = version)

=============================================================================
