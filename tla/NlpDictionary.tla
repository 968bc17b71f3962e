---------------------------- MODULE NlpDictionary ----------------------------
(***************************************************************************)
(* The NLP entities with their values, the annotations of the training     *)
(* samples that refer to both, and the copy of the entities that the NLU   *)
(* engine keeps: the requests of the nlp controllers, with the listeners   *)
(* of NlpService on the hooks of the repositories.                         *)
(*                                                                         *)
(* One action is one database or engine call.  Ids are not used again, and *)
(* so are names and texts here: NoReuse is a bound.  What the engine knows *)
(* of the values is left out, and so are synonyms, positions in a text and *)
(* updates of an entity, a foreign_id written by hand among them.          *)
(***************************************************************************)
CONSTANTS
  Entities, Shipped, \* ids, and those of the entities shipped with the API
  Values, Samples, Reqs,
  None,  \* no value, no sample, no entity
  Modes  \* the circumstances: overlap (of requests), faults: "engine", "crash"

ASSUME DictionaryAssumption ==
  /\ Shipped \subseteq Entities
  /\ Entities \cap Values = {}
  /\ None \notin Entities \cup Values \cup Samples
  /\ Modes \subseteq [overlap : BOOLEAN, faults : SUBSET {"engine", "crash"}]

VARIABLES
  mode,      \* the circumstances of this behaviour
  here,      \* the entities collection
  goneIds,   \* the entities and values that were deleted
  builtin,   \* the entities and values marked so, which no query deletes
  values,    \* the values collection
  owner,     \* owner[v]: the entity of v, also when v is deleted
  notes,     \* the annotations, the nlpsampleentities collection
  foreign,   \* the entities that have a foreign_id
  engine,    \* the entities the engine knows
  pc, op,    \* where a request is, and what it asks for
  todo,      \* the copies of entities whose deletion the engine is still to be told
  astray     \* history: saved while what it refers to was deleted, or left by that

dictionary == <<here, goneIds, builtin, values, owner, notes>>
mirror == <<foreign, engine>>
vars == <<mode, dictionary, mirror, pc, op, todo, astray>>

Notes == [sample : Samples, entity : Entities, value : Values]

NoOp == [kind |-> "none", ids |-> {}, value |-> None, sample |-> None]

Requests == [kind : {"entity", "value", "patch", "annotate", "deleteEntity", "deleteValue", "none"},
             ids : SUBSET Entities, value : Values \cup {None}, sample : Samples \cup {None}]

Init ==
  /\ mode \in Modes
  /\ here = Shipped
  /\ goneIds = {}
  /\ builtin = Shipped
  /\ values = {}
  /\ owner = [v \in Values |-> None]
  /\ notes = {}
  /\ foreign = {}
  /\ engine = {}
  /\ pc = [r \in Reqs |-> "idle"]
  /\ op = [r \in Reqs |-> NoOp]
  /\ todo = [r \in Reqs |-> {}]
  /\ astray = {}

At(r, l) == pc[r] = l
Goto(r, l) == pc' = [pc EXCEPT ![r] = l] /\ UNCHANGED op

Answer(r) ==
  /\ pc' = [pc EXCEPT ![r] = "idle"]
  /\ op' = [op EXCEPT ![r] = NoOp]

\* The one entity of a request that creates, moves or annotates.
Names(r, e) == op[r].ids = {e}

\* Deletions whose cascade has removed the values, or annotations, already.
PastValues == {"notes", "find", "engine", "remove"}
PastNotes == {"find", "engine", "remove"}

Doomed(e, past) == e \notin here \/ \E q \in Reqs : pc[q] \in past /\ e \in op[q].ids

DoomedValue(v) == v \notin values \/ \E q \in Reqs : At(q, "removeValue") /\ op[q].value = v

-----------------------------------------------------------------------------
(* The requests.                                                           *)

Send(r, kind, ids, v, s, first) ==
  /\ At(r, "idle")
  /\ mode.overlap \/ \A q \in Reqs : At(q, "idle")
  /\ pc' = [pc EXCEPT ![r] = first]
  /\ op' = [op EXCEPT ![r] = [kind |-> kind, ids |-> ids, value |-> v, sample |-> s]]
  /\ UNCHANGED <<mode, dictionary, mirror, todo, astray>>

FreshEntities == Entities \ (here \cup goneIds)
FreshValues == Values \ (values \cup goneIds)

PostEntity(r) == \E e \in FreshEntities : Send(r, "entity", {e}, None, None, "insertEntity")

PostValue(r) ==
  \E e \in Entities, v \in FreshValues : Send(r, "value", {e}, v, None, "checkEntity")

\* A value may be given to another entity, which is checked if it is named at all.
PatchValue(r) ==
  \E ids \in {{}} \cup {{e} : e \in Entities}, v \in values :
    Send(r, "patch", ids, v, None, "checkEntity")

\* POST or PATCH of a sample annotated with a name and a text, each new or not.
SaveSample(r) ==
  \E e \in Entities \ goneIds, v \in Values \ goneIds, s \in Samples :
    Send(r, "annotate", {e}, v, s, "clear")

\* The controller refuses to delete one entity that is built in, but does not look
\* at the entities of a deletion of many.
DeleteEntities(r) ==
  \E ids \in (SUBSET here) \ {{}} : Send(r, "deleteEntity", ids, None, None, "values")

DeleteValue(r) == \E v \in values : Send(r, "deleteValue", {}, v, None, "valueNotes")

-----------------------------------------------------------------------------
(* Saving entities, values and annotations.                                *)

CheckEntity(r) ==
  /\ At(r, "checkEntity")
  /\ IF op[r].ids \subseteq here
     THEN Goto(r, IF op[r].kind = "value" THEN "insertValue" ELSE "patch")
     ELSE Answer(r)
  /\ UNCHANGED <<mode, dictionary, mirror, todo, astray>>

\* The name is unique: of two creations the second throws.  An entity that is
\* posted as built in is not added to the engine.
InsertEntity(r) ==
  /\ At(r, "insertEntity")
  /\ \E e \in Entities \ goneIds :
       /\ Names(r, e)
       /\ here' = here \cup {e}
       /\ \/ e \in here /\ UNCHANGED builtin /\ Answer(r)
          \/ e \notin here /\ UNCHANGED builtin /\ Goto(r, "addEntity")
          \/ /\ e \notin here /\ op[r].kind = "entity"
             /\ builtin' = builtin \cup {e}
             /\ Answer(r)
  /\ UNCHANGED <<mode, goneIds, values, owner, notes, mirror, todo, astray>>

\* After the listener of the creation: the response, or the rest of a sample.
Created(r) == IF op[r].kind = "annotate" THEN Goto(r, "entities") ELSE Answer(r)

\* addEntity() of the engine; if it fails, the entity stays without an id of the
\* engine, whatever the engine did.
AddEntity(r) ==
  /\ At(r, "addEntity")
  /\ \E e \in Entities :
       /\ Names(r, e)
       /\ \/ engine' = engine \cup {e} /\ Goto(r, "storeId")
          \/ /\ "engine" \in mode.faults
             /\ engine' \in {engine, engine \cup {e}}
             /\ Created(r)
  /\ UNCHANGED <<mode, dictionary, foreign, todo, astray>>

\* A bug: the id of the engine is not stored.
StoreId_Dropped(r) ==
  /\ At(r, "storeId")
  /\ Created(r)
  /\ UNCHANGED <<mode, dictionary, mirror, todo, astray>>

StoreId(r) ==
  /\ At(r, "storeId")
  /\ foreign' = foreign \cup (op[r].ids \cap here)
  /\ Created(r)
  /\ UNCHANGED <<mode, dictionary, engine, todo, astray>>

InsertValue(r) ==
  /\ At(r, "insertValue") /\ op[r].value \notin goneIds
  /\ \E e \in Entities : Names(r, e) /\
       IF op[r].value \in values
       THEN UNCHANGED <<builtin, values, owner, astray>> /\ Answer(r)
       ELSE /\ \/ UNCHANGED builtin
               \/ op[r].kind = "value" /\ builtin' = builtin \cup {op[r].value}
            /\ values' = values \cup {op[r].value}
            /\ owner' = [owner EXCEPT ![op[r].value] = e]
            /\ astray' = IF Doomed(e, PastValues) THEN astray \cup {op[r].value} ELSE astray
            /\ IF op[r].kind = "annotate" THEN Goto(r, "synonyms") ELSE Answer(r)
  /\ UNCHANGED <<mode, here, goneIds, notes, mirror, todo>>

\* An update writes the fields it has: the entity, whether it is built in, others.
UpdateValue(r) ==
  /\ At(r, "patch")
  /\ IF op[r].value \in values
     THEN /\ builtin' \in {builtin, builtin \cup {op[r].value}, builtin \ {op[r].value}}
          /\ \/ op[r].ids = {} /\ UNCHANGED <<owner, astray>>
             \/ \E e \in Entities :
                  /\ Names(r, e)
                  /\ owner' = [owner EXCEPT ![op[r].value] = e]
                  /\ astray' = IF Doomed(e, PastValues) THEN astray \cup {op[r].value} ELSE astray
     ELSE UNCHANGED <<builtin, owner, astray>>
  /\ Answer(r)
  /\ UNCHANGED <<mode, here, goneIds, values, notes, mirror, todo>>

\* A sample that is saved again loses its annotations first.
ClearSample(r) ==
  /\ At(r, "clear")
  /\ notes' = {n \in notes : n.sample # op[r].sample}
  /\ Goto(r, "findEntity")
  /\ UNCHANGED <<mode, here, goneIds, builtin, values, owner, mirror, todo, astray>>

FindEntity(r) ==
  /\ At(r, "findEntity")
  /\ Goto(r, IF op[r].ids \subseteq here THEN "entities" ELSE "insertEntity")
  /\ UNCHANGED <<mode, dictionary, mirror, todo, astray>>

\* storeValues() looks for the entities again, and throws if one is gone.
FindEntities(r) ==
  /\ At(r, "entities")
  /\ IF op[r].ids \subseteq here THEN Goto(r, "findValue") ELSE Answer(r)
  /\ UNCHANGED <<mode, dictionary, mirror, todo, astray>>

\* The value is looked for by its text, whatever entity it belongs to.
FindValue(r) ==
  /\ At(r, "findValue")
  /\ Goto(r, IF op[r].value \in values THEN "synonyms" ELSE "insertValue")
  /\ UNCHANGED <<mode, dictionary, mirror, todo, astray>>

UpdateSynonyms(r) ==
  /\ At(r, "synonyms")
  /\ IF op[r].value \in values THEN Goto(r, "annotate") ELSE Answer(r)
  /\ UNCHANGED <<mode, dictionary, mirror, todo, astray>>

Annotate(r) ==
  /\ At(r, "annotate")
  /\ \E n \in Notes :
       /\ Names(r, n.entity) /\ n.value = op[r].value /\ n.sample = op[r].sample
       /\ notes' = notes \cup {n}
       /\ astray' = IF Doomed(n.entity, PastNotes) \/ DoomedValue(n.value)
                   THEN astray \cup {n} ELSE astray
  /\ Answer(r)
  /\ UNCHANGED <<mode, here, goneIds, builtin, values, owner, mirror, todo>>

-----------------------------------------------------------------------------
(* Deletions: the cascades run before the document is removed.  No query   *)
(* deletes a document that is built in.                                    *)

\* The values' own listener does nothing then.
CascadeValues(r) ==
  /\ At(r, "values")
  /\ LET vs == {v \in values : owner[v] \in op[r].ids}
     IN  /\ values' = values \ (vs \ builtin)
         /\ goneIds' = goneIds \cup (vs \ builtin)
         /\ astray' = astray \cup (vs \cap builtin)
  /\ Goto(r, "notes")
  /\ UNCHANGED <<mode, here, builtin, owner, notes, mirror, todo>>

\* A bug: only annotations whose value is gone, too, are removed.
CascadeNotes_OfItsValues(r) ==
  /\ At(r, "notes")
  /\ notes' = {n \in notes : ~(n.entity \in op[r].ids /\ owner[n.value] = n.entity)}
  /\ Goto(r, "find")
  /\ UNCHANGED <<mode, here, goneIds, builtin, values, owner, mirror, todo, astray>>

CascadeNotes(r) ==
  /\ At(r, "notes")
  /\ notes' = {n \in notes : n.entity \notin op[r].ids}
  /\ Goto(r, "find")
  /\ UNCHANGED <<mode, here, goneIds, builtin, values, owner, mirror, todo, astray>>

Creating(e) == \E q \in Reqs : pc[q] \in {"addEntity", "storeId"} /\ Names(q, e)

\* The copies it finds have the foreign_id that is stored now: one without is an
\* error, which is logged, whatever is stored before the engine is called.
FindDeleted(r) ==
  /\ At(r, "find")
  /\ LET found == (op[r].ids \cap here) \ builtin
     IN  /\ todo' = [todo EXCEPT ![r] = found \cap foreign]
         /\ astray' = astray \cup {e \in found \ foreign : Creating(e)}
  /\ Goto(r, "engine")
  /\ UNCHANGED <<mode, dictionary, mirror>>

\* deleteEntity() of the engine with the id of the copy, which may fail.
TellEngine(r) ==
  /\ At(r, "engine")
  /\ \E e \in todo[r] :
       /\ todo' = [todo EXCEPT ![r] = @ \ {e}]
       /\ engine' = engine \ {e} \/ ("engine" \in mode.faults /\ UNCHANGED engine)
  /\ UNCHANGED <<mode, dictionary, foreign, pc, op, astray>>

Told(r) ==
  /\ At(r, "engine") /\ todo[r] = {}
  /\ Goto(r, "remove")
  /\ UNCHANGED <<mode, dictionary, mirror, todo, astray>>

\* Entities that are built in stay, without the values and annotations they had.
RemoveEntities(r) ==
  /\ At(r, "remove")
  /\ LET es == (op[r].ids \cap here) \ builtin
     IN  here' = here \ es /\ goneIds' = goneIds \cup es /\ foreign' = foreign \ es
  /\ Answer(r)
  /\ UNCHANGED <<mode, builtin, values, owner, notes, engine, todo, astray>>

\* The engine is told, too; what it knows of values is left out.
CascadeValueNotes(r) ==
  /\ At(r, "valueNotes")
  /\ notes' = {n \in notes : n.value # op[r].value}
  /\ Goto(r, "removeValue")
  /\ UNCHANGED <<mode, here, goneIds, builtin, values, owner, mirror, todo, astray>>

\* A value that is built in stays, without its annotations.
RemoveValue(r) ==
  /\ At(r, "removeValue")
  /\ LET vs == {op[r].value} \ builtin
     IN  values' = values \ vs /\ goneIds' = goneIds \cup vs
  /\ Answer(r)
  /\ UNCHANGED <<mode, here, builtin, owner, notes, mirror, todo, astray>>

-----------------------------------------------------------------------------

\* The server stops with the requests it was serving.
Crash ==
  /\ "crash" \in mode.faults
  /\ pc' = [r \in Reqs |-> "idle"]
  /\ op' = [r \in Reqs |-> NoOp]
  /\ todo' = [r \in Reqs |-> {}]
  /\ UNCHANGED <<mode, dictionary, mirror, astray>>

Request(r) ==
  \/ PostEntity(r) \/ PostValue(r) \/ PatchValue(r) \/ SaveSample(r)
  \/ DeleteEntities(r) \/ DeleteValue(r)

Step(r) ==
  \/ CheckEntity(r) \/ InsertEntity(r) \/ AddEntity(r) \/ StoreId(r)
  \/ InsertValue(r) \/ UpdateValue(r)
  \/ ClearSample(r) \/ FindEntity(r) \/ FindEntities(r) \/ FindValue(r)
  \/ UpdateSynonyms(r) \/ Annotate(r)
  \/ CascadeValues(r) \/ CascadeNotes(r) \/ FindDeleted(r)
  \/ TellEngine(r) \/ Told(r) \/ RemoveEntities(r)
  \/ CascadeValueNotes(r) \/ RemoveValue(r)

Next == (\E r \in Reqs : Request(r) \/ Step(r)) \/ Crash

Spec == Init /\ [][Next]_vars

-----------------------------------------------------------------------------
(* Properties.                                                             *)

Steps == {"idle", "checkEntity", "insertEntity", "addEntity", "storeId", "insertValue", "patch",
          "clear", "findEntity", "entities", "findValue", "synonyms", "annotate", "values",
          "notes", "find", "engine", "remove", "valueNotes", "removeValue"}

TypeOK ==
  /\ mode \in Modes
  /\ here \in SUBSET Entities
  /\ goneIds \in SUBSET (Entities \cup Values)
  /\ builtin \in SUBSET (Entities \cup Values)
  /\ values \in SUBSET Values
  /\ owner \in [Values -> Entities \cup {None}]
  /\ notes \in SUBSET Notes
  /\ foreign \in SUBSET Entities
  /\ engine \in SUBSET Entities
  /\ pc \in [Reqs -> Steps]
  /\ op \in [Reqs -> Requests]
  /\ todo \in [Reqs -> SUBSET Entities]
  /\ astray \in SUBSET (Entities \cup Values \cup Notes)

OwnersExist == \A v \in values \ astray : owner[v] \in here

EntitiesOfNotesExist == \A n \in notes \ astray : n.entity \in here

\* The deletion of an entity removes its values before its annotations.
Cascading(e) == \E q \in Reqs : At(q, "notes") /\ e \in op[q].ids

ValuesOfNotesExist ==
  "crash" \notin mode.faults =>
    \A n \in notes \ astray : \/ n.value \in values
                             \/ owner[n.value] # n.entity
                             \/ Cascading(n.entity)

\* A value belongs to an entity that exists and an annotation is of an entity
\* and of a value that exist, also while requests overlap and after a crash,
\* with four exceptions: what was saved while its entity or value was being
\* deleted; values that are built in, which stay when their entity is deleted;
\* annotations with the value of another entity, which the deletion of that one
\* removes; and annotations whose entity is half deleted
\* (NlpService.handleEntityDelete, handleValueDelete, storeSampleEntities).
ReferencesResolve == OwnersExist /\ EntitiesOfNotesExist /\ ValuesOfNotesExist

\* Whenever all requests are answered and no crash cut one off, the engine knows
\* the entities that have a foreign_id, and if it never failed it knows exactly
\* those that exist and are not built in, but for entities whose deletion read
\* them before their creation had stored the id
\* (NlpService.handleEntityPostCreate, handleEntityDelete).
MirrorAgrees ==
  (\A r \in Reqs : At(r, "idle")) /\ "crash" \notin mode.faults =>
    \A e \in Entities \ astray :
      /\ e \in foreign => e \in engine
      /\ mode.faults = {} => (e \in engine <=> e \in here \ builtin)

=============================================================================
