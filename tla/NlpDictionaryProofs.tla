------------------------- MODULE NlpDictionaryProofs -------------------------
(***************************************************************************)
(* Proofs about NlpDictionary, for any number of overlapping requests:     *)
(* what a deletion still has to rely on is that nothing refers any more to *)
(* what its cascade has passed, except what was saved meanwhile; and the   *)
(* NLU engine is ahead of the entities stored here, or behind them, only   *)
(* by those that a request is creating or deleting.                        *)
(***************************************************************************)
EXTENDS NlpDictionary, TLAPS

USE DictionaryAssumption

-----------------------------------------------------------------------------
(* Type correctness.                                                       *)

ValueSteps == {"checkEntity", "insertValue", "patch", "clear", "findEntity", "entities",
               "findValue", "synonyms", "annotate", "valueNotes", "removeValue"}

\* A request that gets to a value names one.
HasValue ==
  \A r \in Reqs : pc[r] \in ValueSteps \/ op[r].kind = "annotate" => op[r].value \in Values

LEMMA NoOpTyped == NoOp \in Requests
BY DEF NoOp, Requests

LEMMA AnswerTyped ==
  ASSUME TypeOK, HasValue, NEW r \in Reqs, Answer(r)
  PROVE  pc' \in [Reqs -> Steps] /\ op' \in [Reqs -> Requests] /\ HasValue'
<1>1. pc' \in [Reqs -> Steps] /\ op' \in [Reqs -> Requests]
  BY NoOpTyped DEF Answer, TypeOK, Steps
<1>2. HasValue'
  BY DEF Answer, TypeOK, HasValue, ValueSteps, NoOp
<1> QED BY <1>1, <1>2

LEMMA GotoTyped ==
  ASSUME TypeOK, HasValue, NEW r \in Reqs, NEW l \in Steps, Goto(r, l),
         pc[r] \in ValueSteps \/ op[r].kind = "annotate" \/ l \notin ValueSteps
  PROVE  pc' \in [Reqs -> Steps] /\ op' \in [Reqs -> Requests] /\ HasValue'
<1>1. pc' \in [Reqs -> Steps] /\ op' \in [Reqs -> Requests]
  BY DEF Goto, TypeOK
<1>2. HasValue'
  BY DEF Goto, TypeOK, HasValue
<1> QED BY <1>1, <1>2

LEMMA CreatedTyped ==
  ASSUME TypeOK, HasValue, NEW r \in Reqs, Created(r)
  PROVE  pc' \in [Reqs -> Steps] /\ op' \in [Reqs -> Requests] /\ HasValue'
BY AnswerTyped, GotoTyped DEF Created, Steps

LEMMA SendTyped ==
  ASSUME TypeOK, HasValue, NEW r \in Reqs,
         NEW kind \in {"entity", "value", "patch", "annotate", "deleteEntity", "deleteValue"},
         NEW ids \in SUBSET Entities, NEW v \in Values \cup {None}, NEW s \in Samples \cup {None},
         NEW l \in Steps, Send(r, kind, ids, v, s, l),
         kind = "annotate" \/ l \in ValueSteps => v \in Values
  PROVE  TypeOK' /\ HasValue'
<1> DEFINE o == [kind |-> kind, ids |-> ids, value |-> v, sample |-> s]
<1>1. o \in Requests
  BY DEF Requests
<1>2. pc' \in [Reqs -> Steps] /\ op' \in [Reqs -> Requests]
  BY <1>1 DEF Send, TypeOK
<1>3. HasValue'
  <2> SUFFICES ASSUME NEW q \in Reqs, pc'[q] \in ValueSteps \/ op'[q].kind = "annotate"
               PROVE  op'[q].value \in Values
    BY DEF HasValue
  <2>1. CASE q = r
    <3>1. op'[q] = o /\ pc'[q] = l
      BY <2>1 DEF Send, TypeOK
    <3> QED BY <3>1
  <2>2. CASE q # r
    BY <2>2 DEF Send, TypeOK, HasValue
  <2> QED BY <2>1, <2>2
<1> QED BY <1>2, <1>3 DEF Send, TypeOK, dictionary, mirror

LEMMA RequestTyped ==
  ASSUME TypeOK, HasValue, NEW r \in Reqs, Request(r)
  PROVE  TypeOK' /\ HasValue'
<1> USE DEF Steps
<1>1. CASE PostEntity(r)
  <2>1. PICK e \in Entities : Send(r, "entity", {e}, None, None, "insertEntity")
    BY <1>1 DEF PostEntity, FreshEntities
  <2> QED BY <2>1, SendTyped DEF ValueSteps
<1>2. CASE PostValue(r)
  <2>1. PICK e \in Entities, v \in Values : Send(r, "value", {e}, v, None, "checkEntity")
    BY <1>2 DEF PostValue, FreshValues
  <2> QED BY <2>1, SendTyped
<1>3. CASE PatchValue(r)
  <2>1. PICK ids \in SUBSET Entities, v \in Values : Send(r, "patch", ids, v, None, "checkEntity")
    BY <1>3 DEF PatchValue, TypeOK
  <2> QED BY <2>1, SendTyped
<1>4. CASE SaveSample(r)
  <2>1. PICK e \in Entities, v \in Values, s \in Samples : Send(r, "annotate", {e}, v, s, "clear")
    BY <1>4 DEF SaveSample
  <2> QED BY <2>1, SendTyped
<1>5. CASE DeleteEntities(r)
  <2>1. PICK ids \in SUBSET Entities : Send(r, "deleteEntity", ids, None, None, "values")
    BY <1>5 DEF DeleteEntities, TypeOK
  <2> QED BY <2>1, SendTyped DEF ValueSteps
<1>6. CASE DeleteValue(r)
  <2>1. PICK v \in Values : Send(r, "deleteValue", {}, v, None, "valueNotes")
    BY <1>6 DEF DeleteValue, TypeOK
  <2> QED BY <2>1, SendTyped
<1> QED BY <1>1, <1>2, <1>3, <1>4, <1>5, <1>6 DEF Request

LEMMA StepTyped ==
  ASSUME TypeOK, HasValue, NEW r \in Reqs, Step(r)
  PROVE  TypeOK' /\ HasValue'
<1> DEFINE Moved == pc' \in [Reqs -> Steps] /\ op' \in [Reqs -> Requests] /\ HasValue'
<1> USE DEF At, dictionary, mirror
<1>v. pc[r] \in ValueSteps => op[r].value \in Values
  BY DEF HasValue
<1>o. op[r].ids \in SUBSET Entities
  BY DEF TypeOK, Requests
<1>1. CASE CheckEntity(r)
  BY <1>1, AnswerTyped, GotoTyped DEF CheckEntity, Steps, ValueSteps, TypeOK
<1>2. CASE InsertEntity(r)
  <2>1. Moved
    BY <1>2, AnswerTyped, GotoTyped DEF InsertEntity, Steps, ValueSteps
  <2> QED BY <1>2, <2>1 DEF InsertEntity, TypeOK
<1>3. CASE AddEntity(r)
  <2>1. Moved
    BY <1>3, CreatedTyped, GotoTyped DEF AddEntity, Steps, ValueSteps
  <2> QED BY <1>3, <2>1 DEF AddEntity, TypeOK
<1>4. CASE StoreId(r)
  <2>1. Moved
    BY <1>4, CreatedTyped DEF StoreId
  <2> QED BY <1>4, <2>1 DEF StoreId, TypeOK
<1>5. CASE InsertValue(r)
  <2>1. Moved
    BY <1>5, AnswerTyped, GotoTyped DEF InsertValue, Steps, ValueSteps
  <2>2. op[r].value \in Values
    BY <1>5, <1>v DEF InsertValue, ValueSteps
  <2>3. values' \in SUBSET Values /\ owner' \in [Values -> Entities \cup {None}]
    BY <1>5, <2>2 DEF InsertValue, TypeOK
  <2>4. /\ astray' \in SUBSET (Entities \cup Values \cup Notes)
        /\ builtin' \in SUBSET (Entities \cup Values)
    BY <1>5, <2>2 DEF InsertValue, TypeOK
  <2> QED BY <1>5, <2>1, <2>3, <2>4 DEF InsertValue, TypeOK
<1>6. CASE UpdateValue(r)
  <2>1. Moved
    BY <1>6, AnswerTyped DEF UpdateValue
  <2>2. owner' \in [Values -> Entities \cup {None}]
    BY <1>6 DEF UpdateValue, TypeOK
  <2>3. op[r].value \in Values
    BY <1>6, <1>v DEF UpdateValue, ValueSteps
  <2>4. /\ astray' \in SUBSET (Entities \cup Values \cup Notes)
        /\ builtin' \in SUBSET (Entities \cup Values)
    BY <1>6, <2>3 DEF UpdateValue, TypeOK
  <2> QED BY <1>6, <2>1, <2>2, <2>4 DEF UpdateValue, TypeOK
<1>7. CASE ClearSample(r)
  <2>1. Moved
    BY <1>7, GotoTyped DEF ClearSample, Steps, ValueSteps
  <2> QED BY <1>7, <2>1 DEF ClearSample, TypeOK
<1>8. CASE FindEntity(r)
  BY <1>8, GotoTyped DEF FindEntity, Steps, ValueSteps, TypeOK
<1>9. CASE FindEntities(r)
  BY <1>9, AnswerTyped, GotoTyped DEF FindEntities, Steps, ValueSteps, TypeOK
<1>10. CASE FindValue(r)
  BY <1>10, GotoTyped DEF FindValue, Steps, ValueSteps, TypeOK
<1>11. CASE UpdateSynonyms(r)
  BY <1>11, AnswerTyped, GotoTyped DEF UpdateSynonyms, Steps, ValueSteps, TypeOK
<1>12. CASE Annotate(r)
  <2>1. Moved
    BY <1>12, AnswerTyped DEF Annotate
  <2>2. notes' \in SUBSET Notes /\ astray' \in SUBSET (Entities \cup Values \cup Notes)
    BY <1>12 DEF Annotate, TypeOK
  <2> QED BY <1>12, <2>1, <2>2 DEF Annotate, TypeOK
<1>13. CASE CascadeValues(r)
  <2>1. Moved
    BY <1>13, GotoTyped DEF CascadeValues, Steps, ValueSteps
  <2> QED BY <1>13, <2>1 DEF CascadeValues, TypeOK
<1>14. CASE CascadeNotes(r)
  <2>1. Moved
    BY <1>14, GotoTyped DEF CascadeNotes, Steps, ValueSteps
  <2> QED BY <1>14, <2>1 DEF CascadeNotes, TypeOK
<1>15. CASE FindDeleted(r)
  <2>1. Moved
    BY <1>15, GotoTyped DEF FindDeleted, Steps, ValueSteps
  <2>2. todo' \in [Reqs -> SUBSET Entities]
    BY <1>15, <1>o DEF FindDeleted, TypeOK
  <2>3. astray' \in SUBSET (Entities \cup Values \cup Notes)
    BY <1>15, <1>o DEF FindDeleted, TypeOK
  <2> QED BY <1>15, <2>1, <2>2, <2>3 DEF FindDeleted, TypeOK
<1>16. CASE TellEngine(r)
  <2>1. Moved
    BY <1>16 DEF TellEngine, TypeOK, HasValue
  <2>2. PICK e \in todo[r] : /\ todo' = [todo EXCEPT ![r] = @ \ {e}]
                             /\ engine' = engine \ {e} \/ engine' = engine
    BY <1>16 DEF TellEngine
  <2>3. e \in Entities
    BY DEF TypeOK
  <2>4. todo' \in [Reqs -> SUBSET Entities]
    BY <2>2 DEF TypeOK
  <2>5. engine' \in SUBSET Entities
    BY <2>2 DEF TypeOK
  <2> QED BY <1>16, <2>1, <2>4, <2>5 DEF TellEngine, TypeOK
<1>17. CASE Told(r)
  BY <1>17, GotoTyped DEF Told, Steps, ValueSteps, TypeOK
<1>18. CASE RemoveEntities(r)
  <2>1. Moved
    BY <1>18, AnswerTyped DEF RemoveEntities
  <2> QED BY <1>18, <2>1 DEF RemoveEntities, TypeOK
<1>19. CASE CascadeValueNotes(r)
  <2>1. Moved
    BY <1>19, GotoTyped DEF CascadeValueNotes, Steps, ValueSteps
  <2> QED BY <1>19, <2>1 DEF CascadeValueNotes, TypeOK
<1>20. CASE RemoveValue(r)
  <2>1. Moved
    BY <1>20, AnswerTyped DEF RemoveValue
  <2>2. op[r].value \in Values
    BY <1>20, <1>v DEF RemoveValue, ValueSteps
  <2> QED BY <1>20, <2>1, <2>2 DEF RemoveValue, TypeOK
<1> QED BY <1>1, <1>2, <1>3, <1>4, <1>5, <1>6, <1>7, <1>8, <1>9, <1>10, <1>11, <1>12, <1>13,
           <1>14, <1>15, <1>16, <1>17, <1>18, <1>19, <1>20 DEF Step

\* The collections, what the engine knows and what a request is about stay
\* within their types: a request that stores or deletes a value names one.
THEOREM TypeCorrect == Spec => [](TypeOK /\ HasValue)
<1>1. Init => TypeOK /\ HasValue
  <2> SUFFICES ASSUME Init PROVE TypeOK /\ HasValue
    OBVIOUS
  <2>1. TypeOK
    BY NoOpTyped DEF Init, TypeOK, Steps
  <2>2. HasValue
    BY DEF Init, HasValue, ValueSteps, NoOp
  <2> QED BY <2>1, <2>2
<1>2. TypeOK /\ HasValue /\ [Next]_vars => (TypeOK /\ HasValue)'
  <2> SUFFICES ASSUME TypeOK, HasValue, [Next]_vars PROVE TypeOK' /\ HasValue'
    OBVIOUS
  <2>1. CASE Crash
    <3>1. pc' \in [Reqs -> Steps] /\ op' \in [Reqs -> Requests] /\ todo' \in [Reqs -> SUBSET Entities]
      BY <2>1, NoOpTyped DEF Crash, Steps
    <3>2. HasValue'
      BY <2>1 DEF Crash, HasValue, ValueSteps, NoOp
    <3> QED BY <2>1, <3>1, <3>2 DEF Crash, TypeOK, dictionary, mirror
  <2>2. CASE UNCHANGED vars
    BY <2>2 DEF vars, dictionary, mirror, TypeOK, HasValue
  <2> QED BY <2>1, <2>2, RequestTyped, StepTyped DEF Next
<1> QED BY <1>1, <1>2, PTL DEF Spec

-----------------------------------------------------------------------------
(* References.                                                             *)

\* Behind a cascade only what was saved meanwhile, or is built in, refers to what
\* it removed.
ValuesPassed ==
  \A q \in Reqs : pc[q] \in PastValues =>
    \A v \in values : owner[v] \in op[q].ids => v \in astray

NotesPassed ==
  \A q \in Reqs : pc[q] \in PastNotes =>
    \A n \in notes : n.entity \in op[q].ids => n \in astray

ValueNotesPassed ==
  \A q \in Reqs : pc[q] = "removeValue" =>
    \A n \in notes : n.value = op[q].value => n \in astray

\* An annotation is made of a value that was created.
Known == values \cup goneIds

NotesKnown ==
  /\ \A n \in notes : n.value \in Known
  /\ \A q \in Reqs : pc[q] = "annotate" => op[q].value \in Known

Inv ==
  /\ OwnersExist /\ EntitiesOfNotesExist /\ ValuesOfNotesExist
  /\ ValuesPassed /\ NotesPassed /\ ValueNotesPassed /\ NotesKnown

\* Steps that store and delete no value and no entity: they may remove
\* annotations, create an entity and move on in a request.
LEMMA QuietStep ==
  ASSUME TypeOK, Inv, NEW r \in Reqs,
         UNCHANGED <<mode, values, owner, goneIds>>,
         here \subseteq here', notes' \subseteq notes, astray \subseteq astray',
         \A q \in Reqs \ {r} : pc'[q] = pc[q] /\ op'[q] = op[q],
         pc[r] # "notes",
         pc'[r] \in PastValues => pc[r] \in PastValues /\ op'[r] = op[r],
         pc'[r] \in PastNotes => pc[r] \in PastNotes /\ op'[r] = op[r],
         pc'[r] # "removeValue",
         pc'[r] = "annotate" => op'[r].value \in Known
  PROVE  Inv'
<1>1. OwnersExist' /\ EntitiesOfNotesExist'
  BY DEF Inv, OwnersExist, EntitiesOfNotesExist
<1>2. ValuesOfNotesExist'
  <2>1. \A e : Cascading(e) => Cascading(e)'
    BY DEF Cascading, At
  <2> QED BY <2>1 DEF Inv, ValuesOfNotesExist
<1>3. ValuesPassed'
  BY DEF Inv, ValuesPassed
<1>4. NotesPassed'
  BY DEF Inv, NotesPassed
<1>5. ValueNotesPassed'
  BY DEF Inv, ValueNotesPassed
<1>6. NotesKnown'
  BY DEF Inv, NotesKnown, Known
<1> QED BY <1>1, <1>2, <1>3, <1>4, <1>5, <1>6 DEF Inv

LEMMA OthersStay ==
  ASSUME TypeOK, NEW r \in Reqs, Answer(r) \/ \E l \in Steps : Goto(r, l)
  PROVE  /\ \A q \in Reqs \ {r} : pc'[q] = pc[q] /\ op'[q] = op[q]
         /\ Answer(r) => pc'[r] = "idle"
         /\ \A l \in Steps : Goto(r, l) => pc'[r] = l /\ op' = op
BY DEF Answer, Goto, TypeOK

LEMMA CreatedStays ==
  ASSUME TypeOK, NEW r \in Reqs, Created(r)
  PROVE  /\ \A q \in Reqs \ {r} : pc'[q] = pc[q] /\ op'[q] = op[q]
         /\ pc'[r] \in {"idle", "entities"}
BY OthersStay DEF Created, Steps

LEMMA SendKeeps ==
  ASSUME TypeOK, Inv, NEW r \in Reqs, NEW kind, NEW ids, NEW v, NEW s,
         NEW l \in {"insertEntity", "checkEntity", "clear", "values", "valueNotes"},
         Send(r, kind, ids, v, s, l)
  PROVE  Inv'
<1>1. /\ UNCHANGED <<mode, dictionary, mirror, todo, astray>>
      /\ pc[r] = "idle" /\ pc'[r] = l
      /\ \A q \in Reqs \ {r} : pc'[q] = pc[q] /\ op'[q] = op[q]
  BY DEF Send, At, TypeOK
<1>2. pc'[r] \notin PastValues \cup PastNotes \cup {"removeValue", "annotate"} /\ pc[r] # "notes"
  BY <1>1 DEF PastValues, PastNotes
<1>3. UNCHANGED <<mode, here, goneIds, values, owner, notes, astray>>
  BY <1>1 DEF dictionary
<1> QED BY <1>1, <1>2, <1>3, QuietStep

LEMMA RequestKeeps ==
  ASSUME TypeOK, Inv, NEW r \in Reqs, Request(r)
  PROVE  Inv'
<1> USE SendKeeps
<1>1. CASE PostEntity(r) \/ DeleteEntities(r) \/ DeleteValue(r)
  BY <1>1 DEF PostEntity, DeleteEntities, DeleteValue
<1>2. CASE PostValue(r) \/ PatchValue(r) \/ SaveSample(r)
  BY <1>2 DEF PostValue, PatchValue, SaveSample
<1> QED BY <1>1, <1>2 DEF Request

\* A value that is stored or given to another entity: if a cascade has passed
\* its entity, the value is known to be astray.
LEMMA StoredValue ==
  ASSUME TypeOK, Inv, NEW r \in Reqs, NEW e \in Entities, NEW x \in Values,
         values' = values \cup {x}, owner' = [owner EXCEPT ![x] = e],
         x \in values \/ x \notin Known,
         astray' = IF Doomed(e, PastValues) THEN astray \cup {x} ELSE astray,
         UNCHANGED <<mode, here, goneIds, notes>>,
         \A q \in Reqs \ {r} : pc'[q] = pc[q] /\ op'[q] = op[q],
         pc[r] # "notes", pc'[r] \in {"idle", "synonyms"}
  PROVE  Inv'
<1>1. owner'[x] = e /\ \A v \in Values \ {x} : owner'[v] = owner[v]
  BY DEF TypeOK
<1>2. astray \subseteq astray' /\ (Doomed(e, PastValues) => x \in astray')
  OBVIOUS
<1>3. OwnersExist'
  BY <1>1, <1>2 DEF Inv, OwnersExist, TypeOK, Doomed
<1>4. EntitiesOfNotesExist'
  BY <1>2 DEF Inv, EntitiesOfNotesExist
<1>5. ValuesOfNotesExist'
  <2>1. \A ent : Cascading(ent) => Cascading(ent)'
    BY DEF Cascading, At
  <2>2. \A n \in notes : n.value \in Values
    BY DEF TypeOK, Notes
  <2> QED BY <1>1, <1>2, <2>1, <2>2 DEF Inv, ValuesOfNotesExist, NotesKnown, Known
<1>6. ValuesPassed'
  <2> SUFFICES ASSUME NEW q \in Reqs, pc'[q] \in PastValues, NEW v \in values', owner'[v] \in op'[q].ids
               PROVE  v \in astray'
    BY DEF ValuesPassed
  <2>1. q # r /\ pc[q] \in PastValues /\ op'[q] = op[q]
    BY DEF PastValues
  <2>2. CASE v = x
    BY <1>1, <1>2, <2>1, <2>2 DEF Doomed
  <2>3. CASE v # x
    BY <1>1, <1>2, <2>1, <2>3 DEF Inv, ValuesPassed, TypeOK
  <2> QED BY <2>2, <2>3
<1>7. NotesPassed'
  BY <1>2 DEF Inv, NotesPassed, PastNotes
<1>8. ValueNotesPassed'
  BY <1>2 DEF Inv, ValueNotesPassed
<1>9. NotesKnown'
  BY DEF Inv, NotesKnown, Known
<1> QED BY <1>3, <1>4, <1>5, <1>6, <1>7, <1>8, <1>9 DEF Inv

LEMMA AnnotateKeeps ==
  ASSUME TypeOK, Inv, NEW r \in Reqs, Annotate(r)
  PROVE  Inv'
<1>1. PICK n \in Notes :
        /\ n.value = op[r].value
        /\ notes' = notes \cup {n}
        /\ astray' = IF Doomed(n.entity, PastNotes) \/ DoomedValue(n.value)
                    THEN astray \cup {n} ELSE astray
  BY DEF Annotate
<1>2. /\ pc[r] = "annotate" /\ pc'[r] = "idle"
      /\ UNCHANGED <<mode, here, goneIds, values, owner>>
      /\ \A q \in Reqs \ {r} : pc'[q] = pc[q] /\ op'[q] = op[q]
  BY OthersStay DEF Annotate, At
<1>3. /\ astray \subseteq astray'
      /\ Doomed(n.entity, PastNotes) \/ DoomedValue(n.value) => n \in astray'
  BY <1>1
<1>4. OwnersExist'
  BY <1>2, <1>3 DEF Inv, OwnersExist
<1>5. EntitiesOfNotesExist'
  BY <1>1, <1>2, <1>3 DEF Inv, EntitiesOfNotesExist, Doomed
<1>6. ValuesOfNotesExist'
  <2>1. \A e : Cascading(e) => Cascading(e)'
    BY <1>2 DEF Cascading, At
  <2>2. n.value \in values \/ n \in astray'
    BY <1>3 DEF DoomedValue
  <2> QED BY <1>1, <1>2, <1>3, <2>1, <2>2 DEF Inv, ValuesOfNotesExist
<1>7. ValuesPassed'
  BY <1>2, <1>3 DEF Inv, ValuesPassed, PastValues
<1>8. NotesPassed'
  <2> SUFFICES ASSUME NEW q \in Reqs, pc'[q] \in PastNotes, NEW m \in notes', m.entity \in op'[q].ids
               PROVE  m \in astray'
    BY DEF NotesPassed
  <2>1. pc[q] \in PastNotes /\ op'[q] = op[q]
    BY <1>2 DEF PastNotes
  <2> QED BY <1>1, <1>3, <2>1 DEF Inv, NotesPassed, Doomed
<1>9. ValueNotesPassed'
  <2> SUFFICES ASSUME NEW q \in Reqs, pc'[q] = "removeValue", NEW m \in notes', m.value = op'[q].value
               PROVE  m \in astray'
    BY DEF ValueNotesPassed
  <2>1. pc[q] = "removeValue" /\ op'[q] = op[q]
    BY <1>2
  <2> QED BY <1>1, <1>3, <2>1 DEF Inv, ValueNotesPassed, DoomedValue, At
<1>10. NotesKnown'
  BY <1>1, <1>2 DEF Inv, NotesKnown, Known
<1> QED BY <1>4, <1>5, <1>6, <1>7, <1>8, <1>9, <1>10 DEF Inv

\* The cascades and the removals: they take away what may still be referred to,
\* or go on behind what was taken away.
LEMMA CascadeKeeps ==
  ASSUME TypeOK, Inv, NEW r \in Reqs, CascadeValues(r)
  PROVE  Inv'
<1>1. /\ pc[r] = "values" /\ pc'[r] = "notes" /\ op' = op
      /\ UNCHANGED <<mode, here, owner, notes>>
      /\ \A q \in Reqs \ {r} : pc'[q] = pc[q]
  BY OthersStay DEF CascadeValues, At, Steps
<1>2. /\ values' \subseteq values /\ astray \subseteq astray'
      /\ \A v \in values : owner[v] \notin op[r].ids => v \in values'
      /\ \A v \in values' : owner[v] \in op[r].ids => v \in astray'
      /\ Known' = Known
  BY DEF CascadeValues, Known
<1>3. OwnersExist' /\ EntitiesOfNotesExist'
  BY <1>1, <1>2 DEF Inv, OwnersExist, EntitiesOfNotesExist
<1>4. ValuesOfNotesExist'
  <2>1. \A e : Cascading(e) => Cascading(e)'
    BY <1>1 DEF Cascading, At
  <2>2. \A e \in op[r].ids : Cascading(e)'
    BY <1>1 DEF Cascading, At
  <2> QED BY <1>1, <1>2, <2>1, <2>2 DEF Inv, ValuesOfNotesExist
<1>5. ValuesPassed'
  BY <1>1, <1>2 DEF Inv, ValuesPassed
<1>6. NotesPassed'
  BY <1>1, <1>2 DEF Inv, NotesPassed, PastNotes
<1>7. ValueNotesPassed' /\ NotesKnown'
  BY <1>1, <1>2 DEF Inv, ValueNotesPassed, NotesKnown
<1> QED BY <1>3, <1>4, <1>5, <1>6, <1>7 DEF Inv

LEMMA CascadeNotesKeeps ==
  ASSUME TypeOK, Inv, NEW r \in Reqs, CascadeNotes(r)
  PROVE  Inv'
<1>1. /\ pc[r] = "notes" /\ pc'[r] = "find" /\ op' = op
      /\ UNCHANGED <<mode, here, values, owner, goneIds, astray>>
      /\ \A q \in Reqs \ {r} : pc'[q] = pc[q]
  BY OthersStay DEF CascadeNotes, At, Steps
<1>2. notes' = {n \in notes : n.entity \notin op[r].ids}
  BY DEF CascadeNotes
<1>3. OwnersExist' /\ EntitiesOfNotesExist'
  BY <1>1, <1>2 DEF Inv, OwnersExist, EntitiesOfNotesExist
<1>4. ValuesOfNotesExist'
  <2>1. \A e : Cascading(e) => Cascading(e)' \/ e \in op[r].ids
    BY <1>1 DEF Cascading, At
  <2> QED BY <1>1, <1>2, <2>1 DEF Inv, ValuesOfNotesExist
<1>5. ValuesPassed'
  BY <1>1 DEF Inv, ValuesPassed, PastValues
<1>6. NotesPassed'
  BY <1>1, <1>2 DEF Inv, NotesPassed
<1>7. ValueNotesPassed' /\ NotesKnown'
  BY <1>1, <1>2 DEF Inv, ValueNotesPassed, NotesKnown, Known
<1> QED BY <1>3, <1>4, <1>5, <1>6, <1>7 DEF Inv

LEMMA AdvanceKeeps ==
  ASSUME TypeOK, Inv, NEW r \in Reqs, FindDeleted(r) \/ TellEngine(r) \/ Told(r)
  PROVE  Inv'
<1>1. /\ pc[r] \in PastNotes /\ pc'[r] \in PastNotes /\ op' = op
      /\ \A q \in Reqs \ {r} : pc'[q] = pc[q]
  BY OthersStay DEF FindDeleted, TellEngine, Told, At, Steps, PastNotes
<1>2. PastNotes \subseteq PastValues /\ "notes" \notin PastNotes
      /\ "removeValue" \notin PastNotes /\ "annotate" \notin PastNotes
  BY DEF PastNotes, PastValues
<1>3. UNCHANGED <<mode, dictionary>> /\ astray \subseteq astray'
  BY DEF FindDeleted, TellEngine, Told
<1> QED BY <1>1, <1>2, <1>3, QuietStep DEF dictionary

LEMMA RemoveEntitiesKeeps ==
  ASSUME TypeOK, Inv, NEW r \in Reqs, RemoveEntities(r)
  PROVE  Inv'
<1>1. /\ pc[r] = "remove" /\ pc'[r] = "idle"
      /\ UNCHANGED <<mode, values, owner, notes, astray>>
      /\ \A q \in Reqs \ {r} : pc'[q] = pc[q] /\ op'[q] = op[q]
  BY OthersStay DEF RemoveEntities, At
<1>2. /\ \A e \in here \ here' : e \in op[r].ids
      /\ goneIds \subseteq goneIds'
  BY DEF RemoveEntities
<1>3. OwnersExist'
  BY <1>1, <1>2 DEF Inv, OwnersExist, ValuesPassed, PastValues
<1>4. EntitiesOfNotesExist'
  BY <1>1, <1>2 DEF Inv, EntitiesOfNotesExist, NotesPassed, PastNotes
<1>5. ValuesOfNotesExist'
  <2>1. \A e : Cascading(e) => Cascading(e)'
    BY <1>1 DEF Cascading, At
  <2> QED BY <1>1, <2>1 DEF Inv, ValuesOfNotesExist
<1>6. ValuesPassed' /\ NotesPassed' /\ ValueNotesPassed'
  BY <1>1 DEF Inv, ValuesPassed, NotesPassed, ValueNotesPassed, PastValues, PastNotes
<1>7. NotesKnown'
  BY <1>1, <1>2 DEF Inv, NotesKnown, Known
<1> QED BY <1>3, <1>4, <1>5, <1>6, <1>7 DEF Inv

LEMMA CascadeValueNotesKeeps ==
  ASSUME TypeOK, Inv, NEW r \in Reqs, CascadeValueNotes(r)
  PROVE  Inv'
<1>1. /\ pc[r] = "valueNotes" /\ pc'[r] = "removeValue" /\ op' = op
      /\ UNCHANGED <<mode, here, values, owner, goneIds, astray>>
      /\ \A q \in Reqs \ {r} : pc'[q] = pc[q]
  BY OthersStay DEF CascadeValueNotes, At, Steps
<1>2. notes' = {n \in notes : n.value # op[r].value}
  BY DEF CascadeValueNotes
<1>3. OwnersExist' /\ EntitiesOfNotesExist'
  BY <1>1, <1>2 DEF Inv, OwnersExist, EntitiesOfNotesExist
<1>4. ValuesOfNotesExist'
  <2>1. \A e : Cascading(e) => Cascading(e)'
    BY <1>1 DEF Cascading, At
  <2> QED BY <1>1, <1>2, <2>1 DEF Inv, ValuesOfNotesExist
<1>5. ValuesPassed' /\ NotesPassed'
  BY <1>1, <1>2 DEF Inv, ValuesPassed, NotesPassed, PastValues, PastNotes
<1>6. ValueNotesPassed' /\ NotesKnown'
  BY <1>1, <1>2 DEF Inv, ValueNotesPassed, NotesKnown, Known
<1> QED BY <1>3, <1>4, <1>5, <1>6 DEF Inv

LEMMA RemoveValueKeeps ==
  ASSUME TypeOK, Inv, NEW r \in Reqs, RemoveValue(r)
  PROVE  Inv'
<1>1. /\ pc[r] = "removeValue" /\ pc'[r] = "idle"
      /\ UNCHANGED <<mode, here, owner, notes, astray>>
      /\ \A q \in Reqs \ {r} : pc'[q] = pc[q] /\ op'[q] = op[q]
  BY OthersStay DEF RemoveValue, At
<1>2. /\ values' \subseteq values /\ values \ {op[r].value} \subseteq values'
      /\ Known \subseteq Known'
  BY DEF RemoveValue, Known
<1>3. OwnersExist' /\ EntitiesOfNotesExist'
  BY <1>1, <1>2 DEF Inv, OwnersExist, EntitiesOfNotesExist
<1>4. ValuesOfNotesExist'
  <2>1. \A e : Cascading(e) => Cascading(e)'
    BY <1>1 DEF Cascading, At
  <2>2. \A n \in notes \ astray : n.value # op[r].value
    BY <1>1 DEF Inv, ValueNotesPassed
  <2> QED BY <1>1, <1>2, <2>1, <2>2 DEF Inv, ValuesOfNotesExist
<1>5. ValuesPassed' /\ NotesPassed' /\ ValueNotesPassed'
  BY <1>1, <1>2 DEF Inv, ValuesPassed, NotesPassed, ValueNotesPassed, PastValues, PastNotes
<1>6. NotesKnown'
  BY <1>1, <1>2 DEF Inv, NotesKnown
<1> QED BY <1>3, <1>4, <1>5, <1>6 DEF Inv

LEMMA StepKeeps ==
  ASSUME TypeOK, HasValue, Inv, NEW r \in Reqs, Step(r)
  PROVE  Inv'
<1> DEFINE Others == \A q \in Reqs \ {r} : pc'[q] = pc[q] /\ op'[q] = op[q]
<1> DEFINE Away == pc[r] # "notes" /\ pc'[r] \notin PastValues \cup PastNotes \cup {"removeValue", "annotate"}
<1> USE DEF At, PastValues, PastNotes, dictionary, mirror
<1>1. CASE CheckEntity(r) \/ FindEntity(r) \/ FindEntities(r) \/ FindValue(r)
  <2>1. Others /\ Away
    BY <1>1, OthersStay DEF CheckEntity, FindEntity, FindEntities, FindValue, Steps
  <2>2. UNCHANGED <<mode, dictionary, astray>>
    BY <1>1 DEF CheckEntity, FindEntity, FindEntities, FindValue
  <2> QED BY <2>1, <2>2, QuietStep
<1>2. CASE InsertEntity(r) \/ AddEntity(r) \/ StoreId(r)
  <2>1. Others /\ Away
    BY <1>2, OthersStay, CreatedStays DEF InsertEntity, AddEntity, StoreId, Steps
  <2>2. /\ UNCHANGED <<mode, values, owner, goneIds, notes>>
        /\ here \subseteq here' /\ astray \subseteq astray'
    BY <1>2 DEF InsertEntity, AddEntity, StoreId
  <2> QED BY <2>1, <2>2, QuietStep
<1>3. CASE ClearSample(r)
  <2>1. Others /\ Away
    BY <1>3, OthersStay DEF ClearSample, Steps
  <2>2. UNCHANGED <<mode, here, values, owner, goneIds, astray>> /\ notes' \subseteq notes
    BY <1>3 DEF ClearSample
  <2> QED BY <2>1, <2>2, QuietStep
<1>4. CASE UpdateSynonyms(r)
  <2>1. /\ Others /\ pc[r] = "synonyms" /\ pc'[r] \in {"idle", "annotate"}
        /\ pc'[r] = "annotate" => op'[r].value \in Known
    BY <1>4, OthersStay DEF UpdateSynonyms, Steps, Known
  <2>2. UNCHANGED <<mode, dictionary, astray>>
    BY <1>4 DEF UpdateSynonyms
  <2> QED BY <2>1, <2>2, QuietStep
<1>5. CASE InsertValue(r)
  <2>1. /\ Others /\ Away /\ pc'[r] \in {"idle", "synonyms"}
        /\ op[r].value \in Values \ goneIds
    BY <1>5, OthersStay DEF InsertValue, Steps, HasValue, ValueSteps
  <2>2. CASE op[r].value \in values
    <3>1. UNCHANGED <<mode, dictionary, astray>>
      BY <1>5, <2>2 DEF InsertValue
    <3> QED BY <2>1, <3>1, QuietStep
  <2>3. CASE op[r].value \notin values
    <3>1. PICK e \in Entities :
            /\ values' = values \cup {op[r].value}
            /\ owner' = [owner EXCEPT ![op[r].value] = e]
            /\ astray' = IF Doomed(e, PastValues) THEN astray \cup {op[r].value} ELSE astray
      BY <1>5, <2>3 DEF InsertValue
    <3>2. UNCHANGED <<mode, here, goneIds, notes>>
      BY <1>5 DEF InsertValue
    <3> QED BY <2>1, <2>3, <3>1, <3>2, StoredValue DEF Known
  <2> QED BY <2>2, <2>3
<1>6. CASE UpdateValue(r)
  <2>1. Others /\ Away /\ pc'[r] = "idle" /\ op[r].value \in Values
    BY <1>6, OthersStay DEF UpdateValue, HasValue, ValueSteps
  <2>2. CASE op[r].value \notin values
    <3>1. UNCHANGED <<mode, dictionary, astray>>
      BY <1>6, <2>2 DEF UpdateValue
    <3> QED BY <2>1, <3>1, QuietStep
  <2>3. CASE op[r].value \in values /\ UNCHANGED <<owner, astray>>
    <3>1. UNCHANGED <<mode, here, values, owner, goneIds, notes, astray>>
      BY <1>6, <2>3 DEF UpdateValue
    <3> QED BY <2>1, <3>1, QuietStep
  <2>4. CASE op[r].value \in values /\ ~UNCHANGED <<owner, astray>>
    <3>1. PICK e \in Entities :
            /\ owner' = [owner EXCEPT ![op[r].value] = e]
            /\ astray' = IF Doomed(e, PastValues) THEN astray \cup {op[r].value} ELSE astray
      BY <1>6, <2>4 DEF UpdateValue
    <3>2. UNCHANGED <<mode, here, goneIds, notes>> /\ values' = values \cup {op[r].value}
      BY <1>6, <2>4 DEF UpdateValue
    <3> QED BY <2>1, <2>4, <3>1, <3>2, StoredValue
  <2> QED BY <2>2, <2>3, <2>4
<1> QED BY <1>1, <1>2, <1>3, <1>4, <1>5, <1>6, AnnotateKeeps, CascadeKeeps, CascadeNotesKeeps,
           AdvanceKeeps, RemoveEntitiesKeeps, CascadeValueNotesKeeps, RemoveValueKeeps DEF Step

LEMMA InvInit == Init => Inv
BY DEF Init, Inv, OwnersExist, EntitiesOfNotesExist, ValuesOfNotesExist, ValuesPassed,
   NotesPassed,
       ValueNotesPassed, NotesKnown, Known, PastValues, PastNotes

LEMMA CrashKeeps ==
  ASSUME TypeOK, Inv, Crash
  PROVE  Inv'
<1>1. UNCHANGED <<mode, dictionary, astray>> /\ \A q \in Reqs : pc'[q] = "idle"
  BY DEF Crash
<1>2. OwnersExist' /\ EntitiesOfNotesExist'
  BY <1>1 DEF dictionary, Inv, OwnersExist, EntitiesOfNotesExist
<1>3. ValuesOfNotesExist'
  BY <1>1 DEF Crash, ValuesOfNotesExist
<1>4. ValuesPassed' /\ NotesPassed' /\ ValueNotesPassed' /\ NotesKnown'
  BY <1>1 DEF dictionary, Inv, ValuesPassed, NotesPassed, ValueNotesPassed, NotesKnown, Known,
              PastValues, PastNotes
<1> QED BY <1>2, <1>3, <1>4 DEF Inv

LEMMA StutterKeeps ==
  ASSUME Inv, UNCHANGED vars
  PROVE  Inv'
BY DEF vars, dictionary, Inv, OwnersExist, EntitiesOfNotesExist, ValuesOfNotesExist, Cascading,
   At,
       ValuesPassed, NotesPassed, ValueNotesPassed, NotesKnown, Known

\* However requests overlap, and after a crash: a value belongs to an entity that
\* exists and an annotation is of an entity and a value that exist, but for the
\* exceptions ReferencesResolve names (the cascades of NlpService).
THEOREM ReferencesAlwaysResolve == Spec => []ReferencesResolve
<1>1. Init => Inv
  BY InvInit
<1>2. TypeOK /\ HasValue /\ Inv /\ [Next]_vars => Inv'
  BY RequestKeeps, StepKeeps, CrashKeeps, StutterKeeps DEF Next
<1>3. Inv => ReferencesResolve
  BY DEF Inv, ReferencesResolve
<1> QED BY <1>1, <1>2, <1>3, TypeCorrect, PTL DEF Spec

-----------------------------------------------------------------------------
(* The engine.                                                             *)

Creators == {"addEntity", "storeId"}
Deleting == {"values", "notes", "find", "engine", "remove"}

\* Built-in entities stay; those with an id in the engine exist and are not built in.
Registered ==
  /\ builtin \cap Entities \subseteq here
  /\ foreign \subseteq here \ builtin

\* A request creates one entity, which nobody else creates and no deletion found
\* with an id, and knows no entity to delete that did not exist; the engine is
\* told at "engine" only.
Requested ==
  \A r \in Reqs :
    /\ pc[r] \in {"clear", "findEntity", "insertEntity"} \cup Creators =>
         \E e \in Entities : Names(r, e)
    /\ pc[r] \in Creators =>
         /\ op[r].ids \cap (builtin \cup foreign) = {}
         /\ \A q \in Reqs : op[r].ids \cap todo[q] = {}
         /\ \A q \in Reqs \ {r} : pc[q] \in Creators => op[q].ids # op[r].ids
    /\ pc[r] \in Creators \cup Deleting => op[r].ids \subseteq here \cup goneIds
    /\ todo[r] \subseteq op[r].ids
    /\ pc[r] # "engine" => todo[r] = {}

\* The engine was told that e is deleted, or need not be.
Dismissed(e) ==
  \E q \in Reqs : pc[q] \in {"engine", "remove"} /\ e \in op[q].ids \ todo[q]

In(l, e) == \E q \in Reqs : pc[q] = l /\ Names(q, e)

\* A deletion that did not find the id of an entity that is still being created,
\* and removed it perhaps, is on record.
Recorded ==
  \A e \in Entities :
    In("addEntity", e) \/ In("storeId", e) => (e \in here /\ ~Dismissed(e)) \/ e \in astray

\* What is stored of the engine's entities is known there, until it is told.
Mirrored ==
  "crash" \notin mode.faults =>
    \A e \in Entities \ astray :
      /\ In("storeId", e) => e \in engine
      /\ e \in foreign => e \in engine \/ Dismissed(e)

\* If the engine never fails, it is ahead of what is stored by the ids to be
\* stored, and behind by the entities it was not told of yet.
Exactly ==
  mode.faults = {} =>
    \A e \in Entities \ astray :
      /\ e \in engine => /\ e \in here \ builtin
                         /\ e \in foreign \/ In("storeId", e)
                         /\ ~Dismissed(e)
      /\ e \in here \ builtin => e \in engine \/ Dismissed(e) \/ In("addEntity", e)

EngineInv == Registered /\ Requested /\ Recorded /\ Mirrored /\ Exactly

LEMMA EngineInit == Init => EngineInv
BY DEF Init, EngineInv, Registered, Requested, Recorded, Mirrored, Exactly, Dismissed, In, Creators,
   Deleting

\* What other requests do stays, and r is not concerned with the engine.
LEMMA Unconcerned ==
  ASSUME TypeOK, EngineInv, NEW r \in Reqs,
         UNCHANGED <<mode, here, foreign, engine, todo>>,
         builtin' \cap Entities = builtin \cap Entities,
         goneIds \subseteq goneIds', astray \subseteq astray',
         \A q \in Reqs \ {r} : pc'[q] = pc[q] /\ op'[q] = op[q],
         pc[r] \notin {"engine", "remove"} \cup Creators,
         pc'[r] \notin {"engine", "remove"} \cup Creators,
         pc'[r] \in Deleting => op'[r].ids \subseteq here \cup goneIds,
         pc'[r] \in {"clear", "findEntity", "insertEntity"} => \E e \in Entities : op'[r].ids = {e}
  PROVE  EngineInv'
<1>0. foreign \subseteq Entities
  BY DEF TypeOK
<1>1. Registered'
  BY <1>0 DEF EngineInv, Registered
<1>2. Requested'
  <2> SUFFICES ASSUME NEW s \in Reqs
      PROVE /\ pc'[s] \in {"clear", "findEntity", "insertEntity"} \cup Creators =>
                  \E e \in Entities : op'[s].ids = {e}
            /\ pc'[s] \in Creators =>
                 /\ op'[s].ids \cap (builtin' \cup foreign') = {}
                 /\ \A q \in Reqs : op'[s].ids \cap todo'[q] = {}
                 /\ \A q \in Reqs \ {s} : pc'[q] \in Creators => op'[q].ids # op'[s].ids
            /\ pc'[s] \in Creators \cup Deleting => op'[s].ids \subseteq here' \cup goneIds'
            /\ todo'[s] \subseteq op'[s].ids
            /\ pc'[s] # "engine" => todo'[s] = {}
    BY DEF Requested, Names
  <2>1. CASE s = r
    BY <2>1 DEF EngineInv, Requested
  <2>2. CASE s # r
    <3>1. pc[s] \in Creators => op[s].ids \cap builtin' = {}
      BY <2>2 DEF EngineInv, Requested, Names
    <3> QED BY <2>2, <3>1 DEF EngineInv, Requested, Names
  <2> QED BY <2>1, <2>2
<1>3. \A e : Dismissed(e)' <=> Dismissed(e)
  BY DEF Dismissed
<1>4. \A e : (In("storeId", e)' <=> In("storeId", e)) /\ (In("addEntity", e)' <=> In("addEntity", e))
  BY DEF In, Names, Creators
<1>5. Recorded' /\ Mirrored' /\ Exactly'
  BY <1>3, <1>4 DEF EngineInv, Recorded, Mirrored, Exactly
<1> QED BY <1>1, <1>2, <1>5 DEF EngineInv

LEMMA SendUnconcerned ==
  ASSUME TypeOK, EngineInv, NEW r \in Reqs, NEW kind, NEW ids, NEW v, NEW s,
         NEW l \in {"insertEntity", "checkEntity", "clear", "values", "valueNotes"},
         Send(r, kind, ids, v, s, l),
         l \in {"clear", "insertEntity"} => \E e \in Entities : ids = {e},
         l = "values" => ids \subseteq here
  PROVE  EngineInv'
<1>1. /\ UNCHANGED <<mode, dictionary, mirror, todo, astray>>
      /\ pc[r] = "idle" /\ pc'[r] = l /\ op'[r].ids = ids
      /\ \A q \in Reqs \ {r} : pc'[q] = pc[q] /\ op'[q] = op[q]
  BY DEF Send, At, TypeOK
<1>2. UNCHANGED <<mode, here, goneIds, builtin, foreign, engine, todo, astray>>
  BY <1>1 DEF dictionary, mirror
<1>3. pc'[r] \notin {"engine", "remove"} \cup Creators /\ pc[r] \notin {"engine", "remove"} \cup Creators
  BY <1>1 DEF Creators
<1>4. pc'[r] \in Deleting => l = "values"
  BY <1>1 DEF Deleting
<1> QED BY <1>1, <1>2, <1>3, <1>4, Unconcerned

LEMMA RequestUnconcerned ==
  ASSUME TypeOK, EngineInv, NEW r \in Reqs, Request(r)
  PROVE  EngineInv'
<1>1. CASE PostEntity(r)
  <2>1. PICK e \in Entities : Send(r, "entity", {e}, None, None, "insertEntity")
    BY <1>1 DEF PostEntity, FreshEntities
  <2> QED BY <2>1, SendUnconcerned
<1>2. CASE PostValue(r) \/ PatchValue(r) \/ DeleteValue(r)
  BY <1>2, SendUnconcerned DEF PostValue, PatchValue, DeleteValue
<1>3. CASE SaveSample(r)
  BY <1>3, SendUnconcerned DEF SaveSample
<1>4. CASE DeleteEntities(r)
  BY <1>4, SendUnconcerned DEF DeleteEntities
<1> QED BY <1>1, <1>2, <1>3, <1>4 DEF Request

LEMMA StepUnconcerned ==
  ASSUME TypeOK, HasValue, EngineInv, NEW r \in Reqs,
         \/ CheckEntity(r) \/ InsertValue(r) \/ UpdateValue(r) \/ ClearSample(r) \/ FindEntity(r)
         \/ FindEntities(r) \/ FindValue(r) \/ UpdateSynonyms(r) \/ Annotate(r)
         \/ CascadeValues(r) \/ CascadeNotes(r) \/ CascadeValueNotes(r) \/ RemoveValue(r)
  PROVE  EngineInv'
<1> DEFINE Elsewhere == {"idle", "checkEntity", "insertValue", "patch", "entities", "findValue",
                         "synonyms", "annotate", "valueNotes", "removeValue"}
<1>1. UNCHANGED <<mode, here, foreign, engine, todo>> /\ goneIds \subseteq goneIds' /\ astray \subseteq astray'
  BY DEF CheckEntity, InsertValue, UpdateValue, ClearSample, FindEntity, FindEntities, FindValue,
         UpdateSynonyms, Annotate, CascadeValues, CascadeNotes, CascadeValueNotes, RemoveValue,
         dictionary, mirror
<1>b. builtin' \cap Entities = builtin \cap Entities
  <2>1. pc[r] \in {"insertValue", "patch"} => op[r].value \notin Entities
    BY DEF HasValue, ValueSteps
  <2>2. builtin' = builtin \/ (/\ pc[r] \in {"insertValue", "patch"}
                              /\ builtin' \in {builtin \cup {op[r].value}, builtin \ {op[r].value}})
    BY DEF CheckEntity, InsertValue, UpdateValue, ClearSample, FindEntity, FindEntities, FindValue,
           UpdateSynonyms, Annotate, CascadeValues, CascadeNotes, CascadeValueNotes, RemoveValue,
           dictionary, At
  <2> QED BY <2>1, <2>2
<1>2. Answer(r) \/ \E l \in Steps : Goto(r, l)
  BY DEF CheckEntity, InsertValue, UpdateValue, ClearSample, FindEntity, FindEntities, FindValue,
         UpdateSynonyms, Annotate, CascadeValues, CascadeNotes, CascadeValueNotes, RemoveValue, Steps
<1>3. \A q \in Reqs \ {r} : pc'[q] = pc[q] /\ op'[q] = op[q]
  BY <1>2, OthersStay
<1>4. CASE CheckEntity(r) \/ InsertValue(r) \/ UpdateValue(r) \/ FindEntities(r) \/ FindValue(r)
           \/ UpdateSynonyms(r) \/ Annotate(r) \/ CascadeValueNotes(r) \/ RemoveValue(r)
  <2>1. pc[r] \in Elsewhere /\ pc'[r] \in Elsewhere
    BY <1>4, OthersStay DEF At, Steps, CheckEntity, InsertValue, UpdateValue, FindEntities,
       FindValue,
           UpdateSynonyms, Annotate, CascadeValueNotes, RemoveValue
  <2> QED BY <1>1, <1>b, <1>3, <2>1, Unconcerned DEF Creators, Deleting
<1>5. CASE ClearSample(r) \/ FindEntity(r)
  <2>1. /\ pc[r] \in {"clear", "findEntity"} /\ op' = op
        /\ pc'[r] \in {"findEntity", "entities", "insertEntity"}
    BY <1>5, OthersStay DEF At, Steps, ClearSample, FindEntity
  <2>2. PICK e \in Entities : op[r].ids = {e}
    BY <2>1 DEF EngineInv, Requested, Names
  <2> QED BY <1>1, <1>b, <1>3, <2>1, <2>2, Unconcerned DEF Creators, Deleting
<1>6. CASE CascadeValues(r) \/ CascadeNotes(r)
  <2>1. pc[r] \in {"values", "notes"} /\ op' = op /\ pc'[r] \in {"notes", "find"}
    BY <1>6, OthersStay DEF At, Steps, CascadeValues, CascadeNotes
  <2>2. op[r].ids \subseteq here \cup goneIds
    BY <2>1 DEF EngineInv, Requested, Deleting
  <2> QED BY <1>1, <1>b, <1>3, <2>1, <2>2, Unconcerned DEF Creators
<1> QED BY <1>4, <1>5, <1>6

\* The one step of a creation that stores the entity.
LEMMA InsertMirrored ==
  ASSUME TypeOK, EngineInv, NEW r \in Reqs, InsertEntity(r)
  PROVE  EngineInv'
<1>1. PICK e \in Entities \ goneIds :
        /\ op[r].ids = {e}
        /\ here' = here \cup {e}
        /\ \/ e \in here /\ UNCHANGED builtin /\ Answer(r)
           \/ e \notin here /\ UNCHANGED builtin /\ Goto(r, "addEntity")
           \/ e \notin here /\ builtin' = builtin \cup {e} /\ Answer(r)
  BY DEF InsertEntity, Names
<1>2. pc[r] = "insertEntity" /\ UNCHANGED <<mode, goneIds, foreign, engine, todo, astray>>
  BY DEF InsertEntity, At, mirror
<1>3. \A q \in Reqs \ {r} : pc'[q] = pc[q] /\ op'[q] = op[q]
  BY <1>1, OthersStay DEF Steps
<1>4. CASE e \in here
  <2>1. pc'[r] = "idle" /\ here' = here /\ builtin' = builtin
    BY <1>1, <1>4, OthersStay
  <2> QED BY <1>2, <1>3, <2>1, Unconcerned DEF Creators, Deleting
<1>5. CASE e \notin here
  <2>1. \/ pc'[r] = "addEntity" /\ op' = op /\ builtin' = builtin
        \/ pc'[r] = "idle" /\ builtin' = builtin \cup {e}
    BY <1>1, <1>5, OthersStay DEF Steps
  <2>2. e \notin foreign /\ e \notin builtin
    BY <1>5 DEF EngineInv, Registered
  <2>3. \A q \in Reqs : /\ pc[q] \in Creators \cup Deleting => e \notin op[q].ids
                        /\ e \notin todo[q]
    BY <1>1, <1>5 DEF EngineInv, Requested, Deleting
  <2>4. Registered'
    BY <1>1, <1>2, <2>1, <2>2 DEF EngineInv, Registered
  <2>5. Requested'
    <3> SUFFICES ASSUME NEW s \in Reqs
        PROVE /\ pc'[s] \in {"clear", "findEntity", "insertEntity"} \cup Creators =>
                    \E x \in Entities : op'[s].ids = {x}
              /\ pc'[s] \in Creators =>
                   /\ op'[s].ids \cap (builtin' \cup foreign') = {}
                   /\ \A q \in Reqs : op'[s].ids \cap todo'[q] = {}
                   /\ \A q \in Reqs \ {s} : pc'[q] \in Creators => op'[q].ids # op'[s].ids
              /\ pc'[s] \in Creators \cup Deleting => op'[s].ids \subseteq here' \cup goneIds'
              /\ todo'[s] \subseteq op'[s].ids
              /\ pc'[s] # "engine" => todo'[s] = {}
      BY DEF Requested, Names
    <3>1. CASE s = r
      BY <1>1, <1>2, <1>3, <2>1, <2>2, <2>3, <3>1 DEF EngineInv, Requested, Creators, Deleting
    <3>2. CASE s # r
      BY <1>1, <1>2, <1>3, <2>1, <2>3, <3>2 DEF EngineInv, Requested, Creators, Names
    <3> QED BY <3>1, <3>2
  <2>6. \A x : Dismissed(x)' <=> Dismissed(x)
    BY <1>2, <1>3, <2>1 DEF Dismissed
  <2>7. ~Dismissed(e)
    BY <2>3 DEF Dismissed, Deleting
  <2>8. /\ \A x : In("storeId", x)' <=> In("storeId", x)
        /\ \A x : In("addEntity", x) => In("addEntity", x)'
        /\ \A x : In("addEntity", x)' => In("addEntity", x) \/ x = e
        /\ builtin' = builtin => In("addEntity", e)'
    BY <1>1, <1>2, <1>3, <2>1, <2>2 DEF In, Names
  <2>9. Recorded'
    BY <1>1, <1>2, <2>6, <2>7, <2>8 DEF EngineInv, Recorded
  <2>10. Mirrored'
    BY <1>2, <2>6, <2>8 DEF EngineInv, Mirrored
  <2>11. Exactly'
    BY <1>1, <1>2, <1>5, <2>1, <2>6, <2>8 DEF EngineInv, Exactly
  <2> QED BY <2>4, <2>5, <2>9, <2>10, <2>11 DEF EngineInv
<1> QED BY <1>4, <1>5

LEMMA AddMirrored ==
  ASSUME TypeOK, EngineInv, NEW r \in Reqs, AddEntity(r)
  PROVE  EngineInv'
<1>1. PICK e \in Entities :
        /\ op[r].ids = {e}
        /\ \/ engine' = engine \cup {e} /\ Goto(r, "storeId")
           \/ "engine" \in mode.faults /\ engine' \in {engine, engine \cup {e}} /\ Created(r)
  BY DEF AddEntity, Names
<1>2. pc[r] = "addEntity" /\ UNCHANGED <<mode, here, goneIds, builtin, foreign, todo, astray>>
  BY DEF AddEntity, At, dictionary
<1>3. \A q \in Reqs \ {r} : pc'[q] = pc[q] /\ op'[q] = op[q]
  BY <1>1, OthersStay, CreatedStays DEF Steps
<1>4. Registered'
  BY <1>2 DEF EngineInv, Registered
<1>5. pc'[r] \in {"idle", "entities"} \/ (pc'[r] = "storeId" /\ op' = op)
  BY <1>1, OthersStay, CreatedStays DEF Steps
<1>6. Requested'
  BY <1>2, <1>3, <1>5 DEF EngineInv, Requested, Creators, Deleting, Names
<1>7. \A x : Dismissed(x)' <=> Dismissed(x)
  BY <1>2, <1>3, <1>5 DEF Dismissed
<1>8. In("addEntity", e)
  BY <1>1, <1>2 DEF In, Names
<1>9. /\ \A x : In("addEntity", x)' => In("addEntity", x)
      /\ \A x : In("storeId", x)' => In("storeId", x) \/ In("addEntity", x)
  BY <1>2, <1>3, <1>5 DEF In, Names
<1>10. Recorded'
  BY <1>2, <1>7, <1>9 DEF EngineInv, Recorded
<1>11. CASE "engine" \in mode.faults /\ engine' \in {engine, engine \cup {e}} /\ Created(r)
  <2>1. pc'[r] \in {"idle", "entities"}
    BY <1>11, CreatedStays
  <2>2. \A x : In("storeId", x)' => In("storeId", x)
    BY <1>2, <1>3, <2>1 DEF In, Names
  <2> QED BY <1>2, <1>4, <1>6, <1>7, <1>10, <1>11, <2>2 DEF EngineInv, Mirrored, Exactly
<1>12. CASE Goto(r, "storeId") /\ engine' = engine \cup {e}
  <2>1. pc'[r] = "storeId" /\ op' = op
    BY <1>12, OthersStay DEF Steps
  <2>2. e \notin astray => e \in here \ builtin /\ ~Dismissed(e)
    BY <1>1, <1>2, <1>8 DEF EngineInv, Recorded, Requested, Creators
  <2>3. \A x \in Entities \ {e} : (In("storeId", x)' <=> In("storeId", x)) /\ (In("addEntity", x)' <=> In("addEntity", x))
    BY <1>1, <1>2, <1>3, <2>1 DEF In, Names
  <2>4. In("storeId", e)'
    BY <1>1, <2>1 DEF In, Names
  <2>5. Mirrored'
    BY <1>2, <1>7, <1>12, <2>3 DEF EngineInv, Mirrored
  <2>6. Exactly'
    BY <1>2, <1>7, <1>12, <2>2, <2>3, <2>4 DEF EngineInv, Exactly
  <2> QED BY <1>4, <1>6, <1>10, <2>5, <2>6 DEF EngineInv
<1> QED BY <1>1, <1>11, <1>12

LEMMA StoreMirrored ==
  ASSUME TypeOK, EngineInv, NEW r \in Reqs, StoreId(r)
  PROVE  EngineInv'
<1>1. /\ pc[r] = "storeId" /\ foreign' = foreign \cup (op[r].ids \cap here) /\ Created(r)
      /\ UNCHANGED <<mode, here, goneIds, builtin, engine, todo, astray>>
  BY DEF StoreId, At, dictionary
<1>2. PICK e \in Entities : op[r].ids = {e}
  BY <1>1 DEF EngineInv, Requested, Creators, Names
<1>3. /\ \A q \in Reqs \ {r} : pc'[q] = pc[q] /\ op'[q] = op[q]
      /\ pc'[r] \in {"idle", "entities"}
  BY <1>1, CreatedStays
<1>4. e \notin builtin /\ \A q \in Reqs \ {r} : pc[q] \in Creators => op[q].ids # {e}
  BY <1>1, <1>2 DEF EngineInv, Requested, Creators
<1>5. Registered'
  BY <1>1, <1>2, <1>4 DEF EngineInv, Registered
<1>6. \A q \in Reqs \ {r} : pc[q] \in Creators => e \notin op[q].ids
  BY <1>4 DEF EngineInv, Requested, Names
<1>7. Requested'
  BY <1>1, <1>2, <1>3, <1>6 DEF EngineInv, Requested, Creators, Deleting, Names
<1>8. \A x : Dismissed(x)' <=> Dismissed(x)
  BY <1>1, <1>3 DEF Dismissed
<1>9. /\ In("storeId", e)
      /\ \A x : In("storeId", x)' => In("storeId", x)
      /\ \A x \in Entities \ {e} : In("storeId", x) => In("storeId", x)'
      /\ \A x : In("addEntity", x)' <=> In("addEntity", x)
  BY <1>1, <1>2, <1>3 DEF In, Names
<1>10. Recorded' /\ Mirrored'
  BY <1>1, <1>2, <1>8, <1>9 DEF EngineInv, Recorded, Mirrored
<1>11. Exactly'
  BY <1>1, <1>2, <1>8, <1>9 DEF EngineInv, Exactly
<1> QED BY <1>5, <1>7, <1>10, <1>11 DEF EngineInv

LEMMA FindMirrored ==
  ASSUME TypeOK, EngineInv, NEW r \in Reqs, FindDeleted(r)
  PROVE  EngineInv'
<1> DEFINE found == (op[r].ids \cap here) \ builtin
<1>1. /\ pc[r] = "find" /\ Goto(r, "engine")
      /\ todo' = [todo EXCEPT ![r] = found \cap foreign]
      /\ astray' = astray \cup {e \in found \ foreign : Creating(e)}
      /\ UNCHANGED <<mode, here, goneIds, builtin, foreign, engine>>
  BY DEF FindDeleted, At, dictionary, mirror
<1>2. /\ \A q \in Reqs \ {r} : pc'[q] = pc[q] /\ todo'[q] = todo[q]
      /\ pc'[r] = "engine" /\ op' = op /\ todo'[r] = found \cap foreign
  BY <1>1, OthersStay DEF Steps, TypeOK
<1>3. Registered'
  BY <1>1 DEF EngineInv, Registered
<1>4. Requested'
  BY <1>1, <1>2 DEF EngineInv, Requested, Creators, Deleting, Names
<1>5. /\ \A x : Dismissed(x) => Dismissed(x)'
      /\ \A x : Dismissed(x)' => Dismissed(x) \/ x \in op[r].ids \ (found \cap foreign)
      /\ \A x \in op[r].ids \ (found \cap foreign) : Dismissed(x)'
  BY <1>1, <1>2 DEF Dismissed
<1>6. \A x : (In("storeId", x)' <=> In("storeId", x)) /\ (In("addEntity", x)' <=> In("addEntity", x))
  BY <1>1, <1>2 DEF In, Names
<1>7. \A x \in Entities : In("addEntity", x) \/ In("storeId", x) => Creating(x) /\ x \notin builtin
  BY DEF In, Creating, EngineInv, Requested, Creators, Names
<1>8. Recorded'
  <2> SUFFICES ASSUME NEW e \in Entities, In("addEntity", e) \/ In("storeId", e),
                      e \notin astray', e \notin here \/ Dismissed(e)'
               PROVE  FALSE
    BY <1>1, <1>6 DEF Recorded
  <2>1. e \in here /\ ~Dismissed(e)
    BY <1>1 DEF EngineInv, Recorded
  <2>2. e \in found \ foreign
    BY <1>5, <1>7, <2>1 DEF EngineInv, Requested, Creators, In, Names
  <2> QED BY <1>1, <1>7, <2>2
<1>9. Mirrored'
  BY <1>1, <1>5, <1>6 DEF EngineInv, Mirrored
<1>10. Exactly'
  BY <1>1, <1>5, <1>6, <1>7 DEF EngineInv, Exactly
<1> QED BY <1>3, <1>4, <1>8, <1>9, <1>10 DEF EngineInv

LEMMA TellMirrored ==
  ASSUME TypeOK, EngineInv, NEW r \in Reqs, TellEngine(r)
  PROVE  EngineInv'
<1>1. PICK e \in todo[r] :
        /\ todo' = [todo EXCEPT ![r] = @ \ {e}]
        /\ engine' = engine \ {e} \/ ("engine" \in mode.faults /\ UNCHANGED engine)
  BY DEF TellEngine
<1>2. /\ pc[r] = "engine" /\ UNCHANGED <<mode, here, goneIds, builtin, foreign, pc, op, astray>>
      /\ todo'[r] = todo[r] \ {e} /\ \A q \in Reqs \ {r} : todo'[q] = todo[q]
  BY <1>1 DEF TellEngine, At, dictionary, TypeOK
<1>3. Registered'
  BY <1>2 DEF EngineInv, Registered
<1>4. Requested'
  BY <1>2 DEF EngineInv, Requested, Names
<1>5. /\ \A x : Dismissed(x) => Dismissed(x)'
      /\ \A x : Dismissed(x)' => Dismissed(x) \/ x = e
  BY <1>2 DEF Dismissed
<1>6. \A x : (In("storeId", x)' <=> In("storeId", x)) /\ (In("addEntity", x)' <=> In("addEntity", x))
  BY <1>2 DEF In, Names
<1>7. ~In("storeId", e) /\ ~In("addEntity", e)
  BY DEF EngineInv, Requested, Creators, In, Names
<1>8. Dismissed(e)'
  BY <1>1, <1>2 DEF Dismissed, EngineInv, Requested
<1>9. Recorded'
  BY <1>2, <1>5, <1>6, <1>7 DEF EngineInv, Recorded
<1>10. Mirrored'
  BY <1>1, <1>2, <1>5, <1>6, <1>7, <1>8 DEF EngineInv, Mirrored
<1>11. Exactly'
  BY <1>1, <1>2, <1>5, <1>6, <1>7, <1>8 DEF EngineInv, Exactly
<1> QED BY <1>3, <1>4, <1>9, <1>10, <1>11 DEF EngineInv

LEMMA ToldMirrored ==
  ASSUME TypeOK, EngineInv, NEW r \in Reqs, Told(r)
  PROVE  EngineInv'
<1>1. /\ pc[r] = "engine" /\ todo[r] = {} /\ pc'[r] = "remove" /\ op' = op
      /\ UNCHANGED <<mode, here, goneIds, builtin, foreign, engine, todo, astray>>
      /\ \A q \in Reqs \ {r} : pc'[q] = pc[q]
  BY OthersStay DEF Told, At, dictionary, mirror, Steps
<1>2. Registered'
  BY <1>1 DEF EngineInv, Registered
<1>3. Requested'
  BY <1>1 DEF EngineInv, Requested, Creators, Deleting, Names
<1>4. \A x : Dismissed(x)' <=> Dismissed(x)
  BY <1>1 DEF Dismissed
<1>5. \A x : (In("storeId", x)' <=> In("storeId", x)) /\ (In("addEntity", x)' <=> In("addEntity", x))
  BY <1>1 DEF In, Names
<1>6. Recorded' /\ Mirrored' /\ Exactly'
  BY <1>1, <1>4, <1>5 DEF EngineInv, Recorded, Mirrored, Exactly
<1> QED BY <1>2, <1>3, <1>6 DEF EngineInv

LEMMA RemoveMirrored ==
  ASSUME TypeOK, EngineInv, NEW r \in Reqs, RemoveEntities(r)
  PROVE  EngineInv'
<1> DEFINE es == (op[r].ids \cap here) \ builtin
<1>1. /\ pc[r] = "remove" /\ here' = here \ es /\ goneIds' = goneIds \cup es /\ foreign' = foreign \ es
      /\ UNCHANGED <<mode, builtin, engine, todo, astray>>
  BY DEF RemoveEntities, At
<1>2. /\ \A q \in Reqs \ {r} : pc'[q] = pc[q] /\ op'[q] = op[q]
      /\ pc'[r] = "idle"
  BY OthersStay DEF RemoveEntities
<1>3. Registered'
  BY <1>1 DEF EngineInv, Registered
<1>4. Requested'
  BY <1>1, <1>2 DEF EngineInv, Requested, Creators, Deleting, Names
<1>5. \A x \in op[r].ids : Dismissed(x)
  BY <1>1 DEF EngineInv, Requested, Dismissed
<1>6. /\ \A x : Dismissed(x)' => Dismissed(x)
      /\ \A x : Dismissed(x) => Dismissed(x)' \/ x \in op[r].ids
  BY <1>1, <1>2 DEF Dismissed
<1>7. \A x : (In("storeId", x)' <=> In("storeId", x)) /\ (In("addEntity", x)' <=> In("addEntity", x))
  BY <1>1, <1>2 DEF In, Names
<1>8. \A x \in op[r].ids : x \notin foreign' /\ x \notin here' \ builtin
  BY <1>1 DEF EngineInv, Registered
<1>9. Recorded'
  BY <1>1, <1>5, <1>6, <1>7 DEF EngineInv, Recorded
<1>10. Mirrored'
  BY <1>1, <1>6, <1>7, <1>8 DEF EngineInv, Mirrored
<1>11. Exactly'
  BY <1>1, <1>5, <1>6, <1>7, <1>8 DEF EngineInv, Exactly
<1> QED BY <1>3, <1>4, <1>9, <1>10, <1>11 DEF EngineInv

LEMMA CrashMirrored ==
  ASSUME EngineInv, Crash
  PROVE  EngineInv'
<1>1. /\ "crash" \in mode'.faults
      /\ UNCHANGED <<here, builtin, foreign>>
      /\ \A q \in Reqs : pc'[q] = "idle" /\ todo'[q] = {}
  BY DEF Crash, dictionary, mirror
<1> QED BY <1>1 DEF EngineInv, Registered, Requested, Recorded, In, Mirrored, Exactly, Creators, Deleting

LEMMA StutterMirrored ==
  ASSUME EngineInv, UNCHANGED vars
  PROVE  EngineInv'
BY DEF vars, dictionary, mirror, EngineInv, Registered, Requested, Recorded, Mirrored, Exactly,
   Dismissed, In, Names

\* When all requests are answered and no crash cut one off, the engine knows the
\* entities that have an id there, and if it never failed exactly those that exist
\* and are not built in (MirrorAgrees), however requests overlap, but for entities
\* whose deletion read them before their creation had stored the id
\* (NlpService.handleEntityPostCreate, handleEntityDelete).
THEOREM EngineKeptInStep == Spec => []MirrorAgrees
<1>1. TypeOK /\ HasValue /\ EngineInv /\ [Next]_vars => EngineInv'
  BY RequestUnconcerned, StepUnconcerned, InsertMirrored, AddMirrored, StoreMirrored,
     FindMirrored,
     TellMirrored, ToldMirrored, RemoveMirrored, CrashMirrored, StutterMirrored DEF Next, Step
<1>2. EngineInv => MirrorAgrees
  <2> SUFFICES ASSUME EngineInv, \A r \in Reqs : pc[r] = "idle", "crash" \notin mode.faults,
                      NEW e \in Entities \ astray
               PROVE  /\ e \in foreign => e \in engine
                      /\ mode.faults = {} => (e \in engine <=> e \in here \ builtin)
    BY DEF MirrorAgrees, At
  <2>1. ~Dismissed(e) /\ ~In("storeId", e) /\ ~In("addEntity", e)
    BY DEF Dismissed, In
  <2> QED BY <2>1 DEF EngineInv, Mirrored, Exactly
<1> QED BY <1>1, <1>2, EngineInit, TypeCorrect, PTL DEF Spec

=============================================================================
