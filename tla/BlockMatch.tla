------------------------------ MODULE BlockMatch ------------------------------
(***************************************************************************)
(* Which block answers a message: BlockService.match(), with the scores of *)
(* NLU patterns, and matchOutcome().                                       *)
(*                                                                         *)
(* Blocks are created one after the other and read back in that order, the *)
(* order in which the repository sorts what it finds.  Texts are compared  *)
(* trimmed and in lower case, so a text stands for all its spellings; a    *)
(* payload is the sequence of its parts, which colons separate.  Scores    *)
(* are integers: Penalty and Whole are the penalty factor and 1.           *)
(***************************************************************************)
EXTENDS Integers, SequencesExt

CONSTANTS
  BlockSet,        \* the blocks that may be created
  BlockLimit,      \* bound of the blocks created
  Labels,
  Events,          \* the messages that may come
  Outcomes,        \* the outcomes of system blocks
  Weight,          \* Weight[n]: the weight of NLU entity n
  Penalty, Whole,
  NoBlock, NoEvent, NoType, NoPayload, NoText

ASSUME MatchAssumption ==
  /\ BlockLimit \in Nat
  /\ IsFiniteSet(Labels)
  /\ NoBlock \notin BlockSet
  /\ Whole \in Nat /\ Penalty \in 0 .. Whole
  /\ \A n \in DOMAIN Weight : Weight[n] \in Int
  /\ \A b \in BlockSet :
       /\ b.labels \subseteq Labels
       /\ b.patterns \in Seq(ToSet(b.patterns))
       /\ \A p \in ToSet(b.patterns) : p.kind = "nlp" => p.all \in Seq(ToSet(p.all))
  /\ \A e \in Events :
       /\ e.labels \subseteq Labels
       /\ e.entities \in Seq(ToSet(e.entities))
       /\ \A n \in ToSet(e.entities) : n.confidence \in Int

VARIABLES
  blocks,     \* in the order they were created
  event,      \* the message to answer, or NoEvent
  multiple,   \* canHaveMultipleMatches
  answer      \* the block that answers, or NoBlock

vars == <<blocks, event, multiple, answer>>

-----------------------------------------------------------------------------
(* Whom a block is for.                                                    *)

IsChannelSupported(b, e) == b.channels = {} \/ e.channel \in b.channels

MatchesSubscriberLabels(b, e) == b.labels = {} \/ b.labels \cap e.labels # {}

\* The elements of s that are in A, in their order; a fold, for the proofs.
Only(s, A) ==
  FoldLeft(LAMBDA kept, x : IF x \in A THEN Append(kept, x) ELSE kept, <<>>, s)

Candidates(bs, e) ==
  Only(bs, {b \in ToSet(bs) : IsChannelSupported(b, e) /\ MatchesSubscriberLabels(b, e)})

\* Blocks with more labels first, in the given order among equals.
Prioritized_Not(bs) == bs
Prioritized(bs) ==
  LET n == Cardinality(Labels) + 1
  IN  FlattenSeq([i \in 1 .. n |->
        Only(bs, {b \in ToSet(bs) : Cardinality(b.labels) = n - i})])

-----------------------------------------------------------------------------
(* Patterns of payloads and texts.                                         *)

PatternsOf(b, kind) == {p \in ToSet(b.patterns) : p.kind = kind}

MatchPayload(payload, b) ==
  \E p \in PatternsOf(b, "payload") :
    \/ payload.parts # <<>> /\ p.value # <<>> /\ IsPrefix(p.value, payload.parts)
    \/ p.type # NoType /\ p.type = payload.type

MatchText(text, b) ==
  \/ \E p \in PatternsOf(b, "regex") : text \in p.texts
  \/ \E p \in PatternsOf(b, "payload") : text = p.label
  \/ \E p \in PatternsOf(b, "text") : text = p.text

-----------------------------------------------------------------------------
(* NLU patterns: a block has lists of them, and a list matches as a whole. *)

\* The entities of the prediction that are known, scored by their weights.
ScoredEntities(entities) ==
  LET known == Only(entities, {n \in ToSet(entities) : n.entity \in DOMAIN Weight})
  IN  [i \in DOMAIN known |->
        [entity    |-> known[i].entity,
         value     |-> known[i].value,
         canonical |-> known[i].canonical,
         score     |-> known[i].confidence * Weight[known[i].entity]]]

MatchesNluEntity(n, p) ==
  /\ n.entity = p.entity
  /\ p.match = "value" => p.value \in {n.value, n.canonical}

MatchingNluPatterns(entities, b) ==
  {p \in PatternsOf(b, "nlp") :
     \A q \in ToSet(p.all) : \E n \in ToSet(entities) : MatchesNluEntity(n, q)}

PatternScore(n, q) == n.score * (IF q.match = "entity" THEN Penalty ELSE Whole)

\* The first entity that matches counts for a pattern.
NluPatternMatchScore_Once(p, entities) ==
  LET q == p.all[1]
  IN  PatternScore(entities[SelectInSeq(entities, LAMBDA n : MatchesNluEntity(n, q))], q)
NluPatternMatchScore(p, entities) ==
  LET Add(score, q) ==
        LET i == SelectInSeq(entities, LAMBDA n : MatchesNluEntity(n, q))
        IN  IF i = 0 THEN score ELSE score + PatternScore(entities[i], q)
  IN  FoldLeft(Add, 0, p.all)

NluScore(b, entities) ==
  Max({0} \cup {NluPatternMatchScore(p, entities) :
                  p \in MatchingNluPatterns(entities, b)})

\* The first block of the highest score, which must be positive.
MatchBestNLP(bs, entities) ==
  LET Better(best, b) ==
        IF NluScore(b, entities) > (IF best = NoBlock THEN 0 ELSE NluScore(best, entities))
        THEN b ELSE best
  IN  FoldLeft(Better, NoBlock, bs)

-----------------------------------------------------------------------------
(* match() and matchOutcome().                                             *)

\* One of the blocks, or none when they are several and may not be.
Pick(matches, many) ==
  IF Len(matches) > 1 /\ ~many THEN NoBlock ELSE matches[1]

Match(bs, e, many) ==
  LET cs       == Prioritized(Candidates(bs, e))
      payloads == IF e.payload = NoPayload THEN <<>>
                  ELSE Only(cs, {b \in ToSet(cs) : MatchPayload(e.payload, b)})
      texts    == IF e.text = NoText THEN <<>>
                  ELSE Only(cs, {b \in ToSet(cs) : MatchText(e.text, b)})
  IN  IF payloads # <<>> THEN Pick(payloads, many)
      ELSE IF texts # <<>> THEN Pick(texts, many)
      ELSE MatchBestNLP(cs, ScoredEntities(e.entities))

HasOutcome(b, outcome) ==
  \E p \in PatternsOf(b, "payload") :
    p.type = "outcome" /\ p.value \in {<<"any">>, <<outcome>>}

MatchOutcome(bs, e, outcome) ==
  LET matches == Only(Candidates(bs, e), {b \in ToSet(bs) : HasOutcome(b, outcome)})
  IN  IF matches = <<>> THEN NoBlock ELSE matches[1]

-----------------------------------------------------------------------------

Init ==
  /\ blocks = <<>>
  /\ event = NoEvent
  /\ multiple = TRUE
  /\ answer = NoBlock

CreateBlock(b) ==
  /\ event = NoEvent
  /\ Len(blocks) < BlockLimit
  /\ b \notin ToSet(blocks)
  /\ blocks' = Append(blocks, b)
  /\ UNCHANGED <<event, multiple, answer>>

\* A message comes: several blocks may match it at the entrance, or after a
\* block without a local fallback.
AnswerMessage(e, many) ==
  /\ event = NoEvent
  /\ event' = e
  /\ multiple' = many
  /\ answer' = Match(blocks, e, many)
  /\ UNCHANGED blocks

\* A system block, sent in answer to e, ends with an outcome.
AnswerOutcome(e, outcome) ==
  /\ event = NoEvent
  /\ event' = [channel |-> e.channel, labels |-> e.labels, outcome |-> outcome]
  /\ answer' = MatchOutcome(blocks, e, outcome)
  /\ UNCHANGED <<blocks, multiple>>

Next ==
  \/ \E b \in BlockSet : CreateBlock(b)
  \/ \E e \in Events, many \in BOOLEAN : AnswerMessage(e, many)
  \/ \E e \in Events, outcome \in Outcomes : AnswerOutcome(e, outcome)

Spec == Init /\ [][Next]_vars

-----------------------------------------------------------------------------
(* Properties.                                                             *)

Matching == event # NoEvent /\ "outcome" \notin DOMAIN event

\* The blocks the message is for, and those of them its payload or text says.
Audience ==
  {b \in ToSet(blocks) :
     /\ b.channels # {} => event.channel \in b.channels
     /\ b.labels # {} => \E l \in b.labels : l \in event.labels}

ByPayload == {b \in Audience : event.payload # NoPayload /\ MatchPayload(event.payload, b)}

ByText == {b \in Audience : event.text # NoText /\ MatchText(event.text, b)}

Named == IF ByPayload # {} THEN ByPayload ELSE ByText

\* A message whose payload, or else text, names blocks is answered by one of
\* them, and "priority goes to block who target users with labels": none of
\* the others has more labels.  When only one match may be and there are
\* several, it is left to the local fallback; the payload is never given up for
\* the text, nor the text for a prediction (match).
NamedAnswers ==
  Matching /\ Named # {} =>
    IF ~multiple /\ Cardinality(Named) > 1
    THEN answer = NoBlock
    ELSE /\ answer \in Named
         /\ \A b \in Named : Cardinality(b.labels) <= Cardinality(answer.labels)

\* Of blocks that are not named, the answer is one whose predicted entities
\* weigh the most, and there is one as soon as any has a matching list of
\* patterns of positive score.
MatchedLists(b) ==
  {p \in PatternsOf(b, "nlp") :
     \A q \in ToSet(p.all) : \E i \in DOMAIN event.entities :
        event.entities[i].entity \in DOMAIN Weight /\ MatchesNluEntity(event.entities[i], q)}

Total(p) ==
  LET first(q) == Min({i \in DOMAIN event.entities :
                         /\ event.entities[i].entity \in DOMAIN Weight
                         /\ MatchesNluEntity(event.entities[i], q)})
      part(q) == LET n == event.entities[first(q)]
                 IN  n.confidence * Weight[n.entity]
                       * (IF q.match = "entity" THEN Penalty ELSE Whole)
  IN  FoldLeft(LAMBDA total, q : total + part(q), 0, p.all)

BestPredictionAnswers ==
  Matching /\ Named = {} =>
    LET lists == UNION {{b} \X {p \in MatchedLists(b) : Total(p) > 0} : b \in Audience}
    IN  IF lists = {} THEN answer = NoBlock
        ELSE \E x \in lists : x[1] = answer /\ \A y \in lists : Total(y[2]) <= Total(x[2])

=============================================================================
