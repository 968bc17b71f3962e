------------------------------ MODULE BotProofs ------------------------------
(***************************************************************************)
(* Theorems about Bot, for every catalogue of blocks, any number of        *)
(* messages and subscribers, and whatever interleaves or fails.            *)
(***************************************************************************)
EXTENDS Bot, TLAPS

USE CatalogueAssumption

-----------------------------------------------------------------------------
(* The updates of a document.                                              *)

LEMMA ConvoFields ==
  ASSUME NEW d \in Convo
  PROVE  /\ d.status \in {"absent", "active", "ended"}
         /\ d.current \in Blocks \cup {NoBlock}
         /\ d.next \in SUBSET Blocks
         /\ d.attempt \in Nat
         /\ d.captured \in SUBSET Msgs
  BY DEF Convo

LEMMA NewConvoFields ==
  /\ NewConvo \in Convo
  /\ NewConvo.status = "active" /\ NewConvo.current = NoBlock
  /\ NewConvo.next = {} /\ NewConvo.attempt = 0 /\ NewConvo.captured = {}
  /\ NoDocument \in Convo
  /\ NoDocument.status = "absent" /\ NoDocument.current = NoBlock
  /\ NoDocument.attempt = 0
  BY DEF NewConvo, NoDocument, Convo

LEMMA WithContextFields ==
  ASSUME NEW d \in Convo, NEW a \in Nat, NEW k \in SUBSET Msgs
  PROVE  /\ WithContext(d, a, k) \in Convo
         /\ WithContext(d, a, k).status = d.status
         /\ WithContext(d, a, k).current = d.current
         /\ WithContext(d, a, k).next = d.next
         /\ WithContext(d, a, k).attempt = a
  BY DEF Convo, WithContext

LEMMA WithQuestionFields ==
  ASSUME NEW d \in Convo, NEW b \in Blocks, NEW n \in SUBSET Blocks
  PROVE  /\ WithQuestion(d, b, n) \in Convo
         /\ WithQuestion(d, b, n).status = d.status
         /\ WithQuestion(d, b, n).current = b
         /\ WithQuestion(d, b, n).next = n
         /\ WithQuestion(d, b, n).attempt = d.attempt
  BY DEF Convo, WithQuestion

LEMMA EndedFields ==
  ASSUME NEW d \in Convo
  PROVE  /\ Ended(d) \in Convo
         /\ Ended(d).status = "ended"
         /\ Ended(d).current = d.current
         /\ Ended(d).next = d.next
         /\ Ended(d).attempt = d.attempt
  BY DEF Convo, Ended

LEMMA CapturedFields ==
  ASSUME NEW d \in Convo
  PROVE  /\ \A a \in Nat, k \in SUBSET Msgs : WithContext(d, a, k).captured = k
         /\ \A b \in Blocks, n \in SUBSET Blocks : WithQuestion(d, b, n).captured = d.captured
         /\ Ended(d).captured = d.captured
  BY DEF Convo, WithContext, WithQuestion, Ended

-----------------------------------------------------------------------------
(* Type correctness.                                                       *)

\* A handler knows a conversation and a block wherever it uses one.
Located ==
  \A m \in Msgs :
    /\ pc[m] \in Working => on[m] \in Msgs
    /\ pc[m] \in {"store", "create", "storeEntry"} \cup Triggering
         => block[m] \in Blocks
    /\ pc[m] = "escape" => seen[m].current \in Blocks

LEMMA InitTyped == Init => TypeOK /\ Located
  BY NewConvoFields DEF Init, TypeOK, Located, Location, Working, Triggering

\* What storing a context writes.
LEMMA StoreEffect ==
  ASSUME TypeOK, NEW m \in Msgs, on[m] \in Msgs
  PROVE  /\ NextAttempt(m) \in Nat
         /\ seen[m].attempt \in Nat
         /\ Captured(m) \in SUBSET Msgs
         /\ seen[m].captured \in SUBSET Msgs
         /\ \A a \in Nat, k \in SUBSET Msgs :
              /\ WithContext(seen[m], a, k) \in Convo
              /\ WithContext(convo[on[m]], a, k) \in Convo
              /\ WriteContext(m, a, k) => convo' \in [Msgs -> Convo]
  BY ConvoFields, WithContextFields
     DEF TypeOK, NextAttempt, Captured, WriteContext

\* What selecting a block changes.
LEMMA SelectTyped ==
  ASSUME TypeOK, Located, NEW m \in Msgs, NEW b \in Blocks, NEW f \in BOOLEAN,
         NEW l \in {"store", "create"}, l = "store" => on[m] \in Msgs
  PROVE  Select(m, l, b, f) => TypeOK' /\ Located'
  BY DEF Select, Goto, TypeOK, Located, Location, Working, Triggering

\* What resuming elsewhere changes.
LEMMA ResumeTyped ==
  ASSUME TypeOK, Located, NEW m \in Msgs,
         NEW l \in {"find", "entry", "fallback", "done"}
  PROVE  Resume(m, l) => TypeOK' /\ Located'
  BY DEF Resume, Goto, TypeOK, Located, Location, Working, Triggering, local

\* What giving up a flow changes.
LEMMA EndTyped ==
  ASSUME TypeOK, Located, NEW m \in Msgs, pc[m] \in Working
  PROVE  Abandon(m) \/ EndFlow(m) => TypeOK' /\ Located'
  BY DEF Abandon, EndFlow, EmitEnd, Goto, TypeOK, Located, Location, Working,
         Triggering, local

LEMMA TypeStep == TypeOK /\ Located /\ [Next]_vars => TypeOK' /\ Located'
<1> SUFFICES ASSUME TypeOK, Located, [Next]_vars PROVE TypeOK' /\ Located'
  OBVIOUS
<1>0. \A m \in Msgs : seen[m] \in Convo /\ convo[m] \in Convo
  BY DEF TypeOK
<1>u. USE DEF TypeOK, Located, Location, Working, Triggering, At, Goto, EmitEnd,
              Resume, Abandon, EndFlow, local
<1>1. ASSUME NEW m \in Msgs, ReceiveMessage(m) PROVE TypeOK' /\ Located'
  BY <1>1 DEF ReceiveMessage
<1>2. ASSUME NEW m \in Msgs, FindConversation(m) PROVE TypeOK' /\ Located'
  BY <1>2 DEF FindConversation, Active
<1>3. ASSUME NEW m \in Msgs, MatchNextBlock(m) PROVE TypeOK' /\ Located'
  <2>1. ASSUME NEW b \in seen[m].next, Select(m, "store", b, FALSE)
        PROVE  TypeOK' /\ Located'
    BY <1>0, <1>3, <2>1, ConvoFields, SelectTyped DEF MatchNextBlock
  <2>2. CASE Resume(m, "escape")
    BY <1>0, <1>3, <2>2, ConvoFields DEF MatchNextBlock
  <2>3. CASE Abandon(m)
    BY <1>3, <2>3, EndTyped DEF MatchNextBlock
  <2>4. QED
    BY <1>3, <2>1, <2>2, <2>3 DEF MatchNextBlock
<1>4. ASSUME NEW m \in Msgs, MatchWithoutCurrent(m) PROVE TypeOK' /\ Located'
  BY <1>4 DEF MatchWithoutCurrent
<1>5. ASSUME NEW m \in Msgs, HandleFlowEscape(m) PROVE TypeOK' /\ Located'
  <2>1. ASSUME NEW b \in seen[m].next, Select(m, "store", b, FALSE)
        PROVE  TypeOK' /\ Located'
    BY <1>0, <1>5, <2>1, ConvoFields, SelectTyped DEF HandleFlowEscape
  <2>2. CASE Select(m, "store", seen[m].current, TRUE)
    BY <1>5, <2>2, SelectTyped DEF HandleFlowEscape
  <2>3. CASE Abandon(m)
    BY <1>5, <2>3, EndTyped DEF HandleFlowEscape
  <2>4. QED
    BY <1>5, <2>1, <2>2, <2>3 DEF HandleFlowEscape
<1>6. ASSUME NEW m \in Msgs, StoreContext(m) PROVE TypeOK' /\ Located'
  BY <1>6, StoreEffect DEF StoreContext, StoreAndTrigger, StoreFails
<1>7. ASSUME NEW m \in Msgs, ProcessBlock(m) PROVE TypeOK' /\ Located'
  BY <1>7 DEF ProcessBlock
<1>8. ASSUME NEW m \in Msgs, SendBlock(m) PROVE TypeOK' /\ Located'
  BY <1>8 DEF SendBlock, Reply
<1>9. ASSUME NEW m \in Msgs, FollowAttached(m) PROVE TypeOK' /\ Located'
  BY <1>9 DEF FollowAttached, Chained, Continue
<1>10. ASSUME NEW m \in Msgs, MatchOutcome(m) PROVE TypeOK' /\ Located'
  <2>1. Followers(m) \subseteq Blocks
    BY <1>0, <1>10, ConvoFields DEF MatchOutcome, Followers
  <2>2. ASSUME NEW b \in Followers(m), Continue(m, "outcome", b)
        PROVE  TypeOK' /\ Located'
    BY <1>10, <2>1, <2>2 DEF MatchOutcome, Continue
  <2>3. CASE EndFlow(m)
    BY <1>10, <2>3, EndTyped DEF MatchOutcome
  <2>4. CASE Resume(m, "done")
    BY <2>4, ResumeTyped
  <2>5. QED
    BY <1>10, <2>2, <2>3, <2>4 DEF MatchOutcome
<1>11. ASSUME NEW m \in Msgs, StoreOutcomeContext(m) PROVE TypeOK' /\ Located'
  BY <1>11, StoreEffect DEF StoreOutcomeContext, StoreAndTrigger, StoreFails
<1>12. ASSUME NEW m \in Msgs, WaitForReply(m) PROVE TypeOK' /\ Located'
  BY <1>0, <1>12, ConvoFields, WithQuestionFields DEF WaitForReply, Followers
<1>13. ASSUME NEW m \in Msgs, NoFollower(m) PROVE TypeOK' /\ Located'
  BY <1>13 DEF NoFollower
<1>14. ASSUME NEW m \in Msgs, MatchEntryBlock(m) PROVE TypeOK' /\ Located'
  <2>1. ASSUME NEW b \in EntryBlocks, Select(m, "create", b, FALSE)
        PROVE  TypeOK' /\ Located'
    BY <2>1, SelectTyped
  <2>2. CASE Resume(m, "fallback") \/ Resume(m, "done")
    BY <2>2, ResumeTyped
  <2>3. QED
    BY <1>14, <2>1, <2>2 DEF MatchEntryBlock
<1>15. ASSUME NEW m \in Msgs, SendGlobalFallback(m) PROVE TypeOK' /\ Located'
  <2>1. CASE FallbackBlock # NoBlock /\ Select(m, "create", FallbackBlock, FALSE)
    BY <2>1, SelectTyped
  <2>2. CASE /\ \/ sent' = [sent EXCEPT ![m] = @ \cup {<<NoConvo, NoBlock>>}]
                \/ UNCHANGED sent
             /\ Goto(m, "done")
             /\ UNCHANGED <<convo, local, ending>>
    BY <2>2
  <2>3. QED
    BY <1>15, <2>1, <2>2 DEF SendGlobalFallback
<1>16. ASSUME NEW m \in Msgs, StartConversation(m) PROVE TypeOK' /\ Located'
  BY <1>16, NewConvoFields DEF StartConversation
<1>17. ASSUME NEW m \in Msgs, StoreEntryContext(m) PROVE TypeOK' /\ Located'
  BY <1>17, StoreEffect DEF StoreEntryContext, StoreAndTrigger, StoreFails
<1>18. ASSUME NEW c \in Msgs, EndConversation(c) PROVE TypeOK' /\ Located'
  BY <1>0, <1>18, EndedFields DEF EndConversation
<1>19. CASE UNCHANGED vars
  BY <1>19 DEF vars
<1>20. QED
  BY <1>1, <1>2, <1>3, <1>4, <1>5, <1>6, <1>7, <1>8, <1>9, <1>10, <1>11, <1>12,
     <1>13, <1>14, <1>15, <1>16, <1>17, <1>18, <1>19 DEF Next, HandlerStep

\* The collections and the handlers keep their types (TypeOK).
THEOREM TypeCorrect == Spec => [](TypeOK /\ Located)
<1>1. Init => TypeOK /\ Located
  BY InitTyped
<1>2. (TypeOK /\ Located) /\ [Next]_vars => (TypeOK /\ Located)'
  BY TypeStep
<1>3. QED
  BY <1>1, <1>2, PTL DEF Spec

-----------------------------------------------------------------------------
(* The counter of local fallbacks.                                         *)

\* A handler counts from a copy within the bound, and attempts a fallback
\* only from a copy within the limit.
Bounded ==
  /\ AttemptBounded
  /\ \A m \in Msgs :
       /\ seen[m].attempt <= AttemptLimit + 1
       /\ pc[m] = "escape" \/ (pc[m] = "store" /\ fallback[m])
            => seen[m].attempt <= AttemptLimit

LEMMA InitBounded == Init => Bounded
  BY NewConvoFields DEF Init, Bounded, AttemptBounded

\* A step that leaves the documents and the copies alone and puts no handler
\* into the local fallback keeps the bound.
LEMMA QuietStepBounded ==
  ASSUME TypeOK, Bounded, NEW m \in Msgs, UNCHANGED <<convo, seen>>,
         NEW l \in Location, pc' = [pc EXCEPT ![m] = l],
         \A n \in Msgs \ {m} : fallback'[n] = fallback[n],
         l = "escape" \/ (l = "store" /\ fallback'[m])
            => seen[m].attempt <= AttemptLimit
  PROVE  Bounded'
  BY DEF TypeOK, Bounded, AttemptBounded

\* Storing a context with a bounded counter keeps the bound.
LEMMA StoreBounded ==
  ASSUME TypeOK, Bounded, NEW m \in Msgs, on[m] \in Msgs,
         NEW a \in Nat, a <= AttemptLimit + 1, NEW k \in SUBSET Msgs
  PROVE  /\ StoreAndTrigger(m, a, k) => Bounded'
         /\ \A l \in {"entry", "done"} :
              StoreFails(m, a, k) /\ Goto(m, l) => Bounded'
<1>0. \A c \in Msgs : convo[c] \in Convo /\ seen[c] \in Convo
  BY DEF TypeOK
<1>1. WithContext(convo[on[m]], a, k).attempt = a
  BY <1>0, WithContextFields
<1>2. WithContext(seen[m], a, k).attempt = a
  BY <1>0, WithContextFields
<1>3. WriteContext(m, a, k) \/ UNCHANGED convo => AttemptBounded'
  BY <1>1 DEF WriteContext, TypeOK, Bounded, AttemptBounded
<1>4. StoreAndTrigger(m, a, k) => Bounded'
  BY <1>2, <1>3 DEF StoreAndTrigger, Goto, TypeOK, Bounded
<1>5. ASSUME StoreFails(m, a, k), NEW l \in {"entry", "done"}, Goto(m, l)
      PROVE  Bounded'
  BY <1>3, <1>5 DEF StoreFails, Goto, TypeOK, Bounded, local
<1>6. QED
  BY <1>4, <1>5

LEMMA BoundedStep == TypeOK /\ Located /\ Bounded /\ [Next]_vars => Bounded'
<1> SUFFICES ASSUME TypeOK, Located, Bounded, [Next]_vars PROVE Bounded'
  OBVIOUS
<1>0. \A m \in Msgs : seen[m] \in Convo /\ convo[m] \in Convo
  BY DEF TypeOK
<1>a. \A m \in Msgs : /\ seen[m].attempt \in Nat
                      /\ seen[m].captured \in SUBSET Msgs
  BY <1>0, ConvoFields
<1>1. ASSUME NEW m \in Msgs, ReceiveMessage(m) PROVE Bounded'
  BY <1>1, QuietStepBounded DEF ReceiveMessage, Resume, Goto, local, Location
<1>2. ASSUME NEW m \in Msgs, FindConversation(m) PROVE Bounded'
  <2>1. ASSUME NEW c \in Active(Sender[m]), Goto(m, "match"), UNCHANGED convo,
               seen' = [seen EXCEPT ![m] = convo[c]], UNCHANGED fallback
        PROVE  Bounded'
    BY <2>1 DEF TypeOK, Goto, Active, Bounded, AttemptBounded
  <2>2. CASE Resume(m, "entry")
    BY <2>2, QuietStepBounded DEF Resume, Goto, local, Location
  <2>3. QED
    BY <1>2, <2>1, <2>2 DEF FindConversation
<1>3. ASSUME NEW m \in Msgs, MatchNextBlock(m) PROVE Bounded'
  <2>1. ASSUME NEW b \in seen[m].next, Select(m, "store", b, FALSE)
        PROVE  Bounded'
    BY <2>1, QuietStepBounded DEF Select, Goto, TypeOK, Location
  <2>2. CASE ShouldAttemptLocalFallback(m) /\ Resume(m, "escape")
    <3>1. seen[m].attempt <= AttemptLimit
      BY <1>0, <1>3, <2>2, ConvoFields DEF MatchNextBlock, ShouldAttemptLocalFallback
    <3>2. QED
      BY <2>2, <3>1, QuietStepBounded DEF Resume, Goto, local, Location
  <2>3. CASE Abandon(m)
    BY <2>3, QuietStepBounded DEF Abandon, Goto, local, Location
  <2>4. QED
    BY <1>3, <2>1, <2>2, <2>3 DEF MatchNextBlock
<1>4. ASSUME NEW m \in Msgs, MatchWithoutCurrent(m) PROVE Bounded'
  BY <1>4, QuietStepBounded DEF MatchWithoutCurrent, Abandon, Goto, local, Location
<1>5. ASSUME NEW m \in Msgs, HandleFlowEscape(m) PROVE Bounded'
  <2>1. seen[m].attempt <= AttemptLimit
    BY <1>5 DEF HandleFlowEscape, At, Bounded
  <2>2. ASSUME NEW b, NEW f, Select(m, "store", b, f) PROVE Bounded'
    BY <2>1, <2>2, QuietStepBounded DEF Select, Goto, TypeOK, Location
  <2>3. CASE Abandon(m)
    BY <2>3, QuietStepBounded DEF Abandon, Goto, local, Location
  <2>4. QED
    BY <1>5, <2>2, <2>3 DEF HandleFlowEscape
<1>6. ASSUME NEW m \in Msgs, StoreContext(m) PROVE Bounded'
  <2>1. NextAttempt(m) \in Nat /\ NextAttempt(m) <= AttemptLimit + 1
    BY <1>6, <1>a DEF StoreContext, At, Bounded, NextAttempt
  <2>2. on[m] \in Msgs /\ Captured(m) \in SUBSET Msgs
    BY <1>6, <1>a DEF StoreContext, At, Located, Working, Captured
  <2>3. QED
    BY <1>6, <2>1, <2>2, StoreBounded DEF StoreContext
<1>7. ASSUME NEW m \in Msgs, ProcessBlock(m) PROVE Bounded'
  BY <1>7, QuietStepBounded DEF ProcessBlock, Resume, EndFlow, Goto, local, Location
<1>8. ASSUME NEW m \in Msgs, SendBlock(m) PROVE Bounded'
  BY <1>8, QuietStepBounded DEF SendBlock, EndFlow, Goto, local, Location
<1>9. ASSUME NEW m \in Msgs, FollowAttached(m) PROVE Bounded'
  BY <1>9, QuietStepBounded DEF FollowAttached, Continue, EndFlow, Goto, local, Location
<1>10. ASSUME NEW m \in Msgs, MatchOutcome(m) PROVE Bounded'
  BY <1>10, QuietStepBounded
     DEF MatchOutcome, Continue, Resume, EndFlow, Goto, local, Location
<1>11. ASSUME NEW m \in Msgs, StoreOutcomeContext(m) PROVE Bounded'
  <2>1. on[m] \in Msgs
    BY <1>11 DEF StoreOutcomeContext, At, Located, Working, Triggering
  <2>2. QED
    BY <1>11, <1>a, <2>1, StoreBounded DEF StoreOutcomeContext, Bounded
<1>12. ASSUME NEW m \in Msgs, WaitForReply(m) PROVE Bounded'
  <2>1. Followers(m) \in SUBSET Blocks /\ block[m] \in Blocks /\ on[m] \in Msgs
    BY <1>0, <1>12, ConvoFields
       DEF WaitForReply, At, Followers, Located, Working, Triggering
  <2>2. WithQuestion(convo[on[m]], block[m], Followers(m)).attempt
          = convo[on[m]].attempt
    BY <1>0, <2>1, WithQuestionFields
  <2>3. QED
    BY <1>12, <2>1, <2>2 DEF WaitForReply, Goto, TypeOK, Bounded, AttemptBounded, local
<1>13. ASSUME NEW m \in Msgs, NoFollower(m) PROVE Bounded'
  BY <1>13, QuietStepBounded DEF NoFollower, EndFlow, Goto, local, Location
<1>14. ASSUME NEW m \in Msgs, MatchEntryBlock(m) PROVE Bounded'
  <2>1. ASSUME NEW b, Select(m, "create", b, FALSE) PROVE Bounded'
    BY <2>1, QuietStepBounded DEF Select, Goto, TypeOK, Location
  <2>2. CASE Resume(m, "fallback") \/ Resume(m, "done")
    BY <2>2, QuietStepBounded DEF Resume, Goto, local, Location
  <2>3. QED
    BY <1>14, <2>1, <2>2 DEF MatchEntryBlock
<1>15. ASSUME NEW m \in Msgs, SendGlobalFallback(m) PROVE Bounded'
  <2>1. CASE Select(m, "create", FallbackBlock, FALSE)
    BY <2>1, QuietStepBounded DEF Select, Goto, TypeOK, Location
  <2>2. CASE Goto(m, "done") /\ UNCHANGED <<convo, local, ending>>
    BY <2>2, QuietStepBounded DEF Goto, local, Location
  <2>3. QED
    BY <1>15, <2>1, <2>2 DEF SendGlobalFallback
<1>16. ASSUME NEW m \in Msgs, StartConversation(m) PROVE Bounded'
  <2>1. CASE Resume(m, "done")
    BY <2>1, QuietStepBounded DEF Resume, Goto, local, Location
  <2>2. CASE /\ convo' = [convo EXCEPT ![m] = NewConvo]
             /\ seen' = [seen EXCEPT ![m] = NewConvo]
             /\ Goto(m, "storeEntry")
             /\ UNCHANGED fallback
    BY <2>2, NewConvoFields DEF Goto, TypeOK, Bounded, AttemptBounded
  <2>3. QED
    BY <1>16, <2>1, <2>2 DEF StartConversation
<1>17. ASSUME NEW m \in Msgs, StoreEntryContext(m) PROVE Bounded'
  <2>1. on[m] \in Msgs /\ Captured(m) \in SUBSET Msgs
    BY <1>17, <1>a DEF StoreEntryContext, At, Located, Working, Captured
  <2>2. QED
    BY <1>17, <1>a, <2>1, StoreBounded DEF StoreEntryContext, Bounded
<1>18. ASSUME NEW c \in Msgs, EndConversation(c) PROVE Bounded'
  BY <1>0, <1>18, EndedFields
     DEF EndConversation, TypeOK, Bounded, AttemptBounded, local
<1>19. CASE UNCHANGED vars
  BY <1>19 DEF vars, local, Bounded, AttemptBounded
<1>20. QED
  BY <1>1, <1>2, <1>3, <1>4, <1>5, <1>6, <1>7, <1>8, <1>9, <1>10, <1>11, <1>12,
     <1>13, <1>14, <1>15, <1>16, <1>17, <1>18, <1>19 DEF Next, HandlerStep

\* Whatever interleaves, a stored counter of local fallbacks exceeds the
\* largest max_attempts by one at most (AttemptBounded).
THEOREM FallbacksBounded == Spec => []AttemptBounded
<1>1. TypeOK /\ Located /\ Bounded /\ [Next]_vars => Bounded'
  BY BoundedStep
<1>2. Bounded => AttemptBounded
  BY DEF Bounded
<1>3. QED
  BY <1>1, <1>2, InitBounded, TypeCorrect, PTL DEF Spec

-----------------------------------------------------------------------------
(* Where conversations wait.                                               *)

\* Every copy waits where documents wait, and a local fallback runs the block
\* at which the copy waits.
Asking ==
  /\ WaitsAtQuestion
  /\ \A m \in Msgs :
       /\ seen[m].current # NoBlock =>
            /\ seen[m].current \in Questions
            /\ seen[m].next = NextBlocks[seen[m].current]
       /\ fallback[m] /\ pc[m] \in {"store"} \cup Triggering =>
            block[m] = seen[m].current /\ seen[m].current \in Blocks
       /\ pc[m] \in {"create", "storeEntry"} => ~fallback[m]

LEMMA InitAsking == Init => Asking
  BY NewConvoFields DEF Init, Asking, WaitsAtQuestion

\* A step that leaves documents and copies alone.
LEMMA QuietStepAsking ==
  ASSUME TypeOK, Asking, NEW m \in Msgs, UNCHANGED <<convo, seen>>,
         NEW l \in Location, pc' = [pc EXCEPT ![m] = l],
         \A n \in Msgs \ {m} : fallback'[n] = fallback[n] /\ block'[n] = block[n],
         fallback'[m] /\ l \in {"store"} \cup Triggering =>
           block'[m] = seen[m].current /\ seen[m].current \in Blocks,
         l \in {"create", "storeEntry"} => ~fallback'[m]
  PROVE  Asking'
<1>1. WaitsAtQuestion'
  BY DEF Asking, WaitsAtQuestion, Questions
<1>2. QED
  BY <1>1 DEF TypeOK, Asking, Questions

\* A step that changes nothing but the place of one handler: it does not enter
\* the run of a block that it has not selected.
LEMMA ResumeAsking ==
  ASSUME TypeOK, Asking, NEW m \in Msgs, UNCHANGED <<convo, local>>,
         NEW l \in Location \ {"create", "storeEntry"}, Goto(m, l),
         l \in {"store"} \cup Triggering => pc[m] \in {"store"} \cup Triggering
  PROVE  Asking'
  BY QuietStepAsking DEF Goto, local, Asking

LEMMA StoreAsking ==
  ASSUME TypeOK, Asking, NEW m \in Msgs, on[m] \in Msgs,
         NEW a \in Nat, NEW k \in SUBSET Msgs
  PROVE  /\ pc[m] \in {"store"} \cup Triggering \/ ~fallback[m]
              => (StoreAndTrigger(m, a, k) => Asking')
         /\ \A l \in {"entry", "done"} :
              StoreFails(m, a, k) /\ Goto(m, l) => Asking'
<1>0. \A c \in Msgs : convo[c] \in Convo /\ seen[c] \in Convo
  BY DEF TypeOK
<1>1. /\ WithContext(convo[on[m]], a, k).current = convo[on[m]].current
      /\ WithContext(convo[on[m]], a, k).next = convo[on[m]].next
      /\ WithContext(seen[m], a, k).current = seen[m].current
      /\ WithContext(seen[m], a, k).next = seen[m].next
  BY <1>0, WithContextFields
<1>2. WriteContext(m, a, k) \/ UNCHANGED convo => WaitsAtQuestion'
  BY <1>1 DEF WriteContext, TypeOK, Asking, WaitsAtQuestion, Questions
<1>3. ASSUME StoreAndTrigger(m, a, k),
             pc[m] \in {"store"} \cup Triggering \/ ~fallback[m]
      PROVE  Asking'
  <2>1. WaitsAtQuestion'
    BY <1>2, <1>3 DEF StoreAndTrigger
  <2>2. \A n \in Msgs : /\ seen'[n].current = seen[n].current
                        /\ seen'[n].next = seen[n].next
    BY <1>1, <1>3 DEF StoreAndTrigger, TypeOK
  <2>3. \A n \in Msgs : pc'[n] = IF n = m THEN "process" ELSE pc[n]
    BY <1>3 DEF StoreAndTrigger, Goto, TypeOK
  <2>4. UNCHANGED <<block, fallback>>
    BY <1>3 DEF StoreAndTrigger
  <2>5. QED
    BY <1>3, <2>1, <2>2, <2>3, <2>4 DEF Asking, Questions, Triggering
<1>4. ASSUME NEW l \in {"entry", "done"}, StoreFails(m, a, k), Goto(m, l)
      PROVE  Asking'
  BY <1>2, <1>4 DEF StoreFails, Goto, TypeOK, Asking, Questions, Triggering, local
<1>5. QED
  BY <1>3, <1>4

LEMMA AskingStep == TypeOK /\ Located /\ Asking /\ [Next]_vars => Asking'
<1> SUFFICES ASSUME TypeOK, Located, Asking, [Next]_vars PROVE Asking'
  OBVIOUS
<1>0. \A m \in Msgs : seen[m] \in Convo /\ convo[m] \in Convo
  BY DEF TypeOK
<1>a. \A m \in Msgs : /\ seen[m].attempt \in Nat
                      /\ seen[m].captured \in SUBSET Msgs
  BY <1>0, ConvoFields
<1>b. ASSUME NEW m \in Msgs, NEW l \in Location \ ({"store", "create", "storeEntry"} \cup Triggering),
             Resume(m, l)
      PROVE  Asking'
  BY <1>b, ResumeAsking DEF Resume
<1>c. ASSUME NEW m \in Msgs, Abandon(m) \/ EndFlow(m) PROVE Asking'
  BY <1>c, ResumeAsking DEF Abandon, EndFlow, Location, Triggering
<1>d. ASSUME NEW m \in Msgs, NEW l \in {"store", "create"}, NEW b,
             Select(m, l, b, FALSE)
      PROVE  Asking'
  BY <1>d, QuietStepAsking DEF Select, Goto, TypeOK, Location
<1>e. ASSUME NEW m \in Msgs, NEW l \in Triggering, NEW b, Continue(m, l, b),
             ~fallback[m]
      PROVE  Asking'
  BY <1>e, QuietStepAsking DEF Continue, Goto, TypeOK, Location, Triggering
<1>1. ASSUME NEW m \in Msgs, ReceiveMessage(m) PROVE Asking'
  BY <1>1, <1>b DEF ReceiveMessage, Location, Triggering
<1>2. ASSUME NEW m \in Msgs, FindConversation(m) PROVE Asking'
  <2>1. ASSUME NEW c \in Active(Sender[m]), Goto(m, "match"), UNCHANGED convo,
               seen' = [seen EXCEPT ![m] = convo[c]], UNCHANGED <<block, fallback>>
        PROVE  Asking'
    <3>1. WaitsAtQuestion'
      BY <2>1 DEF Asking, WaitsAtQuestion, Questions
    <3>2. QED
      BY <2>1, <3>1
         DEF TypeOK, Goto, Active, Asking, WaitsAtQuestion, Questions, Triggering
  <2>2. CASE Resume(m, "entry")
    BY <2>2, <1>b DEF Location, Triggering
  <2>3. QED
    BY <1>2, <2>1, <2>2 DEF FindConversation
<1>3. ASSUME NEW m \in Msgs, MatchNextBlock(m) PROVE Asking'
  BY <1>3, <1>b, <1>c, <1>d DEF MatchNextBlock, Location, Triggering
<1>4. ASSUME NEW m \in Msgs, MatchWithoutCurrent(m) PROVE Asking'
  BY <1>4, <1>c DEF MatchWithoutCurrent
<1>5. ASSUME NEW m \in Msgs, HandleFlowEscape(m) PROVE Asking'
  <2>1. CASE Select(m, "store", seen[m].current, TRUE)
    BY <1>5, <2>1, QuietStepAsking
       DEF HandleFlowEscape, Select, Goto, At, Located, TypeOK, Location
  <2>2. QED
    BY <1>5, <2>1, <1>c, <1>d DEF HandleFlowEscape
<1>6. ASSUME NEW m \in Msgs, StoreContext(m) PROVE Asking'
  <2>1. on[m] \in Msgs /\ NextAttempt(m) \in Nat /\ Captured(m) \in SUBSET Msgs
    BY <1>6, <1>a DEF StoreContext, At, Located, Working, NextAttempt, Captured
  <2>2. QED
    BY <1>6, <2>1, StoreAsking DEF StoreContext, At
<1>7. ASSUME NEW m \in Msgs, ProcessBlock(m) PROVE Asking'
  <2>1. ASSUME NEW l \in {"follow", "send"}, Resume(m, l) PROVE Asking'
    BY <1>7, <2>1, ResumeAsking DEF ProcessBlock, At, Resume, Location, Triggering
  <2>2. QED
    BY <1>7, <2>1, <1>c DEF ProcessBlock
<1>8. ASSUME NEW m \in Msgs, SendBlock(m) PROVE Asking'
  BY <1>8, <1>c, ResumeAsking DEF SendBlock, At, Location, Triggering
<1>9. ASSUME NEW m \in Msgs, FollowAttached(m) PROVE Asking'
  BY <1>9, <1>c, <1>e DEF FollowAttached, Chained, Triggering
<1>10. ASSUME NEW m \in Msgs, MatchOutcome(m) PROVE Asking'
  BY <1>10, <1>b, <1>c, <1>e DEF MatchOutcome, IsSystem, Location, Triggering
<1>11. ASSUME NEW m \in Msgs, StoreOutcomeContext(m) PROVE Asking'
  <2>1. on[m] \in Msgs
    BY <1>11 DEF StoreOutcomeContext, At, Located, Working, Triggering
  <2>2. QED
    BY <1>11, <1>a, <2>1, StoreAsking DEF StoreOutcomeContext, At, Triggering
<1>12. ASSUME NEW m \in Msgs, WaitForReply(m) PROVE Asking'
  <2>1. block[m] \in Blocks /\ on[m] \in Msgs /\ pc[m] \in Triggering
    BY <1>12 DEF WaitForReply, At, Located, Working, Triggering
  <2>2. /\ block[m] \in Questions
        /\ Followers(m) = NextBlocks[block[m]]
        /\ Followers(m) \in SUBSET Blocks
    <3>1. CASE fallback[m]
      <4>1. Followers(m) = seen[m].next
        BY <3>1 DEF Followers
      <4>2. block[m] = seen[m].current
        BY <2>1, <3>1 DEF Asking
      <4>3. block[m] \in Questions /\ seen[m].next = NextBlocks[block[m]]
        BY <2>1, <4>2 DEF Asking, CatalogueAssumption
      <4>4. NextBlocks[block[m]] \in SUBSET Blocks
        BY <2>1 DEF CatalogueAssumption
      <4>5. QED
        BY <4>1, <4>3, <4>4
    <3>2. CASE ~fallback[m]
      <4>1. /\ Followers(m) = NextBlocks[block[m]]
            /\ Chained(m) = AttachedBlock[block[m]]
            /\ IsSystem(m) <=> block[m] \in SystemBlocks
        BY <3>2 DEF Followers, Chained, IsSystem
      <4>2. QED
        BY <1>12, <2>1, <4>1 DEF WaitForReply, Questions, CatalogueAssumption
    <3>3. QED
      BY <3>1, <3>2
  <2>3. LET d == WithQuestion(convo[on[m]], block[m], Followers(m)) IN
          d.current = block[m] /\ d.next = Followers(m)
    BY <1>0, <2>1, <2>2, WithQuestionFields
  <2>4. WaitsAtQuestion'
    BY <1>12, <2>1, <2>2, <2>3
       DEF WaitForReply, TypeOK, Asking, WaitsAtQuestion, Questions
  <2>5. QED
    BY <1>12, <2>4
       DEF WaitForReply, Goto, TypeOK, Asking, Questions, Triggering, local
<1>13. ASSUME NEW m \in Msgs, NoFollower(m) PROVE Asking'
  BY <1>13, <1>c DEF NoFollower
<1>14. ASSUME NEW m \in Msgs, MatchEntryBlock(m) PROVE Asking'
  BY <1>14, <1>b, <1>d DEF MatchEntryBlock, Location, Triggering
<1>15. ASSUME NEW m \in Msgs, SendGlobalFallback(m) PROVE Asking'
  <2>1. CASE Goto(m, "done") /\ UNCHANGED <<convo, local, ending>>
    BY <2>1, ResumeAsking DEF Location, Triggering
  <2>2. QED
    BY <1>15, <2>1, <1>d DEF SendGlobalFallback
<1>16. ASSUME NEW m \in Msgs, StartConversation(m) PROVE Asking'
  <2>1. CASE /\ convo' = [convo EXCEPT ![m] = NewConvo]
             /\ seen' = [seen EXCEPT ![m] = NewConvo]
             /\ Goto(m, "storeEntry")
             /\ UNCHANGED <<block, fallback>>
    <3>0. ~fallback[m]
      BY <1>16 DEF StartConversation, At, Asking
    <3>1. WaitsAtQuestion'
      BY <2>1, NewConvoFields DEF TypeOK, Asking, WaitsAtQuestion, Questions
    <3>2. QED
      BY <2>1, <3>0, <3>1, NewConvoFields DEF Goto, TypeOK, Asking, Questions, Triggering
  <2>2. QED
    BY <1>16, <2>1, <1>b DEF StartConversation, Location, Triggering
<1>17. ASSUME NEW m \in Msgs, StoreEntryContext(m) PROVE Asking'
  <2>1. on[m] \in Msgs /\ Captured(m) \in SUBSET Msgs
    BY <1>17, <1>a DEF StoreEntryContext, At, Located, Working, Captured
  <2>2. QED
    BY <1>17, <1>a, <2>1, StoreAsking DEF StoreEntryContext, At, Asking
<1>18. ASSUME NEW c \in Msgs, EndConversation(c) PROVE Asking'
  <2>1. WaitsAtQuestion'
    BY <1>0, <1>18, EndedFields
       DEF EndConversation, TypeOK, Asking, WaitsAtQuestion, Questions
  <2>2. QED
    BY <1>18, <2>1 DEF EndConversation, Asking, Questions, local
<1>19. CASE UNCHANGED vars
  BY <1>19 DEF vars, local, Asking, WaitsAtQuestion, Questions
<1>20. QED
  BY <1>1, <1>2, <1>3, <1>4, <1>5, <1>6, <1>7, <1>8, <1>9, <1>10, <1>11, <1>12,
     <1>13, <1>14, <1>15, <1>16, <1>17, <1>18, <1>19 DEF Next, HandlerStep

\* Conversations wait at questions only (WaitsAtQuestion).
THEOREM ConversationsWaitAtQuestions == Spec => []WaitsAtQuestion
<1>1. TypeOK /\ Located /\ Asking /\ [Next]_vars => Asking'
  BY AskingStep
<1>2. Asking => WaitsAtQuestion
  BY DEF Asking
<1>3. QED
  BY <1>1, <1>2, InitAsking, TypeCorrect, PTL DEF Spec

-----------------------------------------------------------------------------
(* Which conversation answers a message.                                   *)

\* Nothing is sent before a block is triggered, and while blocks are being
\* triggered all replies are of the conversation the handler works on.
Replied ==
  /\ AnsweredByOneConversation
  /\ \A m \in Msgs :
       /\ pc[m] \notin Triggering \cup {"done"} => sent[m] = {}
       /\ pc[m] \in Triggering => \A r \in sent[m] : r[1] = on[m]

\* A step that sends nothing, and does not go back from triggering.
LEMMA MuteStep ==
  ASSUME TypeOK, Replied, NEW m \in Msgs, UNCHANGED sent,
         NEW l, pc' = [pc EXCEPT ![m] = l],
         \A n \in Msgs : on'[n] = on[n] \/ (n = m /\ sent[m] = {}),
         l # "done" => pc[m] \notin Triggering \cup {"done"}
                       \/ (l \in Triggering /\ pc[m] \in Triggering)
  PROVE  Replied'
<1>1. AnsweredByOneConversation'
  BY DEF Replied, AnsweredByOneConversation
<1>2. \A n \in Msgs : pc'[n] = IF n = m THEN l ELSE pc[n]
  BY DEF TypeOK
<1>3. QED
  BY <1>1, <1>2 DEF Replied

LEMMA RepliedStep == TypeOK /\ Located /\ Replied /\ [Next]_vars => Replied'
<1> SUFFICES ASSUME TypeOK, Located, Replied, [Next]_vars PROVE Replied'
  OBVIOUS
<1> USE DEF At, Goto
<1>a. ASSUME NEW m \in Msgs, NEW l, UNCHANGED <<on, sent>>, Goto(m, l),
             \/ l = "done"
             \/ pc[m] \notin Triggering \cup {"done"}
             \/ l \in Triggering /\ pc[m] \in Triggering
      PROVE  Replied'
  BY <1>a, MuteStep
<1>b. ASSUME NEW m \in Msgs, EndFlow(m) PROVE Replied'
  BY <1>b, <1>a DEF EndFlow, local
<1>1. ASSUME NEW m \in Msgs, ReceiveMessage(m) PROVE Replied'
  BY <1>1, <1>a DEF ReceiveMessage, Resume, Triggering, local
<1>2. ASSUME NEW m \in Msgs, FindConversation(m) PROVE Replied'
  <2>1. pc[m] = "find" /\ sent[m] = {}
    BY <1>2 DEF FindConversation, Replied, Triggering
  <2>2. ASSUME NEW c, Goto(m, "match"), on' = [on EXCEPT ![m] = c], UNCHANGED sent
        PROVE  Replied'
    BY <2>1, <2>2, MuteStep DEF Triggering, TypeOK
  <2>3. CASE Resume(m, "entry")
    BY <2>1, <2>3, <1>a DEF Resume, Triggering, local
  <2>4. QED
    BY <1>2, <2>2, <2>3 DEF FindConversation
<1>3. ASSUME NEW m \in Msgs, MatchNextBlock(m) PROVE Replied'
  BY <1>3, <1>a DEF MatchNextBlock, Select, Resume, Abandon, Triggering, local
<1>4. ASSUME NEW m \in Msgs, MatchWithoutCurrent(m) PROVE Replied'
  BY <1>4, <1>a DEF MatchWithoutCurrent, Abandon, Triggering, local
<1>5. ASSUME NEW m \in Msgs, HandleFlowEscape(m) PROVE Replied'
  BY <1>5, <1>a DEF HandleFlowEscape, Select, Abandon, Triggering, local
<1>6. ASSUME NEW m \in Msgs, StoreContext(m) PROVE Replied'
  BY <1>6, <1>a DEF StoreContext, StoreAndTrigger, StoreFails, Triggering, local
<1>7. ASSUME NEW m \in Msgs, ProcessBlock(m) PROVE Replied'
  BY <1>7, <1>a, <1>b DEF ProcessBlock, Resume, Triggering, local
<1>8. ASSUME NEW m \in Msgs, SendBlock(m) PROVE Replied'
  <2>1. ASSUME NEW l \in {"follow", "done"}, Reply(m), Goto(m, l), UNCHANGED on
        PROVE  Replied'
    <3>1. \A r \in sent'[m] : r[1] = on[m]
      BY <1>8, <2>1 DEF SendBlock, Reply, TypeOK, Replied, Triggering
    <3>2. \A n \in Msgs \ {m} : sent'[n] = sent[n] /\ pc'[n] = pc[n]
      BY <2>1 DEF Reply, TypeOK
    <3>3. pc'[m] = l
      BY <2>1 DEF TypeOK
    <3>4. AnsweredByOneConversation'
      BY <3>1, <3>2 DEF Replied, AnsweredByOneConversation
    <3>5. QED
      BY <2>1, <3>1, <3>2, <3>3, <3>4 DEF Replied, Triggering
  <2>2. QED
    BY <1>8, <1>b, <2>1 DEF SendBlock, local
<1>9. ASSUME NEW m \in Msgs, FollowAttached(m) PROVE Replied'
  BY <1>9, <1>a, <1>b DEF FollowAttached, Continue, Triggering
<1>10. ASSUME NEW m \in Msgs, MatchOutcome(m) PROVE Replied'
  BY <1>10, <1>a, <1>b DEF MatchOutcome, Continue, Resume, Triggering, local
<1>11. ASSUME NEW m \in Msgs, StoreOutcomeContext(m) PROVE Replied'
  BY <1>11, <1>a
     DEF StoreOutcomeContext, StoreAndTrigger, StoreFails, Triggering, local
<1>12. ASSUME NEW m \in Msgs, WaitForReply(m) PROVE Replied'
  BY <1>12, <1>a DEF WaitForReply, local
<1>13. ASSUME NEW m \in Msgs, NoFollower(m) PROVE Replied'
  BY <1>13, <1>b DEF NoFollower
<1>14. ASSUME NEW m \in Msgs, MatchEntryBlock(m) PROVE Replied'
  BY <1>14, <1>a DEF MatchEntryBlock, Select, Resume, Triggering, local
<1>15. ASSUME NEW m \in Msgs, SendGlobalFallback(m) PROVE Replied'
  <2>1. CASE sent' = [sent EXCEPT ![m] = @ \cup {<<NoConvo, NoBlock>>}]
             /\ Goto(m, "done") /\ UNCHANGED <<convo, local, ending>>
    <3>1. sent[m] = {}
      BY <1>15 DEF SendGlobalFallback, Replied, Triggering
    <3>2. \A n \in Msgs : /\ pc'[n] = IF n = m THEN "done" ELSE pc[n]
                          /\ sent'[n] = IF n = m THEN {<<NoConvo, NoBlock>>} ELSE sent[n]
      BY <2>1, <3>1 DEF TypeOK
    <3>3. AnsweredByOneConversation'
      BY <3>2 DEF Replied, AnsweredByOneConversation
    <3>4. QED
      BY <2>1, <3>2, <3>3 DEF Replied, Triggering, local
  <2>2. QED
    BY <1>15, <2>1, <1>a DEF SendGlobalFallback, Select, Triggering, local
<1>16. ASSUME NEW m \in Msgs, StartConversation(m) PROVE Replied'
  <2>1. pc[m] = "create" /\ sent[m] = {}
    BY <1>16 DEF StartConversation, Replied, Triggering
  <2>2. CASE Goto(m, "storeEntry") /\ on' = [on EXCEPT ![m] = m] /\ UNCHANGED sent
    BY <2>1, <2>2, MuteStep DEF Triggering, TypeOK
  <2>3. QED
    BY <1>16, <2>2, <1>a DEF StartConversation, Resume, local
<1>17. ASSUME NEW m \in Msgs, StoreEntryContext(m) PROVE Replied'
  BY <1>17, <1>a
     DEF StoreEntryContext, StoreAndTrigger, StoreFails, Triggering, local
<1>18. ASSUME NEW c \in Msgs, EndConversation(c) PROVE Replied'
  BY <1>18 DEF EndConversation, Replied, AnsweredByOneConversation, local
<1>19. CASE UNCHANGED vars
  BY <1>19 DEF vars, local, Replied, AnsweredByOneConversation
<1>20. QED
  BY <1>1, <1>2, <1>3, <1>4, <1>5, <1>6, <1>7, <1>8, <1>9, <1>10, <1>11, <1>12,
     <1>13, <1>14, <1>15, <1>16, <1>17, <1>18, <1>19 DEF Next, HandlerStep

\* A message is answered by one conversation only (AnsweredByOneConversation).
THEOREM OneConversationAnswers == Spec => []AnsweredByOneConversation
<1>1. Init => Replied
  BY DEF Init, Replied, AnsweredByOneConversation, Triggering
<1>2. Replied => AnsweredByOneConversation
  BY DEF Replied
<1>3. QED
  BY <1>1, <1>2, RepliedStep, TypeCorrect, PTL DEF Spec

-----------------------------------------------------------------------------
(* The engine implements the life cycle.                                   *)

\* Handlers work on, and ends are emitted for, conversations that exist; the
\* conversation of a message exists only once the message has opened it.
Living ==
  /\ \A m \in Msgs :
       /\ pc[m] \in Working => convo[on[m]].status # "absent"
       /\ pc[m] \notin {"storeEntry", "done"} \cup Triggering =>
            convo[m].status = "absent"
  /\ \A c \in ending : convo[c].status # "absent"

\* What a step does to one document, seen in the life cycle.
Unseen(d, e) == e.status = d.status /\ e.current = d.current
Opens(d, e)  == d.status = "absent" /\ e.status = "active" /\ e.current = NoBlock
Asks(d, e)   == e.status = d.status /\ e.current \in Questions
Closes(d, e) == d.status # "absent" /\ e.status = "ended"

LifeStep ==
  \/ UNCHANGED convo
  \/ \E c \in Msgs, e \in Convo :
       /\ convo' = [convo EXCEPT ![c] = e]
       /\ \/ Unseen(convo[c], e) \/ Opens(convo[c], e)
          \/ Asks(convo[c], e) \/ Closes(convo[c], e)

\* Each of these steps is a step of the life cycle or a stutter.
LEMMA LifeStepRefines ==
  ASSUME TypeOK, LifeStep
  PROVE  [Lifecycle!Next]_(Lifecycle!vars)
<1> DEFINE st(d) == CASE d.status = "absent" -> "absent"
                      [] d.status = "active" -> "open"
                      [] d.status = "ended"  -> "closed"
           qu(d) == IF d.status = "active" THEN d.current ELSE NoBlock
           stage == [c \in Msgs |-> st(convo[c])]
           question == [c \in Msgs |-> qu(convo[c])]
<1>1. CASE UNCHANGED convo
  BY <1>1 DEF Lifecycle!vars
<1>2. ASSUME NEW c \in Msgs, NEW e \in Convo, convo' = [convo EXCEPT ![c] = e],
             \/ Unseen(convo[c], e) \/ Opens(convo[c], e)
             \/ Asks(convo[c], e) \/ Closes(convo[c], e)
      PROVE  [Lifecycle!Next]_(Lifecycle!vars)
  <2>1. convo[c].status \in {"absent", "active", "ended"}
    BY ConvoFields DEF TypeOK
  <2>2. \A d \in Msgs : convo'[d] = IF d = c THEN e ELSE convo[d]
    BY <1>2 DEF TypeOK
  <2>a. /\ stage' = [d \in Msgs |-> st(convo'[d])]
        /\ question' = [d \in Msgs |-> qu(convo'[d])]
    OBVIOUS
  <2> HIDE DEF st, qu
  <2>3. stage' = [stage EXCEPT ![c] = st(e)]
    BY <2>a, <2>2
  <2>4. question' = [question EXCEPT ![c] = qu(e)]
    BY <2>a, <2>2
  <2>5. stage[c] = st(convo[c]) /\ question[c] = qu(convo[c])
    OBVIOUS
  <2>6. stage = [d \in Msgs |-> stage[d]] /\ question = [d \in Msgs |-> question[d]]
    OBVIOUS
  <2> HIDE DEF stage, question
  <2> USE DEF st, qu
  <2>7. /\ st(e) = stage[c] => stage' = stage
        /\ qu(e) = question[c] => question' = question
    BY <2>3, <2>4, <2>6
  <2>8. Lifecycle!Open(c) \/ Lifecycle!Close(c)
        \/ (\E q \in Questions : Lifecycle!Ask(c, q)) \/ UNCHANGED <<stage, question>>
    <3>1. CASE Unseen(convo[c], e)
      BY <2>5, <2>7, <3>1 DEF Unseen
    <3>2. CASE Opens(convo[c], e)
      <4>1. /\ stage[c] = "absent" /\ st(e) = "open"
            /\ question[c] = NoBlock /\ qu(e) = NoBlock
        BY <2>5, <3>2 DEF Opens
      <4>2. QED
        BY <2>3, <2>7, <4>1 DEF Lifecycle!Open, stage, question
    <3>3. CASE Asks(convo[c], e)
      <4>1. CASE convo[c].status = "active"
        <5>1. stage[c] = "open" /\ st(e) = "open" /\ qu(e) = e.current
          BY <2>5, <3>3, <4>1 DEF Asks
        <5>2. QED
          BY <2>4, <2>7, <3>3, <5>1 DEF Asks, Lifecycle!Ask, stage, question
      <4>2. CASE convo[c].status # "active"
        BY <2>5, <2>7, <3>3, <4>2 DEF Asks
      <4>3. QED
        BY <4>1, <4>2
    <3>4. CASE Closes(convo[c], e)
      <4>1. CASE convo[c].status = "active"
        <5>1. stage[c] = "open" /\ st(e) = "closed" /\ qu(e) = NoBlock
          BY <2>5, <3>4, <4>1 DEF Closes
        <5>2. QED
          BY <2>3, <2>4, <5>1 DEF Lifecycle!Close, stage, question
      <4>2. CASE convo[c].status = "ended"
        BY <2>5, <2>7, <3>4, <4>2 DEF Closes
      <4>3. QED
        BY <2>1, <3>4, <4>1, <4>2 DEF Closes
    <3>5. QED
      BY <1>2, <3>1, <3>2, <3>3, <3>4
  <2>9. QED
    BY <2>8 DEF Lifecycle!Next, Lifecycle!vars, stage, question
<1>3. QED
  BY <1>1, <1>2 DEF LifeStep

\* Where the conversation of the message itself may exist.
Opened == {"storeEntry", "done"} \cup Triggering

\* A handler moves, documents neither appear nor vanish.
LEMMA MoveLives ==
  ASSUME TypeOK, Located, Living, NEW m \in Msgs, NEW l, Goto(m, l),
         \A c \in Msgs : convo'[c].status = "absent" <=> convo[c].status = "absent",
         \A n \in Msgs : on'[n] = on[n] \/ n = m,
         l \in Working => on'[m] \in Msgs /\ convo[on'[m]].status # "absent",
         l \notin Opened => convo[m].status = "absent",
         \A c \in ending' : c \in Msgs /\ (c \in ending \/ convo[c].status # "absent")
  PROVE  Living'
<1>1. \A n \in Msgs : pc'[n] = IF n = m THEN l ELSE pc[n]
  BY DEF Goto, TypeOK
<1>2. ASSUME NEW n \in Msgs, pc'[n] \in Working
      PROVE  on'[n] \in Msgs /\ convo[on'[n]].status # "absent"
  BY <1>1, <1>2 DEF Living, Located
<1>3. ASSUME NEW n \in Msgs, pc'[n] \notin Opened
      PROVE  convo[n].status = "absent"
  BY <1>1, <1>3 DEF Living, Opened
<1>4. QED
  BY <1>2, <1>3 DEF Living, Opened

LEMMA StoreLives ==
  ASSUME TypeOK, Located, Living, NEW m \in Msgs, pc[m] \in Working,
         NEW a \in Nat, NEW k \in SUBSET Msgs
  PROVE  /\ StoreAndTrigger(m, a, k) => Living' /\ LifeStep
         /\ \A l \in {"entry", "done"} :
              /\ StoreFails(m, a, k) /\ Goto(m, l)
              /\ UNCHANGED ending \/ EmitEnd(on[m])
              /\ l \notin Opened => pc[m] \notin Opened
              => Living' /\ LifeStep
<1>0. on[m] \in Msgs /\ convo[on[m]] \in Convo /\ convo[on[m]].status # "absent"
  BY DEF TypeOK, Located, Living
<1>1. LET e == WithContext(convo[on[m]], a, k) IN
        e \in Convo /\ Unseen(convo[on[m]], e)
  BY <1>0, WithContextFields DEF Unseen
<1>2. WriteContext(m, a, k) \/ UNCHANGED convo =>
        /\ LifeStep
        /\ \A c \in Msgs : convo'[c].status = convo[c].status
  BY <1>0, <1>1 DEF WriteContext, LifeStep, Unseen, TypeOK
<1>3. ASSUME StoreAndTrigger(m, a, k) PROVE Living' /\ LifeStep
  BY <1>0, <1>2, <1>3, MoveLives DEF StoreAndTrigger, TypeOK, Opened, Triggering
<1>4. ASSUME NEW l \in {"entry", "done"}, StoreFails(m, a, k), Goto(m, l),
             UNCHANGED ending \/ EmitEnd(on[m]),
             l \notin Opened => pc[m] \notin Opened
      PROVE  Living' /\ LifeStep
  <2>1. l \notin Opened => convo[m].status = "absent"
    BY <1>4 DEF Living, Opened
  <2>2. l \notin Working
    BY <1>4 DEF Working, Triggering
  <2>3. \A c \in ending' : c \in Msgs /\ (c \in ending \/ convo[c].status # "absent")
    BY <1>0, <1>4 DEF EmitEnd, TypeOK
  <2>4. UNCHANGED on
    BY <1>4 DEF StoreFails, local
  <2>5. QED
    BY <1>2, <1>4, <2>1, <2>2, <2>3, <2>4, MoveLives DEF StoreFails
<1>5. QED
  BY <1>3, <1>4

LEMMA LivingStep ==
  ASSUME TypeOK, Located, Living, WaitsAtQuestion', [Next]_vars
  PROVE  Living' /\ LifeStep
<1> USE DEF At
<1>0. \A c \in Msgs : seen[c] \in Convo /\ convo[c] \in Convo
  BY DEF TypeOK
<1>a. \A m \in Msgs : /\ seen[m].attempt \in Nat
                      /\ seen[m].captured \in SUBSET Msgs
                      /\ NextAttempt(m) \in Nat
                      /\ Captured(m) \in SUBSET Msgs
  BY <1>0, ConvoFields DEF NextAttempt, Captured
\* A handler goes on, with the documents and the conversation it has.
<1>b. ASSUME NEW m \in Msgs, NEW l, Goto(m, l), UNCHANGED <<convo, on>>,
             UNCHANGED ending \/ (EmitEnd(on[m]) /\ pc[m] \in Working),
             l \in Working => pc[m] \in Working,
             l \notin Opened => pc[m] \notin Opened
      PROVE  Living' /\ LifeStep
  <2>1. LifeStep
    BY <1>b DEF LifeStep
  <2>2. l \notin Opened => convo[m].status = "absent"
    BY <1>b DEF Living, Opened
  <2>3. pc[m] \in Working => on[m] \in Msgs /\ convo[on[m]].status # "absent"
    BY DEF Living, Located
  <2>4. \A c \in ending' : c \in Msgs /\ (c \in ending \/ convo[c].status # "absent")
    BY <1>b, <2>3 DEF EmitEnd, TypeOK
  <2>5. QED
    BY <1>b, <2>1, <2>2, <2>3, <2>4, MoveLives
<1>c. ASSUME NEW m \in Msgs, EndFlow(m), pc[m] \in Working PROVE Living' /\ LifeStep
  BY <1>b, <1>c DEF EndFlow, Opened, Working, Triggering, local
<1>d. ASSUME NEW m \in Msgs, Abandon(m), pc[m] \in {"match", "escape"}
      PROVE  Living' /\ LifeStep
  BY <1>b, <1>d DEF Abandon, Opened, Working, Triggering, local
<1>1. ASSUME NEW m \in Msgs, ReceiveMessage(m) PROVE Living' /\ LifeStep
  BY <1>1, <1>b DEF ReceiveMessage, Resume, Opened, Working, Triggering, local
<1>2. ASSUME NEW m \in Msgs, FindConversation(m) PROVE Living' /\ LifeStep
  <2>1. pc[m] = "find" /\ convo[m].status = "absent"
    BY <1>2 DEF FindConversation, Living, Triggering
  <2>2. ASSUME NEW c \in Active(Sender[m]), Goto(m, "match"),
               on' = [on EXCEPT ![m] = c], UNCHANGED <<convo, ending>>
        PROVE  Living' /\ LifeStep
    <3>1. on'[m] \in Msgs /\ convo[on'[m]].status # "absent"
      BY <2>2 DEF Active, TypeOK
    <3>2. \A n \in Msgs : on'[n] = on[n] \/ n = m
      BY <2>2 DEF TypeOK
    <3>3. QED
      BY <2>1, <2>2, <3>1, <3>2, MoveLives DEF LifeStep, TypeOK
  <2>3. CASE Resume(m, "entry")
    BY <2>1, <2>3, <1>b DEF Resume, Opened, Working, Triggering, local
  <2>4. QED
    BY <1>2, <2>2, <2>3 DEF FindConversation
<1>3. ASSUME NEW m \in Msgs, MatchNextBlock(m) PROVE Living' /\ LifeStep
  BY <1>3, <1>b, <1>d
     DEF MatchNextBlock, Select, Resume, Opened, Working, Triggering, local
<1>4. ASSUME NEW m \in Msgs, MatchWithoutCurrent(m) PROVE Living' /\ LifeStep
  BY <1>4, <1>d DEF MatchWithoutCurrent
<1>5. ASSUME NEW m \in Msgs, HandleFlowEscape(m) PROVE Living' /\ LifeStep
  BY <1>5, <1>b, <1>d
     DEF HandleFlowEscape, Select, Opened, Working, Triggering
<1>6. ASSUME NEW m \in Msgs, StoreContext(m) PROVE Living' /\ LifeStep
  BY <1>6, <1>a, StoreLives DEF StoreContext, Opened, Working, Triggering
<1>7. ASSUME NEW m \in Msgs, ProcessBlock(m) PROVE Living' /\ LifeStep
  BY <1>7, <1>b, <1>c DEF ProcessBlock, Resume, Opened, Working, Triggering, local
<1>8. ASSUME NEW m \in Msgs, SendBlock(m) PROVE Living' /\ LifeStep
  BY <1>8, <1>b, <1>c DEF SendBlock, Opened, Working, Triggering, local
<1>9. ASSUME NEW m \in Msgs, FollowAttached(m) PROVE Living' /\ LifeStep
  BY <1>9, <1>b, <1>c DEF FollowAttached, Continue, Opened, Working, Triggering
<1>10. ASSUME NEW m \in Msgs, MatchOutcome(m) PROVE Living' /\ LifeStep
  BY <1>10, <1>b, <1>c
     DEF MatchOutcome, Continue, Resume, Opened, Working, Triggering, local
<1>11. ASSUME NEW m \in Msgs, StoreOutcomeContext(m) PROVE Living' /\ LifeStep
  BY <1>11, <1>a, StoreLives DEF StoreOutcomeContext, Opened, Working, Triggering
<1>12. ASSUME NEW m \in Msgs, WaitForReply(m) PROVE Living' /\ LifeStep
  <2>1. /\ pc[m] = "follow" /\ on[m] \in Msgs /\ block[m] \in Blocks
        /\ convo[on[m]].status # "absent" /\ seen[m].next \in SUBSET Blocks
    BY <1>0, <1>12, ConvoFields DEF WaitForReply, Working, Triggering, Living, Located
  <2>2. Followers(m) \in SUBSET Blocks
    BY <2>1 DEF Followers, CatalogueAssumption
  <2>3. CASE UNCHANGED convo
    BY <1>12, <2>1, <2>3, <1>b
       DEF WaitForReply, Opened, Working, Triggering, local
  <2>4. CASE convo' = [convo EXCEPT ![on[m]] =
                         WithQuestion(convo[on[m]], block[m], Followers(m))]
    <3> DEFINE e == WithQuestion(convo[on[m]], block[m], Followers(m))
    <3>1. e \in Convo /\ e.status = convo[on[m]].status /\ e.current = block[m]
      BY <1>0, <2>1, <2>2, WithQuestionFields
    <3> HIDE DEF e
    <3>2. convo'[on[m]] = e
      BY <2>1, <2>4 DEF TypeOK, e
    <3>3. e.current \in Questions
      BY <2>1, <3>1, <3>2 DEF WaitsAtQuestion, Questions
    <3>4. LifeStep
      BY <2>1, <2>4, <3>1, <3>3 DEF LifeStep, Asks, e
    <3>5. \A c \in Msgs : convo'[c].status = convo[c].status
      BY <2>1, <2>4, <3>1 DEF TypeOK, e
    <3>6. QED
      BY <1>12, <3>4, <3>5, MoveLives
         DEF WaitForReply, Opened, Working, Triggering, local, TypeOK
  <2>5. QED
    BY <1>12, <2>3, <2>4 DEF WaitForReply
<1>13. ASSUME NEW m \in Msgs, NoFollower(m) PROVE Living' /\ LifeStep
  BY <1>13, <1>c DEF NoFollower, Working, Triggering
<1>14. ASSUME NEW m \in Msgs, MatchEntryBlock(m) PROVE Living' /\ LifeStep
  BY <1>14, <1>b
     DEF MatchEntryBlock, Select, Resume, Opened, Working, Triggering, local
<1>15. ASSUME NEW m \in Msgs, SendGlobalFallback(m) PROVE Living' /\ LifeStep
  BY <1>15, <1>b
     DEF SendGlobalFallback, Select, Opened, Working, Triggering, local
<1>16. ASSUME NEW m \in Msgs, StartConversation(m) PROVE Living' /\ LifeStep
  <2>1. pc[m] = "create" /\ convo[m].status = "absent"
    BY <1>16 DEF StartConversation, Living, Triggering
  <2>2. CASE /\ convo' = [convo EXCEPT ![m] = NewConvo]
             /\ Goto(m, "storeEntry")
             /\ on' = [on EXCEPT ![m] = m]
             /\ UNCHANGED ending
    <3>1. LifeStep
      BY <2>1, <2>2, NewConvoFields DEF LifeStep, Opens
    <3>2. \A n \in Msgs : /\ convo'[n] = IF n = m THEN NewConvo ELSE convo[n]
                          /\ pc'[n] = IF n = m THEN "storeEntry" ELSE pc[n]
                          /\ on'[n] = IF n = m THEN m ELSE on[n]
      BY <2>2 DEF TypeOK, Goto
    <3>3. ASSUME NEW n \in Msgs, pc'[n] \in Working
          PROVE  convo'[on'[n]].status # "absent"
      BY <3>2, <3>3, NewConvoFields DEF Living, Located
    <3>4. ASSUME NEW n \in Msgs, pc'[n] \notin Opened
          PROVE  convo'[n].status = "absent"
      BY <3>2, <3>4 DEF Living, Opened
    <3>5. \A c \in ending' : convo'[c].status # "absent"
      BY <2>2, <3>2, NewConvoFields DEF Living, TypeOK
    <3>6. QED
      BY <3>1, <3>3, <3>4, <3>5 DEF Living, Opened
  <2>3. CASE Resume(m, "done")
    BY <2>3, <1>b DEF Resume, Opened, Working, Triggering, local
  <2>4. QED
    BY <1>16, <2>2, <2>3 DEF StartConversation
<1>17. ASSUME NEW m \in Msgs, StoreEntryContext(m) PROVE Living' /\ LifeStep
  BY <1>17, <1>a, StoreLives DEF StoreEntryContext, Opened, Working, Triggering
<1>18. ASSUME NEW c \in Msgs, EndConversation(c) PROVE Living' /\ LifeStep
  <2>1. convo[c].status # "absent"
    BY <1>18 DEF EndConversation, Living
  <2>2. LifeStep
    BY <1>0, <1>18, <2>1, EndedFields DEF EndConversation, LifeStep, Closes
  <2>3. \A d \in Msgs : convo'[d].status = "absent" <=> convo[d].status = "absent"
    BY <1>0, <1>18, <2>1, EndedFields DEF EndConversation, TypeOK
  <2>4. QED
    BY <1>18, <2>2, <2>3
       DEF EndConversation, Living, Located, TypeOK, local
<1>19. CASE UNCHANGED vars
  BY <1>19 DEF vars, local, Living, LifeStep
<1>20. QED
  BY <1>1, <1>2, <1>3, <1>4, <1>5, <1>6, <1>7, <1>8, <1>9, <1>10, <1>11, <1>12,
     <1>13, <1>14, <1>15, <1>16, <1>17, <1>18, <1>19 DEF Next, HandlerStep

\* The engine implements the life cycle of conversations (LifecycleSpec): with
\* any catalogue, any interleaving and any failing write, a conversation is
\* opened once, waits only at questions while it is open, and is closed for good.
THEOREM EngineImplementsLifecycle == Spec => LifecycleSpec
<1>1. Init => Lifecycle!Init
  BY NewConvoFields DEF Init, Lifecycle!Init
<1>2. Init => Living
  BY NewConvoFields DEF Init, Living, Working, Triggering
<1>3. TypeOK /\ Located /\ Living /\ WaitsAtQuestion' /\ [Next]_vars
        => Living' /\ [Lifecycle!Next]_(Lifecycle!vars)
  BY LivingStep, LifeStepRefines
<1>4. QED
  BY <1>1, <1>2, <1>3, TypeCorrect, ConversationsWaitAtQuestions, PTL
     DEF Spec, LifecycleSpec, Lifecycle!Spec

-----------------------------------------------------------------------------
(* Subscribers who wait until the bot is quiet.                            *)

\* Conversations that can take a message.
Alive == {c \in Msgs : convo[c].status = "active" /\ c \notin ending}

\* The messages, and conversations, of the sender of m.
Kin(m) == {c \in Msgs : Sender[c] = Sender[m]}

\* One message of a sender is handled at a time.  Its handler works on a live
\* conversation with an exact copy of it, and finds every end applied, or given
\* up, when it searches one.
Solo ==
  /\ \A m, n \in Msgs : Sender[m] = Sender[n] /\ Busy(m) /\ Busy(n) => m = n
  /\ \A m \in Msgs :
       /\ pc[m] = "find" => \A c \in Kin(m) : c \notin ending
       /\ pc[m] \in Working =>
            on[m] \in Kin(m) /\ on[m] \in Alive /\ seen[m] = convo[on[m]]

\* A step of a handler leaves the other subscribers alone, and no other handler
\* of its sender is busy.
LEMMA SoloByHandler ==
  ASSUME TypeOK, Solo, NEW m \in Msgs, Busy(m),
         NEW l \in Location \ {"idle", "find"}, Goto(m, l),
         \A n \in Msgs \ {m} : on'[n] = on[n] /\ seen'[n] = seen[n],
         \A c \in Msgs \ Kin(m) : convo'[c] = convo[c] /\ (c \in ending' <=> c \in ending),
         l \in Working => on'[m] \in Kin(m) /\ on'[m] \in Alive' /\ seen'[m] = convo'[on'[m]]
  PROVE  Solo'
<1>1. \A n \in Msgs : pc'[n] = IF n = m THEN l ELSE pc[n]
  BY DEF Goto, TypeOK
<1>2. \A n \in Kin(m) \ {m} : pc'[n] \in {"idle", "done"}
  BY <1>1 DEF Solo, Kin, Busy
<1>3. \A n, k \in Msgs : Sender[n] = Sender[k] /\ Busy(n)' /\ Busy(k)' => n = k
  BY <1>1, <1>2 DEF Solo, Kin, Busy
<1>4. \A c \in Msgs \ Kin(m) : c \in Alive' <=> c \in Alive
  BY DEF Alive
<1>5. ASSUME NEW n \in Msgs
      PROVE  /\ pc'[n] = "find" => \A c \in Kin(n) : c \notin ending'
             /\ pc'[n] \in Working =>
                  on'[n] \in Kin(n) /\ on'[n] \in Alive' /\ seen'[n] = convo'[on'[n]]
  <2>1. CASE n = m
    BY <1>1, <2>1
  <2>2. CASE n \in Kin(m) \ {m}
    BY <1>2, <2>2 DEF Working, Triggering
  <2>3. CASE n \notin Kin(m)
    <3>1. pc'[n] = pc[n] /\ on'[n] = on[n] /\ seen'[n] = seen[n]
      BY <1>1, <2>3 DEF Kin
    <3>2. Kin(n) \cap Kin(m) = {} /\ Kin(n) \subseteq Msgs
      BY <2>3 DEF Kin
    <3>3. \A c \in Kin(n) : /\ convo'[c] = convo[c]
                            /\ c \in ending' <=> c \in ending
                            /\ c \in Alive' <=> c \in Alive
      BY <1>4, <3>2
    <3>4. pc[n] \in Working => on'[n] \in Alive' /\ seen'[n] = convo'[on'[n]]
      BY <3>1, <3>3 DEF Solo
    <3>5. QED
      BY <3>1, <3>3, <3>4 DEF Solo
  <2>4. QED
    BY <2>1, <2>2, <2>3
<1>6. QED
  BY <1>3, <1>5 DEF Solo

\* A handler goes on with the conversation it has, or without one.
LEMMA SoloGoes ==
  ASSUME TypeOK, Solo, NEW m \in Msgs, Busy(m), UNCHANGED <<convo, on, seen, ending>>,
         NEW l \in Location \ {"idle", "find"}, Goto(m, l),
         l \in Working => pc[m] \in Working
  PROVE  Solo'
<1>1. \A c \in Msgs : c \in Alive' <=> c \in Alive
  BY DEF Alive
<1>2. QED
  BY <1>1, SoloByHandler DEF Solo, Kin

\* A handler ends its conversation, though it may have written to it.
LEMMA SoloEnds ==
  ASSUME TypeOK, Solo, NEW m \in Msgs, pc[m] \in Working, UNCHANGED <<on, seen>>,
         \A c \in Msgs \ {on[m]} : convo'[c] = convo[c],
         EmitEnd(on[m]), NEW l \in {"entry", "done"}, Goto(m, l)
  PROVE  Solo'
<1>1. Busy(m) /\ on[m] \in Kin(m) /\ on[m] \in Alive
  BY DEF Solo, Busy, Working, Triggering
<1>2. \A c \in Msgs \ Kin(m) : convo'[c] = convo[c] /\ (c \in ending' <=> c \in ending)
  BY <1>1 DEF EmitEnd
<1>3. QED
  BY <1>1, <1>2, SoloByHandler DEF Location, Working, Triggering

\* A handler writes to its conversation what leaves it active.
LEMMA SoloWrites ==
  ASSUME TypeOK, Solo, NEW m \in Msgs, pc[m] \in Working, UNCHANGED <<on, ending>>,
         NEW e, e.status = "active", convo' = [convo EXCEPT ![on[m]] = e],
         NEW l \in Triggering \cup {"done"}, Goto(m, l),
         \A n \in Msgs \ {m} : seen'[n] = seen[n],
         l # "done" => seen'[m] = e
  PROVE  Solo'
<1>1. Busy(m) /\ on[m] \in Kin(m) /\ on[m] \in Alive /\ on[m] \in Msgs
  BY DEF Solo, Busy, Working, Triggering, Kin
<1>2. \A c \in Msgs : convo'[c] = IF c = on[m] THEN e ELSE convo[c]
  BY DEF TypeOK
<1>3. \A c \in Msgs : c \in Alive' <=> c \in Alive
  BY <1>1, <1>2 DEF Alive
<1>4. l \in Location \ {"idle", "find"}
  BY DEF Triggering, Location
<1>5. QED
  BY <1>1, <1>2, <1>3, <1>4, SoloByHandler DEF Solo, Kin, Working, Triggering

LEMMA SoloStores ==
  ASSUME TypeOK, Located, Solo, NEW m \in Msgs, pc[m] \in Working,
         NEW a \in Nat, NEW k \in SUBSET Msgs, StoreAndTrigger(m, a, k)
  PROVE  Solo'
<1>1. /\ on[m] \in Msgs /\ seen[m] = convo[on[m]] /\ convo[on[m]].status = "active"
      /\ seen[m] \in Convo
  BY DEF Solo, Alive, TypeOK, Located
<1> DEFINE e == WithContext(seen[m], a, k)
<1>2. e.status = "active"
  BY <1>1, WithContextFields
<1>3. /\ convo' = [convo EXCEPT ![on[m]] = e] /\ UNCHANGED <<on, ending>>
      /\ Goto(m, "process") /\ seen' = [seen EXCEPT ![m] = e]
  BY <1>1 DEF StoreAndTrigger, WriteContext
<1> HIDE DEF e
<1>4. seen'[m] = e /\ \A n \in Msgs \ {m} : seen'[n] = seen[n]
  BY <1>3 DEF TypeOK
<1>5. QED
  BY <1>2, <1>3, <1>4, SoloWrites DEF Triggering

LEMMA SoloStep ==
  ASSUME ~Overlap, TypeOK, Located, Living, Solo, [Next]_vars
  PROVE  Solo'
<1>0. \A m \in Msgs : seen[m] \in Convo /\ convo[m] \in Convo
  BY DEF TypeOK
<1>a. \A m \in Msgs : /\ seen[m].attempt \in Nat
                      /\ seen[m].captured \in SUBSET Msgs
                      /\ NextAttempt(m) \in Nat
                      /\ Captured(m) \in SUBSET Msgs
  BY <1>0, ConvoFields DEF NextAttempt, Captured
<1>u. USE DEF At, Busy, Working, Triggering, Location
<1>e. ASSUME NEW m \in Msgs, pc[m] \in Working, Abandon(m) \/ EndFlow(m) PROVE Solo'
  BY <1>e, SoloEnds DEF Abandon, EndFlow, local
<1>f. ASSUME NEW m \in Msgs, pc[m] \in Working, NEW a, NEW k, StoreFails(m, a, k)
      PROVE  /\ on[m] \in Kin(m) /\ UNCHANGED <<on, seen>>
             /\ \A c \in Msgs \ {on[m]} : convo'[c] = convo[c]
  BY <1>f DEF StoreFails, WriteContext, local, Solo, TypeOK
<1>1. ASSUME NEW m \in Msgs, ReceiveMessage(m) PROVE Solo'
  <2>1. /\ \A n \in Msgs : pc'[n] = IF n = m THEN "find" ELSE pc[n]
        /\ \A n \in Kin(m) : ~Busy(n) /\ n \notin ending
        /\ UNCHANGED <<convo, on, seen, ending>>
    BY <1>1 DEF ReceiveMessage, Resume, Goto, Quiet, TypeOK, Kin, local
  <2>2. Alive' = Alive
    BY <2>1 DEF Alive
  <2>3. \A n, k \in Msgs : Sender[n] = Sender[k] /\ Busy(n)' /\ Busy(k)' => n = k
    BY <2>1 DEF Solo, Kin
  <2>4. QED
    BY <2>1, <2>2, <2>3 DEF Solo
<1>2. ASSUME NEW m \in Msgs, FindConversation(m) PROVE Solo'
  <2>1. \A c \in Kin(m) : c \notin ending
    BY <1>2 DEF FindConversation, Solo
  <2>2. Active(Sender[m]) = {c \in Kin(m) : c \in Alive}
    BY <2>1 DEF Active, Kin, Alive
  <2>3. UNCHANGED <<convo, ending>> /\ Alive' = Alive
    BY <1>2 DEF FindConversation, Resume, Alive
  <2>4. ASSUME NEW c \in Active(Sender[m]), Goto(m, "match"),
               on' = [on EXCEPT ![m] = c], seen' = [seen EXCEPT ![m] = convo[c]]
        PROVE  Solo'
    <3>1. /\ on'[m] = c /\ seen'[m] = convo[c]
          /\ \A n \in Msgs \ {m} : on'[n] = on[n] /\ seen'[n] = seen[n]
      BY <2>4 DEF TypeOK
    <3>2. QED
      BY <1>2, <2>2, <2>3, <2>4, <3>1, SoloByHandler DEF FindConversation, Solo, Kin
  <2>5. CASE Resume(m, "entry")
    BY <1>2, <2>5, SoloGoes DEF FindConversation, Resume, local
  <2>6. QED
    BY <1>2, <2>4, <2>5 DEF FindConversation
<1>3. ASSUME NEW m \in Msgs, MatchNextBlock(m) PROVE Solo'
  BY <1>3, <1>e, SoloGoes DEF MatchNextBlock, Select, Resume, local
<1>4. ASSUME NEW m \in Msgs, MatchWithoutCurrent(m) PROVE Solo'
  BY <1>4, <1>e DEF MatchWithoutCurrent
<1>5. ASSUME NEW m \in Msgs, HandleFlowEscape(m) PROVE Solo'
  BY <1>5, <1>e, SoloGoes DEF HandleFlowEscape, Select
<1>6. ASSUME NEW m \in Msgs, StoreContext(m) PROVE Solo'
  <2>1. pc[m] \in Working
    BY <1>6 DEF StoreContext
  <2>2. CASE StoreAndTrigger(m, NextAttempt(m), Captured(m))
    BY <1>a, <2>1, <2>2, SoloStores
  <2>3. CASE StoreFails(m, NextAttempt(m), Captured(m)) /\ EmitEnd(on[m]) /\ Goto(m, "entry")
    BY <1>f, <2>1, <2>3, SoloEnds
  <2>4. QED
    BY <1>6, <2>2, <2>3 DEF StoreContext
<1>7. ASSUME NEW m \in Msgs, ProcessBlock(m) PROVE Solo'
  BY <1>7, <1>e, SoloGoes DEF ProcessBlock, Resume, local
<1>8. ASSUME NEW m \in Msgs, SendBlock(m) PROVE Solo'
  BY <1>8, <1>e, SoloGoes, SoloEnds DEF SendBlock, local
<1>9. ASSUME NEW m \in Msgs, FollowAttached(m) PROVE Solo'
  BY <1>9, <1>e, SoloGoes DEF FollowAttached, Continue
<1>10. ASSUME NEW m \in Msgs, MatchOutcome(m) PROVE Solo'
  BY <1>10, <1>e, SoloGoes DEF MatchOutcome, Continue, Resume, local
<1>11. ASSUME NEW m \in Msgs, StoreOutcomeContext(m) PROVE Solo'
  <2>1. pc[m] \in Working
    BY <1>11 DEF StoreOutcomeContext
  <2>2. CASE StoreAndTrigger(m, seen[m].attempt, seen[m].captured)
    BY <1>a, <2>1, <2>2, SoloStores
  <2>3. CASE StoreFails(m, seen[m].attempt, seen[m].captured) /\ UNCHANGED ending /\ Goto(m, "done")
    <3>1. \A c \in Msgs \ Kin(m) : convo'[c] = convo[c] /\ (c \in ending' <=> c \in ending)
      BY <1>f, <2>1, <2>3
    <3>2. QED
      BY <1>f, <2>1, <2>3, <3>1, SoloByHandler
  <2>4. QED
    BY <1>11, <2>2, <2>3 DEF StoreOutcomeContext
<1>12. ASSUME NEW m \in Msgs, WaitForReply(m) PROVE Solo'
  <2> DEFINE e == WithQuestion(convo[on[m]], block[m], Followers(m))
  <2>1. /\ pc[m] = "follow" /\ on[m] \in Msgs /\ block[m] \in Blocks
        /\ convo[on[m]].status = "active" /\ seen[m].next \in SUBSET Blocks
    BY <1>0, <1>12, ConvoFields DEF WaitForReply, Located, Solo, Alive
  <2>2. Followers(m) \in SUBSET Blocks
    BY <2>1 DEF Followers, CatalogueAssumption
  <2>3. e.status = "active"
    BY <1>0, <2>1, <2>2, WithQuestionFields
  <2>4. /\ UNCHANGED convo \/ convo' = [convo EXCEPT ![on[m]] = e]
        /\ UNCHANGED <<on, seen, ending>> /\ Goto(m, "done")
    BY <1>12 DEF WaitForReply, local
  <2> HIDE DEF e
  <2>5. CASE convo' = [convo EXCEPT ![on[m]] = e]
    BY <2>1, <2>3, <2>4, <2>5, SoloWrites
  <2>6. CASE UNCHANGED convo
    BY <2>1, <2>4, <2>6, SoloGoes
  <2>7. QED
    BY <2>4, <2>5, <2>6
<1>13. ASSUME NEW m \in Msgs, NoFollower(m) PROVE Solo'
  BY <1>13, <1>e DEF NoFollower
<1>14. ASSUME NEW m \in Msgs, MatchEntryBlock(m) PROVE Solo'
  BY <1>14, SoloGoes DEF MatchEntryBlock, Select, Resume, local
<1>15. ASSUME NEW m \in Msgs, SendGlobalFallback(m) PROVE Solo'
  BY <1>15, SoloGoes DEF SendGlobalFallback, Select, local
<1>16. ASSUME NEW m \in Msgs, StartConversation(m) PROVE Solo'
  <2>1. pc[m] = "create" /\ m \notin ending /\ m \in Kin(m)
    BY <1>16 DEF StartConversation, Living, Kin
  <2>2. CASE Resume(m, "done")
    BY <2>1, <2>2, SoloGoes DEF Resume, local
  <2>3. CASE /\ convo' = [convo EXCEPT ![m] = NewConvo] /\ Goto(m, "storeEntry")
             /\ on' = [on EXCEPT ![m] = m] /\ seen' = [seen EXCEPT ![m] = NewConvo]
             /\ UNCHANGED ending
    <3>1. /\ \A n \in Msgs \ {m} : on'[n] = on[n] /\ seen'[n] = seen[n] /\ convo'[n] = convo[n]
          /\ on'[m] = m /\ seen'[m] = NewConvo /\ convo'[m] = NewConvo
      BY <2>3 DEF TypeOK
    <3>2. m \in Alive'
      BY <2>1, <2>3, <3>1, NewConvoFields DEF Alive
    <3>3. QED
      BY <2>1, <2>3, <3>1, <3>2, SoloByHandler DEF Kin
  <2>4. QED
    BY <1>16, <2>2, <2>3 DEF StartConversation
<1>17. ASSUME NEW m \in Msgs, StoreEntryContext(m) PROVE Solo'
  <2>1. pc[m] \in Working
    BY <1>17 DEF StoreEntryContext
  <2>2. CASE StoreAndTrigger(m, seen[m].attempt, Captured(m))
    BY <1>a, <2>1, <2>2, SoloStores
  <2>3. CASE StoreFails(m, seen[m].attempt, Captured(m)) /\ EmitEnd(on[m]) /\ Goto(m, "done")
    BY <1>f, <2>1, <2>3, SoloEnds
  <2>4. QED
    BY <1>17, <2>2, <2>3 DEF StoreEntryContext
<1>18. ASSUME NEW c \in Msgs, EndConversation(c) PROVE Solo'
  <2>1. /\ c \in ending /\ ending' = ending \ {c}
        /\ \A d \in Msgs \ {c} : convo'[d] = convo[d]
        /\ UNCHANGED <<pc, on, seen>>
    BY <1>18 DEF EndConversation, local, TypeOK
  <2>2. c \notin Alive /\ \A d \in Msgs \ {c} : d \in Alive => d \in Alive'
    BY <2>1 DEF Alive
  <2>3. \A n \in Msgs : pc[n] \in Working => on[n] \in Msgs \ {c}
    BY <2>2 DEF Solo, Located
  <2>4. QED
    BY <2>1, <2>2, <2>3 DEF Solo
<1>19. CASE UNCHANGED vars
  <2>1. UNCHANGED <<convo, pc, on, seen, ending>> /\ Alive' = Alive
    BY <1>19 DEF vars, local, Alive
  <2>2. QED
    BY <2>1 DEF Solo
<1>20. QED
  BY <1>1, <1>2, <1>3, <1>4, <1>5, <1>6, <1>7, <1>8, <1>9, <1>10, <1>11, <1>12,
     <1>13, <1>14, <1>15, <1>16, <1>17, <1>18, <1>19 DEF Next, HandlerStep

-----------------------------------------------------------------------------
(* Conversations that are being opened.                                    *)

\* The message that opened a conversation without a block is about to give it one.
Opening ==
  \A c \in Alive : convo[c].current = NoBlock =>
    on[c] = c /\ pc[c] \in {"storeEntry"} \cup Triggering

\* Statuses and blocks of documents stay, and so do the openers.
LEMMA OpeningStays ==
  ASSUME TypeOK, Opening, NEW m \in Msgs, NEW l, Goto(m, l),
         \A c \in Msgs : convo'[c].status = convo[c].status /\ convo'[c].current = convo[c].current,
         ending \subseteq ending',
         \A n \in Msgs \ {m} : on'[n] = on[n],
         m \in Alive' /\ on[m] = m /\ pc[m] \in {"storeEntry"} \cup Triggering
           => on'[m] = m /\ l \in {"storeEntry"} \cup Triggering
  PROVE  Opening'
<1>1. \A n \in Msgs : pc'[n] = IF n = m THEN l ELSE pc[n]
  BY DEF Goto, TypeOK
<1>2. Alive' \subseteq Alive
  BY DEF Alive
<1>3. QED
  BY <1>1, <1>2 DEF Opening, Alive

LEMMA OpeningStores ==
  ASSUME TypeOK, Located, Opening, NEW m \in Msgs, pc[m] \in Working,
         NEW a \in Nat, NEW k \in SUBSET Msgs, StoreAndTrigger(m, a, k)
  PROVE  Opening'
<1>1. on[m] \in Msgs /\ convo[on[m]] \in Convo
  BY DEF TypeOK, Located
<1> DEFINE e == WithContext(convo[on[m]], a, k)
<1>2. e.status = convo[on[m]].status /\ e.current = convo[on[m]].current
  BY <1>1, WithContextFields
<1>3. convo' = [convo EXCEPT ![on[m]] = e] /\ UNCHANGED <<on, ending>> /\ Goto(m, "process")
  BY DEF StoreAndTrigger, WriteContext
<1> HIDE DEF e
<1>4. \A c \in Msgs : convo'[c].status = convo[c].status /\ convo'[c].current = convo[c].current
  BY <1>1, <1>2, <1>3 DEF TypeOK
<1>5. QED
  BY <1>3, <1>4, OpeningStays DEF Triggering

LEMMA OpeningStep ==
  ASSUME "db" \notin Faults, TypeOK, Located, Opening, [Next]_vars
  PROVE  Opening'
<1>0. \A m \in Msgs : seen[m] \in Convo /\ convo[m] \in Convo
  BY DEF TypeOK
<1>a. \A m \in Msgs : /\ seen[m].attempt \in Nat
                      /\ seen[m].captured \in SUBSET Msgs
                      /\ seen[m].next \in SUBSET Blocks
                      /\ NextAttempt(m) \in Nat
                      /\ Captured(m) \in SUBSET Msgs
  BY <1>0, ConvoFields DEF NextAttempt, Captured
<1>u. USE DEF At, Working, Triggering
<1>e. ASSUME NEW m \in Msgs, Abandon(m) \/ EndFlow(m) PROVE Opening'
  <2>1. \A c \in Msgs : c \in Alive' => c # on[m]
    BY <1>e DEF Abandon, EndFlow, EmitEnd, Alive
  <2>2. QED
    BY <1>e, <2>1, OpeningStays DEF Abandon, EndFlow, EmitEnd, local
<1>1. ASSUME NEW m \in Msgs, ReceiveMessage(m) PROVE Opening'
  BY <1>1, OpeningStays DEF ReceiveMessage, Resume, local
<1>2. ASSUME NEW m \in Msgs, FindConversation(m) PROVE Opening'
  BY <1>2, OpeningStays DEF FindConversation, Resume, local, TypeOK
<1>3. ASSUME NEW m \in Msgs, MatchNextBlock(m) PROVE Opening'
  BY <1>3, <1>e, OpeningStays DEF MatchNextBlock, Select, Resume, local
<1>4. ASSUME NEW m \in Msgs, MatchWithoutCurrent(m) PROVE Opening'
  BY <1>4, <1>e DEF MatchWithoutCurrent
<1>5. ASSUME NEW m \in Msgs, HandleFlowEscape(m) PROVE Opening'
  BY <1>5, <1>e, OpeningStays DEF HandleFlowEscape, Select
<1>6. ASSUME NEW m \in Msgs, StoreContext(m) PROVE Opening'
  BY <1>6, <1>a, OpeningStores DEF StoreContext, StoreFails
<1>7. ASSUME NEW m \in Msgs, ProcessBlock(m) PROVE Opening'
  BY <1>7, <1>e, OpeningStays DEF ProcessBlock, Resume, local
<1>8. ASSUME NEW m \in Msgs, SendBlock(m) PROVE Opening'
  BY <1>8, <1>e, OpeningStays DEF SendBlock, local
<1>9. ASSUME NEW m \in Msgs, FollowAttached(m) PROVE Opening'
  BY <1>9, <1>e, OpeningStays DEF FollowAttached, Continue
<1>10. ASSUME NEW m \in Msgs, MatchOutcome(m) PROVE Opening'
  BY <1>10, <1>e, OpeningStays DEF MatchOutcome, Continue
<1>11. ASSUME NEW m \in Msgs, StoreOutcomeContext(m) PROVE Opening'
  BY <1>11, <1>a, OpeningStores DEF StoreOutcomeContext, StoreFails
<1>12. ASSUME NEW m \in Msgs, WaitForReply(m) PROVE Opening'
  <2> DEFINE e == WithQuestion(convo[on[m]], block[m], Followers(m))
  <2>1. pc[m] = "follow" /\ on[m] \in Msgs /\ block[m] \in Blocks
    BY <1>12 DEF WaitForReply, Located
  <2>2. Followers(m) \in SUBSET Blocks
    BY <1>a, <2>1 DEF Followers, CatalogueAssumption
  <2>3. e.status = convo[on[m]].status /\ e.current \in Blocks
    BY <1>0, <2>1, <2>2, WithQuestionFields
  <2>4. convo' = [convo EXCEPT ![on[m]] = e] /\ UNCHANGED <<on, ending>> /\ Goto(m, "done")
    BY <1>12 DEF WaitForReply, local
  <2> HIDE DEF e
  <2>5. /\ \A c \in Msgs : convo'[c] = IF c = on[m] THEN e ELSE convo[c]
        /\ \A n \in Msgs : pc'[n] = IF n = m THEN "done" ELSE pc[n]
    BY <2>1, <2>4 DEF TypeOK, Goto
  <2>6. Alive' = Alive /\ e.current # NoBlock
    BY <2>3, <2>4, <2>5 DEF Alive, CatalogueAssumption
  <2>7. QED
    BY <2>4, <2>5, <2>6 DEF Opening, Alive
<1>13. ASSUME NEW m \in Msgs, NoFollower(m) PROVE Opening'
  BY <1>13, <1>e DEF NoFollower
<1>14. ASSUME NEW m \in Msgs, MatchEntryBlock(m) PROVE Opening'
  BY <1>14, OpeningStays DEF MatchEntryBlock, Select, Resume, local
<1>15. ASSUME NEW m \in Msgs, SendGlobalFallback(m) PROVE Opening'
  BY <1>15, OpeningStays DEF SendGlobalFallback, Select, local
<1>16. ASSUME NEW m \in Msgs, StartConversation(m) PROVE Opening'
  <2>1. /\ \A n \in Msgs \ {m} : convo'[n] = convo[n] /\ on'[n] = on[n] /\ pc'[n] = pc[n]
        /\ on'[m] = m /\ pc'[m] = "storeEntry" /\ UNCHANGED ending
    BY <1>16 DEF StartConversation, Goto, TypeOK
  <2>2. \A c \in Msgs \ {m} : c \in Alive' => c \in Alive
    BY <2>1 DEF Alive
  <2>3. QED
    BY <2>1, <2>2 DEF Opening, Alive
<1>17. ASSUME NEW m \in Msgs, StoreEntryContext(m) PROVE Opening'
  BY <1>17, <1>a, OpeningStores DEF StoreEntryContext, StoreFails
<1>18. ASSUME NEW c \in Msgs, EndConversation(c) PROVE Opening'
  <2>1. /\ ending' = ending \ {c} /\ UNCHANGED <<pc, on>>
        /\ convo' = [convo EXCEPT ![c] = Ended(convo[c])]
    BY <1>18 DEF EndConversation, local
  <2>2. convo'[c].status = "ended" /\ \A d \in Msgs \ {c} : convo'[d] = convo[d]
    BY <1>0, <2>1, EndedFields DEF TypeOK
  <2>3. Alive' \subseteq Alive \ {c}
    BY <2>1, <2>2 DEF Alive
  <2>4. QED
    BY <2>1, <2>2, <2>3 DEF Opening, Alive
<1>19. CASE UNCHANGED vars
  <2>1. UNCHANGED <<convo, pc, on, ending>> /\ Alive' = Alive
    BY <1>19 DEF vars, local, Alive
  <2>2. QED
    BY <2>1 DEF Opening
<1>20. QED
  BY <1>1, <1>2, <1>3, <1>4, <1>5, <1>6, <1>7, <1>8, <1>9, <1>10, <1>11, <1>12,
     <1>13, <1>14, <1>15, <1>16, <1>17, <1>18, <1>19 DEF Next, HandlerStep

\* When no write fails, no conversation is forgotten (NoneForgotten), also when
\* messages of one sender are handled at once.
THEOREM ConversationsRemembered ==
  ASSUME "db" \notin Faults
  PROVE  Spec => []NoneForgotten
<1>1. Init => Opening
  BY NewConvoFields DEF Init, Opening, Alive
<1>2. TypeOK /\ Located /\ Opening /\ [Next]_vars => Opening'
  BY OpeningStep
<1>3. Opening => NoneForgotten
  BY DEF Opening, Alive, NoneForgotten, Working
<1>4. QED
  BY <1>1, <1>2, <1>3, TypeCorrect, PTL DEF Spec

-----------------------------------------------------------------------------
(* What steps write to the documents.                                      *)

\* The writes of a step to the documents.
Asked(m) ==
  /\ pc[m] = "follow" /\ Chained(m) = NoBlock /\ Followers(m) # {}
  /\ convo' = [convo EXCEPT ![on[m]] = WithQuestion(convo[on[m]], block[m], Followers(m))]

Stored(m) ==
  \/ pc[m] = "store" /\ WriteContext(m, NextAttempt(m), Captured(m))
  \/ pc[m] = "outcome" /\ WriteContext(m, seen[m].attempt, seen[m].captured)
  \/ pc[m] = "storeEntry" /\ WriteContext(m, seen[m].attempt, Captured(m))

LEMMA DocumentSteps ==
  ASSUME [Next]_vars
  PROVE  \/ UNCHANGED convo
         \/ \E m \in Msgs : \/ Stored(m) \/ Asked(m)
                            \/ pc[m] = "create" /\ convo' = [convo EXCEPT ![m] = NewConvo]
         \/ \E c \in ending : convo' = [convo EXCEPT ![c] = Ended(convo[c])]
<1>u. USE DEF At, local, Abandon, EndFlow, Resume, Select, Continue
<1>1. ASSUME NEW m \in Msgs,
             ReceiveMessage(m) \/ FindConversation(m) \/ MatchNextBlock(m) \/ MatchWithoutCurrent(m)
             \/ HandleFlowEscape(m) \/ ProcessBlock(m) \/ SendBlock(m) \/ FollowAttached(m)
             \/ MatchOutcome(m) \/ NoFollower(m) \/ MatchEntryBlock(m) \/ SendGlobalFallback(m)
      PROVE  UNCHANGED convo
  BY <1>1 DEF ReceiveMessage, FindConversation, MatchNextBlock, MatchWithoutCurrent,
     HandleFlowEscape, ProcessBlock, SendBlock, FollowAttached, MatchOutcome, NoFollower,
     MatchEntryBlock, SendGlobalFallback
<1>2. ASSUME NEW m \in Msgs, StoreContext(m) \/ StoreOutcomeContext(m) \/ StoreEntryContext(m)
      PROVE  UNCHANGED convo \/ Stored(m)
  BY <1>2 DEF StoreContext, StoreOutcomeContext, StoreEntryContext, StoreAndTrigger, StoreFails,
     Stored
<1>3. ASSUME NEW m \in Msgs, WaitForReply(m)
      PROVE  UNCHANGED convo \/ Asked(m)
  BY <1>3 DEF WaitForReply, Asked
<1>4. ASSUME NEW m \in Msgs, StartConversation(m)
      PROVE  \/ UNCHANGED convo
             \/ pc[m] = "create" /\ convo' = [convo EXCEPT ![m] = NewConvo]
  BY <1>4 DEF StartConversation
<1>5. ASSUME NEW c \in Msgs, EndConversation(c)
      PROVE  \/ UNCHANGED convo
             \/ c \in ending /\ convo' = [convo EXCEPT ![c] = Ended(convo[c])]
  BY <1>5 DEF EndConversation
<1>6. QED
  BY <1>1, <1>2, <1>3, <1>4, <1>5 DEF Next, HandlerStep, vars

\* A handler that stores a context keeps the blocks and statuses.
LEMMA StoredFields ==
  ASSUME TypeOK, Located, NEW m \in Msgs, Stored(m)
  PROVE  LET c == on[m] IN
         /\ pc[m] \in {"store", "outcome", "storeEntry"}
         /\ c \in Msgs
         /\ convo'[c] \in Convo
         /\ convo'[c].status = convo[c].status
         /\ convo'[c].current = convo[c].current
         /\ convo'[c].next = convo[c].next
         /\ convo'[c].attempt = IF pc[m] = "store" THEN NextAttempt(m) ELSE seen[m].attempt
         /\ convo'[c].captured = IF pc[m] = "outcome" THEN seen[m].captured ELSE Captured(m)
         /\ \A d \in Msgs \ {c} : convo'[d] = convo[d]
<1>1. pc[m] \in {"store", "outcome", "storeEntry"}
  BY DEF Stored
<1>2. on[m] \in Msgs /\ convo[on[m]] \in Convo
  BY <1>1 DEF Located, Working, Triggering, TypeOK
<1>3. PICK a \in Nat, k \in SUBSET Msgs :
        /\ WriteContext(m, a, k)
        /\ a = IF pc[m] = "store" THEN NextAttempt(m) ELSE seen[m].attempt
        /\ k = IF pc[m] = "outcome" THEN seen[m].captured ELSE Captured(m)
  BY <1>2, StoreEffect DEF Stored
<1>4. convo'[on[m]] = WithContext(convo[on[m]], a, k)
      /\ \A d \in Msgs \ {on[m]} : convo'[d] = convo[d]
  BY <1>2, <1>3 DEF WriteContext, TypeOK
<1>5. QED
  BY <1>1, <1>2, <1>3, <1>4, WithContextFields, CapturedFields

LEMMA AskedFields ==
  ASSUME TypeOK, Located, NEW m \in Msgs, Asked(m)
  PROVE  LET c == on[m] IN
         /\ c \in Msgs /\ pc[m] = "follow" /\ block[m] \in Blocks
         /\ convo'[c] \in Convo
         /\ convo'[c].status = convo[c].status
         /\ convo'[c].current = block[m]
         /\ convo'[c].attempt = convo[c].attempt
         /\ convo'[c].captured = convo[c].captured
         /\ \A d \in Msgs \ {c} : convo'[d] = convo[d]
<1>1. /\ on[m] \in Msgs /\ convo[on[m]] \in Convo /\ block[m] \in Blocks /\ pc[m] = "follow"
      /\ seen[m].next \in SUBSET Blocks
  BY ConvoFields DEF Asked, Located, Working, Triggering, TypeOK
<1>2. Followers(m) \in SUBSET Blocks
  BY <1>1 DEF Followers, CatalogueAssumption
<1>3. convo'[on[m]] = WithQuestion(convo[on[m]], block[m], Followers(m))
      /\ \A d \in Msgs \ {on[m]} : convo'[d] = convo[d]
  BY <1>1 DEF Asked, TypeOK
<1>4. QED
  BY <1>1, <1>2, <1>3, WithQuestionFields, CapturedFields

\* A document that does not exist holds nothing.
Fresh == \A c \in Msgs : convo[c].status = "absent" => convo[c] = NoDocument

LEMMA FreshStep ==
  ASSUME TypeOK, Located, Living, Fresh, [Next]_vars
  PROVE  Fresh'
<1>1. ASSUME NEW m \in Msgs, Stored(m) PROVE Fresh'
  <2>1. convo[on[m]].status # "absent"
    BY <1>1, StoredFields DEF Living, Working, Triggering
  <2>2. QED
    BY <1>1, <2>1, StoredFields DEF Fresh
<1>2. ASSUME NEW m \in Msgs, Asked(m) PROVE Fresh'
  <2>1. convo[on[m]].status # "absent"
    BY <1>2, AskedFields DEF Living, Working, Triggering
  <2>2. QED
    BY <1>2, <2>1, AskedFields DEF Fresh
<1>3. ASSUME NEW m \in Msgs, convo' = [convo EXCEPT ![m] = NewConvo] PROVE Fresh'
  BY <1>3, NewConvoFields DEF Fresh, TypeOK
<1>4. ASSUME NEW c \in ending, convo' = [convo EXCEPT ![c] = Ended(convo[c])] PROVE Fresh'
  <2>1. c \in Msgs /\ convo[c] \in Convo
    BY DEF TypeOK
  <2>2. QED
    BY <1>4, <2>1, EndedFields DEF Fresh, TypeOK
<1>5. QED
  BY <1>1, <1>2, <1>3, <1>4, DocumentSteps DEF Fresh

-----------------------------------------------------------------------------
(* The way from block to block.                                            *)

\* Where a conversation may go from block b, or from none.
After(b) == IF b = NoBlock THEN EntryBlocks \cup ({FallbackBlock} \ {NoBlock})
                           ELSE NextBlocks[b]

LEMMA ReachStart ==
  ASSUME NEW start \in SUBSET Blocks
  PROVE  start \subseteq Reach(start)
  BY DEF Reach

LEMMA ReachOn ==
  ASSUME NEW start \in SUBSET Blocks, NEW b \in Reach(start)
  PROVE  Automatic(b) \subseteq Reach(start)
<1>1. b \in Blocks /\ Automatic(b) \subseteq Blocks
  BY DEF Reach, Automatic
<1>2. ASSUME NEW a \in Automatic(b), NEW set \in SUBSET Blocks,
             start \subseteq set, \A x \in set : Automatic(x) \subseteq set
      PROVE  a \in set
  BY <1>2 DEF Reach
<1>3. QED
  BY <1>1, <1>2 DEF Reach

LEMMA AfterTyped == \A b \in Blocks \cup {NoBlock} : After(b) \in SUBSET Blocks
  BY DEF After

\* Every handler runs a block that the flow leads to from where its copy
\* waits, or runs the block of the copy again; it counts from zero unless it
\* runs the block again, and then from a number within the limit of the block.
Walking ==
  \A m \in Msgs :
    /\ pc[m] \in {"create", "storeEntry"} => block[m] \in After(NoBlock) /\ ~fallback[m]
    /\ pc[m] = "storeEntry" => seen[m].current = NoBlock
    /\ pc[m] \in {"store"} \cup Triggering /\ ~fallback[m] =>
         block[m] \in Reach(After(seen[m].current))
    /\ pc[m] \in {"storeEntry"} \cup Triggering /\ ~fallback[m] => seen[m].attempt = 0
    /\ pc[m] = "escape" \/ (pc[m] = "store" /\ fallback[m]) =>
         /\ MaxAttempts[seen[m].current] > 0
         /\ seen[m].attempt <= MaxAttempts[seen[m].current]

LEMMA WalkingByHandler ==
  ASSUME TypeOK, Walking, NEW m \in Msgs, NEW l, Goto(m, l),
         \A n \in Msgs \ {m} : block'[n] = block[n] /\ fallback'[n] = fallback[n] /\ seen'[n] = seen[n],
         l \in {"create", "storeEntry"} => block'[m] \in After(NoBlock) /\ ~fallback'[m],
         l = "storeEntry" => seen'[m].current = NoBlock,
         l \in {"store"} \cup Triggering /\ ~fallback'[m] =>
           block'[m] \in Reach(After(seen'[m].current)),
         l \in {"storeEntry"} \cup Triggering /\ ~fallback'[m] => seen'[m].attempt = 0,
         l = "escape" \/ (l = "store" /\ fallback'[m]) =>
           /\ MaxAttempts[seen'[m].current] > 0
           /\ seen'[m].attempt <= MaxAttempts[seen'[m].current]
  PROVE  Walking'
<1>1. \A n \in Msgs : pc'[n] = IF n = m THEN l ELSE pc[n]
  BY DEF Goto, TypeOK
<1>2. QED
  BY <1>1 DEF Walking

\* A handler leaves its flow, or goes on with the block it runs.
LEMMA WalkingGoes ==
  ASSUME TypeOK, Walking, NEW m \in Msgs, NEW l, Goto(m, l), UNCHANGED <<block, fallback, seen>>,
         l \notin {"create", "storeEntry", "escape", "store"},
         l \in Triggering => pc[m] \in Triggering
  PROVE  Walking'
  BY WalkingByHandler DEF Walking

\* A handler runs another block that the flow leads to.
LEMMA WalkingOn ==
  ASSUME TypeOK, Walking, NEW m \in Msgs, pc[m] \in Triggering, ~fallback[m],
         NEW l \in Triggering, NEW b \in Automatic(block[m]), Continue(m, l, b)
  PROVE  Walking'
<1>1. /\ block'[m] = b /\ UNCHANGED <<fallback, seen>> /\ Goto(m, l)
      /\ \A n \in Msgs \ {m} : block'[n] = block[n]
  BY DEF Continue, TypeOK
<1>2. After(seen[m].current) \in SUBSET Blocks
  BY AfterTyped, ConvoFields DEF TypeOK
<1>3. block[m] \in Reach(After(seen[m].current)) /\ seen[m].attempt = 0
  BY DEF Walking
<1>4. b \in Reach(After(seen[m].current))
  BY <1>2, <1>3, ReachOn
<1>5. l \notin {"create", "storeEntry", "escape", "store"}
  BY DEF Triggering
<1>6. QED
  BY <1>1, <1>3, <1>4, <1>5, WalkingByHandler

LEMMA WalkingStores ==
  ASSUME TypeOK, Walking, NEW m \in Msgs, NEW a \in Nat, NEW k \in SUBSET Msgs,
         StoreAndTrigger(m, a, k),
         ~fallback[m] => a = 0 /\ block[m] \in Reach(After(seen[m].current))
  PROVE  Walking'
<1>1. seen[m] \in Convo
  BY DEF TypeOK
<1>2. /\ Goto(m, "process") /\ UNCHANGED <<block, fallback>>
      /\ seen'[m] = WithContext(seen[m], a, k) /\ \A n \in Msgs \ {m} : seen'[n] = seen[n]
  BY DEF StoreAndTrigger, TypeOK
<1>3. seen'[m].current = seen[m].current /\ seen'[m].attempt = a
  BY <1>1, <1>2, WithContextFields
<1>4. QED
  BY <1>2, <1>3, WalkingByHandler

LEMMA WalkingStep ==
  ASSUME TypeOK, Located, Asking, Walking, [Next]_vars
  PROVE  Walking'
<1>0. \A m \in Msgs : /\ seen[m].attempt \in Nat
                      /\ seen[m].captured \in SUBSET Msgs
                      /\ seen[m].current \in Blocks \cup {NoBlock}
                      /\ seen[m].next \in SUBSET Blocks
                      /\ NextAttempt(m) \in Nat
                      /\ Captured(m) \in SUBSET Msgs
  BY ConvoFields DEF NextAttempt, Captured, TypeOK
<1>r. \A m \in Msgs : After(seen[m].current) \subseteq Reach(After(seen[m].current))
  BY <1>0, AfterTyped, ReachStart
<1>u. USE DEF At, Triggering
\* A block is selected, from those that follow or to run the one of the copy again.
<1>s. ASSUME NEW m \in Msgs, NEW b \in Blocks, Select(m, "store", b, FALSE),
             b \in After(seen[m].current)
      PROVE  Walking'
  <2>1. /\ block'[m] = b /\ ~fallback'[m] /\ Goto(m, "store") /\ UNCHANGED seen
        /\ \A n \in Msgs \ {m} : block'[n] = block[n] /\ fallback'[n] = fallback[n]
    BY <1>s DEF Select, TypeOK
  <2>2. b \in Reach(After(seen[m].current))
    BY <1>r, <1>s
  <2>3. QED
    BY <2>1, <2>2, WalkingByHandler
<1>c. ASSUME NEW m \in Msgs, NEW b \in After(NoBlock), Select(m, "create", b, FALSE)
      PROVE  Walking'
  <2>1. /\ block'[m] = b /\ ~fallback'[m] /\ Goto(m, "create") /\ UNCHANGED seen
        /\ \A n \in Msgs \ {m} : block'[n] = block[n] /\ fallback'[n] = fallback[n]
    BY <1>c, AfterTyped DEF Select, TypeOK
  <2>2. QED
    BY <2>1, WalkingByHandler
<1>n. ASSUME NEW m \in Msgs, seen[m].current # NoBlock, NEW b \in seen[m].next
      PROVE  b \in Blocks /\ b \in After(seen[m].current)
  BY <1>0, <1>n DEF Asking, After
<1>e. ASSUME NEW m \in Msgs, Abandon(m) \/ EndFlow(m) PROVE Walking'
  BY <1>e, WalkingGoes DEF Abandon, EndFlow, local
<1>1. ASSUME NEW m \in Msgs, ReceiveMessage(m) PROVE Walking'
  BY <1>1, WalkingGoes DEF ReceiveMessage, Resume, local
<1>2. ASSUME NEW m \in Msgs, FindConversation(m) PROVE Walking'
  <2>1. CASE Resume(m, "entry")
    BY <2>1, WalkingGoes DEF Resume, local
  <2>2. ASSUME NEW c \in Active(Sender[m]), Goto(m, "match"), UNCHANGED <<block, fallback>>,
               seen' = [seen EXCEPT ![m] = convo[c]]
        PROVE  Walking'
    <3>1. \A n \in Msgs \ {m} : seen'[n] = seen[n]
      BY <2>2 DEF TypeOK
    <3>2. QED
      BY <2>2, <3>1, WalkingByHandler
  <2>3. QED
    BY <1>2, <2>1, <2>2 DEF FindConversation
<1>3. ASSUME NEW m \in Msgs, MatchNextBlock(m) PROVE Walking'
  <2>1. ASSUME NEW b \in seen[m].next, Select(m, "store", b, FALSE) PROVE Walking'
    BY <1>3, <1>n, <1>s, <2>1 DEF MatchNextBlock
  <2>2. CASE ShouldAttemptLocalFallback(m) /\ Resume(m, "escape")
    BY <2>2, WalkingByHandler DEF ShouldAttemptLocalFallback, Resume, local
  <2>3. QED
    BY <1>3, <1>e, <2>1, <2>2 DEF MatchNextBlock
<1>4. ASSUME NEW m \in Msgs, MatchWithoutCurrent(m) PROVE Walking'
  BY <1>4, <1>e DEF MatchWithoutCurrent
<1>5. ASSUME NEW m \in Msgs, HandleFlowEscape(m) PROVE Walking'
  <2>1. seen[m].current # NoBlock
    BY <1>5 DEF HandleFlowEscape, Located, CatalogueAssumption
  <2>2. ASSUME NEW b \in seen[m].next, Select(m, "store", b, FALSE) PROVE Walking'
    BY <1>n, <1>s, <2>1, <2>2
  <2>3. CASE Select(m, "store", seen[m].current, TRUE)
    <3>1. /\ fallback'[m] /\ Goto(m, "store") /\ UNCHANGED seen
          /\ \A n \in Msgs \ {m} : block'[n] = block[n] /\ fallback'[n] = fallback[n]
      BY <2>3 DEF Select, TypeOK
    <3>2. QED
      BY <1>5, <3>1, WalkingByHandler DEF HandleFlowEscape, Walking
  <2>4. QED
    BY <1>5, <1>e, <2>2, <2>3 DEF HandleFlowEscape
<1>6. ASSUME NEW m \in Msgs, StoreContext(m) PROVE Walking'
  <2>1. CASE StoreAndTrigger(m, NextAttempt(m), Captured(m))
    BY <1>0, <1>6, <2>1, WalkingStores DEF StoreContext, Walking, NextAttempt
  <2>2. CASE StoreFails(m, NextAttempt(m), Captured(m)) /\ Goto(m, "entry")
    BY <2>2, WalkingGoes DEF StoreFails, local
  <2>3. QED
    BY <1>6, <2>1, <2>2 DEF StoreContext
<1>7. ASSUME NEW m \in Msgs, ProcessBlock(m) PROVE Walking'
  BY <1>7, <1>e, WalkingGoes DEF ProcessBlock, Resume, local
<1>8. ASSUME NEW m \in Msgs, SendBlock(m) PROVE Walking'
  BY <1>8, <1>e, WalkingGoes DEF SendBlock, local
<1>9. ASSUME NEW m \in Msgs, FollowAttached(m) PROVE Walking'
  <2>1. ~fallback[m] /\ Chained(m) \in Automatic(block[m])
    BY <1>9 DEF FollowAttached, Chained, Automatic
  <2>2. QED
    BY <1>9, <1>e, <2>1, WalkingOn DEF FollowAttached
<1>10. ASSUME NEW m \in Msgs, MatchOutcome(m) PROVE Walking'
  <2>1. ~fallback[m] /\ Followers(m) = Automatic(block[m])
    BY <1>10 DEF MatchOutcome, Chained, Followers, IsSystem, Automatic
  <2>2. CASE Resume(m, "done")
    BY <2>2, WalkingGoes DEF Resume, local
  <2>3. QED
    BY <1>10, <1>e, <2>1, <2>2, WalkingOn DEF MatchOutcome
<1>11. ASSUME NEW m \in Msgs, StoreOutcomeContext(m) PROVE Walking'
  <2>1. CASE StoreAndTrigger(m, seen[m].attempt, seen[m].captured)
    BY <1>0, <1>11, <2>1, WalkingStores DEF StoreOutcomeContext, Walking
  <2>2. CASE StoreFails(m, seen[m].attempt, seen[m].captured) /\ Goto(m, "done")
    BY <2>2, WalkingGoes DEF StoreFails, local
  <2>3. QED
    BY <1>11, <2>1, <2>2 DEF StoreOutcomeContext
<1>12. ASSUME NEW m \in Msgs, WaitForReply(m) PROVE Walking'
  BY <1>12, WalkingGoes DEF WaitForReply, local
<1>13. ASSUME NEW m \in Msgs, NoFollower(m) PROVE Walking'
  BY <1>13, <1>e DEF NoFollower
<1>14. ASSUME NEW m \in Msgs, MatchEntryBlock(m) PROVE Walking'
  <2>1. CASE Resume(m, "fallback") \/ Resume(m, "done")
    BY <2>1, WalkingGoes DEF Resume, local
  <2>2. QED
    BY <1>14, <1>c, <2>1 DEF MatchEntryBlock, After
<1>15. ASSUME NEW m \in Msgs, SendGlobalFallback(m) PROVE Walking'
  <2>1. CASE Goto(m, "done") /\ UNCHANGED local
    BY <2>1, WalkingGoes DEF local
  <2>2. QED
    BY <1>15, <1>c, <2>1 DEF SendGlobalFallback, After
<1>16. ASSUME NEW m \in Msgs, StartConversation(m) PROVE Walking'
  <2>1. CASE Resume(m, "done")
    BY <2>1, WalkingGoes DEF Resume, local
  <2>2. CASE Goto(m, "storeEntry") /\ seen' = [seen EXCEPT ![m] = NewConvo] /\ UNCHANGED <<block, fallback>>
    <3>1. seen'[m] = NewConvo /\ \A n \in Msgs \ {m} : seen'[n] = seen[n]
      BY <2>2 DEF TypeOK
    <3>2. QED
      BY <1>16, <2>2, <3>1, NewConvoFields, WalkingByHandler DEF StartConversation, Walking
  <2>3. QED
    BY <1>16, <2>1, <2>2 DEF StartConversation
<1>17. ASSUME NEW m \in Msgs, StoreEntryContext(m) PROVE Walking'
  <2>1. CASE StoreAndTrigger(m, seen[m].attempt, Captured(m))
    BY <1>0, <1>17, <1>r, <2>1, WalkingStores DEF StoreEntryContext, Walking
  <2>2. CASE StoreFails(m, seen[m].attempt, Captured(m)) /\ Goto(m, "done")
    BY <2>2, WalkingGoes DEF StoreFails, local
  <2>3. QED
    BY <1>17, <2>1, <2>2 DEF StoreEntryContext
<1>18. ASSUME NEW c \in Msgs, EndConversation(c) PROVE Walking'
  BY <1>18 DEF EndConversation, Walking, local
<1>19. CASE UNCHANGED vars
  BY <1>19 DEF vars, local, Walking
<1>20. QED
  BY <1>1, <1>2, <1>3, <1>4, <1>5, <1>6, <1>7, <1>8, <1>9, <1>10, <1>11, <1>12,
     <1>13, <1>14, <1>15, <1>16, <1>17, <1>18, <1>19 DEF Next, HandlerStep

-----------------------------------------------------------------------------
(* What a quiet engine keeps, also when writes fail.                       *)

\* What the engine keeps when subscribers wait.
QuietInv ==
  /\ TypeOK /\ Located /\ Asking /\ Living
  /\ Solo /\ Fresh /\ Walking /\ AttemptWithinBlockLimit

\* Handlers of quiet subscribers work with exact copies.
LEMMA ExactCopy ==
  ASSUME Solo, NEW m \in Msgs, pc[m] \in Working
  PROVE  seen[m] = convo[on[m]]
  BY DEF Solo

LEMMA LimitStep ==
  ASSUME QuietInv, [Next]_vars
  PROVE  AttemptWithinBlockLimit'
<1> USE DEF QuietInv
<1> DEFINE Within(doc) ==
      doc.attempt > 0 => /\ doc.current # NoBlock
                         /\ MaxAttempts[doc.current] > 0
                         /\ doc.attempt <= MaxAttempts[doc.current] + 1
<1>0. (\A c \in Msgs : Within(convo[c])) /\ \A c \in Msgs : convo[c] \in Convo /\ seen[c] \in Convo
  BY DEF AttemptWithinBlockLimit, TypeOK
<1>g. (\A c \in Msgs : Within(convo'[c])) => AttemptWithinBlockLimit'
  BY DEF AttemptWithinBlockLimit
<1>1. ASSUME NEW m \in Msgs, Stored(m) PROVE AttemptWithinBlockLimit'
  <2>1. /\ pc[m] \in {"store", "outcome", "storeEntry"} /\ on[m] \in Msgs
        /\ convo'[on[m]].current = seen[m].current
        /\ convo'[on[m]].attempt = IF pc[m] = "store" THEN NextAttempt(m) ELSE seen[m].attempt
        /\ seen[m] = convo[on[m]]
    BY <1>1, StoredFields, ExactCopy DEF Working, Triggering
  <2>2. CASE pc[m] = "store" /\ fallback[m]
    <3>1. seen[m].current \in Blocks /\ seen[m].attempt \in Nat
      BY <1>0, <2>2, ConvoFields DEF Asking
    <3>2. /\ MaxAttempts[seen[m].current] \in Nat /\ MaxAttempts[seen[m].current] > 0
          /\ seen[m].attempt <= MaxAttempts[seen[m].current]
      BY <2>2, <3>1 DEF Walking, CatalogueAssumption
    <3>3. Within(convo'[on[m]])
      BY <2>1, <2>2, <3>1, <3>2 DEF NextAttempt, CatalogueAssumption
    <3>4. QED
      BY <1>0, <1>1, <1>g, <3>3, StoredFields
  <2>3. CASE pc[m] = "store" /\ ~fallback[m]
    <3>1. Within(convo'[on[m]])
      BY <2>1, <2>3 DEF NextAttempt
    <3>2. QED
      BY <1>0, <1>1, <1>g, <3>1, StoredFields
  <2>4. CASE pc[m] # "store"
    <3>1. Within(convo'[on[m]])
      BY <1>0, <2>1, <2>4
    <3>2. QED
      BY <1>0, <1>1, <1>g, <3>1, StoredFields
  <2>5. QED
    BY <2>2, <2>3, <2>4
<1>2. ASSUME NEW m \in Msgs, Asked(m) PROVE AttemptWithinBlockLimit'
  <2>1. /\ pc[m] = "follow" /\ on[m] \in Msgs
        /\ convo'[on[m]].current = block[m]
        /\ convo'[on[m]].attempt = seen[m].attempt
        /\ seen[m] = convo[on[m]]
    BY <1>2, AskedFields, ExactCopy DEF Working, Triggering
  <2>2. block[m] = seen[m].current \/ seen[m].attempt = 0
    BY <2>1 DEF Asking, Walking, Triggering
  <2>3. Within(convo'[on[m]])
    BY <1>0, <2>1, <2>2
  <2>4. QED
    BY <1>0, <1>2, <1>g, <2>3, AskedFields
<1>3. ASSUME NEW m \in Msgs, convo' = [convo EXCEPT ![m] = NewConvo] PROVE AttemptWithinBlockLimit'
  <2>1. Within(NewConvo)
    BY NewConvoFields
  <2>2. QED
    BY <1>0, <1>3, <1>g, <2>1 DEF TypeOK
<1>4. ASSUME NEW c \in ending, convo' = [convo EXCEPT ![c] = Ended(convo[c])]
      PROVE  AttemptWithinBlockLimit'
  <2>1. c \in Msgs /\ Within(Ended(convo[c]))
    BY <1>0, EndedFields DEF TypeOK
  <2>2. QED
    BY <1>0, <1>4, <1>g, <2>1 DEF TypeOK
<1>5. QED
  BY <1>0, <1>1, <1>2, <1>3, <1>4, <1>g, DocumentSteps

\* A write back keeps what was captured, and moves the conversation along.
LEMMA DocumentsMoveOn ==
  ASSUME QuietInv, [Next]_vars, NEW c \in Msgs
  PROVE  /\ convo[c].captured \subseteq convo'[c].captured
         /\ convo'[c].current # convo[c].current =>
              convo'[c].current \in Reach(After(convo[c].current))
<1> USE DEF QuietInv
<1>0. \A d \in Msgs : convo[d] \in Convo /\ seen[d] \in Convo
  BY DEF TypeOK
<1>1. ASSUME NEW m \in Msgs, Stored(m), c = on[m]
      PROVE  /\ convo[c].captured \subseteq convo'[c].captured
             /\ convo'[c].current = convo[c].current
  <2>1. /\ seen[m] = convo[c] /\ convo'[c].current = convo[c].current
        /\ \/ convo'[c].captured = seen[m].captured
           \/ convo'[c].captured = Captured(m)
    BY <1>1, StoredFields, ExactCopy DEF Working, Triggering
  <2>2. seen[m].captured \subseteq Captured(m)
    BY DEF Captured
  <2>3. QED
    BY <2>1, <2>2
<1>2. ASSUME NEW m \in Msgs, Asked(m), c = on[m]
      PROVE  /\ convo'[c].captured = convo[c].captured
             /\ convo'[c].current # convo[c].current =>
                  convo'[c].current \in Reach(After(convo[c].current))
  <2>1. /\ pc[m] = "follow" /\ seen[m] = convo[c]
        /\ convo'[c].current = block[m] /\ convo'[c].captured = convo[c].captured
    BY <1>2, AskedFields, ExactCopy DEF Working, Triggering
  <2>2. block[m] = seen[m].current \/ block[m] \in Reach(After(seen[m].current))
    BY <2>1 DEF Asking, Walking, Triggering
  <2>3. QED
    BY <2>1, <2>2
<1>3. ASSUME pc[c] = "create", convo' = [convo EXCEPT ![c] = NewConvo]
      PROVE  /\ convo[c].captured \subseteq convo'[c].captured
             /\ convo'[c].current = convo[c].current
  <2>1. convo[c] = NoDocument
    BY <1>3 DEF Living, Fresh, Triggering
  <2>2. NoDocument.captured = {} /\ NoDocument.current = NewConvo.current
    BY DEF NoDocument, NewConvo
  <2>3. convo'[c] = NewConvo
    BY <1>3 DEF TypeOK
  <2>4. QED
    BY <2>1, <2>2, <2>3
<1>4. ASSUME c \in ending, convo' = [convo EXCEPT ![c] = Ended(convo[c])]
      PROVE  /\ convo'[c].captured = convo[c].captured
             /\ convo'[c].current = convo[c].current
  <2>1. convo'[c] = Ended(convo[c])
    BY <1>4 DEF TypeOK
  <2>2. QED
    BY <1>0, <2>1, EndedFields, CapturedFields
<1>5. convo'[c] = convo[c]
      \/ (\E m \in Msgs : c = on[m] /\ (Stored(m) \/ Asked(m)))
      \/ (pc[c] = "create" /\ convo' = [convo EXCEPT ![c] = NewConvo])
      \/ (c \in ending /\ convo' = [convo EXCEPT ![c] = Ended(convo[c])])
  <2>1. ASSUME NEW m \in Msgs, Stored(m) \/ Asked(m) PROVE c = on[m] \/ convo'[c] = convo[c]
    BY <2>1, StoredFields, AskedFields
  <2>2. QED
    BY <2>1, DocumentSteps DEF TypeOK
<1>6. QED
  BY <1>1, <1>2, <1>3, <1>4, <1>5

LEMMA QuietInit == Init => QuietInv
<1> SUFFICES ASSUME Init PROVE QuietInv
  OBVIOUS
<1>1. TypeOK /\ Located /\ Asking
  BY InitTyped, InitAsking
<1>2. Living /\ Fresh /\ Solo /\ Walking
  BY NewConvoFields DEF Init, Living, Fresh, Solo, Walking, Alive, Busy, Working, Triggering
<1>3. AttemptWithinBlockLimit
  BY NewConvoFields DEF Init, AttemptWithinBlockLimit
<1>4. QED
  BY <1>1, <1>2, <1>3 DEF QuietInv

LEMMA QuietStep ==
  ASSUME ~Overlap, QuietInv, [Next]_vars
  PROVE  QuietInv'
<1>1. TypeOK' /\ Located' /\ Asking'
  BY TypeStep, AskingStep DEF QuietInv
<1>2. Living'
  BY <1>1, LivingStep DEF QuietInv, Asking
<1>3. Solo' /\ Fresh' /\ Walking' /\ AttemptWithinBlockLimit'
  BY SoloStep, FreshStep, WalkingStep, LimitStep DEF QuietInv
<1>4. QED
  BY <1>1, <1>2, <1>3 DEF QuietInv

LEMMA QuietAlways ==
  ASSUME ~Overlap
  PROVE  Spec => []QuietInv
<1>1. QuietInv /\ [Next]_vars => QuietInv'
  BY QuietStep
<1>2. QED
  BY <1>1, QuietInit, PTL DEF Spec

\* The counter of local fallbacks is within the limit of the block it counts for
\* (AttemptWithinBlockLimit), for any catalogue and limits.
THEOREM FallbacksWithinBlockLimit ==
  ASSUME ~Overlap
  PROVE  Spec => []AttemptWithinBlockLimit
<1>1. QuietInv => AttemptWithinBlockLimit
  BY DEF QuietInv
<1>2. QED
  BY <1>1, QuietAlways, PTL

\* Storing the whole context loses nothing that was captured (CapturesKept).
THEOREM NothingCapturedIsLost ==
  ASSUME ~Overlap
  PROVE  Spec => CapturesKept
<1>1. QuietInv /\ [Next]_vars =>
        [\A c \in Msgs : convo[c].captured \subseteq convo'[c].captured]_vars
  BY DocumentsMoveOn
<1>2. QED
  BY <1>1, QuietAlways, PTL DEF Spec, CapturesKept

\* Conversations move along the flow as drawn (FollowsFlow), through any number
\* of attached and system blocks.
THEOREM ConversationsFollowTheFlow ==
  ASSUME ~Overlap
  PROVE  Spec => FollowsFlow
<1> DEFINE Follows ==
      \A c \in Msgs : LET from == convo[c].current to == convo'[c].current IN
        to # from =>
          to \in Reach(IF from = NoBlock
                       THEN EntryBlocks \cup ({FallbackBlock} \ {NoBlock})
                       ELSE NextBlocks[from])
<1>1. QuietInv /\ [Next]_vars => [Follows]_vars
  BY DocumentsMoveOn DEF After
<1>2. QED
  BY <1>1, QuietAlways, PTL DEF Spec, FollowsFlow

-----------------------------------------------------------------------------
(* One conversation at a time, when no write fails.                        *)

\* Where a handler looks for a block to open a conversation.
Entering == {"entry", "fallback", "create"}

\* A sender has one conversation that can take a message, or none where a
\* handler is about to open one.
Lone ==
  /\ \A m \in Msgs : pc[m] \in Entering => \A c \in Kin(m) : c \notin Alive
  /\ \A c, d \in Alive : Sender[c] = Sender[d] => c = d

\* A step of a handler opens no conversation, and leaves none open when it
\* starts to look for an entry block.
LEMMA LoneShrinks ==
  ASSUME TypeOK, Lone, NEW m \in Msgs, NEW l, Goto(m, l), Alive' \subseteq Alive,
         l \in Entering => pc[m] \in Entering \/ \A c \in Kin(m) : c \notin Alive'
  PROVE  Lone'
<1>1. \A n \in Msgs : pc'[n] = IF n = m THEN l ELSE pc[n]
  BY DEF Goto, TypeOK
<1>2. \A n \in Msgs : pc'[n] \in Entering => \A c \in Kin(n) : c \notin Alive'
  BY <1>1 DEF Lone
<1>3. \A c, d \in Alive' : Sender[c] = Sender[d] => c = d
  BY DEF Lone
<1>4. QED
  BY <1>2, <1>3 DEF Lone, Kin

LEMMA LoneStep ==
  ASSUME "db" \notin Faults, TypeOK, Located, Living, Solo, Lone, [Next]_vars
  PROVE  Lone'
<1>0. \A c \in Msgs : convo[c] \in Convo
  BY DEF TypeOK
<1>u. USE DEF At, Entering
<1>k. ASSUME UNCHANGED <<convo, ending>> PROVE Alive' = Alive
  BY <1>k DEF Alive
<1>e. ASSUME NEW m \in Msgs, pc[m] \in Working, Abandon(m) \/ EndFlow(m) PROVE Lone'
  <2>1. on[m] \in Kin(m) /\ on[m] \in Alive
    BY <1>e DEF Solo
  <2>2. UNCHANGED convo /\ ending' = ending \cup {on[m]}
        /\ Goto(m, IF Abandon(m) THEN "entry" ELSE "done")
    BY <1>e DEF Abandon, EndFlow, EmitEnd
  <2>3. Alive' \subseteq Alive /\ on[m] \notin Alive'
    BY <2>2 DEF Alive
  <2>4. \A c \in Kin(m) : c \notin Alive'
    BY <2>1, <2>3 DEF Lone, Kin
  <2>5. QED
    BY <2>2, <2>3, <2>4, LoneShrinks
<1>s. ASSUME NEW m \in Msgs, Stored(m) \/ Asked(m), UNCHANGED ending,
             NEW l, l \notin Entering, Goto(m, l)
      PROVE  Lone'
  <2>1. \A c \in Msgs : convo'[c].status = convo[c].status
    BY <1>s, StoredFields, AskedFields
  <2>2. Alive' = Alive
    BY <1>s, <2>1 DEF Alive
  <2>3. QED
    BY <1>s, <2>2, LoneShrinks
<1>1. ASSUME NEW m \in Msgs, ReceiveMessage(m) PROVE Lone'
  BY <1>1, <1>k, LoneShrinks DEF ReceiveMessage, Resume
<1>2. ASSUME NEW m \in Msgs, FindConversation(m) PROVE Lone'
  <2>1. Alive' = Alive
    BY <1>2, <1>k DEF FindConversation, Resume
  <2>2. CASE Active(Sender[m]) = {}
    <3>1. \A c \in Kin(m) : c \notin Alive
      BY <2>2 DEF Active, Kin, Alive
    <3>2. QED
      BY <1>2, <2>1, <3>1, LoneShrinks DEF FindConversation, Resume
  <2>3. CASE Active(Sender[m]) # {}
    BY <1>2, <2>1, <2>3, LoneShrinks DEF FindConversation
  <2>4. QED
    BY <2>2, <2>3
<1>3. ASSUME NEW m \in Msgs, MatchNextBlock(m) PROVE Lone'
  BY <1>3, <1>e, <1>k, LoneShrinks DEF MatchNextBlock, Select, Resume, Working
<1>4. ASSUME NEW m \in Msgs, MatchWithoutCurrent(m) PROVE Lone'
  BY <1>4, <1>e DEF MatchWithoutCurrent, Working
<1>5. ASSUME NEW m \in Msgs, HandleFlowEscape(m) PROVE Lone'
  BY <1>5, <1>e, <1>k, LoneShrinks DEF HandleFlowEscape, Select, Working
<1>6. ASSUME NEW m \in Msgs, StoreContext(m) \/ StoreOutcomeContext(m) \/ StoreEntryContext(m)
      PROVE  Lone'
  BY <1>6, <1>s DEF StoreContext, StoreOutcomeContext, StoreEntryContext, StoreAndTrigger,
     StoreFails, Stored
<1>7. ASSUME NEW m \in Msgs, ProcessBlock(m) PROVE Lone'
  BY <1>7, <1>e, <1>k, LoneShrinks DEF ProcessBlock, Resume, Working, Triggering
<1>8. ASSUME NEW m \in Msgs, SendBlock(m) PROVE Lone'
  BY <1>8, <1>e, <1>k, LoneShrinks DEF SendBlock, Working, Triggering
<1>9. ASSUME NEW m \in Msgs, FollowAttached(m) PROVE Lone'
  BY <1>9, <1>e, <1>k, LoneShrinks DEF FollowAttached, Continue, Working, Triggering
<1>10. ASSUME NEW m \in Msgs, MatchOutcome(m) PROVE Lone'
  BY <1>10, <1>e, <1>k, LoneShrinks DEF MatchOutcome, Continue, Working, Triggering
<1>11. ASSUME NEW m \in Msgs, WaitForReply(m) PROVE Lone'
  BY <1>11, <1>s DEF WaitForReply, Asked
<1>12. ASSUME NEW m \in Msgs, NoFollower(m) PROVE Lone'
  BY <1>12, <1>e DEF NoFollower, Working, Triggering
<1>13. ASSUME NEW m \in Msgs, MatchEntryBlock(m) PROVE Lone'
  BY <1>13, <1>k, LoneShrinks DEF MatchEntryBlock, Select, Resume
<1>14. ASSUME NEW m \in Msgs, SendGlobalFallback(m) PROVE Lone'
  BY <1>14, <1>k, LoneShrinks DEF SendGlobalFallback, Select
<1>15. ASSUME NEW m \in Msgs, StartConversation(m) PROVE Lone'
  <2>1. /\ \A c \in Kin(m) : c \notin Alive
        /\ \A n \in Kin(m) \ {m} : ~Busy(n)
    BY <1>15 DEF StartConversation, Lone, Solo, Busy, Kin
  <2>2. /\ \A n \in Msgs : pc'[n] = IF n = m THEN "storeEntry" ELSE pc[n]
        /\ \A c \in Msgs \ {m} : convo'[c] = convo[c]
        /\ UNCHANGED ending
    BY <1>15 DEF StartConversation, Goto, TypeOK
  <2>3. \A c \in Msgs \ {m} : c \in Alive' <=> c \in Alive
    BY <2>2 DEF Alive
  <2>4. \A n \in Msgs : pc'[n] \in Entering => \A c \in Kin(n) : c \notin Alive'
    <3>1. SUFFICES ASSUME NEW n \in Msgs, pc'[n] \in Entering
                   PROVE  \A c \in Kin(n) : c \notin Alive'
      OBVIOUS
    <3>2. pc[n] \in Entering /\ n \notin Kin(m)
      BY <2>1, <2>2, <3>1 DEF Busy, Kin
    <3>3. \A c \in Kin(n) : c \in Msgs \ {m} /\ c \notin Alive
      BY <3>2 DEF Lone, Kin
    <3>4. QED
      BY <2>3, <3>3
  <2>5. \A c, d \in Alive' : Sender[c] = Sender[d] => c = d
    BY <2>1, <2>3 DEF Lone, Kin, Alive
  <2>6. QED
    BY <2>4, <2>5 DEF Lone, Kin
<1>16. ASSUME NEW c \in Msgs, EndConversation(c) PROVE Lone'
  <2>1. /\ c \in ending /\ ending' = ending \ {c} /\ UNCHANGED pc
        /\ convo' = [convo EXCEPT ![c] = Ended(convo[c])]
    BY <1>16 DEF EndConversation
  <2>2. convo'[c].status = "ended" /\ \A d \in Msgs \ {c} : convo'[d] = convo[d]
    BY <1>0, <2>1, EndedFields DEF TypeOK
  <2>3. Alive' = Alive
    BY <2>1, <2>2 DEF Alive
  <2>4. QED
    BY <2>1, <2>3 DEF Lone, Kin
<1>17. CASE UNCHANGED vars
  BY <1>17, <1>k DEF vars, Lone, Kin
<1>18. QED
  BY <1>1, <1>2, <1>3, <1>4, <1>5, <1>6, <1>7, <1>8, <1>9, <1>10, <1>11, <1>12,
     <1>13, <1>14, <1>15, <1>16, <1>17 DEF Next, HandlerStep

\* A subscriber who waits for the bot never has two conversations that can take
\* a message (OneLiveConversation): each way out of a conversation emits its end
\* before the handler looks for an entry block.
THEOREM OneConversationLives ==
  ASSUME ~Overlap, "db" \notin Faults
  PROVE  Spec => []OneLiveConversation
<1>1. Init => Lone
  BY NewConvoFields DEF Init, Lone, Alive, Entering
<1>2. QuietInv /\ Lone /\ [Next]_vars => Lone'
  BY LoneStep DEF QuietInv
<1>3. Lone => OneLiveConversation
  BY DEF Lone, Alive, Active, OneLiveConversation
<1>4. QED
  BY <1>1, <1>2, <1>3, QuietAlways, PTL DEF Spec

=============================================================================
