------------------------ MODULE ConversationLifecycle ------------------------
(***************************************************************************)
(* What the engine promises of a conversation, whoever handles which       *)
(* message when: it is opened once; while it is open it comes to wait for  *)
(* the reply to one question after another, and never loses its question;  *)
(* it is closed once, and a closed conversation is never opened again.     *)
(***************************************************************************)
CONSTANTS Conversations, Questions, NoQuestion

VARIABLES stage, question

vars == <<stage, question>>

Init ==
  /\ stage = [c \in Conversations |-> "absent"]
  /\ question = [c \in Conversations |-> NoQuestion]

Open(c) ==
  /\ stage[c] = "absent"
  /\ stage' = [stage EXCEPT ![c] = "open"]
  /\ UNCHANGED question

Ask(c, q) ==
  /\ stage[c] = "open"
  /\ question' = [question EXCEPT ![c] = q]
  /\ UNCHANGED stage

Close(c) ==
  /\ stage[c] = "open"
  /\ stage' = [stage EXCEPT ![c] = "closed"]
  /\ question' = [question EXCEPT ![c] = NoQuestion]

Next == \E c \in Conversations :
          Open(c) \/ Close(c) \/ \E q \in Questions : Ask(c, q)

Spec == Init /\ [][Next]_vars

=============================================================================
