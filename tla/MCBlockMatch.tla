---------------------------- MODULE MCBlockMatch ----------------------------
(* Small instances of BlockMatch: blocks of every kind of pattern, for all   *)
(* visitors, labelled ones, or another channel.                              *)
EXTENDS BlockMatch

MCLabels == {"new", "vip"}
MCWeight == "intent" :> 2 @@ "lang" :> 1

Text(t) == [kind |-> "text", text |-> t]
Regex(ts) == [kind |-> "regex", texts |-> ts]
Payload(label, value, type) ==
  [kind |-> "payload", label |-> label, value |-> value, type |-> type]
Nlp(all) == [kind |-> "nlp", all |-> all]
Value(n, v) == [entity |-> n, match |-> "value", value |-> v]
Entity(n) == [entity |-> n, match |-> "entity"]

Block(patterns, labels, channels) ==
  [patterns |-> patterns, labels |-> labels, channels |-> channels]

Written ==
  { <<Text("hi")>>, <<Regex({"hi", "buy"})>>,
    <<Payload("buy", <<"BUY">>, NoType)>>, <<Payload("where", <<"LOC">>, "location")>>,
    <<Payload("one", <<"BUY", "1">>, NoType), Regex({"bye"})>> }

Predicted ==
  { <<Nlp(<<Value("intent", "greet")>>)>>, <<Nlp(<<Entity("intent")>>)>>,
    <<Nlp(<<Value("intent", "greet"), Value("lang", "fr")>>)>>,
    <<Nlp(<<Entity("intent"), Entity("lang")>>), Text("hi")>>,
    <<Nlp(<<Entity("lang")>>), Nlp(<<Value("intent", "order")>>)>> }

System ==
  { <<Payload("done", <<"any">>, "outcome")>>, <<Payload("done", <<"win">>, "outcome")>> }

MCBlocks ==
  {Block(p, l, {}) : p \in Written \cup Predicted \cup System,
                     l \in {{}, {"vip"}, {"new", "vip"}}}
  \cup {Block(p, {}, {"sms"}) : p \in {<<Text("hi")>>, <<Nlp(<<Entity("intent")>>)>>}}

Parsed(n, v, c) == [entity |-> n, value |-> v, canonical |-> v, confidence |-> c]

Predictions ==
  { <<Parsed("intent", "greet", 2)>>,
    <<Parsed("intent", "order", 3), Parsed("lang", "fr", 1)>>,
    <<Parsed("lang", "fr", 2), Parsed("intent", "greet", 3)>>,
    <<Parsed("intent", "order", 1), Parsed("intent", "greet", 3)>>,
    <<Parsed("mood", "happy", 3), [Parsed("intent", "hello", 2) EXCEPT !.canonical = "greet"]>> }

Says(payload, text, entities) ==
  [payload |-> payload, text |-> text, entities |-> entities]

MCMessages ==
  {Says(NoPayload, t, n) : t \in {NoText, "hi", "bye"}, n \in Predictions}
  \cup {Says([parts |-> p, type |-> NoType], t, <<>>) :
          p \in {<<"BUY">>, <<"BUY", "1">>, <<"BUYER">>}, t \in {"hi", "buy"}}
  \cup {Says([parts |-> <<>>, type |-> "location"], NoText, <<>>)}

MCEvents ==
  {m @@ [channel |-> "web", labels |-> l] : m \in MCMessages, l \in {{}, {"vip"}}}

=============================================================================
