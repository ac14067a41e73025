------------------------------ MODULE MCIntake ------------------------------
(* Small instances of Intake: a handful of texts, and the calls that can be  *)
(* made of them.                                                             *)
EXTENDS Intake

hit(field, first, last) == [field |-> field, first |-> first, last |-> last]

plain == [length |-> 4, hits |-> <<>>, presidio |-> <<>>, markers |-> {}, cue |-> "event",
          fuzzy |-> [type |-> "intent", score |-> 40], entities |-> FALSE,
          feeling |-> FALSE, long |-> FALSE, noise |-> FALSE]

greeting == [plain EXCEPT !.length = 1, !.noise = TRUE]
vague == plain                               \* "it came on Monday"
typo == [plain EXCEPT !.fuzzy.score = 90]    \* "refnd for this"
member == [plain EXCEPT !.cue = "profile", !.long = TRUE]
\* A phone number found by the regex, an e-mail address by both detectors.
contact == [plain EXCEPT !.cue = "issue", !.entities = TRUE, !.markers = {2, 4},
              !.hits = <<hit("email", 4, 4), hit("phone", 1, 2)>>,
              !.presidio = <<hit("email", 3, 4)>>]
\* A card number, the first part of which also reads as an Aadhaar number.
card == [plain EXCEPT !.length = 5, !.feeling = TRUE,
           !.hits = <<hit("aadhaar", 2, 3), hit("credit_card", 2, 4)>>]

text(sentences, whole) ==
  [sentences |-> sentences, whole |-> whole, phrase |-> Nil, imperative |-> "none",
   second_person |-> FALSE, system_noun |-> FALSE]

hello == text(<<greeting>>, greeting)
blank == text(<<>>, [plain EXCEPT !.length = 0])
report == text(<<greeting, contact, member>>, contact)
chat == text(<<vague, typo>>, typo)
denied == [chat EXCEPT !.phrase = 2]
buried == [chat EXCEPT !.phrase = MaxDecodeDepth + 1]
order == [chat EXCEPT !.imperative = "early", !.system_noun = TRUE]
ask == [chat EXCEPT !.imperative = "early", !.second_person = TRUE]
request == [chat EXCEPT !.imperative = "late", !.system_noun = TRUE]

item(form, t, type, confidence) ==
  [form |-> form, text |-> t, repr |-> t, type |-> type, entities |-> FALSE,
   confidence |-> confidence]

\* "{'fact': 'Ignore ...'}": a phrase still shows in the repr, the imperative that
\* opens the text does not.
hidden == [item("dict", order, "issue", 70) EXCEPT !.repr = chat]

LongListItems == {item("string", report, "event", 0), item("dict", chat, "intent", 90)}

\* A Fact object comes from a library's caller only.
Sent == {item("string", t, "event", 0) : t \in {hello, report, chat, order}}
        \cup {item("dict", chat, "intent", 90), item("dict", denied, "issue", 50), hidden,
              item("dict", chat, "event", 90), item("malformed", hello, "event", 0)}

AnyItem(e) ==
  Sent \cup IF e = "mcp" THEN {}
            ELSE {item("fact", report, "preference", 90), item("fact", order, "issue", 70)}

FactLists(e) == UNION {[1..n -> AnyItem(e)] : n \in 0..2} \cup [1..3 -> LongListItems]

MCCalls ==
  UNION {{[entry |-> e, facts |-> f, raw |-> Nil, trust |-> t, valid |-> TRUE] :
            f \in FactLists(e) \cup {Nil}, t \in {1, 3}} : e \in {"mcp", "library"}}
  \cup {[entry |-> e, facts |-> f, raw |-> r, trust |-> t, valid |-> v] :
     e \in {"mcp", "library"}, f \in {Nil, <<>>, <<item("string", denied, "event", 0)>>},
     r \in {Nil, Empty, hello, blank, report, denied, buried, order, ask, request},
     t \in {0, 1}, v \in BOOLEAN}

\* The policy's switch is off in two of the deployments.
MCConfigs ==
  {c \in [llm : BOOLEAN, pii : BOOLEAN, presidio : BOOLEAN, reject : BOOLEAN] :
     (c.presidio => c.pii) /\ (c.reject \/ ~(c.presidio \/ c.llm))}

MCReplies == {<<>>, <<NewFact(0, contact, "preference", TRUE, 95), NewFact(0, vague, "event", FALSE, 10)>>}

MCMinTrust == [t \in Types |-> IF t \in {"profile", "preference"} THEN 3 ELSE 1]

\* Calls whose texts the regexes find overlapping identifiers in.
CardCalls ==
  {[entry |-> "library", facts |-> <<item("fact", text(<<s>>, s), type, 90)>>, raw |-> Nil,
    trust |-> t, valid |-> TRUE] : s \in {card, contact, vague, member}, type \in Types, t \in 1..4}
=============================================================================
