------------------------------- MODULE Intake -------------------------------
(***************************************************************************)
(* What becomes of one write before anything is stored: the MCP tool's     *)
(* validators and injection floor, the manager's injection filter,         *)
(* extraction, PII masking, the salience cut, the per-write cap and the    *)
(* trust policy.  Each step is one action; `work` is what the step before  *)
(* handed on.  MemoryManager's Batches and Refused are what may come out.  *)
(*                                                                         *)
(* A text is what these steps can tell of it: the sentences it splits      *)
(* into, what it says taken whole, and the features the filter looks for.  *)
(* Confidence and similarity are in percent, salience in 1/10000.          *)
(***************************************************************************)
EXTENDS Integers, FiniteSets, Sequences, SequencesExt

CONSTANTS
  Calls,           \* the write calls a client may make
  Configs,         \* [llm, pii, presidio, reject]: what the deployment has switched on
  Replies,         \* the fact lists an LLM may answer with
  Empty,           \* the empty string
  MaxItems,        \* MAX_FACTS_ITEMS
  MaxFacts,        \* max_facts_per_write
  DropThreshold,   \* salience_drop_threshold
  FuzzyThreshold,  \* HybridConfig.fuzzy_threshold
  MaxDecodeDepth,  \* _MAX_DECODE_DEPTH
  MinTrust,        \* TrustPolicy.min_trust
  Placeholder,     \* length of a rendered placeholder, in units of text
  Nil              \* Python's None

Types == {"event", "intent", "profile", "preference", "issue", "resolution"}

\* What a sentence shows to the detectors, the rules and the score.
Hits == [field : STRING, first : Nat \ {0}, last : Nat]
Sentences ==
  {s \in [length : Nat, hits : Seq(Hits), presidio : Seq(Hits), markers : SUBSET Nat,
          cue : Types, fuzzy : [type : Types, score : 0..100], entities : BOOLEAN,
          feeling : BOOLEAN, long : BOOLEAN, noise : BOOLEAN] :
     \A h \in ToSet(s.hits) \cup ToSet(s.presidio) : h.first <= h.last /\ h.last <= s.length}
Texts == [sentences : Seq(Sentences), whole : Sentences, phrase : Nat \cup {Nil},
          imperative : {"none", "late", "early"}, second_person : BOOLEAN, system_noun : BOOLEAN]
\* An item of a facts list: a string, a Fact, a dict of a Fact's fields, or what
\* is none of them.  repr is what str() makes of a dict or of a stray item.
GivenFacts == [form : {"string", "fact", "dict", "malformed"}, text : Texts, repr : Texts,
               type : Types, entities : BOOLEAN, confidence : 0..100]
WriteCalls == [entry : {"mcp", "library"}, facts : Seq(GivenFacts) \cup {Nil},
               raw : Texts \cup {Nil, Empty}, trust : Int, valid : BOOLEAN]

\* A text unit is its position in the sentence, a placeholder's its field.
Unit(i) == [at |-> i, field |-> Nil]
Units(s) == [i \in 1..s.length |-> Unit(i)]
Facts == [item : Nat, said : Sentences, type : Types, entities : BOOLEAN, confidence : 0..100,
          body : Seq([at : Nat, field : STRING \cup {Nil}])]

ASSUME IntakeAssumption ==
  /\ Calls \subseteq WriteCalls
  /\ Configs \subseteq [llm : BOOLEAN, pii : BOOLEAN, presidio : BOOLEAN, reject : BOOLEAN]
  /\ \A reply \in Replies : reply \in Seq(Facts) /\ \A f \in ToSet(reply) : f.body = Units(f.said)
  /\ {MaxItems, MaxFacts, MaxDecodeDepth} \subseteq Nat
  /\ DropThreshold \in 0..10000 /\ FuzzyThreshold \in 0..100
  /\ MinTrust \in [Types -> 1..4]
  /\ Placeholder \in Nat \ {0}

VARIABLES
  call,     \* the arguments of the call
  config,   \* the deployment's configuration
  pc,       \* the next step
  work,     \* extracted facts, in order
  kept,     \* those of them kept for storage
  alerts    \* the alerts raised: [reason, fact], fact being its place in kept

vars == <<call, config, pc, work, kept, alerts>>

Ended == {"done", "bad_request", "error"}

-----------------------------------------------------------------------------
(* Sequences.                                                              *)

\* The members of S in the order R, a set of pairs.
Arranged(S, R) ==
  [k \in 1..Cardinality(S) |-> CHOOSE x \in S : Cardinality({y \in S : <<y, x>> \in R}) = k - 1]

Upwards(S) == {p \in S \X S : p[1] < p[2]}

\* The elements of s at the indices I.
At(s, I) == LET order == Arranged(I, Upwards(I)) IN [k \in DOMAIN order |-> s[order[k]]]

-----------------------------------------------------------------------------
(* The injection filter.                                                   *)

\* Tenths: the imperative alone never fires.
HeuristicScore(t) ==
  IF t.imperative = "none" \/ ~(t.second_person \/ t.system_noun)
  THEN 0
  ELSE 3 + (IF t.imperative = "early" THEN 3 ELSE 0)
         + (IF t.system_noun THEN 3 ELSE 0) + (IF t.second_person THEN 2 ELSE 0)

\* A denied phrase is found through at most MaxDecodeDepth encodings of it.
Denies(t) == t.phrase # Nil /\ t.phrase <= MaxDecodeDepth

\* The instruction shape is judged on the text as it came.
IsSafe(t) == ~Denies(t) /\ HeuristicScore(t) < 7

Present(t) == t \notin {Nil, Empty}

Items(c) == IF c.facts = Nil THEN <<>> ELSE c.facts

\* Mutant: only facts given as strings are scanned.
FloorTextsOfStrings(c) ==
  {c.raw} \cup {f.text : f \in {g \in ToSet(Items(c)) : g.form = "string"}}

\* The tool's floor reads the raw text and the text of every item.
FloorTexts(c) == {c.raw} \cup {f.text : f \in ToSet(Items(c))}

\* Mutant: raw text given, even an empty one, stands for the facts.
FilterTextsByNone(c) == IF c.raw # Nil THEN {c.raw} ELSE {}

\* A dict is scanned as str() shows it, quotes, braces and keys included.
Scanned(f) == IF f.form \in {"string", "fact"} THEN f.text ELSE f.repr

FilterTexts(c) == IF Present(c.raw) THEN {c.raw} ELSE {Scanned(f) : f \in ToSet(Items(c))}

Tainted(texts) == \E t \in texts : Present(t) /\ ~IsSafe(t)

-----------------------------------------------------------------------------
(* Extraction.                                                             *)

Spoken(t) ==
  IF t = Empty THEN <<>> ELSE At(t.sentences, {i \in DOMAIN t.sentences : ~t.sentences[i].noise})

Showing(body) == {u.at : u \in ToSet(body)}

NewFact(item, s, type, entities, confidence) ==
  [item |-> item, said |-> s, type |-> type, entities |-> entities,
   confidence |-> confidence, body |-> Units(s)]

RuleConfidence(s) ==
  70 + (IF s.entities THEN 10 ELSE 0) + (IF s.cue # "event" THEN 10 ELSE 0)

RuleBased(item, t) ==
  [i \in DOMAIN Spoken(t) |->
     LET s == Spoken(t)[i] IN NewFact(item, s, s.cue, s.entities, RuleConfidence(s))]

\* Mutant: the fuzzy score is taken for a fraction.
HybridFactUnscaled(s) ==
  IF s.cue = "event" /\ s.fuzzy.score >= FuzzyThreshold
  THEN NewFact(0, s, s.fuzzy.type, s.entities, 55 + 40 * s.fuzzy.score)
  ELSE NewFact(0, s, s.cue, s.entities, RuleConfidence(s))

\* A rule's specific type stands; a fuzzy match replaces a generic one only.
HybridFact(s) ==
  IF s.cue = "event" /\ s.fuzzy.score >= FuzzyThreshold
  THEN NewFact(0, s, s.fuzzy.type, s.entities, 55 + (40 * s.fuzzy.score) \div 100)
  ELSE NewFact(0, s, s.cue, s.entities, RuleConfidence(s))

Hybrid(t) == [i \in DOMAIN Spoken(t) |-> HybridFact(Spoken(t)[i])]

\* Mutant: a string in which nothing is recognised yields no fact.
FromItemClassifiedOnly(i, f) ==
  IF f.form \in {"fact", "dict"}
  THEN <<NewFact(i, f.text.whole, f.type, f.entities, f.confidence)>>
  ELSE RuleBased(i, f.text)

FromItem(i, f) ==
  IF f.form \in {"fact", "dict"}
  THEN <<NewFact(i, f.text.whole, f.type, f.entities, f.confidence)>>
  ELSE IF Spoken(f.text) # <<>>
  THEN RuleBased(i, f.text)
  ELSE <<NewFact(i, f.text.whole, "event", FALSE, 90)>>

FromItems(facts) == FlattenSeq([i \in DOMAIN facts |-> FromItem(i, facts[i])])

-----------------------------------------------------------------------------
(* Masking.  A hit covers the units first..last of the text.               *)

Overlap(h, k) == h.first <= k.last /\ k.first <= h.last

\* The earlier start first, then the wider span.
WideFirst(hits) ==
  {p \in (DOMAIN hits) \X (DOMAIN hits) :
     LET g == hits[p[1]]
         h == hits[p[2]]
     IN  \/ g.first < h.first
         \/ g.first = h.first /\ g.last > h.last
         \/ g.first = h.first /\ g.last = h.last /\ p[1] < p[2]}

\* _dedupe_overlaps: what overlaps a hit already taken is dropped.
Dedupe(hits) ==
  LET order == Arranged(DOMAIN hits, WideFirst(hits))
      out[k \in 0..Len(hits)] ==
        IF k = 0 THEN <<>>
        ELSE IF \E g \in ToSet(out[k - 1]) : Overlap(hits[order[k]], g)
        THEN out[k - 1] ELSE Append(out[k - 1], hits[order[k]])
  IN  out[Len(hits)]

Detect(s) == IF config.presidio THEN Dedupe(s.hits \o s.presidio) ELSE s.hits

Render(h) == [i \in 1..Placeholder |-> [at |-> 0, field |-> h.field]]

Replace(body, h) == SubSeq(body, 1, h.first - 1) \o Render(h) \o SubSeq(body, h.last + 1, Len(body))

MaskInOrder(body, hits, R) ==
  LET order == Arranged(DOMAIN hits, R)
      out[k \in 0..Len(hits)] == IF k = 0 THEN body ELSE Replace(out[k - 1], hits[order[k]])
  IN  out[Len(hits)]

\* Mutant: replacements are made from the left.
MaskLeftToRight(body, hits) ==
  MaskInOrder(body, hits, {p \in (DOMAIN hits) \X (DOMAIN hits) :
                             \/ hits[p[1]].first < hits[p[2]].first
                             \/ hits[p[1]].first = hits[p[2]].first /\ p[1] < p[2]})

\* From the right, those that start together in the order found.
FromRight(hits) ==
  {p \in (DOMAIN hits) \X (DOMAIN hits) :
     \/ hits[p[1]].first > hits[p[2]].first
     \/ hits[p[1]].first = hits[p[2]].first /\ p[1] < p[2]}

\* PIIMasker._mask.
Mask(body, hits) == MaskInOrder(body, hits, FromRight(hits))

-----------------------------------------------------------------------------
(* Salience.                                                               *)

\* What the score looks for is looked for in the masked text.
Specificity(f) ==
  LET sum == 30 + (IF f.entities THEN 35 ELSE 0)
                + (IF f.said.markers \cap Showing(f.body) # {} THEN 25 ELSE 0)
                + (IF f.said.long THEN 10 ELSE 0)
  IN  IF sum > 100 THEN 100 ELSE sum

\* Recency and uniqueness keep their default of 1 on the write path.
Score(f) ==
  LET s == 30 * Specificity(f)
             + 25 * (IF f.type \in {"intent", "issue", "resolution"} THEN 100 ELSE 40)
             + 20 * 100
             + 15 * (IF f.said.feeling THEN 100 ELSE 20)
             + 10 * 100
  IN  (s * (100 + f.confidence)) \div 200

-----------------------------------------------------------------------------
(* The steps.                                                              *)

\* The call an MCP client makes goes through the tool, a library's does not.
Init ==
  /\ call \in Calls
  /\ config \in Configs
  /\ pc = IF call.entry = "mcp" THEN "memory_write" ELSE "write"
  /\ work = <<>> /\ kept = <<>> /\ alerts = {}

\* The validators; valid stands for the sizes and shapes of what is only stored.
\* An agent may not type a fact as an event.
Valid(c) ==
  /\ c.valid
  /\ c.trust \in 1..4
  /\ Len(Items(c)) <= MaxItems
  /\ \A f \in ToSet(Items(c)) :
       f.form \in {"string", "dict"} /\ (f.form = "dict" => f.type # "event")
  /\ Items(c) # <<>> \/ Present(c.raw)

\* The tool makes a Fact of every dict, and hands on no list rather than an empty one.
AsFact(f) == IF f.form = "dict" THEN [f EXCEPT !.form = "fact"] ELSE f

Handed(c) ==
  [c EXCEPT !.facts = IF Items(c) = <<>> THEN Nil ELSE [i \in DOMAIN c.facts |-> AsFact(c.facts[i])]]

MemoryWrite ==
  /\ pc = "memory_write"
  /\ \/ /\ Valid(call) /\ ~Tainted(FloorTexts(call))
        /\ pc' = "write"
        /\ call' = Handed(call)
     \/ /\ ~Valid(call) \/ Tainted(FloorTexts(call))
        /\ pc' = "bad_request"
        /\ UNCHANGED call
  /\ UNCHANGED <<config, work, kept, alerts>>

\* The head of MemoryManager.write: neither argument, an unknown trust level,
\* a text the filter refuses, where the policy has the filter on.
Write ==
  /\ pc = "write"
  /\ \/ /\ (call.facts = Nil /\ call.raw = Nil) \/ call.trust \notin 1..4
        /\ pc' = "error"
        /\ UNCHANGED alerts
     \/ /\ call.facts # Nil \/ call.raw # Nil
        /\ call.trust \in 1..4
        /\ IF config.reject /\ Tainted(FilterTexts(call))
           THEN pc' = "error" /\ alerts' = alerts \cup {[reason |-> "injection_pattern", fact |-> Nil]}
           ELSE pc' = "extract" /\ UNCHANGED alerts
  /\ UNCHANGED <<call, config, work, kept>>

\* An LLM's answer that is no list of facts falls back to the rules; a failed
\* call to it ends the write.
Ask(t) ==
  \/ \E reply \in Replies : work' = reply /\ pc' = "mask"
  \/ work' = RuleBased(0, t) /\ pc' = "mask"
  \/ pc' = "error" /\ UNCHANGED work

Extract ==
  /\ pc = "extract"
  /\ \/ call.raw # Nil /\ config.llm /\ Ask(call.raw)
     \/ call.raw # Nil /\ ~config.llm /\ work' = Hybrid(call.raw) /\ pc' = "mask"
     \/ /\ call.raw = Nil
        /\ IF \E f \in ToSet(call.facts) : f.form = "malformed"
           THEN pc' = "error" /\ UNCHANGED work
           ELSE work' = FromItems(call.facts) /\ pc' = "mask"
  /\ UNCHANGED <<call, config, kept, alerts>>

MaskFacts ==
  /\ pc = "mask"
  /\ work' = IF config.pii
             THEN [i \in DOMAIN work |-> [work[i] EXCEPT !.body = Mask(@, Detect(work[i].said))]]
             ELSE work
  /\ pc' = "select"
  /\ UNCHANGED <<call, config, kept, alerts>>

Capped(s) == SubSeq(s, 1, IF Len(s) < MaxFacts THEN Len(s) ELSE MaxFacts)

Passing == {i \in DOMAIN work : Score(work[i]) >= DropThreshold}

Trusted(f) == call.trust >= MinTrust[f.type]

\* Mutant: facts the policy refuses do not count towards the cap.
SelectTrustedFirst ==
  /\ pc = "select"
  /\ kept' = Capped(At(work, {i \in Passing : Trusted(work[i])}))
  /\ pc' = IF kept' = <<>> THEN "done" ELSE "plan"
  /\ UNCHANGED <<call, config, work, alerts>>

\* Drop what scores low, then cut the rest to the cap.
Select ==
  /\ pc = "select"
  /\ kept' = Capped(At(work, Passing))
  /\ pc' = IF kept' = <<>> THEN "done" ELSE "plan"
  /\ UNCHANGED <<call, config, work, alerts>>

\* A fact the policy refuses is dropped with an alert, the rest are planned.
Plan ==
  /\ pc = "plan"
  /\ kept' = At(kept, {i \in DOMAIN kept : Trusted(kept[i])})
  /\ alerts' = alerts \cup {[reason |-> "policy_violation", fact |-> i] :
                             i \in {i \in DOMAIN kept : ~Trusted(kept[i])}}
  /\ pc' = "done"
  /\ UNCHANGED <<call, config, work>>

Next == MemoryWrite \/ Write \/ Extract \/ MaskFacts \/ Select \/ Plan

Spec == Init /\ [][Next]_vars /\ WF_vars(Next)

-----------------------------------------------------------------------------
(* Properties.                                                             *)

\* The state is well formed: facts have a known type, a confidence in percent, and
\* the cap bounds what the policy refuses.
TypeOK ==
  /\ \/ call \in Calls
     \/ call.entry = "mcp" /\ \A f \in ToSet(Items(call)) : f.form \in {"string", "fact"}
  /\ config \in Configs
  /\ pc \in {"memory_write", "write", "extract", "mask", "select", "plan"} \cup Ended
  /\ work \in Seq(Facts) /\ kept \in Seq(Facts)
  /\ alerts \subseteq [reason : {"injection_pattern", "policy_violation"}, fact : 1..MaxFacts \cup {Nil}]

\* The facts of `work` that the threshold passes and the cap has room for: the
\* cap counts facts that the policy will still refuse (manager.py:171 and 193).
Chosen == {i \in Passing : Cardinality({j \in Passing : j < i}) < MaxFacts}

\* A write keeps, in order, exactly the facts that score high enough, come
\* early enough for the cap and are trusted enough, whatever the route they
\* came by (manager.py:162-205).
KeepsTheRightFacts ==
  pc = "done" => kept = At(work, {i \in Chosen : Trusted(work[i])})

\* Every item of a facts list leaves at least one fact, and facts stay in the
\* order of their items; a string nothing is recognised in becomes an event
\* (manager.py:142-157).
EveryItemExtracted ==
  (call.raw = Nil /\ pc \in {"mask", "select", "plan", "done"}) =>
    /\ {f.item : f \in ToSet(work)} = DOMAIN call.facts
    /\ \A i, j \in DOMAIN work : i < j => work[i].item <= work[j].item

\* What the tool's injection floor lets through the manager's filter never
\* refuses: the caller of the tool sees bad_request, not an internal error
\* (tools.py:45-60, manager.py:112-128).
FloorSuffices ==
  call.entry = "mcp" => \A a \in alerts : a.reason # "injection_pattern"

\* Behind the tool's floor, and behind the manager's filter while the policy has
\* it on, nothing is kept of a call whose raw text, strings or Fact objects the
\* filter finds a hit in, by whatever route they reached the extractor.  What a
\* library passes as a dict is outside it: the filter reads the dict's repr, so
\* that the text in it may be kept (tools.py:78-94, manager.py:111-157).
NoTaintedFact ==
  kept # <<>> /\ (config.reject \/ call.entry = "mcp")
    => ~Tainted(IF call.raw # Nil THEN {call.raw}
                ELSE {f.text : f \in {g \in ToSet(call.facts) : g.form # "dict"}})

\* The text with each hit replaced, written from left to right.
Replaced(s, hits) ==
  FlattenSeq([i \in 1..s.length |->
    IF \E h \in ToSet(hits) : h.first = i
    THEN Render(CHOOSE h \in ToSet(hits) : h.first = i)
    ELSE IF \E h \in ToSet(hits) : h.first < i /\ i <= h.last THEN <<>> ELSE <<Unit(i)>>])

Disjoint(hits) == \A i, j \in DOMAIN hits : i # j => ~Overlap(hits[i], hits[j])

\* Where the hits do not overlap, and always with Presidio, whose hits are
\* deduplicated, a masked fact is its text with exactly the hits replaced
\* (masker.py:41-50, pii_detector.py:141-150).
MaskedExactly ==
  \A f \in ToSet(kept) :
    config.pii /\ (config.presidio \/ Disjoint(Detect(f.said)))
      => f.body = Replaced(f.said, Detect(f.said))

\* No unit of a text that the detector reported is stored: what masker.py:45
\* promises of replacing right to left.  Overlapping hits break it.
MaskedWhole ==
  config.pii => \A f \in ToSet(kept) : \A h \in ToSet(f.said.hits) :
    Showing(f.body) \cap (h.first..h.last) = {}

=============================================================================
