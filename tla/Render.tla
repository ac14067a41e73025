------------------------------- MODULE Render -------------------------------
(***************************************************************************)
(* What a read makes of a customer's memories: the list, from the cache or *)
(* from the rows (memory/manager.py), the token-budget compressor          *)
(* (memory/compressor.py), the text of each channel (channels/), the       *)
(* envelope of untrusted facts (provenance/wrapping.py), and the trace of  *)
(* an agent's draft back to memories (audit/trace.py), as a client         *)
(* (client.py) or the MCP tools memory_read and memory_trace call them.    *)
(*                                                                         *)
(* An agent reads, drafts an answer from what it was shown, and has the    *)
(* draft traced; memories and the cache come and go in between.  A fact is *)
(* a sequence of words.  The facts of one write have one creation time and *)
(* often one salience, so that memories may tie.                           *)
(***************************************************************************)
EXTENDS Integers, Sequences, FiniteSets, FiniteSetsExt, SequencesExt

CONSTANTS
  Catalog,        \* the memories there may be: [id, type, words, salience,
                  \* created, trust, nonces], nonces being those in its text
  Opposed,        \* the pairs <<m, n>> of them of which m supersedes n
  Words,          \* what facts are made of
  Budgets,        \* what a client passes as token_budget
  Filters,        \* and as fact_type
  DefaultBudget,  \* default_token_budget, 2000
  Nonces,         \* secrets.token_hex(8)
  ListLimit,      \* a read lists so many rows, 100
  RenderMinTrust, \* TrustPolicy.render_min_trust, agent_action
  UserContent,    \* TrustLevel.user_content, the lowest
  Lines,          \* WhatsApp shows so many memories, 8
  PerType,        \* and the web chat so many of a type, 5
  MinPhrase,      \* min_substring_len, 15 characters, in words
  Fillers,        \* what else a draft may say: sets of words of no memory
  MaxChanges,     \* bound of the model: changes of rows and cache
  Nil             \* Python's None

Types == {"issue", "intent", "resolution", "profile", "preference", "event"}
Channels == {"whatsapp", "sms", "web", "voice", "app"}

\* The trust is None where the store does not keep it.
Memories == [id : STRING, type : Types, words : Seq(Words) \ {<<>>}, salience : Int,
             created : Int, trust : Nat \cup {Nil}, nonces : SUBSET Nonces]

ASSUME RenderAssumption ==
  /\ IsFiniteSet(Catalog) /\ Catalog \subseteq Memories
  /\ \A m, n \in Catalog : m.id = n.id => m = n
  /\ \A m \in Catalog : m.trust \in Nat /\ m.trust >= UserContent
  /\ Budgets \subseteq Int \cup {Nil} /\ Filters \subseteq Types \cup {Nil}
  /\ DefaultBudget \in Int /\ ListLimit \in Nat \ {0}
  /\ {RenderMinTrust, UserContent, Lines, PerType} \subseteq Nat /\ MinPhrase \in Nat \ {0}
  /\ \A others \in Fillers : IsFiniteSet(others)
  /\ Nil \notin Channels \cup Nonces \cup {"wrapped"} /\ Nil \notin Seq(Memories)

VARIABLES
  backend,   \* "memory" or "postgres"
  stored,    \* the active memories of the customer
  cache,     \* the customer's working memory in the hot store, a list; Nil: none
  listed,    \* history: the list that the last read worked on
  budget,    \* of the last read
  shown,     \* what the last read returned
  text,      \* what the agent was given of it: [by, lines], the lines as a set
  draft,     \* the agent's output: [phrase, others], Nil: none
  traced,    \* history: the list that the last trace worked on
  hits,      \* of the last trace: {[id, score]}, Nil: none
  changes,   \* changes of rows and cache so far
  uncached   \* history: the cache was dropped since the last read

vars == <<backend, stored, cache, listed, budget, shown, text, draft, traced, hits,
          changes, uncached>>

-----------------------------------------------------------------------------
(* The list a read works on.                                               *)

Outranks(m, n) == m.salience > n.salience \/ (m.salience = n.salience /\ m.created > n.created)

\* The members of S in the order R, a set of pairs.
Arranged(S, R) ==
  [k \in 1..Cardinality(S) |-> CHOOSE x \in S : Cardinality({y \in S : <<y, x>> \in R}) = k - 1]

\* The orders in which a store may return rows: memories that tie come either way.
Orders ==
  LET places == {place \in [Catalog -> 1..Cardinality(Catalog)] :
                   \A m, n \in Catalog : /\ place[m] = place[n] => m = n
                                         /\ Outranks(m, n) => place[m] < place[n]}
  IN  {{p \in Catalog \X Catalog : place[p[1]] < place[p[2]]} : place \in places}

\* insert_memory has no column for metadata, where the trust level is kept.
AsRead(m) == IF backend = "postgres" THEN [m EXCEPT !.trust = Nil] ELSE m

\* list_memories: the first rows of a type, or of any, most salient first.
Listing(type, order) ==
  LET rows == Arranged({m \in stored : type = Nil \/ m.type = type}, order)
  IN  [k \in {k \in DOMAIN rows : k <= ListLimit} |-> AsRead(rows[k])]

\* A cached list is taken as it is, whatever its type and whatever is stored.
ReadList(type, list) ==
  IF cache # Nil THEN list = cache ELSE \E order \in Orders : list = Listing(type, order)

-----------------------------------------------------------------------------
(* The compressor.                                                         *)

KeepTypes == {"intent", "resolution", "profile"}

ApproxTokens(m) == (Len(m.words) * 4) \div 3 + 1

Cost(S) == MapThenSumSet(ApproxTokens, S)

\* The first n of each of some types.
FirstOfTypes(list, types, n) ==
  {list[k] : k \in {k \in DOMAIN list :
                      /\ list[k].type \in types
                      /\ Cardinality({h \in 1 .. k - 1 : list[h].type = list[k].type}) < n}}

\* The first of each type that is always kept.
Pinned(list) == FirstOfTypes(list, KeepTypes, 1)

Take(kept, m, b) ==
  IF m \in kept \/ Cost(kept) + ApproxTokens(m) > b THEN kept ELSE kept \cup {m}

\* Pinned memories whatever they cost, then the others by rank while they fit; a
\* memory too large is passed over and smaller ones after it are still tried.  The
\* list is sorted already, and sorts of it keep the order of memories that tie.
Kept(list, b) == FoldLeft(LAMBDA kept, m : Take(kept, m, b), Pinned(list), list)

\* The last sort, of the pinned memories followed by the others.
LastSort(list) ==
  LET pinned == Pinned(list)
  IN  {p \in (DOMAIN list) \X (DOMAIN list) :
         LET m == list[p[1]]
             n == list[p[2]]
         IN  \/ Outranks(m, n)
             \/ /\ ~Outranks(n, m)
                /\ \/ m \in pinned /\ n \notin pinned
                   \/ (m \in pinned <=> n \in pinned) /\ p[1] < p[2]}

\* The memories of S in the list, sorted.
Sorted(list, S) ==
  LET order == Arranged({k \in DOMAIN list : list[k] \in S}, LastSort(list))
  IN  [k \in DOMAIN order |-> list[order[k]]]

\* Mutant: the first memory that does not fit ends the loop.
CompressUntilFull(list, b) ==
  LET full(k) == Cost(Pinned(list) \cup ToSet(SubSeq(list, 1, k))) > b
  IN  Sorted(list, Pinned(list) \cup {list[k] : k \in {k \in DOMAIN list : ~full(k)}})

\* Mutant: no last sort, the pinned memories come first.
CompressUnsorted(list, b) ==
  Sorted(list, Pinned(list)) \o Sorted(list, Kept(list, b) \ Pinned(list))

Compress(list, b) == Sorted(list, Kept(list, b))

-----------------------------------------------------------------------------
(* The channels: of which memories the text of each has the facts.         *)

FirstOf(list, n) == {list[k] : k \in {k \in DOMAIN list : k <= n}}

\* sorted() is stable.
MostSalient(list, n) ==
  LET before(j, k) == \/ list[j].salience > list[k].salience
                      \/ (list[j].salience = list[k].salience /\ j < k)
  IN  {list[k] : k \in {k \in DOMAIN list : Cardinality({j \in DOMAIN list : before(j, k)}) < n}}

VoiceTypes == {"issue", "intent", "profile"}

Format(channel, list) ==
  CASE channel = "whatsapp" -> FirstOf(list, Lines)
    [] channel = "sms"      -> MostSalient(list, 2)
    [] channel = "web"      -> FirstOfTypes(list, Types, PerType)
    [] channel = "voice"    -> FirstOfTypes(list, VoiceTypes, 1)
    [] channel = "app"      -> ToSet(list)

-----------------------------------------------------------------------------
(* The envelope.                                                           *)

\* Mutant: a memory that does not say is taken for an agent's.
TrustOfAgent(m) == IF m.trust = Nil THEN RenderMinTrust ELSE m.trust

TrustOf(m) == IF m.trust = Nil THEN UserContent ELSE m.trust

\* A nonce that the fact happens to hold is broken inside its envelope.
Wrapped(list, nonce) ==
  {IF TrustOf(m) >= RenderMinTrust
   THEN [id |-> m.id, envelope |-> Nil, nonces |-> m.nonces]
   ELSE [id |-> m.id, envelope |-> nonce, nonces |-> m.nonces \ {nonce}] : m \in ToSet(list)}

-----------------------------------------------------------------------------
(* The trace.                                                              *)

\* The longest run of the fact's words in the draft, 0 when it is too short.
Phrase(m, d) ==
  Max({0} \cup {Len(run) : run \in {run \in SubSeqs(m.words) \cap SubSeqs(d.phrase) :
                                     Len(run) >= MinPhrase}})

\* Token overlap, in thousandths; 350 is jaccard_threshold.
Jaccard(m, d) ==
  LET out == ToSet(d.phrase) \cup d.others
  IN  (Cardinality(ToSet(m.words) \cap out) * 1000) \div Cardinality(ToSet(m.words) \cup out)

\* A phrase of the fact and its overlap each make a hit; a fact that is there in
\* full is not looked at again.
HitsOf(m, d) ==
  LET phrase == Phrase(m, d)
      overlap == Jaccard(m, d)
  IN  (IF phrase > 0 THEN {[id |-> m.id, score |-> (phrase * 1000) \div Len(m.words)]} ELSE {})
      \cup (IF phrase < Len(m.words) /\ overlap >= 350 THEN {[id |-> m.id, score |-> overlap]} ELSE {})

\* Mutant: hits are not deduplicated.
TraceAll(d, list) == UNION {HitsOf(list[k], d) : k \in DOMAIN list}

\* Mutant: only facts quoted in full count as quoted.
TraceWhole(d, list) ==
  UNION {{h \in HitsOf(list[k], d) : h.score = 1000 \/ h.score = Jaccard(list[k], d)} :
           k \in DOMAIN list}

\* The best hit of each memory.
TraceOutput(d, list) ==
  LET found == UNION {HitsOf(list[k], d) : k \in DOMAIN list}
  IN  {h \in found : \A g \in found : g.id = h.id => g.score <= h.score}

-----------------------------------------------------------------------------
Init ==
  /\ backend \in {"memory", "postgres"}
  /\ stored \in SUBSET Catalog /\ cache = Nil
  /\ \A m, n \in stored : <<m, n>> \in Opposed => m.created <= n.created
  /\ listed = <<>> /\ budget = DefaultBudget /\ shown = <<>>
  /\ text = [by |-> Nil, lines |-> {}]
  /\ draft = Nil /\ traced = <<>> /\ hits = Nil
  /\ changes = 0 /\ uncached = FALSE

\* manager.read: no budget, or 0, is the default one, and what was listed is cached.
Returned(b, type) ==
  /\ budget' = IF b \in {0, Nil} THEN DefaultBudget ELSE b
  /\ ReadList(type, listed')
  /\ cache' = listed'
  /\ shown' = Compress(listed', budget')
  /\ uncached' = FALSE
  /\ UNCHANGED <<backend, stored, draft, traced, hits, changes>>

\* read(as_text), user_read and memory_read; the agent may read again.
Read(b, type, channel) ==
  /\ draft = Nil
  /\ Returned(b, type)
  /\ text' = [by |-> channel, lines |-> Format(channel, shown')]

\* read_wrapped.
ReadWrapped(b, nonce) ==
  /\ draft = Nil
  /\ Returned(b, Nil)
  /\ text' = [by |-> "wrapped", lines |-> Wrapped(shown', nonce)]

\* Others change rows or cache.  Before the first read that is in Init, and after
\* the trace nobody looks.
Change ==
  /\ changes < MaxChanges
  /\ text.by # Nil /\ hits = Nil
  /\ changes' = changes + 1
  /\ UNCHANGED <<backend, listed, budget, shown, text, draft, traced, hits>>

\* The TTL worker, and compaction, leave the cache as it is.
Retire(m) ==
  /\ Change
  /\ m \in stored
  /\ stored' = stored \ {m}
  /\ UNCHANGED <<cache, uncached>>

Uncache == cache' = Nil /\ uncached' = TRUE

\* A write stores a memory, supersedes those it contradicts of the ones listed, and
\* invalidates; on Postgres one that supersedes fails.
Write(m, order) ==
  LET old == {n \in stored : AsRead(n) \in ToSet(Listing(Nil, order)) /\ <<m, n>> \in Opposed}
  IN  /\ Change
      /\ \A n \in stored : n.created < m.created
      /\ backend = "postgres" => old = {}
      /\ stored' = (stored \ old) \cup {m}
      /\ Uncache

\* On Postgres the delete fails, the cache is purged before it.
Forget ==
  /\ Change
  /\ stored' = IF backend = "postgres" THEN stored ELSE {}
  /\ Uncache

\* The hot store drops an entry after its time-to-live.
Expire ==
  /\ Change
  /\ cache # Nil
  /\ Uncache
  /\ UNCHANGED stored

\* The agent puts words of a memory it was shown in its output, among others.
Draft(m, i, j, others) ==
  /\ text.by \in Channels /\ draft = Nil
  /\ m \in text.lines
  /\ draft' = [phrase |-> SubSeq(m.words, i, j), others |-> others]
  /\ UNCHANGED <<backend, stored, cache, listed, budget, shown, text, traced, hits, changes, uncached>>

\* trace_output and user_trace read again, with the default budget.
Trace ==
  /\ draft # Nil /\ hits = Nil
  /\ ReadList(Nil, traced')
  /\ cache' = traced'
  /\ hits' = TraceOutput(draft, Compress(traced', DefaultBudget))
  /\ UNCHANGED <<backend, stored, listed, budget, shown, text, draft, changes, uncached>>

Next ==
  \/ \E b \in Budgets, type \in Filters, channel \in Channels : Read(b, type, channel)
  \/ \E b \in Budgets, nonce \in Nonces : ReadWrapped(b, nonce)
  \/ \E m \in Catalog : Retire(m) \/ \E order \in Orders : Write(m, order)
  \/ Forget
  \/ Expire
  \/ \E m \in Catalog, others \in Fillers : \E i, j \in DOMAIN m.words :
       i <= j /\ Draft(AsRead(m), i, j, others)
  \/ Trace

Spec == Init /\ [][Next]_vars

-----------------------------------------------------------------------------
(* Properties.                                                             *)

TypeOK ==
  /\ {m.id : m \in ToSet(shown)} \subseteq {m.id : m \in Catalog}
  /\ Cardinality(ToSet(shown)) = Len(shown)
  /\ {l.id : l \in text.lines} \subseteq {m.id : m \in ToSet(shown)}
  /\ hits # Nil =>
       /\ \A h \in hits : h.id \in {m.id : m \in Catalog} /\ h.score \in 0 .. 1000
       /\ Cardinality({h.id : h \in hits}) = Cardinality(hits)

\* A read keeps the pinned memories of the list it works on.  It costs no more than
\* its budget, or keeps nothing else, and a memory it drops would not have fitted
\* beside the pinned ones and those kept that are no worse (compressor.py:24-50).
BudgetKept ==
  text.by # Nil =>
    LET pinned == Pinned(listed)
        kept == ToSet(shown)
    IN  /\ pinned \subseteq kept
        /\ Cost(kept) <= budget \/ kept = pinned
        /\ \A m \in ToSet(listed) \ kept :
             Cost(pinned \cup {n \in kept : ~Outranks(m, n)}) + ApproxTokens(m) > budget

\* Whatever a channel leaves out, it never leaves out a memory and shows a less
\* salient one beside which it would stand: of the same type on the web and on the
\* phone, of any type elsewhere.
ShowsTheTop ==
  text.by \in Channels =>
    \A m \in ToSet(shown) \ text.lines, n \in text.lines :
      (text.by \in {"web", "voice"} => m.type = n.type) => ~Outranks(m, n)

\* A memory written with less trust than the policy renders plainly is in an
\* envelope, whose closing tag does not occur inside it; so it is also when the
\* database has forgotten the trust it was written with.
UntrustedWrapped ==
  text.by = "wrapped" =>
    \A m \in Catalog, line \in text.lines :
      m.id = line.id /\ m.trust < RenderMinTrust =>
        line.envelope # Nil /\ line.envelope \notin line.nonces

\* An agent that quotes a phrase of what it was shown is not taken to have made it
\* up, if any of three things holds.  The memory is pinned in the list that the trace
\* works on, cached or fresh, whatever budget the agent read with; or that whole list
\* fits the default budget and the memory is in it; or the agent read with the default
\* budget and the cache has not been dropped since, whatever has become of the rows
\* (client.py:373-387, manager.py:335-345).
NoFalseAlarm ==
  hits # Nil /\ Len(draft.phrase) >= MinPhrase =>
    \A m \in text.lines :
      /\ draft.phrase \in SubSeqs(m.words)
      /\ \/ m \in Pinned(traced)
         \/ m \in ToSet(traced) /\ Cost(ToSet(traced)) <= DefaultBudget
         \/ budget = DefaultBudget /\ ~uncached
      => \E h \in hits : h.id = m.id
=============================================================================
