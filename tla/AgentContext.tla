----------------------------- MODULE AgentContext -----------------------------
(***************************************************************************)
(* agent_state: the context of a chain in the form its vendor's SDK keeps  *)
(* it, carried from one RT to the next.                                    *)
(* An item is something said (it has text, and tells the turns of some     *)
(* RTs) or something thought (reasoning: no text, tied to its model).      *)
(***************************************************************************)
EXTENDS Naturals, Sequences, SequencesExt

Vendors == {"claude", "gemini", "openai", "fixture"}

Said(turns, by, id, valid) == [part |-> "said", turns |-> turns, by |-> by, id |-> id, valid |-> valid]
Thought(by, id, valid) == [part |-> "thought", turns |-> <<>>, by |-> by, id |-> id, valid |-> valid]

\* build_agent_state: the envelope.
Envelope(vendor, model, items) == [vendor |-> vendor, model |-> model, items |-> items]
NoContext == Envelope("none", "none", <<>>)

\* parse_agent_state: an envelope without items is no context.
Prior(state) == IF state.items = <<>> THEN NoContext ELSE state

\* The RTs whose turns the items tell, one after the other.
TurnsOf(items) == FlattenSeq([k \in DOMAIN items |-> items[k].turns])

\* items_to_plain: what was said, without a model.
ItemsToPlain(items) ==
    FlattenSeq([k \in DOMAIN items |->
        IF items[k].part = "said" THEN <<[items[k] EXCEPT !.by = "none", !.id = <<>>]>> ELSE <<>>])

\* Mutant: the reasoning of another model is sent along.
OpenaiSeedAll(items, stored, target) == items

\* openai_seed_items: the reasoning of another model is left out.
OpenaiSeedItems(items, stored, target) ==
    FlattenSeq([k \in DOMAIN items |->
        IF items[k].part # "thought" \/ stored = target THEN <<items[k]>> ELSE <<>>])

\* _seed_items_for: the context in the form of the vendor that is called.
SeedItemsFor(prior, sdk, model) ==
    CASE prior.vendor = sdk /\ sdk = "openai" -> OpenaiSeedItems(prior.items, prior.model, model)
      [] prior.vendor = sdk /\ sdk # "openai" -> prior.items
      [] prior.vendor # sdk /\ sdk = "claude" -> <<>>
      [] OTHER                                -> ItemsToPlain(prior.items)

\* Mutant: the prompt tells nothing of the turns of another vendor.
NoPreamble(prior, sdk) == <<>>

\* _claude_downgrade_preamble: Claude is told the turns of another vendor in the prompt.
Preamble(prior, sdk) ==
    IF sdk = "claude" /\ prior.vendor # sdk THEN TurnsOf(ItemsToPlain(prior.items)) ELSE <<>>

\* What a call adds: the prompt and the answer, and what the model thought of it.
Exchange(sdk, model, id, turns, valid) ==
    IF sdk = "fixture" THEN <<Said(turns, "none", <<>>, valid)>>
    ELSE <<Said(turns, model, Append(id, 1), valid), Thought(model, Append(id, 2), valid)>>

\* Mutant: an entry that is sent again is there twice.
AppendAlways(bucket, entry) == Append(bucket, entry)

\* ClaudeTranscriptStore.append: an entry that is there already is replaced.
Upsert(bucket, entry) ==
    IF entry.id # <<>> /\ \E k \in DOMAIN bucket : bucket[k].id = entry.id
    THEN [bucket EXCEPT ![SelectInSeq(bucket, LAMBDA e : e.id = entry.id)] = entry]
    ELSE Append(bucket, entry)

Mirrored(bucket, batch) ==
    LET after[n \in 0..Len(batch)] == IF n = 0 THEN bucket ELSE Upsert(after[n - 1], batch[n])
    IN  after[Len(batch)]

\* What the session of a vendor holds after the call.  Claude's store is fed by a mirror
\* that may send a batch again; the others add to the items they were given.
ClaudeItems(seed, exchange, resent) ==
    Mirrored(Mirrored(seed, exchange), IF resent THEN exchange ELSE <<>>)
OpenaiItems(seed, exchange) == seed \o exchange
GeminiItems(seed, exchange) == seed \o exchange
FixtureItems(seed, exchange) == seed \o exchange

SessionItems(sdk, seed, exchange, resent) ==
    CASE sdk = "claude"  -> ClaudeItems(seed, exchange, resent)
      [] sdk = "openai"  -> OpenaiItems(seed, exchange)
      [] sdk = "gemini"  -> GeminiItems(seed, exchange)
      [] sdk = "fixture" -> FixtureItems(seed, exchange)

\* compose_prompt: a source that cannot be resolved is told of in the prompt; a document
\* of the content manager that cannot be read, or bad instructions, end the execution.
Aborts(part) == part \in {"document", "instructions", "rt", "agent_state", "trail"}

\* _classify_llm_error, by the kind of failure.
Classified(kind) ==
    IF kind \in {"bad_request", "unauthenticated", "forbidden", "not_found"} THEN "permanent"
    ELSE "retryable"
===============================================================================
