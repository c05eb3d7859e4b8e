----------------------------- MODULE EventStream -----------------------------
(***************************************************************************)
(* The way of one work's events from the DRO to the browsers: the raw hub  *)
(* of the DRO, the consumer Nexus dials while a socket of the work is      *)
(* open, the mapper, and the registry of sockets with its numbering and    *)
(* its replay buffer.                                                      *)
(*                                                                         *)
(* One asyncio loop runs Nexus.  Its locks guard sections without an       *)
(* await, so none is ever contended, and a handler goes on until it waits  *)
(* for a peer: registering a socket, taking a reference on the consumer    *)
(* and copying the replay buffer are one step, and so are the removal and  *)
(* the release at its end.  Every send to a socket is a step.              *)
(***************************************************************************)
EXTENDS Naturals, Sequences, FiniteSets, SequencesExt

CONSTANTS
    Clients,        \* browser tabs
    Connects,       \* Connects[c]: bound on the connections of tab c
    Script,         \* the raw events of the work, in the order the DRO emits them
    QueueMax,       \* _QUEUE_MAXSIZE of the hub's and of the consumer's queue
    ReplayMax,      \* _REPLAY_BUFFER_SIZE
    MaxBreaks       \* bound: breaks of the SSE stream

RawKinds == {"rt_started", "reply", "concept", "output_ready", "rt_error", "internal"}

ASSUME StreamAssumption ==
    /\ Script \in Seq(RawKinds)
    /\ QueueMax \in Nat \ {0} /\ ReplayMax \in Nat \ {0}
    /\ Connects \in [Clients -> Nat \ {0}] /\ MaxBreaks \in Nat

Events == 1..Len(Script)
Sockets == UNION {{c} \X (1..Connects[c]) : c \in Clients}

VARIABLES
    emitted,        \* raw events emitted so far
    stream,         \* the consumer task: "off", "dial" (or asleep before it), "open"
    refs,           \* refcount of the consumer
    hubq, nexq,     \* queue of the hub's subscriber, queue of the consumer
    mapper,         \* the event being mapped
    reg,            \* WSRegistry: sockets, numbering, replay buffer
    sock,           \* sock[s]: the socket and the frames its handler still replays
    tab,            \* tab[c]: what the browser knows
    lost,           \* history: events that ended without a frame
    epoch,          \* history: how often the numbering was collected
    breaks

vars == <<emitted, stream, refs, hubq, nexq, mapper, reg, sock, tab, lost, epoch, breaks>>
consumer == <<stream, refs, hubq, nexq>>

Idle == [pc |-> "idle", ev |-> 0, rest |-> <<>>, seq |-> 0, to |-> {}, dead |-> {}]
NoKey == [conns |-> {}, seq |-> 0, buf |-> <<>>]
FreshTab == [n |-> 0, last |-> 0, got |-> {}, seen |-> {}, epoch |-> 0,
             excused |-> FALSE, twice |-> FALSE]

Init ==
    /\ emitted = 0 /\ breaks = 0 /\ epoch = 0 /\ lost = {}
    /\ stream = "off" /\ refs = 0
    /\ hubq = <<>> /\ nexq = <<>>
    /\ mapper = Idle /\ reg = NoKey
    /\ sock = [s \in Sockets |-> [state |-> "none", todo |-> <<>>]]
    /\ tab = [c \in Clients |-> FreshTab]

Mapping == mapper.pc # "idle"

-----------------------------------------------------------------------------
(* The DRO's hub and the consumer's producer task. *)

\* put_nowait; on a full queue the oldest event gives way.
Push(q, e) == IF Len(q) < QueueMax THEN Append(q, e) ELSE Append(Tail(q), e)

GivesWay(q) == IF Len(q) < QueueMax THEN {} ELSE {Head(q)}

\* emit_raw: an event without subscriber is gone.
EmitRaw ==
    /\ emitted < Len(Script)
    /\ emitted' = emitted + 1
    /\ IF stream = "open"
       THEN hubq' = Push(hubq, emitted') /\ lost' = lost \cup GivesWay(hubq)
       ELSE hubq' = hubq /\ lost' = lost \cup {emitted'}
    /\ UNCHANGED <<stream, refs, nexq, mapper, reg, sock, tab, epoch, breaks>>

\* The dial reaches the DRO: subscribe registers an empty queue.
Dial ==
    /\ stream = "dial"
    /\ stream' = "open" /\ hubq' = <<>>
    /\ UNCHANGED <<emitted, refs, nexq, mapper, reg, sock, tab, lost, epoch, breaks>>

\* The stream ends or fails: the hub drops the queue, the producer sleeps and dials.
StreamBreaks ==
    /\ stream = "open" /\ breaks < MaxBreaks
    /\ breaks' = breaks + 1
    /\ stream' = "dial" /\ hubq' = <<>> /\ lost' = lost \cup ToSet(hubq)
    /\ UNCHANGED <<emitted, refs, nexq, mapper, reg, sock, tab, epoch>>

\* An SSE frame arrives and is queued for the mapper.
Arrive ==
    /\ hubq # <<>>
    /\ hubq' = Tail(hubq)
    /\ nexq' = Push(nexq, Head(hubq))
    /\ lost' = lost \cup GivesWay(nexq)
    /\ UNCHANGED <<emitted, stream, refs, mapper, reg, sock, tab, epoch, breaks>>

-----------------------------------------------------------------------------
(* The mapper. *)

\* handle_raw_event: the frames an event becomes.
FramesOf(kind) ==
    CASE kind = "rt_started" -> <<"work.progress">>
      [] kind = "reply" -> <<"message.reply">>
      [] kind = "concept" -> <<"model.maturity", "model.roadmap">>
      [] kind = "output_ready" -> <<"output.ready">>
      [] kind = "rt_error" -> <<"work.failed">>
      [] kind = "internal" -> <<>>

\* The mapper goes on with the frames left over, or waits for the next event.
Onward(rest) ==
    mapper' = IF rest = <<>> THEN Idle
              ELSE [Idle EXCEPT !.pc = "make", !.ev = mapper.ev, !.rest = rest]

Take ==
    /\ ~Mapping /\ nexq # <<>>
    /\ LET e == Head(nexq)
           frames == FramesOf(Script[e])
       IN  /\ nexq' = Tail(nexq)
           /\ mapper' = IF frames = <<>> THEN Idle
                        ELSE [Idle EXCEPT !.pc = "make", !.ev = e, !.rest = frames]
           /\ lost' = IF frames = <<>> THEN lost \cup {e} ELSE lost
    /\ UNCHANGED <<emitted, stream, refs, hubq, reg, sock, tab, epoch, breaks>>

\* A frame whose content is fetched from the content manager first.
Fetched(type) == type \in {"message.reply", "model.maturity", "model.roadmap"}

\* emit_business up to its sends: numbered, buffered, the sockets of the moment copied.
Emit ==
    /\ mapper.pc = "make"
    /\ LET seq == reg.seq + 1
           buf == Append(reg.buf, [seq |-> seq, ev |-> mapper.ev])
       IN  /\ reg' = [reg EXCEPT !.seq = seq,
                                 !.buf = IF Len(buf) > ReplayMax THEN Tail(buf) ELSE buf]
           /\ IF reg.conns = {} THEN Onward(Tail(mapper.rest))
              ELSE mapper' = [mapper EXCEPT !.pc = "send", !.seq = seq, !.to = reg.conns]
    /\ UNCHANGED <<emitted, consumer, sock, tab, lost, epoch, breaks>>

\* The models of the concept are not there yet: no frame, and the next fetch.
Absent ==
    /\ mapper.pc = "make" /\ Head(mapper.rest) \in {"model.maturity", "model.roadmap"}
    /\ Onward(Tail(mapper.rest))
    /\ lost' = lost \cup {mapper.ev}
    /\ UNCHANGED <<emitted, consumer, reg, sock, tab, epoch, breaks>>

\* The fetch raises: the consumer logs it and takes the next event.
FetchFails ==
    /\ mapper.pc = "make" /\ Fetched(Head(mapper.rest))
    /\ mapper' = Idle
    /\ lost' = lost \cup {mapper.ev}
    /\ UNCHANGED <<emitted, consumer, reg, sock, tab, epoch, breaks>>

\* What browser c makes of a frame of its open socket.
Receives(c, seq, e) ==
    tab' = [tab EXCEPT ![c].last = IF seq > @ THEN seq ELSE @,
                       ![c].got = @ \cup {seq},
                       ![c].seen = @ \cup {e},
                       ![c].twice = @ \/ seq \in tab[c].got]

\* _gc_locked: numbering and buffer go with the last socket of the key.
Keep(conns) ==
    /\ reg' = IF conns = {} THEN NoKey ELSE [reg EXCEPT !.conns = conns]
    /\ epoch' = IF conns = {} THEN epoch + 1 ELSE epoch

\* Mutant: the filter of the pruning the wrong way round.
OnlyGone(gone) == reg.conns \cap gone

\* The sockets of the key but for some.
Without(gone) == reg.conns \ gone

\* One send_json of emit_business; a socket whose peer is gone raises or swallows the
\* frame.  After the last one the sockets that raised are pruned.  The list of sockets is
\* a set here: which browser is sent a frame first, no other part of the state tells.
Send ==
    /\ mapper.pc = "send"
    /\ \E s \in mapper.to :
       LET rest == mapper.to \ {s}
       IN  \E raises \in {FALSE, sock[s].state # "open"} :
              LET dead == IF raises THEN mapper.dead \cup {s} ELSE mapper.dead IN
              /\ IF sock[s].state = "open" THEN Receives(s[1], mapper.seq, mapper.ev)
                 ELSE UNCHANGED tab
              /\ IF rest # {}
                 THEN /\ mapper' = [mapper EXCEPT !.to = rest, !.dead = dead]
                      /\ UNCHANGED <<reg, epoch>>
                 ELSE /\ Onward(Tail(mapper.rest))
                      /\ IF dead = {} THEN UNCHANGED <<reg, epoch>> ELSE Keep(Without(dead))
    /\ UNCHANGED <<emitted, consumer, sock, lost, breaks>>

-----------------------------------------------------------------------------
(* The sockets: thread_stream. *)

\* Mutant: one number too many may be missing.
OffByOne(since) ==
    reg.buf # <<>> /\ since <= Last(reg.buf).seq /\ since + 2 >= Head(reg.buf).seq

\* replay_since: the buffer reaches back to the number the client asks from.
Replayable(since) ==
    /\ reg.buf # <<>>
    /\ since <= Last(reg.buf).seq
    /\ since + 1 >= Head(reg.buf).seq

\* The buffered frames a client that has seen a number still needs: the numbers increase.
Newer(since) ==
    LET newer == {i \in DOMAIN reg.buf : reg.buf[i].seq > since}
    IN  IF newer = {} THEN <<>> ELSE SubSeq(reg.buf, Min(newer), Len(reg.buf))

\* acquire: the first reference starts the consumer, which dials.
Acquire ==
    /\ refs' = refs + 1
    /\ stream' = IF stream = "off" THEN "dial" ELSE stream

\* A handshake with a token of a user who has the work (the others are closed at once):
\* registered, referenced and, for a client that asks for it, replayed or told to
\* refresh, which starts its knowledge afresh.
Connect(c) ==
    LET t == tab[c]
        s == <<c, t.n + 1>>
        replay == t.last > 0 /\ Replayable(t.last)
        known == IF replay THEN [t EXCEPT !.excused = @ \/ t.epoch # epoch]
                 ELSE [FreshTab EXCEPT !.seen = t.seen]
    IN  /\ t.n < Connects[c]
        /\ t.n > 0 => sock[<<c, t.n>>].state # "open"
        /\ reg' = [reg EXCEPT !.conns = @ \cup {s}]
        /\ Acquire
        /\ sock' = [sock EXCEPT ![s] =
              [state |-> "open",
               todo |-> IF replay THEN Newer(t.last) ELSE <<>>]]
        /\ tab' = [tab EXCEPT ![c] = [known EXCEPT !.n = t.n + 1, !.epoch = epoch]]
        /\ UNCHANGED <<emitted, hubq, nexq, mapper, lost, epoch, breaks>>

\* One send of replay_since; a socket that raises ends the replay.
Replay(s) ==
    /\ sock[s].todo # <<>>
    /\ LET f == Head(sock[s].todo) IN
       \E raises \in {FALSE, sock[s].state # "open"} :
          /\ sock' = [sock EXCEPT ![s].todo = IF raises THEN <<>> ELSE Tail(@)]
          /\ IF sock[s].state = "open" THEN Receives(s[1], f.seq, f.ev) ELSE UNCHANGED tab
    /\ UNCHANGED <<emitted, consumer, mapper, reg, lost, epoch, breaks>>

\* The browser goes away; the server does not know yet.  It may have seen live frames
\* whose predecessors the replay has not sent.
Drop(s) ==
    /\ sock[s].state = "open"
    /\ sock' = [sock EXCEPT ![s].state = "lost"]
    /\ tab' = [tab EXCEPT ![s[1]].excused = @ \/ sock[s].todo # <<>>]
    /\ UNCHANGED <<emitted, consumer, mapper, reg, lost, epoch, breaks>>

\* The consumer of the key is cancelled where it waits.
Cancel ==
    /\ stream' = "off" /\ hubq' = <<>> /\ nexq' = <<>> /\ mapper' = Idle
    /\ lost' = lost \cup ToSet(hubq) \cup ToSet(nexq) \cup ({mapper.ev} \ {0})

\* Mutant: cancelled with a reference left.
CancelEarly ==
    /\ refs' = refs - 1
    /\ IF refs' <= 1 THEN Cancel ELSE UNCHANGED <<stream, hubq, nexq, mapper, lost>>

\* release: the last reference cancels the consumer.
Release ==
    /\ refs' = refs - 1
    /\ IF refs' = 0 THEN Cancel ELSE UNCHANGED <<stream, hubq, nexq, mapper, lost>>

\* The handler waits for a frame and learns that the peer is gone, or the socket's
\* lifetime is over: it is removed and its reference released.
Leave(s) ==
    /\ sock[s].state \in {"open", "lost"} /\ sock[s].todo = <<>>
    /\ sock' = [sock EXCEPT ![s].state = "over"]
    /\ Keep(Without({s}))
    /\ Release
    /\ UNCHANGED <<emitted, tab, breaks>>

-----------------------------------------------------------------------------
Next ==
    \/ EmitRaw \/ Dial \/ StreamBreaks \/ Arrive
    \/ Take \/ Emit \/ Absent \/ FetchFails \/ Send
    \/ \E c \in Clients : Connect(c)
    \/ \E s \in Sockets : Replay(s) \/ Drop(s) \/ Leave(s)

\* The loop resumes the producer and the consumer task whenever they can go on.
Fairness ==
    /\ WF_vars(Arrive) /\ WF_vars(Take)
    /\ WF_vars(Emit \/ Absent \/ FetchFails) /\ WF_vars(Send)

Spec == Init /\ [][Next]_vars /\ Fairness

-----------------------------------------------------------------------------
Alive == {s \in Sockets : sock[s].state \in {"open", "lost"}}

\* Every socket whose browser is there is registered, so that the numbering it counts by
\* is not collected under it (ws_manager.py, remove and _prune_dead), and the consumer
\* runs exactly as long as a handler holds a reference (event_consumer.py, release).
OpenIsServed ==
    /\ \A s \in Sockets : sock[s].state = "open" =>
          s \in reg.conns /\ tab[s[1]].epoch = epoch
    /\ refs = Cardinality(Alive)
    /\ stream = "off" <=> Alive = {}
    /\ stream = "off" => ~Mapping /\ nexq = <<>>

\* The numbers between the first and the last a browser has seen.
Holes(c) ==
    {k \in 1..tab[c].last : k \notin tab[c].got /\ \E j \in tab[c].got : j < k}

\* A browser misses no frame below the last one it saw and sees none twice, once its
\* replay is over (ws_manager.py, replay_since against emit_business); the exceptions are
\* a browser whose numbering was restarted while it was away and one that left during a
\* replay.
GapsHaveCause ==
    \A c \in Clients : ~tab[c].excused =>
        /\ ~tab[c].twice
        /\ (\A s \in Sockets : s[1] = c => sock[s].todo = <<>>) => Holes(c) = {}

\* An event in the consumer's hands reaches every socket that stays open, unless it
\* becomes no frame, its fetch fails or a full queue or a broken stream drops it
\* (event_consumer.py, _run and _produce).
Held(e) == e \in ToSet(hubq) \cup ToSet(nexq) \/ mapper.ev = e

FramesArrive ==
    \A e \in Events : \A s \in Sockets :
        (Held(e) /\ mapper.ev # e /\ sock[s].state = "open")
            ~> (e \in tab[s[1]].seen \/ e \in lost \/ sock[s].state # "open")
=============================================================================
