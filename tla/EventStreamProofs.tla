-------------------------- MODULE EventStreamProofs --------------------------
(***************************************************************************)
(* Sockets, their consumer, and the numbers a browser sees: proved of      *)
(* EventStream for any tabs, connections, events and queue sizes.          *)
(***************************************************************************)
EXTENDS EventStream, FiniteSetTheorems, SequenceTheorems, TLAPS

\* The browser is at the other end of the socket.
IsOpen(s) == sock[s].state = "open"
Online(c) == \E s \in Sockets : s[1] = c /\ IsOpen(s)

Frames == [seq : Nat, ev : Nat]
MapperFields == {"pc", "ev", "rest", "seq", "to", "dead"}
Tab == [n : Nat, last : Nat, got : SUBSET Nat, seen : SUBSET Nat, epoch : Nat,
        excused : BOOLEAN, twice : BOOLEAN]

Typed ==
    /\ emitted \in Nat /\ refs \in Nat /\ epoch \in Nat
    /\ stream \in {"off", "dial", "open"}
    /\ hubq \in Seq(Nat) /\ nexq \in Seq(Nat)
    /\ DOMAIN mapper = MapperFields /\ mapper.pc \in {"idle", "make", "send"}
    /\ mapper.ev \in Nat /\ mapper.seq \in Nat
    /\ reg \in [conns : SUBSET Sockets, seq : Nat, buf : Seq(Frames)]
    /\ sock \in [Sockets -> [state : {"none", "open", "lost", "over"}, todo : Seq(Frames)]]
    /\ tab \in [Clients -> Tab]

\* A consumer runs for the handlers there are; without one nothing is held.
ConsumerServes ==
    /\ IsFiniteSet(Alive) /\ refs = Cardinality(Alive)
    /\ stream = "off" <=> Alive = {}
    /\ stream # "open" => hubq = <<>>
    /\ stream = "off" => ~Mapping /\ nexq = <<>>

\* A tab has one socket at a time; what is registered has a handler, and what is open is
\* registered since the numbering began.
SocketsSound ==
    /\ \A c \in Clients : tab[c].n <= Connects[c] /\ tab[c].epoch <= epoch
    /\ \A s \in Sockets : s[2] > tab[s[1]].n => sock[s].state = "none"
    /\ \A s \in Sockets : sock[s].state = "open" =>
          s[2] = tab[s[1]].n /\ s \in reg.conns /\ tab[s[1]].epoch = epoch
    /\ reg.conns \subseteq Alive

\* A frame on its way has the last number, for those who are still there to get it.
SendSound ==
    /\ mapper.to \subseteq Sockets /\ mapper.dead \subseteq Sockets
    /\ \A s \in mapper.to : sock[s].state # "none"
    /\ \A s \in mapper.dead : sock[s].state \notin {"none", "open"}
    /\ mapper.pc = "send" =>
          \A s \in mapper.to : sock[s].state = "open" => mapper.seq = reg.seq

\* The buffer holds the last numbers.
BufferSound ==
    /\ Len(reg.buf) <= reg.seq
    /\ \A i \in 1..Len(reg.buf) : reg.buf[i].seq = reg.seq - Len(reg.buf) + i

Replays(s) == {sock[s].todo[i].seq : i \in 1..Len(sock[s].todo)}
Sends(s) == IF mapper.pc = "send" /\ s \in mapper.to THEN {mapper.seq} ELSE {}
Coming(s) == Replays(s) \cup Sends(s)

\* What an open socket was sent and is to be sent are the numbers from its first to the
\* last one, each once.
OnlineSound(s) ==
    /\ \E a \in Nat : tab[s[1]].got \cup Coming(s) = a..reg.seq
    /\ tab[s[1]].got \cap Coming(s) = {} /\ Replays(s) \cap Sends(s) = {}
    /\ \A i, j \in 1..Len(sock[s].todo) : i # j => sock[s].todo[i].seq # sock[s].todo[j].seq

\* A tab that is away has seen the numbers from its first to its last one.
OfflineSound(c) ==
    /\ \E a \in Nat : tab[c].got = a..tab[c].last
    /\ tab[c].epoch = epoch => tab[c].last <= reg.seq

TabSound(c) == ~tab[c].excused =>
    /\ ~tab[c].twice
    /\ tab[c].last \in tab[c].got \cup {0} /\ \A k \in tab[c].got : k <= tab[c].last
    /\ \A s \in Sockets : s[1] = c /\ IsOpen(s) => OnlineSound(s)
    /\ ~Online(c) => OfflineSound(c)

IInv ==
    /\ Typed /\ ConsumerServes /\ SocketsSound /\ SendSound /\ BufferSound
    /\ \A c \in Clients : TabSound(c)

-----------------------------------------------------------------------------
LEMMA SocketFacts ==
    /\ \A s \in Sockets : s = <<s[1], s[2]>> /\ s[1] \in Clients /\ s[2] \in 1..Connects[s[1]]
    /\ \A c \in Clients : \A k \in 1..Connects[c] : <<c, k>> \in Sockets
<1>1. ASSUME NEW s \in Sockets
      PROVE  s = <<s[1], s[2]>> /\ s[1] \in Clients /\ s[2] \in 1..Connects[s[1]]
  <2>1. PICK c \in Clients : s \in {c} \X (1..Connects[c])
    BY DEF Sockets
  <2>2. s[1] = c /\ s[2] \in 1..Connects[c] /\ s = <<s[1], s[2]>>
    BY <2>1
  <2> QED
    BY <2>2
<1>2. ASSUME NEW c \in Clients, NEW k \in 1..Connects[c]
      PROVE  <<c, k>> \in Sockets
  <2>1. <<c, k>> \in {c} \X (1..Connects[c])
    OBVIOUS
  <2> QED
    BY <2>1 DEF Sockets
<1> QED
  BY <1>1, <1>2

LEMMA TypedFacts ==
    ASSUME Typed
    PROVE  /\ \A c \in Clients : /\ tab[c] \in Tab
              /\ tab[c].n \in Nat /\ tab[c].last \in Nat /\ tab[c].got \subseteq Nat
              /\ tab[c].epoch \in Nat /\ tab[c].excused \in BOOLEAN /\ tab[c].twice \in BOOLEAN
           /\ \A s \in Sockets : /\ sock[s] \in [state : {"none", "open", "lost", "over"}, todo : Seq(Frames)]
              /\ sock[s].state \in {"none", "open", "lost", "over"} /\ sock[s].todo \in Seq(Frames)
           /\ reg.conns \subseteq Sockets /\ reg.seq \in Nat /\ reg.buf \in Seq(Frames)
BY DEF Typed, Tab

LEMMA FrameFacts ==
    ASSUME NEW m \in Seq(Frames)
    PROVE  Len(m) \in Nat /\ \A i \in 1..Len(m) : m[i] \in Frames /\ m[i].seq \in Nat /\ m[i].ev \in Nat
<1>1. Len(m) \in Nat /\ \A i \in 1..Len(m) : m[i] \in Frames
  OBVIOUS
<1>2. \A f \in Frames : f.seq \in Nat /\ f.ev \in Nat
  BY DEF Frames
<1> QED
  BY <1>1, <1>2

\* replay_since: what is sent again are the numbers after the one the client knows.
LEMMA NewerFacts ==
    ASSUME Typed, BufferSound, NEW since \in Nat, Replayable(since)
    PROVE  /\ Newer(since) \in Seq(Frames) /\ since <= reg.seq
           /\ Len(Newer(since)) = reg.seq - since
           /\ \A i \in 1..Len(Newer(since)) : Newer(since)[i].seq = since + i
<1> DEFINE n == Len(reg.buf)
           newer == {i \in DOMAIN reg.buf : reg.buf[i].seq > since}
           k == since - (reg.seq - n) + 1
<1>1. n \in Nat /\ reg.seq \in Nat /\ reg.buf \in Seq(Frames) /\ DOMAIN reg.buf = 1..n
  BY TypedFacts
<1>2. \A i \in 1..n : reg.buf[i].seq = reg.seq - n + i
  BY DEF BufferSound
<1>3. n > 0 /\ n <= reg.seq
  BY <1>1 DEF Replayable, BufferSound
<1>4. Last(reg.buf).seq = reg.seq /\ Head(reg.buf).seq = reg.seq - n + 1
  BY <1>1, <1>2, <1>3 DEF Last
<1>5. since <= reg.seq /\ since + 1 >= reg.seq - n + 1
  BY <1>4 DEF Replayable
<1>6. k \in 1..(n + 1)
  BY <1>1, <1>3, <1>5
<1>7. newer = k..n
  BY <1>1, <1>2, <1>3, <1>5
<1>8. CASE since = reg.seq
  <2>1. newer = {}
    BY <1>1, <1>7, <1>8
  <2> QED
    BY <1>1, <1>5, <1>8, <2>1 DEF Newer
<1>9. CASE since # reg.seq
  <2>0. k \in 1..n
    BY <1>1, <1>3, <1>5, <1>9
  <2>1. k \in newer /\ \A i \in newer : k <= i
    <3> HIDE DEF newer
    <3> QED
      BY <1>1, <1>7, <2>0
  <2>2. Min(newer) = k
    <3> HIDE DEF newer, k
    <3>1. \A x \in newer : (\A y \in newer : x <= y) => x = k
      <4> SUFFICES ASSUME NEW x \in newer, \A y \in newer : x <= y PROVE x = k
        OBVIOUS
      <4>1. x <= k /\ k <= x
        BY <2>1
      <4>2. x \in Int /\ k \in Int
        <5> USE DEF k
        <5> QED
          BY <1>1, <1>7
      <4> QED
        BY <4>1, <4>2
    <3> QED
      BY <2>1, <3>1 DEF Min
  <2>3. newer # {} /\ Newer(since) = SubSeq(reg.buf, k, n)
    BY <2>1, <2>2 DEF Newer
  <2> HIDE DEF newer
  <2>5. /\ SubSeq(reg.buf, k, n) \in Seq(Frames) /\ Len(SubSeq(reg.buf, k, n)) = n - k + 1
        /\ \A i \in 1..(n - k + 1) : SubSeq(reg.buf, k, n)[i] = reg.buf[k + i - 1]
    <3>1. k \in 1..(n + 1) /\ n \in 0..n
      BY <1>1, <1>6
    <3> HIDE DEF n, k
    <3> QED
      BY <1>1, <3>1, SubSeqProperties
  <2>6. \A i \in 1..(n - k + 1) : k + i - 1 \in 1..n /\ reg.buf[k + i - 1].seq = reg.seq - n + (k + i - 1)
    <3> SUFFICES ASSUME NEW i \in 1..(n - k + 1)
                 PROVE  k + i - 1 \in 1..n /\ reg.buf[k + i - 1].seq = reg.seq - n + (k + i - 1)
      OBVIOUS
    <3>1. k + i - 1 \in 1..n
      BY <1>1, <2>0
    <3> HIDE DEF n, k
    <3> QED
      BY <1>2, <3>1
  <2> QED
    <3>1. n - k + 1 = reg.seq - since /\ reg.seq - since \in Nat
      BY <1>1, <1>5
    <3>2. \A i \in 1..(n - k + 1) : reg.seq - n + (k + i - 1) = since + i
      BY <1>1
    <3> HIDE DEF n, k
    <3> QED
      BY <1>5, <2>3, <2>5, <2>6, <3>1, <3>2
<1> QED
  BY <1>8, <1>9

LEMMA InitIInv == Init => IInv
<1> SUFFICES ASSUME Init PROVE IInv
  OBVIOUS
<1>1. \A s \in Sockets : sock[s].state = "none" /\ sock[s].todo = <<>>
  BY DEF Init
<1>2. \A c \in Clients : tab[c] = FreshTab
  BY DEF Init
<1>3. Typed
  BY DEF Init, Typed, Tab, FreshTab, Idle, MapperFields, NoKey
<1>4. ConsumerServes
  <2>1. Alive = {}
    BY <1>1 DEF Alive
  <2> QED
    BY <2>1, FS_EmptySet DEF Init, ConsumerServes, Mapping, Idle
<1>5. SocketsSound
  <2>1. \A c \in Clients : tab[c].n <= Connects[c] /\ tab[c].epoch <= epoch
    BY <1>2, StreamAssumption DEF FreshTab, Init
  <2> QED
    BY <1>1, <2>1 DEF Init, SocketsSound, NoKey
<1>6. SendSound /\ BufferSound
  BY DEF Init, SendSound, BufferSound, Idle, NoKey
<1>7. \A c \in Clients : TabSound(c)
  <2> SUFFICES ASSUME NEW c \in Clients PROVE TabSound(c)
    OBVIOUS
  <2>1. /\ ~tab[c].twice /\ tab[c].last = 0 /\ tab[c].got = {} /\ tab[c].epoch = epoch /\ reg.seq = 0
    BY <1>2 DEF FreshTab, Init, NoKey
  <2>2. 1 \in Nat /\ {} = 1..0
    OBVIOUS
  <2> QED
    BY <1>1, <2>1, <2>2 DEF TabSound, OfflineSound, IsOpen
<1> QED
  BY <1>3, <1>4, <1>5, <1>6, <1>7 DEF IInv

-----------------------------------------------------------------------------
(* Steps that leave the sockets and the tabs alone. *)

MapperMoves == mapper.pc # "send" /\ mapper'.pc # "send" /\ mapper'.to = {} /\ mapper'.dead = {}

LEMMA SocketsStay ==
    ASSUME SocketsSound, UNCHANGED <<reg, sock, tab, epoch>>
    PROVE  SocketsSound'
<1>1. Alive' = Alive
  BY DEF Alive
<1> QED
  BY <1>1 DEF SocketsSound

LEMMA QuietSteps ==
    ASSUME SocketsSound, SendSound, BufferSound, \A c \in Clients : TabSound(c),
           UNCHANGED <<reg, sock, tab, epoch>>, mapper' = mapper \/ MapperMoves
    PROVE  SocketsSound' /\ SendSound' /\ BufferSound' /\ (\A c \in Clients : TabSound(c))'
<1>1. SendSound'
  BY DEF SendSound, MapperMoves
<1>2. BufferSound'
  BY DEF BufferSound
<1>3. ASSUME NEW s \in Sockets
      PROVE  Coming(s)' = Coming(s) /\ Replays(s)' = Replays(s) /\ Sends(s)' = Sends(s)
  BY DEF Coming, Replays, Sends, MapperMoves
<1>4. ASSUME NEW s \in Sockets, OnlineSound(s) PROVE OnlineSound(s)'
  BY <1>3, <1>4 DEF OnlineSound
<1>5. ASSUME NEW c \in Clients PROVE TabSound(c)'
  <2>1. TabSound(c) /\ (Online(c)' <=> Online(c)) /\ (OfflineSound(c)' <=> OfflineSound(c))
    BY DEF Online, IsOpen, OfflineSound
  <2> QED
    BY <1>4, <2>1 DEF TabSound, IsOpen
<1> QED
  BY <1>1, <1>2, <1>5, SocketsStay

LEMMA MakeFields ==
    /\ DOMAIN Idle = MapperFields /\ Idle.pc = "idle" /\ Idle.to = {} /\ Idle.dead = {}
    /\ Idle.ev = 0 /\ Idle.seq = 0
    /\ \A e, rest : LET m == [Idle EXCEPT !.pc = "make", !.ev = e, !.rest = rest]
                    IN  /\ DOMAIN m = MapperFields /\ m.pc = "make" /\ m.to = {} /\ m.dead = {}
                        /\ m.ev = e /\ m.seq = 0
BY DEF Idle, MapperFields

LEMMA OnwardFacts ==
    ASSUME Typed, NEW rest, Onward(rest)
    PROVE  /\ DOMAIN mapper' = MapperFields /\ mapper'.pc \in {"idle", "make"}
           /\ mapper'.to = {} /\ mapper'.dead = {} /\ mapper'.ev \in Nat /\ mapper'.seq = 0
BY MakeFields DEF Onward, Typed

LEMMA PushTyped == ASSUME NEW q \in Seq(Nat), NEW e \in Nat PROVE Push(q, e) \in Seq(Nat)
<1>1. CASE Len(q) < QueueMax
  BY <1>1 DEF Push
<1>2. CASE ~(Len(q) < QueueMax)
  <2>1. q # <<>>
    BY <1>2, StreamAssumption
  <2>2. Tail(q) \in Seq(Nat)
    BY <2>1
  <2> QED
    BY <1>2, <2>2 DEF Push
<1> QED
  BY <1>1, <1>2

LEMMA QueueTyped ==
    ASSUME NEW q \in Seq(Nat), q # <<>>
    PROVE  Head(q) \in Nat /\ Tail(q) \in Seq(Nat)
OBVIOUS

\* What the consumer holds changes; its handlers stay.
LEMMA HandlersStay ==
    ASSUME IInv, UNCHANGED <<refs, reg, sock, tab, epoch>>, Typed', mapper' = mapper \/ MapperMoves,
           stream' = "off" <=> stream = "off", stream' # "open" => hubq' = <<>>,
           stream' = "off" => ~Mapping' /\ nexq' = <<>>
    PROVE  IInv'
<1>1. ConsumerServes'
  <2>1. Alive' = Alive
    BY DEF Alive
  <2> QED
    BY <2>1 DEF IInv, ConsumerServes
<1> QED
  BY <1>1, QuietSteps DEF IInv

LEMMA StreamSteps ==
    ASSUME IInv, EmitRaw \/ Dial \/ StreamBreaks \/ Arrive PROVE IInv'
<1>1. CASE EmitRaw
  <2>1. emitted' \in Nat /\ hubq' \in Seq(Nat)
    <3>1. PICK e : e = emitted + 1
      OBVIOUS
    <3>2. e \in Nat /\ hubq \in Seq(Nat)
      BY <3>1 DEF IInv, Typed
    <3>3. emitted' = e /\ (hubq' = Push(hubq, e) \/ hubq' = hubq)
      BY <1>1, <3>1 DEF EmitRaw
    <3> QED
      BY <3>2, <3>3, PushTyped
  <2>2. Typed'
    BY <1>1, <2>1 DEF EmitRaw, IInv, Typed
  <2> QED
    BY <1>1, <2>2, HandlersStay DEF EmitRaw, IInv, ConsumerServes, Mapping
<1>2. CASE Dial
  <2>1. Typed'
    BY <1>2 DEF Dial, IInv, Typed
  <2> QED
    BY <1>2, <2>1, HandlersStay DEF Dial, IInv, ConsumerServes, Mapping
<1>3. CASE StreamBreaks
  <2>1. Typed'
    BY <1>3 DEF StreamBreaks, IInv, Typed
  <2> QED
    BY <1>3, <2>1, HandlersStay DEF StreamBreaks, IInv, ConsumerServes, Mapping
<1>4. CASE Arrive
  <2>1. hubq' \in Seq(Nat) /\ nexq' \in Seq(Nat)
    BY <1>4, PushTyped, QueueTyped DEF Arrive, IInv, Typed
  <2>2. Typed'
    BY <1>4, <2>1 DEF Arrive, IInv, Typed
  <2>3. stream = "open"
    BY <1>4 DEF Arrive, IInv, ConsumerServes
  <2> QED
    BY <1>4, <2>2, <2>3, HandlersStay DEF Arrive
<1> QED
  BY <1>1, <1>2, <1>3, <1>4

LEMMA MapperSteps ==
    ASSUME IInv, Take \/ Absent \/ FetchFails PROVE IInv'
<1>1. CASE Take
  <2>1. Head(nexq) \in Nat /\ nexq' \in Seq(Nat)
    BY <1>1, QueueTyped DEF Take, IInv, Typed
  <2>2. DOMAIN mapper' = MapperFields /\ mapper'.pc \in {"idle", "make"} /\ mapper'.to = {}
        /\ mapper'.dead = {} /\ mapper'.ev \in Nat /\ mapper'.seq = 0
    BY <1>1, <2>1, MakeFields DEF Take
  <2>0. UNCHANGED <<emitted, stream, refs, hubq, reg, sock, tab, epoch>>
    BY <1>1 DEF Take
  <2>3. Typed'
    BY <2>0, <2>1, <2>2 DEF IInv, Typed
  <2>4. stream # "off" /\ mapper.pc # "send"
    BY <1>1 DEF Take, IInv, ConsumerServes, Mapping
  <2> QED
    BY <1>1, <2>2, <2>3, <2>4, HandlersStay DEF Take, MapperMoves, IInv, ConsumerServes
<1>2. CASE Absent \/ FetchFails
  <2>1. /\ DOMAIN mapper' = MapperFields /\ mapper'.pc \in {"idle", "make"} /\ mapper'.to = {}
        /\ mapper'.dead = {} /\ mapper'.ev \in Nat /\ mapper'.seq = 0
    BY <1>2, OnwardFacts, MakeFields DEF Absent, FetchFails, IInv
  <2>2. mapper.pc = "make" /\ UNCHANGED <<emitted, consumer, reg, sock, tab, epoch>>
    BY <1>2 DEF Absent, FetchFails
  <2>3. Typed'
    BY <2>1, <2>2 DEF IInv, Typed, consumer
  <2>4. stream # "off"
    BY <2>2 DEF IInv, ConsumerServes, Mapping
  <2> QED
    BY <2>1, <2>2, <2>3, <2>4, HandlersStay DEF MapperMoves, IInv, ConsumerServes, consumer
<1> QED
  BY <1>1, <1>2

-----------------------------------------------------------------------------
(* A frame is numbered, and sent. *)

LEMMA EmitStep == ASSUME IInv, Emit PROVE IInv'
<1> DEFINE seq == reg.seq + 1
           buf == Append(reg.buf, [seq |-> seq, ev |-> mapper.ev])
<1>1. /\ mapper.pc = "make" /\ UNCHANGED <<emitted, consumer, sock, tab, lost, epoch, breaks>>
      /\ reg'.conns = reg.conns /\ reg'.seq = seq
      /\ reg'.buf = IF Len(buf) > ReplayMax THEN Tail(buf) ELSE buf
      /\ DOMAIN reg' = DOMAIN reg
  BY DEF Emit, IInv, Typed
<1>2. reg.seq \in Nat /\ reg.buf \in Seq(Frames) /\ mapper.ev \in Nat /\ Len(reg.buf) \in Nat
  BY TypedFacts DEF IInv, Typed
<1>3. [seq |-> seq, ev |-> mapper.ev] \in Frames
  BY <1>2 DEF Frames
<1>4. /\ buf \in Seq(Frames) /\ Len(buf) = Len(reg.buf) + 1 /\ buf # <<>>
      /\ \A i \in 1..Len(reg.buf) : buf[i] = reg.buf[i]
      /\ buf[Len(reg.buf) + 1].seq = seq
  <2> HIDE DEF seq
  <2> QED
    BY <1>2, <1>3
<1>5. \A i \in 1..Len(buf) : buf[i].seq = seq - Len(buf) + i
  <2> SUFFICES ASSUME NEW i \in 1..Len(buf) PROVE buf[i].seq = seq - Len(buf) + i
    OBVIOUS
  <2>1. CASE i \in 1..Len(reg.buf)
    <3>1. buf[i].seq = reg.seq - Len(reg.buf) + i
      BY <1>4, <2>1 DEF IInv, BufferSound
    <3> HIDE DEF buf
    <3> QED
      BY <1>2, <1>4, <3>1
  <2>2. CASE i = Len(reg.buf) + 1
    <3> HIDE DEF buf
    <3> QED
      BY <1>2, <1>4, <2>2
  <2>3. i \in 1..Len(reg.buf) \/ i = Len(reg.buf) + 1
    <3> HIDE DEF buf
    <3> QED
      BY <1>2, <1>4
  <2> QED
    BY <2>1, <2>2, <2>3
<1>6. Len(buf) <= seq
  <2>1. Len(reg.buf) <= reg.seq
    BY DEF IInv, BufferSound
  <2> HIDE DEF buf
  <2> QED
    BY <1>2, <1>4, <2>1
<1>7. reg'.buf \in Seq(Frames) /\ BufferSound'
  <2> HIDE DEF buf
  <2>1. CASE reg'.buf = buf
    BY <1>1, <1>4, <1>5, <1>6, <2>1 DEF BufferSound
  <2>2. CASE reg'.buf = Tail(buf)
    <3>1. /\ Tail(buf) \in Seq(Frames) /\ Len(Tail(buf)) = Len(buf) - 1
          /\ \A i \in 1..(Len(buf) - 1) : Tail(buf)[i] = buf[i + 1]
      BY <1>4
    <3>2. \A i \in 1..(Len(buf) - 1) : i + 1 \in 1..Len(buf)
      BY <1>2, <1>4
    <3>3. \A i \in 1..(Len(buf) - 1) : Tail(buf)[i].seq = seq - (Len(buf) - 1) + i
      <4> SUFFICES ASSUME NEW i \in 1..(Len(buf) - 1)
                   PROVE  Tail(buf)[i].seq = seq - (Len(buf) - 1) + i
        OBVIOUS
      <4>1. Tail(buf)[i].seq = seq - Len(buf) + (i + 1)
        BY <1>5, <3>1, <3>2
      <4>2. seq \in Nat /\ Len(buf) \in Nat /\ i \in Nat
        BY <1>2, <1>4
      <4> HIDE DEF seq
      <4> QED
        BY <4>1, <4>2
    <3>4. Len(buf) - 1 <= seq
      BY <1>2, <1>4, <1>6
    <3> QED
      BY <1>1, <2>2, <3>1, <3>3, <3>4 DEF BufferSound
  <2> QED
    BY <1>1, <2>1, <2>2
<1>8. /\ DOMAIN mapper' = MapperFields /\ mapper'.pc \in {"idle", "make", "send"}
      /\ mapper'.ev \in Nat /\ mapper'.seq \in Nat
      /\ mapper'.pc # "send" => reg.conns = {} /\ mapper'.to = {} /\ mapper'.dead = {}
      /\ mapper'.pc = "send" => mapper'.to = reg.conns /\ mapper'.seq = seq /\ mapper'.dead = mapper.dead
  <2>1. CASE reg.conns = {}
    BY <1>2, <2>1, OnwardFacts DEF Emit, IInv
  <2>2. CASE reg.conns # {}
    <3>1. mapper' = [mapper EXCEPT !.pc = "send", !.seq = seq, !.to = reg.conns]
      BY <2>2 DEF Emit
    <3>2. DOMAIN mapper = MapperFields /\ seq \in Nat
      BY <1>2 DEF IInv, Typed
    <3> HIDE DEF seq
    <3> QED
      BY <1>2, <3>1, <3>2 DEF MapperFields
  <2> QED
    BY <2>1, <2>2
<1>9. Typed'
  <2>1. reg' \in [conns : SUBSET Sockets, seq : Nat, buf : Seq(Frames)]
    <3>1. reg = [conns |-> reg.conns, seq |-> reg.seq, buf |-> reg.buf]
      BY DEF IInv, Typed
    <3>2. PICK b : b = IF Len(buf) > ReplayMax THEN Tail(buf) ELSE buf
      OBVIOUS
    <3>3. reg' = [reg EXCEPT !.seq = seq, !.buf = b]
      BY <3>2 DEF Emit
    <3>4. b \in Seq(Frames) /\ seq \in Nat /\ reg.conns \in SUBSET Sockets
      BY <1>1, <1>2, <1>7, <3>2, TypedFacts DEF IInv
    <3> HIDE DEF seq, buf
    <3>5. reg' = [conns |-> reg.conns, seq |-> seq, buf |-> b]
      BY <3>1, <3>3
    <3> QED
      BY <3>4, <3>5
  <2> QED
    BY <1>1, <1>8, <2>1 DEF IInv, Typed, consumer
<1>10. Alive' = Alive
  BY <1>1 DEF Alive
<1>11. ConsumerServes'
  BY <1>1, <1>10 DEF IInv, ConsumerServes, consumer, Mapping
<1>12. SocketsSound'
  BY <1>1, <1>10 DEF IInv, SocketsSound
<1>13. SendSound'
  <2>1. reg.conns \subseteq Sockets /\ \A s \in reg.conns : sock[s].state # "none"
    BY TypedFacts DEF IInv, SocketsSound, Alive
  <2> QED
    BY <1>1, <1>8, <2>1 DEF IInv, SendSound
<1>14. ASSUME NEW s \in Sockets, IsOpen(s)
       PROVE  /\ s \in reg.conns /\ Replays(s)' = Replays(s)
              /\ Sends(s) = {} /\ Sends(s)' = {seq}
  <2>1. s \in reg.conns
    BY <1>14 DEF IInv, SocketsSound, IsOpen
  <2> QED
    BY <1>1, <1>8, <2>1 DEF Sends, Replays
<1>15. ASSUME NEW s \in Sockets, IsOpen(s), OnlineSound(s) PROVE OnlineSound(s)'
  <2>1. PICK a \in Nat : tab[s[1]].got \cup Coming(s) = a..reg.seq
    BY <1>15 DEF OnlineSound
  <2>2. Coming(s) = Replays(s) /\ Coming(s)' = Replays(s) \cup {seq}
    BY <1>14, <1>15 DEF Coming
  <2>3. \E b \in Nat : tab[s[1]].got \cup (Replays(s) \cup {seq}) = b..seq
    <3>1. CASE a <= seq
      <4>1. (a..reg.seq) \cup {seq} = a..seq
        BY <1>2, <3>1
      <4> QED
        BY <2>1, <2>2, <4>1
    <3>2. CASE ~(a <= seq)
      <4>1. a..reg.seq = {} /\ {seq} = seq..seq /\ seq \in Nat
        BY <1>2, <3>2
      <4> QED
        BY <2>1, <2>2, <4>1
    <3> QED
      BY <3>1, <3>2
  <2>4. seq \notin tab[s[1]].got /\ seq \notin Replays(s)
    <3>1. seq \notin a..reg.seq
      BY <1>2
    <3> QED
      BY <2>1, <2>2, <3>1
  <2>5. tab'[s[1]].got = tab[s[1]].got /\ sock' = sock /\ reg'.seq = seq
    BY <1>1
  <2>6. tab[s[1]].got \cap Coming(s) = {}
    BY <1>15 DEF OnlineSound
  <2> HIDE DEF seq
  <2> QED
    BY <1>14, <1>15, <2>2, <2>3, <2>4, <2>5, <2>6 DEF OnlineSound
<1>16. ASSUME NEW c \in Clients PROVE TabSound(c)'
  <2>1. TabSound(c) /\ (Online(c)' <=> Online(c)) /\ (OfflineSound(c) => OfflineSound(c)')
    <3>1. tab[c].last \in Nat /\ (tab[c].last <= reg.seq => tab[c].last <= seq)
      BY <1>2, TypedFacts DEF IInv
    <3> QED
      BY <1>1, <3>1 DEF Online, IsOpen, OfflineSound, IInv
  <2> QED
    BY <1>1, <1>15, <2>1 DEF TabSound, IsOpen
<1> QED
  BY <1>7, <1>9, <1>11, <1>12, <1>13, <1>16 DEF IInv

LEMMA KeepFacts ==
    ASSUME Typed, BufferSound, NEW conns, conns \subseteq reg.conns, Keep(conns)
    PROVE  /\ reg' \in [conns : SUBSET Sockets, seq : Nat, buf : Seq(Frames)] /\ reg'.conns = conns
           /\ BufferSound' /\ epoch' \in {epoch, epoch + 1}
           /\ epoch' = epoch => reg'.seq = reg.seq
           /\ conns # {} => epoch' = epoch
<1>1. epoch \in Nat /\ reg.conns \subseteq Sockets /\ reg.seq \in Nat /\ reg.buf \in Seq(Frames)
  BY TypedFacts DEF Typed
<1>2. CASE conns = {}
  <2>1. reg' = [conns |-> {}, seq |-> 0, buf |-> <<>>] /\ epoch' = epoch + 1
    BY <1>2 DEF Keep, NoKey
  <2> QED
    BY <1>1, <1>2, <2>1 DEF BufferSound
<1>3. CASE conns # {}
  <2>1. reg = [conns |-> reg.conns, seq |-> reg.seq, buf |-> reg.buf]
    BY DEF Typed
  <2>2. reg' = [conns |-> conns, seq |-> reg.seq, buf |-> reg.buf] /\ epoch' = epoch
    BY <1>3, <2>1 DEF Keep
  <2> QED
    BY <1>1, <1>3, <2>2 DEF BufferSound
<1> QED
  BY <1>2, <1>3

LEMMA ReceivesFacts ==
    ASSUME Typed, NEW c \in Clients, NEW k \in Nat, NEW e \in Nat, Receives(c, k, e)
    PROVE  /\ tab' \in [Clients -> Tab] /\ \A d \in Clients \ {c} : tab'[d] = tab[d]
           /\ tab'[c].n = tab[c].n /\ tab'[c].epoch = tab[c].epoch
           /\ tab'[c].excused = tab[c].excused
           /\ tab'[c].last = IF k > tab[c].last THEN k ELSE tab[c].last
           /\ tab'[c].got = tab[c].got \cup {k}
           /\ tab'[c].twice = (tab[c].twice \/ k \in tab[c].got)
<1>1. tab \in [Clients -> Tab] /\ tab[c] \in Tab
  BY DEF Typed
<1>2. PICK last, twice : /\ last = IF k > tab[c].last THEN k ELSE tab[c].last
                         /\ twice = (tab[c].twice \/ k \in tab[c].got)
  OBVIOUS
<1>3. last \in Nat /\ twice \in BOOLEAN
  BY <1>1, <1>2 DEF Tab
<1>4. tab' = [tab EXCEPT ![c] = [tab[c] EXCEPT !.last = last, !.got = @ \cup {k},
                                               !.seen = @ \cup {e}, !.twice = twice]]
  BY <1>1, <1>2 DEF Receives
<1>5. tab'[c] = [tab[c] EXCEPT !.last = last, !.got = @ \cup {k}, !.seen = @ \cup {e}, !.twice = twice]
  BY <1>1, <1>4
<1>6. tab'[c] \in Tab
  <2>1. tab[c] = [n |-> tab[c].n, last |-> tab[c].last, got |-> tab[c].got, seen |-> tab[c].seen,
                  epoch |-> tab[c].epoch, excused |-> tab[c].excused, twice |-> tab[c].twice]
    BY <1>1 DEF Tab
  <2>2. tab'[c] = [n |-> tab[c].n, last |-> last, got |-> tab[c].got \cup {k},
                   seen |-> tab[c].seen \cup {e}, epoch |-> tab[c].epoch,
                   excused |-> tab[c].excused, twice |-> twice]
    BY <1>5, <2>1
  <2>3. /\ tab[c].n \in Nat /\ tab[c].epoch \in Nat /\ tab[c].excused \in BOOLEAN
        /\ tab[c].got \cup {k} \in SUBSET Nat /\ tab[c].seen \cup {e} \in SUBSET Nat
    BY <1>1 DEF Tab
  <2> QED
    BY <1>3, <2>2, <2>3 DEF Tab
<1> QED
  BY <1>1, <1>2, <1>4, <1>5, <1>6 DEF Tab

\* What stays sound of a tab that gets nothing.
LEMMA TabStays ==
    ASSUME NEW c \in Clients, Typed, TabSound(c), tab'[c] = tab[c],
           \A s \in Sockets : s[1] = c => (IsOpen(s)' <=> IsOpen(s)),
           \A s \in Sockets : s[1] = c /\ IsOpen(s) =>
              sock'[s] = sock[s] /\ Sends(s)' = Sends(s) /\ reg'.seq = reg.seq,
           ~Online(c) => (tab[c].epoch = epoch' => epoch' = epoch /\ reg'.seq = reg.seq)
    PROVE  TabSound(c)'
<1>1. ASSUME NEW s \in Sockets, s[1] = c, IsOpen(s), OnlineSound(s) PROVE OnlineSound(s)'
  <2>1. sock'[s] = sock[s] /\ Sends(s)' = Sends(s) /\ reg'.seq = reg.seq /\ tab'[s[1]] = tab[s[1]]
    BY <1>1
  <2>2. Replays(s)' = Replays(s)
    BY <2>1 DEF Replays
  <2>3. Coming(s)' = Coming(s)
    BY <2>1, <2>2 DEF Coming
  <2> QED
    BY <1>1, <2>1, <2>2, <2>3 DEF OnlineSound
<1>2. Online(c)' <=> Online(c)
  BY DEF Online
<1>3. ~Online(c) /\ OfflineSound(c) => OfflineSound(c)'
  BY DEF OfflineSound
<1> QED
  BY <1>1, <1>2, <1>3 DEF TabSound

\* What stays sound of a tab that gets a frame that was coming.
LEMMA TabGets ==
    ASSUME NEW s \in Sockets, Typed, SocketsSound, TabSound(s[1]), IsOpen(s),
           NEW k \in Nat, NEW e \in Nat, k \in Coming(s), Receives(s[1], k, e),
           \A t \in Sockets : IsOpen(t)' <=> IsOpen(t),
           reg'.seq = reg.seq, Coming(s)' = Coming(s) \ {k},
           OnlineSound(s) => /\ Replays(s)' \cap Sends(s)' = {}
                             /\ \A i, j \in 1..Len(sock'[s].todo) :
                                   i # j => sock'[s].todo[i].seq # sock'[s].todo[j].seq
    PROVE  TabSound(s[1])'
<1> DEFINE c == s[1]
<1>1. c \in Clients /\ \A t \in Sockets : IsOpen(t) /\ t[1] = c => t = s
  BY SocketFacts DEF SocketsSound, IsOpen
<1>2. Online(c)'
  BY DEF Online
<1>3. /\ tab'[c].last = (IF k > tab[c].last THEN k ELSE tab[c].last)
      /\ tab'[c].got = tab[c].got \cup {k} /\ tab'[c].excused = tab[c].excused
      /\ tab'[c].twice = (tab[c].twice \/ k \in tab[c].got)
  BY <1>1, ReceivesFacts
<1>4. ASSUME ~tab[c].excused
      PROVE  /\ ~tab'[c].twice /\ tab'[c].last \in tab'[c].got \cup {0}
             /\ \A j \in tab'[c].got : j <= tab'[c].last
             /\ OnlineSound(s)'
  <2>1. /\ ~tab[c].twice /\ tab[c].last \in tab[c].got \cup {0}
        /\ \A j \in tab[c].got : j <= tab[c].last
        /\ OnlineSound(s)
    BY <1>4 DEF TabSound
  <2>2. k \notin tab[c].got
    BY <2>1 DEF OnlineSound
  <2>3. tab[c].last \in Nat /\ tab[c].got \subseteq Nat
    BY <1>1, TypedFacts
  <2>4. /\ ~tab'[c].twice /\ tab'[c].last \in tab'[c].got \cup {0}
        /\ \A j \in tab'[c].got : j <= tab'[c].last
    <3>1. ~tab'[c].twice
      BY <1>3, <2>1, <2>2
    <3>2. CASE k > tab[c].last
      <4>1. tab'[c].last = k /\ \A j \in tab[c].got : j <= k
        BY <1>3, <2>1, <2>3, <3>2
      <4> QED
        BY <1>3, <3>1, <4>1
    <3>3. CASE ~(k > tab[c].last)
      <4>1. tab'[c].last = tab[c].last /\ k <= tab[c].last
        BY <1>3, <2>3, <3>3
      <4> QED
        BY <1>3, <2>1, <3>1, <4>1
    <3> QED
      BY <3>2, <3>3
  <2>5. tab'[c].got \cup Coming(s)' = tab[c].got \cup Coming(s) /\ tab'[c].got \cap Coming(s)' = {}
    BY <1>3, <2>1 DEF OnlineSound
  <2>6. OnlineSound(s)'
    BY <2>1, <2>5 DEF OnlineSound
  <2> QED
    BY <2>4, <2>6
<1> QED
  BY <1>1, <1>2, <1>3, <1>4 DEF TabSound

\* The send to s, which raises or does not.
SentTo(s, raises) ==
    LET rest == mapper.to \ {s}
        dead == IF raises THEN mapper.dead \cup {s} ELSE mapper.dead
    IN  /\ IF sock[s].state = "open" THEN Receives(s[1], mapper.seq, mapper.ev)
           ELSE UNCHANGED tab
        /\ IF rest # {}
           THEN mapper' = [mapper EXCEPT !.to = rest, !.dead = dead] /\ UNCHANGED <<reg, epoch>>
           ELSE /\ Onward(Tail(mapper.rest))
                /\ IF dead = {} THEN UNCHANGED <<reg, epoch>> ELSE Keep(Without(dead))

\* emit_business: the send to one of the sockets copied.
LEMMA SendStep == ASSUME IInv, Send PROVE IInv'
<1>0. PICK s \in mapper.to : \E raises \in {FALSE, sock[s].state # "open"} : SentTo(s, raises)
  BY DEF Send, SentTo
<1>1. PICK raises \in {FALSE, sock[s].state # "open"} : SentTo(s, raises)
  BY <1>0
<1>2. mapper.pc = "send" /\ UNCHANGED <<emitted, consumer, sock, lost, breaks>>
  BY DEF Send
<1> DEFINE rest == mapper.to \ {s}
<1>3. PICK dead : dead = IF raises THEN mapper.dead \cup {s} ELSE mapper.dead
  OBVIOUS
<1>4. s \in Sockets /\ dead \subseteq Sockets /\ \A t \in dead : sock[t].state \notin {"none", "open"}
  BY <1>1, <1>3 DEF IInv, SendSound
<1>5. /\ rest # {} => mapper' = [mapper EXCEPT !.to = rest, !.dead = dead] /\ UNCHANGED <<reg, epoch>>
      /\ rest = {} => /\ Onward(Tail(mapper.rest))
                      /\ UNCHANGED <<reg, epoch>> \/ Keep(Without(dead))
  BY <1>1, <1>3 DEF SentTo
<1>6. /\ DOMAIN mapper' = MapperFields /\ mapper'.ev \in Nat /\ mapper'.seq \in Nat
      /\ rest # {} => mapper'.pc = "send" /\ mapper'.to = rest /\ mapper'.dead = dead
                      /\ mapper'.seq = mapper.seq
      /\ rest = {} => mapper'.pc \in {"idle", "make"} /\ mapper'.to = {} /\ mapper'.dead = {}
  <2>1. CASE rest # {}
    <3>1. mapper' = [mapper EXCEPT !.to = rest, !.dead = dead]
      BY <1>5, <2>1
    <3> HIDE DEF rest
    <3> QED
      BY <1>2, <2>1, <3>1 DEF IInv, Typed, MapperFields
  <2>2. CASE rest = {}
    BY <1>5, <2>2, OnwardFacts DEF IInv
  <2> QED
    BY <2>1, <2>2
<1>7. /\ reg' \in [conns : SUBSET Sockets, seq : Nat, buf : Seq(Frames)]
      /\ BufferSound' /\ epoch' \in {epoch, epoch + 1}
      /\ epoch' = epoch => reg'.seq = reg.seq
      /\ reg'.conns = reg.conns \/ reg'.conns = Without(dead)
      /\ reg'.conns # {} => epoch' = epoch
      /\ UNCHANGED <<reg, epoch>> \/ Keep(Without(dead))
  <2>1. CASE UNCHANGED <<reg, epoch>>
    BY <2>1 DEF IInv, Typed, BufferSound
  <2>2. CASE Keep(Without(dead))
    <3>1. PICK conns : conns = Without(dead)
      OBVIOUS
    <3> QED
      BY <2>2, <3>1, KeepFacts DEF IInv, Without
  <2> QED
    BY <1>5, <2>1, <2>2
<1>8. ASSUME NEW t \in Sockets, IsOpen(t)
      PROVE  t \in reg'.conns /\ epoch' = epoch /\ reg'.seq = reg.seq
  <2>1. t \in reg.conns /\ t \notin dead
    BY <1>4, <1>8 DEF IInv, SocketsSound, IsOpen
  <2> QED
    BY <1>7, <2>1 DEF Without
<1>9. epoch \in Nat /\ epoch' \in Nat /\ mapper.seq \in Nat /\ mapper.ev \in Nat /\ s[1] \in Clients
  BY <1>4, <1>7, SocketFacts DEF IInv, Typed
<1>10. /\ tab' \in [Clients -> Tab]
       /\ \A c \in Clients : tab'[c].n = tab[c].n /\ tab'[c].epoch = tab[c].epoch
       /\ \A c \in Clients : ~IsOpen(s) \/ c # s[1] => tab'[c] = tab[c]
       /\ IsOpen(s) => Receives(s[1], mapper.seq, mapper.ev)
  <2>1. CASE IsOpen(s)
    <3>1. Receives(s[1], mapper.seq, mapper.ev)
      BY <1>1, <2>1 DEF IsOpen, SentTo
    <3> QED
      BY <1>9, <2>1, <3>1, ReceivesFacts DEF IInv
  <2>2. CASE ~IsOpen(s)
    BY <1>1, <2>2 DEF IsOpen, IInv, Typed, SentTo
  <2> QED
    BY <2>1, <2>2
<1>11. Typed'
  BY <1>2, <1>6, <1>7, <1>9, <1>10 DEF IInv, Typed, consumer
<1>12. Alive' = Alive
  BY <1>2 DEF Alive
<1>13. ConsumerServes'
  <2>1. stream # "off"
    BY <1>2 DEF IInv, ConsumerServes, Mapping
  <2> QED
    BY <1>2, <1>12, <2>1 DEF IInv, ConsumerServes, consumer
<1>14. SocketsSound'
  <2>1. reg'.conns \subseteq Alive
    BY <1>7 DEF IInv, SocketsSound, Without
  <2>2. \A c \in Clients : tab'[c].n <= Connects[c] /\ tab'[c].epoch <= epoch'
    BY <1>7, <1>9, <1>10, TypedFacts DEF IInv, SocketsSound
  <2>3. \A t \in Sockets : t[2] > tab'[t[1]].n => sock'[t].state = "none"
    BY <1>2, <1>10, SocketFacts DEF IInv, SocketsSound
  <2>4. \A t \in Sockets : sock'[t].state = "open" =>
           t[2] = tab'[t[1]].n /\ t \in reg'.conns /\ tab'[t[1]].epoch = epoch'
    BY <1>2, <1>8, <1>10, SocketFacts DEF IInv, SocketsSound, IsOpen
  <2> QED
    BY <1>12, <2>1, <2>2, <2>3, <2>4 DEF SocketsSound
<1>15. SendSound'
  <2>1. CASE rest = {}
    BY <1>6, <2>1 DEF SendSound
  <2>2. CASE rest # {}
    BY <1>2, <1>4, <1>6, <1>8, <2>2 DEF IInv, SendSound, IsOpen
  <2> QED
    BY <2>1, <2>2
<1>16. /\ \A t \in Sockets : (IsOpen(t)' <=> IsOpen(t)) /\ Replays(t)' = Replays(t)
       /\ \A t \in Sockets \ {s} : Sends(t)' = Sends(t)
       /\ Sends(s) = {mapper.seq} /\ Sends(s)' = {}
  <2>1. CASE rest = {}
    BY <1>1, <1>2, <1>6, <2>1 DEF IsOpen, Replays, Sends
  <2>2. CASE rest # {}
    BY <1>1, <1>2, <1>6, <2>2 DEF IsOpen, Replays, Sends
  <2> QED
    BY <2>1, <2>2
<1>17. ASSUME NEW c \in Clients, ~IsOpen(s) \/ c # s[1] PROVE TabSound(c)'
  <2>1. TabSound(c) /\ tab'[c] = tab[c]
    BY <1>10, <1>17 DEF IInv
  <2>2. \A t \in Sockets : t[1] = c /\ IsOpen(t) =>
           sock'[t] = sock[t] /\ Sends(t)' = Sends(t) /\ reg'.seq = reg.seq
    BY <1>2, <1>8, <1>16, <1>17
  <2>3. tab[c].epoch = epoch' => epoch' = epoch /\ reg'.seq = reg.seq
    <3>1. tab[c].epoch \in Nat /\ tab[c].epoch <= epoch
      BY TypedFacts DEF IInv, SocketsSound
    <3> QED
      BY <1>7, <1>9, <3>1
  <2> QED
    BY <1>16, <2>1, <2>2, <2>3, TabStays DEF IInv
<1>18. ASSUME IsOpen(s) PROVE TabSound(s[1])'
  <2>1. mapper.seq \in Coming(s) /\ Coming(s)' = Replays(s) /\ Coming(s) = Replays(s) \cup {mapper.seq}
    BY <1>4, <1>16 DEF Coming
  <2>2. CASE OnlineSound(s)
    <3>1. Coming(s)' = Coming(s) \ {mapper.seq}
      BY <1>16, <2>1, <2>2 DEF OnlineSound
    <3>2. \A i, j \in 1..Len(sock'[s].todo) : i # j => sock'[s].todo[i].seq # sock'[s].todo[j].seq
      BY <1>2, <2>2 DEF OnlineSound
    <3>3. SocketsSound /\ TabSound(s[1]) /\ Typed /\ Receives(s[1], mapper.seq, mapper.ev)
      BY <1>9, <1>10, <1>18 DEF IInv
    <3>4. Replays(s)' \cap Sends(s)' = {} /\ reg'.seq = reg.seq
      BY <1>4, <1>8, <1>16, <1>18
    <3> QED
      BY <1>4, <1>9, <1>16, <1>18, <2>1, <3>1, <3>2, <3>3, <3>4, TabGets
  <2>3. CASE ~OnlineSound(s)
    <3>1. tab[s[1]].excused
      BY <1>4, <1>9, <1>18, <2>3 DEF IInv, TabSound
    <3>2. tab'[s[1]].excused
      BY <1>9, <1>10, <1>18, <3>1, ReceivesFacts DEF IInv
    <3> QED
      BY <3>2 DEF TabSound
  <2> QED
    BY <2>2, <2>3
<1>19. \A c \in Clients : TabSound(c)'
  BY <1>17, <1>18
<1> QED
  BY <1>7, <1>11, <1>13, <1>14, <1>15, <1>19 DEF IInv

\* replay_since: the send of one buffered frame.
LEMMA ReplayStep == ASSUME IInv, NEW s \in Sockets, Replay(s) PROVE IInv'
<1> DEFINE f == Head(sock[s].todo)
<1>1. PICK todo \in {<<>>, Tail(sock[s].todo)} :
         /\ sock' = [sock EXCEPT ![s].todo = todo]
         /\ IsOpen(s) => todo = Tail(sock[s].todo) /\ Receives(s[1], f.seq, f.ev)
         /\ ~IsOpen(s) => UNCHANGED tab
  BY DEF Replay, IsOpen
<1>2. sock[s].todo # <<>> /\ UNCHANGED <<emitted, consumer, mapper, reg, lost, epoch, breaks>>
  BY DEF Replay
<1>3. /\ sock[s].todo \in Seq(Frames) /\ f \in Frames /\ f.seq \in Nat /\ f.ev \in Nat
      /\ Tail(sock[s].todo) \in Seq(Frames) /\ todo \in Seq(Frames)
  <2>1. sock[s].todo \in Seq(Frames)
    BY TypedFacts DEF IInv
  <2>2. f \in Frames /\ Tail(sock[s].todo) \in Seq(Frames) /\ <<>> \in Seq(Frames)
    BY <1>2, <2>1
  <2> QED
    BY <1>1, <2>1, <2>2 DEF Frames
<1>4. /\ sock' \in [Sockets -> [state : {"none", "open", "lost", "over"}, todo : Seq(Frames)]]
      /\ \A t \in Sockets \ {s} : sock'[t] = sock[t]
      /\ sock'[s].state = sock[s].state /\ sock'[s].todo = todo
  BY <1>1, <1>3 DEF IInv, Typed
<1>5. \A t \in Sockets : (IsOpen(t)' <=> IsOpen(t)) /\ sock'[t].state = sock[t].state /\ Sends(t)' = Sends(t)
  BY <1>2, <1>4 DEF IsOpen, Sends
<1>6. s[1] \in Clients
  BY SocketFacts
<1>7. /\ tab' \in [Clients -> Tab]
      /\ \A c \in Clients : tab'[c].n = tab[c].n /\ tab'[c].epoch = tab[c].epoch
      /\ \A c \in Clients : ~IsOpen(s) \/ c # s[1] => tab'[c] = tab[c]
  <2>1. CASE IsOpen(s)
    BY <1>1, <1>3, <1>6, <2>1, ReceivesFacts DEF IInv
  <2>2. CASE ~IsOpen(s)
    BY <1>1, <2>2 DEF IInv, Typed
  <2> QED
    BY <2>1, <2>2
<1>8. Typed'
  BY <1>2, <1>4, <1>7 DEF IInv, Typed, consumer
<1>9. Alive' = Alive
  BY <1>5 DEF Alive
<1>10. ConsumerServes'
  BY <1>2, <1>9 DEF IInv, ConsumerServes, consumer, Mapping
<1>11. SocketsSound'
  BY <1>2, <1>5, <1>7, <1>9, SocketFacts DEF IInv, SocketsSound
<1>12. SendSound' /\ BufferSound'
  BY <1>2, <1>5 DEF IInv, SendSound, BufferSound
<1>13. ASSUME NEW c \in Clients, ~IsOpen(s) \/ c # s[1] PROVE TabSound(c)'
  <2>1. TabSound(c) /\ tab'[c] = tab[c]
    BY <1>7, <1>13 DEF IInv
  <2>2. \A t \in Sockets : t[1] = c /\ IsOpen(t) =>
           sock'[t] = sock[t] /\ Sends(t)' = Sends(t) /\ reg'.seq = reg.seq
    BY <1>2, <1>4, <1>5, <1>13
  <2> QED
    BY <1>2, <1>5, <2>1, <2>2, TabStays DEF IInv
<1>14. ASSUME IsOpen(s) PROVE TabSound(s[1])'
  <2>1. todo = Tail(sock[s].todo) /\ Receives(s[1], f.seq, f.ev)
    BY <1>1, <1>14
  <2> DEFINE all == sock[s].todo
             n == Len(sock[s].todo)
  <2>2. /\ n \in Nat \ {0} /\ Len(todo) = n - 1 /\ f = all[1]
        /\ \A i \in 1..(n - 1) : todo[i] = all[i + 1]
    BY <1>2, <1>3, <2>1
  <2>3. \A i \in 1..(n - 1) : i + 1 \in 1..n
    BY <2>2
  <2>4. Replays(s)' = {all[i].seq : i \in 2..n} /\ Replays(s) = {f.seq} \cup {all[i].seq : i \in 2..n}
    <3>1. Replays(s)' = {todo[i].seq : i \in 1..(n - 1)}
      BY <1>4, <2>2 DEF Replays
    <3>2. \A i \in 2..n : i - 1 \in 1..(n - 1) /\ (i - 1) + 1 = i
      BY <2>2
    <3>3. {todo[i].seq : i \in 1..(n - 1)} = {all[i].seq : i \in 2..n}
      <4>1. \A i \in 1..(n - 1) : i + 1 \in 2..n /\ todo[i].seq = all[i + 1].seq
        BY <2>2
      <4>2. \A i \in 2..n : i - 1 \in 1..(n - 1) /\ todo[i - 1].seq = all[i].seq
        BY <2>2, <3>2
      <4> QED
        BY <4>1, <4>2
    <3>4. 1..n = {1} \cup 2..n
      BY <2>2
    <3>5. Replays(s) = {all[i].seq : i \in 1..n}
      BY DEF Replays
    <3>6. f.seq = all[1].seq
      BY <2>2
    <3> HIDE DEF n, f, all
    <3>7. {all[i].seq : i \in 1..n} = {all[1].seq} \cup {all[i].seq : i \in 2..n}
      BY <3>4
    <3> QED
      BY <3>1, <3>3, <3>5, <3>6, <3>7
  <2>5. CASE OnlineSound(s)
    <3>1. \A i, j \in 1..n : i # j => all[i].seq # all[j].seq
      BY <2>5 DEF OnlineSound
    <3>2. f.seq \notin {all[i].seq : i \in 2..n}
      <4>1. 1 \in 1..n /\ \A i \in 2..n : i \in 1..n /\ i # 1
        BY <2>2
      <4>2. f = all[1]
        BY <2>2
      <4>3. \A i \in 2..n : all[1].seq # all[i].seq
        <5> SUFFICES ASSUME NEW i \in 2..n PROVE all[1].seq # all[i].seq
          OBVIOUS
        <5>1. i \in 1..n /\ 1 # i
          BY <4>1
        <5> HIDE DEF n, all
        <5> QED
          BY <3>1, <4>1, <5>1
      <4> HIDE DEF f, n, all
      <4> QED
        BY <4>2, <4>3
    <3>3. f.seq \notin Sends(s)
      BY <2>4, <2>5 DEF OnlineSound
    <3>4. Coming(s)' = Coming(s) \ {f.seq} /\ f.seq \in Coming(s)
      <4>1. Coming(s)' = {all[i].seq : i \in 2..n} \cup Sends(s)
        BY <1>5, <2>4 DEF Coming
      <4>2. Coming(s) = {f.seq} \cup {all[i].seq : i \in 2..n} \cup Sends(s)
        BY <2>4 DEF Coming
      <4> HIDE DEF f, n, all
      <4> QED
        BY <3>2, <3>3, <4>1, <4>2
    <3>5. Replays(s)' \cap Sends(s)' = {}
      BY <1>5, <2>4, <2>5 DEF OnlineSound
    <3>6. \A i, j \in 1..Len(sock'[s].todo) : i # j => sock'[s].todo[i].seq # sock'[s].todo[j].seq
      <4>1. \A i, j \in 1..(n - 1) : i # j => all[i + 1].seq # all[j + 1].seq
        <5> SUFFICES ASSUME NEW i \in 1..(n - 1), NEW j \in 1..(n - 1), i # j
                     PROVE  all[i + 1].seq # all[j + 1].seq
          OBVIOUS
        <5>1. i + 1 \in 1..n /\ j + 1 \in 1..n /\ i + 1 # j + 1
          BY <2>2
        <5> HIDE DEF n, all
        <5> QED
          BY <3>1, <5>1
      <4>2. \A i, j \in 1..(n - 1) : i # j => todo[i].seq # todo[j].seq
        <5> SUFFICES ASSUME NEW i \in 1..(n - 1), NEW j \in 1..(n - 1), i # j
                     PROVE  todo[i].seq # todo[j].seq
          OBVIOUS
        <5>1. todo[i] = all[i + 1] /\ todo[j] = all[j + 1]
          BY <2>2
        <5>2. all[i + 1].seq # all[j + 1].seq
          BY <4>1
        <5> HIDE DEF n, all
        <5> QED
          BY <5>1, <5>2
      <4>3. 1..Len(todo) = 1..(n - 1)
        BY <2>2
      <4>4. sock'[s].todo = todo
        BY <1>4
      <4> HIDE DEF n, all
      <4> QED
        BY <4>2, <4>3, <4>4
    <3>7. SocketsSound /\ TabSound(s[1]) /\ Typed
      BY <1>6 DEF IInv
    <3>8. reg'.seq = reg.seq
      BY <1>2
    <3> HIDE DEF f
    <3> QED
      BY <1>3, <1>5, <1>14, <2>1, <3>4, <3>5, <3>6, <3>7, <3>8, TabGets
  <2>6. CASE ~OnlineSound(s)
    <3>1. tab[s[1]].excused
      BY <1>6, <1>14, <2>6 DEF IInv, TabSound
    <3>2. tab'[s[1]].excused
      BY <1>3, <1>6, <2>1, <3>1, ReceivesFacts DEF IInv
    <3> QED
      BY <3>2 DEF TabSound
  <2> QED
    BY <2>5, <2>6
<1>15. \A c \in Clients : TabSound(c)'
  BY <1>13, <1>14
<1> QED
  BY <1>8, <1>10, <1>11, <1>12, <1>15 DEF IInv

-----------------------------------------------------------------------------
(* A browser goes, and its handler. *)

LEMMA RangeFacts ==
    ASSUME NEW got, NEW a \in Nat, NEW m \in Int, got = a..m, NEW last \in got \cup {0},
           \A k \in got : k <= last
    PROVE  (\E b \in Nat : got = b..last) /\ (last \in a..m \/ last = 0)
<1>1. CASE a > m
  <2>1. got = {} /\ 1 \in Nat /\ 1..0 = {} /\ last = 0
    BY <1>1
  <2> QED
    BY <2>1
<1>2. CASE ~(a > m)
  <2>1. m \in got
    BY <1>2
  <2>2. last = m
    <3>1. m <= last /\ last \in Int
      BY <2>1
    <3>2. last <= m
      <4>1. CASE last \in got
        BY <4>1
      <4>2. CASE last = 0
        BY <1>2, <4>2
      <4> QED
        BY <4>1, <4>2
    <3> QED
      BY <3>1, <3>2
  <2> QED
    BY <1>2, <2>1, <2>2
<1> QED
  BY <1>1, <1>2

\* What an open socket with nothing to replay was sent goes up to the last number, or to
\* the one before while the last is on its way.
LEMMA SentRange ==
    ASSUME NEW s \in Sockets, Typed, SendSound, IsOpen(s), OnlineSound(s), sock[s].todo = <<>>
    PROVE  \E a \in Nat, m \in Int : m <= reg.seq /\ tab[s[1]].got = a..m
<1> DEFINE got == tab[s[1]].got
<1>1. Replays(s) = {}
  BY DEF Replays
<1>2. reg.seq \in Nat
  BY TypedFacts
<1>3. Sends(s) \in {{}, {reg.seq}}
  BY DEF Sends, SendSound, IsOpen
<1>4. PICK a \in Nat : got \cup Sends(s) = a..reg.seq
  BY <1>1 DEF OnlineSound, Coming
<1>5. got \cap Sends(s) = {}
  BY DEF OnlineSound, Coming
<1>6. CASE Sends(s) = {}
  BY <1>2, <1>4, <1>6
<1>7. CASE Sends(s) = {reg.seq}
  <2>1. got = (a..reg.seq) \ {reg.seq}
    BY <1>4, <1>5, <1>7
  <2>2. (a..reg.seq) \ {reg.seq} = a..(reg.seq - 1)
    BY <1>2
  <2>3. reg.seq - 1 \in Int /\ reg.seq - 1 <= reg.seq
    BY <1>2
  <2> QED
    BY <2>1, <2>2, <2>3, Zenon
<1> QED
  BY <1>3, <1>6, <1>7

\* A tab whose socket has nothing to replay goes offline with the numbers it was sent.
LEMMA TabLeaves ==
    ASSUME NEW s \in Sockets, Typed, SocketsSound, SendSound, TabSound(s[1]), IsOpen(s),
           ~IsOpen(s)', \A t \in Sockets \ {s} : IsOpen(t)' <=> IsOpen(t),
           tab'[s[1]].got = tab[s[1]].got, tab'[s[1]].last = tab[s[1]].last,
           tab'[s[1]].twice = tab[s[1]].twice, tab'[s[1]].epoch = tab[s[1]].epoch,
           tab'[s[1]].excused \/ (~tab[s[1]].excused /\ sock[s].todo = <<>>),
           epoch' \in {epoch, epoch + 1}, epoch' = epoch => reg'.seq = reg.seq
    PROVE  TabSound(s[1])'
<1> DEFINE c == s[1]
<1>1. c \in Clients /\ \A t \in Sockets : IsOpen(t) /\ t[1] = c => t = s
  BY SocketFacts DEF SocketsSound, IsOpen
<1>2. ~Online(c)'
  BY <1>1 DEF Online
<1>3. CASE tab'[c].excused
  BY <1>3 DEF TabSound
<1>4. CASE ~tab'[c].excused
  <2>1. /\ ~tab[c].twice /\ tab[c].last \in tab[c].got \cup {0}
        /\ \A j \in tab[c].got : j <= tab[c].last
        /\ OnlineSound(s) /\ sock[s].todo = <<>>
    BY <1>4 DEF TabSound
  <2>2. tab[c].last \in Nat /\ tab[c].epoch \in Nat /\ tab[c].epoch <= epoch /\ epoch \in Nat
        /\ reg.seq \in Nat
    BY <1>1, TypedFacts DEF SocketsSound, Typed
  <2>3. PICK a \in Nat, m \in Int : m <= reg.seq /\ tab[c].got = a..m
    BY <2>1, SentRange
  <2>4. (\E b \in Nat : tab[c].got = b..tab[c].last) /\ tab[c].last <= reg.seq
    <3>1. (\E b \in Nat : tab[c].got = b..tab[c].last) /\ (tab[c].last \in a..m \/ tab[c].last = 0)
      <4>1. PICK got, last : got = tab[c].got /\ last = tab[c].last
        OBVIOUS
      <4>2. got = a..m /\ last \in got \cup {0} /\ \A k \in got : k <= last
        BY <2>1, <2>3, <4>1
      <4>3. (\E b \in Nat : got = b..last) /\ (last \in a..m \/ last = 0)
        BY <2>3, <4>2, RangeFacts
      <4> QED
        BY <4>1, <4>3
    <3> QED
      BY <2>2, <2>3, <3>1
  <2>5. OfflineSound(c)'
    <3>1. tab[c].epoch = epoch' => epoch' = epoch
      BY <2>2
    <3> QED
      BY <2>4, <3>1 DEF OfflineSound
  <2> QED
    BY <1>1, <1>2, <2>1, <2>5 DEF TabSound
<1> QED
  BY <1>3, <1>4

\* The browser goes away.
LEMMA DropStep == ASSUME IInv, NEW s \in Sockets, Drop(s) PROVE IInv'
<1>1. /\ IsOpen(s) /\ UNCHANGED <<emitted, consumer, mapper, reg, lost, epoch, breaks>>
      /\ sock' = [sock EXCEPT ![s].state = "lost"]
  BY DEF Drop, IsOpen
<1>2. /\ sock' \in [Sockets -> [state : {"none", "open", "lost", "over"}, todo : Seq(Frames)]]
      /\ \A t \in Sockets \ {s} : sock'[t] = sock[t]
      /\ sock'[s].state = "lost" /\ sock'[s].todo = sock[s].todo
  BY <1>1 DEF IInv, Typed
<1>3. s[1] \in Clients
  BY SocketFacts
<1>4. PICK excused \in BOOLEAN : /\ excused = (tab[s[1]].excused \/ sock[s].todo # <<>>)
                                 /\ tab' = [tab EXCEPT ![s[1]].excused = excused]
  <2>1. PICK excused : excused = (tab[s[1]].excused \/ sock[s].todo # <<>>)
    OBVIOUS
  <2>2. excused \in BOOLEAN
    BY <1>3, <2>1, TypedFacts DEF IInv
  <2>3. tab' = [tab EXCEPT ![s[1]].excused = excused]
    BY <1>3, <2>1 DEF Drop, IInv, Typed
  <2> QED
    BY <2>1, <2>2, <2>3
<1>5. /\ tab' \in [Clients -> Tab] /\ \A c \in Clients \ {s[1]} : tab'[c] = tab[c]
      /\ \A c \in Clients : /\ tab'[c].n = tab[c].n /\ tab'[c].epoch = tab[c].epoch
                            /\ tab'[c].got = tab[c].got /\ tab'[c].last = tab[c].last
                            /\ tab'[c].twice = tab[c].twice
      /\ tab'[s[1]].excused = excused
  <2>1. tab \in [Clients -> Tab] /\ tab[s[1]] \in Tab
    BY <1>3 DEF IInv, Typed
  <2>2. /\ tab'[s[1]] = [tab[s[1]] EXCEPT !.excused = excused]
        /\ \A c \in Clients \ {s[1]} : tab'[c] = tab[c]
        /\ DOMAIN tab' = Clients /\ tab' = [c \in Clients |-> tab'[c]]
    BY <1>3, <1>4, <2>1
  <2>3. PICK t : t = tab[s[1]]
    OBVIOUS
  <2>4. PICK u : u = [t EXCEPT !.excused = excused]
    OBVIOUS
  <2>5. /\ u \in Tab /\ u.n = t.n /\ u.epoch = t.epoch /\ u.got = t.got /\ u.last = t.last
        /\ u.twice = t.twice /\ u.excused = excused
    BY <2>1, <2>3, <2>4 DEF Tab
  <2>6. tab'[s[1]] = u
    BY <2>2, <2>3, <2>4
  <2>7. \A c \in Clients : tab'[c] \in Tab
    BY <2>1, <2>2, <2>5, <2>6
  <2> QED
    BY <2>2, <2>3, <2>5, <2>6, <2>7
<1>6. Typed'
  BY <1>1, <1>2, <1>5 DEF IInv, Typed, consumer
<1>7. Alive' = Alive
  BY <1>1, <1>2 DEF Alive, IsOpen
<1>8. ConsumerServes'
  BY <1>1, <1>7 DEF IInv, ConsumerServes, consumer, Mapping
<1>9. SocketsSound'
  <2>1. \A t \in Sockets : sock'[t].state = "open" => sock[t].state = "open"
    BY <1>2
  <2>2. \A t \in Sockets : sock[t].state = "none" => sock'[t].state = "none"
    BY <1>1, <1>2 DEF IsOpen
  <2> QED
    BY <1>1, <1>5, <1>7, <2>1, <2>2, SocketFacts DEF IInv, SocketsSound
<1>10. SendSound' /\ BufferSound'
  BY <1>1, <1>2 DEF IInv, SendSound, BufferSound
<1>11. \A t \in Sockets \ {s} : (IsOpen(t)' <=> IsOpen(t)) /\ Sends(t)' = Sends(t)
  BY <1>1, <1>2 DEF IsOpen, Sends
<1>12. ASSUME NEW c \in Clients, c # s[1] PROVE TabSound(c)'
  BY <1>1, <1>2, <1>5, <1>11, <1>12, TabStays DEF IInv
<1>13. TabSound(s[1])'
  <2>1. ~IsOpen(s)'
    BY <1>2 DEF IsOpen
  <2>2. tab'[s[1]].excused \/ (~tab[s[1]].excused /\ sock[s].todo = <<>>)
    BY <1>4, <1>5
  <2>3. epoch' \in {epoch, epoch + 1} /\ reg'.seq = reg.seq
    BY <1>1
  <2>4. TabSound(s[1]) /\ Typed /\ SocketsSound /\ SendSound
    BY <1>3 DEF IInv
  <2> QED
    BY <1>1, <1>3, <1>5, <1>11, <2>1, <2>2, <2>3, <2>4, TabLeaves
<1> QED
  BY <1>6, <1>8, <1>9, <1>10, <1>12, <1>13 DEF IInv

\* The socket is removed and its reference released.
LEMMA LeaveStep == ASSUME IInv, NEW s \in Sockets, Leave(s) PROVE IInv'
<1>1. /\ sock[s].state \in {"open", "lost"} /\ sock[s].todo = <<>>
      /\ sock' = [sock EXCEPT ![s].state = "over"]
      /\ Keep(Without({s})) /\ Release /\ UNCHANGED <<emitted, tab, breaks>>
  BY DEF Leave
<1>2. /\ sock' \in [Sockets -> [state : {"none", "open", "lost", "over"}, todo : Seq(Frames)]]
      /\ \A t \in Sockets \ {s} : sock'[t] = sock[t]
      /\ sock'[s].state = "over"
  BY <1>1 DEF IInv, Typed
<1>3. /\ reg' \in [conns : SUBSET Sockets, seq : Nat, buf : Seq(Frames)]
      /\ reg'.conns = reg.conns \ {s} /\ BufferSound' /\ epoch' \in {epoch, epoch + 1}
      /\ epoch' = epoch => reg'.seq = reg.seq
      /\ reg'.conns # {} => epoch' = epoch
  <2>1. PICK conns : conns = reg.conns \ {s}
    OBVIOUS
  <2>2. Keep(conns)
    BY <1>1, <2>1 DEF Without
  <2> QED
    BY <2>1, <2>2, KeepFacts DEF IInv
<1>4. Alive' = Alive \ {s} /\ s \in Alive
  BY <1>1, <1>2 DEF Alive
<1>5. IsFiniteSet(Alive') /\ Cardinality(Alive') = refs' /\ refs' \in Nat
  <2>1. IsFiniteSet(Alive) /\ refs = Cardinality(Alive) /\ refs' = refs - 1
    BY <1>1 DEF IInv, ConsumerServes, Release
  <2>2. PICK alive : alive = Alive
    OBVIOUS
  <2>3. IsFiniteSet(alive \ {s}) /\ Cardinality(alive \ {s}) = Cardinality(alive) - 1
    BY <1>4, <2>1, <2>2, FS_RemoveElement
  <2>4. Cardinality(alive \ {s}) \in Nat
    BY <2>3, FS_CardinalityType
  <2> QED
    BY <1>4, <2>1, <2>2, <2>3, <2>4
<1>6. refs' = 0 <=> Alive' = {}
  BY <1>5, FS_EmptySet
<1>7. stream # "off"
  BY <1>4 DEF IInv, ConsumerServes
<1>8. IF refs' = 0 THEN stream' = "off" /\ hubq' = <<>> /\ nexq' = <<>> /\ mapper' = Idle
      ELSE UNCHANGED <<stream, hubq, nexq, mapper>>
  BY <1>1 DEF Release, Cancel
<1>9. Typed'
  <2>1. emitted' \in Nat /\ epoch' \in Nat /\ tab' \in [Clients -> Tab]
    BY <1>1, <1>3 DEF IInv, Typed
  <2>2. CASE refs' = 0
    BY <1>2, <1>3, <1>5, <1>8, <2>1, <2>2, MakeFields DEF Typed
  <2>3. CASE refs' # 0
    BY <1>2, <1>3, <1>5, <1>8, <2>1, <2>3 DEF IInv, Typed
  <2> QED
    BY <2>2, <2>3
<1>10. ConsumerServes'
  <2>1. CASE refs' = 0
    BY <1>5, <1>6, <1>8, <2>1, MakeFields DEF ConsumerServes, Mapping
  <2>2. CASE refs' # 0
    BY <1>5, <1>6, <1>7, <1>8, <2>2 DEF IInv, ConsumerServes, Mapping
  <2> QED
    BY <2>1, <2>2
<1>11. ASSUME NEW t \in Sockets, IsOpen(t), t # s
       PROVE  t \in reg'.conns /\ epoch' = epoch /\ reg'.seq = reg.seq /\ mapper' = mapper
  <2>1. t \in reg'.conns
    BY <1>3, <1>11 DEF IInv, SocketsSound, IsOpen
  <2>2. t \in Alive'
    BY <1>2, <1>11 DEF Alive, IsOpen
  <2>3. mapper' = mapper
    BY <1>6, <1>8, <2>2
  <2> QED
    BY <1>3, <2>1, <2>3
<1>12. SocketsSound'
  <2>1. \A c \in Clients : tab[c].epoch <= epoch'
    <3>1. epoch \in Nat /\ epoch' \in Nat /\ epoch <= epoch'
      BY <1>3 DEF IInv, Typed
    <3> QED
      BY <3>1, TypedFacts DEF IInv, SocketsSound
  <2>2. \A t \in Sockets : sock'[t].state = "open" => t # s /\ IsOpen(t)
    BY <1>2 DEF IsOpen
  <2>3. \A t \in Sockets : t[2] > tab[t[1]].n => sock'[t].state = "none"
    <3>1. \A t \in Sockets : t[2] > tab[t[1]].n => sock[t].state = "none"
      BY DEF IInv, SocketsSound
    <3> QED
      BY <1>1, <1>2, <3>1
  <2>4. reg'.conns \subseteq Alive'
    BY <1>3, <1>4 DEF IInv, SocketsSound
  <2> QED
    BY <1>1, <1>11, <2>1, <2>2, <2>3, <2>4 DEF IInv, SocketsSound, IsOpen
<1>13. SendSound'
  <2>1. CASE mapper' = Idle
    BY <2>1, MakeFields DEF SendSound
  <2>2. CASE mapper' = mapper
    <3>1. \A t \in Sockets : sock'[t].state = "open" => t # s /\ IsOpen(t)
      BY <1>2 DEF IsOpen
    <3> QED
      BY <1>1, <1>2, <1>11, <2>2, <3>1 DEF IInv, SendSound, IsOpen
  <2> QED
    BY <1>8, <2>1, <2>2
<1>14. \A t \in Sockets \ {s} : IsOpen(t)' <=> IsOpen(t)
  BY <1>2 DEF IsOpen
<1>15. ~IsOpen(s)'
  BY <1>2 DEF IsOpen
<1>16. ASSUME NEW c \in Clients, ~IsOpen(s) \/ c # s[1] PROVE TabSound(c)'
  <2>1. TabSound(c) /\ tab'[c] = tab[c]
    BY <1>1 DEF IInv
  <2>2. \A t \in Sockets : t[1] = c => (IsOpen(t)' <=> IsOpen(t))
    BY <1>14, <1>15, <1>16
  <2>3. \A t \in Sockets : t[1] = c /\ IsOpen(t) =>
           sock'[t] = sock[t] /\ Sends(t)' = Sends(t) /\ reg'.seq = reg.seq
    BY <1>2, <1>11, <1>16 DEF Sends
  <2>4. tab[c].epoch = epoch' => epoch' = epoch /\ reg'.seq = reg.seq
    <3>1. tab[c].epoch \in Nat /\ tab[c].epoch <= epoch /\ epoch \in Nat
      BY TypedFacts DEF IInv, SocketsSound, Typed
    <3> QED
      BY <1>3, <3>1
  <2> QED
    BY <2>1, <2>2, <2>3, <2>4, TabStays DEF IInv
<1>17. ASSUME IsOpen(s) PROVE TabSound(s[1])'
  <2>1. TabSound(s[1]) /\ Typed /\ SocketsSound /\ SendSound
    BY SocketFacts DEF IInv
  <2>2. CASE tab[s[1]].excused
    BY <1>1, <2>2 DEF TabSound
  <2>3. CASE ~tab[s[1]].excused
    BY <1>1, <1>3, <1>14, <1>15, <1>17, <2>1, <2>3, TabLeaves
  <2> QED
    BY <2>2, <2>3
<1> QED
  BY <1>3, <1>9, <1>10, <1>12, <1>13, <1>16, <1>17 DEF IInv

-----------------------------------------------------------------------------
(* A browser connects. *)

\* A tab that comes back is sent the numbers after its last one, a new one those to come.
LEMMA TabConnects ==
    ASSUME NEW s \in Sockets, Typed, BufferSound, TabSound(s[1]), ~Online(s[1]),
           \A u \in Sockets : u[1] = s[1] /\ IsOpen(u)' <=> u = s,
           Sends(s)' = {}, reg'.seq = reg.seq,
           \/ /\ tab'[s[1]].got = {} /\ tab'[s[1]].last = 0 /\ ~tab'[s[1]].twice
              /\ sock'[s].todo = <<>>
           \/ /\ tab[s[1]].last > 0 /\ Replayable(tab[s[1]].last)
              /\ sock'[s].todo = Newer(tab[s[1]].last)
              /\ tab'[s[1]].got = tab[s[1]].got /\ tab'[s[1]].last = tab[s[1]].last
              /\ tab'[s[1]].twice = tab[s[1]].twice
              /\ \/ tab'[s[1]].excused
                 \/ ~tab[s[1]].excused /\ tab[s[1]].epoch = epoch
    PROVE  TabSound(s[1])'
<1> DEFINE c == s[1]
<1>1. c \in Clients /\ reg.seq \in Nat /\ tab[c].last \in Nat /\ Online(c)'
  BY SocketFacts, TypedFacts DEF Online
<1>2. Coming(s)' = Replays(s)' /\ Replays(s)' \cap Sends(s)' = {}
  BY DEF Coming
<1>3. CASE tab'[c].got = {} /\ tab'[c].last = 0 /\ ~tab'[c].twice /\ sock'[s].todo = <<>>
  <2>1. Replays(s)' = {}
    BY <1>3 DEF Replays
  <2>2. reg.seq + 1 \in Nat /\ (reg.seq + 1)..reg.seq = {}
    BY <1>1
  <2>3. \A i, j \in 1..Len(sock'[s].todo) : i # j => sock'[s].todo[i].seq # sock'[s].todo[j].seq
    BY <1>3
  <2>4. OnlineSound(s)'
    BY <1>2, <1>3, <2>1, <2>2, <2>3 DEF OnlineSound
  <2> QED
    BY <1>1, <1>3, <2>4 DEF TabSound
<1>4. ASSUME tab[c].last > 0, Replayable(tab[c].last), sock'[s].todo = Newer(tab[c].last),
             tab'[c].got = tab[c].got, tab'[c].last = tab[c].last, tab'[c].twice = tab[c].twice,
             ~tab[c].excused, tab[c].epoch = epoch
      PROVE  TabSound(c)'
  <2>1. /\ ~tab[c].twice /\ tab[c].last \in tab[c].got \cup {0}
        /\ \A k \in tab[c].got : k <= tab[c].last
        /\ OfflineSound(c)
    BY <1>4 DEF TabSound
  <2>2. PICK last : last = tab[c].last
    OBVIOUS
  <2>3. PICK todo : todo = sock'[s].todo
    OBVIOUS
  <2>4. /\ last \in Nat /\ last <= reg.seq /\ Len(todo) = reg.seq - last
        /\ \A i \in 1..Len(todo) : todo[i].seq = last + i
    BY <1>1, <1>4, <2>2, <2>3, NewerFacts
  <2>5. PICK b \in Nat : tab[c].got = b..last
    BY <2>1, <2>2 DEF OfflineSound
  <2>6. b <= last
    BY <1>4, <2>1, <2>2, <2>4, <2>5
  <2>7. Replays(s)' = (last + 1)..reg.seq
    <3>1. Replays(s)' = {todo[i].seq : i \in 1..Len(todo)}
      BY <2>3 DEF Replays
    <3>2. \A i \in 1..Len(todo) : todo[i].seq \in (last + 1)..reg.seq
      BY <1>1, <2>4
    <3>3. \A k \in (last + 1)..reg.seq : k - last \in 1..Len(todo) /\ todo[k - last].seq = k
      <4> SUFFICES ASSUME NEW k \in (last + 1)..reg.seq
                   PROVE  k - last \in 1..Len(todo) /\ todo[k - last].seq = k
        OBVIOUS
      <4>1. k - last \in 1..Len(todo) /\ last + (k - last) = k
        BY <1>1, <2>4
      <4> QED
        BY <2>4, <4>1
    <3> QED
      BY <3>1, <3>2, <3>3
  <2>8. /\ tab[c].got \cup Replays(s)' = b..reg.seq
        /\ tab[c].got \cap Replays(s)' = {}
    <3>1. (b..last) \cup ((last + 1)..reg.seq) = b..reg.seq
      BY <1>1, <2>4, <2>6
    <3>2. (b..last) \cap ((last + 1)..reg.seq) = {}
      BY <1>1, <2>4
    <3> QED
      BY <2>5, <2>7, <3>1, <3>2
  <2>9. \A i, j \in 1..Len(todo) : i # j => todo[i].seq # todo[j].seq
    <3> SUFFICES ASSUME NEW i \in 1..Len(todo), NEW j \in 1..Len(todo), i # j
                 PROVE  todo[i].seq # todo[j].seq
      OBVIOUS
    <3>1. todo[i].seq = last + i /\ todo[j].seq = last + j
      BY <2>4
    <3> QED
      BY <2>4, <3>1
  <2>10. OnlineSound(s)'
    BY <1>2, <1>4, <2>3, <2>8, <2>9 DEF OnlineSound
  <2> QED
    BY <1>1, <1>4, <2>1, <2>10 DEF TabSound
<1>5. CASE tab'[c].excused
  BY <1>5 DEF TabSound
<1> QED
  BY <1>3, <1>4, <1>5

\* thread_stream up to its first send.
LEMMA ConnectStep == ASSUME IInv, NEW c \in Clients, Connect(c) PROVE IInv'
<1>0. PICK t, s : t = tab[c] /\ s = <<c, t.n + 1>>
  OBVIOUS
<1> DEFINE replay == t.last > 0 /\ Replayable(t.last)
<1>1. /\ t.n < Connects[c]
      /\ t.n > 0 => sock[<<c, t.n>>].state # "open"
      /\ reg' = [reg EXCEPT !.conns = @ \cup {s}] /\ Acquire
      /\ UNCHANGED <<emitted, hubq, nexq, mapper, lost, epoch, breaks>>
  BY <1>0 DEF Connect
<1>2. PICK todo : /\ todo = IF replay THEN Newer(t.last) ELSE <<>>
                  /\ sock' = [sock EXCEPT ![s] = [state |-> "open", todo |-> todo]]
  BY <1>0 DEF Connect
<1>3. PICK known : /\ known = IF replay THEN [t EXCEPT !.excused = @ \/ t.epoch # epoch]
                              ELSE [FreshTab EXCEPT !.seen = t.seen]
                   /\ tab' = [tab EXCEPT ![c] = [known EXCEPT !.n = t.n + 1, !.epoch = epoch]]
  BY <1>0 DEF Connect
<1>4. /\ t \in Tab /\ t.n \in Nat /\ t.last \in Nat /\ epoch \in Nat /\ refs \in Nat
      /\ Connects[c] \in Nat
  <2>1. tab[c] \in Tab /\ tab[c].n \in Nat /\ tab[c].last \in Nat
    BY TypedFacts DEF IInv
  <2> QED
    BY <1>0, <2>1, StreamAssumption DEF IInv, Typed
<1>5. s \in Sockets /\ s[1] = c /\ s[2] = t.n + 1
  <2>1. t.n + 1 \in 1..Connects[c]
    <3>1. t.n < Connects[c]
      BY <1>1
    <3> QED
      BY <1>4, <3>1
  <2> QED
    BY <1>0, <2>1, SocketFacts
<1>6. sock[s].state = "none"
  BY <1>0, <1>4, <1>5 DEF IInv, SocketsSound
<1>7. ~Online(c)
  <2> SUFFICES ASSUME NEW u \in Sockets, u[1] = c, IsOpen(u) PROVE FALSE
    BY DEF Online
  <2>1. u[2] = t.n
    BY <1>0 DEF IInv, SocketsSound, IsOpen
  <2>2. u = <<c, t.n>> /\ t.n > 0
    <3>1. u = <<u[1], u[2]>> /\ u[2] \in 1..Connects[u[1]]
      BY SocketFacts
    <3> QED
      BY <1>4, <2>1, <3>1
  <2> QED
    BY <1>1, <2>2 DEF IsOpen
<1>8. todo \in Seq(Frames)
  <2>1. replay => Newer(t.last) \in Seq(Frames)
    BY <1>4, NewerFacts DEF IInv
  <2> QED
    BY <1>2, <2>1
<1>9. /\ sock' \in [Sockets -> [state : {"none", "open", "lost", "over"}, todo : Seq(Frames)]]
      /\ \A u \in Sockets \ {s} : sock'[u] = sock[u]
      /\ sock'[s].state = "open" /\ sock'[s].todo = todo
  BY <1>2, <1>5, <1>8 DEF IInv, Typed
<1>10. /\ tab'[c] \in Tab /\ tab'[c].n = t.n + 1 /\ tab'[c].epoch = epoch
       /\ replay => /\ tab'[c].got = t.got /\ tab'[c].last = t.last /\ tab'[c].twice = t.twice
                    /\ tab'[c].excused \/ (~t.excused /\ t.epoch = epoch)
       /\ ~replay => tab'[c].got = {} /\ tab'[c].last = 0 /\ ~tab'[c].twice
  <2>1. tab'[c] = [known EXCEPT !.n = t.n + 1, !.epoch = epoch]
    BY <1>3 DEF IInv, Typed
  <2>2. t.n + 1 \in Nat
    BY <1>4
  <2>3. PICK u, n, gone, excused :
           /\ u = t /\ n = t.n + 1 /\ gone = (t.epoch # epoch) /\ excused = (t.excused \/ gone)
    OBVIOUS
  <2>4. u \in Tab /\ n \in Nat /\ gone \in BOOLEAN
    BY <1>4, <2>2, <2>3
  <2>5. excused \in BOOLEAN /\ u.excused = t.excused
    BY <2>3, <2>4 DEF Tab
  <2>6. u = [n |-> u.n, last |-> u.last, got |-> u.got, seen |-> u.seen, epoch |-> u.epoch,
             excused |-> u.excused, twice |-> u.twice]
    BY <2>4 DEF Tab
  <2>7. CASE replay
    <3>1. known = [u EXCEPT !.excused = excused]
      BY <1>3, <2>3, <2>7
    <3>2. tab'[c] = [n |-> n, last |-> u.last, got |-> u.got, seen |-> u.seen, epoch |-> epoch,
                     excused |-> excused, twice |-> u.twice]
      BY <2>1, <2>3, <2>6, <3>1
    <3>3. tab'[c] \in Tab
      BY <1>4, <2>4, <2>5, <3>2 DEF Tab
    <3>4. tab'[c].excused \/ (~t.excused /\ t.epoch = epoch)
      <4>1. tab'[c].excused = excused
        BY <3>2
      <4>2. excused \/ (~t.excused /\ t.epoch = epoch)
        BY <2>3, <2>4, <2>5
      <4> QED
        BY <4>1, <4>2
    <3> QED
      BY <2>3, <2>7, <3>2, <3>3, <3>4
  <2>8. CASE ~replay
    <3>1. known = [FreshTab EXCEPT !.seen = u.seen]
      BY <1>3, <2>3, <2>8
    <3>2. tab'[c] = [n |-> n, last |-> 0, got |-> {}, seen |-> u.seen, epoch |-> epoch,
                     excused |-> FALSE, twice |-> FALSE]
      BY <2>1, <2>3, <3>1 DEF FreshTab
    <3>3. u.seen \in SUBSET Nat
      BY <2>4 DEF Tab
    <3>4. tab'[c] \in Tab
      BY <1>4, <2>4, <3>2, <3>3 DEF Tab
    <3>5. /\ tab'[c].n = t.n + 1 /\ tab'[c].epoch = epoch
          /\ tab'[c].got = {} /\ tab'[c].last = 0 /\ ~tab'[c].twice
      BY <2>3, <3>2
    <3> HIDE DEF replay
    <3> QED
      BY <2>8, <3>4, <3>5
  <2> QED
    BY <2>7, <2>8
<1>11. tab' \in [Clients -> Tab] /\ \A d \in Clients \ {c} : tab'[d] = tab[d]
  <2>1. tab \in [Clients -> Tab]
    BY DEF IInv, Typed
  <2>2. DOMAIN tab' = Clients /\ tab' = [d \in Clients |-> tab'[d]]
        /\ \A d \in Clients \ {c} : tab'[d] = tab[d]
    BY <1>3, <2>1
  <2> QED
    BY <1>10, <2>1, <2>2
<1>12. /\ reg' \in [conns : SUBSET Sockets, seq : Nat, buf : Seq(Frames)]
       /\ reg'.conns = reg.conns \cup {s} /\ reg'.seq = reg.seq /\ reg'.buf = reg.buf
  BY <1>1, <1>5 DEF IInv, Typed
<1>13. refs' = refs + 1 /\ stream' \in {"dial", "open"} /\ (stream' = "open" <=> stream = "open")
  BY <1>1 DEF Acquire, IInv, Typed
<1>14. Typed'
  <2>1. refs' \in Nat
    BY <1>4, <1>13
  <2> QED
    BY <1>1, <1>9, <1>11, <1>12, <1>13, <2>1 DEF IInv, Typed
<1>15. Alive' = Alive \cup {s} /\ s \notin Alive
  BY <1>5, <1>6, <1>9 DEF Alive
<1>16. ConsumerServes'
  <2>1. IsFiniteSet(Alive) /\ refs = Cardinality(Alive)
    BY DEF IInv, ConsumerServes
  <2>2. PICK alive : alive = Alive
    OBVIOUS
  <2>3. IsFiniteSet(alive \cup {s}) /\ Cardinality(alive \cup {s}) = Cardinality(alive) + 1
    BY <1>15, <2>1, <2>2, FS_AddElement
  <2>4. IsFiniteSet(Alive') /\ refs' = Cardinality(Alive') /\ Alive' # {}
    BY <1>13, <1>15, <2>1, <2>2, <2>3
  <2>5. stream' # "open" => hubq' = <<>>
    BY <1>1, <1>13 DEF IInv, ConsumerServes
  <2> QED
    BY <1>13, <2>4, <2>5 DEF ConsumerServes
<1>17. SocketsSound'
  <2>1. \A d \in Clients : tab'[d].n <= Connects[d] /\ tab'[d].epoch <= epoch
    <3>1. \A d \in Clients : tab[d].n <= Connects[d] /\ tab[d].epoch <= epoch
      BY DEF IInv, SocketsSound
    <3>2. t.n + 1 <= Connects[c] /\ epoch <= epoch
      <4>1. t.n < Connects[c]
        BY <1>1
      <4> QED
        BY <1>4, <4>1
    <3> QED
      BY <1>10, <1>11, <3>1, <3>2
  <2>2. \A u \in Sockets : u[2] > tab'[u[1]].n => sock'[u].state = "none"
    <3> SUFFICES ASSUME NEW u \in Sockets, u[2] > tab'[u[1]].n PROVE sock'[u].state = "none"
      OBVIOUS
    <3>1. u[1] \in Clients /\ u[2] \in Nat
      BY SocketFacts, StreamAssumption
    <3>2. u # s
      BY <1>4, <1>5, <1>10
    <3>3. u[2] > tab[u[1]].n
      BY <1>0, <1>4, <1>10, <1>11, <3>1
    <3> QED
      BY <1>9, <3>2, <3>3 DEF IInv, SocketsSound
  <2>3. ASSUME NEW u \in Sockets, sock'[u].state = "open"
        PROVE  u[2] = tab'[u[1]].n /\ u \in reg'.conns /\ tab'[u[1]].epoch = epoch
    <3>1. CASE u = s
      BY <1>5, <1>10, <1>12, <3>1
    <3>2. CASE u # s
      <4>1. IsOpen(u)
        BY <1>9, <2>3, <3>2 DEF IsOpen
      <4>2. u[1] \in Clients /\ u[1] # c
        BY <1>7, <4>1, SocketFacts DEF Online
      <4> QED
        BY <1>11, <1>12, <4>1, <4>2 DEF IInv, SocketsSound, IsOpen
    <3> QED
      BY <3>1, <3>2
  <2>4. reg'.conns \subseteq Alive'
    BY <1>12, <1>15 DEF IInv, SocketsSound
  <2> QED
    BY <1>1, <2>1, <2>2, <2>3, <2>4 DEF SocketsSound
<1>18. s \notin mapper.to /\ s \notin mapper.dead
  BY <1>6 DEF IInv, SendSound
<1>19. SendSound' /\ BufferSound'
  BY <1>1, <1>9, <1>12, <1>18 DEF IInv, SendSound, BufferSound
<1>20. /\ \A u \in Sockets \ {s} : (IsOpen(u)' <=> IsOpen(u)) /\ Sends(u)' = Sends(u)
       /\ IsOpen(s)' /\ Sends(s)' = {}
  <2>1. \A u \in Sockets \ {s} : (IsOpen(u)' <=> IsOpen(u)) /\ Sends(u)' = Sends(u)
    BY <1>1, <1>9 DEF IsOpen, Sends
  <2>2. IsOpen(s)' /\ Sends(s)' = {}
    BY <1>1, <1>9, <1>18 DEF IsOpen, Sends
  <2> QED
    BY <2>1, <2>2
<1>21. ASSUME NEW d \in Clients, d # c PROVE TabSound(d)'
  <2>1. \A u \in Sockets : u[1] = d => u # s
    BY <1>5, <1>21
  <2>2. \A u \in Sockets : u[1] = d => (IsOpen(u)' <=> IsOpen(u))
    BY <1>20, <2>1
  <2>3. \A u \in Sockets : u[1] = d /\ IsOpen(u) =>
           sock'[u] = sock[u] /\ Sends(u)' = Sends(u) /\ reg'.seq = reg.seq
    BY <1>9, <1>12, <1>20, <2>1
  <2>4. tab'[d] = tab[d] /\ TabSound(d) /\ Typed
    BY <1>11, <1>21 DEF IInv
  <2> QED
    BY <1>1, <1>12, <2>2, <2>3, <2>4, TabStays
<1>22. TabSound(c)'
  <2>1. \A u \in Sockets : u[1] = s[1] /\ IsOpen(u)' <=> u = s
    BY <1>5, <1>7, <1>20 DEF Online
  <2>2. Typed /\ BufferSound /\ TabSound(c)
    BY DEF IInv
  <2>3. CASE replay
    <3>1. t.last > 0 /\ Replayable(t.last) /\ sock'[s].todo = Newer(t.last)
      BY <1>2, <1>9, <2>3
    <3> QED
      BY <1>0, <1>5, <1>7, <1>10, <1>12, <1>20, <2>1, <2>2, <2>3, <3>1, TabConnects
  <2>4. CASE ~replay
    <3>1. sock'[s].todo = <<>>
      BY <1>2, <1>9, <2>4
    <3> HIDE DEF replay
    <3> QED
      BY <1>0, <1>5, <1>7, <1>10, <1>12, <1>20, <2>1, <2>2, <2>4, <3>1, TabConnects
  <2> QED
    BY <2>3, <2>4
<1> QED
  BY <1>14, <1>16, <1>17, <1>19, <1>21, <1>22 DEF IInv

-----------------------------------------------------------------------------
LEMMA NextIInv == IInv /\ [Next]_vars => IInv'
<1> SUFFICES ASSUME IInv, [Next]_vars PROVE IInv'
  OBVIOUS
<1>1. CASE UNCHANGED vars
  <2>1. Typed'
    BY <1>1 DEF vars, IInv, Typed
  <2> QED
    BY <1>1, <2>1, HandlersStay DEF vars, IInv, ConsumerServes, Mapping
<1>2. ASSUME NEW c \in Clients, Connect(c) PROVE IInv'
  BY <1>2, ConnectStep
<1>3. ASSUME NEW s \in Sockets, Replay(s) \/ Drop(s) \/ Leave(s) PROVE IInv'
  BY <1>3, ReplayStep, DropStep, LeaveStep
<1> QED
  BY <1>1, <1>2, <1>3, StreamSteps, MapperSteps, EmitStep, SendStep DEF Next

LEMMA StreamInvariant == Spec => []IInv
BY InitIInv, NextIInv, PTL DEF Spec

\* In every state of every behaviour an open socket is registered under the numbering its
\* browser counts by, and the consumer runs for exactly the handlers there are
\* (ws_manager.py, remove and _prune_dead; event_consumer.py, acquire and release).
THEOREM SocketsAreServed == Spec => []OpenIsServed
<1>1. IInv => OpenIsServed
  BY DEF IInv, ConsumerServes, SocketsSound, OpenIsServed
<1> QED
  BY <1>1, StreamInvariant, PTL

\* In every state of every behaviour a browser has every frame below the last one it saw,
\* and none twice, unless the numbering restarted while it was away or it left during a
\* replay (ws_manager.py, replay_since against emit_business).
THEOREM NumbersHaveNoGaps == Spec => []GapsHaveCause
<1>1. ASSUME IInv, NEW c \in Clients, ~tab[c].excused
      PROVE  /\ ~tab[c].twice
             /\ (\A s \in Sockets : s[1] = c => sock[s].todo = <<>>) => Holes(c) = {}
  <2>1. /\ ~tab[c].twice /\ tab[c].last \in tab[c].got \cup {0}
        /\ \A j \in tab[c].got : j <= tab[c].last
        /\ \A s \in Sockets : s[1] = c /\ IsOpen(s) => OnlineSound(s)
        /\ ~Online(c) => OfflineSound(c)
    BY <1>1 DEF IInv, TabSound
  <2>2. tab[c].last \in Nat /\ tab[c].got \subseteq Nat /\ reg.seq \in Nat
    BY <1>1, TypedFacts DEF IInv
  <2>3. ASSUME \A s \in Sockets : s[1] = c => sock[s].todo = <<>>
        PROVE  \E a \in Nat, m \in Int : tab[c].got = a..m
    <3>1. CASE Online(c)
      <4>1. PICK s \in Sockets : s[1] = c /\ IsOpen(s)
        BY <3>1 DEF Online
      <4>2. OnlineSound(s) /\ sock[s].todo = <<>> /\ Typed /\ SendSound
        BY <1>1, <2>1, <2>3, <4>1 DEF IInv
      <4> QED
        BY <4>1, <4>2, SentRange
    <3>2. CASE ~Online(c)
      BY <2>1, <2>2, <3>2 DEF OfflineSound
    <3> QED
      BY <3>1, <3>2
  <2>4. ASSUME NEW a \in Nat, NEW m \in Int, tab[c].got = a..m, NEW k \in 1..tab[c].last,
               NEW j \in tab[c].got, j < k
        PROVE  k \in tab[c].got
    <3>1. tab[c].last \in a..m
      BY <2>1, <2>2, <2>4
    <3> QED
      BY <2>2, <2>4, <3>1
  <2> QED
    BY <2>1, <2>3, <2>4 DEF Holes
<1>2. IInv => GapsHaveCause
  BY <1>1 DEF GapsHaveCause
<1> QED
  BY <1>2, StreamInvariant, PTL
=============================================================================
