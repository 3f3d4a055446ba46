----------------------------- MODULE SessionProofs -----------------------------
(******************************************************************************)
(* What holds of every JSON-RPC session, whatever the backoffs, the probe     *)
(* intervals, the length of the run and the number of connections.  One call  *)
(* of jsonrpc_session_run() changes the session up to three times, so the     *)
(* invariant is a predicate of a session record: each part of the call keeps  *)
(* it, and so does their composition.                                         *)
(******************************************************************************)
EXTENDS JsonrpcSession, TLAPS

\* SessionConsistent of any session record.
Consistent(x) ==
    /\ x.fsm.state \in {"ACTIVE", "IDLE"} => x.rpc # 0
    /\ x.rpc # 0 => x.fsm.state \in {"ACTIVE", "IDLE", "RECONNECT"}
    /\ x.stream => x.fsm.state \in {"CONNECTING", "RECONNECT"} /\ x.rpc = 0
    /\ x.fsm.state = "CONNECTING" => x.stream
    /\ x.fsm.state = "LISTENING" => x.pstream
    /\ x.fsm.state = "RECONNECT" => x.rpc # 0 \/ x.stream
    /\ x.fsm.passive /\ x.rpc = 0 /\ ~x.pstream => x.fsm.state = "BACKOFF"

\* Only a passive session listens, and it never connects.
Sided(x) ==
    /\ x.fsm.passive <=> x.kind = "passive"
    /\ x.pstream => x.fsm.passive
    /\ x.stream => ~x.fsm.passive

\* The tries a session has left tell how it was opened and how far it came.  A
\* session without retry has one try until the end of its first attempt or
\* connection, and then backs off for longer than the clock runs.
Tries(x) ==
    /\ x.kind \in {"active", "passive"} => x.fsm.max_tries = Forever /\ x.fsm.state # "VOID"
    /\ x.kind = "unreliable" => x.fsm.max_tries = 0 /\ x.fsm.state # "BACKOFF"
    /\ x.kind = "once" =>
        /\ x.fsm.min_backoff = Forever /\ x.fsm.max_backoff = Forever
        /\ x.fsm.state # "VOID"
        /\ x.fsm.state # "BACKOFF" => x.begun /\ x.fsm.max_tries = 1
        /\ x.fsm.state = "BACKOFF" /\ ~x.begun => x.fsm.max_tries = 1
        /\ x.fsm.state = "BACKOFF" /\ x.begun => x.fsm.max_tries = 0 /\ x.fsm.backoff >= Forever

\* ProbedBeforeDrop of any session record.
Probed(x) == ~x.fsm.passive /\ x.fsm.state = "IDLE" => x.probed = x.rpc

Good(x) == x \in Session /\ Consistent(x) /\ Sided(x) /\ Tries(x) /\ Probed(x)

\* The inductive invariant.
GoodSession == now \in 0 .. MaxTime /\ Good(s)

--------------------------------------------------------------------------------
\* An FSM that changed its state only.
Moved(f, g, state) ==
    /\ g \in Fsm /\ g.state = state
    /\ g.passive <=> f.passive
    /\ g.max_tries = f.max_tries /\ g.backoff = f.backoff
    /\ g.min_backoff = f.min_backoff /\ g.max_backoff = f.max_backoff

\* An FSM whose connection or attempt ended.
Ended(f, g) ==
    /\ g \in Fsm
    /\ g.state = IF f.max_tries > 0 THEN "BACKOFF" ELSE "VOID"
    /\ g.passive <=> f.passive
    /\ g.max_tries = TriesLeft(f)
    /\ g.min_backoff = f.min_backoff /\ g.max_backoff = f.max_backoff
    /\ ~f.passive /\ f.min_backoff = Forever /\ f.max_backoff = Forever => g.backoff = Forever

LEMMA FsmMoves ==
    ASSUME NEW f \in Fsm, NEW t \in Nat, NEW state \in State
    PROVE  Moved(f, reconnect_transition__(f, t, state), state)
BY Zenon DEF Moved, reconnect_transition__, Fsm

LEMMA FsmStays ==
    ASSUME NEW f \in Fsm
    PROVE  Moved(f, f, f.state)
BY DEF Moved

LEMMA FsmConnecting ==
    ASSUME NEW f \in Fsm, NEW t \in Nat
    PROVE  Moved(f, reconnect_connecting(f, t), "CONNECTING")
BY FsmMoves, FsmStays DEF reconnect_connecting, State

LEMMA FsmListening ==
    ASSUME NEW f \in Fsm, NEW t \in Nat
    PROVE  Moved(f, reconnect_listening(f, t), "LISTENING")
BY FsmMoves, FsmStays DEF reconnect_listening, State

LEMMA FsmConnected ==
    ASSUME NEW f \in Fsm, NEW t \in Nat, f.state \notin {"ACTIVE", "IDLE"}
    PROVE  Moved(f, reconnect_connected(f, t), "ACTIVE")
<1> DEFINE g == reconnect_connecting(f, t)
           h == reconnect_transition__(g, t, "ACTIVE")
<1>1. Moved(f, g, "CONNECTING")
  BY FsmConnecting
<1> HIDE DEF g
<1>2. g \in Fsm /\ "ACTIVE" \in State
  BY <1>1 DEF Moved, State
<1>3. Moved(g, h, "ACTIVE")
  BY <1>2, FsmMoves
<1>4. reconnect_connected(f, t) = [h EXCEPT !.last_connected = t]
  BY DEF reconnect_connected, is_connected_state, g
<1> HIDE DEF h
<1> QED
  BY <1>1, <1>3, <1>4 DEF Moved, Fsm

LEMMA FsmActivity ==
    ASSUME NEW f \in Fsm, NEW t \in Nat
    PROVE  Moved(f, reconnect_activity(f, t), "ACTIVE")
<1> DEFINE g == IF f.state # "ACTIVE" THEN reconnect_transition__(f, t, "ACTIVE") ELSE f
<1>1. Moved(f, g, "ACTIVE")
  BY FsmMoves, FsmStays DEF State
<1>2. reconnect_activity(f, t) = [g EXCEPT !.last_activity = t]
  BY DEF reconnect_activity
<1> HIDE DEF g
<1> QED
  BY <1>1, <1>2 DEF Moved, Fsm

LEMMA FsmEnds ==
    ASSUME NEW f \in Fsm, NEW t \in Nat, f.state \notin {"BACKOFF", "VOID"}
    PROVE  Ended(f, reconnect_disconnected(f, t))
<1> DEFINE b == NextBackoff(f)
           n == TriesLeft(f)
           g == [f EXCEPT !.backoff = b, !.max_tries = n]
           state == IF TryAgain(f) THEN "BACKOFF" ELSE "VOID"
<1> USE ReconnectAssumption
<1>1. /\ f.backoff \in Nat /\ f.min_backoff \in Nat /\ f.max_backoff \in Nat
      /\ f.max_tries \in Nat
  BY DEF Fsm
<1>2. b \in Nat
  BY <1>1 DEF NextBackoff
<1>3. n \in Nat
  BY <1>1 DEF TriesLeft
<1>4. ~f.passive /\ f.min_backoff = Forever /\ f.max_backoff = Forever => b = Forever
  <2>1. \/ b = f.min_backoff
        \/ b = 0 /\ f.passive
        \/ b = f.max_backoff
        \/ b = 2 * f.backoff /\ ~(f.backoff < f.min_backoff) /\ ~(2 * f.backoff >= f.max_backoff)
    BY Zenon DEF NextBackoff
  <2> HIDE DEF b
  <2> QED
    BY <1>1, <2>1
<1>5. state = IF f.max_tries > 0 THEN "BACKOFF" ELSE "VOID"
  BY DEF TryAgain
<1>6. reconnect_disconnected(f, t) = reconnect_transition__(g, t, state)
  BY DEF reconnect_disconnected
<1> HIDE DEF b, n, state
<1>7. g \in Fsm
  BY <1>2, <1>3, Zenon DEF Fsm
<1>8. state \in State
  BY <1>5 DEF State
<1>9. Moved(g, reconnect_transition__(g, t, state), state)
  BY <1>7, <1>8, FsmMoves
<1>10. /\ g.passive = f.passive /\ g.max_tries = n /\ g.backoff = b
       /\ g.min_backoff = f.min_backoff /\ g.max_backoff = f.max_backoff
  BY DEF Fsm
<1> HIDE DEF g
<1> QED
  BY <1>4, <1>5, <1>6, <1>9, <1>10 DEF Ended, Moved, n

LEMMA FsmFails ==
    ASSUME NEW f \in Fsm, NEW t \in Nat
    PROVE  Ended(f, reconnect_connect_failed(f, t))
<1> DEFINE g == reconnect_connecting(f, t)
<1>1. Moved(f, g, "CONNECTING")
  BY FsmConnecting
<1>2. reconnect_connect_failed(f, t) = reconnect_disconnected(g, t)
  BY DEF reconnect_connect_failed
<1> HIDE DEF g
<1>3. g \in Fsm /\ g.state \notin {"BACKOFF", "VOID"}
  BY <1>1 DEF Moved
<1>4. Ended(g, reconnect_disconnected(g, t))
  BY <1>3, FsmEnds
<1>5. TriesLeft(g) = TriesLeft(f)
  BY <1>1 DEF Moved, TriesLeft
<1> QED
  BY <1>1, <1>2, <1>4, <1>5 DEF Ended, Moved
--------------------------------------------------------------------------------
\* The parts of jsonrpc_session_run() and the other calls keep a session good.

\* A session record y that is x but for its FSM and its streams.
Kin(x, y) ==
    /\ y \in Session /\ y.kind = x.kind /\ y.probed = x.probed
    /\ y.pstream <=> x.pstream
    /\ y.begun <=> x.begun

\* jsonrpc_session_disconnect() leaves no connection, and no attempt unless both
\* were there.
Disconnected(x, y) ==
    /\ Kin(x, y) /\ y.fsm = x.fsm /\ y.rpc = 0
    /\ x.rpc = 0 \/ ~x.stream => ~y.stream

LEMMA DisconnectIs ==
    ASSUME NEW x \in Session
    PROVE  Disconnected(x, jsonrpc_session_disconnect(x))
<1> DEFINE y == jsonrpc_session_disconnect(x)
<1>0. PICK n \in Nat : n = x.seqno + 1
  BY DEF Session
<1>1. CASE x.rpc # 0
  <2>1. y = [x EXCEPT !.rpc = 0, !.seqno = n]
    BY <1>0, <1>1 DEF jsonrpc_session_disconnect
  <2> HIDE DEF y
  <2>2. y \in Session /\ y.kind = x.kind /\ y.probed = x.probed /\ y.fsm = x.fsm /\ y.rpc = 0
    BY <2>1, Zenon DEF Session
  <2>3. y.pstream = x.pstream /\ y.begun = x.begun /\ y.stream = x.stream
    BY <2>1 DEF Session
  <2> QED
    BY <1>1, <2>2, <2>3 DEF Disconnected, Kin, y
<1>2. CASE x.rpc = 0 /\ x.stream
  <2>1. y = [x EXCEPT !.stream = FALSE, !.seqno = n]
    BY <1>0, <1>2 DEF jsonrpc_session_disconnect
  <2> HIDE DEF y
  <2>2. y \in Session /\ y.kind = x.kind /\ y.probed = x.probed /\ y.fsm = x.fsm /\ y.rpc = 0
    BY <1>2, <2>1, Zenon DEF Session
  <2>3. y.pstream = x.pstream /\ y.begun = x.begun /\ ~y.stream
    BY <2>1 DEF Session
  <2> QED
    BY <2>2, <2>3 DEF Disconnected, Kin, y
<1>3. CASE x.rpc = 0 /\ ~x.stream
  <2>1. y = x
    BY <1>3 DEF jsonrpc_session_disconnect
  <2> QED
    BY <1>3, <2>1, Zenon DEF Disconnected, Kin
<1> QED
  BY <1>1, <1>2, <1>3

\* A new connection of x under the FSM g.
Connects(x, y, g) == Kin(x, y) /\ y.fsm = g /\ y.rpc # 0 /\ ~y.stream

\* jsonrpc_open() gives a session a connection and changes nothing else in it.
Opened(x, y) ==
    /\ y \in Session /\ y.kind = x.kind /\ y.probed = x.probed /\ y.fsm = x.fsm
    /\ y.pstream = x.pstream /\ y.begun = x.begun /\ y.stream = x.stream
    /\ y.rpc # 0

LEMMA NewConnectionIs ==
    ASSUME NEW x \in Session
    PROVE  Opened(x, NewConnection(x))
<1>1. PICK n \in Nat : n = x.conns + 1 /\ n # 0
  BY DEF Session
<1>2. NewConnection(x) = [x EXCEPT !.conns = n, !.rpc = n]
  BY <1>1 DEF NewConnection
<1> QED
  BY <1>1, <1>2, Zenon DEF Opened, Session

LEMMA AcceptGood ==
    ASSUME NEW x, Good(x), NEW outcome \in Outcome, now \in Nat
    PROVE  Good(Accept(x, outcome))
<1> USE DEF Good
<1>1. CASE ~x.pstream \/ outcome = "EAGAIN"
  <2>1. Accept(x, outcome) = x
    BY <1>1 DEF Accept, Outcome
  <2> QED
    BY <2>1
<1>2. CASE x.pstream /\ outcome = "ok"
  <2> DEFINE y == jsonrpc_session_disconnect(x)
             g == reconnect_connected(x.fsm, now)
             z == [y EXCEPT !.fsm = g]
             w == NewConnection(z)
  <2>1. Disconnected(x, y)
    BY DisconnectIs
  <2> HIDE DEF y
  <2>2. x.fsm \in Fsm
    BY DEF Session
  <2>3. Moved(x.fsm, g, IF x.fsm.state = "IDLE" THEN "IDLE" ELSE "ACTIVE")
    <3>1. CASE x.fsm.state \in {"ACTIVE", "IDLE"}
      BY <2>2, <3>1, FsmStays DEF reconnect_connected, is_connected_state
    <3>2. CASE x.fsm.state \notin {"ACTIVE", "IDLE"}
      BY <2>2, <3>2, FsmConnected
    <3> QED
      BY <3>1, <3>2
  <2>4. Accept(x, outcome) = w
    BY <1>2, <2>1 DEF Accept, Disconnected, y
  <2> HIDE DEF g
  <2>5. ~x.stream /\ x.fsm.passive
    BY <1>2 DEF Sided
  <2>6. Connects(x, w, g)
    <3>1. y \in Session /\ g \in Fsm /\ ~y.stream
      BY <2>1, <2>3, <2>5 DEF Disconnected, Kin, Moved
    <3>2. /\ z \in Session /\ z.kind = y.kind /\ z.probed = y.probed /\ z.fsm = g
          /\ z.pstream = y.pstream /\ z.begun = y.begun /\ z.stream = y.stream
      BY <3>1 DEF Session
    <3> HIDE DEF z
    <3>3. /\ w \in Session /\ w.kind = z.kind /\ w.probed = z.probed /\ w.fsm = z.fsm
          /\ w.pstream = z.pstream /\ w.begun = z.begun /\ w.stream = z.stream
          /\ w.rpc # 0
      BY <3>2, NewConnectionIs DEF Opened
    <3> QED
      BY <2>1, <3>1, <3>2, <3>3, Zenon DEF Connects, Disconnected, Kin
  <2> HIDE DEF w
  <2> QED
    BY <1>2, <2>3, <2>4, <2>5, <2>6 DEF Connects, Kin, Moved, Consistent, Sided, Tries, Probed
<1>3. CASE x.pstream /\ outcome = "error"
  <2> DEFINE g == reconnect_listen_error(x.fsm, now)
             w == [x EXCEPT !.fsm = g, !.pstream = FALSE]
  <2>1. Accept(x, outcome) = w
    BY <1>3 DEF Accept
  <2>2. x.fsm \in Fsm
    BY DEF Session
  <2>3. CASE x.fsm.state = "LISTENING"
    <3>1. Ended(x.fsm, g)
      BY <2>2, <2>3, FsmEnds DEF reconnect_listen_error
    <3> HIDE DEF g
    <3>2. /\ w \in Session /\ w.fsm = g /\ w.rpc = x.rpc /\ w.kind = x.kind /\ ~w.pstream
          /\ w.stream <=> x.stream
      BY <3>1, Zenon DEF Session, Ended
    <3> HIDE DEF w
    <3>3. x.kind = "passive" /\ x.fsm.passive /\ x.fsm.max_tries = Forever
      BY <1>3 DEF Sided, Tries
    <3>4. g.state = "BACKOFF" /\ g.max_tries = Forever /\ g.passive
      BY <3>1, <3>3, ReconnectAssumption DEF Ended, TriesLeft
    <3> QED
      BY <2>1, <2>3, <3>2, <3>3, <3>4 DEF Consistent, Sided, Tries, Probed
  <2>4. CASE x.fsm.state # "LISTENING"
    <3>1. g = x.fsm
      BY <2>4 DEF reconnect_listen_error
    <3> HIDE DEF g
    <3>2. /\ w \in Session /\ w.fsm = x.fsm /\ w.rpc = x.rpc /\ w.kind = x.kind /\ ~w.pstream
          /\ w.stream <=> x.stream
      BY <2>2, <3>1, Zenon DEF Session
    <3> HIDE DEF w
    <3>3. x.kind = "passive" /\ x.fsm.passive /\ ~x.stream
      BY <1>3 DEF Sided
    <3>4. x.fsm.state \in {"VOID", "BACKOFF", "CONNECTING", "ACTIVE", "IDLE", "RECONNECT"}
      BY <2>2, <2>4 DEF Fsm, State
    <3> QED
      BY <2>1, <3>2, <3>3, <3>4 DEF Consistent, Sided, Tries, Probed
  <2> QED
    BY <2>3, <2>4
<1> QED
  BY <1>1, <1>2, <1>3 DEF Outcome
\* y is x with the FSM g.
With(x, y, g) == Kin(x, y) /\ y.fsm = g /\ y.rpc = x.rpc /\ (y.stream <=> x.stream)

LEMMA WithFsm ==
    ASSUME NEW x \in Session, NEW g \in Fsm
    PROVE  With(x, [x EXCEPT !.fsm = g], g)
<1> DEFINE y == [x EXCEPT !.fsm = g]
<1>1. /\ y \in Session /\ y.kind = x.kind /\ y.probed = x.probed /\ y.fsm = g /\ y.rpc = x.rpc
      /\ y.pstream = x.pstream /\ y.begun = x.begun /\ y.stream = x.stream
  BY DEF Session
<1> QED
  BY <1>1, Zenon DEF With, Kin

\* The end of a connection or of an attempt leaves a good session, if the FSM is
\* told of it.
LEMMA EndGood ==
    ASSUME NEW x, Good(x), NEW y \in Session, y.kind = x.kind, y.pstream <=> x.pstream,
           y.rpc = 0, ~y.stream, Ended(x.fsm, y.fsm),
           x.kind = "once" => x.fsm.max_tries = 1 /\ y.begun
    PROVE  Good(y)
<1>1. x.kind \in {"active", "passive", "once", "unreliable"}
  BY SessionAssumption, Zenon DEF Good, Session
<1>2. x.fsm.passive <=> y.fsm.passive
  BY DEF Ended
<1>3. Sided(y) /\ Probed(y)
  <2>1. y.fsm.state \in {"BACKOFF", "VOID"}
    BY DEF Ended
  <2> QED
    BY <1>2, <2>1 DEF Good, Sided, Probed
<1>4. CASE x.kind \in {"active", "passive"}
  <2>1. y.fsm.state = "BACKOFF" /\ y.fsm.max_tries = Forever
    BY <1>4, ReconnectAssumption DEF Good, Tries, Ended, TriesLeft
  <2> QED
    BY <1>3, <1>4, <2>1 DEF Good, Consistent, Tries
<1>5. CASE x.kind = "unreliable"
  <2>1. y.fsm.state = "VOID" /\ y.fsm.max_tries = 0
    BY <1>5, ReconnectAssumption DEF Good, Tries, Ended, TriesLeft
  <2>2. ~y.fsm.passive
    BY <1>2, <1>5 DEF Good, Sided
  <2> QED
    BY <1>3, <1>5, <2>1, <2>2 DEF Good, Consistent, Tries
<1>6. CASE x.kind = "once"
  <2>1. ~x.fsm.passive /\ x.fsm.min_backoff = Forever /\ x.fsm.max_backoff = Forever
    BY <1>6 DEF Good, Sided, Tries
  <2>2. y.fsm.state = "BACKOFF" /\ y.fsm.max_tries = 0 /\ y.fsm.backoff = Forever
    BY <1>6, <2>1, ReconnectAssumption DEF Ended, TriesLeft
  <2>3. y.fsm.min_backoff = Forever /\ y.fsm.max_backoff = Forever
    BY <2>1 DEF Ended
  <2>4. y.fsm.backoff >= Forever
    BY <2>2, ReconnectAssumption
  <2> QED
    BY <1>2, <1>3, <1>6, <2>1, <2>2, <2>3, <2>4 DEF Good, Consistent, Tries
<1> QED
  BY <1>1, <1>4, <1>5, <1>6

\* A new connection that the FSM is told of leaves a good session.
LEMMA ConnectedGood ==
    ASSUME NEW x, Good(x), NEW y, Connects(x, y, y.fsm), Moved(x.fsm, y.fsm, "ACTIVE"),
           x.kind # "once" \/ x.fsm.state # "BACKOFF"
    PROVE  Good(y)
BY DEF Good, Connects, Kin, Moved, Consistent, Sided, Tries, Probed

LEMMA RunRpcGood ==
    ASSUME NEW x, Good(x), x.rpc # 0, NEW sent \in BOOLEAN, NEW outcome \in Outcome, now \in Nat
    PROVE  Good(RunRpc(x, sent, outcome))
<1> DEFINE f == IF sent THEN reconnect_activity(x.fsm, now) ELSE x.fsm
           state == IF sent THEN "ACTIVE" ELSE x.fsm.state
<1>1. x \in Session /\ x.fsm \in Fsm /\ x.fsm.state \in {"ACTIVE", "IDLE", "RECONNECT"}
  BY DEF Good, Consistent, Session
<1>2. Moved(x.fsm, f, state)
  BY <1>1, FsmActivity, FsmStays
<1>3. state \in {"ACTIVE", "IDLE", "RECONNECT"} /\ (state # "ACTIVE" => state = x.fsm.state)
  BY <1>1
<1>4. f \in Fsm /\ f.state \notin {"BACKOFF", "VOID"}
  BY <1>2, <1>3 DEF Moved
<1>5. CASE outcome = "error"
  <2> DEFINE g == reconnect_disconnected(f, now)
             z == [x EXCEPT !.fsm = g]
             w == jsonrpc_session_disconnect(z)
  <2>1. RunRpc(x, sent, outcome) = w
    BY <1>5 DEF RunRpc
  <2> HIDE DEF f, state
  <2>2. Ended(f, g)
    BY <1>4, FsmEnds
  <2> HIDE DEF g
  <2>3. Ended(x.fsm, g)
    <3>1. TriesLeft(f) = TriesLeft(x.fsm)
      BY <1>2 DEF Moved, TriesLeft
    <3> QED
      BY <1>2, <2>2, <3>1 DEF Ended, Moved
  <2>4. With(x, z, g)
    BY <1>1, <2>2, WithFsm DEF Ended
  <2> HIDE DEF z
  <2>5. Disconnected(z, w)
    BY <2>4, DisconnectIs DEF With, Kin
  <2> HIDE DEF w
  <2>6. ~x.stream
    BY DEF Good, Consistent
  <2>7. /\ w \in Session /\ w.kind = x.kind /\ (w.pstream <=> x.pstream)
        /\ w.rpc = 0 /\ ~w.stream /\ Ended(x.fsm, w.fsm) /\ (w.begun <=> x.begun)
    BY <2>3, <2>4, <2>5, <2>6 DEF With, Disconnected, Kin
  <2>8. x.kind = "once" => x.fsm.max_tries = 1 /\ x.begun
    BY <1>1 DEF Good, Tries
  <2> QED
    BY <2>1, <2>7, <2>8, EndGood
<1>6. CASE outcome # "error"
  <2> DEFINE z == [x EXCEPT !.fsm = f]
  <2>1. RunRpc(x, sent, outcome) = z
    BY <1>6 DEF RunRpc
  <2> HIDE DEF f, state
  <2>2. With(x, z, f)
    BY <1>1, <1>4, WithFsm
  <2> HIDE DEF z
  <2> QED
    BY <1>1, <1>2, <1>3, <2>1, <2>2 DEF Good, With, Kin, Moved, Consistent, Sided, Tries, Probed
<1> QED
  BY <1>5, <1>6
LEMMA RunStreamGood ==
    ASSUME NEW x, Good(x), x.rpc = 0, x.stream, NEW outcome \in Outcome, now \in Nat
    PROVE  Good(RunStream(x, outcome))
<1>1. /\ x \in Session /\ x.fsm \in Fsm /\ x.fsm.state \in {"CONNECTING", "RECONNECT"}
      /\ x.kind = "once" => x.fsm.max_tries = 1 /\ x.begun
  BY DEF Good, Consistent, Tries, Session
<1>2. CASE outcome = "EAGAIN"
  BY <1>2 DEF RunStream
<1>3. CASE outcome = "ok"
  <2> DEFINE g == reconnect_connected(x.fsm, now)
             z == [x EXCEPT !.fsm = g, !.stream = FALSE]
             w == NewConnection(z)
  <2>1. RunStream(x, outcome) = w
    BY <1>3 DEF RunStream
  <2>2. Moved(x.fsm, g, "ACTIVE")
    BY <1>1, FsmConnected
  <2> HIDE DEF g
  <2>3. /\ z \in Session /\ z.kind = x.kind /\ z.probed = x.probed /\ z.fsm = g
        /\ z.pstream = x.pstream /\ z.begun = x.begun /\ ~z.stream
    BY <1>1, <2>2, Zenon DEF Session, Moved
  <2> HIDE DEF z
  <2>4. Opened(z, w)
    BY <2>3, NewConnectionIs
  <2> HIDE DEF w
  <2>5. Connects(x, w, w.fsm) /\ w.fsm = g
    BY <2>3, <2>4 DEF Opened, Connects, Kin
  <2> QED
    BY <1>1, <2>1, <2>2, <2>5, ConnectedGood
<1>4. CASE outcome = "error"
  <2> DEFINE g == reconnect_connect_failed(x.fsm, now)
             z == [x EXCEPT !.fsm = g, !.stream = FALSE]
  <2>1. RunStream(x, outcome) = z
    BY <1>4 DEF RunStream
  <2>2. Ended(x.fsm, g)
    BY <1>1, FsmFails
  <2> HIDE DEF g
  <2>3. /\ z \in Session /\ z.kind = x.kind /\ z.fsm = g /\ z.rpc = x.rpc
        /\ z.pstream = x.pstream /\ z.begun = x.begun /\ ~z.stream
    BY <1>1, <2>2, Zenon DEF Session, Ended
  <2> HIDE DEF z
  <2> QED
    BY <1>1, <2>1, <2>2, <2>3, EndGood
<1> QED
  BY <1>2, <1>3, <1>4 DEF Outcome

LEMMA RunStreamsGood ==
    ASSUME NEW x, Good(x), NEW sent \in BOOLEAN, NEW outcome \in Outcome, now \in Nat
    PROVE  Good(RunStreams(x, sent, outcome))
BY RunRpcGood, RunStreamGood DEF RunStreams

\* What jsonrpc_session_connect() made of the attempt, y, when it returns.
Attempted(x, y, z) ==
    /\ z \in Session /\ z.kind = y.kind /\ z.probed = y.probed /\ z.fsm = y.fsm
    /\ z.rpc = y.rpc /\ z.stream = y.stream /\ z.pstream = y.pstream
    /\ z.begun <=> y.begun \/ ~x.fsm.passive

LEMMA AttemptedIs ==
    ASSUME NEW x \in Session, NEW y \in Session
    PROVE  Attempted(x, y, [y EXCEPT !.seqno = @ + 1, !.begun = @ \/ ~x.fsm.passive])
<1>1. PICK n \in Nat : n = y.seqno + 1
  BY DEF Session
<1>2. PICK b \in BOOLEAN : b = (y.begun \/ ~x.fsm.passive)
  BY Zenon
<1> DEFINE z == [y EXCEPT !.seqno = n, !.begun = b]
<1>3. z = [y EXCEPT !.seqno = @ + 1, !.begun = @ \/ ~x.fsm.passive]
  BY <1>1, <1>2, Zenon
<1>4. /\ z \in Session /\ z.kind = y.kind /\ z.probed = y.probed /\ z.fsm = y.fsm
      /\ z.rpc = y.rpc /\ z.stream = y.stream /\ z.pstream = y.pstream /\ z.begun = b
  BY Zenon DEF Session
<1> HIDE DEF z
<1> QED
  BY <1>2, <1>3, <1>4, Zenon DEF Attempted

\* A session that connects has neither a connection nor an attempt; without retry
\* it has its one try.
LEMMA ConnectGood ==
    ASSUME NEW x, Good(x), x.fsm.state = "BACKOFF", x.kind = "once" => x.fsm.max_tries = 1,
           NEW outcome \in Outcome, now \in Nat
    PROVE  Good(jsonrpc_session_connect(x, outcome))
<1> DEFINE y == jsonrpc_session_disconnect(x)
           failed == [y EXCEPT !.fsm = reconnect_connect_failed(y.fsm, now)]
           listens == [y EXCEPT !.pstream = TRUE, !.fsm = reconnect_listening(y.fsm, now)]
           tries == [y EXCEPT !.stream = TRUE, !.fsm = reconnect_connecting(y.fsm, now)]
           After(o) == [o EXCEPT !.seqno = @ + 1, !.begun = @ \/ ~x.fsm.passive]
<1>1. x \in Session /\ x.fsm \in Fsm /\ x.rpc = 0 /\ ~x.stream
  BY DEF Good, Consistent, Session
<1>2. Disconnected(x, y)
  BY <1>1, DisconnectIs
<1>3. \/ jsonrpc_session_connect(x, outcome) = After(failed)
      \/ x.fsm.passive /\ jsonrpc_session_connect(x, outcome) = After(listens)
      \/ ~x.fsm.passive /\ jsonrpc_session_connect(x, outcome) = After(tries)
  BY Zenon DEF jsonrpc_session_connect
<1> HIDE DEF y
<1>4. y \in Session /\ y.fsm = x.fsm /\ ~y.stream /\ y.rpc = 0 /\ y.kind = x.kind
  BY <1>1, <1>2 DEF Disconnected, Kin
<1>5. Good(After(failed))
  <2> DEFINE g == reconnect_connect_failed(y.fsm, now)
             w == After(failed)
  <2>1. Ended(x.fsm, g)
    BY <1>1, <1>4, FsmFails
  <2>2. With(y, failed, g)
    BY <1>4, <2>1, WithFsm DEF Ended
  <2>3. failed \in Session
    BY <2>2 DEF With, Kin
  <2> HIDE DEF g, failed
  <2>4. Attempted(x, failed, w)
    BY <1>1, <2>3, AttemptedIs, Zenon
  <2> HIDE DEF w
  <2>5. /\ w \in Session /\ w.kind = x.kind /\ (w.pstream <=> x.pstream)
        /\ w.rpc = 0 /\ ~w.stream /\ w.fsm = g /\ (~x.fsm.passive => w.begun)
    BY <1>2, <1>4, <2>2, <2>4 DEF Attempted, With, Kin, Disconnected
  <2>6. x.kind = "once" => ~x.fsm.passive
    BY DEF Good, Sided
  <2> QED
    BY <2>1, <2>5, <2>6, EndGood, Zenon DEF w
<1>6. ASSUME x.fsm.passive PROVE Good(After(listens))
  <2> DEFINE g == reconnect_listening(y.fsm, now)
             w == After(listens)
  <2>1. Moved(x.fsm, g, "LISTENING")
    BY <1>1, <1>4, FsmListening
  <2> HIDE DEF g
  <2>2. /\ listens \in Session /\ listens.fsm = g /\ listens.kind = y.kind /\ listens.rpc = y.rpc
        /\ listens.stream = y.stream /\ listens.begun = y.begun /\ listens.pstream
    BY <1>4, <2>1, Zenon DEF Session, Moved, g
  <2> HIDE DEF listens
  <2>3. Attempted(x, listens, w)
    BY <1>1, <2>2, AttemptedIs, Zenon
  <2> HIDE DEF w
  <2>4. /\ w \in Session /\ w.kind = x.kind /\ w.pstream
        /\ w.rpc = 0 /\ ~w.stream /\ w.fsm = g
    BY <1>4, <2>2, <2>3 DEF Attempted
  <2>5. x.kind = "passive"
    BY <1>6 DEF Good, Sided
  <2>6. Good(w)
    BY <1>6, <2>1, <2>4, <2>5 DEF Good, Moved, Consistent, Sided, Tries, Probed
  <2> QED
    BY <2>6 DEF w
<1>7. ASSUME ~x.fsm.passive PROVE Good(After(tries))
  <2> DEFINE g == reconnect_connecting(y.fsm, now)
             w == After(tries)
  <2>1. Moved(x.fsm, g, "CONNECTING")
    BY <1>1, <1>4, FsmConnecting
  <2> HIDE DEF g
  <2>2. /\ tries \in Session /\ tries.fsm = g /\ tries.kind = y.kind /\ tries.rpc = y.rpc
        /\ tries.pstream = y.pstream /\ tries.begun = y.begun /\ tries.stream
    BY <1>4, <2>1, Zenon DEF Session, Moved, g
  <2> HIDE DEF tries
  <2>3. Attempted(x, tries, w)
    BY <1>1, <2>2, AttemptedIs, Zenon
  <2> HIDE DEF w
  <2>4. /\ w \in Session /\ w.kind = x.kind /\ (w.pstream <=> x.pstream)
        /\ w.rpc = 0 /\ w.stream /\ w.fsm = g /\ w.begun
    BY <1>2, <1>4, <1>7, <2>2, <2>3 DEF Attempted, Disconnected, Kin
  <2>5. Good(w)
    BY <1>7, <2>1, <2>4 DEF Good, Moved, Consistent, Sided, Tries, Probed
  <2> QED
    BY <2>5 DEF w
<1> QED
  BY <1>3, <1>5, <1>6, <1>7
LEMMA RunSays ==
    ASSUME NEW f \in Fsm, now \in 0 .. MaxTime
    PROVE  \/ reconnect_run(f, now) = "NOTHING"
           \/ reconnect_run(f, now) = "CONNECT" /\ f.state = "BACKOFF" /\ f.backoff < Forever
           \/ reconnect_run(f, now) = "PROBE" /\ f.state = "ACTIVE"
           \/ reconnect_run(f, now) = "DISCONNECT" /\ f.state \in {"CONNECTING", "IDLE", "RECONNECT"}
<1>1. f.state \in State /\ f.state_entered \in Nat /\ f.backoff \in Nat
  BY DEF Fsm
<1>2. MaxTime \in Nat /\ MaxTime < Forever /\ Forever \in Nat
  BY SessionAssumption, ReconnectAssumption
<1>3. CASE now < reconnect_deadline__(f)
  BY <1>3 DEF reconnect_run
<1>4. CASE ~(now < reconnect_deadline__(f)) /\ f.state = "BACKOFF"
  <2>1. reconnect_run(f, now) = "CONNECT"
    BY <1>4 DEF reconnect_run
  <2>2. reconnect_deadline__(f) = f.state_entered + f.backoff
    BY <1>4 DEF reconnect_deadline__
  <2> QED
    BY <1>1, <1>2, <1>4, <2>1, <2>2
<1>5. CASE ~(now < reconnect_deadline__(f)) /\ f.state # "BACKOFF"
  BY <1>1, <1>5 DEF reconnect_run, State
<1> QED
  BY <1>3, <1>4, <1>5

LEMMA RunReconnectGood ==
    ASSUME NEW x, Good(x), NEW outcome \in Outcome, now \in 0 .. MaxTime
    PROVE  Good(RunReconnect(x, outcome))
<1> DEFINE action == reconnect_run(x.fsm, now)
           y == [x EXCEPT !.fsm = AfterRun(x.fsm, now)]
<1>1. x \in Session /\ x.fsm \in Fsm /\ now \in Nat
  BY SessionAssumption DEF Good, Session
<1>2. action # "PROBE" => y = x
  <2>1. action # "PROBE" => AfterRun(x.fsm, now) = x.fsm
    BY DEF AfterRun
  <2> QED
    BY <1>1, <2>1 DEF Session
<1>3. CASE action = "NOTHING"
  BY <1>2, <1>3 DEF RunReconnect
<1>4. CASE action = "CONNECT" /\ x.fsm.state = "BACKOFF" /\ x.fsm.backoff < Forever
  <2>1. RunReconnect(x, outcome) = jsonrpc_session_connect(x, outcome)
    BY <1>2, <1>4 DEF RunReconnect
  <2>2. x.kind = "once" => x.fsm.max_tries = 1
    <3>1. x.fsm.backoff \in Nat /\ Forever \in Nat
      BY <1>1, ReconnectAssumption DEF Fsm
    <3> QED
      BY <1>4, <3>1 DEF Good, Tries
  <2> QED
    BY <1>1, <1>4, <2>1, <2>2, ConnectGood
<1>5. CASE action = "PROBE" /\ x.fsm.state = "ACTIVE"
  <2> DEFINE g == reconnect_transition__(x.fsm, now, "IDLE")
             z == [x EXCEPT !.fsm = g]
             w == [z EXCEPT !.probed = z.rpc]
  <2>1. RunReconnect(x, outcome) = w
    BY <1>5 DEF RunReconnect, AfterRun
  <2>2. Moved(x.fsm, g, "IDLE")
    BY <1>1, FsmMoves DEF State
  <2> HIDE DEF g
  <2>3. With(x, z, g)
    BY <1>1, <2>2, WithFsm DEF Moved
  <2> HIDE DEF z
  <2>4. /\ w \in Session /\ w.kind = z.kind /\ w.fsm = z.fsm /\ w.rpc = z.rpc /\ w.probed = z.rpc
        /\ w.stream = z.stream /\ w.pstream = z.pstream /\ w.begun = z.begun
    BY <2>3 DEF With, Kin, Session
  <2> HIDE DEF w
  <2> QED
    BY <1>5, <2>1, <2>2, <2>3, <2>4 DEF Good, With, Kin, Moved, Consistent, Sided, Tries, Probed
<1>6. CASE action = "DISCONNECT" /\ x.fsm.state \in {"CONNECTING", "IDLE", "RECONNECT"}
  <2> DEFINE g == reconnect_disconnected(x.fsm, now)
             z == [x EXCEPT !.fsm = g]
             w == jsonrpc_session_disconnect(z)
  <2>1. RunReconnect(x, outcome) = w
    BY <1>2, <1>6, Zenon DEF RunReconnect
  <2>2. Ended(x.fsm, g)
    BY <1>1, <1>6, FsmEnds
  <2> HIDE DEF g
  <2>3. With(x, z, g)
    BY <1>1, <2>2, WithFsm DEF Ended
  <2> HIDE DEF z
  <2>4. Disconnected(z, w)
    BY <2>3, DisconnectIs DEF With, Kin
  <2> HIDE DEF w
  <2>5. x.rpc = 0 \/ ~x.stream
    BY DEF Good, Consistent
  <2>6. /\ w \in Session /\ w.kind = x.kind /\ (w.pstream <=> x.pstream)
        /\ w.rpc = 0 /\ ~w.stream /\ Ended(x.fsm, w.fsm) /\ (w.begun <=> x.begun)
    BY <2>2, <2>3, <2>4, <2>5 DEF With, Disconnected, Kin
  <2>7. x.kind = "once" => x.fsm.max_tries = 1 /\ x.begun
    BY <1>6 DEF Good, Tries
  <2> QED
    BY <2>1, <2>6, <2>7, EndGood
<1> QED
  BY <1>1, <1>3, <1>4, <1>5, <1>6, RunSays

LEMMA SetBackoffKeeps ==
    ASSUME NEW f \in Fsm, NEW min \in Nat, NEW max \in Nat
    PROVE  LET g == reconnect_set_backoff(f, min, max)
           IN  /\ g \in Fsm /\ g.state = f.state /\ g.passive = f.passive
               /\ g.max_tries = f.max_tries
<1>1. \A a, b \in Nat : larger(a, b) \in Nat
  BY DEF larger
<1>2. PICK a \in Nat : a = larger(min, 1)
  BY <1>1
<1>3. PICK c \in Nat : c = IF max # 0 THEN larger(max, 1) ELSE RECONNECT_DEFAULT_MAX_BACKOFF
  BY <1>1, ReconnectAssumption
<1>4. PICK b \in Nat : b = larger(a, c)
  BY <1>1
<1>5. PICK d \in Nat : d = IF f.state = "BACKOFF" /\ f.backoff > max THEN max ELSE f.backoff
  BY DEF Fsm
<1>6. reconnect_set_backoff(f, min, max) =
        [f EXCEPT !.min_backoff = a, !.max_backoff = b, !.backoff = d]
  BY <1>2, <1>3, <1>4, <1>5 DEF reconnect_set_backoff
<1> QED
  BY <1>6, Zenon DEF Fsm

--------------------------------------------------------------------------------
LEMMA InitGood == Init => GoodSession
<1> SUFFICES ASSUME Init PROVE GoodSession
  OBVIOUS
<1> USE ReconnectAssumption
<1>1. PICK kind \in Kinds, probe \in Nat : s = jsonrpc_session_open(kind, probe)
  BY DEF Init
<1> DEFINE c == reconnect_create(0)
           e == reconnect_enable(c, 0)
           f == reconnect_set_probe_interval(e, probe)
<1>2. /\ c \in Fsm /\ c.state = "VOID" /\ c.max_tries = Forever /\ ~c.passive /\ c.backoff = 0
  BY DEF reconnect_create, Fsm, State
<1>3. /\ e \in Fsm /\ e.state = "BACKOFF" /\ e.max_tries = Forever /\ ~e.passive /\ e.backoff = 0
  <2>1. TryAgain(c) /\ TriesLeft(c) = Forever
    BY <1>2 DEF TryAgain, TriesLeft
  <2>2. e = BackOffNow([c EXCEPT !.max_tries = Forever], 0)
    BY <1>2, <2>1 DEF reconnect_enable
  <2> HIDE DEF c, e
  <2> QED
    BY <1>2, <2>2, Zenon DEF BackOffNow, reconnect_transition__, Fsm, State
<1> HIDE DEF c, e
<1>4. /\ f \in Fsm /\ f.state = "BACKOFF" /\ f.max_tries = Forever /\ ~f.passive /\ f.backoff = 0
  BY <1>3 DEF reconnect_set_probe_interval, Fsm
<1>5. f = reconnect_set_probe_interval(reconnect_enable(reconnect_create(0), 0), probe)
  BY DEF e, c
<1> HIDE DEF f
<1>6. now \in 0 .. MaxTime
  BY SessionAssumption DEF Init
<1>7. /\ s.rpc = (IF kind = "unreliable" THEN 1 ELSE 0) /\ ~s.stream /\ ~s.pstream
      /\ s.kind = kind /\ ~s.begun
  BY <1>1 DEF jsonrpc_session_open
<1>8. s.fsm \in Fsm => s \in Session
  BY <1>1, Zenon DEF jsonrpc_session_open, Session
<1>9. CASE kind = "active"
  <2>1. s.fsm = f
    BY <1>1, <1>5, <1>9 DEF jsonrpc_session_open
  <2> QED
    BY <1>4, <1>6, <1>7, <1>8, <1>9, <2>1
       DEF GoodSession, Good, Consistent, Sided, Tries, Probed
<1>10. CASE kind = "passive"
  <2>1. s.fsm = reconnect_set_passive(f, TRUE, 0)
    BY <1>1, <1>5, <1>10 DEF jsonrpc_session_open
  <2>2. reconnect_set_passive(f, TRUE, 0) = [f EXCEPT !.passive = TRUE]
    BY <1>4 DEF reconnect_set_passive
  <2>3. s.fsm \in Fsm /\ s.fsm.state = "BACKOFF" /\ s.fsm.max_tries = Forever /\ s.fsm.passive
    <3>1. PICK b \in BOOLEAN : b = TRUE
      BY Zenon
    <3>2. s.fsm = [f EXCEPT !.passive = b]
      BY <2>1, <2>2, <3>1, Zenon
    <3>3. s.fsm \in Fsm /\ s.fsm.state = f.state /\ s.fsm.max_tries = f.max_tries /\ s.fsm.passive = b
      BY <1>4, <3>2 DEF Fsm
    <3> QED
      BY <1>4, <3>1, <3>3
  <2> QED
    BY <1>6, <1>7, <1>8, <1>10, <2>3 DEF GoodSession, Good, Consistent, Sided, Tries, Probed
<1>11. CASE kind = "once"
  <2> DEFINE g == reconnect_set_max_tries(f, 1)
  <2>1. s.fsm = reconnect_set_backoff(g, Forever, Forever)
    BY <1>1, <1>5, <1>11 DEF jsonrpc_session_open
  <2>2. g \in Fsm /\ g.state = "BACKOFF" /\ g.max_tries = 1 /\ ~g.passive /\ g.backoff = 0
    BY <1>4 DEF reconnect_set_max_tries, Fsm
  <2> HIDE DEF g
  <2>3. reconnect_set_backoff(g, Forever, Forever) =
          [g EXCEPT !.min_backoff = Forever, !.max_backoff = Forever, !.backoff = 0]
    <3>1. larger(Forever, 1) = Forever /\ larger(Forever, Forever) = Forever /\ Forever # 0
      BY DEF larger
    <3>2. ~(g.backoff > Forever)
      BY <2>2
    <3> QED
      BY <2>2, <3>1, <3>2, Zenon DEF reconnect_set_backoff
  <2>4. /\ s.fsm \in Fsm /\ s.fsm.state = "BACKOFF" /\ s.fsm.max_tries = 1 /\ ~s.fsm.passive
        /\ s.fsm.min_backoff = Forever /\ s.fsm.max_backoff = Forever
    <3>1. PICK n \in Nat : n = Forever
      OBVIOUS
    <3>2. PICK zero \in Nat : zero = 0
      OBVIOUS
    <3>3. s.fsm = [g EXCEPT !.min_backoff = n, !.max_backoff = n, !.backoff = zero]
      BY <2>1, <2>3, <3>1, <3>2
    <3> QED
      BY <2>2, <3>1, <3>3, ZenonT(30) DEF Fsm
  <2> QED
    BY <1>6, <1>7, <1>8, <1>11, <2>4 DEF GoodSession, Good, Consistent, Sided, Tries, Probed
<1>12. CASE kind = "unreliable"
  <2> DEFINE g == reconnect_set_max_tries(reconnect_create(0), 0)
  <2>1. s.fsm = reconnect_connected(g, 0)
    BY <1>1, <1>12 DEF jsonrpc_session_open
  <2>2. g \in Fsm /\ g.state = "VOID" /\ g.max_tries = 0 /\ ~g.passive
    BY <1>2 DEF reconnect_set_max_tries, Fsm, c
  <2> HIDE DEF g
  <2>3. Moved(g, s.fsm, "ACTIVE")
    BY <2>1, <2>2, FsmConnected
  <2>4. s.fsm \in Fsm /\ s.fsm.state = "ACTIVE" /\ s.fsm.max_tries = 0 /\ ~s.fsm.passive
    BY <2>2, <2>3 DEF Moved
  <2> QED
    BY <1>6, <1>7, <1>8, <1>12, <2>4 DEF GoodSession, Good, Consistent, Sided, Tries, Probed
<1> QED
  BY <1>9, <1>10, <1>11, <1>12, SessionAssumption
LEMMA StepGood == GoodSession /\ [Next]_vars => GoodSession'
<1> SUFFICES ASSUME GoodSession, [Next]_vars PROVE GoodSession'
  OBVIOUS
<1> USE DEF GoodSession
<1>0. now \in Nat /\ s \in Session /\ s.fsm \in Fsm
  BY SessionAssumption DEF Good, Session
<1>1. CASE Tick
  BY <1>0, <1>1, SessionAssumption DEF Tick
<1>2. CASE jsonrpc_session_run
  <2>1. PICK accept \in Outcome, stream \in Outcome, open \in Outcome, sent \in BOOLEAN :
          s' = RunReconnect(RunStreams(Accept(s, accept),
                                       sent /\ Accept(s, accept).rpc = s.rpc, stream), open)
    BY <1>2 DEF jsonrpc_session_run
  <2>2. PICK b \in BOOLEAN : b = (sent /\ Accept(s, accept).rpc = s.rpc)
    BY Zenon
  <2>3. Good(Accept(s, accept))
    BY <1>0, AcceptGood
  <2>4. Good(RunStreams(Accept(s, accept), b, stream))
    BY <1>0, <2>3, RunStreamsGood
  <2>5. Good(s')
    BY <2>1, <2>2, <2>4, RunReconnectGood
  <2> QED
    BY <1>2, <2>5 DEF jsonrpc_session_run
<1>3. CASE jsonrpc_session_recv
  <2> DEFINE g == reconnect_activity(s.fsm, now)
  <2>1. Moved(s.fsm, g, "ACTIVE")
    BY <1>0, FsmActivity
  <2>2. s' = [s EXCEPT !.fsm = g] /\ s.rpc # 0 /\ now' = now
    BY <1>3 DEF jsonrpc_session_recv
  <2> HIDE DEF g
  <2>3. With(s, s', g)
    BY <1>0, <2>1, <2>2, WithFsm DEF Moved
  <2> QED
    BY <2>1, <2>2, <2>3 DEF Good, With, Kin, Moved, Consistent, Sided, Tries, Probed
<1>4. CASE jsonrpc_session_force_reconnect
  <2> DEFINE g == reconnect_force_reconnect(s.fsm, now)
  <2>1. \/ s.fsm.state \in {"CONNECTING", "ACTIVE", "IDLE"} /\ Moved(s.fsm, g, "RECONNECT")
        \/ g = s.fsm
    BY <1>0, FsmMoves DEF reconnect_force_reconnect, State
  <2>2. s' = [s EXCEPT !.fsm = g] /\ now' = now
    BY <1>4 DEF jsonrpc_session_force_reconnect
  <2> HIDE DEF g
  <2>3. g \in Fsm
    BY <1>0, <2>1 DEF Moved
  <2>4. With(s, s', g)
    BY <1>0, <2>2, <2>3, WithFsm
  <2>5. CASE g = s.fsm
    BY <2>2, <2>4, <2>5 DEF Good, With, Kin, Consistent, Sided, Tries, Probed
  <2>6. CASE s.fsm.state \in {"CONNECTING", "ACTIVE", "IDLE"} /\ Moved(s.fsm, g, "RECONNECT")
    BY <2>2, <2>4, <2>6 DEF Good, With, Kin, Moved, Consistent, Sided, Tries, Probed
  <2> QED
    BY <2>1, <2>5, <2>6
<1>5. ASSUME NEW max \in Backoffs, jsonrpc_session_set_max_backoff(max) PROVE GoodSession'
  <2> DEFINE g == reconnect_set_backoff(s.fsm, 0, max)
  <2>1. /\ g \in Fsm /\ g.state = s.fsm.state /\ g.passive = s.fsm.passive
        /\ g.max_tries = s.fsm.max_tries
    <3>1. 0 \in Nat /\ max \in Nat
      BY SessionAssumption
    <3> QED
      BY <1>0, <3>1, SetBackoffKeeps, Zenon
  <2>2. s' = [s EXCEPT !.fsm = g] /\ s.kind # "once" /\ now' = now
    BY <1>5 DEF jsonrpc_session_set_max_backoff
  <2> HIDE DEF g
  <2>3. With(s, s', g)
    BY <1>0, <2>1, <2>2, WithFsm
  <2> QED
    BY <2>1, <2>2, <2>3 DEF Good, With, Kin, Consistent, Sided, Tries, Probed
<1>6. ASSUME NEW interval \in Probes, jsonrpc_session_set_probe_interval(interval) PROVE GoodSession'
  <2> DEFINE g == reconnect_set_probe_interval(s.fsm, interval)
  <2>1. Moved(s.fsm, g, s.fsm.state)
    <3>1. interval \in Nat
      BY SessionAssumption
    <3> QED
      BY <1>0, <3>1 DEF reconnect_set_probe_interval, Moved, Fsm
  <2>2. s' = [s EXCEPT !.fsm = g] /\ now' = now
    BY <1>6 DEF jsonrpc_session_set_probe_interval
  <2> HIDE DEF g
  <2>3. With(s, s', g)
    BY <1>0, <2>1, <2>2, WithFsm DEF Moved
  <2> QED
    BY <2>1, <2>2, <2>3 DEF Good, With, Kin, Moved, Consistent, Sided, Tries, Probed
<1>7. CASE UNCHANGED vars
  BY <1>7 DEF vars
<1> QED
  BY <1>1, <1>2, <1>3, <1>4, <1>5, <1>6, <1>7 DEF Next

\* Every session reached by the calls of its client and the fate of its streams is
\* good.
THEOREM SessionsStayGood == Spec => []GoodSession
<1> QED
  BY InitGood, StepGood, PTL DEF Spec

\* The types of struct jsonrpc_session and struct reconnect: backoffs and tries
\* never become negative, and the FSM is always in one of its states.
THEOREM TypeCorrect == Spec => []TypeOK
<1>1. GoodSession => TypeOK
  BY DEF GoodSession, Good, TypeOK
<1> QED
  BY <1>1, SessionsStayGood, PTL

\* The FSM and the streams of the session agree after every call, though
\* jsonrpc_session_run() may accept, lose and begin a connection in one call.
THEOREM AlwaysConsistent == Spec => []SessionConsistent
<1>1. GoodSession => SessionConsistent
  BY DEF GoodSession, Good, Consistent, SessionConsistent
<1> QED
  BY <1>1, SessionsStayGood, PTL

\* reconnect_run() lets no connection of an active session go for being idle
\* unless an echo request has been sent on this very connection.
THEOREM DropsAreProbed == Spec => []ProbedBeforeDrop
<1>1. GoodSession => ProbedBeforeDrop
  BY DEF GoodSession, Good, Probed, ProbedBeforeDrop
<1> QED
  BY <1>1, SessionsStayGood, PTL

\* jsonrpc_session_is_alive() says exactly what jsonrpc_session_open() promises:
\* a session with retry never dies, one without dies at its first failure.
THEOREM AlwaysAliveAsPromised == Spec => []AliveAsPromised
<1>1. ASSUME GoodSession PROVE AliveAsPromised
  <2> USE <1>1, ReconnectAssumption
  <2>1. s.kind \in {"active", "passive", "once", "unreliable"}
    BY SessionAssumption, Zenon DEF GoodSession, Good, Session
  <2>2. CASE s.kind \in {"active", "passive"}
    <3>1. s.fsm.max_tries > 0
      BY <2>2 DEF GoodSession, Good, Tries
    <3> QED
      BY <2>2, <3>1 DEF AliveAsPromised, jsonrpc_session_is_alive
  <2>3. CASE s.kind = "unreliable"
    <3>1. ~(s.fsm.max_tries > 0)
      BY <2>3 DEF GoodSession, Good, Tries
    <3> QED
      BY <2>3, <3>1 DEF AliveAsPromised, jsonrpc_session_is_alive
  <2>4. CASE s.kind = "once" /\ s.fsm.state = "BACKOFF"
    <3>1. s.rpc = 0 /\ ~s.stream
      BY <2>4 DEF GoodSession, Good, Consistent
    <3>2. s.fsm.max_tries = IF s.begun THEN 0 ELSE 1
      BY <2>4 DEF GoodSession, Good, Tries
    <3>3. s.fsm.max_tries > 0 <=> ~s.begun
      BY <3>2
    <3> QED
      BY <2>4, <3>1, <3>3 DEF AliveAsPromised, jsonrpc_session_is_alive
  <2>5. CASE s.kind = "once" /\ s.fsm.state # "BACKOFF"
    <3>1. s.rpc # 0 \/ s.stream
      <4>1. s.fsm.state \in State /\ s.fsm.state # "VOID" /\ ~s.fsm.passive /\ ~s.pstream
        BY <2>5 DEF GoodSession, Good, Sided, Tries, Session, Fsm
      <4> QED
        BY <2>5, <4>1 DEF GoodSession, Good, Consistent, State
    <3> QED
      BY <3>1 DEF AliveAsPromised, jsonrpc_session_is_alive
  <2> QED
    BY <2>1, <2>2, <2>3, <2>4, <2>5
<1> QED
  BY <1>1, SessionsStayGood, PTL
--------------------------------------------------------------------------------
\* y is as late as x, and later if x had a connection and y has not the same one.
Later(x, y) ==
    /\ y \in Session /\ y.seqno >= x.seqno
    /\ x.rpc # 0 /\ y.rpc # x.rpc => y.seqno > x.seqno

LEMMA LaterTransitive ==
    ASSUME NEW x \in Session, NEW y, NEW z, Later(x, y), Later(y, z)
    PROVE  Later(x, z)
<1>1. x.seqno \in Nat /\ y.seqno \in Nat /\ z.seqno \in Nat
  BY DEF Later, Session
<1> QED
  BY <1>1 DEF Later

\* A session that has the same connection and number.
LEMMA LaterSame ==
    ASSUME NEW x \in Session, NEW y \in Session, y.seqno = x.seqno, x.rpc # 0 => y.rpc = x.rpc
    PROVE  Later(x, y)
<1>1. x.seqno \in Nat
  BY DEF Session
<1> QED
  BY <1>1 DEF Later

LEMMA LaterFsm ==
    ASSUME NEW x \in Session, NEW g \in Fsm
    PROVE  Later(x, [x EXCEPT !.fsm = g])
<1> DEFINE y == [x EXCEPT !.fsm = g]
<1>1. y \in Session /\ y.seqno = x.seqno /\ y.rpc = x.rpc
  BY DEF Session
<1> HIDE DEF y
<1>2. Later(x, y)
  BY <1>1, LaterSame
<1> QED
  BY <1>2 DEF y

LEMMA LaterDisconnect ==
    ASSUME NEW x \in Session
    PROVE  Later(x, jsonrpc_session_disconnect(x))
<1> DEFINE y == jsonrpc_session_disconnect(x)
<1>1. PICK n \in Nat : n = x.seqno + 1 /\ x.seqno \in Nat
  BY DEF Session
<1>2. y \in Session
  BY DisconnectIs DEF Disconnected, Kin
<1>3. CASE x.rpc # 0 \/ x.stream
  <2>1. y.seqno = n
    BY <1>1, <1>3 DEF jsonrpc_session_disconnect, Session
  <2> HIDE DEF y
  <2>2. Later(x, y)
    BY <1>1, <1>2, <2>1 DEF Later
  <2> QED
    BY <2>2 DEF y
<1>4. CASE x.rpc = 0 /\ ~x.stream
  <2>1. y = x
    BY <1>4 DEF jsonrpc_session_disconnect
  <2> QED
    BY <2>1, LaterSame
<1> QED
  BY <1>3, <1>4

\* A connection is opened only where there is none.
LEMMA LaterNewConnection ==
    ASSUME NEW x \in Session, x.rpc = 0
    PROVE  Later(x, NewConnection(x))
<1> DEFINE y == NewConnection(x)
<1>1. y \in Session
  BY NewConnectionIs DEF Opened
<1>2. y.seqno = x.seqno
  BY DEF NewConnection, Session
<1> HIDE DEF y
<1>3. Later(x, y)
  BY <1>1, <1>2, LaterSame
<1> QED
  BY <1>3 DEF y

LEMMA LaterAccept ==
    ASSUME NEW x, Good(x), NEW outcome \in Outcome, now \in Nat
    PROVE  Later(x, Accept(x, outcome))
<1>1. x \in Session /\ x.fsm \in Fsm
  BY DEF Good, Session
<1>2. Accept(x, outcome) \in Session
  BY AcceptGood DEF Good
<1>3. CASE ~x.pstream \/ outcome = "EAGAIN"
  <2>1. Accept(x, outcome) = x
    BY <1>3 DEF Accept, Outcome
  <2> QED
    BY <1>1, <2>1, LaterSame
<1>4. CASE x.pstream /\ outcome = "ok"
  <2> DEFINE y == jsonrpc_session_disconnect(x)
             g == reconnect_connected(y.fsm, now)
             z == [y EXCEPT !.fsm = g]
  <2>1. Accept(x, outcome) = NewConnection(z)
    BY <1>4 DEF Accept
  <2>2. Later(x, y) /\ y \in Session /\ y.rpc = 0 /\ y.fsm \in Fsm
    BY <1>1, LaterDisconnect, DisconnectIs DEF Disconnected, Kin
  <2> HIDE DEF y
  <2>3. g \in Fsm
    <3>1. CASE y.fsm.state \in {"ACTIVE", "IDLE"}
      BY <2>2, <3>1 DEF reconnect_connected, is_connected_state
    <3>2. CASE y.fsm.state \notin {"ACTIVE", "IDLE"}
      BY <2>2, <3>2, FsmConnected DEF Moved
    <3> QED
      BY <3>1, <3>2
  <2> HIDE DEF g
  <2>4. Later(y, z) /\ z \in Session /\ z.rpc = 0
    BY <2>2, <2>3, LaterFsm, WithFsm DEF With, Kin
  <2> HIDE DEF z
  <2>5. Later(z, NewConnection(z))
    BY <2>4, LaterNewConnection
  <2>6. Later(y, NewConnection(z))
    BY <2>2, <2>4, <2>5, LaterTransitive
  <2> QED
    BY <1>1, <2>1, <2>2, <2>6, LaterTransitive
<1>5. CASE x.pstream /\ outcome = "error"
  <2>1. Accept(x, outcome).seqno = x.seqno /\ Accept(x, outcome).rpc = x.rpc
    BY <1>1, <1>5, Zenon DEF Accept, Session
  <2> QED
    BY <1>1, <1>2, <2>1, LaterSame
<1> QED
  BY <1>3, <1>4, <1>5 DEF Outcome

LEMMA LaterRunStreams ==
    ASSUME NEW x, Good(x), NEW sent \in BOOLEAN, NEW outcome \in Outcome, now \in Nat
    PROVE  Later(x, RunStreams(x, sent, outcome))
<1>1. x \in Session /\ x.fsm \in Fsm
  BY DEF Good, Session
<1>2. RunStreams(x, sent, outcome) \in Session
  BY RunStreamsGood DEF Good
<1>3. CASE x.rpc # 0
  <2> DEFINE f == IF sent THEN reconnect_activity(x.fsm, now) ELSE x.fsm
             g == reconnect_disconnected(f, now)
             z == [x EXCEPT !.fsm = g]
  <2>1. f \in Fsm /\ f.state \in {"ACTIVE", "IDLE", "RECONNECT"}
    <3>1. x.fsm.state \in {"ACTIVE", "IDLE", "RECONNECT"}
      BY <1>3 DEF Good, Consistent
    <3> QED
      BY <1>1, <3>1, FsmActivity DEF Moved
  <2>2. RunStreams(x, sent, outcome) = IF outcome = "error" THEN jsonrpc_session_disconnect(z)
                                       ELSE [x EXCEPT !.fsm = f]
    BY <1>3 DEF RunStreams, RunRpc
  <2> HIDE DEF f
  <2>3. g \in Fsm
    BY <2>1, FsmEnds DEF Ended
  <2> HIDE DEF g
  <2>4. Later(x, z) /\ z \in Session
    BY <1>1, <2>3, LaterFsm DEF Later
  <2> HIDE DEF z
  <2>5. Later(x, jsonrpc_session_disconnect(z))
    BY <1>1, <2>4, LaterDisconnect, LaterTransitive
  <2>6. Later(x, [x EXCEPT !.fsm = f])
    BY <1>1, <2>1, LaterFsm
  <2> QED
    BY <2>2, <2>5, <2>6
<1>4. CASE x.rpc = 0 /\ x.stream
  <2>1. RunStreams(x, sent, outcome).seqno = x.seqno
    BY <1>1, <1>4 DEF RunStreams, RunStream, NewConnection, Session, Outcome
  <2> QED
    BY <1>1, <1>2, <1>4, <2>1, LaterSame
<1>5. CASE x.rpc = 0 /\ ~x.stream
  <2>1. RunStreams(x, sent, outcome) = x
    BY <1>5 DEF RunStreams
  <2> QED
    BY <1>1, <2>1, LaterSame
<1> QED
  BY <1>3, <1>4, <1>5

LEMMA LaterRunReconnect ==
    ASSUME NEW x, Good(x), NEW outcome \in Outcome, now \in 0 .. MaxTime
    PROVE  Later(x, RunReconnect(x, outcome))
<1> DEFINE action == reconnect_run(x.fsm, now)
           w == RunReconnect(x, outcome)
<1>1. x \in Session /\ x.fsm \in Fsm /\ now \in Nat
  BY SessionAssumption DEF Good, Session
<1>2. w \in Session
  BY RunReconnectGood DEF Good
<1>3. action # "PROBE" => [x EXCEPT !.fsm = AfterRun(x.fsm, now)] = x
  <2>1. action # "PROBE" => AfterRun(x.fsm, now) = x.fsm
    BY DEF AfterRun
  <2> QED
    BY <1>1, <2>1 DEF Session
<1>4. CASE action = "NOTHING"
  <2>1. w = x
    BY <1>3, <1>4 DEF RunReconnect
  <2> QED
    BY <1>1, <2>1, LaterSame
<1>5. CASE action = "CONNECT" /\ x.fsm.state = "BACKOFF"
  <2> DEFINE y == jsonrpc_session_disconnect(x)
  <2>1. w = jsonrpc_session_connect(x, outcome)
    BY <1>3, <1>5 DEF RunReconnect
  <2>2. x.rpc = 0
    BY <1>5 DEF Good, Consistent
  <2>3. Later(x, y) /\ y \in Session
    BY <1>1, LaterDisconnect DEF Later
  <2>4. w.seqno = y.seqno + 1
    <3>1. DOMAIN y = DOMAIN x /\ DOMAIN x = {"fsm", "rpc", "stream", "pstream", "seqno", "kind", "conns", "probed", "begun"}
      BY <1>1, <2>3 DEF Session
    <3> HIDE DEF y
    <3> QED
      BY <2>1, <2>3 DEF jsonrpc_session_connect, Session, y
  <2> HIDE DEF y, w
  <2>5. x.seqno \in Nat /\ y.seqno \in Nat /\ w.seqno \in Nat
    BY <1>1, <1>2, <2>3 DEF Session
  <2>6. Later(x, w)
    BY <1>2, <2>2, <2>3, <2>4, <2>5 DEF Later
  <2> QED
    BY <2>6 DEF w
<1>6. CASE action = "PROBE"
  <2>1. w.seqno = x.seqno /\ w.rpc = x.rpc
    BY <1>1, <1>6, Zenon DEF RunReconnect, Session
  <2> QED
    BY <1>1, <1>2, <2>1, LaterSame
<1>7. CASE action = "DISCONNECT" /\ x.fsm.state \in {"CONNECTING", "IDLE", "RECONNECT"}
  <2> DEFINE g == reconnect_disconnected(x.fsm, now)
             z == [x EXCEPT !.fsm = g]
  <2>1. w = jsonrpc_session_disconnect(z)
    BY <1>3, <1>7, Zenon DEF RunReconnect
  <2>2. g \in Fsm
    BY <1>1, <1>7, FsmEnds DEF Ended
  <2> HIDE DEF g
  <2>3. Later(x, z) /\ z \in Session
    BY <1>1, <2>2, LaterFsm DEF Later
  <2> HIDE DEF z
  <2> QED
    BY <1>1, <2>1, <2>3, LaterDisconnect, LaterTransitive
<1> QED
  BY <1>1, <1>4, <1>5, <1>6, <1>7, RunSays

\* jsonrpc_session_get_seqno() tells connections apart: it never goes back, and no
\* call takes a connection away, even to put another in its place at once, without
\* increasing it.  ovsdb_idl_run() and ovsdb_jsonrpc_session_run() compare it with
\* the number they saw last to notice that they must start over.
THEOREM ConnectionsToldApart ==
    Spec => [][/\ s'.seqno >= s.seqno
               /\ s.rpc # 0 /\ s'.rpc # s.rpc => s'.seqno > s.seqno]_vars
<1> DEFINE Apart == /\ s'.seqno >= s.seqno
                    /\ s.rpc # 0 /\ s'.rpc # s.rpc => s'.seqno > s.seqno
<1>1. ASSUME GoodSession, [Next]_vars PROVE [Apart]_vars
  <2> USE <1>1 DEF GoodSession
  <2>1. now \in Nat /\ s \in Session /\ s.fsm \in Fsm /\ Good(s)'
    BY SessionAssumption, StepGood DEF Good, Session
  <2>2. s' \in Session
    BY <2>1 DEF Good
  <2>3. CASE jsonrpc_session_run
    <3>1. PICK accept \in Outcome, stream \in Outcome, open \in Outcome, sent \in BOOLEAN :
            s' = RunReconnect(RunStreams(Accept(s, accept),
                                         sent /\ Accept(s, accept).rpc = s.rpc, stream), open)
      BY <2>3 DEF jsonrpc_session_run
    <3>2. PICK b \in BOOLEAN : b = (sent /\ Accept(s, accept).rpc = s.rpc)
      BY Zenon
    <3> DEFINE x == Accept(s, accept)
               y == RunStreams(x, b, stream)
    <3>3. Good(x) /\ Later(s, x)
      BY <2>1, AcceptGood, LaterAccept
    <3> HIDE DEF x
    <3>4. Good(y) /\ Later(x, y)
      BY <2>1, <3>3, RunStreamsGood, LaterRunStreams
    <3>5. s' = RunReconnect(y, open)
      BY <3>1, <3>2 DEF x
    <3> HIDE DEF y
    <3>6. Later(y, s')
      BY <3>4, <3>5, LaterRunReconnect
    <3>7. Later(s, s')
      BY <2>1, <3>3, <3>4, <3>6, LaterTransitive DEF Good
    <3> QED
      BY <3>7 DEF Later
  <2>4. CASE ~jsonrpc_session_run /\ Next
    <3>1. s' = s \/ \E g : s' = [s EXCEPT !.fsm = g]
      BY <2>4 DEF Next, Tick, jsonrpc_session_recv, jsonrpc_session_force_reconnect,
                  jsonrpc_session_set_max_backoff, jsonrpc_session_set_probe_interval
    <3>2. s'.seqno = s.seqno /\ s'.rpc = s.rpc
      BY <2>1, <3>1 DEF Session
    <3>3. s.seqno \in Nat
      BY <2>1 DEF Session
    <3> QED
      BY <3>2, <3>3
  <2> QED
    BY <1>1, <2>3, <2>4
<1> QED
  BY <1>1, SessionsStayGood, PTL DEF Spec
================================================================================
