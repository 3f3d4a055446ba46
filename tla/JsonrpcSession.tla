----------------------------- MODULE JsonrpcSession -----------------------------
(******************************************************************************)
(* struct jsonrpc_session of lib/jsonrpc.c: a JSON-RPC connection that is kept *)
(* up by the reconnect FSM.  The streams below are the environment: opening,   *)
(* connecting, accepting and transferring data succeed, fail or take time.     *)
(* A connection is a number, so that two connections are never confused; the   *)
(* fields conns, probed and begun are history.                                 *)
(******************************************************************************)
EXTENDS Reconnect

CONSTANTS MaxTime,    \* bound: the clock
          MaxConns,   \* bound: connections made
          Kinds,      \* how the session is opened: active, once, passive, unreliable
          Backoffs,   \* arguments of jsonrpc_session_set_max_backoff()
          Probes      \* arguments of jsonrpc_session_set_probe_interval()

ASSUME SessionAssumption ==
    /\ MaxTime \in Nat /\ MaxTime < Forever /\ MaxConns \in Nat \ {0}
    /\ Kinds \subseteq {"active", "once", "passive", "unreliable"}
    /\ Backoffs \subseteq Nat /\ Probes \subseteq Nat

VARIABLES now, s

vars == <<now, s>>

\* The session: its FSM, rpc (0 for NULL), stream, pstream and seqno; and
\*   conns    the number of connections made so far
\*   probed   the connection an echo request was sent on last
\*   begun    whether an attempt to connect has ever been begun
Session == [fsm : Fsm, rpc : Nat, stream : BOOLEAN, pstream : BOOLEAN, seqno : Nat,
            kind : Kinds, conns : Nat, probed : Nat, begun : BOOLEAN]

TypeOK == now \in 0 .. MaxTime /\ s \in Session

\* jsonrpc_session_open() and, for "unreliable", jsonrpc_session_open_unreliably().
jsonrpc_session_open(kind, probe) ==
    LET f == reconnect_set_probe_interval(reconnect_enable(reconnect_create(0), 0), probe)
    IN  [fsm |-> CASE kind = "active" -> f
                   [] kind = "passive" -> reconnect_set_passive(f, TRUE, 0)
                   [] kind = "once" -> reconnect_set_backoff(
                          reconnect_set_max_tries(f, 1), Forever, Forever)
                   [] kind = "unreliable" -> reconnect_connected(
                          reconnect_set_max_tries(reconnect_create(0), 0), 0),
         rpc |-> IF kind = "unreliable" THEN 1 ELSE 0,
         stream |-> FALSE, pstream |-> FALSE, seqno |-> 0, kind |-> kind,
         conns |-> IF kind = "unreliable" THEN 1 ELSE 0, probed |-> 0,
         begun |-> FALSE]

Init ==
    /\ now = 0
    /\ \E kind \in Kinds, probe \in {0, RECONNECT_DEFAULT_PROBE_INTERVAL} :
        s = jsonrpc_session_open(kind, probe)

-------------------------------------------------------------------------------
jsonrpc_session_disconnect(x) ==
    IF x.rpc # 0
    THEN [x EXCEPT !.rpc = 0, !.seqno = @ + 1]
    ELSE IF x.stream THEN [x EXCEPT !.stream = FALSE, !.seqno = @ + 1]
    ELSE x

\* Outcome "ok": the stream or the pstream could be opened.
jsonrpc_session_connect(x, outcome) ==
    LET y == jsonrpc_session_disconnect(x)
        opened == IF x.fsm.passive
                  THEN IF y.pstream \/ outcome = "ok"
                       THEN [y EXCEPT !.pstream = TRUE,
                                      !.fsm = reconnect_listening(y.fsm, now)]
                       ELSE [y EXCEPT !.fsm = reconnect_connect_failed(y.fsm, now)]
                  ELSE IF outcome = "ok"
                       THEN [y EXCEPT !.stream = TRUE,
                                      !.fsm = reconnect_connecting(y.fsm, now)]
                       ELSE [y EXCEPT !.fsm = reconnect_connect_failed(y.fsm, now)]
    IN  [opened EXCEPT
            !.seqno = @ + 1,
            !.begun = @ \/ ~x.fsm.passive]

\* jsonrpc_open() on a new connection.
NewConnection(x) == [x EXCEPT !.conns = @ + 1, !.rpc = x.conns + 1]

\* jsonrpc_session_run(): accept a connection; it replaces the one there is.
Accept(x, outcome) ==
    CASE ~x.pstream \/ outcome = "EAGAIN" -> x
      [] x.pstream /\ outcome = "ok" ->
            LET y == jsonrpc_session_disconnect(x)
            IN  NewConnection([y EXCEPT !.fsm = reconnect_connected(y.fsm, now)])
      [] x.pstream /\ outcome = "error" ->
            [x EXCEPT !.fsm = reconnect_listen_error(x.fsm, now), !.pstream = FALSE]

\* Run the connection: some of its backlog may be sent, and it may fail.
RunRpc(x, sent, outcome) ==
    LET f == IF sent THEN reconnect_activity(x.fsm, now) ELSE x.fsm
    IN  IF outcome = "error"
        THEN jsonrpc_session_disconnect(
                [x EXCEPT !.fsm = reconnect_disconnected(f, now)])
        ELSE [x EXCEPT !.fsm = f]

\* Slip: the FSM is not told that the attempt failed.
RunStream_Silent(x, outcome) ==
    CASE outcome = "EAGAIN" -> x
      [] outcome = "ok" ->
            NewConnection([x EXCEPT !.fsm = reconnect_connected(x.fsm, now),
                                    !.stream = FALSE])
      [] outcome = "error" -> [x EXCEPT !.stream = FALSE]

\* Run the connection attempt.
RunStream(x, outcome) ==
    CASE outcome = "EAGAIN" -> x
      [] outcome = "ok" ->
            NewConnection([x EXCEPT !.fsm = reconnect_connected(x.fsm, now),
                                    !.stream = FALSE])
      [] outcome = "error" ->
            [x EXCEPT !.fsm = reconnect_connect_failed(x.fsm, now), !.stream = FALSE]

RunStreams(x, sent, outcome) ==
    IF x.rpc # 0 THEN RunRpc(x, sent, outcome)
    ELSE IF x.stream THEN RunStream(x, outcome)
    ELSE x

\* Slip: no echo request is sent.
RunReconnect_NoProbe(x, outcome) ==
    LET action == reconnect_run(x.fsm, now)
        y == [x EXCEPT !.fsm = AfterRun(x.fsm, now)]
    IN  CASE action \in {"NOTHING", "PROBE"} -> y
          [] action = "CONNECT" -> jsonrpc_session_connect(y, outcome)
          [] action = "DISCONNECT" -> jsonrpc_session_disconnect(
                  [y EXCEPT !.fsm = reconnect_disconnected(y.fsm, now)])

\* The part of jsonrpc_session_run() that obeys reconnect_run().
RunReconnect(x, outcome) ==
    LET action == reconnect_run(x.fsm, now)
        y == [x EXCEPT !.fsm = AfterRun(x.fsm, now)]
    IN  CASE action = "NOTHING" -> y
          [] action = "CONNECT" -> jsonrpc_session_connect(y, outcome)
          [] action = "DISCONNECT" -> jsonrpc_session_disconnect(
                  [y EXCEPT !.fsm = reconnect_disconnected(y.fsm, now)])
          [] action = "PROBE" -> [y EXCEPT !.probed = y.rpc]

Outcome == {"ok", "EAGAIN", "error"}

\* A connection that has just been accepted has no backlog to send.
jsonrpc_session_run ==
    /\ \E accept, stream, open \in Outcome, sent \in BOOLEAN :
        LET x == Accept(s, accept)
        IN  s' = RunReconnect(RunStreams(x, sent /\ x.rpc = s.rpc, stream), open)
    /\ s'.conns <= MaxConns
    /\ UNCHANGED now

\* Some bytes are received; replies to echo requests change no state here.
jsonrpc_session_recv ==
    /\ s.rpc # 0
    /\ s' = [s EXCEPT !.fsm = reconnect_activity(s.fsm, now)]
    /\ UNCHANGED now

\* jsonrpc_session_force_reconnect(), also called by jsonrpc_session_set_dscp().
jsonrpc_session_force_reconnect ==
    /\ s' = [s EXCEPT !.fsm = reconnect_force_reconnect(s.fsm, now)]
    /\ UNCHANGED now

\* Only ovsdb-server calls this, and it opens no session without retry.
jsonrpc_session_set_max_backoff(max) ==
    /\ s.kind # "once"
    /\ s' = [s EXCEPT !.fsm = reconnect_set_backoff(s.fsm, 0, max)]
    /\ UNCHANGED now

jsonrpc_session_set_probe_interval(interval) ==
    /\ s' = [s EXCEPT !.fsm = reconnect_set_probe_interval(s.fsm, interval)]
    /\ UNCHANGED now

Tick == now < MaxTime /\ now' = now + 1 /\ UNCHANGED s

Next ==
    \/ Tick
    \/ jsonrpc_session_run
    \/ jsonrpc_session_recv
    \/ jsonrpc_session_force_reconnect
    \/ \E max \in Backoffs : jsonrpc_session_set_max_backoff(max)
    \/ \E interval \in Probes : jsonrpc_session_set_probe_interval(interval)

Spec == Init /\ [][Next]_vars

-------------------------------------------------------------------------------
jsonrpc_session_is_alive(x) == x.rpc # 0 \/ x.stream \/ x.fsm.max_tries > 0

\* The FSM and the streams it is about agree: it believes in a connection iff
\* there is one (unless a reconnect is forced), in an attempt iff a stream is
\* connecting, and it listens only on an open pstream.  A passive session whose
\* pstream failed, at whatever point, is going to open another as soon as it has
\* no connection (reconnect_listen_error()).
SessionConsistent ==
    /\ s.fsm.state \in {"ACTIVE", "IDLE"} => s.rpc # 0
    /\ s.rpc # 0 => s.fsm.state \in {"ACTIVE", "IDLE", "RECONNECT"}
    /\ s.stream => s.fsm.state \in {"CONNECTING", "RECONNECT"} /\ s.rpc = 0
    /\ s.fsm.state = "CONNECTING" => s.stream
    /\ s.fsm.state = "LISTENING" => s.pstream
    /\ s.fsm.state = "RECONNECT" => s.rpc # 0 \/ s.stream
    /\ s.fsm.passive /\ s.rpc = 0 /\ ~s.pstream => s.fsm.state = "BACKOFF"

\* An idle connection is dropped only after an echo request on that connection
\* went unanswered: the FSM is IDLE only when this connection has been probed.
\* Not so when jsonrpc_session_run() accepts a connection in place of another,
\* as passive sessions do: reconnect_connected() leaves an IDLE FSM as it is.
ProbedBeforeDrop == ~s.fsm.passive /\ s.fsm.state = "IDLE" => s.probed = s.rpc

\* "If 'retry' is false, [...] after a connection failure or a disconnection
\* jsonrpc_session_is_alive() will return false": a client waiting for a session
\* without retry does not wait for ever; a session with retry never gives up,
\* whatever is forced, set or fails on the way.
AliveAsPromised ==
    jsonrpc_session_is_alive(s) <=>
        \/ s.rpc # 0 \/ s.stream
        \/ s.kind \in {"active", "passive"}
        \/ s.kind = "once" /\ ~s.begun

================================================================================
