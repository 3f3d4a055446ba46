------------------------------- MODULE Reconnect -------------------------------
(******************************************************************************)
(* The reconnect FSM of lib/reconnect.c, as operators from an FSM and the     *)
(* time to the FSM after the call.  Time is counted in units of 1000 ms, the  *)
(* least backoff and probe interval there is.  Fields that only feed          *)
(* reconnect_get_stats() are left out.                                        *)
(******************************************************************************)
EXTENDS Integers

CONSTANTS RECONNECT_DEFAULT_MIN_BACKOFF,
          RECONNECT_DEFAULT_MAX_BACKOFF,
          RECONNECT_DEFAULT_PROBE_INTERVAL,
          Forever  \* stands for INT_MAX, UINT_MAX and LLONG_MAX

ASSUME ReconnectAssumption ==
    /\ RECONNECT_DEFAULT_MIN_BACKOFF \in Nat \ {0}
    /\ RECONNECT_DEFAULT_MAX_BACKOFF \in Nat
    /\ RECONNECT_DEFAULT_MIN_BACKOFF <= RECONNECT_DEFAULT_MAX_BACKOFF
    /\ RECONNECT_DEFAULT_PROBE_INTERVAL \in Nat
    /\ Forever \in Nat \ {0, 1}

State == {"VOID", "BACKOFF", "CONNECTING", "ACTIVE", "IDLE", "RECONNECT",
          "LISTENING"}

\* struct reconnect.
Fsm == [min_backoff : Nat, max_backoff : Nat, probe_interval : Nat,
        passive : BOOLEAN, state : State, state_entered : Nat, backoff : Nat,
        last_activity : Nat, last_connected : Nat, max_tries : Nat]

larger(a, b) == IF a > b THEN a ELSE b

is_connected_state(state) == state \in {"ACTIVE", "IDLE"}

reconnect_create(now) ==
    [min_backoff |-> RECONNECT_DEFAULT_MIN_BACKOFF,
     max_backoff |-> RECONNECT_DEFAULT_MAX_BACKOFF,
     probe_interval |-> RECONNECT_DEFAULT_PROBE_INTERVAL,
     passive |-> FALSE, state |-> "VOID", state_entered |-> now, backoff |-> 0,
     last_activity |-> now, last_connected |-> Forever, max_tries |-> Forever]

\* Slip: no try is counted.
TriesLeft_Keeps(fsm) == fsm.max_tries

\* reconnect_may_retry() returns TryAgain and leaves TriesLeft.
TryAgain(fsm) == fsm.max_tries > 0
TriesLeft(fsm) ==
    IF fsm.max_tries \in {0, Forever} THEN fsm.max_tries ELSE fsm.max_tries - 1

reconnect_transition__(fsm, now, state) ==
    [fsm EXCEPT !.state = state, !.state_entered = now]

\* The part that reconnect_enable() and reconnect_set_passive() share.
BackOffNow(fsm, now) ==
    [reconnect_transition__(fsm, now, "BACKOFF") EXCEPT !.backoff = 0]

reconnect_set_max_tries(fsm, n) == [fsm EXCEPT !.max_tries = n]

reconnect_set_backoff(fsm, min, max) ==
    LET newMin == larger(min, 1)
        newMax == larger(newMin, IF max # 0 THEN larger(max, 1)
                                 ELSE RECONNECT_DEFAULT_MAX_BACKOFF)
    IN  [fsm EXCEPT
            !.min_backoff = newMin,
            !.max_backoff = newMax,
            !.backoff = IF fsm.state = "BACKOFF" /\ @ > max THEN max ELSE @]

reconnect_set_probe_interval(fsm, interval) ==
    [fsm EXCEPT !.probe_interval = interval]

reconnect_set_passive(fsm, passive, now) ==
    LET f == [fsm EXCEPT !.passive = passive]
    IN  IF fsm.passive = passive THEN fsm
        ELSE IF passive
        THEN IF fsm.state \in {"CONNECTING", "RECONNECT"} THEN BackOffNow(f, now) ELSE f
        ELSE IF fsm.state = "LISTENING"
        THEN LET g == [f EXCEPT !.max_tries = TriesLeft(fsm)]
             IN  IF TryAgain(fsm) THEN BackOffNow(g, now) ELSE g
        ELSE f

reconnect_enable(fsm, now) ==
    IF fsm.state = "VOID" /\ TryAgain(fsm)
    THEN BackOffNow([fsm EXCEPT !.max_tries = TriesLeft(fsm)], now)
    ELSE fsm

reconnect_force_reconnect(fsm, now) ==
    IF fsm.state \in {"CONNECTING", "ACTIVE", "IDLE"}
    THEN reconnect_transition__(fsm, now, "RECONNECT")
    ELSE fsm

\* The backoff after a connection or an attempt ended.
NextBackoff(fsm) ==
    IF /\ is_connected_state(fsm.state)
       /\ fsm.passive \/ fsm.last_activity - fsm.last_connected >= fsm.backoff
    THEN IF fsm.passive THEN 0 ELSE fsm.min_backoff
    ELSE IF fsm.backoff < fsm.min_backoff THEN fsm.min_backoff
    ELSE IF 2 * fsm.backoff >= fsm.max_backoff THEN fsm.max_backoff
    ELSE 2 * fsm.backoff

reconnect_disconnected(fsm, now) ==
    IF fsm.state \in {"BACKOFF", "VOID"} THEN fsm
    ELSE reconnect_transition__(
            [fsm EXCEPT !.backoff = NextBackoff(fsm), !.max_tries = TriesLeft(fsm)],
            now, IF TryAgain(fsm) THEN "BACKOFF" ELSE "VOID")

reconnect_connecting(fsm, now) ==
    IF fsm.state = "CONNECTING" THEN fsm
    ELSE reconnect_transition__(fsm, now, "CONNECTING")

reconnect_listening(fsm, now) ==
    IF fsm.state = "LISTENING" THEN fsm
    ELSE reconnect_transition__(fsm, now, "LISTENING")

reconnect_listen_error(fsm, now) ==
    IF fsm.state = "LISTENING" THEN reconnect_disconnected(fsm, now) ELSE fsm

reconnect_connected(fsm, now) ==
    IF is_connected_state(fsm.state) THEN fsm
    ELSE [reconnect_transition__(reconnect_connecting(fsm, now), now, "ACTIVE")
             EXCEPT !.last_connected = now]

reconnect_connect_failed(fsm, now) ==
    reconnect_disconnected(reconnect_connecting(fsm, now), now)

reconnect_activity(fsm, now) ==
    LET f == IF fsm.state # "ACTIVE"
             THEN reconnect_transition__(fsm, now, "ACTIVE") ELSE fsm
    IN  [f EXCEPT !.last_activity = now]

reconnect_deadline__(fsm) ==
    CASE fsm.state \in {"VOID", "LISTENING"} -> Forever
      [] fsm.state = "BACKOFF" -> fsm.state_entered + fsm.backoff
      [] fsm.state = "CONNECTING" -> fsm.state_entered + larger(1, fsm.backoff)
      [] fsm.state = "RECONNECT" -> fsm.state_entered
      [] fsm.state \in {"ACTIVE", "IDLE"} ->
            IF fsm.probe_interval = 0 THEN Forever
            ELSE fsm.probe_interval +
                 (IF fsm.state = "ACTIVE"
                  THEN larger(fsm.last_activity, fsm.state_entered)
                  ELSE fsm.state_entered)

\* What reconnect_run() returns...
reconnect_run(fsm, now) ==
    IF now < reconnect_deadline__(fsm) THEN "NOTHING"
    ELSE CASE fsm.state \in {"VOID", "LISTENING"} -> "NOTHING"
           [] fsm.state = "BACKOFF" -> "CONNECT"
           [] fsm.state = "ACTIVE" -> "PROBE"
           [] fsm.state \in {"CONNECTING", "IDLE", "RECONNECT"} -> "DISCONNECT"

\* ... and the FSM it leaves.
AfterRun(fsm, now) ==
    IF reconnect_run(fsm, now) = "PROBE"
    THEN reconnect_transition__(fsm, now, "IDLE") ELSE fsm
================================================================================
