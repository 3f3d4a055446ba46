---------------------------- MODULE OvsdbServer ----------------------------
(***************************************************************************)
(* ovsdb-server as its clients see it: the sessions of                     *)
(* ovsdb/jsonrpc-server.c, the named lock of ovsdb/server.c (one name is   *)
(* modelled: the queues of two names never meet), the triggers of          *)
(* ovsdb/trigger.c and ovsdb/execution.c, and the monitors.                *)
(*                                                                         *)
(* The database is one Open_vSwitch row: the set of ports it configures    *)
(* and the counters next_cfg and cur_cfg.  How a transaction is committed  *)
(* is the subject of OvsdbTxn, how it reaches the disk of OvsdbFile.       *)
(*                                                                         *)
(* A session is one connection of a client.  The two ends close            *)
(* separately: a server goes on reading what a client sent before it went  *)
(* away, so a client can be back on a new session while the old one is     *)
(* still there.                                                            *)
(***************************************************************************)
EXTENDS Naturals, Sequences, FiniteSets

CONSTANTS
    Client,        \* the processes that talk to the server
    MaxConns,      \* bound: connections made by one client
    MaxSessions    \* max_sessions of struct ovsdb_jsonrpc_server

ASSUME BoundsAssumption == MaxConns \in Nat \ {0} /\ MaxSessions \in Nat \ {0}

VARIABLES
    db,            \* the row: [ports, next, cur]
    run_triggers,  \* db->run_triggers
    triggers,      \* db->triggers: transactions that wait, oldest first
    todo,          \* the part of 'triggers' ovsdb_trigger_run() has yet to try
    completions,   \* session->completions, for each session
    waiters,       \* lock->waiters: the first one owns the lock
    mode,          \* the session's waiter: "none", "wait" or "steal"
    monitors,      \* the sessions that monitor the row
    sess,          \* the server's end of each session
    c2s,           \* what the client sent and the server has not read
    s2c            \* what the server sent and the client has not read

server == <<db, run_triggers, triggers, todo, completions, waiters, mode,
            monitors, sess>>

Session == Client \X (1..MaxConns)

Contents == [ports : SUBSET Client, next : Nat, cur : Nat]

(***************************************************************************)
(* A transaction: the operations "assert" (lock), "wait" on the set of     *)
(* ports (until holds the value waited for; timeout says how long), then   *)
(* updates of the ports and of cur_cfg and a "mutate" of next_cfg.  An     *)
(* absent operation is the empty set.                                      *)
(***************************************************************************)
Transaction == [lock : BOOLEAN, until : SUBSET SUBSET Client,
                timeout : {"zero", "finite", "never"},
                ports : SUBSET SUBSET Client, inc : BOOLEAN,
                cur : SUBSET Nat]

Trigger == [s : Session, id : Nat, txn : Transaction]

InitServer ==
    /\ db = [ports |-> {}, next |-> 0, cur |-> 0]
    /\ run_triggers = FALSE
    /\ triggers = <<>>
    /\ todo = <<>>
    /\ completions = [s \in Session |-> <<>>]
    /\ waiters = <<>>
    /\ mode = [s \in Session |-> "none"]
    /\ monitors = {}
    /\ sess = [s \in Session |-> "none"]
    /\ c2s = [s \in Session |-> <<>>]
    /\ s2c = [s \in Session |-> <<>>]

----------------------------------------------------------------------------
(* Locks. *)

ovsdb_lock_waiter_is_owner(s) == waiters # <<>> /\ Head(waiters) = s

ovsdb_lock_waiter_remove(q, s) == SelectSeq(q, LAMBDA w : w # s)

\* A slip: the last waiter is taken for the owner.
SlipVictim(s, m) ==
    LET victims == IF m = "steal" /\ waiters # <<>> THEN {waiters[Len(waiters)]} ELSE {}
        kept == SelectSeq(waiters, LAMBDA w : ~ (w \in victims /\ mode[w] = "steal"))
    IN  [queue |-> IF m = "steal" THEN <<s>> \o kept ELSE Append(waiters, s),
         victims |-> victims]

(* Only the previous owner can be the victim; a victim that stole the lock *)
(* itself leaves the queue, and its waiter stays with its session.         *)
ovsdb_server_lock(s, m) ==
    LET victims == IF m = "steal" /\ waiters # <<>> THEN {Head(waiters)} ELSE {}
        kept == SelectSeq(waiters, LAMBDA w : ~ (w \in victims /\ mode[w] = "steal"))
    IN  [queue |-> IF m = "steal" THEN <<s>> \o kept ELSE Append(waiters, s),
         victims |-> victims]

(* The sessions ovsdb_jsonrpc_session_unlock__() notifies when 's' leaves  *)
(* the queue: the owner of what is left, new or not.                       *)
Notified(s) ==
    LET q == ovsdb_lock_waiter_remove(waiters, s)
    IN  IF (\E i \in DOMAIN waiters : waiters[i] = s) /\ q # <<>>
        THEN {Head(q)} ELSE {}

----------------------------------------------------------------------------
(* Messages to clients. *)

Send(out, s, msg) == [out EXCEPT ![s] = Append(@, msg)]

SendAll(out, S, msg) ==
    [s \in Session |-> IF s \in S THEN Append(out[s], msg) ELSE out[s]]

Reply(id, result, value) ==
    [type |-> "reply", id |-> id, result |-> result, value |-> value]

----------------------------------------------------------------------------
(* Transactions and triggers. *)

Effect(x) ==
    [ports |-> IF x.ports = {} THEN db.ports ELSE CHOOSE p \in x.ports : TRUE,
     next  |-> IF x.inc THEN db.next + 1 ELSE db.next,
     cur   |-> IF x.cur = {} THEN db.cur ELSE CHOOSE n \in x.cur : TRUE]

(* What ovsdb_execute() makes of 'x' for session 's' now: the error of the *)
(* first operation that fails, "ok", or "wait" when the transaction has to *)
(* be tried again.                                                         *)
ovsdb_execute(s, x, expired) ==
    IF x.lock /\ ~ ovsdb_lock_waiter_is_owner(s) THEN "not owner"
    ELSE IF x.until = {} \/ db.ports \in x.until THEN "ok"
    ELSE IF x.timeout = "zero" \/ expired THEN "timed out"
    ELSE "wait"

\* A slip: a commit does not have the triggers run.
SlipCommit(x) == db' = Effect(x) /\ UNCHANGED run_triggers

(* ovsdb_txn_commit(): the monitors hear of a change before the client that *)
(* made it gets its reply.                                                 *)
ovsdb_txn_commit(x) ==
    LET new == Effect(x)
    IN  /\ db' = new
        /\ run_triggers' = (run_triggers \/ new # db)

\* A slip: monitors are told only when the ports changed.
SlipUpdates(x) ==
    IF Effect(x).ports = db.ports THEN s2c
    ELSE SendAll(s2c, monitors, [type |-> "update", db |-> Effect(x)])

Updates(x) ==
    IF Effect(x) = db THEN s2c
    ELSE SendAll(s2c, monitors, [type |-> "update", db |-> Effect(x)])

(* ovsdb_jsonrpc_trigger_create(): a transaction that can be decided is    *)
(* answered at once, any other joins the list.                             *)
transact(s, msg) ==
    LET x == msg.txn
        result == ovsdb_execute(s, x, FALSE)
        pending == \E i \in DOMAIN triggers :
                       triggers[i].s = s /\ triggers[i].id = msg.id
    IN  /\ \/ /\ pending
              /\ s2c' = Send(s2c, s, Reply(msg.id, "duplicate", 0))
              /\ UNCHANGED <<db, run_triggers, triggers>>
           \/ /\ ~ pending /\ result = "wait"
              /\ triggers' = Append(triggers, [s |-> s, id |-> msg.id, txn |-> x])
              /\ UNCHANGED <<db, run_triggers, s2c>>
           \/ /\ ~ pending /\ result = "ok"
              /\ ovsdb_txn_commit(x)
              /\ s2c' = Send(Updates(x), s, Reply(msg.id, "ok", Effect(x).next))
              /\ UNCHANGED triggers
           \/ /\ ~ pending /\ result \in {"not owner", "timed out"}
              /\ s2c' = Send(s2c, s, Reply(msg.id, result, 0))
              /\ UNCHANGED <<db, run_triggers, triggers>>
        /\ UNCHANGED <<todo, completions, waiters, mode, monitors, sess>>

(* ovsdb_trigger_run(): every trigger is tried when the database changed,  *)
(* else those whose timeout has passed.                                    *)
ovsdb_trigger_run ==
    /\ todo = <<>>
    /\ \E late \in SUBSET {i \in DOMAIN triggers : triggers[i].txn.timeout = "finite"} :
           /\ run_triggers \/ late # {}
           /\ LET all == [i \in DOMAIN triggers |->
                             [trigger |-> triggers[i], expired |-> i \in late]]
              IN  todo' = SelectSeq(all, LAMBDA e : run_triggers \/ e.expired)
    /\ run_triggers' = FALSE
    /\ UNCHANGED <<db, triggers, completions, waiters, mode, monitors, sess,
                   c2s, s2c>>

ovsdb_trigger_complete(t, result, value) ==
    /\ triggers' = SelectSeq(triggers, LAMBDA u : u # t)
    /\ completions' = [completions EXCEPT
                          ![t.s] = Append(@, Reply(t.id, result, value))]

(* One turn of its loop. *)
ovsdb_trigger_try ==
    /\ todo # <<>>
    /\ todo' = Tail(todo)
    /\ LET t == Head(todo).trigger
           result == ovsdb_execute(t.s, t.txn, Head(todo).expired)
       IN  \/ /\ result = "wait"
              /\ UNCHANGED <<db, run_triggers, triggers, completions, s2c>>
           \/ /\ result = "ok"
              /\ ovsdb_txn_commit(t.txn)
              /\ s2c' = Updates(t.txn)
              /\ ovsdb_trigger_complete(t, result, Effect(t.txn).next)
           \/ /\ result \in {"not owner", "timed out"}
              /\ ovsdb_trigger_complete(t, result, 0)
              /\ UNCHANGED <<db, run_triggers, s2c>>
    /\ UNCHANGED <<waiters, mode, monitors, sess, c2s>>

----------------------------------------------------------------------------
(* Sessions. *)

(* ovsdb_jsonrpc_server_run(): the listener is polled only below the limit. *)
Accept(s) ==
    /\ todo = <<>>
    /\ sess[s] = "pending"
    /\ Cardinality({t \in Session : sess[t] = "open"}) < MaxSessions
    /\ sess' = [sess EXCEPT ![s] = "open"]
    /\ UNCHANGED <<db, run_triggers, triggers, todo, completions, waiters,
                   mode, monitors, c2s, s2c>>

(* ovsdb_jsonrpc_trigger_complete_done() *)
CompleteDone(s) ==
    /\ todo = <<>>
    /\ completions[s] # <<>>
    /\ s2c' = [s2c EXCEPT ![s] = @ \o completions[s]]
    /\ completions' = [completions EXCEPT ![s] = <<>>]
    /\ UNCHANGED <<db, run_triggers, triggers, todo, waiters, mode, monitors,
                   sess, c2s>>

monitor(s) ==
    /\ s2c' = Send(s2c, s, IF s \in monitors
                           THEN [type |-> "error"]
                           ELSE [type |-> "monitor", db |-> db])
    /\ monitors' = monitors \cup {s}
    /\ UNCHANGED <<db, run_triggers, triggers, todo, completions, waiters,
                   mode, sess>>

(* ovsdb_jsonrpc_session_lock(), for "lock" and "steal". *)
lock(s, m) ==
    /\ IF mode[s] # "none"
       THEN /\ s2c' = Send(s2c, s, [type |-> "error"])
            /\ UNCHANGED <<waiters, mode>>
       ELSE LET locked == ovsdb_server_lock(s, m)
            IN  /\ waiters' = locked.queue
                /\ mode' = [mode EXCEPT ![s] = m]
                /\ s2c' = Send(SendAll(s2c, locked.victims, [type |-> "stolen"]),
                               s, [type |-> "lock",
                                   locked |-> Head(locked.queue) = s])
    /\ UNCHANGED <<db, run_triggers, triggers, todo, completions, monitors,
                   sess>>

unlock(s) ==
    /\ IF mode[s] = "none"
       THEN /\ s2c' = Send(s2c, s, [type |-> "error"])
            /\ UNCHANGED <<waiters, mode>>
       ELSE /\ waiters' = ovsdb_lock_waiter_remove(waiters, s)
            /\ mode' = [mode EXCEPT ![s] = "none"]
            /\ s2c' = Send(SendAll(s2c, Notified(s), [type |-> "locked"]),
                           s, [type |-> "unlock"])
    /\ UNCHANGED <<db, run_triggers, triggers, todo, completions, monitors,
                   sess>>

\* A slip: the canceled trigger stays on the list.
SlipCancel(s, id) ==
    LET mine == {i \in DOMAIN triggers : triggers[i].s = s /\ triggers[i].id = id}
    IN  /\ s2c' = IF mine = {} THEN s2c
                  ELSE Send(s2c, s, Reply(id, "canceled", 0))
        /\ UNCHANGED <<db, run_triggers, triggers, todo, completions, waiters,
                       mode, monitors, sess>>

(* execute_cancel(): a trigger that is still waiting is answered. *)
cancel(s, id) ==
    LET mine == {i \in DOMAIN triggers : triggers[i].s = s /\ triggers[i].id = id}
    IN  /\ triggers' = SelectSeq(triggers, LAMBDA t : ~ (t.s = s /\ t.id = id))
        /\ s2c' = IF mine = {} THEN s2c
                  ELSE Send(s2c, s, Reply(id, "canceled", 0))
        /\ UNCHANGED <<db, run_triggers, todo, completions, waiters, mode,
                       monitors, sess>>

(* ovsdb_jsonrpc_session_run(): completed triggers are answered first, then *)
(* one message is read.                                                    *)
SessionRun(s) ==
    /\ todo = <<>>
    /\ sess[s] = "open"
    /\ completions[s] = <<>>
    /\ c2s[s] # <<>>
    /\ c2s' = [c2s EXCEPT ![s] = Tail(@)]
    /\ LET msg == Head(c2s[s])
       IN  \/ msg.type = "transact" /\ transact(s, msg)
           \/ msg.type = "monitor" /\ monitor(s)
           \/ msg.type \in {"wait", "steal"} /\ lock(s, msg.type)
           \/ msg.type = "unlock" /\ unlock(s)
           \/ msg.type = "cancel" /\ cancel(s, msg.id)

(* ovsdb_jsonrpc_session_close(): nothing of the session outlives it. *)
SessionClose(s) ==
    /\ todo = <<>>
    /\ sess[s] = "open"
    /\ sess' = [sess EXCEPT ![s] = "closed"]
    /\ monitors' = monitors \ {s}
    /\ waiters' = ovsdb_lock_waiter_remove(waiters, s)
    /\ mode' = [mode EXCEPT ![s] = "none"]
    /\ triggers' = SelectSeq(triggers, LAMBDA t : t.s # s)
    /\ completions' = [completions EXCEPT ![s] = <<>>]
    /\ c2s' = [c2s EXCEPT ![s] = <<>>]
    /\ s2c' = SendAll(s2c, Notified(s), [type |-> "locked"])
    /\ UNCHANGED <<db, run_triggers, todo>>

(* The server is killed and restarted: the database survives, in its file. *)
ServerRestart ==
    /\ sess' = [s \in Session |-> IF sess[s] \in {"pending", "open"}
                                  THEN "closed" ELSE sess[s]]
    /\ run_triggers' = FALSE
    /\ triggers' = <<>>
    /\ todo' = <<>>
    /\ completions' = [s \in Session |-> <<>>]
    /\ waiters' = <<>>
    /\ mode' = [s \in Session |-> "none"]
    /\ monitors' = {}
    /\ c2s' = [s \in Session |-> <<>>]
    /\ UNCHANGED <<db, s2c>>

ServerTypeOK ==
    /\ db \in Contents
    /\ run_triggers \in BOOLEAN
    /\ \A i \in DOMAIN triggers : triggers[i] \in Trigger
    /\ \A i \in DOMAIN waiters : waiters[i] \in Session
    /\ mode \in [Session -> {"none", "wait", "steal"}]
    /\ monitors \subseteq Session
    /\ sess \in [Session -> {"none", "pending", "open", "closed"}]
=============================================================================
