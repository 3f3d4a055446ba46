------------------------------ MODULE OvsdbIdl ------------------------------
(***************************************************************************)
(* The client side of the database protocol, lib/ovsdb-idl.c, over the     *)
(* sessions of OvsdbServer: the replica of the database, the lock, and the *)
(* transaction whose fate the application follows.                         *)
(*                                                                         *)
(* change_seqno is kept as what its users compare it for: 'changed' says   *)
(* that it moved since the application last looked.                        *)
(***************************************************************************)
EXTENDS OvsdbServer

VARIABLES
    role,      \* what each client is: see Roles
    conn,      \* the client's current connection, 0 when it has none
    used,      \* the number of connections the client has made
    idl        \* struct ovsdb_idl and its transaction, for each client

(* An ovs-vsctl with and without --retry, an ovs-vswitchd, a client that   *)
(* speaks the protocol directly, and a client that is not there.           *)
Roles == {"vsctl", "once", "vswitchd", "raw", "off"}

NoData == [ports |-> {}, next |-> 0, cur |-> 0]

Idl == [monitor_request : BOOLEAN, replica : Contents, changed : BOOLEAN,
        has_lock : BOOLEAN, contended : BOOLEAN,
        txn : {"none", "incomplete", "success", "try_again", "not_locked"},
        value : Nat]

ovsdb_idl_create ==
    [monitor_request |-> FALSE, replica |-> NoData, changed |-> FALSE,
     has_lock |-> FALSE, contended |-> FALSE,
     txn |-> "none", value |-> 0]

InitIdl ==
    /\ conn = [c \in Client |-> 0]
    /\ used = [c \in Client |-> 0]
    /\ idl = [c \in Client |-> ovsdb_idl_create]

(* The client's end of the session it is on. *)
Current(c) == <<c, conn[c]>>

lock_name(c) == role[c] = "vswitchd"

(* The columns whose changes move change_seqno: ovs-vswitchd monitors its  *)
(* own cur_cfg without alerts, ovs-vsctl does not monitor next_cfg.        *)
Alerts(c, old, new) ==
    \/ old.ports # new.ports
    \/ role[c] = "vswitchd" /\ old.next # new.next
    \/ role[c] # "vswitchd" /\ old.cur # new.cur

\* A slip: getting the lock does not move change_seqno.
SlipHasLock(i, new_has_lock) ==
    [i EXCEPT !.has_lock = new_has_lock,
              !.contended = @ /\ ~ new_has_lock]

ovsdb_idl_update_has_lock(i, new_has_lock) ==
    IF new_has_lock /\ ~ i.has_lock
    THEN [i EXCEPT !.has_lock = TRUE, !.contended = FALSE,
                   !.changed = @ \/ ~ i.monitor_request]
    ELSE [i EXCEPT !.has_lock = new_has_lock]

\* A slip: transactions sent on the old connection are left waiting.
SlipAbortAll(i) == i

ovsdb_idl_txn_abort_all(i) ==
    IF i.txn = "incomplete" THEN [i EXCEPT !.txn = "try_again"] ELSE i

(* ovsdb_idl_send_lock_request(): the lock is not ours until the server    *)
(* answers.  No two requests are made on a connection, so the request's id *)
(* is left out.                                                            *)
ovsdb_idl_send_lock_request(i) == ovsdb_idl_update_has_lock(i, FALSE)

(* A session comes up, and ovsdb_idl_run() sees its new sequence number:   *)
(* outstanding transactions are given up, the whole database and the lock  *)
(* are asked for again.                                                    *)
Connect(c) ==
    LET s == <<c, used[c] + 1>>
        asked == [ovsdb_idl_txn_abort_all(idl[c]) EXCEPT !.monitor_request = TRUE]
    IN  /\ conn[c] = 0
        /\ used[c] < MaxConns
        /\ conn' = [conn EXCEPT ![c] = used[c] + 1]
        /\ used' = [used EXCEPT ![c] = @ + 1]
        /\ sess' = [sess EXCEPT ![s] = "pending"]
        /\ IF lock_name(c)
           THEN /\ idl' = [idl EXCEPT ![c] = ovsdb_idl_send_lock_request(asked)]
                /\ c2s' = [c2s EXCEPT ![s] = <<[type |-> "monitor"], [type |-> "wait"]>>]
           ELSE /\ idl' = [idl EXCEPT ![c] = asked]
                /\ c2s' = [c2s EXCEPT ![s] = <<[type |-> "monitor"]>>]
        /\ UNCHANGED <<db, run_triggers, triggers, todo, completions, waiters,
                       mode, monitors, s2c>>

ovsdb_idl_parse_update(c, i, new) ==
    [i EXCEPT !.replica = new, !.changed = @ \/ Alerts(c, i.replica, new)]

ovsdb_idl_parse_lock_reply(i, locked) ==
    LET told == ovsdb_idl_update_has_lock(i, locked)
    IN  IF locked THEN told ELSE [told EXCEPT !.contended = TRUE]

ovsdb_idl_parse_lock_notify(i, new_has_lock) ==
    LET told == ovsdb_idl_update_has_lock(i, new_has_lock)
    IN  IF new_has_lock THEN told ELSE [told EXCEPT !.contended = TRUE]

(* Only the transaction the application kept (id 1) is still looked up; the *)
(* reply to one it destroyed is dropped.                                   *)
ovsdb_idl_txn_process_reply(i, msg) ==
    IF msg.id # 1 \/ i.txn # "incomplete" THEN i
    ELSE [i EXCEPT !.txn = CASE msg.result = "ok" -> "success"
                             [] msg.result = "not owner" -> "not_locked"
                             [] OTHER -> "try_again",
                   !.value = msg.value]

(* The application is done with the transaction it followed. *)
ovsdb_idl_txn_destroy(i) == [i EXCEPT !.txn = "none"]

(* ovsdb_idl_run() for one message. *)
Received(c, msg) ==
    LET i == idl[c]
    IN  CASE msg.type = "update" -> ovsdb_idl_parse_update(c, i, msg.db)
          [] msg.type = "monitor" ->
                 [i EXCEPT !.monitor_request = FALSE, !.replica = msg.db,
                           !.changed = TRUE]
          [] msg.type = "lock" -> ovsdb_idl_parse_lock_reply(i, msg.locked)
          [] msg.type = "locked" -> ovsdb_idl_parse_lock_notify(i, TRUE)
          [] msg.type = "stolen" -> ovsdb_idl_parse_lock_notify(i, FALSE)
          [] OTHER -> ovsdb_idl_txn_process_reply(i, msg)

Receive(c) ==
    LET s == Current(c)
    IN  /\ conn[c] # 0
        /\ s2c[s] # <<>>
        /\ idl' = [idl EXCEPT ![c] = Received(c, Head(s2c[s]))]
        /\ s2c' = [s2c EXCEPT ![s] = Tail(@)]
        /\ UNCHANGED <<server, c2s, conn, used>>

(* The client's end goes away.  What it has not read is lost; what it sent *)
(* can still reach the server.                                             *)
Disconnect(c) ==
    /\ conn[c] # 0
    /\ conn' = [conn EXCEPT ![c] = 0]
    /\ s2c' = [s2c EXCEPT ![Current(c)] = <<>>]
    /\ UNCHANGED <<server, c2s, used, idl>>

(* ovsdb_idl_txn_commit(): what becomes of a transaction with changes, and *)
(* what the server is sent.  One whose fate the application follows has    *)
(* id 1.                                                                   *)
ovsdb_idl_txn_commit(c) ==
    IF lock_name(c) /\ ~ idl[c].has_lock THEN "not_locked"
    ELSE IF conn[c] = 0 THEN "try_again"
    ELSE "incomplete"

Transmitted(c, txn, id) ==
    IF ovsdb_idl_txn_commit(c) # "incomplete" \/ sess[Current(c)] = "closed"
    THEN c2s
    ELSE [c2s EXCEPT ![Current(c)] =
             Append(@, [type |-> "transact", id |-> id, txn |-> txn])]

IdlTypeOK ==
    /\ role \in [Client -> Roles]
    /\ conn \in [Client -> 0..MaxConns]
    /\ used \in [Client -> 0..MaxConns]
    /\ idl \in [Client -> Idl]
=============================================================================
