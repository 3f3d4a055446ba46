----------------------------- MODULE ConfigSync -----------------------------
(***************************************************************************)
(* How a change of configuration gets from ovs-vsctl into ovs-vswitchd:    *)
(* utilities/ovs-vsctl.c and the database half of vswitchd/bridge.c, over  *)
(* OvsdbIdl and OvsdbServer.                                               *)
(*                                                                         *)
(* Each ovs-vsctl adds one port, named after itself, to the bridge         *)
(* ("ovs-vsctl --may-exist add-port"), incrementing next_cfg, and waits    *)
(* until cur_cfg reaches its value.  An ovs-vswitchd that holds the lock   *)
(* configures its bridges as the database says and copies next_cfg to      *)
(* cur_cfg.  Clients of the third kind speak the protocol directly: they   *)
(* take, steal and release the lock and submit transactions that wait.     *)
(***************************************************************************)
EXTENDS OvsdbIdl, Integers

CONSTANTS
    Deployments    \* what is checked: roles for the clients, and bounds on
                   \* faults and on the requests of direct clients

VARIABLES
    app,           \* the process that uses the IDL, for each client
    applied,       \* ghost: the ports some ovs-vswitchd has configured so far
    faults,        \* bound: the faults of which one may still strike
    sends          \* bound: how many requests of direct clients, of which types

vars == <<server, c2s, s2c, role, conn, used, idl, app, applied, faults, sends>>

(* pc of an ovs-vsctl: in main()'s loop, in ovsdb_idl_txn_commit_block(),  *)
(* in the loop that waits for cur_cfg, and gone: having waited, without a  *)
(* change to wait for, and without success.                                *)
Vsctl == [pc : {"loop", "commit", "wait", "done", "unchanged", "failed"}]

(* An ovs-vswitchd: whether it is in the middle of a reconfiguration, the  *)
(* ports of its bridges ({} when it has no bridges), and whether the       *)
(* process that started it has been let go.                                *)
Vswitchd == [reconfiguring : BOOLEAN, bridges : SUBSET SUBSET Client,
             daemon : {"starting", "waiting", "running"}]

(* A direct client: what it was last told of the lock, and how many of its *)
(* transactions, all with id 1, it has had no reply to.                    *)
Raw == [told : BOOLEAN, open : Int]

Fresh(r) ==
    CASE r = "vswitchd" -> [reconfiguring |-> FALSE, bridges |-> {},
                            daemon |-> "starting"]
      [] r = "raw" -> [told |-> FALSE, open |-> 0]
      [] OTHER -> [pc |-> "loop"]

Init ==
    /\ InitServer
    /\ InitIdl
    /\ \E d \in Deployments : role = d.role /\ faults = d.faults /\ sends = d.sends
    /\ app = [c \in Client |-> Fresh(role[c])]
    /\ applied = {}

IsVsctl(c) == role[c] \in {"vsctl", "once"}
Running(c) ==
    CASE IsVsctl(c) -> app[c].pc \in {"loop", "commit", "wait"}
      [] role[c] = "vswitchd" -> ~ app[c].reconfiguring
      [] OTHER -> FALSE

----------------------------------------------------------------------------
(* ovs-vsctl *)

\* A slip: the column that is changed is not verified.
SlipNoVerify(c) ==
    [lock |-> FALSE, until |-> {}, timeout |-> "zero",
     ports |-> {idl[c].replica.ports \cup {c}}, inc |-> TRUE, cur |-> {}]

\* A slip: columns are written although they are unchanged.
SlipWholeRow(c) ==
    [lock |-> FALSE, until |-> {idl[c].replica.ports}, timeout |-> "zero",
     ports |-> {idl[c].replica.ports \cup {c}}, inc |-> TRUE,
     cur |-> {idl[c].replica.cur}]

NewPort(c) ==
    [lock |-> FALSE, until |-> {idl[c].replica.ports}, timeout |-> "zero",
     ports |-> {idl[c].replica.ports \cup {c}}, inc |-> TRUE, cur |-> {}]

(* do_vsctl(), as far as ovsdb_idl_txn_commit_block() *)
do_vsctl(c) ==
    LET status == IF c \in idl[c].replica.ports THEN "unchanged"
                  ELSE ovsdb_idl_txn_commit(c)
    IN  /\ IsVsctl(c) /\ app[c].pc = "loop"
        /\ idl[c].changed
        /\ app' = [app EXCEPT ![c].pc =
                      CASE status = "unchanged" -> "unchanged"
                        [] status = "incomplete" -> "commit"
                        [] OTHER -> "loop"]
        /\ idl' = [idl EXCEPT ![c].changed = FALSE,
                              ![c].txn = IF status = "incomplete"
                                         THEN status ELSE "none"]
        /\ c2s' = IF status = "unchanged" THEN c2s
                  ELSE Transmitted(c, NewPort(c), 1)
        /\ UNCHANGED <<server, s2c, role, conn, used, applied, faults, sends>>

(* do_vsctl(), once the transaction has its answer *)
VsctlCommitted(c) ==
    /\ IsVsctl(c) /\ app[c].pc = "commit"
    /\ idl[c].txn # "incomplete"
    /\ app' = [app EXCEPT ![c].pc = IF idl[c].txn = "success" THEN "wait" ELSE "loop"]
    /\ idl' = [idl EXCEPT ![c] = ovsdb_idl_txn_destroy(@)]
    /\ UNCHANGED <<server, c2s, s2c, role, conn, used, applied, faults, sends>>

\* A slip: any change of cur_cfg will do.
SlipDone(c) ==
    /\ IsVsctl(c) /\ app[c].pc = "wait"
    /\ idl[c].replica.cur + 1 >= idl[c].value
    /\ app' = [app EXCEPT ![c].pc = "done"]
    /\ UNCHANGED <<server, c2s, s2c, role, conn, used, idl, applied, faults, sends>>

(* do_vsctl(), its last loop, and the exit *)
VsctlDone(c) ==
    /\ IsVsctl(c) /\ app[c].pc = "wait"
    /\ idl[c].replica.cur >= idl[c].value
    /\ app' = [app EXCEPT ![c].pc = "done"]
    /\ UNCHANGED <<server, c2s, s2c, role, conn, used, idl, applied, faults, sends>>

(* main(): without --retry a lost connection is fatal, in this loop. *)
VsctlFatal(c) ==
    /\ role[c] = "once" /\ app[c].pc = "loop"
    /\ conn[c] = 0 /\ used[c] > 0
    /\ app' = [app EXCEPT ![c].pc = "failed"]
    /\ UNCHANGED <<server, c2s, s2c, role, conn, used, idl, applied, faults, sends>>

----------------------------------------------------------------------------
(* ovs-vswitchd: bridge_run() *)

(* The lock is someone else's: this process gives up its bridges. *)
BridgeDisable(c) ==
    /\ role[c] = "vswitchd" /\ ~ app[c].reconfiguring
    /\ idl[c].contended
    /\ app[c].bridges # {}
    /\ app' = [app EXCEPT ![c].bridges = {}]
    /\ UNCHANGED <<server, c2s, s2c, role, conn, used, idl, applied, faults, sends>>

MayRun(c) == role[c] = "vswitchd" /\ ~ idl[c].contended /\ idl[c].has_lock

bridge_reconfigure(c) ==
    /\ MayRun(c) /\ ~ app[c].reconfiguring
    /\ idl[c].changed
    /\ idl' = [idl EXCEPT ![c].changed = FALSE]
    /\ app' = [app EXCEPT ![c].reconfiguring = TRUE]
    /\ UNCHANGED <<server, c2s, s2c, role, conn, used, applied, faults, sends>>

\* A slip: the database is told one configuration late.
SlipCurCfg(c) ==
    [lock |-> TRUE, until |-> {}, timeout |-> "zero", ports |-> {},
     inc |-> FALSE, cur |-> {IF idl[c].replica.next = 0 THEN 0
                             ELSE idl[c].replica.next - 1}]

SetCurCfg(c) ==
    [lock |-> TRUE, until |-> {}, timeout |-> "zero", ports |-> {},
     inc |-> FALSE, cur |-> {idl[c].replica.next}]

(* bridge_reconfigure_continue() is through, some calls of bridge_run()    *)
(* later.  cur_cfg is written only when it differs from the replica's.     *)
(* The first such transaction is kept to tell when start-up is over, the   *)
(* others are destroyed as soon as they are sent.                          *)
Reconfigured(c) ==
    LET first == app[c].daemon = "starting"
        writes == idl[c].replica.cur # idl[c].replica.next
        status == IF writes THEN ovsdb_idl_txn_commit(c) ELSE "unchanged"
    IN  /\ role[c] = "vswitchd" /\ app[c].reconfiguring
        /\ app' = [app EXCEPT ![c].reconfiguring = FALSE,
                              ![c].bridges = {idl[c].replica.ports},
                              ![c].daemon = IF ~ first THEN @
                                            ELSE IF status = "incomplete"
                                            THEN "waiting" ELSE "running"]
        /\ applied' = applied \cup idl[c].replica.ports
        /\ idl' = IF first /\ status = "incomplete"
                  THEN [idl EXCEPT ![c].txn = status] ELSE idl
        /\ c2s' = IF writes
                  THEN Transmitted(c, SetCurCfg(c), IF first THEN 1 ELSE 0)
                  ELSE c2s
        /\ UNCHANGED <<server, s2c, role, conn, used, faults, sends>>

(* The kept transaction has its answer, whatever it is: daemonize_complete(). *)
Daemonized(c) ==
    /\ MayRun(c) /\ ~ app[c].reconfiguring
    /\ app[c].daemon = "waiting"
    /\ idl[c].txn # "incomplete"
    /\ app' = [app EXCEPT ![c].daemon = "running"]
    /\ idl' = [idl EXCEPT ![c] = ovsdb_idl_txn_destroy(@)]
    /\ UNCHANGED <<server, c2s, s2c, role, conn, used, applied, faults, sends>>

----------------------------------------------------------------------------
(* Clients that speak the protocol directly *)

DirectTxns(c) ==
    LET base == [lock |-> FALSE, until |-> {}, timeout |-> "zero",
                 ports |-> {{c}}, inc |-> FALSE, cur |-> {}]
    IN  {base, [base EXCEPT !.lock = TRUE]}
        \cup {[base EXCEPT !.until = {{d}}, !.timeout = t] :
                  d \in Client \ {c}, t \in {"finite", "never"}}

Requests(c) ==
    {[type |-> "wait"], [type |-> "steal"], [type |-> "unlock"],
     [type |-> "cancel", id |-> 1]}
    \cup [type : {"transact"}, id : {1}, txn : DirectTxns(c)]

RawConnect(c) ==
    LET s == <<c, used[c] + 1>>
    IN  /\ role[c] = "raw"
        /\ conn[c] = 0 /\ used[c] < MaxConns
        /\ conn' = [conn EXCEPT ![c] = used[c] + 1]
        /\ used' = [used EXCEPT ![c] = @ + 1]
        /\ sess' = [sess EXCEPT ![s] = "pending"]
        /\ app' = [app EXCEPT ![c] = Fresh("raw")]
        /\ UNCHANGED <<db, run_triggers, triggers, todo, completions, waiters,
                       mode, monitors, c2s, s2c, role, idl, applied, faults, sends>>

RawSend(c) ==
    /\ role[c] = "raw"
    /\ conn[c] # 0 /\ sess[Current(c)] # "closed"
    /\ sends.n > 0 /\ sends' = [sends EXCEPT !.n = @ - 1]
    /\ \E msg \in {r \in Requests(c) : r.type \in sends.types} :
           /\ c2s' = [c2s EXCEPT ![Current(c)] = Append(@, msg)]
           /\ app' = [app EXCEPT ![c].open =
                         IF msg.type = "transact" THEN @ + 1 ELSE @]
    /\ UNCHANGED <<server, s2c, role, conn, used, idl, applied, faults>>

(* What a lock message tells its reader. *)
Tells(told, msg) ==
    CASE msg.type = "lock" -> msg.locked
      [] msg.type = "locked" -> TRUE
      [] msg.type \in {"stolen", "unlock"} -> FALSE
      [] OTHER -> told

RawReceive(c) ==
    LET s == Current(c)
        msg == Head(s2c[s])
    IN  /\ role[c] = "raw"
        /\ conn[c] # 0
        /\ s2c[s] # <<>>
        /\ s2c' = [s2c EXCEPT ![s] = Tail(@)]
        /\ app' = [app EXCEPT ![c].told = Tells(@, msg),
                              ![c].open = IF msg.type = "reply"
                                          THEN @ - 1 ELSE @]
        /\ UNCHANGED <<server, c2s, role, conn, used, idl, applied, faults, sends>>

----------------------------------------------------------------------------
(* Connections that end, and faults *)

Exited(c) == IsVsctl(c) /\ ~ Running(c)

(* The client finds the server's end closed, or it exits. *)
ClientCloses(c) ==
    /\ \/ Exited(c)
       \/ /\ Running(c) \/ role[c] = "raw"
          /\ conn[c] # 0 /\ sess[Current(c)] = "closed"
    /\ Disconnect(c)
    /\ UNCHANGED <<role, app, applied, faults, sends>>

(* The server finds the client's end closed. *)
ServerCloses(s) ==
    /\ conn[s[1]] # s[2]
    /\ SessionClose(s)
    /\ UNCHANGED <<role, conn, used, idl, app, applied, faults, sends>>

Strikes(kind, c) == <<kind, c>> \in faults /\ faults' = {}

(* Either end gives up a connection: no answer to a probe, an error of the *)
(* network, a backlog that is too long.                                    *)
ClientCut(c) ==
    /\ Strikes("client", c)
    /\ Running(c) \/ role[c] = "raw"
    /\ Disconnect(c)
    /\ UNCHANGED <<role, app, applied, sends>>

ServerCut(s) ==
    /\ Strikes("session", s[1])
    /\ conn[s[1]] = s[2]
    /\ SessionClose(s)
    /\ UNCHANGED <<role, conn, used, idl, app, applied, sends>>

(* ovs-vswitchd is killed, and started again by its monitor process. *)
KillVswitchd(c) ==
    /\ Strikes("vswitchd", c)
    /\ role[c] = "vswitchd"
    /\ conn' = [conn EXCEPT ![c] = 0]
    /\ s2c' = IF conn[c] = 0 THEN s2c ELSE [s2c EXCEPT ![Current(c)] = <<>>]
    /\ idl' = [idl EXCEPT ![c] = ovsdb_idl_create]
    /\ app' = [app EXCEPT ![c] = Fresh("vswitchd")]
    /\ UNCHANGED <<server, c2s, role, used, applied, sends>>

KillServer ==
    /\ \E c \in Client : Strikes("server", c)
    /\ ServerRestart
    /\ UNCHANGED <<role, conn, used, idl, app, applied, sends>>

----------------------------------------------------------------------------

IdlConnect(c) ==
    /\ Running(c)
    /\ role[c] = "once" => used[c] = 0
    /\ Connect(c)
    /\ UNCHANGED <<role, app, applied, faults, sends>>

IdlReceive(c) ==
    /\ Running(c)
    /\ Receive(c)
    /\ UNCHANGED <<role, app, applied, faults, sends>>

ServerStep ==
    /\ \/ ovsdb_trigger_run
       \/ ovsdb_trigger_try
       \/ \E s \in Session : Accept(s) \/ CompleteDone(s) \/ SessionRun(s)
    /\ UNCHANGED <<role, conn, used, idl, app, applied, faults, sends>>

ClientStep(c) ==
    \/ IdlConnect(c) \/ IdlReceive(c) \/ ClientCloses(c)
    \/ do_vsctl(c) \/ VsctlCommitted(c) \/ VsctlDone(c) \/ VsctlFatal(c)
    \/ BridgeDisable(c) \/ bridge_reconfigure(c) \/ Reconfigured(c)
    \/ Daemonized(c)
    \/ RawConnect(c) \/ RawReceive(c)

Fault ==
    \/ \E c \in Client : ClientCut(c) \/ KillVswitchd(c)
    \/ \E s \in Session : ServerCut(s)
    \/ KillServer

(* What the processes do by themselves. *)
Work ==
    \/ ServerStep
    \/ \E s \in Session : ServerCloses(s)
    \/ \E c \in Client : ClientStep(c)

Next == Work \/ Fault \/ \E c \in Client : RawSend(c)

Spec == Init /\ [][Next]_vars

(* The server wakes at least every five seconds and then serves every      *)
(* session and the triggers, each client runs its loop, and a dead         *)
(* connection is found by a probe if by nothing else.  That some process   *)
(* with work to do goes on is all that is needed of it.                    *)
FairSpec == Spec /\ WF_vars(Work)

----------------------------------------------------------------------------
(* Safety *)

(* Every variable keeps its shape. *)
TypeOK ==
    /\ ServerTypeOK
    /\ IdlTypeOK
    /\ \A c \in Client : app[c] \in Vsctl \cup Vswitchd \cup Raw

OnLine(s) == sess[s] = "open" /\ conn[s[1]] = s[2]

(* What the client will hold, and believe of the lock, once it has read    *)
(* all that was sent to it: the last message that says so.                 *)
LastOf(q, types) ==
    {k \in DOMAIN q : /\ q[k].type \in types
                      /\ \A j \in k+1..Len(q) : q[j].type \notin types}

ReplicaAfter(replica, q) ==
    LET last == LastOf(q, {"update", "monitor"})
    IN  IF last = {} THEN replica ELSE q[CHOOSE k \in last : TRUE].db

ToldAfter(told, q) ==
    LET last == LastOf(q, {"lock", "locked", "stolen", "unlock"})
    IN  IF last = {} THEN told ELSE Tells(told, q[CHOOSE k \in last : TRUE])

(* A replica is never behind by more than what is on its way: with the     *)
(* updates queued for it, a monitoring IDL has the database as it is       *)
(* (ovsdb_jsonrpc_monitor_commit(), ovsdb_idl_parse_update()).             *)
ReplicaInStep ==
    \A s \in monitors :
        OnLine(s) => ReplicaAfter(idl[s[1]].replica, s2c[s]) = db

(* A client that has no lock request of its own under way knows, from what *)
(* it read and what is queued for it, whether it owns the lock: no change  *)
(* of owner goes untold (ovsdb_jsonrpc_session_lock() and _unlock__(),     *)
(* ovsdb_idl_update_has_lock()).                                           *)
LockInStep ==
    \A s \in Session :
        OnLine(s) /\ (\A k \in DOMAIN c2s[s] : c2s[s][k].type \in {"transact", "cancel"})
        => ToldAfter(IF role[s[1]] = "raw" THEN app[s[1]].told
                     ELSE idl[s[1]].has_lock, s2c[s])
           = ovsdb_lock_waiter_is_owner(s)

(* An ovs-vsctl whose connection fails cannot know whether its transaction *)
(* was committed and runs it again.  The columns it verifies keep the      *)
(* second run, and one racing with another ovs-vsctl, from doing anything  *)
(* twice or undoing anything: as many changes as ports.                    *)
ExactlyOnce ==
    (\A c \in Client : role[c] # "raw") => db.next = Cardinality(db.ports)

(* An ovs-vsctl that waited for its change returns only after an           *)
(* ovs-vswitchd had it in its bridges.                                     *)
AppliedBeforeReturn ==
    \A c \in Client : IsVsctl(c) /\ app[c].pc = "done" => c \in applied

(* An ovs-vswitchd that holds the lock and has seen no change since has    *)
(* its bridges configured as its replica says, whatever it gave up while   *)
(* the lock was contended.                                                 *)
BridgesFollow ==
    \A c \in Client :
        MayRun(c) /\ ~ app[c].reconfiguring /\ ~ idl[c].changed
        => app[c].bridges = {idl[c].replica.ports}

(* The server does not go to sleep on a transaction that could be executed *)
(* (db->run_triggers).                                                     *)
NoTriggerOverlooked ==
    todo = <<>> /\ ~ run_triggers =>
        \A k \in DOMAIN triggers :
            ovsdb_execute(triggers[k].s, triggers[k].txn, FALSE) # "ok"

Count(q, t) == Cardinality({k \in DOMAIN q : q[k].type = t})

(* Every transaction of a direct client is accounted for until its reply:  *)
(* it is on its way, waits as a trigger, is completed, or answered, and in *)
(* one of these places only.                                               *)
AnsweredOnce ==
    \A s \in Session :
        OnLine(s) /\ role[s[1]] = "raw" =>
            app[s[1]].open = Count(c2s[s], "transact") + Len(completions[s])
                             + Count(s2c[s], "reply")
                             + Cardinality({k \in DOMAIN triggers : triggers[k].s = s})

(* cur_cfg never goes back, even when another ovs-vswitchd takes over: the *)
(* assertion of the lock stops one that has lost it, whoever gets the lock *)
(* has read every earlier update first, and the other clients write only   *)
(* the columns they change (ovsdb_idl_txn_commit()).                       *)
CurCfgAdvances == [][db'.cur >= db.cur]_vars

(* Liveness *)

Alone == \A c \in Client : role[c] # "raw"

(* As long as connections do not fail for ever, an ovs-vsctl with --retry  *)
(* returns: waiting for change_seqno after TXN_TRY_AGAIN is never a wait   *)
(* for something that has already happened.                                *)
VsctlReturns ==
    (\E c \in Client : role[c] = "vswitchd")
    ~> (\A c \in Client : role[c] = "vsctl" => Exited(c))

(* The configuration reaches ovs-vswitchd: cur_cfg catches up with         *)
(* next_cfg, although bridge_run() ignores the fate of the transaction     *)
(* that writes it.                                                         *)
ConfigReaches ==
    Alone /\ (\E c \in Client : role[c] = "vswitchd") ~> [](db.cur = db.next)
=============================================================================
