------------------------------ MODULE Ofproto ------------------------------
(***************************************************************************)
(* The OpenFlow side of a bridge: ofproto/ofproto.c, ofproto/connmgr.c and *)
(* the expiry loop of ofproto/ofproto-dpif.c.                              *)
(*                                                                         *)
(* The main thread receives the controllers' requests, changes the flow    *)
(* tables for them, reports the changes to the controllers that monitor    *)
(* the tables, and expires flows.  A handler thread changes the tables too *)
(* when a packet reaches a "learn" action.  ofproto_mutex is held for as   *)
(* long as one change takes.                                               *)
(*                                                                         *)
(* A flow is a table and a match; the match Wild covers every other.  The   *)
(* datapath layer, ofproto-dpif, completes every operation at once.        *)
(***************************************************************************)
EXTENDS Integers, Sequences, FiniteSets, FiniteSetsExt, SequencesExt, TLC

CONSTANTS
    Conn,          \* the OpenFlow connections
    Primary,       \* those to the configured controllers, the others being
                   \* service connections
    Table,         \* table numbers, from 0
    Match,         \* matches a flow may have, one of them "any"
    BufferLimit,   \* notifications a connection may have queued, in place of
                   \* ofmonitor_flush()'s 128 kB
    ReplyMax,      \* replies it may have queued: OFCONN_REPLY_MAX
    Generation,    \* generation ids are 0 .. Generation - 1, in place of 2^64
    Scenarios      \* what is checked: the requests that are made, and bounds

ASSUME PrimaryAssumption == Primary \subseteq Conn
ASSUME TableAssumption == 0 \in Table /\ Table \subseteq Nat
ASSUME MatchAssumption == "any" \in Match

VARIABLES
    br,            \* the bridge: struct ofproto and struct connmgr
    main,          \* the main thread, in the expiry loop
    lock,          \* ofproto_mutex: "free", "main" or "handler"
    fault,         \* what has gone wrong for good, or "none"
    env            \* the scenario, with what is left of its bounds

vars == <<br, main, lock, fault, env>>

All == 255    \* in a request, any table
Wild == "any"
None == "none" \* in place of a connection
Gone == [acts |-> "gone", cookie |-> 0]
Flow == [table : Table, match : Match]

(* Whether a request for match m in table t is about flow f, in the loose  *)
(* way: cls_rule_is_loose_match()                                          *)
Selects(t, m, f) == t \in {All, f.table} /\ m \in {Wild, f.match}

(* ofpacts_check(): the actions "goto" are a goto_table to table 1. *)
Valid(acts, t) == acts = "goto" => t < 1

(* struct rule.  The numbers of the events that added it and last changed  *)
(* it, whether it has an operation pending, and whether it has a timeout.  *)
Rule == [acts : {"drop", "out", "goto", "learn"}, cookie : {0, 1},
         add : Nat, mod : Nat, pending : BOOLEAN, timed : BOOLEAN]

(* What an update says of a flow. *)
Content(r) == [acts |-> r.acts, cookie |-> r.cookie]
NoNews == [f \in {} |-> Gone]
Without(fn, S) == [f \in DOMAIN fn \ S |-> fn[f]]

----------------------------------------------------------------------------
(* Connections: struct ofconn *)

(* A connection after ofconn_flush(), with what only the model knows of    *)
(* its controller: the flows it believes in, and those it has been misled  *)
(* about.                                                                  *)
Flushed ==
    [up |-> FALSE, dropped |-> FALSE, role |-> "equal", monitors |-> {},
     paused |-> 0, updates |-> NoNews, out |-> <<>>, reply |-> <<>>,
     blocked |-> <<>>, retry |-> FALSE, opgroups |-> FALSE,
     view |-> NoNews, misled |-> {}]

(* Messages: flow updates and "paused" are counted as notifications, the   *)
(* others as replies.                                                      *)
Msg(kind, news) == [kind |-> kind, news |-> news]
Notification(m) == m.kind \in {"update", "paused"}
Notifications(k) == Len(SelectSeq(k.out, Notification))
Replies(k) == Len(k.out) - Notifications(k)

(* ofconn_send(): rconn_send() drops what is sent while not connected. *)
Sent(k, m) == IF k.up THEN [k EXCEPT !.out = Append(@, m)] ELSE k

Heard(view, m) ==
    LET all == m.news @@ view
    IN  Without(all, {f \in DOMAIN all : all[f] = Gone})

(* What the controller will believe once it has read all that is queued. *)
Belief(k) == FoldLeft(Heard, k.view, k.out)

Watches(k, f, event) ==
    \E m \in k.monitors : event \in m.flags /\ Selects(m.table, Wild, f)

----------------------------------------------------------------------------
(* Reporting changes: ofmonitor_*() *)

(* Slips: a pause that keeps deletions back, and one that lets additions    *)
(* through.                                                                *)
SlipKeepDeletions(k, r, event) == k.paused # 0

SlipLetAdditions(k, r, event) ==
    k.paused # 0 /\ (event = "modified" \/ (event = "deleted" /\ r.add > k.paused))

(* ofmonitor_report(), for one connection and a rule in its new state.     *)
(* While notifications are paused only the deletion of flows that were     *)
(* added before the pause is reported.                                     *)
Unreported(k, r, event) ==
    k.paused # 0 /\ (event # "deleted" \/ r.add > k.paused)

Reported(k, f, r, event) ==
    IF ~ Watches(k, f, event) THEN k
    ELSE IF Unreported(k, r, event)
    THEN [k EXCEPT !.misled = IF event = "deleted" /\ f \in DOMAIN Belief(k)
                              THEN @ \cup {f} ELSE @]
    ELSE [k EXCEPT !.updates =
                       (f :> IF event = "deleted" THEN Gone ELSE Content(r)) @@ @,
                   !.misled = IF \E i \in DOMAIN k.reply : f \in DOMAIN k.reply[i]
                              THEN @ \cup {f} ELSE @ \ {f}]

ofmonitor_report(b, f, event) ==
    LET r == [b.flows[f] EXCEPT
                 !.add = IF event = "added" THEN b.seqno ELSE @,
                 !.mod = IF event = "deleted" THEN @ ELSE b.seqno]
    IN  [b EXCEPT !.flows[f] = r,
                  !.seqno = IF event = "deleted" THEN @ ELSE @ + 1,
                  !.conn = [c \in Conn |-> Reported(b.conn[c], f, r, event)]]

(* A change that is not reported to anyone. *)
Overlooked(b, f) ==
    [b EXCEPT !.conn = [c \in Conn |->
        IF Watches(b.conn[c], f, "modified")
        THEN [b.conn[c] EXCEPT !.misled = @ \cup {f}] ELSE b.conn[c]]]

(* ofmonitor_flush(), for one connection *)
FlushUpdates(c, b) ==
    LET k == Sent([b.conn[c] EXCEPT !.updates = NoNews],
                  Msg("update", b.conn[c].updates))
        pause == k.paused = 0 /\ Notifications(k) > BufferLimit
    IN  CASE b.conn[c].updates = NoNews -> b
          [] pause -> [b EXCEPT !.conn[c] = Sent([k EXCEPT !.paused = b.seqno],
                                                 Msg("paused", NoNews)),
                                !.seqno = @ + 1]
          [] OTHER -> [b EXCEPT !.conn[c] = k]

ofmonitor_flush(b) == FoldSet(FlushUpdates, b, Conn)

(* ofproto_collect_ofmonitor_refresh_rules(): the flows of interest to     *)
(* monitor m, since event number seqno if that is not 0.                   *)
Refresh(b, m, seqno) ==
    {f \in DOMAIN b.flows :
        /\ Selects(m.table, Wild, f)
        /\ \/ seqno = 0
           \/ b.flows[f].add > seqno /\ m.flags \cap {"added", "modified"} # {}
           \/ b.flows[f].mod > seqno /\ "modified" \in m.flags}

(* ofproto_compose_flow_refresh_update() *)
Composed(b, S) == [f \in S |-> Content(b.flows[f])]

(* Collecting asserts that no flow of the monitored tables is pending. *)
RefreshAsserts(b, M) ==
    \E m \in M, f \in DOMAIN b.flows : Selects(m.table, Wild, f) /\ b.flows[f].pending

ofmonitor_may_resume(k) == k.paused # 0 /\ Notifications(k) = 0

(* Slip: the controller is told, but the pause is not taken back. *)
SlipResume(b, c) ==
    LET k == b.conn[c]
        S == UNION {Refresh(b, m, k.paused) : m \in k.monitors}
        told == IF S = {} THEN k ELSE Sent(k, Msg("refresh", Composed(b, S)))
    IN  [b EXCEPT !.conn[c] = [Sent(told, Msg("resumed", NoNews)) EXCEPT !.misled = @ \ S]]

ofmonitor_resume(b, c) ==
    LET k == b.conn[c]
        S == UNION {Refresh(b, m, k.paused) : m \in k.monitors}
        told == IF S = {} THEN k ELSE Sent(k, Msg("refresh", Composed(b, S)))
    IN  [b EXCEPT !.conn[c] = [Sent(told, Msg("resumed", NoNews))
                                  EXCEPT !.paused = 0, !.misled = @ \ S]]

----------------------------------------------------------------------------
(* Operations on the flow tables.  Each yields the bridge and a result:    *)
(* "ok", "error" or "postpone"; where the order in which the code visits   *)
(* flows matters, a set of outcomes.                                       *)

Outcome(b, res) == [b |-> b, res |-> res]

(* ofopgroup_complete(), the end of it: the updates are sent, and if the   *)
(* group belongs to a connection every blocked request gets another try    *)
(* (connmgr_retry()).                                                      *)
Completed(b, c) ==
    LET done == ofmonitor_flush(b)
    IN  IF c = None THEN done
        ELSE [done EXCEPT !.conn = [d \in Conn |->
                 [done.conn[d] EXCEPT !.retry = done.conn[d].blocked # <<>>]]]

(* delete_flows__() and ofproto_rule_delete__(): one group deletes S. *)
delete_flows(b, c, S) ==
    LET told == FoldSet(LAMBDA f, x : ofmonitor_report(x, f, "deleted"), b, S)
    IN  Completed([told EXCEPT !.flows = Without(@, S),
                               !.expirable = SelectSeq(@, LAMBDA f : f \notin S)], c)

(* evict_rules_from_table() and choose_rule_to_evict() *)
RECURSIVE evict_rules(_, _, _)
evict_rules(b, t, extra) ==
    LET in == {f \in DOMAIN b.flows : f.table = t}
        candidates == {f \in in : b.evict /\ b.flows[f].timed}
    IN  CASE Cardinality(in) + extra <= b.limit[t] -> {Outcome(b, "ok")}
          [] Cardinality(in) + extra > b.limit[t] /\ candidates = {} ->
                {Outcome(b, "error")}
          [] OTHER ->
                UNION {IF b.flows[f].pending THEN {Outcome(b, "postpone")}
                       ELSE evict_rules(delete_flows(b, None, {f}), t, extra) :
                       f \in candidates}

(* modify_flows__(): the flows of S, table by table.  The operation of a   *)
(* flow whose actions do not change, or whose cookie does, is reported;    *)
(* see ofopgroup_complete().  When the actions turn out to be invalid in a *)
(* table, the group is abandoned as it is.                                 *)
Modified(r, fm) ==
    [r EXCEPT !.acts = fm.acts,
              !.cookie = IF fm.recook THEN fm.cookie ELSE @,
              !.timed = IF fm.cmd = "add" THEN fm.timed ELSE @]

OnlyModified(r, fm) ==
    fm.cmd # "add" /\ r.acts # fm.acts /\ Modified(r, fm).cookie = r.cookie

modify_flows(b, c, fm, S) ==
    LET bad == {f.table : f \in {f \in S : ~ Valid(fm.acts, f.table)}}
        done == {f \in S : \A t \in bad : f.table < t}
        changed == [b EXCEPT !.flows = [f \in DOMAIN @ |->
                       IF f \in done THEN Modified(@[f], fm) ELSE @[f]]]
        Tell(f, x) ==
            IF OnlyModified(b.flows[f], fm) THEN Overlooked(x, f)
            ELSE ofmonitor_report(x, f, IF fm.cmd = "add" THEN "added" ELSE "modified")
        abandoned == [changed EXCEPT
            !.flows = [f \in DOMAIN @ |->
                          [@[f] EXCEPT !.pending = @ \/ f \in done]],
            !.conn = [d \in Conn |->
                         [changed.conn[d] EXCEPT !.opgroups = @ \/ d = c]]]
    IN  IF bad = {} THEN Outcome(Completed(FoldSet(Tell, changed, S), c), "ok")
        ELSE Outcome(FoldSet(LAMBDA f, x : Overlooked(x, f), abandoned, done), "error")

(* add_flow(): the rule, once there is room for it *)
Inserted(b, c, f, fm) ==
    LET r == [acts |-> fm.acts, cookie |-> fm.cookie, add |-> 0, mod |-> 0,
              pending |-> FALSE, timed |-> fm.timed]
        new == [b EXCEPT !.flows = (f :> r) @@ @,
                         !.expirable = IF fm.timed THEN Append(@, f) ELSE @]
    IN  Completed(ofmonitor_report(new, f, "added"), c)

add_flow(b, c, fm) ==
    LET f == [table |-> IF fm.table = All THEN 0 ELSE fm.table, match |-> fm.match]
    IN  IF f \in DOMAIN b.flows
        THEN {IF b.flows[f].pending THEN Outcome(b, "postpone")
              ELSE modify_flows(b, c, [fm EXCEPT !.recook = TRUE], {f})}
        ELSE IF ~ Valid(fm.acts, f.table) THEN {Outcome(b, "error")}
        ELSE {IF e.res = "ok" THEN Outcome(Inserted(e.b, c, f, fm), "ok") ELSE e :
              e \in evict_rules(b, f.table, 1)}

(* collect_rules_loose(): the search stops at a pending flow, in the       *)
(* tables one by one; the last table with a matching flow decides on the   *)
(* error.                                                                  *)
collect_rules_loose(b, fm) ==
    LET found == {f \in DOMAIN b.flows : Selects(fm.table, fm.match, f)}
        pending == {f \in found : b.flows[f].pending}
        last == Max({f.table : f \in found})
        stopped == {f \in found : \E g \in pending : g.table = f.table}
    IN  IF \E f \in pending : f.table = last
        THEN {[res |-> "postpone", rules |-> {}]}
        ELSE {[res |-> "ok", rules |-> (found \ stopped) \cup S] :
              S \in SUBSET (stopped \ pending)}

collect_rules_strict(b, fm) ==
    LET found == {f \in DOMAIN b.flows :
                     fm.table \in {All, f.table} /\ fm.match = f.match}
    IN  {[res |-> IF \E f \in found : b.flows[f].pending THEN "postpone" ELSE "ok",
          rules |-> found]}

Collect(b, fm) ==
    IF fm.strict THEN collect_rules_strict(b, fm) ELSE collect_rules_loose(b, fm)

(* modify_flows_loose() and modify_flow_strict(), with modify_flows_add() *)
Modify(b, c, fm) ==
    UNION {CASE r.res # "ok" -> {Outcome(b, r.res)}
             [] r.res = "ok" /\ r.rules = {} -> add_flow(b, c, fm)
             [] r.res = "ok" /\ r.rules # {} ->
                   IF fm.strict /\ Cardinality(r.rules) > 1 THEN {Outcome(b, "ok")}
                   ELSE {modify_flows(b, c, fm, r.rules)} :
           r \in Collect(b, fm)}

(* delete_flows_loose() and delete_flow_strict() *)
Delete(b, c, fm) ==
    {IF r.res # "ok" \/ r.rules = {} THEN Outcome(b, r.res)
     ELSE Outcome(delete_flows(b, c, r.rules), "ok") : r \in Collect(b, fm)}

(* handle_flow_mod__() *)
flow_mod(b, c, fm) ==
    CASE fm.cmd = "add" -> add_flow(b, c, fm)
      [] fm.cmd = "modify" -> Modify(b, c, fm)
      [] fm.cmd = "delete" -> Delete(b, c, fm)

----------------------------------------------------------------------------
(* Requests: handle_openflow__() *)

(* Slip: the role is not looked at again when a request is retried. *)
SlipReject(k, c) == c \in Primary /\ k.role = "slave" /\ k.blocked = <<>>

reject_slave_controller(k, c) == c \in Primary /\ k.role = "slave"

handle_flow_mod(b, c, m) ==
    IF reject_slave_controller(b.conn[c], c) THEN {Outcome(b, "error")}
    ELSE flow_mod(b, c, m)

(* ofconn_set_master_election_id(): the difference, as a signed number *)
StaleId(b, id) ==
    b.election # {} /\ \E last \in b.election :
        (id - last) % Generation >= Generation \div 2

(* Slip: the former master is not made a slave. *)
SlipRole(b, c, role) == [b EXCEPT !.conn[c].role = role]

(* ofconn_set_role() *)
WithRole(b, c, role) ==
    [b EXCEPT !.conn = [d \in Conn |->
        CASE d = c -> [b.conn[d] EXCEPT !.role = role]
          [] d # c /\ role = "master" /\ d \in Primary /\ b.conn[d].role = "master" ->
                [b.conn[d] EXCEPT !.role = "slave"]
          [] OTHER -> b.conn[d]]]

Replied(b, c, m) == [b EXCEPT !.conn[c] = Sent(@, m)]

handle_role_request(b, c, m) ==
    CASE b.conn[c].role # m.role /\ b.conn[c].opgroups -> {Outcome(b, "postpone")}
      [] ~ (b.conn[c].role # m.role /\ b.conn[c].opgroups)
         /\ \E id \in m.id : StaleId(b, id) -> {Outcome(b, "error")}
      [] OTHER -> {Outcome(Replied(WithRole([b EXCEPT !.election =
                                                IF m.id = {} THEN @ ELSE m.id],
                                            c, m.role),
                                   c, Msg("reply", NoNews)), "ok")}

handle_barrier_request(b, c) ==
    IF b.conn[c].opgroups THEN {Outcome(b, "postpone")}
    ELSE {Outcome(Replied(b, c, Msg("reply", NoNews)), "ok")}

(* handle_flow_monitor_request(), up to where it releases ofproto_mutex:   *)
(* the reply is composed, and still to be sent.                            *)
handle_flow_monitor_request(b, c, m) ==
    LET new == [b EXCEPT !.conn[c].monitors = @ \cup {m.monitor}]
        S == IF "initial" \in m.monitor.flags THEN Refresh(b, m.monitor, 0) ELSE {}
    IN  CASE \E n \in b.conn[c].monitors : n.id = m.monitor.id -> {Outcome(b, "error")}
          [] OTHER ->
              IF "initial" \in m.monitor.flags /\ RefreshAsserts(b, {m.monitor})
              THEN {Outcome(b, "assert")}
              ELSE {Outcome([new EXCEPT !.conn[c].reply = <<Composed(b, S)>>,
                                        !.conn[c].misled = @ \ S], "ok")}

(* handle_flow_monitor_cancel(), and the controller, which forgets about   *)
(* flows that it no longer monitors.                                       *)
handle_flow_monitor_cancel(b, c, m) ==
    LET k == b.conn[c]
        left == {n \in k.monitors : n.id # m.id}
        unwatched == {f \in Flow : \A n \in left : ~ Selects(n.table, Wild, f)}
    IN  IF left = k.monitors THEN {Outcome(b, "error")}
        ELSE {Outcome([b EXCEPT !.conn[c].monitors = left,
                  !.conn[c].view = Without(@, unwatched),
                  !.conn[c].misled = @ \ unwatched,
                  !.conn[c].out = [i \in DOMAIN @ |->
                     [@[i] EXCEPT !.news = Without(@, unwatched)]]], "ok")}

Handle(b, c, m) ==
    CASE m.type = "flow_mod" -> handle_flow_mod(b, c, m)
      [] m.type = "role" -> handle_role_request(b, c, m)
      [] m.type = "barrier" -> handle_barrier_request(b, c)
      [] m.type = "monitor" -> handle_flow_monitor_request(b, c, m)
      [] m.type = "cancel" -> handle_flow_monitor_cancel(b, c, m)

----------------------------------------------------------------------------
(* The main thread: ofproto_run() and connmgr_run() *)

Idle == [pc |-> "run", rule |-> <<>>, next |-> <<>>, freed |-> {}]
Free == lock = "free" /\ fault = "none"
MainIdle == Free /\ main = Idle /\ \A c \in Conn : br.conn[c].reply = <<>>
Spend(bound) == env[bound] > 0 /\ env' = [env EXCEPT ![bound] = @ - 1]

Init ==
    /\ env \in Scenarios
    /\ br = [flows |-> NoNews, expirable |-> <<>>, seqno |-> 1, state |-> "openflow",
             limit |-> env.limit, evict |-> env.evict, election |-> {},
             conn |-> [c \in Conn |-> [Flushed EXCEPT !.up = c \in env.conns]]]
    /\ main = Idle
    /\ lock = "free"
    /\ fault = "none"

(* ofconn_run(): a request, the blocked one if there is one *)
Offered(c) ==
    CASE br.conn[c].blocked # <<>> -> Range(br.conn[c].blocked)
      [] br.conn[c].blocked = <<>> /\ env.requests[c] # <<>> -> Head(env.requests[c])
      [] OTHER -> {}

ofconn_may_recv(k) == (k.blocked = <<>> \/ k.retry) /\ Replies(k) < ReplyMax

ofconn_run(c, m) ==
    /\ MainIdle /\ br.state = "openflow"
    /\ br.conn[c].up /\ ofconn_may_recv(br.conn[c])
    /\ env' = IF br.conn[c].blocked = <<>>
              THEN [env EXCEPT !.requests[c] = Tail(@)] ELSE env
    /\ \E o \in Handle(br, c, m) :
        /\ br' = CASE o.res = "ok" -> [o.b EXCEPT !.conn[c].blocked = <<>>]
                   [] o.res = "error" ->
                        Replied([o.b EXCEPT !.conn[c].blocked = <<>>], c,
                                Msg("reply", NoNews))
                   [] o.res = "postpone" ->
                        [o.b EXCEPT !.conn[c].blocked = <<m>>, !.conn[c].retry = FALSE]
                   [] OTHER -> o.b
        /\ fault' = IF o.res = "assert" THEN "assert" ELSE fault
    /\ UNCHANGED <<main, lock>>

(* handle_flow_monitor_request(), its last statement *)
SendReply(c) ==
    /\ fault = "none"
    /\ br.conn[c].reply # <<>>
    /\ br' = [br EXCEPT !.conn[c] = [Sent(@, Msg("reply", @.reply[1])) EXCEPT !.reply = <<>>]]
    /\ UNCHANGED <<main, lock, fault, env>>

(* ofmonitor_run() *)
Resume(c) ==
    /\ MainIdle
    /\ ofmonitor_may_resume(br.conn[c])
    /\ IF RefreshAsserts(br, br.conn[c].monitors)
       THEN fault' = "assert" /\ br' = br
       ELSE fault' = fault /\ br' = ofmonitor_resume(br, c)
    /\ UNCHANGED <<main, lock, env>>

(* The connection drops: rconn_disconnect(), by whichever thread noticed,  *)
(* with what was queued.                                                   *)
Drop(c) ==
    /\ fault = "none"
    /\ br.conn[c].up
    /\ Spend("drops")
    /\ br' = [br EXCEPT !.conn[c].up = FALSE, !.conn[c].dropped = TRUE,
                        !.conn[c].out = <<>>, !.conn[c].view = NoNews]
    /\ UNCHANGED <<main, lock, fault>>

(* ofconn_run() of a connection that is down: ofconn_flush(), or           *)
(* ofconn_destroy() if it was a service connection.  If its notifications  *)
(* were paused, ofmonitor_run() ends that before it can be up again.       *)
ofconn_flush(c) ==
    /\ MainIdle
    /\ br.conn[c].dropped
    /\ br' = [br EXCEPT !.conn[c] = Flushed]
    /\ UNCHANGED <<main, lock, fault, env>>

Connect(c) ==
    /\ fault = "none"
    /\ ~ br.conn[c].up /\ ~ br.conn[c].dropped
    /\ Spend("connects")
    /\ br' = [br EXCEPT !.conn[c].up = TRUE]
    /\ UNCHANGED <<main, lock, fault>>

(* ofproto_configure_table(): a new limit for a table *)
ofproto_configure_table(t, n) ==
    /\ MainIdle
    /\ Spend("configs")
    /\ br' = [br EXCEPT !.limit[t] = n,
                        !.state = IF @ = "openflow" /\ br.evict /\
                                     Cardinality({f \in DOMAIN br.flows : f.table = t}) > n
                                  THEN "evict" ELSE @]
    /\ UNCHANGED <<main, lock, fault>>

(* ofproto_run() in state S_EVICT: ofproto_evict(), table by table *)
RECURSIVE EvictTables(_, _)
EvictTables(b, T) ==
    IF T = {} THEN {b}
    ELSE LET t == Min(T)
         IN  UNION {EvictTables(o.b, T \ {t}) : o \in evict_rules(b, t, 0)}

ofproto_evict ==
    /\ MainIdle /\ br.state = "evict"
    /\ \E b \in EvictTables(br, Table) : br' = [b EXCEPT !.state = "openflow"]
    /\ UNCHANGED <<main, lock, fault, env>>

(* ofproto_flush_flows() *)
ofproto_flush_flows ==
    /\ MainIdle
    /\ Spend("flushes")
    /\ br' = [br EXCEPT !.state = "flush"]
    /\ UNCHANGED <<main, lock, fault>>

(* ofproto_run() in state S_FLUSH: ofproto_flush__(), a group for each     *)
(* flow without a pending operation.                                       *)
ofproto_flush ==
    LET S == {f \in DOMAIN br.flows : ~ br.flows[f].pending}
        deleted == FoldSet(LAMBDA f, b : delete_flows(b, None, {f}), br, S)
    IN  /\ MainIdle /\ br.state = "flush"
        /\ br' = [deleted EXCEPT !.state = "openflow"]
        /\ UNCHANGED <<main, lock, fault, env>>

----------------------------------------------------------------------------
(* Expiry: expire() of ofproto-dpif.c, rule_expire() and                   *)
(* ofproto_rule_expire().  The loop keeps a pointer to the next rule while *)
(* it works on one; "freed" are the flows removed from under it.           *)

After(seq, f) ==
    LET i == CHOOSE i \in DOMAIN seq : seq[i] = f
    IN  IF i = Len(seq) THEN <<>> ELSE <<seq[i + 1]>>

Visit(seq, at) ==
    [pc |-> "visit", rule |-> at, freed |-> {},
     next |-> IF at = <<>> THEN <<>> ELSE After(seq, at[1])]

expire ==
    /\ MainIdle
    /\ br.expirable # <<>>
    /\ Spend("sweeps")
    /\ lock' = "main"
    /\ main' = Visit(br.expirable, <<br.expirable[1]>>)
    /\ UNCHANGED <<br, fault>>

(* The loop has reached the end of the list. *)
ExpireDone ==
    /\ fault = "none"
    /\ main.pc = "visit" /\ main.rule = <<>>
    /\ lock' = "free"
    /\ main' = Idle
    /\ UNCHANGED <<br, fault, env>>

Visiting(f) == fault = "none" /\ main.pc = "visit" /\ main.rule = <<f>>

(* rule_expire(): the rule is pending, which it asserts not to be, *)
ExpireAsserts(f) ==
    /\ Visiting(f) /\ br.flows[f].pending
    /\ fault' = "assert"
    /\ UNCHANGED <<br, main, lock, env>>

(* or it has not expired, *)
NotExpired(f) ==
    /\ Visiting(f) /\ ~ br.flows[f].pending
    /\ main' = Visit(br.expirable, main.next)
    /\ UNCHANGED <<br, lock, fault, env>>

(* or it has, and has no actions, *)
rule_expire(f) ==
    /\ Visiting(f) /\ ~ br.flows[f].pending
    /\ br.flows[f].timed /\ br.flows[f].acts = "drop"
    /\ LET b == delete_flows(br, None, {f})
       IN  br' = b /\ main' = Visit(b.expirable, main.next)
    /\ UNCHANGED <<lock, fault, env>>

(* or it has and has actions: ofproto_mutex is released, *)
ExpireUnlock(f) ==
    /\ Visiting(f) /\ ~ br.flows[f].pending
    /\ br.flows[f].timed /\ br.flows[f].acts # "drop"
    /\ lock' = "free"
    /\ main' = [main EXCEPT !.pc = IF br.flows[f].acts = "learn" THEN "act" ELSE "relock"]
    /\ UNCHANGED <<br, fault, env>>

Removed(b) == {f \in DOMAIN br.flows : f \notin DOMAIN b.flows}

(* the first action changes the flow tables if it is a "learn" or a        *)
(* "timeout_act",                                                          *)
ExpireAct ==
    /\ Free /\ main.pc = "act"
    /\ \E fm \in env.learns : \E o \in flow_mod(br, None, fm) :
        /\ br' = o.b
        /\ main' = [main EXCEPT !.pc = "relock", !.freed = @ \cup Removed(o.b)]
    /\ UNCHANGED <<lock, fault, env>>

(* and the mutex is taken back, if no one else has it; either way the rule *)
(* is deleted.  Without the mutex, or with a rule that has been freed, the *)
(* outcome is undefined.                                                   *)
ExpireRelock ==
    /\ fault = "none" /\ main.pc = "relock"
    /\ LET b == delete_flows(br, None, Range(main.rule))
           broken == CASE lock # "free" -> "unlocked"
                       [] lock = "free" /\ main.freed \cap Range(main.rule \o main.next) # {} ->
                             "freed"
                       [] OTHER -> "none"
       IN  /\ fault' = broken
           /\ lock' = IF lock = "free" THEN "main" ELSE lock
           /\ br' = IF broken = "none" THEN b ELSE br
           /\ main' = IF broken = "none" THEN Visit(b.expirable, main.next) ELSE main
    /\ UNCHANGED env

----------------------------------------------------------------------------
(* The handler thread: ofproto_flow_mod() from a "learn" action *)

HandlerLock ==
    /\ Free
    /\ Spend("learns_left")
    /\ lock' = "handler"
    /\ UNCHANGED <<br, main, fault>>

ofproto_flow_mod ==
    /\ fault = "none" /\ lock = "handler"
    /\ \E fm \in env.learns : \E o \in flow_mod(br, None, fm) :
        /\ br' = o.b
        /\ main' = [main EXCEPT !.freed = IF main.pc = "run" THEN @ ELSE @ \cup Removed(o.b)]
    /\ lock' = "free"
    /\ UNCHANGED <<fault, env>>

(* A message leaves the queue, and the controller reads it. *)
Deliver(c) ==
    /\ fault = "none"
    /\ br.conn[c].out # <<>>
    /\ br' = [br EXCEPT !.conn[c].view = Heard(@, Head(br.conn[c].out)),
                        !.conn[c].out = Tail(@)]
    /\ UNCHANGED <<main, lock, fault, env>>

MainStep ==
    \/ \E c \in Conn : SendReply(c) \/ Resume(c) \/ ofconn_flush(c)
    \/ ofproto_evict \/ ofproto_flush
    \/ ExpireDone \/ ExpireAct \/ ExpireRelock
    \/ \E f \in Flow : ExpireAsserts(f) \/ NotExpired(f) \/ rule_expire(f) \/ ExpireUnlock(f)

Next ==
    \/ MainStep \/ expire
    \/ \E c \in Conn : \/ Drop(c) \/ Connect(c) \/ Deliver(c)
                       \/ \E m \in Offered(c) : ofconn_run(c, m)
    \/ \E t \in Table, n \in env.limits : ofproto_configure_table(t, n)
    \/ ofproto_flush_flows
    \/ HandlerLock \/ ofproto_flow_mod

(* What does not depend on the outside: the threads carry on, and the      *)
(* controllers read what they are sent.  CanProgress says when one of      *)
(* these steps can be taken.                                               *)
Progress == MainStep \/ ofproto_flow_mod \/ \E c \in Conn : Deliver(c)

CanProgress ==
    /\ fault = "none"
    /\ \/ lock = "handler"
       \/ main.pc # "run"
       \/ br.state # "openflow"
       \/ \E c \in Conn : LET k == br.conn[c]
                          IN  k.reply # <<>> \/ k.out # <<>> \/ k.dropped \/ ofmonitor_may_resume(k)

Spec == Init /\ [][Next]_vars /\ ([]<>(~ CanProgress) \/ []<><<Progress>>_vars)

----------------------------------------------------------------------------
TypeOK ==
    /\ DOMAIN br.flows \subseteq Flow
    /\ \A f \in DOMAIN br.flows : br.flows[f] \in Rule
    /\ Range(br.expirable) \subseteq DOMAIN br.flows
    /\ \A c \in Conn : br.conn[c].updates = NoNews
    /\ lock \in {"free", "main", "handler"}
    /\ fault \in {"none", "assert", "unlocked", "freed"}

(* A controller that monitors a table in full, from its present contents,  *)
(* ends up believing what is true of every flow: once it has read what is  *)
(* queued for it, it knows of each flow with its actions and its cookie,   *)
(* and of no others.  While its notifications are paused that is so for    *)
(* the flows that have not changed since.  Excepted are the flows it has   *)
(* been misled about: those that were changed without a report, those that *)
(* were replaced while notifications were paused and then deleted, and     *)
(* those that changed while the reply to its request was being sent.       *)
Full(m) == {"initial", "added", "modified", "deleted"} \subseteq m.flags

MonitorsFollow ==
    \A c \in Conn : \A m \in br.conn[c].monitors : \A f \in Flow :
        LET k == br.conn[c]
            belief == Belief(k)
            settled == f \in DOMAIN br.flows =>
                           k.paused = 0 \/ br.flows[f].mod <= k.paused
        IN  k.up /\ k.reply = <<>> /\ Full(m) /\ Selects(m.table, Wild, f)
            /\ f \notin k.misled /\ settled
            => /\ f \in DOMAIN belief <=> f \in DOMAIN br.flows
               /\ f \in DOMAIN belief => belief[f] = Content(br.flows[f])

(* Whatever a controller fails to read, the notifications queued for it    *)
(* are bounded by the limit, the message that exceeds it, the word that    *)
(* they are paused, and one deletion for each flow.                        *)
QueueBounded ==
    \A c \in Conn :
        Notifications(br.conn[c]) <= BufferLimit + 2 + Cardinality(Flow)

(* At most one of the configured controllers is master, and the requests   *)
(* of one that has been made a slave change no flow, also when they were   *)
(* received while it was not one and are only retried.                     *)
OneMaster ==
    Cardinality({c \in Primary : br.conn[c].role = "master"}) <= 1

SlavesWriteNothing ==
    [][\A c \in Primary : \A m \in Offered(c) :
          br.conn[c].role = "slave" /\ ofconn_run(c, m)
          => br'.flows = br.flows]_vars

(* Notifications do not stay paused once the controller has read what is   *)
(* queued for it.                                                          *)
PauseEnds ==
    []<>(fault # "none" \/ \A c \in Conn : br.conn[c].paused = 0)

============================================================================
