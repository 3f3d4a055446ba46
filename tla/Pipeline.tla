-------------------------------- MODULE Pipeline --------------------------------
(* The segmented table pipeline of this fork: how one translation           *)
(* (ofproto/ofproto-dpif-xlate.c) walks the ingress, production and egress   *)
(* tables, and how the actions increment_table_id, learn_learn and           *)
(* learn_delete of other translations, run by other threads at the same      *)
(* time, move the counters and the flows it depends on.                      *)
(*                                                                           *)
(* A translation is a recursive C function.  Its stack is explicit here: a   *)
(* sequence of frames, the running one first.  Threads interleave between    *)
(* any two accesses to what they share: the two atomic counters, the         *)
(* classifiers, and the flow tables behind ofproto_mutex.                    *)
EXTENDS Naturals, Sequences, FiniteSets

CONSTANTS
    Handler,        \* the handler threads
    Main,           \* the main thread
    Flow,           \* the classes of packets
    Production,     \* SIMON_TABLE_PRODUCTION_START, 150
    Egress,         \* SIMON_TABLE_EGRESS_START, 200
    Internal,       \* TBL_INTERNAL, 254, the last table
    Width,          \* a counter is a uint8_t: 256
    MaxRecursion,   \* MAX_RESUBMIT_RECURSION, 256
    Scenarios       \* the flow tables and arrivals to start from

ASSUME TablesAssumption ==
    /\ Production \in Nat /\ Egress \in Nat /\ Internal \in Nat /\ Width \in Nat
    /\ 1 < Production /\ Production < Egress /\ Egress < Internal /\ Internal < Width - 1
    /\ MaxRecursion \in Nat

VARIABLES
    rules,      \* rules[t][f], the actions table t has for f: <<>> or <<actions>>
    counter,    \* atomic_table_id_ingress and atomic_table_id_egress
    thread,     \* the translation each thread is at
    arriving,   \* what there is still to translate: a bound on the model
    atomic,     \* ghost: the flows learn_learn put in a table it took from a counter
    wrapped     \* ghost: the counters that have overflowed

vars == <<rules, counter, thread, arriving, atomic, wrapped>>

Thread == Handler \cup {Main}
Table == 0 .. Internal
AllTables == Width - 1  \* 255, which stands for all tables in a flow_mod
Spec_ == {"INGRESS", "EGRESS"}

IsIngress(t) == t < Production
IsProduction(t) == Production <= t /\ t < Egress
IsEgress(t) == Egress <= t /\ t < Internal

--------------------------------------------------------------------------------
(* Frames and actions.  An action is a record of the same fields whatever    *)
(* its type: "spec" is the port of an output, whether a "ttl" action (which  *)
(* sets or decrements a TTL) has a controller to tell when it cannot, or how *)
(* a learn_learn or a learn_delete finds its table; "table" is the table of  *)
(* a resubmit, or the one of a learn_learn that names it; "flow" is whose    *)
(* flow a learn_learn installs, with the actions "acts", or a learn_delete   *)
(* deletes.                                                                  *)

Action(type, spec, table, flow, acts) ==
    [type |-> type, spec |-> spec, table |-> table, flow |-> flow, acts |-> acts]

\* xlate_table_action(), about to look up 'table' with 'depth' rules entered, after
\* loading 'status' in register 1 unless that is "kept".
Call(table, depth, may_packet_in, status) ==
    [kind |-> "table", table |-> table, depth |-> depth, may_packet_in |-> may_packet_in,
     status |-> status]

\* xlate_table_action() after the rule it found, if any.
Continuation(f) == [f EXCEPT !.kind = "next"]

\* do_xlate_actions(), about to run 'acts'; 'drop' tells that there are none to start with.
Body(table, depth, acts, rule) ==
    [kind |-> "acts", table |-> table, depth |-> depth, acts |-> acts, rule |-> rule,
     resubmit_done |-> FALSE, drop |-> acts = <<>>]

\* ofproto_dpif_flow_mod(), about to take ofproto_mutex for what 'a' does to 'table'.
FlowMod(table, a) == [kind |-> "mod", table |-> table, act |-> a]

Controller == Action("controller", "CONTROLLER", 0, CHOOSE f \in Flow : TRUE, <<>>)

Top(x) == Head(x.stack)
Replace(x, frames) == [x EXCEPT !.stack = frames \o Tail(@)]
Return(x) == Replace(x, <<>>)

Blank == [hi |-> 0, lo |-> 0]

\* A thread between translations.  The last five fields are ghosts: the tables
\* looked up, the tables that held an atomic flow for the packet ever since the start, the
\* egress passes made, whether the automatic chain was left, and
\* whether the recursion limit cut something off.
Idle ==
    [kind |-> "idle", flow |-> CHOOSE f \in Flow : TRUE, stack |-> <<>>,
     may_learn |-> FALSE, may_increment |-> FALSE, exit |-> FALSE, slow |-> FALSE,
     status |-> "none", key |-> Blank, src |-> Blank, reg |-> Blank,
     seen |-> {}, owed |-> {}, judged |-> <<>>,
     diverted |-> FALSE, cut |-> FALSE]

--------------------------------------------------------------------------------
(* Starting a translation.                                                   *)

\* xlate_in_init() and the start of xlate_actions().  An arrival e is a packet of class
\* e.flow with source address e.src; its kind says who translates it and why:
\*   "miss"         execute_flow_miss(), first without the packet,
\*   "packet"       ... and then with it if the first translation said it is slow,
\*   "account"      facet_learn(), for packets the datapath has forwarded,
\*   "revalidate"   facet_revalidate(),
\*   "packet_out"   packet_out() from a controller, with actions of its own.
Translate(e, owed) ==
    [Idle EXCEPT !.kind = e.kind, !.flow = e.flow, !.src = e.src, !.key = e.src, !.owed = owed,
                 !.may_learn = e.kind # "revalidate",
                 !.may_increment = e.kind \in {"packet", "packet_out"},
                 !.diverted = e.kind = "packet_out",
                 !.status = IF e.kind = "packet_out" THEN "xid" ELSE "none",
                 !.stack = << IF e.kind = "packet_out" THEN Body(0, 0, e.acts, FALSE)
                                                       ELSE [kind |-> "first"] >>]

Owed(flow) == {t \in Table : flow \in atomic[t]}

Start(i) ==
    /\ thread[i].kind = "idle"
    /\ \E e \in DOMAIN arriving :
        /\ arriving[e] > 0
        /\ e.kind = "miss" <=> i \in Handler
        /\ arriving' = [arriving EXCEPT ![e] = @ - 1]
        /\ thread' = [thread EXCEPT ![i] = Translate(e, Owed(e.flow))]
    /\ UNCHANGED <<rules, counter, atomic, wrapped>>

\* The initial lookup, in table 0, and the start of do_xlate_actions() on what it found:
\* without a flow, the rule that sends the packet to the controller.
LookupFirst(x) ==
    LET rule == rules[0][x.flow]
    IN  [Replace(x, << Body(0, 0, IF rule = <<>> THEN <<Controller>> ELSE rule[1], TRUE) >>)
            EXCEPT !.seen = @ \cup {0}]

First(i) ==
    /\ thread[i].stack # <<>> /\ Top(thread[i]).kind = "first"
    /\ thread' = [thread EXCEPT ![i] = LookupFirst(thread[i])]
    /\ UNCHANGED <<rules, counter, arriving, atomic, wrapped>>

--------------------------------------------------------------------------------
(* xlate_table_action().                                                     *)

\* The source address the registers were loaded with equals the current one, as computed:
\* SIMON_REG16_HI takes the upper half of register 8 down by 8 bits and not by 16.
EqualSource(x) == x.reg.hi * 256 = x.src.hi /\ x.reg.lo = x.src.lo

\* do_egress_compare() leaves results in the registers the inputs were in.  For the source
\* address those are ip_src == ip_src', in the lower half of register 8, and
\* ip_src == ip_dst', in register 9.
do_egress_compare(x) ==
    [x EXCEPT !.reg = Blank,
              !.judged = Append(@, [status |-> x.status, equal |-> EqualSource(x),
                                    really |-> x.reg = x.src])]

Loaded(x, f) == IF f.status = "kept" THEN x ELSE [x EXCEPT !.status = f.status]

Compared(x, f) == IF f.table = Egress THEN do_egress_compare(x) ELSE x

\* The actions found in the table: without a flow, only a call that may send the packet to
\* the controller finds any, and only in a production table.
Found(x, f) ==
    IF rules[f.table][x.flow] # <<>> THEN rules[f.table][x.flow]
    ELSE IF f.may_packet_in /\ IsProduction(f.table) THEN << <<Controller>> >> ELSE <<>>

Entered(x, f) ==
    LET found == Found(x, f)
        body == IF found = <<>> THEN <<>> ELSE << Body(f.table, f.depth + 1, found[1], TRUE) >>
    IN  [Replace(x, body \o <<Continuation(f)>>) EXCEPT !.seen = @ \cup {f.table}]

LookupTable(x) ==
    LET f == Top(x)
    IN  IF f.depth < MaxRecursion THEN Entered(Compared(Loaded(x, f), f), f)
        ELSE [Return(Loaded(x, f)) EXCEPT !.cut = TRUE]

Lookup(i) ==
    /\ thread[i].stack # <<>> /\ Top(thread[i]).kind = "table"
    /\ thread' = [thread EXCEPT ![i] = LookupTable(thread[i])]
    /\ UNCHANGED <<rules, counter, arriving, atomic, wrapped>>

\* Slips: the last table of a block is left out; the ingress walk does not move on.
SlipLastTable(table) ==
    IF IsIngress(table)
    THEN << IF table + 1 < counter["INGRESS"] THEN table + 1 ELSE Production >>
    ELSE IF IsEgress(table) /\ table - Egress < counter["EGRESS"]
         THEN << table + 1 >>
         ELSE <<>>

SlipSameTable(table) ==
    IF IsIngress(table)
    THEN << IF table < counter["INGRESS"] THEN table ELSE Production >>
    ELSE IF IsEgress(table) /\ table - Egress < counter["EGRESS"]
         THEN << table + 1 >>
         ELSE <<>>

\* The automatic resubmit: the table to go on with after 'table', with the counter of its
\* block read now, as a sequence of at most one.
NextTable(table) ==
    IF IsIngress(table)
    THEN << IF table < counter["INGRESS"] THEN table + 1 ELSE Production >>
    ELSE IF IsEgress(table) /\ table - Egress < counter["EGRESS"]
         THEN << table + 1 >>
         ELSE <<>>

Continued(x) ==
    LET f == Top(x)
        t == NextTable(f.table)
    IN  Replace(x, IF t = <<>> THEN <<>> ELSE << Call(t[1], f.depth, f.may_packet_in, "kept") >>)

Continue(i) ==
    /\ thread[i].stack # <<>> /\ Top(thread[i]).kind = "next"
    /\ thread' = [thread EXCEPT ![i] = Continued(thread[i])]
    /\ UNCHANGED <<rules, counter, arriving, atomic, wrapped>>

--------------------------------------------------------------------------------
(* do_xlate_actions().                                                       *)

Outputs == {"output", "enqueue", "output_reg", "bundle"}

SendsPacketIn(a) == a.type \in Outputs \cup {"controller"} /\ a.spec = "CONTROLLER"

\* The calls that translating action 'a' itself makes; xlate_output_action() makes those of
\* an output of any kind.
Resubmits(a, f) ==
    CASE a.type = "resubmit" ->
            << Call(IF a.spec = "RULE" THEN f.table ELSE a.table, f.depth, FALSE, "kept") >>
      [] a.type = "goto" -> << Call(a.table, f.depth, TRUE, "kept") >>
      [] a.type \in Outputs /\ a.spec = "TABLE" ->
            << Call(0, f.depth, a.type = "output", "kept") >>
      [] a.type \in Outputs /\ a.spec = "EGRESS" ->
            << Call(Egress, f.depth, a.type = "output", "kept") >>
      [] OTHER -> <<>>

\* The call that follows a terminal action in a production table.  The cases of the other
\* outputs (enqueue, output_reg, bundle) do nothing.
do_xlate_egress_action(a, f) ==
    IF IsProduction(f.table) /\ a.type \in {"output", "controller"}
    THEN << Call(Egress, f.depth, FALSE, a.spec) >>
    ELSE <<>>

\* Actions that touch nothing shared.
Executed(x) ==
    LET f == Top(x)
        a == Head(f.acts)
        rest == [f EXCEPT !.acts = Tail(@), !.resubmit_done = @ \/ a.type = "resubmit"]
    IN  [Replace(x, Resubmits(a, f) \o do_xlate_egress_action(a, f) \o <<rest>>)
            EXCEPT !.exit = @ \/ a.type = "exit",
                   !.slow = @ \/ a.type = "increment" \/ SendsPacketIn(a),
                   !.reg = IF a.type = "load" THEN x.src ELSE @,
                   !.src = IF a.type = "set_src" THEN Blank ELSE @,
                   !.diverted = @ \/ (f.table = 0 /\ a.type = "resubmit")]

\* do_xlate_actions() returns at once from a DEC_TTL or DEC_MPLS_TTL of a packet whose TTL
\* has run out, after a packet-in, and from a SET_MPLS_TTL of a packet without MPLS.
Stopped(x) ==
    LET f == Top(x)
        tells == Head(f.acts).spec = "CONTROLLER"
    IN  [Return(x)
            EXCEPT !.slow = @ \/ tells,
                   !.diverted = @ \/ f.table = 0]

\* xlate_learn_action(), xlate_learn_learn_action() and xlate_learn_delete_action()
\* compose the flow_mod, with the counter read now; the table number is a uint8_t.
LearnTable(a, f) ==
    CASE a.spec = "INGRESS" -> counter["INGRESS"]
      [] a.spec = "EGRESS" -> (Egress + counter["EGRESS"]) % Width
      [] a.spec = "RULE" -> f.table
      [] OTHER -> a.table

Composed(x) ==
    LET f == Top(x)
        a == Head(f.acts)
    IN  Replace(x, << FlowMod(LearnTable(a, f), a), [f EXCEPT !.acts = Tail(@)] >>)

Running(i, types) ==
    /\ thread[i].stack # <<>> /\ Top(thread[i]).kind = "acts"
    /\ ~thread[i].exit
    /\ Top(thread[i]).acts # <<>>
    /\ Head(Top(thread[i]).acts).type \in types

Execute(i) ==
    /\ Running(i, Outputs \cup {"resubmit", "goto", "controller", "exit", "load", "set_src", "ttl"})
    /\ thread' = [thread EXCEPT ![i] = Executed(thread[i])]
    /\ UNCHANGED <<rules, counter, arriving, atomic, wrapped>>

\* Whether the TTL has run out is the packet's: either way.
StopActions(i) ==
    /\ Running(i, {"ttl"})
    /\ thread' = [thread EXCEPT ![i] = Stopped(thread[i])]
    /\ UNCHANGED <<rules, counter, arriving, atomic, wrapped>>

\* increment_table_id_execute(), an atomic addition to a uint8_t.
xlate_increment_table_id_action(i) ==
    /\ Running(i, {"increment"})
    /\ thread' = [thread EXCEPT ![i] = Executed(thread[i])]
    /\ LET spec == Head(Top(thread[i]).acts).spec
       IN  IF thread[i].may_increment
           THEN /\ counter' = [counter EXCEPT ![spec] = (@ + 1) % Width]
                /\ wrapped' = IF counter'[spec] = 0 THEN wrapped \cup {spec} ELSE wrapped
           ELSE UNCHANGED <<counter, wrapped>>
    /\ UNCHANGED <<rules, arriving, atomic>>

xlate_learn(i) ==
    /\ Running(i, {"learn", "delete"})
    /\ thread' = [thread EXCEPT ![i] = IF thread[i].may_learn THEN Composed(thread[i])
                                                            ELSE Executed(thread[i])]
    /\ UNCHANGED <<rules, counter, arriving, atomic, wrapped>>

\* What is left when the actions have run: the drop of a production table, and the resubmit
\* from table 0 to table 1 whatever the counter.
Ended(x) ==
    LET f == Top(x)
    IN  IF f.drop /\ IsProduction(f.table)
        THEN Replace(x, << Call(Egress, f.depth, FALSE, "drop"), [f EXCEPT !.drop = FALSE] >>)
        ELSE IF f.table = 0 /\ ~f.resubmit_done /\ f.rule
        THEN Replace(x, << Call(1, f.depth, FALSE, "kept"), [f EXCEPT !.resubmit_done = TRUE] >>)
        ELSE Return(x)

EndActions(i) ==
    /\ thread[i].stack # <<>> /\ Top(thread[i]).kind = "acts"
    /\ thread[i].exit \/ Top(thread[i]).acts = <<>>
    /\ thread' = [thread EXCEPT ![i] = Ended(thread[i])]
    /\ UNCHANGED <<rules, counter, arriving, atomic, wrapped>>

--------------------------------------------------------------------------------
(* ofproto_dpif_flow_mod(): under ofproto_mutex, all at once.                *)

Holding(flow) == {t \in 0 .. Internal - 1 : rules[t][flow] # <<>>}

\* The tables that a flow_mod with table number 't' changes.  Table 254 is read-only.  With
\* 255 a delete goes to all tables; learning is a strict modification, which changes the
\* flow if one table has it, adds it to table 0 if none does, and does nothing otherwise.
Targets(t, a) ==
    LET holding == Holding(a.flow)
    IN  CASE t < Internal -> {t}
          [] t = AllTables /\ (a.type = "delete" \/ Cardinality(holding) = 1) -> holding
          [] t = AllTables /\ a.type = "learn" /\ holding = {} -> {0}
          [] OTHER -> {}

InBlock(spec, t) == \/ spec = "INGRESS" /\ IsIngress(t)
                    \/ spec = "EGRESS" /\ IsEgress(t)

Forgets(x, a, tables) == [x EXCEPT !.owed = IF x.flow = a.flow THEN @ \ tables ELSE @]

ofproto_dpif_flow_mod(i) ==
    /\ thread[i].stack # <<>> /\ Top(thread[i]).kind = "mod"
    /\ LET t == Top(thread[i]).table
           a == Top(thread[i]).act
           into == Targets(t, a)
           kept == a.type = "learn" /\ InBlock(a.spec, t)
           after == [thread EXCEPT ![i] = Return(thread[i])]
       IN  /\ rules' = [u \in Table |-> IF u \notin into THEN rules[u]
                ELSE [rules[u] EXCEPT ![a.flow] = IF a.type = "learn" THEN <<a.acts>> ELSE <<>>]]
           /\ atomic' = [u \in Table |-> IF u \notin into THEN atomic[u]
                ELSE IF kept THEN atomic[u] \cup {a.flow} ELSE atomic[u] \ {a.flow}]
           /\ thread' = IF kept THEN after ELSE [j \in Thread |-> Forgets(after[j], a, into)]
    /\ UNCHANGED <<counter, arriving, wrapped>>

--------------------------------------------------------------------------------
(* The end of a translation.                                                 *)

Finished(i) == thread[i].kind # "idle" /\ thread[i].stack = <<>>

\* execute_flow_miss() translates a slow flow again, with the packet.  The flow key is the
\* same: what the first translation did to the packet is undone.
Again(x) == Translate([kind |-> "packet", flow |-> x.flow, src |-> x.key], Owed(x.flow))

Finish(i) ==
    /\ Finished(i)
    /\ thread' = [thread EXCEPT ![i] = IF thread[i].kind = "miss" /\ thread[i].slow
                                       THEN Again(thread[i]) ELSE Idle]
    /\ UNCHANGED <<rules, counter, arriving, atomic, wrapped>>

--------------------------------------------------------------------------------

Init ==
    \E s \in Scenarios :
        /\ rules = s.rules
        /\ arriving = s.arriving
        /\ counter = [spec \in Spec_ |-> 0]
        /\ thread = [i \in Thread |-> Idle]
        /\ atomic = [t \in Table |-> {}]
        /\ wrapped = {}

Step(i) ==
    \/ First(i) \/ Lookup(i) \/ Continue(i)
    \/ Execute(i) \/ xlate_increment_table_id_action(i) \/ xlate_learn(i)
    \/ StopActions(i) \/ EndActions(i)
    \/ ofproto_dpif_flow_mod(i) \/ Finish(i)

Next == \E i \in Thread : Start(i) \/ Step(i)

\* A thread that is translating goes on: it waits for nothing but a mutex that is always
\* released, and an arrival need not come.
Spec == Init /\ [][Next]_vars /\ \A i \in Thread : WF_vars(Step(i))

--------------------------------------------------------------------------------
(* Properties.                                                               *)

TypeOK ==
    /\ counter \in [Spec_ -> 0 .. Width - 1]
    /\ wrapped \subseteq Spec_
    /\ atomic \in [Table -> SUBSET Flow]
    /\ \A i \in Thread :
        /\ thread[i].seen \subseteq Table
        /\ thread[i].owed \subseteq Table
        /\ \A k \in DOMAIN thread[i].stack :
            thread[i].stack[k].kind \in {"first", "table", "next", "acts", "mod"}

\* A flow that learn_learn has put in the table its counter stood at is looked up by every
\* later packet of its class, whichever thread moves the counter meanwhile: in the ingress
\* block if table 0 leaves the walk to the automatic resubmit (no action of its own resubmits,
\* and its actions run to the end), in the egress block if the packet gets there.  The counter
\* must not have wrapped around, and the recursion limit not have been reached.
LearnedFlowsSeen ==
    \A i \in Thread : LET x == thread[i] IN
        Finished(i) /\ ~x.cut =>
            \A t \in x.owed :
                /\ IsIngress(t) /\ ~x.diverted /\ "INGRESS" \notin wrapped => t \in x.seen
                /\ IsEgress(t) /\ x.judged # <<>> /\ "EGRESS" \notin wrapped => t \in x.seen

\* A translation ends, whatever its rules resubmit to and whatever other threads learn and
\* count meanwhile.
TranslationsEnd == \A i \in Thread : []<>(thread[i].kind = "idle")

\* What the egress tables are told of the source address is whether it is still the one that
\* was loaded in the registers.
SourceCompared ==
    \A i \in Thread : \A k \in DOMAIN thread[i].judged :
        thread[i].judged[k].equal = thread[i].judged[k].really
================================================================================
