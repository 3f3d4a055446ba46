---------------------------------- MODULE Lacp ----------------------------------
(******************************************************************************)
(* LACP, lib/lacp.c, on systems that are joined by links that lose PDUs.      *)
(*                                                                            *)
(* Every operation holds the module's mutex from beginning to end and is one  *)
(* action here; bond_run() in the main thread and lacp_process_packet() in a  *)
(* handler thread interleave.  Timers are not kept: lacp_run() finds any of   *)
(* them expired.  A system's priority and id are one number, its place in the *)
(* order of systems, with 0 for a partner that is all zeros; so are a port's. *)
(* A state byte is the set of its flags.                                      *)
(******************************************************************************)
EXTENDS Integers, FiniteSets

CONSTANTS System,     \* the bonds, numbers
          Link,       \* the links, numbers: the port id of both ends
          Ends,       \* Ends[l] are the systems joined by l
          Settings,   \* the places and modes lacp_configure() may give a system
          Active,     \* the systems that are active at first
          Fast,       \* the systems that ask for fast PDUs at first
          Key,        \* Key[a][l] is the aggregation key of l at a at first
          Keys,       \* the aggregation keys that may be set later
          MaxEvents   \* bound: losses, timeouts and reconfigurations

ASSUME LacpAssumption ==
    /\ System \subseteq Nat \ {0}
    /\ Settings \subseteq [sys : Nat \ {0}, active : BOOLEAN, fast : BOOLEAN]
    /\ Link \subseteq Nat \ {0} /\ IsFiniteSet(Link)
    /\ Ends \in [Link -> {e \in SUBSET System : Cardinality(e) = 2}]
    /\ Key \in [System -> [Link -> Nat]] /\ Keys \subseteq Nat
    /\ Active \subseteq System /\ Fast \subseteq System
    /\ MaxEvents \in Nat

VARIABLES lacp,   \* lacp[a] is the struct lacp of system a
          wire,   \* the PDUs on their way, at most one on a link to a system
          events

vars == <<lacp, wire, events>>

SysId == System \union {c.sys : c \in Settings}

Flag == {"ACT", "TIME", "AGG", "SYNC", "COL", "DIST", "DEF", "EXP"}

\* struct lacp_info, struct lacp_pdu, struct slave and struct lacp.  The link is
\* a slave's handle and its port id.
Info == [sys : SysId \union {0}, key : Nat, port : Link \union {0},
         state : SUBSET Flag]
Pdu == [to : System, link : Link, actor : Info, partner : Info]
Slave == [link : Link, key : Nat, status : {"CURRENT", "EXPIRED", "DEFAULTED"},
          attached : BOOLEAN, partner : Info, ntt_actor : Info]

\* No slave, the NULL of key_slave.
NoSlave == 0

Lacp == [sys : SysId, active : BOOLEAN, fast : BOOLEAN,
         slaves : SUBSET Slave,
         key_slave : Link \union {NoSlave}, negotiated : BOOLEAN, update : BOOLEAN]

Links(x) == {s.link : s \in x.slaves}

slave_lookup(x, l) == CHOOSE s \in x.slaves : s.link = l

\* A bond with slaves has a key slave, which slave_get_actor() dereferences.
TypeOK ==
    /\ lacp \in [System -> Lacp]
    /\ \A a \in System :
        /\ \A s, r \in lacp[a].slaves : s.link = r.link => s = r
        /\ lacp[a].key_slave \in
                IF lacp[a].slaves = {} THEN {NoSlave} ELSE Links(lacp[a])
    /\ wire \subseteq Pdu
    /\ \A p, q \in wire : p.to = q.to /\ p.link = q.link => p = q
    /\ events \in 0 .. MaxEvents

Zero == [sys |-> 0, key |-> 0, port |-> 0, state |-> {}]

Peer(a, l) == CHOOSE b \in Ends[l] : b # a

Disturbs == events < MaxEvents /\ events' = events + 1

-------------------------------------------------------------------------------
slave_set_defaulted(s) == [s EXCEPT !.partner = Zero, !.status = "DEFAULTED"]

slave_set_expired(s) ==
    [s EXCEPT !.status = "EXPIRED",
              !.partner.state = (@ \union {"TIME"}) \ {"SYNC"}]

slave_may_tx(x, s) == x.active \/ s.status # "DEFAULTED"

\* lacp_slave_register() on one bond.
Registered(x, l, key) ==
    LET new == l \notin Links(x)
        old == IF new THEN [link |-> l, key |-> 0, status |-> "DEFAULTED",
                            attached |-> FALSE, partner |-> Zero, ntt_actor |-> Zero]
               ELSE slave_lookup(x, l)
        changed == new \/ key # old.key
        set == [old EXCEPT !.key = key]
        s == IF changed /\ (x.active \/ x.negotiated) THEN slave_set_expired(set) ELSE set
    IN  [x EXCEPT !.slaves = (@ \ {old}) \union {s},
                  !.key_slave = IF @ = NoSlave THEN l ELSE @,
                  !.update = @ \/ changed]

\* lacp_create() and the first lacp_configure().
Created(a) ==
    [sys |-> a, active |-> a \in Active, fast |-> a \in Fast, slaves |-> {},
     key_slave |-> NoSlave, negotiated |-> FALSE, update |-> TRUE]

\* Its slaves are registered, some link's first, which is then the key slave.
Init ==
    /\ lacp = [a \in System |->
                LET mine == {l \in Link : a \in Ends[l]}
                IN  [Created(a) EXCEPT
                        !.slaves = UNION {Registered(Created(a), l, Key[a][l]).slaves :
                                              l \in mine},
                        !.key_slave = IF mine = {} THEN @ ELSE CHOOSE l \in mine : TRUE]]
    /\ wire = {}
    /\ events = 0

\* The actor information carries the key of the key slave.
slave_get_actor(x, s) ==
    LET k == slave_lookup(x, x.key_slave)
        Flags(fs, condition) == IF condition THEN fs ELSE {}
    IN  [sys |-> x.sys, key |-> IF k.key # 0 THEN k.key ELSE k.link, port |-> s.link,
         state |-> UNION {Flags({"ACT"}, x.active), Flags({"TIME"}, x.fast),
                          Flags({"SYNC"}, s.attached),
                          Flags({"DEF"}, s.status = "DEFAULTED"),
                          Flags({"EXP"}, s.status = "EXPIRED"),
                          Flags({"AGG"}, Cardinality(x.slaves) > 1),
                          Flags({"COL", "DIST"}, s.attached \/ ~x.negotiated)}]

\* slave_get_priority(), as a pair that is compared from the left.
slave_get_priority(x, s) ==
    IF x.sys < s.partner.sys THEN <<x.sys, s.link>>
                             ELSE <<s.partner.sys, s.partner.port>>

Before(p, q) == p[1] < q[1] \/ (p[1] = q[1] /\ p[2] < q[2])

info_tx_equal(i, j) ==
    /\ {"ACT", "TIME", "SYNC", "AGG"} \intersect i.state
         = {"ACT", "TIME", "SYNC", "AGG"} \intersect j.state
    /\ i.port = j.port /\ i.key = j.key /\ i.sys = j.sys

\* The slaves that lacp_update_attached() considers.
Attachable(x) == {s \in x.slaves : s.partner.sys # x.sys /\ s.status # "DEFAULTED"}

\* The least priority of a set of slaves is the lead's.  The code takes the first
\* such slave of its hash map; slaves of equal priority have the same partner.
Lead(x, slaves) ==
    CHOOSE s \in slaves : \A r \in slaves :
        ~Before(slave_get_priority(x, r), slave_get_priority(x, s))

SamePartner(s, r) == s.partner.key = r.partner.key /\ s.partner.sys = r.partner.sys

lacp_update_attached(x) ==
    LET slaves == Attachable(x)
        lead == Lead(x, slaves)
        attached == {s \in slaves : SamePartner(s, lead)}
    IN  [x EXCEPT !.update = FALSE, !.negotiated = slaves # {},
                  !.slaves = {[s EXCEPT !.attached = s \in attached] : s \in @}]

\* What lacp_run() does first: age the slaves whose rx timers have expired.
Age(s) ==
    CASE s.status = "CURRENT" -> slave_set_expired(s)
      [] s.status = "EXPIRED" -> slave_set_defaulted(s)

Aged(x, rx) ==
    [x EXCEPT !.slaves = (@ \ rx) \union {Age(s) : s \in rx},
              !.update = @ \/ \E s \in rx : s.status = "EXPIRED"]

\* Slip: a PDU is sent only when it has news.
NeedToTransmit_News(x, s, tx) ==
    slave_may_tx(x, s) /\ ~info_tx_equal(slave_get_actor(x, s), s.ntt_actor)

\* The test in lacp_run() for sending a PDU.
NeedToTransmit(x, s, tx) ==
    /\ slave_may_tx(x, s)
    /\ s.link \in tx \/ ~info_tx_equal(slave_get_actor(x, s), s.ntt_actor)

\* rx are the slaves, and tx the links, whose timers have expired.
lacp_run(a, rx, tx) ==
    LET x == Aged(lacp[a], rx)
        y == IF x.update THEN lacp_update_attached(x) ELSE x
        sends == {s \in y.slaves : NeedToTransmit(y, s, tx)}
        sent == {[s EXCEPT !.ntt_actor = slave_get_actor(y, s)] : s \in sends}
    IN  /\ \A s \in rx : s.status # "DEFAULTED"
        /\ events + Cardinality(rx) <= MaxEvents
        /\ events' = events + Cardinality(rx)
        /\ lacp' = [lacp EXCEPT ![a] = [y EXCEPT !.slaves = (@ \ sends) \union sent]]
        /\ wire' = {p \in wire : ~\E s \in sent : p.link = s.link /\ p.to # a} \union
                   {[to |-> Peer(a, s.link), link |-> s.link,
                     actor |-> s.ntt_actor, partner |-> s.partner] : s \in sent}

\* The packet is ignored when the slave is not registered.
lacp_process_packet(a, l) ==
    \E pdu \in {p \in wire : p.to = a /\ p.link = l} :
        /\ lacp' = [lacp EXCEPT ![a] =
                IF l \notin Links(@) THEN @
                ELSE LET x == lacp[a]
                         s == slave_lookup(x, l)
                     IN  [x EXCEPT !.update = @ \/ s.partner # pdu.actor,
                                   !.slaves = (@ \ {s}) \union
                                        {[s EXCEPT !.status = "CURRENT",
                                                   !.ntt_actor = pdu.partner,
                                                   !.partner = pdu.actor]}]]
        /\ wire' = wire \ {pdu}
        /\ UNCHANGED events

lacp_configure(a, c) ==
    /\ Disturbs
    /\ lacp' = [lacp EXCEPT ![a] =
            [lacp[a] EXCEPT !.sys = c.sys, !.active = c.active, !.fast = c.fast,
                            !.update = @ \/ c.sys # lacp[a].sys]]
    /\ UNCHANGED wire

lacp_slave_register(a, l, key) ==
    /\ a \in Ends[l]
    /\ Disturbs
    /\ lacp' = [lacp EXCEPT ![a] = Registered(@, l, key)]
    /\ UNCHANGED wire

\* slave_destroy() makes any remaining slave the key slave.
lacp_slave_unregister(a, l) ==
    LET x == lacp[a]
        rest == {s \in x.slaves : s.link # l}
    IN  /\ l \in Links(x)
        /\ Disturbs
        /\ \E k \in IF x.key_slave # l THEN {x.key_slave}
                    ELSE IF rest = {} THEN {NoSlave} ELSE {s.link : s \in rest} :
            lacp' = [lacp EXCEPT ![a] =
                [x EXCEPT !.slaves = rest, !.key_slave = k, !.update = TRUE]]
        /\ UNCHANGED wire

lacp_slave_carrier_changed(a, l) ==
    \E s \in {r \in lacp[a].slaves : r.link = l} :
        /\ s.status = "CURRENT" \/ lacp[a].active
        /\ Disturbs
        /\ lacp' = [lacp EXCEPT ![a].slaves = (@ \ {s}) \union {slave_set_expired(s)}]
        /\ UNCHANGED wire

\* The environment loses a PDU.
Lose ==
    /\ Disturbs
    /\ \E pdu \in wire : wire' = wire \ {pdu}
    /\ UNCHANGED lacp

Next ==
    \/ \E a \in System :
        \/ \E rx \in SUBSET lacp[a].slaves :
            \E tx \in SUBSET Links(lacp[a]) : lacp_run(a, rx, tx)
        \/ \E c \in Settings : lacp_configure(a, c)
        \/ \E l \in Link :
            \/ lacp_process_packet(a, l)
            \/ \E key \in Keys : lacp_slave_register(a, l, key)
            \/ lacp_slave_unregister(a, l)
            \/ lacp_slave_carrier_changed(a, l)
    \/ Lose

Spec == Init /\ [][Next]_vars

\* The main thread runs bond_run() again and again, and lacp_wait() wakes it
\* when a timer expires; a packet that is not lost arrives.
FairSpec ==
    /\ Spec
    /\ \A a \in System : WF_vars(lacp_run(a, {}, Links(lacp[a])))
    /\ \A a \in System, l \in Link : WF_vars(lacp_process_packet(a, l))

-------------------------------------------------------------------------------
slave_may_enable__(s) == s.attached /\ "SYNC" \in s.partner.state

lacp_slave_may_enable(x, l) == l \in Links(x) /\ slave_may_enable__(slave_lookup(x, l))

\* Once lacp_update_attached() has seen the latest change, the attached slaves
\* of a bond lead to one partner and one of its keys, none of them to the bond
\* itself, and there are some iff the bond claims to be negotiated.  The partner
\* may be the all-zero one of slaves that are registered as EXPIRED and have not
\* heard from anybody (lacp.c:401).
AttachedToOnePartner ==
    \A a \in System :
        LET attached == {s \in lacp[a].slaves : s.attached}
        IN  ~lacp[a].update =>
                /\ attached \subseteq Attachable(lacp[a])
                /\ \A s, r \in attached : SamePartner(s, r)
                /\ lacp[a].negotiated <=> attached # {}

\* When losses and reconfigurations end with both slaves of a link registered at
\* systems with different ids, one of them active, the link is in the end
\* enabled at both, and stays so: the exchange converges, whatever was lost.
Agreeing(l) ==
    /\ \A a \in Ends[l] : l \in Links(lacp[a])
    /\ \E a \in Ends[l] : lacp[a].active
    /\ Cardinality({lacp[a].sys : a \in Ends[l]}) = 2
LinksComeUp ==
    \A l \in Link : <>[]Agreeing(l) =>
        <>[](\A a \in Ends[l] : lacp_slave_may_enable(lacp[a], l))
================================================================================
