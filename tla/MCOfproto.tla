----------------------------- MODULE MCOfproto -----------------------------
EXTENDS Ofproto

CONSTANTS c1, c2, s

Mod(cmd, t, m, acts, cookie, recook, timed) ==
    [type |-> "flow_mod", cmd |-> cmd, strict |-> FALSE, table |-> t, match |-> m,
     acts |-> acts, cookie |-> cookie, recook |-> recook, timed |-> timed]
Strict(fm) == [fm EXCEPT !.strict = TRUE]
Add(t, m, acts) == Mod("add", t, m, acts, 0, FALSE, FALSE)
Timed(fm) == [fm EXCEPT !.timed = TRUE]
Del(t, m) == Mod("delete", t, m, "drop", 0, FALSE, FALSE)
Monitor(id, t, flags) ==
    [type |-> "monitor", monitor |-> [id |-> id, table |-> t, flags |-> flags]]
Cancel(id) == [type |-> "cancel", id |-> id]
Role(r, id) == [type |-> "role", role |-> r, id |-> id]
Barrier == [type |-> "barrier"]
FullFlags == {"initial", "added", "modified", "deleted"}

Nothing == [c \in Conn |-> <<>>]
Times(n, S) == [i \in 1 .. n |-> S]
Script(seq) == [i \in DOMAIN seq |-> {seq[i]}]

Base ==
    [conns |-> {c1}, requests |-> Nothing, learns |-> {},
     limit |-> [t \in Table |-> 4], limits |-> {}, evict |-> FALSE,
     drops |-> 0, connects |-> 0, configs |-> 0, flushes |-> 0,
     sweeps |-> 0, learns_left |-> 0]

Recook(t, m, acts) == Mod("modify", t, m, acts, 1, TRUE, FALSE)
Keep(t, m, acts) == Mod("modify", t, m, acts, 0, FALSE, FALSE)
Full1 == Monitor(1, All, FullFlags)

\* A controller changes flows that it monitors itself, and so does a handler.
OwnChanges ==
    [Base EXCEPT !.requests[c1] =
                    Times(1, {Full1, Add(0, "x", "out")}) \o
                    Times(4, {Full1, Cancel(1), Add(0, "x", "out"), Recook(All, "any", "drop"),
                              Keep(0, "x", "drop"), Del(All, "any"), Add(1, "any", "drop")}),
                 !.learns = {Add(0, "x", "drop"), Del(0, "x")}, !.learns_left = 1]

\* One controller monitors what another changes.
Watching ==
    [Base EXCEPT !.conns = {c1, c2},
                 !.requests[c1] = <<{Full1}>>,
                 !.requests[c2] = Times(5, {Add(0, "x", "out"), Del(All, "any"),
                                            Recook(All, "any", "drop"), Add(1, "any", "drop")})]

\* A controller that does not keep up.
Flood ==
    [Base EXCEPT !.conns = {c1, c2},
                 !.requests[c1] = <<{Full1}>>,
                 !.requests[c2] = Times(9, {Add(0, "x", "out"), Del(0, "x")})]

\* Two tables monitored separately, in part, and a connection that drops.
Reconnecting ==
    [Base EXCEPT !.conns = {c1, c2},
                 !.requests[c1] = <<{Monitor(1, 0, FullFlags)},
                                    {Monitor(2, 1, {"added", "deleted"}), Monitor(1, 1, FullFlags), Full1},
                                    {Full1, Cancel(2)}>>,
                 !.requests[c2] = Times(3, {Add(0, "x", "out"), Add(1, "x", "out"), Del(All, "any")}),
                 !.drops = 1, !.connects = 1]

\* Roles, with generation ids that wrap around.
Roles ==
    [Base EXCEPT !.conns = {c1, c2, s},
                 !.requests[c1] = Times(2, {Role("master", {3}), Role("master", {0}), Role("slave", {1})})
                                  \o <<{Add(0, "x", "out"), Role("equal", {})}>>,
                 !.requests[c2] = <<{Role("master", {0}), Role("slave", {2})},
                                    {Role("master", {1}), Role("master", {})}, {Add(0, "any", "out")}>>,
                 !.requests[s] = <<{Role("master", {0}), Role("slave", {})}, {Del(0, "x")}>>,
                 !.drops = 1, !.connects = 1]

\* A request that cannot be carried out in one of the tables, and requests
\* that are blocked by the operations it leaves behind.
Abandoned ==
    [Base EXCEPT !.conns = {c1, c2},
                 !.requests[c1] = Script(<<Role("master", {}), Add(0, "x", "out"), Add(1, "x", "out"),
                                           Keep(All, "x", "goto")>>)
                                  \o <<{Del(1, "any"), Barrier}, {Del(All, "any"), Barrier, Full1},
                                       {Role("equal", {}), Strict(Del(All, "x"))}>>,
                 !.requests[c2] = <<{Role("master", {})}, {Add(1, "x", "out"), Strict(Keep(All, "x", "drop"))},
                                    {Add(0, "x", "drop"), Add(0, "any", "goto"), Add(1, "any", "goto")}>>,
                 !.drops = 1]

\* Expiry with and without actions, and a handler that learns meanwhile.
Expiring ==
    [Base EXCEPT !.requests[c1] =
                    <<{Full1, Timed(Add(1, "x", "drop"))}, {Timed(Add(0, "x", "learn"))},
                      {Timed(Add(0, "any", "out")), Timed(Add(1, "x", "drop"))},
                      {Timed(Add(0, "any", "out")), Add(0, "any", "drop")}>>,
                 !.learns = {Timed(Add(1, "any", "drop")), Del(0, "any"), Keep(All, "x", "goto")},
                 !.learns_left = 1, !.sweeps = 2]

\* Tables with limits, evictions and flushes.
Limits ==
    [Base EXCEPT !.requests[c1] =
                    <<{Full1}>> \o Times(3, {Timed(Add(0, "x", "out")), Timed(Add(0, "any", "out")),
                                             Add(1, "x", "out"), Timed(Add(1, "any", "out"))}),
                 !.limit = [t \in Table |-> IF t = 0 THEN 2 ELSE 1], !.evict = TRUE,
                 !.limits = {0, 1}, !.configs = 1, !.flushes = 1]

MCScenarios == {OwnChanges, Watching, Flood, Reconnecting, Roles, Abandoned, Expiring, Limits}
============================================================================
