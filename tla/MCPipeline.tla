------------------------------ MODULE MCPipeline -------------------------------
(* Instances of Pipeline for TLC.                                            *)
EXTENDS Pipeline, TLC

CONSTANTS h1, h2, m

Do(type, spec) == Action(type, spec, 0, "a", <<>>)
Increment(spec) == Do("increment", spec)
Learn(spec, flow, acts) == Action("learn", spec, 2, flow, acts)
Delete(spec, flow) == Action("delete", spec, 2, flow, <<>>)
Output(port) == Do("output", port)
Resubmit(t) == Action("resubmit", "TABLE", t, "a", <<>>)
Goto(t) == Action("goto", "TABLE", t, "a", <<>>)
ResubmitSame == Do("resubmit", "RULE")
Exit == Do("exit", "none")
Ttl(spec) == Do("ttl", spec)
Load == Do("load", "none")
SetSource == Do("set_src", "none")

\* Flow tables with the flows that 'f' gives, a set of <<table, flow, actions>>.
Flows(f) ==
    [t \in Table |-> [p \in Flow |->
        IF \E r \in f : r[1] = t /\ r[2] = p
        THEN << (CHOOSE r \in f : r[1] = t /\ r[2] = p)[3] >> ELSE <<>>]]

Arrive(kind, flow) == [kind |-> kind, flow |-> flow, src |-> [hi |-> 0, lo |-> 1], acts |-> <<>>]
From(e, hi) == [e EXCEPT !.src.hi = hi]
PacketOut(acts) == [Arrive("packet_out", "a") EXCEPT !.acts = acts]

\* 'n' arrivals of each of the kinds in 'S'.
Each(S, n) == [e \in S |-> n]

\* Packets a open ingress tables for packets b, on two threads; or they are accounted for
\* meanwhile by the main thread.
IngressLearning(arrivals) ==
    [rules |-> Flows({<<0, "a", <<Increment("INGRESS"), Learn("INGRESS", "b", <<>>)>> >>,
                      <<Production, "a", <<>> >>, <<Production, "b", <<Output("p1")>> >>}),
     arriving |-> arrivals]

Misses == Each({Arrive("miss", "a"), Arrive("miss", "b")}, 2)
Accounting == Each({Arrive("miss", "a"), Arrive("miss", "b"), Arrive("account", "a")}, 1)

\* The same in the egress block, from an egress table.
EgressLearning ==
    [rules |-> Flows({<<Egress, "a", <<Increment("EGRESS"), Learn("EGRESS", "b", <<>>)>> >>,
                      <<Production, "a", <<Output("p1")>> >>,
                      <<Production, "b", <<Output("p1"), Do("controller", "CONTROLLER")>> >>}),
     arriving |-> Each({Arrive("miss", "a")}, 2) @@ Each({Arrive("miss", "b")}, 1)]

\* Flows that come and go, in the rule's own table and in a table that is named.
Deleting ==
    [rules |-> Flows({<<0, "a", <<Increment("INGRESS"), Learn("INGRESS", "b", <<Delete("RULE", "b")>>)>> >>,
                      <<1, "a", <<Learn("RULE", "a", <<Delete("INGRESS", "b")>>), Learn("NAMED", "b", <<>>)>> >>,
                      <<Production, "a", <<>> >>}),
     arriving |-> Each({Arrive("miss", "a")}, 1) @@ Each({Arrive("account", "b")}, 2)]

\* Rules that resubmit to themselves, to other blocks and back to table 0, one packet at a
\* time.
Looping(e) ==
    [rules |-> Flows({<<0, "a", <<Goto(2)>> >>, <<0, "b", <<Resubmit(2)>> >>,
                      <<1, "a", <<ResubmitSame>> >>, <<2, "b", <<Exit, Output("p1")>> >>,
                      <<Production, "a", <<Output("TABLE"), Output("p2")>> >>,
                      <<Egress, "a", <<Output("EGRESS")>> >>}),
     arriving |-> Each({e}, 1)]

\* Actions that stop a table and outputs that the egress tables do not see, while packets a
\* open ingress tables for packets b.
Stopping ==
    [rules |-> Flows({<<0, "a", <<Increment("INGRESS"), Learn("INGRESS", "b", <<Ttl("none")>>)>> >>,
                      <<0, "b", <<Ttl("CONTROLLER")>> >>,
                      <<Production, "a", <<Do("output_reg", "TABLE"), Do("enqueue", "p1")>> >>,
                      <<Production, "b", <<Ttl("CONTROLLER"), Do("bundle", "EGRESS"),
                                           Do("output_reg", "CONTROLLER")>> >>}),
     arriving |-> Each({Arrive("miss", "a"), Arrive("miss", "b")}, 1)]

\* A counter that overflows.  On its way it is 255, with which flows are deleted from all
\* tables, learned in table 0, changed where they are, and left alone in two tables.
Wrapping ==
    [rules |-> Flows({<<0, "a", [k \in 1 .. AllTables |-> Increment("INGRESS")]
                                \o <<Delete("INGRESS", "b"), Learn("INGRESS", "b", <<>>),
                                      Learn("INGRESS", "b", <<Output("p1")>>),
                                      Learn("NAMED", "b", <<>>), Learn("INGRESS", "b", <<Exit>>),
                                      Increment("INGRESS")>> >>}),
     arriving |-> Each({Arrive("miss", "a")}, 1) @@ Each({Arrive("revalidate", "b")}, 1)]

MCScenarios ==
    {IngressLearning(Misses), IngressLearning(Accounting), EgressLearning, Deleting,
     Stopping, Wrapping}
        \cup {Looping(e) : e \in {Arrive("miss", "a"), Arrive("miss", "b"),
                                 PacketOut(<<Output("EGRESS")>>), PacketOut(<<Output("TABLE")>>)}}

\* A source address loaded in table 0 and, after the output, changed.
Compares ==
    {[rules |-> Flows({<<0, "a", <<Load>> >>,
                       <<Production, "a", <<Output("p1"), SetSource>> >>}),
      arriving |-> Each({From(Arrive("miss", "a"), hi)}, 1)] : hi \in {0, 2}}
================================================================================
