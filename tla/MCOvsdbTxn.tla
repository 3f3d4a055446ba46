------------------------------- MODULE MCOvsdbTxn -------------------------------
(******************************************************************************)
(* Schemas for TLC.  Each keeps the columns that are not in play at one value.*)
(******************************************************************************)
EXTENDS OvsdbTxn

Cols(strong, weak, key) == [strong : strong, weak : weak, key : key]

\* A root, and parts that refer to parts: chains, cycles and self-references.
Parts == {2, 3, 4}
Targets == {s \in SUBSET Parts : Cardinality(s) <= 1}
Chains ==
    [table |-> [i \in 1 .. 4 |-> IF i = 1 THEN "root" ELSE "part"], roots |-> {"root"}, indexed |-> {},
     max_rows |-> [root |-> 1, part |-> 3], n_min |-> [root |-> 0, part |-> 0],
     cols |-> [root |-> Cols(Targets, {{}}, {0}),
               part |-> Cols(Targets, {{}}, {0})]]

\* Weak references within and between two root tables, one of which needs one.
Weaks ==
    [table |-> [i \in 1 .. 4 |-> IF i <= 2 THEN "ports" ELSE "mirrors"],
     roots |-> {"ports", "mirrors"}, indexed |-> {},
     max_rows |-> [ports |-> 2, mirrors |-> 2], n_min |-> [ports |-> 0, mirrors |-> 1],
     cols |-> [ports |-> Cols({{}}, SUBSET {1, 2}, {0}),
               mirrors |-> Cols({{}}, SUBSET {1, 2} \ {{}}, {0})]]

\* Unique keys in a table that holds fewer rows than there are.
Names ==
    [table |-> [i \in 1 .. 3 |-> "names"], roots |-> {"names"}, indexed |-> {"names"},
     max_rows |-> [names |-> 2], n_min |-> [names |-> 0],
     cols |-> [names |-> Cols({{}}, {{}}, {1, 2, 3})]]

Three == {Chains, Weaks, Names}
================================================================================
