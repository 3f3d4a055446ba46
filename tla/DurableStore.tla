------------------------------ MODULE DurableStore ------------------------------
(******************************************************************************)
(* What ovsdb-server promises of the transactions it has answered: they are   *)
(* applied in order, one by one, and a restart may undo only the last of them *)
(* and none that was answered as durable.  A database is the sequence of the  *)
(* transactions that made it.                                                 *)
(******************************************************************************)
EXTENDS Naturals, Sequences

CONSTANT Txn          \* the transactions

VARIABLES acked,      \* the transactions answered with success
          promised,   \* how many of them no restart may undo
          sound       \* what was synced is known to be on the disk

vars == <<acked, promised, sound>>

Init == acked = <<>> /\ promised = 0 /\ sound = TRUE

\* A transaction is answered with success, and with it every earlier one is
\* promised if it asked to be durable.
Answer(t, durable) ==
    /\ acked' = Append(acked, t)
    /\ promised' = IF durable THEN Len(acked') ELSE promised
    /\ UNCHANGED sound

\* A restart keeps a prefix that holds what was promised, or all of it and the
\* transaction that was under way.
Restart ==
    /\ \/ \E n \in promised .. Len(acked) : acked' = SubSeq(acked, 1, n)
       \/ \E t \in Txn : acked' = Append(acked, t)
    /\ UNCHANGED <<promised, sound>>

\* A file or its directory could not be synced: from here on the program does not
\* know what is on the disk, and nothing is promised.
LoseTrust == sound' = FALSE
Untrusted == ~sound /\ sound' = FALSE

Next == \/ \E t \in Txn, durable \in BOOLEAN : Answer(t, durable)
        \/ Restart
        \/ LoseTrust
        \/ Untrusted

Spec == Init /\ [][Next]_vars
================================================================================
