---------------------------- MODULE MCConfigSync ----------------------------
EXTENDS ConfigSync
CONSTANTS a, b, w
ThreeClients == {a, b, w}
LockTypes == {"wait", "steal", "unlock"}
AllTypes == LockTypes \cup {"transact", "cancel"}
Sending(x, y, z, f, n, types) ==
    [role |-> [c \in Client |-> CASE c = a -> x [] c = b -> y [] OTHER -> z],
     faults |-> f, sends |-> [n |-> n, types |-> types]]
Deployed(x, y, z, f) == Sending(x, y, z, f, 0, {})
Faults(C) == {"client", "session", "vswitchd", "server"} \X C
\* In the last of the first five, the lock is stolen while another session waits for it.
Managed ==
    {Deployed("vsctl", "vsctl", "vswitchd", {}),
     Deployed("vsctl", "vswitchd", "vswitchd", {<<"session", w>>}),
     Sending("raw", "off", "vswitchd", {}, 2, AllTypes),
     Sending("raw", "raw", "off", {}, 3, AllTypes),
     Sending("raw", "raw", "raw", {}, 3, LockTypes)}
    \cup {Deployed(x, "off", "vswitchd", Faults({a, w})) :
              x \in {"vsctl", "once", "vswitchd"}}
=============================================================================
