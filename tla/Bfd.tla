---------------------------------- MODULE Bfd ----------------------------------
(******************************************************************************)
(* Bidirectional forwarding detection, lib/bfd.c, at the two ends of a path   *)
(* that loses, duplicates and reorders control messages.                      *)
(*                                                                            *)
(* Every function holds the module's mutex and is one action; the main thread *)
(* configures, runs and transmits, a handler thread processes messages.  Time *)
(* is not kept: next_tx, detect_time and decay_detect_time may have passed at *)
(* any call.  Intervals are in ms.  What the interface's packet counter shows *)
(* is a choice of bfd_run(); forwarding_if_rx, the Ethernet addresses and the *)
(* fields that are only displayed (rmt_state, rmt_flags) are left out.        *)
(******************************************************************************)
EXTENDS Integers, Sequences

CONSTANTS Configs,     \* what the database may configure for an enabled session
          First,       \* First[n] is the initial configuration of n
          Changing,    \* the nodes whose configuration changes
          MaxWire,     \* bound: messages on their way to a node
          MaxChanges,  \* bound: configurations and changes of decay
          MaxFaults,   \* bound: expired detection times and faults of the path
          MaxEvents    \* bound: both together

\* The two ends.
Node == {1, 2}

Peer(n) == 3 - n

Config == [min_tx : Nat, min_rx : Nat, decay_min_rx : Nat, cpath_down : BOOLEAN]

ASSUME BfdAssumption ==
    /\ Configs \subseteq Config /\ First \in [Node -> Config]
    /\ Changing \subseteq Node
    /\ MaxWire \in Nat \ {0}
    /\ MaxChanges \in Nat /\ MaxFaults \in Nat /\ MaxEvents \in Nat

VARIABLES bfd,      \* bfd[n] is the struct bfd of n
          wire,     \* wire[n] are the messages on their way to n
          discs,    \* how many discriminators were generated
          heard,    \* history: <<d, e>> when session d accepted a message of e
          changes,
          faults

vars == <<bfd, wire, discs, heard, changes, faults>>

\* enum state, in its order.
ADMIN_DOWN == 0
DOWN == 1
INIT == 2
UP == 3

\* enum diag, the values this code gives.
Diag == {"NONE", "EXPIRED", "RMT_DOWN", "CPATH_DOWN"}

\* struct bfd.  A disc of 0 stands for a null pointer: BFD is not enabled.
Session ==
    [disc : Nat, state : {DOWN, INIT, UP}, diag : Diag, flags : SUBSET {"POLL", "FINAL"},
     rmt_disc : Nat, rmt_diag : Diag, rmt_min_rx : Nat, rmt_min_tx : Nat,
     cfg_min_tx : Nat, cfg_min_rx : Nat, poll_min_tx : Nat, poll_min_rx : Nat,
     min_tx : Nat, min_rx : Nat, in_decay : BOOLEAN, decay_min_rx : Nat,
     cpath_down : BOOLEAN]

\* struct msg.
Msg == [state : {DOWN, INIT, UP}, diag : Diag, flags : SUBSET {"POLL", "FINAL"},
        my_disc : Nat, your_disc : Nat, min_tx : Nat, min_rx : Nat]

\* A session is never in the administratively down state it is allocated in.
TypeOK ==
    /\ bfd \in [Node -> Session]
    /\ wire \in [Node -> Seq(Msg)]
    /\ \A n \in Node : Len(wire[n]) <= MaxWire
    /\ discs \in Nat
    /\ heard \subseteq Nat \X Nat
    /\ changes \in 0 .. MaxChanges
    /\ faults \in 0 .. MaxFaults

Larger(i, j) == IF i >= j THEN i ELSE j

-------------------------------------------------------------------------------
(* The functions of bfd.c, on one struct bfd.                                 *)

bfd_in_poll(s) == "POLL" \in s.flags

bfd_poll(s) ==
    IF s.state > DOWN /\ ~bfd_in_poll(s) /\ "FINAL" \notin s.flags
    THEN [s EXCEPT !.poll_min_tx = s.cfg_min_tx,
                   !.poll_min_rx = IF s.in_decay THEN s.decay_min_rx ELSE s.cfg_min_rx,
                   !.flags = @ \union {"POLL"}]
    ELSE s

bfd_min_tx(s) == IF s.state = UP THEN s.min_tx ELSE Larger(s.min_tx, 1000)

\* Every change of state or diagnostic; going down forgets the remote session.
bfd_set_state(s, state, diag) ==
    LET d == IF diag = "NONE" /\ s.cpath_down THEN "CPATH_DOWN" ELSE diag
        t == [s EXCEPT !.state = state, !.diag = d]
    IN  IF state > DOWN \/ (s.state = state /\ s.diag = d) THEN t
        ELSE [t EXCEPT !.rmt_diag = "NONE", !.rmt_min_rx = 1, !.rmt_disc = 0,
                       !.rmt_min_tx = 0,
                       !.min_rx = IF s.in_decay THEN s.cfg_min_rx ELSE @,
                       !.in_decay = FALSE]

bfd_forwarding(s) == s.state = UP /\ s.rmt_diag # "CPATH_DOWN"

\* The session that bfd_configure() allocates, before it is given its settings.
New(disc) ==
    [disc |-> disc, state |-> DOWN, diag |-> "NONE", flags |-> {},
     rmt_disc |-> 0, rmt_diag |-> "NONE", rmt_min_rx |-> 1, rmt_min_tx |-> 0,
     cfg_min_tx |-> 0, cfg_min_rx |-> 0, poll_min_tx |-> 0, poll_min_rx |-> 0,
     min_tx |-> 1000, min_rx |-> 0, in_decay |-> FALSE, decay_min_rx |-> 0,
     cpath_down |-> FALSE]

NoSession == New(0)

\* min_tx, min_rx, decay_min_rx and cpath_down are compared with their settings
\* in this order; whatever changed, one poll sequence tells the remote end.
WithMinTx(s, min_tx) ==
    IF s.cfg_min_tx = min_tx THEN s
    ELSE [s EXCEPT !.cfg_min_tx = min_tx,
                   !.min_tx = IF s.state # UP \/ (~bfd_in_poll(s) /\ min_tx < @)
                              THEN min_tx ELSE @]

WithMinRx(s, min_rx) ==
    IF s.cfg_min_rx = min_rx THEN s
    ELSE [s EXCEPT !.cfg_min_rx = min_rx,
                   !.min_rx = IF s.state # UP \/ (~bfd_in_poll(s) /\ min_rx > @)
                              THEN min_rx ELSE @]

WithDecay(s, decay_min_rx) ==
    [s EXCEPT !.decay_min_rx = IF decay_min_rx < s.cfg_min_rx THEN 0 ELSE decay_min_rx,
              !.in_decay = FALSE]

WithCpathDown(s, cpath_down) ==
    LET t == [s EXCEPT !.cpath_down = cpath_down]
    IN  IF s.diag \in {"NONE", "CPATH_DOWN"} THEN bfd_set_state(t, s.state, "NONE") ELSE t

Configured(s, c) ==
    LET min_tx == Larger(c.min_tx, 100)
        min_rx == Larger(c.min_rx, 100)
        t == WithMinRx(WithMinTx(s, min_tx), min_rx)
        decay == c.decay_min_rx # s.decay_min_rx \/ min_rx # s.cfg_min_rx
        u == IF decay THEN WithDecay(t, c.decay_min_rx) ELSE t
        cpath == c.cpath_down # s.cpath_down
        v == IF cpath THEN WithCpathDown(u, c.cpath_down) ELSE u
    IN  IF decay \/ cpath \/ min_tx # s.cfg_min_tx THEN bfd_poll(v) ELSE v

\* Slip: a setting that was changed while a poll sequence went on is not polled for.
Ran_NoPoll(s, expired, decay) ==
    LET t == IF expired THEN bfd_set_state(s, DOWN, "EXPIRED") ELSE s
        u == IF t.state = UP /\ t.decay_min_rx > 0 THEN [t EXCEPT !.in_decay = decay] ELSE t
    IN  IF \/ u.min_rx \notin {u.cfg_min_rx, u.decay_min_rx}
           \/ u.in_decay # s.in_decay
        THEN bfd_poll(u) ELSE u

\* bfd_run() on a session whose detection time has passed or not, and for which
\* bfd_try_decay(), where it is called, finds 'decay'.
Ran(s, expired, decay) ==
    LET t == IF expired THEN bfd_set_state(s, DOWN, "EXPIRED") ELSE s
        u == IF t.state = UP /\ t.decay_min_rx > 0 THEN [t EXCEPT !.in_decay = decay] ELSE t
    IN  IF \/ u.min_tx # u.cfg_min_tx
           \/ u.min_rx \notin {u.cfg_min_rx, u.decay_min_rx}
           \/ u.in_decay # s.in_decay
        THEN bfd_poll(u) ELSE u

\* The message that bfd_put_packet() composes.
Composed(s) ==
    [state |-> s.state, diag |-> s.diag, flags |-> s.flags,
     my_disc |-> s.disc, your_disc |-> s.rmt_disc,
     min_tx |-> IF bfd_in_poll(s) THEN s.poll_min_tx ELSE bfd_min_tx(s),
     min_rx |-> IF bfd_in_poll(s) THEN s.poll_min_rx ELSE s.min_rx]

\* Slip: a message for another session is taken.
Accepts_Any(s, m) == m.your_disc # 0 \/ m.state <= DOWN

\* bfd_process_packet() discards a message for another session, and one that
\* claims to be past the first exchange without naming a session.
Accepts(s, m) == IF m.your_disc # 0 THEN m.your_disc = s.disc ELSE m.state <= DOWN

\* What it records of an accepted message.  A Final message ends the sequence
\* that the poll flag says is going on; a Poll message is to be answered.
Recorded(s, m) ==
    LET final == "FINAL" \in m.flags /\ bfd_in_poll(s)
    IN  [s EXCEPT !.rmt_disc = m.my_disc, !.rmt_diag = m.diag,
                  !.min_tx = IF final THEN s.poll_min_tx ELSE @,
                  !.min_rx = IF final THEN s.poll_min_rx ELSE @,
                  !.flags = IF "POLL" \in m.flags THEN {"FINAL"}
                            ELSE IF final THEN @ \ {"POLL"} ELSE @,
                  !.rmt_min_rx = Larger(m.min_rx, 1),
                  !.rmt_min_tx = Larger(m.min_tx, 1)]

\* And the state machine, RFC 5880 6.8.6.
Processed(s, m) ==
    LET t == Recorded(s, m)
    IN  CASE m.state = ADMIN_DOWN /\ s.state # DOWN -> bfd_set_state(t, DOWN, "RMT_DOWN")
          [] s.state = DOWN /\ m.state = DOWN -> bfd_set_state(t, INIT, t.diag)
          [] s.state = DOWN /\ m.state = INIT -> bfd_set_state(t, UP, t.diag)
          [] s.state = INIT /\ m.state > DOWN -> bfd_set_state(t, UP, t.diag)
          [] s.state = UP /\ m.state = DOWN -> bfd_set_state(t, DOWN, "RMT_DOWN")
          [] OTHER -> t

-------------------------------------------------------------------------------
Init ==
    /\ bfd = [n \in Node |-> Configured(New(n), First[n])]
    /\ wire = [n \in Node |-> <<>>]
    /\ discs = 2
    /\ heard = {}
    /\ changes = 0
    /\ faults = 0

MoreEvents == changes + faults < MaxEvents

Change == changes < MaxChanges /\ MoreEvents /\ changes' = changes + 1

Fault == faults < MaxFaults /\ MoreEvents /\ faults' = faults + 1

Enabled(n) == bfd[n].disc # 0

\* set_bfd() for an enabled session.
bfd_configure(n, c) ==
    /\ n \in Changing /\ Enabled(n)
    /\ Change
    /\ bfd' = [bfd EXCEPT ![n] = Configured(@, c)]
    /\ bfd' # bfd
    /\ UNCHANGED <<wire, discs, heard, faults>>

\* The same, when BFD was not enabled before: a new session.
Enable(n, c) ==
    /\ ~Enabled(n)
    /\ discs' = discs + 1
    /\ bfd' = [bfd EXCEPT ![n] = Configured(New(discs'), c)]
    /\ UNCHANGED <<wire, heard, changes, faults>>

\* The same, when BFD is no longer enabled.  bfd_unref() frees the session.
Disable(n) ==
    /\ n \in Changing /\ Enabled(n)
    /\ Change
    /\ bfd' = [bfd EXCEPT ![n] = NoSession]
    /\ UNCHANGED <<wire, discs, heard, faults>>

\* bfd_run() when no timer has passed, or decay is as before.
bfd_run(n) ==
    /\ Enabled(n)
    /\ bfd' = [bfd EXCEPT ![n] = Ran(@, FALSE, @.in_decay)]
    /\ UNCHANGED <<wire, discs, heard, changes, faults>>

\* bfd_run() when the detection time has passed.
Expire(n) ==
    /\ Enabled(n) /\ bfd[n].state > DOWN
    /\ Fault
    /\ bfd' = [bfd EXCEPT ![n] = Ran(@, TRUE, FALSE)]
    /\ UNCHANGED <<wire, discs, heard, changes>>

\* bfd_run() when decay begins or ends.
Decay(n) ==
    /\ Enabled(n) /\ bfd[n].state = UP /\ bfd[n].decay_min_rx > 0
    /\ Change
    /\ bfd' = [bfd EXCEPT ![n] = Ran(@, FALSE, ~@.in_decay)]
    /\ UNCHANGED <<wire, discs, heard, faults>>

\* port_run_fast(): bfd_should_send_packet(), bfd_put_packet() and the sending.
bfd_put_packet(n) ==
    /\ Enabled(n) /\ Len(wire[Peer(n)]) < MaxWire
    /\ wire' = [wire EXCEPT ![Peer(n)] = Append(@, Composed(bfd[n]))]
    /\ bfd' = [bfd EXCEPT ![n].flags = @ \ {"FINAL"}]
    /\ UNCHANGED <<discs, heard, changes, faults>>

\* A handler thread passes the next message to bfd_process_packet(), or drops
\* it if the port has no BFD.
bfd_process_packet(n) ==
    /\ wire[n] # <<>>
    /\ LET m == Head(wire[n])
           accepted == Enabled(n) /\ Accepts(bfd[n], m)
       IN  /\ bfd' = IF accepted THEN [bfd EXCEPT ![n] = Processed(@, m)] ELSE bfd
           /\ heard' = IF accepted THEN heard \union {<<bfd[n].disc, m.my_disc>>} ELSE heard
    /\ wire' = [wire EXCEPT ![n] = Tail(@)]
    /\ UNCHANGED <<discs, changes, faults>>

\* The path loses, duplicates or delays a message.
Lose(n) ==
    /\ wire[n] # <<>>
    /\ Fault
    /\ wire' = [wire EXCEPT ![n] = Tail(@)]
    /\ UNCHANGED <<bfd, discs, heard, changes>>

Duplicate(n) ==
    /\ wire[n] # <<>> /\ Len(wire[n]) < MaxWire
    /\ Fault
    /\ wire' = [wire EXCEPT ![n] = Append(@, Head(@))]
    /\ UNCHANGED <<bfd, discs, heard, changes>>

Delay(n) ==
    /\ Len(wire[n]) > 1
    /\ Fault
    /\ wire' = [wire EXCEPT ![n] = Append(Tail(@), Head(@))]
    /\ UNCHANGED <<bfd, discs, heard, changes>>

Step(n) ==
    \/ \E c \in Configs : bfd_configure(n, c) \/ Enable(n, c)
    \/ Disable(n)
    \/ bfd_run(n)
    \/ Expire(n)
    \/ Decay(n)
    \/ bfd_put_packet(n)
    \/ bfd_process_packet(n)
    \/ Lose(n)
    \/ Duplicate(n)
    \/ Delay(n)

Next == \E n \in Node : Step(n)

Spec == Init /\ [][Next]_vars

\* port_run() runs on every iteration of the main loop, a message is sent at the
\* latest when next_tx comes, and a message that is not lost arrives.
Fairness ==
    \A n \in Node : /\ WF_vars(bfd_run(n))
                    /\ WF_vars(bfd_put_packet(n))
                    /\ WF_vars(bfd_process_packet(n))

\* The path delivers faster than the sessions transmit, so that again and again
\* no message is on its way: intervals are 100 ms or more, and a second or more
\* for a session that is not up.
Quick == []<>(\A n \in Node : wire[n] = <<>>)

FairSpec == Spec /\ Fairness /\ Quick

-------------------------------------------------------------------------------
\* RFC 5880 6.5, asserted by bfd_put_packet(): a session never has both the Poll
\* and the Final flag to send, whichever of bfd_run(), bfd_configure() and
\* bfd_process_packet() comes first.
NotPollAndFinal == \A n \in Node : "POLL" \notin bfd[n].flags \/ "FINAL" \notin bfd[n].flags

\* A session that is up, and so may carry traffic, knows that the path works in
\* both directions: the remote session it is bound to has accepted a message of
\* this very session, whatever messages of sessions that were disabled since are
\* still on their way.
UpMeansHeard ==
    \A n \in Node : bfd[n].state = UP => <<bfd[n].rmt_disc, bfd[n].disc>> \in heard

BothUp == \A n \in Node : Enabled(n) /\ bfd[n].state = UP

\* Once changes and faults end, the sessions come up and stay up, the transmit
\* interval in use is the configured one, even if it was changed while a poll
\* sequence for another change went on, and each end forwards exactly if the
\* other does not report that the path beyond it is down (bfd_run(),
\* bfd_process_packet(), bfd_forwarding()).
Settles ==
    <>[](\A n \in Node : Enabled(n)) =>
        <>[](/\ BothUp
             /\ \A n \in Node :
                    /\ bfd[n].min_tx = bfd[n].cfg_min_tx
                    /\ bfd_forwarding(bfd[n]) = (bfd[Peer(n)].diag # "CPATH_DOWN"))

\* A session that is up and out of decay for good goes back to the configured
\* min_rx.
DecayEnds ==
    \A n \in Node :
        <>[](bfd[n].state = UP /\ ~bfd[n].in_decay) => <>[](bfd[n].min_rx = bfd[n].cfg_min_rx)
================================================================================
