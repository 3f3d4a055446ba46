------------------------------- MODULE BfdProofs -------------------------------
(* Proofs about Bfd, for every configuration and every bound.                 *)
EXTENDS Bfd, TLAPS

\* What every function that works on one session, other than the processing of a
\* message, does to what the other end and this one know of each other.
Keeps(s, r) ==
    /\ r \in Session
    /\ r.disc = s.disc
    /\ r.rmt_disc \in {0, s.rmt_disc}
    /\ r.state = UP => s.state = UP /\ r.rmt_disc = s.rmt_disc
    /\ ("POLL" \in r.flags /\ "FINAL" \in r.flags)
            => ("POLL" \in s.flags /\ "FINAL" \in s.flags)

\* bfd_set_state() to the same state or down keeps what is known.
LEMMA SetStateKeeps ==
    ASSUME NEW s \in Session, NEW st \in {DOWN, s.state}, NEW d \in Diag
    PROVE  Keeps(s, bfd_set_state(s, st, d))
<1> DEFINE e == IF d = "NONE" /\ s.cpath_down THEN "CPATH_DOWN" ELSE d
           t == [s EXCEPT !.state = st, !.diag = e]
           u == [t EXCEPT !.rmt_diag = "NONE", !.rmt_min_rx = 1, !.rmt_disc = 0,
                          !.rmt_min_tx = 0,
                          !.min_rx = IF s.in_decay THEN s.cfg_min_rx ELSE @,
                          !.in_decay = FALSE]
<1>1. e \in Diag
  BY DEF Diag
<1>2. t \in Session /\ t.disc = s.disc /\ t.rmt_disc = s.rmt_disc /\ t.state = st
      /\ t.flags = s.flags /\ s.cfg_min_rx \in Nat
  <2> HIDE DEF e
  <2>1. QED BY <1>1, Zenon DEF Session, DOWN, INIT, UP
<1>3. st > DOWN \/ s.state = st => Keeps(s, t)
  <2> HIDE DEF t
  <2>1. QED BY <1>2 DEF Keeps, Session, DOWN, INIT, UP
<1>4. ~(st > DOWN) => Keeps(s, u)
  <2> HIDE DEF t
  <2>1. u \in Session /\ u.disc = t.disc /\ u.rmt_disc = 0 /\ u.state = t.state
        /\ u.flags = t.flags
    BY <1>2, ZenonT(30) DEF Session, Diag
  <2> HIDE DEF u
  <2>2. QED BY <1>2, <2>1 DEF Keeps, DOWN, UP
<1>5. QED
  BY <1>3, <1>4 DEF bfd_set_state

\* bfd_poll() starts no sequence while a Final is to be sent.
LEMMA PollKeeps ==
    ASSUME NEW s \in Session
    PROVE  Keeps(s, bfd_poll(s))
BY ZenonT(60) DEF Keeps, bfd_poll, bfd_in_poll, Session, Diag, DOWN, INIT, UP

\* The settings that bfd_configure() stores one after the other.
LEMMA WithMinTxKeeps ==
    ASSUME NEW s \in Session, NEW i \in Nat
    PROVE  Keeps(s, WithMinTx(s, i))
BY ZenonT(60) DEF Keeps, WithMinTx, Session, Diag, DOWN, INIT, UP

LEMMA WithMinRxKeeps ==
    ASSUME NEW s \in Session, NEW i \in Nat
    PROVE  Keeps(s, WithMinRx(s, i))
BY ZenonT(60) DEF Keeps, WithMinRx, Session, Diag, DOWN, INIT, UP

LEMMA WithDecayKeeps ==
    ASSUME NEW s \in Session, NEW i \in Nat
    PROVE  Keeps(s, WithDecay(s, i))
BY ZenonT(60) DEF Keeps, WithDecay, Session, Diag, DOWN, INIT, UP

LEMMA KeepsTransitive ==
    ASSUME NEW s, NEW t, NEW u, Keeps(s, t), Keeps(t, u)
    PROVE  Keeps(s, u)
BY DEF Keeps

LEMMA WithCpathDownKeeps ==
    ASSUME NEW s \in Session, NEW b \in BOOLEAN
    PROVE  Keeps(s, WithCpathDown(s, b))
<1> DEFINE t == [s EXCEPT !.cpath_down = b]
<1>1. Keeps(s, t) /\ t.state = s.state
  <2>1. t \in Session /\ t.disc = s.disc /\ t.rmt_disc = s.rmt_disc
        /\ t.state = s.state /\ t.flags = s.flags
    BY SMTT(30) DEF Session
  <2> HIDE DEF t
  <2>2. QED BY <2>1 DEF Keeps
<1>2. Keeps(t, bfd_set_state(t, s.state, "NONE"))
  <2>1. t \in Session
    BY <1>1 DEF Keeps
  <2> HIDE DEF t
  <2>2. s.state \in {DOWN, t.state} /\ "NONE" \in Diag
    BY <1>1 DEF Diag
  <2>3. QED BY <1>1, <2>1, <2>2, SetStateKeeps
<1>3. QED
  BY <1>1, <1>2, KeepsTransitive DEF WithCpathDown

\* The whole of bfd_configure(), and of bfd_run(), on an existing session.
LEMMA ConfiguredKeeps ==
    ASSUME NEW s \in Session, NEW c \in Config
    PROVE  Keeps(s, Configured(s, c))
<1> DEFINE min_tx == Larger(c.min_tx, 100)
           min_rx == Larger(c.min_rx, 100)
           t == WithMinRx(WithMinTx(s, min_tx), min_rx)
           u == WithDecay(t, c.decay_min_rx)
           v(x) == WithCpathDown(x, c.cpath_down)
<1>1. min_tx \in Nat /\ min_rx \in Nat /\ c.decay_min_rx \in Nat /\ c.cpath_down \in BOOLEAN
  BY DEF Config, Larger
<1> HIDE DEF min_tx, min_rx
<1>2. Keeps(s, t)
  <2>1. Keeps(s, WithMinTx(s, min_tx))
    BY <1>1, WithMinTxKeeps
  <2>2. Keeps(WithMinTx(s, min_tx), t)
    BY <1>1, <2>1, WithMinRxKeeps DEF Keeps
  <2>3. QED BY <2>1, <2>2, KeepsTransitive
<1> HIDE DEF t
<1>3. Keeps(s, u)
  <2>1. Keeps(t, u)
    BY <1>1, <1>2, WithDecayKeeps DEF Keeps
  <2>2. QED BY <1>2, <2>1, KeepsTransitive
<1> HIDE DEF u
<1>4. ASSUME NEW x, Keeps(s, x)
      PROVE  Keeps(s, v(x))
  <2>1. Keeps(x, v(x))
    BY <1>1, <1>4, WithCpathDownKeeps DEF Keeps
  <2>2. QED BY <1>4, <2>1, KeepsTransitive
<1> HIDE DEF v
<1>5. ASSUME NEW x, Keeps(s, x)
      PROVE  Keeps(s, bfd_poll(x))
  <2>1. Keeps(x, bfd_poll(x))
    BY <1>5, PollKeeps DEF Keeps
  <2>2. QED BY <1>5, <2>1, KeepsTransitive
<1>6. \E x \in {t, u, v(t), v(u)} : Configured(s, c) \in {x, bfd_poll(x)}
  BY DEF Configured, min_tx, min_rx, t, u, v
<1>7. QED BY <1>2, <1>3, <1>4, <1>5, <1>6

LEMMA RanKeeps ==
    ASSUME NEW s \in Session, NEW expired \in BOOLEAN, NEW decay \in BOOLEAN
    PROVE  Keeps(s, Ran(s, expired, decay))
<1> DEFINE t == IF expired THEN bfd_set_state(s, DOWN, "EXPIRED") ELSE s
           u == IF t.state = UP /\ t.decay_min_rx > 0 THEN [t EXCEPT !.in_decay = decay] ELSE t
<1>1. Keeps(s, t)
  <2>1. Keeps(s, s)
    BY DEF Keeps
  <2>2. Keeps(s, bfd_set_state(s, DOWN, "EXPIRED"))
    BY SetStateKeeps DEF Diag
  <2>3. QED BY <2>1, <2>2
<1> HIDE DEF t
<1>2. Keeps(t, u)
  BY <1>1 DEF Keeps, Session, Diag
<1> HIDE DEF u
<1>3. Keeps(u, bfd_poll(u))
  BY <1>2, PollKeeps DEF Keeps
<1>4. Ran(s, expired, decay) \in {u, bfd_poll(u)}
  BY DEF Ran, t, u
<1>5. QED BY <1>1, <1>2, <1>3, <1>4, KeepsTransitive

\* bfd_process_packet() binds the session to the sender of an accepted message,
\* and leaves it up only if the message is past the first exchange.
LEMMA ProcessedBinds ==
    ASSUME NEW s \in Session, NEW m \in Msg
    PROVE  LET r == Processed(s, m)
           IN  /\ r \in Session
               /\ r.disc = s.disc
               /\ r.rmt_disc \in {0, m.my_disc}
               /\ r.state = UP => m.state > DOWN /\ r.rmt_disc = m.my_disc
               /\ ("POLL" \in r.flags /\ "FINAL" \in r.flags)
                        => ("POLL" \in s.flags /\ "FINAL" \in s.flags)
<1> DEFINE t == Recorded(s, m)
           r == Processed(s, m)
<1>1. /\ t \in Session
      /\ t.disc = s.disc /\ t.rmt_disc = m.my_disc /\ t.state = s.state /\ t.diag \in Diag
      /\ ("POLL" \in t.flags /\ "FINAL" \in t.flags)
            => ("POLL" \in s.flags /\ "FINAL" \in s.flags)
  <2> DEFINE final == "FINAL" \in m.flags /\ bfd_in_poll(s)
             tx == IF final THEN s.poll_min_tx ELSE s.min_tx
             rx == IF final THEN s.poll_min_rx ELSE s.min_rx
             flags == IF "POLL" \in m.flags THEN {"FINAL"}
                      ELSE IF final THEN s.flags \ {"POLL"} ELSE s.flags
             rmt_rx == Larger(m.min_rx, 1)
             rmt_tx == Larger(m.min_tx, 1)
  <2>1. tx \in Nat /\ rx \in Nat /\ rmt_rx \in Nat /\ rmt_tx \in Nat
    BY DEF Session, Msg, Larger
  <2>2. /\ flags \in SUBSET {"POLL", "FINAL"}
        /\ ("POLL" \in flags /\ "FINAL" \in flags)
              => ("POLL" \in s.flags /\ "FINAL" \in s.flags)
    BY DEF Session
  <2>3. m.my_disc \in Nat /\ m.diag \in Diag
    BY DEF Msg
  <2>4. t = [s EXCEPT !.rmt_disc = m.my_disc, !.rmt_diag = m.diag, !.min_tx = tx,
                      !.min_rx = rx, !.flags = flags, !.rmt_min_rx = rmt_rx,
                      !.rmt_min_tx = rmt_tx]
    BY DEF Recorded, Session
  <2> HIDE DEF final, tx, rx, flags, rmt_rx, rmt_tx, t
  <2>5. QED BY <2>1, <2>2, <2>3, <2>4, Zenon DEF Session
<1> HIDE DEF t
<1>2. ASSUME NEW st \in {INIT, UP}
      PROVE  LET q == bfd_set_state(t, st, t.diag)
             IN  q \in Session /\ q.disc = t.disc /\ q.rmt_disc = t.rmt_disc
                 /\ q.flags = t.flags /\ q.state = st
  <2> DEFINE d == IF t.diag = "NONE" /\ t.cpath_down THEN "CPATH_DOWN" ELSE t.diag
             q == [t EXCEPT !.state = st, !.diag = d]
  <2>1. d \in Diag
    BY <1>1 DEF Diag
  <2>2. bfd_set_state(t, st, t.diag) = q
    BY DEF bfd_set_state, DOWN, INIT, UP
  <2>3. q \in Session /\ q.disc = t.disc /\ q.rmt_disc = t.rmt_disc
        /\ q.flags = t.flags /\ q.state = st
    <3> HIDE DEF d
    <3>1. QED BY <1>1, <2>1, Zenon DEF Session, DOWN, INIT, UP
  <2>4. QED BY <2>2, <2>3
<1>3. LET q == bfd_set_state(t, DOWN, "RMT_DOWN")
      IN  Keeps(t, q) /\ q.state = DOWN
  <2>1. Keeps(t, bfd_set_state(t, DOWN, "RMT_DOWN"))
    BY <1>1, SetStateKeeps DEF Diag
  <2>2. bfd_set_state(t, DOWN, "RMT_DOWN").state = DOWN
    BY <1>1 DEF bfd_set_state, Session
  <2>3. QED BY <2>1, <2>2
<1>4. CASE r = bfd_set_state(t, DOWN, "RMT_DOWN")
  BY <1>1, <1>3, <1>4 DEF Keeps, DOWN, UP
<1>5. CASE r = bfd_set_state(t, INIT, t.diag)
  BY <1>1, <1>2, <1>5 DEF INIT, UP
<1>6. CASE r = bfd_set_state(t, UP, t.diag) /\ m.state > DOWN
  BY <1>1, <1>2, <1>6
<1>7. CASE r = t /\ (s.state # UP \/ m.state > DOWN)
  BY <1>1, <1>7
<1>8. QED
  <2>1. m.state \in {DOWN, INIT, UP} /\ s.state \in {DOWN, INIT, UP}
    BY DEF Msg, Session
  <2>2. \/ r = bfd_set_state(t, DOWN, "RMT_DOWN")
        \/ r = bfd_set_state(t, INIT, t.diag)
        \/ r = bfd_set_state(t, UP, t.diag) /\ m.state > DOWN
        \/ r = t /\ (s.state # UP \/ m.state > DOWN)
    BY <2>1 DEF Processed, t, ADMIN_DOWN, DOWN, INIT, UP
  <2>3. QED BY <1>4, <1>5, <1>6, <1>7, <2>2

\* What bfd_put_packet() composes is a message of this session.
LEMMA ComposedMsg ==
    ASSUME NEW s \in Session
    PROVE  Composed(s) \in Msg /\ Composed(s).my_disc = s.disc
           /\ Composed(s).your_disc = s.rmt_disc
BY DEF Composed, Msg, Session, bfd_in_poll, bfd_min_tx, Larger, Diag

-------------------------------------------------------------------------------
\* A session names a remote one only after it accepted a message of it, and so a
\* message that names a session comes from one that heard that session.
SessionHeard ==
    \A n \in Node : bfd[n].rmt_disc # 0 => <<bfd[n].disc, bfd[n].rmt_disc>> \in heard

WireHeard ==
    \A n \in Node : \A i \in 1 .. Len(wire[n]) :
        wire[n][i].your_disc # 0 => <<wire[n][i].my_disc, wire[n][i].your_disc>> \in heard

IInv == TypeOK /\ NotPollAndFinal /\ SessionHeard /\ WireHeard /\ UpMeansHeard

\* The invariant over the session of one node.
Good(s) ==
    /\ s \in Session
    /\ "POLL" \notin s.flags \/ "FINAL" \notin s.flags
    /\ s.rmt_disc # 0 => <<s.disc, s.rmt_disc>> \in heard
    /\ s.state = UP => <<s.rmt_disc, s.disc>> \in heard

\* A new session knows nothing, and is not up.
LEMMA NewGood ==
    ASSUME NEW disc \in Nat
    PROVE  Good(New(disc)) /\ New(disc) \in Session /\ New(disc).disc = disc
BY DEF Good, New, Session, Diag, DOWN, INIT, UP

\* Functions that keep what is known preserve the invariant of the session.
LEMMA KeepsGood ==
    ASSUME NEW s, NEW r, Good(s), Keeps(s, r)
    PROVE  Good(r)
BY DEF Good, Keeps

LEMMA Together ==
    IInv <=> /\ bfd \in [Node -> Session] /\ \A n \in Node : Good(bfd[n])
             /\ TypeOK /\ WireHeard
BY Zenon DEF IInv, Good, TypeOK, NotPollAndFinal, SessionHeard, UpMeansHeard

LEMMA InitInv == Init => IInv
<1> SUFFICES ASSUME Init PROVE IInv
  OBVIOUS
<1>1. ASSUME NEW n \in Node
      PROVE  Good(bfd[n])
  <2>1. n \in Nat
    BY DEF Node
  <2>2. bfd[n] = Configured(New(n), First[n])
    BY DEF Init
  <2>3. Keeps(New(n), Configured(New(n), First[n]))
    BY <2>1, NewGood, ConfiguredKeeps, BfdAssumption
  <2>4. QED BY <2>1, <2>2, <2>3, NewGood, KeepsGood
<1>2. bfd \in [Node -> Session]
  BY <1>1 DEF Init, Good
<1>3. TypeOK /\ WireHeard
  <2>1. \A n \in Node : wire[n] = <<>>
    BY DEF Init
  <2>2. wire \in [Node -> Seq(Msg)]
    BY DEF Init
  <2>3. \A n \in Node : Len(wire[n]) = 0
    BY <2>1
  <2>4. changes \in 0 .. MaxChanges /\ faults \in 0 .. MaxFaults /\ discs \in Nat
    BY BfdAssumption DEF Init
  <2>5. heard = {} /\ MaxWire \in Nat
    BY BfdAssumption DEF Init
  <2>6. TypeOK
    BY <1>2, <2>2, <2>3, <2>4, <2>5 DEF TypeOK
  <2>7. WireHeard
    BY <2>3 DEF WireHeard
  <2>8. QED BY <2>6, <2>7
<1>4. QED
  BY <1>1, <1>2, <1>3, Together

\* The ends of the path are each other's peers.
LEMMA PeerType == \A n \in Node : Peer(n) \in Node /\ Peer(n) # n
BY DEF Peer, Node

\* A step that replaces the session of n by one for which the invariant holds,
\* and leaves messages and history alone, preserves the invariant.
LEMMA LocalStep ==
    ASSUME IInv, NEW n \in Node, NEW r, Good(r), bfd' = [bfd EXCEPT ![n] = r],
           UNCHANGED <<wire, heard>>, discs' \in Nat,
           changes' \in 0 .. MaxChanges, faults' \in 0 .. MaxFaults
    PROVE  IInv'
<1>1. bfd' \in [Node -> Session] /\ \A p \in Node : Good(bfd'[p])
  BY Together DEF Good
<1>2. \A p \in Node : Good(bfd[p])'
  BY <1>1 DEF Good
<1>3. TypeOK' /\ WireHeard'
  BY <1>1 DEF IInv, TypeOK, WireHeard
<1>4. QED
  <2>1. (/\ bfd \in [Node -> Session] /\ \A p \in Node : Good(bfd[p])
         /\ TypeOK /\ WireHeard)'
    BY <1>1, <1>2, <1>3
  <2>2. QED
    BY <2>1 DEF IInv, Good, TypeOK, NotPollAndFinal, SessionHeard, UpMeansHeard

\* A fault of the path that leaves only messages that were on their way.
LEMMA PathStep ==
    ASSUME IInv, NEW n \in Node, NEW q \in Seq(Msg), Len(q) <= MaxWire,
           \A i \in 1 .. Len(q) : \E j \in 1 .. Len(wire[n]) : q[i] = wire[n][j],
           wire' = [wire EXCEPT ![n] = q], UNCHANGED <<bfd, discs, heard, changes>>,
           faults' \in 0 .. MaxFaults
    PROVE  IInv'
<1>1. TypeOK'
  BY DEF IInv, TypeOK
<1>2. WireHeard'
  <2> SUFFICES ASSUME NEW p \in Node, NEW i \in 1 .. Len(wire'[p]), wire'[p][i].your_disc # 0
               PROVE  <<wire'[p][i].my_disc, wire'[p][i].your_disc>> \in heard
    BY DEF WireHeard
  <2>1. CASE p = n
    <3>1. wire'[p] = q
      BY <2>1 DEF IInv, TypeOK
    <3>2. PICK j \in 1 .. Len(wire[n]) : q[i] = wire[n][j]
      BY <3>1
    <3>3. QED BY <3>1, <3>2 DEF IInv, WireHeard
  <2>2. CASE p # n
    <3>1. wire'[p] = wire[p]
      BY <2>2 DEF IInv, TypeOK
    <3>2. QED BY <3>1 DEF IInv, WireHeard
  <2>3. QED BY <2>1, <2>2
<1>3. NotPollAndFinal' /\ SessionHeard' /\ UpMeansHeard'
  BY DEF IInv, NotPollAndFinal, SessionHeard, UpMeansHeard
<1>4. QED BY <1>1, <1>2, <1>3 DEF IInv

\* bfd_put_packet(): the message says of the remote session what is known.
LEMMA PutStep ==
    ASSUME IInv, NEW n \in Node, bfd_put_packet(n)
    PROVE  IInv'
<1> DEFINE m == Composed(bfd[n])
           p == Peer(n)
           r == [bfd[n] EXCEPT !.flags = @ \ {"FINAL"}]
<1>1. bfd[n] \in Session /\ Good(bfd[n]) /\ p \in Node /\ wire[p] \in Seq(Msg)
  BY PeerType, Together DEF IInv, TypeOK
<1>2. m \in Msg /\ m.my_disc = bfd[n].disc /\ m.your_disc = bfd[n].rmt_disc
  BY <1>1, ComposedMsg
<1>3. wire' = [wire EXCEPT ![p] = Append(@, m)] /\ Len(wire[p]) < MaxWire
  BY DEF bfd_put_packet
<1>4. bfd' = [bfd EXCEPT ![n] = r] /\ UNCHANGED <<discs, heard, changes, faults>>
  BY DEF bfd_put_packet
<1>5. Good(r) /\ r \in Session
  BY <1>1, Zenon DEF Good, Session
<1> HIDE DEF m, p, r
<1>6. \A q \in Node : Good(bfd'[q])
  BY <1>4, <1>5, Together DEF IInv, TypeOK
<1>7. bfd' \in [Node -> Session]
  BY <1>4, <1>5 DEF IInv, TypeOK
<1>8. wire' \in [Node -> Seq(Msg)] /\ \A q \in Node : Len(wire'[q]) <= MaxWire
  BY <1>1, <1>2, <1>3, BfdAssumption DEF IInv, TypeOK
<1>9. WireHeard'
  <2> SUFFICES ASSUME NEW q \in Node, NEW i \in 1 .. Len(wire'[q]), wire'[q][i].your_disc # 0
               PROVE  <<wire'[q][i].my_disc, wire'[q][i].your_disc>> \in heard
    BY <1>4 DEF WireHeard
  <2>1. CASE q # p \/ i <= Len(wire[q])
    <3>1. i \in 1 .. Len(wire[q]) /\ wire'[q][i] = wire[q][i]
      BY <1>1, <1>2, <1>3, <2>1 DEF IInv, TypeOK
    <3>2. QED BY <3>1 DEF IInv, WireHeard
  <2>2. CASE q = p /\ ~(i <= Len(wire[q]))
    <3>1. wire'[q][i] = m
      BY <1>1, <1>2, <1>3, <2>2 DEF IInv, TypeOK
    <3>2. QED BY <1>1, <1>2, <3>1, Zenon DEF Good
  <2>3. QED BY <2>1, <2>2
<1>10. TypeOK'
  BY <1>4, <1>7, <1>8 DEF IInv, TypeOK
<1>11. NotPollAndFinal' /\ SessionHeard' /\ UpMeansHeard'
  BY <1>4, <1>6, Zenon DEF NotPollAndFinal, SessionHeard, UpMeansHeard, Good
<1>12. QED BY <1>9, <1>10, <1>11 DEF IInv

\* bfd_process_packet(): an accepted message that leaves the session up names it,
\* and so comes from a session that heard it.
LEMMA ProcessStep ==
    ASSUME IInv, NEW n \in Node, bfd_process_packet(n)
    PROVE  IInv'
<1> DEFINE m == Head(wire[n])
           s == bfd[n]
           r == Processed(s, m)
           accepted == Enabled(n) /\ Accepts(s, m)
<1>1. s \in Session /\ Good(s) /\ wire[n] \in Seq(Msg) /\ wire[n] # <<>>
  BY Together DEF IInv, TypeOK, bfd_process_packet
<1>2. m \in Msg /\ m = wire[n][1] /\ 1 \in 1 .. Len(wire[n])
  BY <1>1
<1>3. m.your_disc # 0 => <<m.my_disc, m.your_disc>> \in heard
  BY <1>2 DEF IInv, WireHeard
<1>4. /\ bfd' = IF accepted THEN [bfd EXCEPT ![n] = r] ELSE bfd
      /\ heard' = IF accepted THEN heard \union {<<s.disc, m.my_disc>>} ELSE heard
      /\ wire' = [wire EXCEPT ![n] = Tail(@)]
      /\ UNCHANGED <<discs, changes, faults>>
  BY DEF bfd_process_packet
<1>5. accepted => (m.state > DOWN => m.your_disc = s.disc /\ m.your_disc # 0)
  BY <1>2 DEF Accepts, Msg, DOWN, INIT, UP
<1>6. /\ r \in Session /\ r.disc = s.disc /\ r.rmt_disc \in {0, m.my_disc}
      /\ r.state = UP => m.state > DOWN /\ r.rmt_disc = m.my_disc
      /\ "POLL" \notin r.flags \/ "FINAL" \notin r.flags
  BY <1>1, <1>2, ProcessedBinds, SMTT(30) DEF Good
<1>7. s.disc \in Nat /\ m.my_disc \in Nat
  BY <1>1, <1>2, Zenon DEF Session, Msg
<1> HIDE DEF m, s, r, accepted
<1>8. heard \subseteq heard' /\ heard' \subseteq Nat \X Nat
  BY <1>4, <1>7 DEF IInv, TypeOK
<1>9. \A p \in Node : Good(bfd[p])'
  <2> SUFFICES ASSUME NEW p \in Node PROVE Good(bfd[p])'
    OBVIOUS
  <2>1. Good(bfd[p])
    BY Together
  <2>2. CASE accepted /\ p = n
    <3>1. bfd'[p] = r
      BY <1>4, <2>2 DEF IInv, TypeOK
    <3>2. <<s.disc, m.my_disc>> \in heard'
      BY <1>4, <2>2
    <3>3. r.state = UP => <<r.rmt_disc, r.disc>> \in heard'
      BY <1>3, <1>5, <1>6, <1>8, <2>2
    <3>4. QED BY <1>6, <3>1, <3>2, <3>3 DEF Good
  <2>3. CASE ~(accepted /\ p = n)
    <3>1. bfd'[p] = bfd[p]
      BY <1>4, <2>3 DEF IInv, TypeOK
    <3>2. QED BY <1>8, <2>1, <3>1 DEF Good
  <2>4. QED BY <2>2, <2>3
<1>10. bfd' \in [Node -> Session]
  BY <1>4, <1>6 DEF IInv, TypeOK
<1>11. wire' \in [Node -> Seq(Msg)] /\ \A p \in Node : Len(wire'[p]) <= MaxWire
  BY <1>1, <1>4, BfdAssumption DEF IInv, TypeOK
<1>12. TypeOK'
  BY <1>4, <1>8, <1>10, <1>11 DEF IInv, TypeOK
<1>13. WireHeard'
  <2> SUFFICES ASSUME NEW p \in Node, NEW i \in 1 .. Len(wire'[p]), wire'[p][i].your_disc # 0
               PROVE  <<wire'[p][i].my_disc, wire'[p][i].your_disc>> \in heard'
    BY DEF WireHeard
  <2>1. \E j \in 1 .. Len(wire[p]) : wire'[p][i] = wire[p][j]
    <3>1. CASE p = n
      <4>1. wire'[p] = Tail(wire[n]) /\ i + 1 \in 1 .. Len(wire[n])
        BY <1>1, <1>4, <3>1 DEF IInv, TypeOK
      <4>2. wire'[p][i] = wire[n][i + 1]
        BY <1>1, <4>1
      <4>3. QED BY <3>1, <4>1, <4>2
    <3>2. CASE p # n
      BY <1>4, <3>2 DEF IInv, TypeOK
    <3>3. QED BY <3>1, <3>2
  <2>2. QED BY <1>8, <2>1 DEF IInv, WireHeard
<1>14. NotPollAndFinal' /\ SessionHeard' /\ UpMeansHeard'
  BY <1>9, Zenon DEF NotPollAndFinal, SessionHeard, UpMeansHeard, Good
<1>15. QED BY <1>12, <1>13, <1>14 DEF IInv

LEMMA NextInv == IInv /\ [Next]_vars => IInv'
<1> SUFFICES ASSUME IInv, [Next]_vars PROVE IInv'
  OBVIOUS
<1>1. CASE UNCHANGED vars
  BY <1>1, Zenon DEF vars, IInv, TypeOK, NotPollAndFinal, SessionHeard, WireHeard, UpMeansHeard
<1>2. ASSUME NEW n \in Node, Step(n)
      PROVE  IInv'
  <2>1. /\ bfd[n] \in Session /\ Good(bfd[n]) /\ wire[n] \in Seq(Msg)
        /\ Len(wire[n]) <= MaxWire /\ MaxWire \in Nat /\ discs \in Nat
        /\ changes \in 0 .. MaxChanges /\ faults \in 0 .. MaxFaults
    BY Together, BfdAssumption DEF IInv, TypeOK
  <2>2. (Change => changes' \in 0 .. MaxChanges) /\ (Fault => faults' \in 0 .. MaxFaults)
    BY <2>1, BfdAssumption DEF Change, Fault
  <2>3. ASSUME NEW expired \in BOOLEAN, NEW decay \in BOOLEAN
        PROVE  Good(Ran(bfd[n], expired, decay))
    BY <2>1, RanKeeps, KeepsGood
  <2>4. ASSUME NEW c \in Configs, bfd_configure(n, c)
        PROVE  IInv'
    <3>1. Good(Configured(bfd[n], c))
      BY <2>1, ConfiguredKeeps, KeepsGood, BfdAssumption
    <3>2. QED BY <2>1, <2>2, <2>4, <3>1, LocalStep, Zenon DEF bfd_configure
  <2>5. ASSUME NEW c \in Configs, Enable(n, c)
        PROVE  IInv'
    <3>1. discs' \in Nat
      BY <2>1, <2>5 DEF Enable
    <3>2. Good(New(discs')) /\ New(discs') \in Session
      BY <3>1, NewGood
    <3>3. Keeps(New(discs'), Configured(New(discs'), c))
      BY <3>2, ConfiguredKeeps, BfdAssumption
    <3>4. Good(Configured(New(discs'), c))
      BY <3>2, <3>3, KeepsGood
    <3>5. QED BY <2>1, <2>5, <3>1, <3>4, LocalStep, Zenon DEF Enable
  <2>6. ASSUME Disable(n) PROVE IInv'
    <3>1. Good(NoSession)
      BY NewGood DEF NoSession
    <3>2. QED BY <2>1, <2>2, <2>6, <3>1, LocalStep, Zenon DEF Disable
  <2>7. ASSUME bfd_run(n) PROVE IInv'
    <3>1. bfd[n].in_decay \in BOOLEAN
      BY <2>1 DEF Session
    <3>2. QED BY <2>1, <2>3, <2>7, <3>1, LocalStep, Zenon DEF bfd_run
  <2>8. ASSUME Expire(n) PROVE IInv'
    BY <2>1, <2>2, <2>3, <2>8, LocalStep, Zenon DEF Expire
  <2>9. ASSUME Decay(n) PROVE IInv'
    <3>1. (~bfd[n].in_decay) \in BOOLEAN
      OBVIOUS
    <3>2. QED BY <2>1, <2>2, <2>3, <2>9, <3>1, LocalStep, Zenon DEF Decay
  <2>10. ASSUME Lose(n) PROVE IInv'
    <3> DEFINE q == Tail(wire[n])
    <3>1. wire[n] # <<>> /\ wire' = [wire EXCEPT ![n] = q] /\ Fault
          /\ UNCHANGED <<bfd, discs, heard, changes>>
      BY <2>10 DEF Lose
    <3>2. q \in Seq(Msg) /\ Len(q) = Len(wire[n]) - 1
      BY <2>1, <3>1
    <3>3. \A i \in 1 .. Len(q) : i + 1 \in 1 .. Len(wire[n]) /\ q[i] = wire[n][i + 1]
      BY <2>1, <3>1, <3>2
    <3> HIDE DEF q
    <3>4. Len(q) <= MaxWire
      BY <2>1, <3>2
    <3>5. QED BY <2>2, <3>1, <3>2, <3>3, <3>4, PathStep, Zenon
  <2>11. ASSUME Duplicate(n) PROVE IInv'
    <3> DEFINE q == Append(wire[n], Head(wire[n]))
    <3>1. wire[n] # <<>> /\ Len(wire[n]) < MaxWire /\ wire' = [wire EXCEPT ![n] = q]
          /\ Fault /\ UNCHANGED <<bfd, discs, heard, changes>>
      BY <2>11 DEF Duplicate
    <3>2. q \in Seq(Msg) /\ Len(q) = Len(wire[n]) + 1 /\ 1 \in 1 .. Len(wire[n])
      BY <2>1, <3>1
    <3>3. \A i \in 1 .. Len(q) : q[i] = wire[n][IF i <= Len(wire[n]) THEN i ELSE 1]
      BY <2>1, <3>1, <3>2, SMTT(30)
    <3> HIDE DEF q
    <3>4. \A i \in 1 .. Len(q) : \E j \in 1 .. Len(wire[n]) : q[i] = wire[n][j]
      BY <2>1, <3>2, <3>3
    <3>5. Len(q) <= MaxWire
      BY <2>1, <3>1, <3>2
    <3>6. QED BY <2>2, <3>1, <3>2, <3>4, <3>5, PathStep, Zenon
  <2>12. ASSUME Delay(n) PROVE IInv'
    <3> DEFINE q == Append(Tail(wire[n]), Head(wire[n]))
    <3>1. Len(wire[n]) > 1 /\ wire' = [wire EXCEPT ![n] = q] /\ Fault
          /\ UNCHANGED <<bfd, discs, heard, changes>>
      BY <2>12 DEF Delay
    <3>2. Tail(wire[n]) \in Seq(Msg) /\ Len(Tail(wire[n])) = Len(wire[n]) - 1
          /\ Head(wire[n]) \in Msg /\ Head(wire[n]) = wire[n][1] /\ 1 \in 1 .. Len(wire[n])
      BY <2>1, <3>1
    <3>3. q \in Seq(Msg) /\ Len(q) = Len(wire[n])
      BY <2>1, <3>2
    <3>4. \A i \in 1 .. Len(q) :
              q[i] = wire[n][IF i < Len(wire[n]) THEN i + 1 ELSE 1]
      <4> DEFINE u == Tail(wire[n])
      <4>1. \A i \in 1 .. Len(u) : u[i] = wire[n][i + 1]
        BY <2>1, <3>1
      <4>2. \A i \in 1 .. Len(q) : q[i] = IF i <= Len(u) THEN u[i] ELSE Head(wire[n])
        BY <3>2, <3>3
      <4> HIDE DEF u, q
      <4>3. Len(u) = Len(wire[n]) - 1 /\ Len(wire[n]) \in Nat
        BY <2>1, <3>2 DEF u
      <4>4. QED BY <3>2, <3>3, <4>1, <4>2, <4>3
    <3> HIDE DEF q
    <3>5. ASSUME NEW i \in 1 .. Len(q)
          PROVE  \E j \in 1 .. Len(wire[n]) : q[i] = wire[n][j]
      <4>1. CASE i < Len(wire[n])
        <5>1. i + 1 \in 1 .. Len(wire[n]) /\ q[i] = wire[n][i + 1]
          BY <2>1, <3>3, <3>4, <4>1
        <5>2. QED BY <5>1
      <4>2. CASE ~(i < Len(wire[n]))
        <5>1. q[i] = wire[n][1]
          BY <3>4, <4>2
        <5>2. QED BY <3>2, <5>1
      <4>3. QED BY <4>1, <4>2
    <3>6. QED BY <2>1, <2>2, <3>1, <3>3, <3>5, PathStep, Zenon
  <2>13. QED
    BY <1>2, <2>4, <2>5, <2>6, <2>7, <2>8, <2>9, <2>10, <2>11, <2>12, PutStep, ProcessStep
       DEF Step
<1>3. QED BY <1>1, <1>2 DEF Next

\* The invariant that the theorems below rest on.
LEMMA Invariance == Spec => []IInv
BY InitInv, NextInv, PTL DEF Spec

\* Every session, message and counter stays within its type: a session never
\* returns to the administratively down state it is allocated in.
THEOREM TypeCorrect == Spec => []TypeOK
<1>1. IInv => TypeOK
  BY DEF IInv
<1>2. QED BY <1>1, Invariance, PTL

\* The assertion of bfd_put_packet() never fails.
THEOREM AssertionHolds == Spec => []NotPollAndFinal
<1>1. IInv => NotPollAndFinal
  BY DEF IInv
<1>2. QED BY <1>1, Invariance, PTL

\* bfd_process_packet() takes a session up only when the remote session that it
\* is bound to has heard it, for any number of faults, changes and restarts.
THEOREM UpIsBidirectional == Spec => []UpMeansHeard
<1>1. IInv => UpMeansHeard
  BY DEF IInv
<1>2. QED BY <1>1, Invariance, PTL
================================================================================
