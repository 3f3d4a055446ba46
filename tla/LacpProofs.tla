------------------------------- MODULE LacpProofs -------------------------------
(******************************************************************************)
(* Proofs about Lacp: for any systems, links and settings the state keeps its *)
(* type, and the attached slaves of a bond lead to one partner.               *)
(*                                                                            *)
(* An operation changes one bond, so the invariant is a statement on bonds:   *)
(* GoodBond, its type, and OnePartner, which no operation except              *)
(* lacp_update_attached() establishes: the others keep it, or ask for an      *)
(* update.                                                                    *)
(******************************************************************************)
EXTENDS Lacp, FiniteSetTheorems, WellFoundedInduction, TLAPS

GoodBond(x) ==
    /\ x \in Lacp
    /\ \A s, r \in x.slaves : s.link = r.link => s = r
    /\ x.key_slave \in IF x.slaves = {} THEN {NoSlave} ELSE Links(x)

OnePartner(x) ==
    LET attached == {s \in x.slaves : s.attached}
    IN  ~x.update =>
            /\ attached \subseteq Attachable(x)
            /\ \A s, r \in attached : SamePartner(s, r)
            /\ x.negotiated <=> attached # {}

-------------------------------------------------------------------------------
(* Slaves and what is sent of them.                                           *)

\* slave_lookup() finds the slave of a link that has one.
LEMMA LookupFinds ==
    ASSUME NEW x, GoodBond(x), NEW l \in Links(x)
    PROVE  /\ slave_lookup(x, l) \in x.slaves
           /\ slave_lookup(x, l) \in Slave
           /\ slave_lookup(x, l).link = l
<1>1. \E s \in x.slaves : s.link = l
  BY DEF Links
<1>2. x.slaves \subseteq Slave
  BY DEF GoodBond, Lacp
<1> QED
  BY <1>1, <1>2 DEF slave_lookup

\* slave_get_actor() makes proper actor information of any slave.
LEMMA ActorIsInfo ==
    ASSUME NEW x, GoodBond(x), NEW s \in x.slaves
    PROVE  slave_get_actor(x, s) \in Info
<1> DEFINE k == slave_lookup(x, x.key_slave)
           actor == slave_get_actor(x, s)
<1>1. x.key_slave \in Links(x)
  BY DEF GoodBond
<1>2. k \in Slave
  BY <1>1, LookupFinds
<1>3. s \in Slave /\ x.sys \in SysId
  BY DEF GoodBond, Lacp
<1>4. actor.state \in SUBSET Flag
  BY DEF slave_get_actor, Flag
<1>5. (IF k.key # 0 THEN k.key ELSE k.link) \in Nat
  BY <1>2, LacpAssumption, Zenon DEF Slave
<1>6. actor = [sys |-> x.sys, key |-> IF k.key # 0 THEN k.key ELSE k.link,
               port |-> s.link, state |-> actor.state]
  BY DEF slave_get_actor
<1> HIDE DEF k, actor
<1>7. s.link \in Link
  BY <1>3 DEF Slave
<1>8. actor \in Info
  BY <1>3, <1>4, <1>5, <1>6, <1>7 DEF Info
<1> QED
  BY <1>8 DEF actor

\* A bond has finitely many slaves.
LEMMA FinitelyMany ==
    ASSUME NEW x, GoodBond(x)
    PROVE  IsFiniteSet(x.slaves)
<1> DEFINE f == [s \in x.slaves |-> s.link]
<1>1. x.slaves \subseteq Slave
  BY DEF GoodBond, Lacp
<1>2. f \in [x.slaves -> Link]
  BY <1>1 DEF Slave
<1>3. f \in Injection(x.slaves, Link)
  BY <1>2 DEF Injection, IsInjective, GoodBond
<1>4. IsFiniteSet(Link)
  BY LacpAssumption
<1> QED
  BY <1>3, <1>4, FS_Injection

-------------------------------------------------------------------------------
(* lacp_update_attached().                                                    *)

\* A set of slaves has one of least priority, so that there is a lead.
LEMMA LeadExists ==
    ASSUME NEW x, GoodBond(x), NEW S \in SUBSET x.slaves, S # {}
    PROVE  Lead(x, S) \in S
<1> DEFINE P(s) == slave_get_priority(x, s)
           T == {P(s) : s \in S}
           less == OpToRel(<, Nat)
           R == LexPairOrdering(less, less, Nat, Nat)
<1>1. \A s \in S : P(s) \in Nat \X Nat
  <2> SUFFICES ASSUME NEW s \in S PROVE P(s) \in Nat \X Nat
    OBVIOUS
  <2>1. s \in Slave /\ x.sys \in SysId
    BY DEF GoodBond, Lacp
  <2>2. s.link \in Link /\ s.partner \in Info
    BY <2>1 DEF Slave
  <2>3. s.partner.sys \in SysId \union {0} /\ s.partner.port \in Link \union {0}
    BY <2>2 DEF Info
  <2>4. /\ \A i \in SysId \union {0} : i \in Nat
        /\ \A l \in Link \union {0} : l \in Nat
    BY LacpAssumption DEF SysId
  <2>5. P(s) \in {<<x.sys, s.link>>, <<s.partner.sys, s.partner.port>>}
    BY DEF slave_get_priority
  <2>6. x.sys \in Nat /\ s.link \in Nat /\ s.partner.sys \in Nat /\ s.partner.port \in Nat
    BY <2>1, <2>2, <2>3, <2>4, Zenon
  <2>7. <<x.sys, s.link>> \in Nat \X Nat /\ <<s.partner.sys, s.partner.port>> \in Nat \X Nat
    BY <2>6
  <2> HIDE DEF P
  <2> QED
    BY <2>5, <2>7
<1>2. IsWellFoundedOn(R, Nat \X Nat)
  BY NatLessThanWellFounded, WFLexPairOrdering, Zenon
<1>3. T \subseteq Nat \X Nat /\ T # {}
  BY <1>1
<1> HIDE DEF R
<1>4. PICK p \in T : \A q \in T : <<q, p>> \notin R
  BY <1>2, <1>3, WFMin, Zenon
<1>5. PICK s \in S : P(s) = p
  BY <1>4
<1>6. \A r \in S : ~Before(P(r), P(s))
  <2> SUFFICES ASSUME NEW r \in S, Before(P(r), P(s)) PROVE FALSE
    OBVIOUS
  <2> DEFINE q == P(r)
  <2>1. q \in Nat \X Nat /\ p \in Nat \X Nat /\ q \in T
    BY <1>1, <1>3
  <2>2. Before(q, p)
    BY <1>5
  <2> HIDE DEF q
  <2>3. <<q, p>> \in R
    BY <2>1, <2>2 DEF R, LexPairOrdering, OpToRel, Before
  <2> QED
    BY <2>1, <2>3, <1>4
<1> QED
  BY <1>6 DEF Lead

\* A slave whose fields of the right types are replaced is still a slave.
LEMMA SlaveFields ==
    ASSUME NEW s \in Slave
    PROVE  /\ \A b \in BOOLEAN :
                /\ [s EXCEPT !.attached = b] \in Slave
                /\ [s EXCEPT !.attached = b].attached = b
           /\ \A i \in Info : [s EXCEPT !.ntt_actor = i] \in Slave
           /\ slave_set_expired(s) \in Slave
           /\ slave_set_defaulted(s) \in Slave
<1>1. \A b \in BOOLEAN : /\ [s EXCEPT !.attached = b] \in Slave
                         /\ [s EXCEPT !.attached = b].attached = b
  BY DEF Slave
<1>2. \A i \in Info : [s EXCEPT !.ntt_actor = i] \in Slave
  BY DEF Slave
<1>3. slave_set_expired(s) \in Slave
  <2>1. s.partner \in Info
    BY DEF Slave
  <2>2. [s.partner EXCEPT !.state = (@ \union {"TIME"}) \ {"SYNC"}] \in Info
    BY <2>1 DEF Info, Flag
  <2>3. \A i \in Info : [s EXCEPT !.status = "EXPIRED", !.partner = i] \in Slave
    BY Zenon DEF Slave
  <2>4. slave_set_expired(s) =
            [s EXCEPT !.status = "EXPIRED",
                      !.partner = [s.partner EXCEPT !.state = (@ \union {"TIME"}) \ {"SYNC"}]]
    BY DEF slave_set_expired, Slave
  <2> QED
    BY <2>2, <2>3, <2>4, Zenon
<1>4. slave_set_defaulted(s) \in Slave
  <2>1. Zero \in Info
    BY DEF Zero, Info
  <2> QED
    BY <2>1, Zenon DEF slave_set_defaulted, Slave
<1> QED
  BY <1>1, <1>2, <1>3, <1>4

\* The operations on a slave that its bond's attachments depend on.
LEMMA ExpiredKeeps ==
    ASSUME NEW s \in Slave
    PROVE  LET e == slave_set_expired(s)
           IN  /\ e.link = s.link /\ e.attached = s.attached
               /\ e.status = "EXPIRED" /\ SamePartner(e, s)
<1>1. s.partner \in Info
  BY DEF Slave
<1>2. slave_set_expired(s).partner = [s.partner EXCEPT !.state = (@ \union {"TIME"}) \ {"SYNC"}]
  BY DEF slave_set_expired, Slave
<1>3. SamePartner(slave_set_expired(s), s)
  BY <1>1, <1>2 DEF SamePartner, Info
<1> QED
  BY <1>3 DEF slave_set_expired, Slave

\* OnePartner carries over to a bond with the same system and claims whose attached slaves
\* have the partners of attached slaves of the first.
LEMMA OnePartnerKept ==
    ASSUME NEW x, NEW y, OnePartner(x),
           x.sys = y.sys, x.negotiated = y.negotiated, x.update => y.update,
           \A s \in y.slaves : s.attached =>
               \E r \in x.slaves : /\ r.attached /\ SamePartner(s, r)
                                   /\ s.status = "DEFAULTED" => r.status = "DEFAULTED",
           \A r \in x.slaves : r.attached => \E s \in y.slaves : s.attached
    PROVE  OnePartner(y)
<1> SUFFICES ASSUME ~y.update
             PROVE  LET attached == {s \in y.slaves : s.attached}
                    IN  /\ attached \subseteq Attachable(y)
                        /\ \A s, r \in attached : SamePartner(s, r)
                        /\ y.negotiated <=> attached # {}
  BY Zenon DEF OnePartner
<1> DEFINE A == {s \in x.slaves : s.attached}
           B == {s \in y.slaves : s.attached}
<1>1. /\ A \subseteq Attachable(x)
      /\ \A s, r \in A : SamePartner(s, r)
      /\ x.negotiated <=> A # {}
  BY Zenon DEF OnePartner
<1>2. \A s \in B : \E r \in A : SamePartner(s, r) /\ (s.status = "DEFAULTED" => r.status = "DEFAULTED")
  BY Zenon
<1>3. B \subseteq Attachable(y)
  BY <1>1, <1>2 DEF Attachable, SamePartner
<1>4. \A s, r \in B : SamePartner(s, r)
  BY <1>1, <1>2 DEF SamePartner
<1>5. A # {} <=> B # {}
  BY <1>2, Zenon
<1> QED
  BY <1>1, <1>3, <1>4, <1>5, Zenon

\* lacp_update_attached() keeps the type of a bond, and establishes OnePartner.
LEMMA UpdateAttaches ==
    ASSUME NEW x, GoodBond(x)
    PROVE  LET y == lacp_update_attached(x)
           IN  GoodBond(y) /\ OnePartner(y)
<1> DEFINE y == lacp_update_attached(x)
           S == Attachable(x)
           A == {s \in S : SamePartner(s, Lead(x, S))}
           F(s) == [s EXCEPT !.attached = s \in A]
<1>1. x \in Lacp /\ x.slaves \subseteq Slave
  BY DEF GoodBond, Lacp
<1>2. \A s \in x.slaves :
        /\ F(s) \in Slave /\ F(s).link = s.link /\ F(s).attached = (s \in A)
        /\ F(s).status = s.status /\ F(s).partner = s.partner
  <2> SUFFICES ASSUME NEW s \in x.slaves
               PROVE  /\ F(s) \in Slave /\ F(s).link = s.link /\ F(s).attached = (s \in A)
                      /\ F(s).status = s.status /\ F(s).partner = s.partner
    OBVIOUS
  <2>1. s \in Slave /\ (s \in A) \in BOOLEAN
    BY <1>1
  <2>2. F(s) \in Slave /\ F(s).attached = (s \in A)
    BY <2>1, SlaveFields, Zenon
  <2>3. F(s).link = s.link /\ F(s).status = s.status /\ F(s).partner = s.partner
    BY <2>1 DEF Slave
  <2> QED
    BY <2>2, <2>3, Zenon
<1>3. y = [x EXCEPT !.update = FALSE, !.negotiated = S # {}, !.slaves = {F(s) : s \in x.slaves}]
  BY <1>1 DEF lacp_update_attached, Lacp
<1>4. S \subseteq x.slaves
  BY DEF Attachable
<1> HIDE DEF F, S, A, y
<1>5. /\ y.slaves = {F(s) : s \in x.slaves} /\ y.sys = x.sys /\ y.key_slave = x.key_slave
      /\ y.update = FALSE /\ y.negotiated = (S # {})
  BY <1>1, <1>3 DEF Lacp
<1>6. y \in Lacp
  <2>1. {F(s) : s \in x.slaves} \in SUBSET Slave
    BY <1>2
  <2>2. (S # {}) \in BOOLEAN
    OBVIOUS
  <2> QED
    BY <1>1, <1>3, <2>1, <2>2, Zenon DEF Lacp
<1>7. \A s, r \in y.slaves : s.link = r.link => s = r
  BY <1>2, <1>5 DEF GoodBond
<1>8. y.key_slave \in IF y.slaves = {} THEN {NoSlave} ELSE Links(y)
  BY <1>2, <1>5 DEF GoodBond, Links
<1>9. OnePartner(y)
  <2> DEFINE B == {s \in y.slaves : s.attached}
  <2>1. B = {F(s) : s \in A}
    <3>1. A \subseteq x.slaves
      BY <1>4 DEF A
    <3>2. \A s \in x.slaves : F(s).attached <=> s \in A
      BY <1>2, Zenon
    <3> QED
      BY <1>5, <3>1, <3>2, Zenon
  <2>2. \A s \in A : s \in S /\ s \in x.slaves /\ SamePartner(s, Lead(x, S))
    BY <1>4 DEF A
  <2>3. \A s \in A : F(s) \in Attachable(y)
    BY <1>2, <1>5, <2>2, Zenon DEF S, Attachable
  <2>4. \A s, r \in A : SamePartner(F(s), F(r))
    BY <1>2, <2>2 DEF SamePartner
  <2>5. S # {} => Lead(x, S) \in A
    BY <1>4, LeadExists DEF A, SamePartner
  <2>6. S # {} <=> B # {}
    BY <2>1, <2>2, <2>5
  <2>7. B \subseteq Attachable(y) /\ \A s, r \in B : SamePartner(s, r)
    BY <2>1, <2>3, <2>4
  <2>8. y.negotiated <=> B # {}
    BY <1>5, <2>6, Zenon
  <2> QED
    BY <2>7, <2>8, Zenon DEF OnePartner
<1>10. GoodBond(y)
  BY <1>6, <1>7, <1>8 DEF GoodBond
<1> QED
  BY <1>9, <1>10 DEF y

-------------------------------------------------------------------------------
(* Operations that replace some slaves of a bond.                             *)

\* Replacing slaves by others with the same links keeps the type of a bond.
LEMMA ReplacedIsGood ==
    ASSUME NEW x, GoodBond(x), NEW R \in SUBSET x.slaves, NEW g \in [R -> Slave],
           \A s \in R : g[s].link = s.link,
           NEW y \in Lacp, y.key_slave = x.key_slave,
           y.slaves = (x.slaves \ R) \union {g[s] : s \in R}
    PROVE  GoodBond(y)
<1>1. \A s \in y.slaves : \E r \in x.slaves :
          r.link = s.link /\ s = IF r \in R THEN g[r] ELSE r
  OBVIOUS
<1>2. \A r \in x.slaves : \E s \in y.slaves : s.link = r.link
  OBVIOUS
<1>3. \A s, r \in y.slaves : s.link = r.link => s = r
  BY <1>1 DEF GoodBond
<1>4. Links(y) = Links(x) /\ (y.slaves = {} <=> x.slaves = {})
  BY <1>1, <1>2 DEF Links
<1> QED
  BY <1>3, <1>4 DEF GoodBond

\* It keeps OnePartner if the new slaves are attached as the old ones were, to the same
\* partner, and have not become defaulted.
LEMMA ReplacedKeeps ==
    ASSUME NEW x, GoodBond(x), OnePartner(x), NEW R \in SUBSET x.slaves, NEW g \in [R -> Slave],
           \A s \in R : /\ g[s].attached = s.attached /\ SamePartner(g[s], s)
                        /\ g[s].status = "DEFAULTED" => s.status = "DEFAULTED",
           NEW y, y.sys = x.sys, y.negotiated = x.negotiated, x.update => y.update,
           y.slaves = (x.slaves \ R) \union {g[s] : s \in R}
    PROVE  OnePartner(y)
<1>1. \A s \in y.slaves : s.attached =>
          \E r \in x.slaves : /\ r.attached /\ SamePartner(s, r)
                              /\ s.status = "DEFAULTED" => r.status = "DEFAULTED"
  <2> SUFFICES ASSUME NEW s \in y.slaves, s.attached
               PROVE  \E r \in x.slaves : /\ r.attached /\ SamePartner(s, r)
                                          /\ s.status = "DEFAULTED" => r.status = "DEFAULTED"
    BY Zenon
  <2>1. CASE s \in x.slaves
    BY <2>1, Zenon DEF SamePartner
  <2>2. CASE \E r \in R : s = g[r]
    BY <2>2, Zenon
  <2>3. s \in x.slaves \/ \E r \in R : s = g[r]
    OBVIOUS
  <2> QED
    BY <2>1, <2>2, <2>3, Zenon
<1>2. \A r \in x.slaves : r.attached => \E s \in y.slaves : s.attached
  <2> SUFFICES ASSUME NEW r \in x.slaves, r.attached
               PROVE  \E s \in y.slaves : s.attached
    BY Zenon
  <2>1. CASE r \in R
    <3>1. g[r] \in y.slaves
      BY <2>1
    <3> QED
      BY <2>1, <3>1, Zenon
  <2>2. CASE r \notin R
    BY <2>2, Zenon
  <2> QED
    BY <2>1, <2>2
<1> QED
  BY <1>1, <1>2, OnePartnerKept, Zenon

\* Ageing slaves: those that become defaulted ask for an update.
LEMMA AgedKeeps ==
    ASSUME NEW x, GoodBond(x), NEW rx \in SUBSET x.slaves,
           \A s \in rx : s.status # "DEFAULTED"
    PROVE  /\ GoodBond(Aged(x, rx))
           /\ OnePartner(x) => OnePartner(Aged(x, rx))
<1> DEFINE y == Aged(x, rx)
           g == [s \in rx |-> Age(s)]
<1>1. x \in Lacp /\ rx \subseteq Slave /\ x.slaves \subseteq Slave
  BY DEF GoodBond, Lacp
<1>2. \A s \in rx : \/ s.status = "CURRENT" /\ Age(s) = slave_set_expired(s)
                    \/ s.status = "EXPIRED" /\ Age(s) = slave_set_defaulted(s)
  BY <1>1 DEF Slave, Age
<1>3. \A s \in rx : Age(s) \in Slave /\ Age(s).link = s.link
  <2>1. \A s \in rx : /\ slave_set_expired(s) \in Slave /\ slave_set_defaulted(s) \in Slave
                      /\ slave_set_expired(s).link = s.link
    BY <1>1, SlaveFields, ExpiredKeeps
  <2>2. \A s \in rx : slave_set_defaulted(s).link = s.link
    BY <1>1 DEF slave_set_defaulted, Slave
  <2> QED
    BY <1>2, <2>1, <2>2
<1>4. g \in [rx -> Slave] /\ \A s \in rx : g[s].link = s.link
  BY <1>3
<1>5. /\ y.slaves = (x.slaves \ rx) \union {g[s] : s \in rx}
      /\ y.sys = x.sys /\ y.negotiated = x.negotiated /\ y.key_slave = x.key_slave
      /\ y.update = (x.update \/ \E s \in rx : s.status = "EXPIRED")
  BY <1>1 DEF Aged, Lacp
<1>6. y \in Lacp
  <2>1. y.slaves \in SUBSET Slave
    BY <1>1, <1>3, <1>5
  <2>2. y.update \in BOOLEAN
    BY <1>5
  <2>3. y = [x EXCEPT !.slaves = y.slaves, !.update = y.update]
    BY <1>1 DEF Aged, Lacp
  <2> HIDE DEF y
  <2> QED
    BY <1>1, <2>1, <2>2, <2>3, Zenon DEF Lacp
<1> HIDE DEF y, g
<1>7. GoodBond(y)
  BY <1>4, <1>5, <1>6, ReplacedIsGood
<1>8. ASSUME OnePartner(x) PROVE OnePartner(y)
  <2>1. CASE y.update
    BY <2>1, Zenon DEF OnePartner
  <2>2. CASE ~y.update
    <3>1. \A s \in rx : g[s] = slave_set_expired(s)
      BY <1>2, <1>5, <2>2, Zenon DEF g
    <3>2. \A s \in rx : /\ g[s].attached = s.attached /\ SamePartner(g[s], s)
                        /\ g[s].status = "DEFAULTED" => s.status = "DEFAULTED"
      BY <1>1, <3>1, ExpiredKeeps, Zenon
    <3>3. x.update => y.update
      BY <1>5, Zenon
    <3> QED
      BY <1>4, <1>5, <1>8, <3>2, <3>3, ReplacedKeeps
  <2> QED
    BY <2>1, <2>2
<1> QED
  BY <1>7, <1>8 DEF y

\* The bond after PDUs are sent on the slaves of R.
Sent(x, R) ==
    [x EXCEPT !.slaves =
        (@ \ R) \union {[s EXCEPT !.ntt_actor = slave_get_actor(x, s)] : s \in R}]

\* lacp_run() records what it sends, which changes nothing else.
LEMMA SendingKeeps ==
    ASSUME NEW x, GoodBond(x), NEW R \in SUBSET x.slaves,
           NEW y, y = Sent(x, R)
    PROVE  /\ GoodBond(y)
           /\ OnePartner(x) => OnePartner(y)
<1> DEFINE g == [s \in R |-> [s EXCEPT !.ntt_actor = slave_get_actor(x, s)]]
<1>1. x \in Lacp /\ R \subseteq Slave /\ x.slaves \subseteq Slave
  BY DEF GoodBond, Lacp
<1>2. \A s \in R : slave_get_actor(x, s) \in Info
  BY ActorIsInfo
<1>3. \A s \in R : g[s] \in Slave
  BY <1>1, <1>2, SlaveFields
<1>4. \A s \in R : /\ g[s].link = s.link /\ g[s].attached = s.attached
                   /\ g[s].status = s.status /\ g[s].partner = s.partner
  BY <1>1 DEF Slave
<1>5. g \in [R -> Slave]
  BY <1>3
<1>6. /\ y.slaves = (x.slaves \ R) \union {g[s] : s \in R}
      /\ y.sys = x.sys /\ y.negotiated = x.negotiated /\ y.key_slave = x.key_slave
      /\ y.update = x.update
  BY <1>1 DEF Lacp, Sent
<1>7. y \in Lacp
  <2>1. y.slaves \in SUBSET Slave
    BY <1>1, <1>3, <1>6
  <2>2. y = [x EXCEPT !.slaves = y.slaves]
    BY <1>1 DEF Lacp, Sent
  <2> QED
    BY <1>1, <2>1, <2>2 DEF Lacp
<1> HIDE DEF g
<1>8. GoodBond(y)
  BY <1>4, <1>5, <1>6, <1>7, ReplacedIsGood
<1>9. ASSUME OnePartner(x) PROVE OnePartner(y)
  <2>1. \A s \in R : /\ g[s].attached = s.attached /\ SamePartner(g[s], s)
                     /\ g[s].status = "DEFAULTED" => s.status = "DEFAULTED"
    BY <1>4 DEF SamePartner
  <2>2. x.update => y.update
    BY <1>6, Zenon
  <2> QED
    BY <1>5, <1>6, <1>9, <2>1, <2>2, ReplacedKeeps
<1> QED
  BY <1>8, <1>9

\* The bond after a PDU from i, which takes j for the actor, arrives at slave s.
Processed(x, s, i, j) ==
    [x EXCEPT !.update = @ \/ s.partner # i,
              !.slaves = (@ \ {s}) \union
                  {[s EXCEPT !.status = "CURRENT", !.ntt_actor = j, !.partner = i]}]

\* lacp_process_packet(): news of a partner asks for an update, and without it the slave is
\* only made current.
LEMMA PacketKeeps ==
    ASSUME NEW x, GoodBond(x), NEW s \in x.slaves, NEW i \in Info, NEW j \in Info,
           NEW y, y = Processed(x, s, i, j)
    PROVE  /\ GoodBond(y)
           /\ OnePartner(x) => OnePartner(y)
<1> DEFINE t == [s EXCEPT !.status = "CURRENT", !.ntt_actor = j, !.partner = i]
           R == {s}
           g == [r \in R |-> t]
<1>1. x \in Lacp /\ s \in Slave /\ x.slaves \subseteq Slave
  BY DEF GoodBond, Lacp
<1>2. /\ t \in Slave /\ t.link = s.link /\ t.attached = s.attached
      /\ t.status = "CURRENT" /\ t.partner = i
  BY <1>1, Zenon DEF Slave
<1>3. /\ R \in SUBSET x.slaves /\ g \in [R -> Slave] /\ g[s] = t
      /\ \A r \in R : g[r].link = r.link
  BY <1>2, Zenon
<1>4. /\ y.slaves = (x.slaves \ R) \union {g[r] : r \in R}
      /\ y.sys = x.sys /\ y.negotiated = x.negotiated /\ y.key_slave = x.key_slave
      /\ y.update = (x.update \/ s.partner # i)
  BY <1>1 DEF Lacp, Processed
<1>5. y \in Lacp
  <2>1. y.slaves \in SUBSET Slave
    BY <1>1, <1>2, <1>4
  <2>2. y.update \in BOOLEAN
    BY <1>4
  <2>3. y = [x EXCEPT !.update = y.update, !.slaves = y.slaves]
    BY <1>1 DEF Lacp, Processed
  <2> QED
    BY <1>1, <2>1, <2>2, <2>3, Zenon DEF Lacp
<1>r. \A r \in R : r = s
  OBVIOUS
<1> HIDE DEF g, t, R
<1>6. GoodBond(y)
  BY <1>3, <1>4, <1>5, ReplacedIsGood
<1>7. ASSUME OnePartner(x) PROVE OnePartner(y)
  <2>1. CASE y.update
    BY <2>1, Zenon DEF OnePartner
  <2>2. CASE ~y.update
    <3>1. s.partner = i
      BY <1>4, <2>2, Zenon
    <3>2. \A r \in R : /\ g[r].attached = r.attached /\ SamePartner(g[r], r)
                       /\ g[r].status = "DEFAULTED" => r.status = "DEFAULTED"
      BY <1>2, <1>3, <1>r, <3>1 DEF SamePartner
    <3>3. x.update => y.update
      BY <1>4, Zenon
    <3> QED
      BY <1>3, <1>4, <1>7, <3>2, <3>3, ReplacedKeeps
  <2> QED
    BY <2>1, <2>2
<1> QED
  BY <1>6, <1>7

\* lacp_slave_carrier_changed(): a slave that expires stays with its partner.
LEMMA CarrierKeeps ==
    ASSUME NEW x, GoodBond(x), NEW s \in x.slaves,
           NEW y, y = [x EXCEPT !.slaves = (@ \ {s}) \union {slave_set_expired(s)}]
    PROVE  /\ GoodBond(y)
           /\ OnePartner(x) => OnePartner(y)
<1> DEFINE t == slave_set_expired(s)
           R == {s}
           g == [r \in R |-> t]
<1>1. x \in Lacp /\ s \in Slave /\ x.slaves \subseteq Slave
  BY DEF GoodBond, Lacp
<1>2. /\ t \in Slave /\ t.link = s.link /\ t.attached = s.attached
      /\ t.status = "EXPIRED" /\ SamePartner(t, s)
  BY <1>1, SlaveFields, ExpiredKeeps
<1>3. /\ R \in SUBSET x.slaves /\ g \in [R -> Slave] /\ g[s] = t
      /\ \A r \in R : g[r].link = r.link
  BY <1>2
<1>4. /\ y.slaves = (x.slaves \ R) \union {g[r] : r \in R}
      /\ y.sys = x.sys /\ y.negotiated = x.negotiated /\ y.key_slave = x.key_slave
      /\ y.update = x.update
  BY <1>1 DEF Lacp
<1>5. y \in Lacp
  <2>1. y.slaves \in SUBSET Slave
    BY <1>1, <1>2, <1>4
  <2>2. y = [x EXCEPT !.slaves = y.slaves]
    BY <1>1 DEF Lacp
  <2> QED
    BY <1>1, <2>1, <2>2 DEF Lacp
<1>r. \A r \in R : r = s
  OBVIOUS
<1> HIDE DEF g, t, R
<1>6. GoodBond(y)
  BY <1>3, <1>4, <1>5, ReplacedIsGood, Zenon
<1>7. ASSUME OnePartner(x) PROVE OnePartner(y)
  <2>1. \A r \in R : /\ g[r].attached = r.attached /\ SamePartner(g[r], r)
                     /\ g[r].status = "DEFAULTED" => r.status = "DEFAULTED"
    BY <1>2, <1>3, <1>r
  <2>2. x.update => y.update
    BY <1>4, Zenon
  <2> QED
    BY <1>3, <1>4, <1>7, <2>1, <2>2, ReplacedKeeps, Zenon
<1> QED
  BY <1>6, <1>7

-------------------------------------------------------------------------------
(* Slaves that come and go, and the settings of a bond.                       *)

\* The key slave is missing exactly when there are no slaves.
LEMMA KeySlaveThere ==
    ASSUME NEW x, GoodBond(x)
    PROVE  x.key_slave = NoSlave <=> x.slaves = {}
<1>1. \A s \in x.slaves : s.link # NoSlave
  BY LacpAssumption DEF GoodBond, Lacp, Slave, NoSlave
<1> QED
  BY <1>1 DEF GoodBond, Links

\* lacp_slave_register() of a slave that is not there adds it, and asks for an update.
LEMMA RegisteredNew ==
    ASSUME NEW x, GoodBond(x), NEW l \in Link, NEW key \in Nat, l \notin Links(x)
    PROVE  LET y == Registered(x, l, key)
           IN  /\ GoodBond(y) /\ y.update
               /\ \E s \in Slave : s.link = l /\ y.slaves = x.slaves \union {s}
<1> DEFINE old == [link |-> l, key |-> 0, status |-> "DEFAULTED",
                   attached |-> FALSE, partner |-> Zero, ntt_actor |-> Zero]
           set == [old EXCEPT !.key = key]
           s == IF x.active \/ x.negotiated THEN slave_set_expired(set) ELSE set
           y == Registered(x, l, key)
<1>1. x \in Lacp /\ x.slaves \subseteq Slave
  BY DEF GoodBond, Lacp
<1>2. set \in Slave /\ set.link = l
  BY Zenon DEF Slave, Zero, Info
<1>3. slave_set_expired(set) \in Slave /\ slave_set_expired(set).link = l
  <2> HIDE DEF set
  <2> QED
    BY <1>2, SlaveFields, ExpiredKeeps
<1>4. s \in Slave /\ s.link = l
  <2>1. s \in {slave_set_expired(set), set}
    BY Zenon
  <2> HIDE DEF s, set
  <2> QED
    BY <1>2, <1>3, <2>1
<1>5. old \notin x.slaves
  BY DEF Links
<1>6. y = [x EXCEPT !.slaves = (x.slaves \ {old}) \union {s},
                    !.key_slave = IF x.key_slave = NoSlave THEN l ELSE x.key_slave,
                    !.update = TRUE]
  BY <1>1, Zenon DEF Registered
<1>7. x.slaves \ {old} = x.slaves
  BY <1>5, Zenon
<1> HIDE DEF s, y, old, set
<1>8. /\ y.slaves = x.slaves \union {s}
      /\ y.key_slave = IF x.key_slave = NoSlave THEN l ELSE x.key_slave
      /\ y.update = TRUE
  BY <1>1, <1>6, <1>7 DEF Lacp
<1>9. y \in Lacp
  <2>1. y.slaves \in SUBSET Slave
    BY <1>1, <1>4, <1>8
  <2>2. y.key_slave \in Link \union {NoSlave}
    BY <1>1, <1>8 DEF Lacp
  <2>3. y = [x EXCEPT !.slaves = y.slaves, !.key_slave = y.key_slave, !.update = TRUE]
    BY <1>6, <1>7, <1>8
  <2> QED
    BY <1>1, <2>1, <2>2, <2>3, Zenon DEF Lacp
<1>10. \A r, t \in y.slaves : r.link = t.link => r = t
  BY <1>4, <1>8 DEF GoodBond, Links
<1>11. y.slaves # {} /\ y.key_slave \in Links(y)
  BY <1>4, <1>8, KeySlaveThere DEF GoodBond, Links
<1>12. GoodBond(y)
  BY <1>9, <1>10, <1>11 DEF GoodBond
<1> QED
  BY <1>4, <1>8, <1>12 DEF y

\* lacp_slave_register() of a slave that is there changes nothing, or asks for an update.
LEMMA RegisteredAgain ==
    ASSUME NEW x, GoodBond(x), NEW l \in Links(x), NEW key \in Nat
    PROVE  LET y == Registered(x, l, key)
           IN  GoodBond(y) /\ (y = x \/ y.update)
<1> DEFINE old == slave_lookup(x, l)
           set == [old EXCEPT !.key = key]
           changed == key # old.key
           s == IF changed /\ (x.active \/ x.negotiated) THEN slave_set_expired(set) ELSE set
           R == {old}
           g == [r \in R |-> s]
           y == Registered(x, l, key)
<1>1. x \in Lacp /\ x.slaves \subseteq Slave
  BY DEF GoodBond, Lacp
<1>2. old \in x.slaves /\ old \in Slave /\ old.link = l
  BY LookupFinds
<1>3. y = [x EXCEPT !.slaves = (x.slaves \ {old}) \union {s},
                    !.key_slave = IF x.key_slave = NoSlave THEN l ELSE x.key_slave,
                    !.update = x.update \/ changed]
  BY <1>1, Zenon DEF Registered
<1> HIDE DEF old
<1>4. set \in Slave /\ set.link = l /\ (~changed => set = old)
  BY <1>2 DEF Slave
<1>5. slave_set_expired(set) \in Slave /\ slave_set_expired(set).link = l
  <2> HIDE DEF set
  <2> QED
    BY <1>4, SlaveFields, ExpiredKeeps
<1>6. s \in Slave /\ s.link = l /\ (~changed => s = old)
  <2>1. s \in {slave_set_expired(set), set} /\ (~changed => s = set)
    BY Zenon
  <2> HIDE DEF s, set, changed
  <2> QED
    BY <1>4, <1>5, <2>1
<1> HIDE DEF s, set, changed, y
<1>7. x.key_slave # NoSlave
  BY <1>2, KeySlaveThere
<1>8. /\ y.slaves = (x.slaves \ {old}) \union {s} /\ y.key_slave = x.key_slave
      /\ y.update = (x.update \/ changed)
  BY <1>1, <1>3, <1>7 DEF Lacp
<1>9. y \in Lacp
  <2>1. y.slaves \in SUBSET Slave
    BY <1>1, <1>6, <1>8
  <2>2. (x.update \/ changed) \in BOOLEAN
    BY DEF changed
  <2>3. y = [x EXCEPT !.slaves = y.slaves, !.update = y.update]
    BY <1>1, <1>3, <1>7, <1>8, Zenon DEF Lacp
  <2> QED
    BY <1>1, <1>8, <2>1, <2>2, <2>3, Zenon DEF Lacp
<1>10. /\ R \in SUBSET x.slaves /\ g \in [R -> Slave] /\ \A r \in R : g[r].link = r.link
       /\ y.slaves = (x.slaves \ R) \union {g[r] : r \in R}
  BY <1>2, <1>6, <1>8
<1> HIDE DEF R, g
<1>11. GoodBond(y)
  BY <1>8, <1>9, <1>10, ReplacedIsGood
<1>12. CASE changed
  BY <1>8, <1>11, <1>12, Zenon DEF y
<1>13. CASE ~changed
  <2>1. (x.slaves \ {old}) \union {s} = x.slaves
    BY <1>2, <1>6, <1>13
  <2>2. (x.update \/ changed) = x.update
    BY <1>1, <1>13 DEF Lacp
  <2>3. y = [x EXCEPT !.slaves = x.slaves, !.key_slave = x.key_slave, !.update = x.update]
    BY <1>3, <1>7, <2>1, <2>2, Zenon
  <2>4. y = x
    BY <1>1, <2>3, Zenon DEF Lacp
  <2> QED
    BY <1>11, <2>4 DEF y
<1> QED
  BY <1>12, <1>13

\* The slaves left when that of link l is destroyed, the links of which one may become the
\* key slave, and the bond when k does.
Rest(x, l) == {s \in x.slaves : s.link # l}
KeyChoice(x, l) ==
    IF x.key_slave # l THEN {x.key_slave}
    ELSE IF Rest(x, l) = {} THEN {NoSlave} ELSE {s.link : s \in Rest(x, l)}
Unregistered(x, l, k) ==
    [x EXCEPT !.slaves = Rest(x, l), !.key_slave = k, !.update = TRUE]

\* slave_destroy() leaves a good bond, whichever slave becomes the key slave.
LEMMA UnregisteredIsGood ==
    ASSUME NEW x, GoodBond(x), NEW l \in Links(x), NEW k \in KeyChoice(x, l)
    PROVE  GoodBond(Unregistered(x, l, k)) /\ Unregistered(x, l, k).update
<1> DEFINE rest == Rest(x, l)
           y == Unregistered(x, l, k)
<1>1. x \in Lacp /\ x.slaves \subseteq Slave
  BY DEF GoodBond, Lacp
<1>2. x.key_slave \in Links(x) /\ x.slaves # {}
  BY DEF GoodBond, Links
<1>3. rest \subseteq x.slaves
  BY DEF Rest
<1>4. k \in IF rest = {} THEN {NoSlave} ELSE {s.link : s \in rest}
  <2>1. CASE x.key_slave = l
    BY <2>1 DEF KeyChoice
  <2>2. CASE x.key_slave # l
    <3>1. PICK s \in x.slaves : s.link = x.key_slave
      BY <1>2 DEF Links
    <3>2. s \in rest /\ k = s.link
      BY <2>2, <3>1 DEF KeyChoice, Rest
    <3> QED
      BY <3>2
  <2> QED
    BY <2>1, <2>2
<1>5. k \in Link \union {NoSlave}
  BY <1>1, <1>3, <1>4 DEF Slave
<1>6. y \in Lacp
  BY <1>1, <1>3, <1>5, Zenon DEF Lacp, Unregistered
<1>7. y.slaves = rest /\ y.key_slave = k /\ y.update = TRUE
  BY <1>1 DEF Lacp, Unregistered
<1> HIDE DEF rest, y
<1>8. GoodBond(y)
  BY <1>3, <1>4, <1>6, <1>7 DEF GoodBond, Links
<1> QED
  BY <1>7, <1>8 DEF y

\* OnePartner depends on the system, the slaves and the claims of a bond alone.
LEMMA SameSlavesKeep ==
    ASSUME NEW x, NEW y, OnePartner(x), y.slaves = x.slaves, y.sys = x.sys,
           y.negotiated = x.negotiated, x.update => y.update
    PROVE  OnePartner(y)
<1>1. Attachable(y) = Attachable(x)
  BY DEF Attachable
<1> QED
  BY <1>1, Zenon DEF OnePartner

\* The bond after lacp_configure().
Configured(x, c) ==
    [x EXCEPT !.sys = c.sys, !.active = c.active, !.fast = c.fast,
              !.update = @ \/ c.sys # x.sys]

\* lacp_configure(): a bond that stays the same system keeps its partner.
LEMMA ConfiguredKeeps ==
    ASSUME NEW x, GoodBond(x), NEW c \in Settings,
           NEW y, y = Configured(x, c)
    PROVE  /\ GoodBond(y)
           /\ OnePartner(x) => OnePartner(y)
<1>1. x \in Lacp
  BY DEF GoodBond
<1>2. c.sys \in SysId /\ c.active \in BOOLEAN /\ c.fast \in BOOLEAN
  <2>1. c \in [sys : Nat \ {0}, active : BOOLEAN, fast : BOOLEAN]
    BY LacpAssumption
  <2>2. c.sys \in SysId
    BY DEF SysId
  <2> QED
    BY <2>1, <2>2
<1>3. /\ y.slaves = x.slaves /\ y.key_slave = x.key_slave /\ y.sys = c.sys
      /\ y.negotiated = x.negotiated /\ y.update = (x.update \/ c.sys # x.sys)
  BY <1>1 DEF Lacp, Configured
<1>4. y \in Lacp
  <2>1. (x.update \/ c.sys # x.sys) \in BOOLEAN
    OBVIOUS
  <2> QED
    BY <1>1, <1>2, <2>1, Zenon DEF Lacp, Configured
<1>5. GoodBond(y)
  BY <1>3, <1>4 DEF GoodBond, Links
<1>6. ASSUME OnePartner(x) PROVE OnePartner(y)
  <2>1. CASE y.update
    BY <2>1, Zenon DEF OnePartner
  <2>2. CASE ~y.update
    <3>1. y.sys = x.sys
      BY <1>3, <2>2, Zenon
    <3>2. x.update => y.update
      BY <1>3, Zenon
    <3> QED
      BY <1>3, <1>6, <3>1, <3>2, SameSlavesKeep
  <2> QED
    BY <2>1, <2>2
<1> QED
  BY <1>5, <1>6

-------------------------------------------------------------------------------
(* The steps of the specification.                                            *)

\* The bond after the two first parts of lacp_run().
Updated(x, rx) ==
    LET y == Aged(x, rx)
    IN  IF y.update THEN lacp_update_attached(y) ELSE y

LEMMA UpdatedKeeps ==
    ASSUME NEW x, GoodBond(x), NEW rx \in SUBSET x.slaves,
           \A s \in rx : s.status # "DEFAULTED"
    PROVE  /\ GoodBond(Updated(x, rx))
           /\ OnePartner(x) => OnePartner(Updated(x, rx))
<1> DEFINE y == Aged(x, rx)
<1>1. GoodBond(y) /\ (OnePartner(x) => OnePartner(y))
  BY AgedKeeps
<1> HIDE DEF y
<1>2. GoodBond(lacp_update_attached(y)) /\ OnePartner(lacp_update_attached(y))
  BY <1>1, UpdateAttaches
<1>3. Updated(x, rx) = IF y.update THEN lacp_update_attached(y) ELSE y
  BY DEF Updated, y
<1> QED
  BY <1>1, <1>2, <1>3, Zenon

\* A link of a system has another system at its other end.
LEMMA PeerIsThere ==
    ASSUME NEW a \in System, NEW l \in Link
    PROVE  Peer(a, l) \in System /\ Peer(a, l) # a
<1>1. Ends[l] \in SUBSET System /\ Cardinality(Ends[l]) = 2
  BY LacpAssumption
<1>2. ASSUME \A b \in Ends[l] : b = a PROVE FALSE
  <2>1. CASE Ends[l] = {}
    BY <1>1, <2>1, FS_EmptySet
  <2>2. CASE Ends[l] # {}
    <3>1. Ends[l] = {a}
      BY <1>2, <2>2
    <3> QED
      BY <1>1, <3>1, FS_Singleton
  <2> QED
    BY <2>1, <2>2
<1> QED
  BY <1>1, <1>2 DEF Peer

\* The inductive invariant, on the values of the variables.
BondsOK(bonds) ==
    /\ bonds \in [System -> Lacp]
    /\ \A a \in System : GoodBond(bonds[a]) /\ OnePartner(bonds[a])

WireOK(pdus) ==
    /\ pdus \subseteq Pdu
    /\ \A p, q \in pdus : p.to = q.to /\ p.link = q.link => p = q

IInv == BondsOK(lacp) /\ WireOK(wire) /\ events \in 0 .. MaxEvents

LEMMA IInvIsEnough == IInv => TypeOK /\ AttachedToOnePartner
<1> SUFFICES ASSUME IInv PROVE TypeOK /\ AttachedToOnePartner
  OBVIOUS
<1>1. TypeOK
  BY DEF IInv, BondsOK, WireOK, GoodBond, TypeOK
<1>2. AttachedToOnePartner
  BY Zenon DEF IInv, BondsOK, OnePartner, AttachedToOnePartner
<1> QED
  BY <1>1, <1>2

\* One bond is replaced.
LEMMA BondReplaced ==
    ASSUME NEW bonds, BondsOK(bonds), NEW a \in System, NEW y,
           GoodBond(y), OnePartner(bonds[a]) => OnePartner(y)
    PROVE  BondsOK([bonds EXCEPT ![a] = y])
<1>1. y \in Lacp /\ OnePartner(y)
  BY DEF GoodBond, BondsOK
<1> QED
  BY <1>1 DEF BondsOK

\* Every PDU that is taken off the wire leaves it as it should be.
LEMMA WireLess ==
    ASSUME NEW pdus, WireOK(pdus), NEW less \in SUBSET pdus
    PROVE  WireOK(less)
BY DEF WireOK

LEMMA InitHolds == Init => IInv
<1> SUFFICES ASSUME Init PROVE IInv
  OBVIOUS
<1>1. ASSUME NEW a \in System PROVE GoodBond(lacp[a]) /\ OnePartner(lacp[a])
  <2> DEFINE mine == {l \in Link : a \in Ends[l]}
             Own(l) == Registered(Created(a), l, Key[a][l]).slaves
             x == Created(a)
             y == lacp[a]
  <2>1. y = [x EXCEPT !.slaves = UNION {Own(l) : l \in mine},
                      !.key_slave = IF mine = {} THEN @ ELSE CHOOSE l \in mine : TRUE]
    BY Zenon DEF Init
  <2>2. x \in Lacp /\ x.slaves = {} /\ x.key_slave = NoSlave /\ x.update = TRUE
    BY DEF Created, Lacp, SysId
  <2>3. GoodBond(x) /\ Links(x) = {}
    BY <2>2 DEF GoodBond, Links
  <2>4. ASSUME NEW l \in mine PROVE \E s \in Slave : s.link = l /\ Own(l) = {s}
    <3>1. l \in Link /\ l \notin Links(x) /\ Key[a][l] \in Nat
      BY <2>3, LacpAssumption
    <3> HIDE DEF x
    <3>2. \E s \in Slave : s.link = l /\ Own(l) = x.slaves \union {s}
      BY <2>3, <3>1, RegisteredNew DEF x
    <3> QED
      BY <2>2, <3>2
  <2> DEFINE slaves == UNION {Own(l) : l \in mine}
             k == IF mine = {} THEN NoSlave ELSE CHOOSE l \in mine : TRUE
  <2> HIDE DEF Own
  <2>5. /\ \A s \in slaves : s \in Slave /\ s.link \in mine /\ Own(s.link) = {s}
        /\ \A l \in mine : \E s \in slaves : s.link = l
    BY <2>4
  <2>6. k \in IF slaves = {} THEN {NoSlave} ELSE {s.link : s \in slaves}
    BY <2>5
  <2>7. k \in Link \union {NoSlave}
    OBVIOUS
  <2>8. y = [x EXCEPT !.slaves = slaves, !.key_slave = k]
    BY <2>1, <2>2
  <2> HIDE DEF x, y, slaves, k
  <2>9. y.slaves = slaves /\ y.key_slave = k /\ y.update = TRUE
    BY <2>2, <2>8 DEF Lacp
  <2>10. y \in Lacp
    BY <2>2, <2>5, <2>7, <2>8, Zenon DEF Lacp
  <2>11. GoodBond(y)
    BY <2>5, <2>6, <2>9, <2>10 DEF GoodBond, Links
  <2>12. OnePartner(y)
    BY <2>9, Zenon DEF OnePartner
  <2> QED
    BY <2>11, <2>12 DEF y
<1>2. lacp \in [System -> Lacp]
  <2>1. lacp = [a \in System |-> lacp[a]]
    BY Zenon DEF Init
  <2>2. \A a \in System : lacp[a] \in Lacp
    BY <1>1 DEF GoodBond
  <2> QED
    BY <2>1, <2>2
<1>3. WireOK(wire)
  BY Zenon DEF Init, WireOK
<1>4. events \in 0 .. MaxEvents
  <2>1. events = 0
    BY Zenon DEF Init
  <2> QED
    BY <2>1, LacpAssumption
<1> QED
  BY <1>1, <1>2, <1>3, <1>4 DEF IInv, BondsOK

\* lacp_run() by system a.
LEMMA RunKeeps ==
    ASSUME IInv, NEW a \in System, NEW rx \in SUBSET lacp[a].slaves, NEW tx, lacp_run(a, rx, tx)
    PROVE  IInv'
<1> DEFINE y == Updated(lacp[a], rx)
           sends == {s \in y.slaves : NeedToTransmit(y, s, tx)}
           sent == {[s EXCEPT !.ntt_actor = slave_get_actor(y, s)] : s \in sends}
           z == [y EXCEPT !.slaves = (@ \ sends) \union sent]
           news == {[to |-> Peer(a, s.link), link |-> s.link,
                     actor |-> s.ntt_actor, partner |-> s.partner] : s \in sent}
<1>1. GoodBond(lacp[a]) /\ OnePartner(lacp[a])
  BY DEF IInv, BondsOK
<1>2. /\ \A s \in rx : s.status # "DEFAULTED"
      /\ events + Cardinality(rx) <= MaxEvents
      /\ events' = events + Cardinality(rx)
      /\ lacp' = [lacp EXCEPT ![a] = z]
      /\ wire' = {p \in wire : ~\E s \in sent : p.link = s.link /\ p.to # a} \union news
  BY DEF lacp_run, Updated
<1>3. GoodBond(y) /\ OnePartner(y)
  BY <1>1, <1>2, UpdatedKeeps
<1> HIDE DEF y
<1>4. sends \in SUBSET y.slaves
  OBVIOUS
<1>5. GoodBond(z) /\ OnePartner(z)
  <2>1. z = Sent(y, sends)
    BY DEF Sent
  <2> HIDE DEF z, sends
  <2> QED
    BY <1>3, <1>4, <2>1, SendingKeeps
<1>6. BondsOK(lacp')
  <2> HIDE DEF z
  <2> QED
    BY <1>2, <1>5, BondReplaced, Zenon DEF IInv
<1>7. \A s \in sent : /\ s \in Slave
                      /\ \A r \in sent : s.link = r.link => s = r
  <2>1. z \in Lacp /\ sent \subseteq z.slaves
    <3>1. y \in Lacp
      BY <1>3 DEF GoodBond
    <3>2. z.slaves = (y.slaves \ sends) \union sent
      BY <3>1 DEF Lacp
    <3> QED
      BY <1>5, <3>2 DEF GoodBond
  <2>2. z.slaves \subseteq Slave /\ \A s, r \in z.slaves : s.link = r.link => s = r
    BY <1>5 DEF GoodBond, Lacp
  <2> HIDE DEF z, sent
  <2> QED
    BY <2>1, <2>2
<1> HIDE DEF sent
<1>8. news \subseteq Pdu
  <2> SUFFICES ASSUME NEW s \in sent
               PROVE  [to |-> Peer(a, s.link), link |-> s.link,
                       actor |-> s.ntt_actor, partner |-> s.partner] \in Pdu
    OBVIOUS
  <2>1. s.link \in Link /\ s.ntt_actor \in Info /\ s.partner \in Info
    BY <1>7 DEF Slave
  <2>2. Peer(a, s.link) \in System
    BY <2>1, PeerIsThere
  <2> QED
    BY <2>1, <2>2 DEF Pdu
<1>9. \A p, q \in wire' : p.to = q.to /\ p.link = q.link => p = q
  <2> DEFINE kept == {p \in wire : ~\E s \in sent : p.link = s.link /\ p.to # a}
  <2>1. \A p, q \in kept : p.to = q.to /\ p.link = q.link => p = q
    BY DEF IInv, WireOK
  <2>2. \A p, q \in news : p.link = q.link => p = q
    BY <1>7
  <2>3. \A p \in news : p.to # a /\ \E s \in sent : p.link = s.link
    <3> SUFFICES ASSUME NEW s \in sent PROVE Peer(a, s.link) # a
      OBVIOUS
    <3>1. s.link \in Link
      BY <1>7 DEF Slave
    <3> QED
      BY <3>1, PeerIsThere
  <2>4. \A p \in kept, q \in news : ~(p.to = q.to /\ p.link = q.link)
    BY <2>3
  <2>5. wire' = kept \union news
    BY <1>2
  <2> HIDE DEF kept, news
  <2> QED
    BY <2>1, <2>2, <2>4, <2>5
<1>10. WireOK(wire')
  <2>1. wire' \subseteq Pdu
    <3> HIDE DEF news
    <3> QED
      BY <1>2, <1>8 DEF IInv, WireOK
  <2> QED
    BY <1>9, <2>1 DEF WireOK
<1>11. events' \in 0 .. MaxEvents
  <2>1. Cardinality(rx) \in Nat
    BY <1>1, FinitelyMany, FS_Subset, FS_CardinalityType
  <2> QED
    BY <1>2, <2>1, LacpAssumption DEF IInv
<1> QED
  BY <1>6, <1>10, <1>11 DEF IInv

\* lacp_process_packet() of a PDU for system a.
LEMMA ProcessKeeps ==
    ASSUME IInv, NEW a \in System, NEW l \in Link, lacp_process_packet(a, l)
    PROVE  IInv'
<1> DEFINE x == lacp[a]
           s == slave_lookup(x, l)
<1>1. PICK pdu \in wire :
        /\ lacp' = [lacp EXCEPT ![a] = IF l \notin Links(x) THEN x
                                       ELSE Processed(x, s, pdu.actor, pdu.partner)]
        /\ wire' = wire \ {pdu}
        /\ events' = events
  BY Zenon DEF lacp_process_packet, Processed
<1>2. BondsOK(lacp) /\ GoodBond(x) /\ OnePartner(x)
  BY DEF IInv, BondsOK
<1>3. pdu.actor \in Info /\ pdu.partner \in Info
  BY DEF IInv, WireOK, Pdu
<1>4. BondsOK(lacp')
  <2>1. CASE l \notin Links(x)
    <3>1. lacp' = [lacp EXCEPT ![a] = x]
      BY <1>1, <2>1
    <3> HIDE DEF x
    <3> QED
      BY <1>2, <3>1, BondReplaced, Zenon DEF x
  <2>2. CASE l \in Links(x)
    <3> DEFINE y == Processed(x, s, pdu.actor, pdu.partner)
    <3>1. lacp' = [lacp EXCEPT ![a] = y]
      BY <1>1, <2>2
    <3> HIDE DEF x
    <3>2. s \in x.slaves
      BY <1>2, <2>2, LookupFinds
    <3> HIDE DEF s
    <3>3. GoodBond(y) /\ OnePartner(y)
      BY <1>2, <1>3, <3>2, PacketKeeps
    <3> HIDE DEF y
    <3> QED
      BY <1>2, <3>1, <3>3, BondReplaced, Zenon
  <2> QED
    BY <2>1, <2>2
<1>5. WireOK(wire')
  BY <1>1, WireLess DEF IInv
<1> QED
  BY <1>1, <1>4, <1>5 DEF IInv

\* The changes of a bond's configuration and carrier.
LEMMA ConfigureKeeps ==
    ASSUME IInv, NEW a \in System, NEW c \in Settings, lacp_configure(a, c)
    PROVE  IInv'
<1> DEFINE x == lacp[a]
           y == Configured(x, c)
<1>1. lacp' = [lacp EXCEPT ![a] = y] /\ wire' = wire /\ events' = events + 1 /\ events < MaxEvents
  BY DEF lacp_configure, Disturbs, Configured
<1>2. BondsOK(lacp) /\ GoodBond(x)
  BY DEF IInv, BondsOK
<1> HIDE DEF x
<1>3. GoodBond(y) /\ (OnePartner(x) => OnePartner(y))
  BY <1>2, ConfiguredKeeps
<1> HIDE DEF y
<1>4. BondsOK(lacp')
  BY <1>1, <1>2, <1>3, BondReplaced, Zenon DEF x
<1> QED
  BY <1>1, <1>4, LacpAssumption DEF IInv

LEMMA RegisterKeeps ==
    ASSUME IInv, NEW a \in System, NEW l \in Link, NEW key \in Keys,
           lacp_slave_register(a, l, key)
    PROVE  IInv'
<1> DEFINE x == lacp[a]
           y == Registered(x, l, key)
<1>1. lacp' = [lacp EXCEPT ![a] = y] /\ wire' = wire /\ events' = events + 1 /\ events < MaxEvents
  BY DEF lacp_slave_register, Disturbs, IInv, BondsOK
<1>2. BondsOK(lacp) /\ GoodBond(x) /\ key \in Nat
  BY LacpAssumption DEF IInv, BondsOK
<1> HIDE DEF x
<1>3. GoodBond(y) /\ (y = x \/ y.update)
  BY <1>2, RegisteredNew, RegisteredAgain, Zenon
<1> HIDE DEF y
<1>4. OnePartner(x) => OnePartner(y)
  BY <1>3, Zenon DEF OnePartner
<1>5. BondsOK(lacp')
  BY <1>1, <1>2, <1>3, <1>4, BondReplaced, Zenon DEF x
<1> QED
  BY <1>1, <1>5, LacpAssumption DEF IInv

LEMMA UnregisterKeeps ==
    ASSUME IInv, NEW a \in System, NEW l \in Link, lacp_slave_unregister(a, l)
    PROVE  IInv'
<1> DEFINE x == lacp[a]
<1>1. /\ \E k \in KeyChoice(x, l) : lacp' = [lacp EXCEPT ![a] = Unregistered(x, l, k)]
      /\ l \in Links(x) /\ wire' = wire /\ events' = events + 1 /\ events < MaxEvents
  BY Zenon DEF lacp_slave_unregister, Disturbs, Rest, KeyChoice, Unregistered
<1>2. BondsOK(lacp) /\ GoodBond(x)
  BY DEF IInv, BondsOK
<1> HIDE DEF x
<1>3. PICK k \in KeyChoice(x, l) : lacp' = [lacp EXCEPT ![a] = Unregistered(x, l, k)]
  BY <1>1, Zenon
<1> DEFINE y == Unregistered(x, l, k)
<1>4. GoodBond(y) /\ y.update
  BY <1>1, <1>2, UnregisteredIsGood
<1>5. lacp' = [lacp EXCEPT ![a] = y]
  BY <1>3
<1> HIDE DEF y
<1>6. OnePartner(y)
  BY <1>4, Zenon DEF OnePartner
<1>7. BondsOK(lacp')
  BY <1>2, <1>4, <1>5, <1>6, BondReplaced, Zenon
<1> QED
  BY <1>1, <1>7, LacpAssumption DEF IInv

LEMMA CarrierChangeKeeps ==
    ASSUME IInv, NEW a \in System, NEW l \in Link, lacp_slave_carrier_changed(a, l)
    PROVE  IInv'
<1> DEFINE x == lacp[a]
<1>1. PICK s \in x.slaves :
        /\ lacp' = [lacp EXCEPT ![a] = [x EXCEPT !.slaves = (@ \ {s}) \union {slave_set_expired(s)}]]
        /\ wire' = wire /\ events' = events + 1 /\ events < MaxEvents
  BY Zenon DEF lacp_slave_carrier_changed, Disturbs
<1>2. BondsOK(lacp) /\ GoodBond(x)
  BY DEF IInv, BondsOK
<1> DEFINE y == [x EXCEPT !.slaves = (@ \ {s}) \union {slave_set_expired(s)}]
<1> HIDE DEF x
<1>3. GoodBond(y) /\ (OnePartner(x) => OnePartner(y))
  BY <1>1, <1>2, CarrierKeeps
<1>4. lacp' = [lacp EXCEPT ![a] = y]
  BY <1>1
<1> HIDE DEF y
<1>5. BondsOK(lacp')
  BY <1>2, <1>3, <1>4, BondReplaced, ZenonT(30) DEF x
<1> QED
  BY <1>1, <1>5, LacpAssumption DEF IInv

LEMMA NextKeeps == IInv /\ [Next]_vars => IInv'
<1> SUFFICES ASSUME IInv, [Next]_vars PROVE IInv'
  OBVIOUS
<1>1. ASSUME NEW a \in System, NEW rx \in SUBSET lacp[a].slaves,
             NEW tx \in SUBSET Links(lacp[a]), lacp_run(a, rx, tx)
      PROVE  IInv'
  BY <1>1, RunKeeps
<1>2. ASSUME NEW a \in System, NEW c \in Settings, lacp_configure(a, c)
      PROVE  IInv'
  BY <1>2, ConfigureKeeps
<1>3. ASSUME NEW a \in System, NEW l \in Link, lacp_process_packet(a, l)
      PROVE  IInv'
  BY <1>3, ProcessKeeps
<1>4. ASSUME NEW a \in System, NEW l \in Link, NEW key \in Keys, lacp_slave_register(a, l, key)
      PROVE  IInv'
  BY <1>4, RegisterKeeps
<1>5. ASSUME NEW a \in System, NEW l \in Link, lacp_slave_unregister(a, l)
      PROVE  IInv'
  BY <1>5, UnregisterKeeps
<1>6. ASSUME NEW a \in System, NEW l \in Link, lacp_slave_carrier_changed(a, l)
      PROVE  IInv'
  BY <1>6, CarrierChangeKeeps
<1>7. CASE Lose
  <2>1. WireOK(wire')
    BY <1>7, WireLess DEF Lose, IInv
  <2> QED
    BY <1>7, <2>1, LacpAssumption DEF Lose, Disturbs, IInv
<1>8. CASE UNCHANGED vars
  BY <1>8 DEF vars, IInv
<1> QED
  BY <1>1, <1>2, <1>3, <1>4, <1>5, <1>6, <1>7, <1>8 DEF Next

\* The state of the bonds and the PDUs on the wire always have their types: no link has two
\* slaves in a bond, and a bond with slaves has a key slave among them, which
\* slave_get_actor() dereferences.
THEOREM TypeCorrect == Spec => []TypeOK
<1>1. IInv => TypeOK
  BY IInvIsEnough
<1> QED
  BY <1>1, InitHolds, NextKeeps, PTL DEF Spec

\* Whenever no update is pending, the attached slaves of every bond lead to one partner
\* (lacp_update_attached()), whatever is lost, expires or is reconfigured.
THEOREM OnePartnerAlways == Spec => []AttachedToOnePartner
<1>1. IInv => AttachedToOnePartner
  BY IInvIsEnough
<1> QED
  BY <1>1, InitHolds, NextKeeps, PTL DEF Spec

================================================================================
