----------------------------- MODULE PipelineProofs -----------------------------
(******************************************************************************)
(* Proofs about Pipeline: whatever the tables, flows, threads and actions, a  *)
(* flow that learn_learn installed is looked up by every later packet of its  *)
(* class (LearnedFlowsSeen).                                                  *)
(*                                                                            *)
(* The inductive invariant follows the two walks through a stack of frames.   *)
(* The ingress walk is at the second frame from the bottom and has looked up  *)
(* every table below its own; an egress walk may be anywhere on the stack.    *)
(* Flows are learned only in tables that the counter has reached, so a walk   *)
(* that reads the counter and stops has passed them all.  Nothing is assumed  *)
(* of what the actions hold.                                                  *)
(******************************************************************************)
EXTENDS Pipeline, TLAPS

-------------------------------------------------------------------------------
(* The inductive invariant, as operators of a thread x, the counters c and    *)
(* the set w of those that wrapped around.                                    *)

IsStack(s) == s \in Seq({s[k] : k \in DOMAIN s})

\* The frame at height j of a stack: 1 is the bottom, where the translation began.
At(s, j) == s[Len(s) + 1 - j]

\* What a frame is made of.
Shape(f) ==
    \/ f.kind \in {"first", "mod"}
    \/ /\ f.kind \in {"table", "next"}
       /\ DOMAIN f = {"kind", "table", "depth", "may_packet_in", "status"}
    \/ /\ f.kind = "acts" /\ f.rule \in BOOLEAN /\ f.resubmit_done \in BOOLEAN
       /\ DOMAIN f = {"kind", "table", "depth", "acts", "rule", "resubmit_done", "drop"}

ThreadShape(x) ==
    /\ DOMAIN x = DOMAIN Idle
    /\ x.exit \in BOOLEAN /\ x.diverted \in BOOLEAN /\ x.cut \in BOOLEAN
    /\ IsStack(x.stack)
    /\ \A k \in DOMAIN x.stack : Shape(x.stack[k])

\* Tables of a block that a counter has reached.
Reached(t, c, w) ==
    /\ IsIngress(t) /\ "INGRESS" \notin w => t <= c["INGRESS"]
    /\ IsEgress(t) /\ "EGRESS" \notin w => t - Egress <= c["EGRESS"]

\* A flow_mod that is under way for learn_learn goes to such a table.
ModReached(f, c, w) ==
    f.kind = "mod" /\ f.act.type = "learn" /\ InBlock(f.act.spec, f.table) =>
        f.table \in Nat /\ Reached(f.table, c, w)

IngressOwed(x) == {t \in x.owed : IsIngress(t)}
EgressOwed(x) == {t \in x.owed : IsEgress(t)}

\* The walk through the ingress tables is at frame f.
IngressWalk(x, f) ==
    \/ f.kind = "table" /\ f.table \in 1 .. Production - 1 /\ 0 .. f.table - 1 \subseteq x.seen
    \/ f.kind = "next" /\ f.table \in 1 .. Production - 1 /\ 0 .. f.table \subseteq x.seen

\* The translation has begun with a rule b of table 0 and has left the rest to the
\* automatic resubmit, once the actions of b have run.
Based(x, b) ==
    /\ b.kind = "acts" /\ b.table = 0 /\ b.rule
    /\ 0 \in x.seen
    /\ b.resubmit_done => /\ x.exit \/ b.acts = <<>>
                          /\ Len(x.stack) >= 2 /\ IngressWalk(x, At(x.stack, 2))

Undisturbed(x, w) == ~x.diverted /\ ~x.cut /\ "INGRESS" \notin w

Ingress(x, w) ==
    Undisturbed(x, w) =>
        \/ IngressOwed(x) \subseteq x.seen
        \/ Len(x.stack) = 1 /\ x.stack[1].kind = "first"
        \/ x.stack # <<>> /\ Based(x, At(x.stack, 1))

\* The walk through the egress tables is at frame f.
EgressWalk(x, f) ==
    \/ f.kind = "table" /\ f.table \in Egress + 1 .. Internal /\ Egress .. f.table - 1 \subseteq x.seen
    \/ f.kind = "next" /\ f.table \in Egress .. Internal /\ Egress .. f.table \subseteq x.seen

EgressWalked(x, w) ==
    x.judged # <<>> /\ ~x.cut /\ "EGRESS" \notin w =>
        \/ EgressOwed(x) \subseteq x.seen
        \/ \E k \in DOMAIN x.stack : EgressWalk(x, x.stack[k])

Good(x, c, w) ==
    /\ ThreadShape(x)
    /\ \A t \in x.owed : t \in Table /\ Reached(t, c, w)
    /\ \A k \in DOMAIN x.stack : ModReached(x.stack[k], c, w)
    /\ Ingress(x, w)
    /\ EgressWalked(x, w)

IInv ==
    /\ counter \in [Spec_ -> 0 .. Width - 1]
    /\ DOMAIN atomic = Table
    /\ \A t \in Table : atomic[t] # {} => Reached(t, counter, wrapped)
    /\ DOMAIN thread = Thread
    /\ \A i \in Thread : Good(thread[i], counter, wrapped)

-------------------------------------------------------------------------------
(* Stacks.                                                                    *)

LEMMA LenProperties ==
    ASSUME NEW S, NEW s \in Seq(S)
    PROVE  Len(s) \in Nat /\ DOMAIN s = 1 .. Len(s) /\ s \in [1 .. Len(s) -> S]
OBVIOUS

LEMMA EmptySeq ==
    ASSUME NEW S
    PROVE  /\ <<>> \in Seq(S) /\ Len(<<>>) = 0
           /\ \A s \in Seq(S) : s = <<>> <=> Len(s) = 0
OBVIOUS

LEMMA IsASeq ==
    ASSUME NEW S, NEW n \in Nat, NEW s \in [1 .. n -> S]
    PROVE  s \in Seq(S) /\ Len(s) = n
OBVIOUS

LEMMA ConcatProperties ==
    ASSUME NEW S, NEW s \in Seq(S), NEW t \in Seq(S)
    PROVE  /\ s \o t \in Seq(S) /\ Len(s \o t) = Len(s) + Len(t)
           /\ \A i \in 1 .. Len(s) + Len(t) :
                  (s \o t)[i] = IF i <= Len(s) THEN s[i] ELSE t[i - Len(s)]
OBVIOUS

LEMMA HeadTailProperties ==
    ASSUME NEW S, NEW s \in Seq(S), s # <<>>
    PROVE  /\ Tail(s) \in Seq(S) /\ Len(Tail(s)) = Len(s) - 1
           /\ \A i \in 1 .. Len(Tail(s)) : Tail(s)[i] = s[i + 1]
OBVIOUS

LEMMA StackElements ==
    ASSUME NEW s, IsStack(s)
    PROVE  /\ Len(s) \in Nat /\ DOMAIN s = 1 .. Len(s)
           /\ s = <<>> <=> Len(s) = 0
BY LenProperties, EmptySeq DEF IsStack

\* A sequence is a stack, whatever it holds.
LEMMA SeqIsStack ==
    ASSUME NEW S, NEW s \in Seq(S)
    PROVE  IsStack(s)
<1>1. Len(s) \in Nat /\ s \in [1 .. Len(s) -> S] /\ DOMAIN s = 1 .. Len(s)
  BY LenProperties
<1> DEFINE T == {s[k] : k \in DOMAIN s}
<1>2. s \in [1 .. Len(s) -> T]
  BY <1>1
<1> HIDE DEF T
<1>3. s \in Seq(T)
  BY <1>1, <1>2, IsASeq
<1> QED
  BY <1>3 DEF IsStack, T

LEMMA SmallStacks ==
    /\ IsStack(<<>>) /\ Len(<<>>) = 0
    /\ \A a : IsStack(<<a>>) /\ Len(<<a>>) = 1 /\ <<a>>[1] = a
    /\ \A a, b : IsStack(<<a, b>>) /\ Len(<<a, b>>) = 2 /\ <<a, b>>[1] = a /\ <<a, b>>[2] = b
<1>1. IsStack(<<>>) /\ Len(<<>>) = 0
  BY DEF IsStack
<1>2. ASSUME NEW a PROVE IsStack(<<a>>) /\ Len(<<a>>) = 1 /\ <<a>>[1] = a
  <2>1. <<a>> \in Seq({a})
    OBVIOUS
  <2> QED
    BY <2>1, SeqIsStack, Zenon
<1>3. ASSUME NEW a, NEW b
      PROVE  IsStack(<<a, b>>) /\ Len(<<a, b>>) = 2 /\ <<a, b>>[1] = a /\ <<a, b>>[2] = b
  <2>1. <<a, b>> \in Seq({a, b})
    OBVIOUS
  <2> QED
    BY <2>1, SeqIsStack, Zenon
<1> QED
  BY <1>1, <1>2, <1>3

\* What u = s \o t is.
Joined(s, t, u) ==
    /\ IsStack(u) /\ Len(u) = Len(s) + Len(t)
    /\ \A k \in 1 .. Len(s) : u[k] = s[k]
    /\ \A k \in 1 .. Len(t) : u[Len(s) + k] = t[k]

LEMMA StackConcat ==
    ASSUME NEW s, NEW t, IsStack(s), IsStack(t)
    PROVE  Joined(s, t, s \o t)
<1> DEFINE S == {s[k] : k \in DOMAIN s} \union {t[k] : k \in DOMAIN t}
<1>1. s \in Seq(S) /\ t \in Seq(S)
  <2>1. /\ Len(s) \in Nat /\ Len(t) \in Nat
        /\ s \in [1 .. Len(s) -> {s[k] : k \in DOMAIN s}]
        /\ t \in [1 .. Len(t) -> {t[k] : k \in DOMAIN t}]
    BY LenProperties DEF IsStack
  <2>2. s \in [1 .. Len(s) -> S] /\ t \in [1 .. Len(t) -> S]
    BY <2>1
  <2> HIDE DEF S
  <2> QED
    BY <2>1, <2>2, IsASeq
<1> HIDE DEF S
<1>2. s \o t \in Seq(S) /\ Len(s \o t) = Len(s) + Len(t)
  BY <1>1, ConcatProperties
<1>3. IsStack(s \o t)
  BY <1>2, SeqIsStack, Zenon
<1>4. \A k \in 1 .. Len(s) + Len(t) : (s \o t)[k] = IF k <= Len(s) THEN s[k] ELSE t[k - Len(s)]
  BY <1>1, ConcatProperties
<1>5. Len(s) \in Nat /\ Len(t) \in Nat
  BY <1>1
<1> QED
  BY <1>2, <1>3, <1>4, <1>5 DEF Joined

\* What t = fs \o Tail(s) is: the frames below the top of s keep their heights.
Replaced(s, fs, t) ==
    /\ IsStack(t) /\ Len(t) = Len(fs) + Len(s) - 1
    /\ \A k \in 1 .. Len(fs) : t[k] = fs[k]
    /\ \A j \in 1 .. Len(s) - 1 : At(t, j) = At(s, j)
    /\ \A k \in DOMAIN t : \/ k \in 1 .. Len(fs) /\ t[k] = fs[k]
                           \/ \E m \in 2 .. Len(s) : t[k] = s[m]
    /\ \A m \in 2 .. Len(s) : \E k \in DOMAIN t : t[k] = s[m]

LEMMA TopReplaced ==
    ASSUME NEW s, NEW fs, IsStack(s), IsStack(fs), s # <<>>
    PROVE  Replaced(s, fs, fs \o Tail(s))
<1> DEFINE r == Tail(s)
           t == fs \o r
<1>1. Len(s) \in Nat /\ Len(fs) \in Nat /\ Len(s) >= 1
  BY StackElements
<1>2. IsStack(r) /\ Len(r) = Len(s) - 1 /\ \A k \in 1 .. Len(r) : r[k] = s[k + 1]
  <2>1. s \in Seq({s[k] : k \in DOMAIN s})
    BY DEF IsStack
  <2>2. /\ r \in Seq({s[k] : k \in DOMAIN s}) /\ Len(r) = Len(s) - 1
        /\ \A k \in 1 .. Len(r) : r[k] = s[k + 1]
    BY <2>1, HeadTailProperties
  <2> QED
    BY <2>2, SeqIsStack, Zenon
<1> HIDE DEF r
<1>3. /\ IsStack(t) /\ Len(t) = Len(fs) + Len(r)
      /\ \A k \in 1 .. Len(fs) : t[k] = fs[k]
      /\ \A k \in 1 .. Len(r) : t[Len(fs) + k] = r[k]
  <2>1. IsStack(fs) /\ IsStack(r)
    BY <1>2
  <2>2. Joined(fs, r, fs \o r)
    BY <2>1, StackConcat, Zenon
  <2> QED
    BY <2>2 DEF Joined
<1> HIDE DEF t
<1>4. Len(t) = Len(fs) + Len(s) - 1 /\ DOMAIN t = 1 .. Len(t)
  BY <1>1, <1>2, <1>3, StackElements
<1>5. \A m \in 2 .. Len(s) : t[Len(fs) + (m - 1)] = s[m]
  <2> TAKE m \in 2 .. Len(s)
  <2>1. m - 1 \in 1 .. Len(r)
    BY <1>1, <1>2
  <2>2. t[Len(fs) + (m - 1)] = r[m - 1] /\ r[m - 1] = s[(m - 1) + 1]
    BY <1>2, <1>3, <2>1
  <2>3. (m - 1) + 1 = m
    OBVIOUS
  <2> QED
    BY <2>2, <2>3
<1>6. ASSUME NEW j \in 1 .. Len(s) - 1 PROVE At(t, j) = At(s, j)
  <2>1. Len(s) + 1 - j \in 2 .. Len(s)
    BY <1>1
  <2>2. Len(fs) + ((Len(s) + 1 - j) - 1) = Len(t) + 1 - j
    BY <1>1, <1>4
  <2> QED
    BY <1>5, <2>1, <2>2, Zenon DEF At
<1>7. ASSUME NEW k \in DOMAIN t
      PROVE  \/ k \in 1 .. Len(fs) /\ t[k] = fs[k]
             \/ \E m \in 2 .. Len(s) : t[k] = s[m]
  <2>1. CASE k <= Len(fs)
    BY <1>1, <1>3, <1>4, <2>1
  <2>2. CASE ~(k <= Len(fs))
    <3> DEFINE m == (k - Len(fs)) + 1
    <3>1. m \in 2 .. Len(s) /\ Len(fs) + (m - 1) = k
      BY <1>1, <1>4, <2>2
    <3> QED
      BY <1>5, <3>1
  <2> QED
    BY <2>1, <2>2
<1>8. ASSUME NEW m \in 2 .. Len(s) PROVE \E k \in DOMAIN t : t[k] = s[m]
  <2>1. Len(fs) + (m - 1) \in DOMAIN t
    BY <1>1, <1>4
  <2> QED
    BY <1>5, <2>1
<1> QED
  BY <1>3, <1>4, <1>6, <1>7, <1>8, Zenon DEF t, r, Replaced

LEMMA TopIs ==
    ASSUME NEW x, IsStack(x.stack), x.stack # <<>>
    PROVE  /\ Top(x) = x.stack[1] /\ 1 \in DOMAIN x.stack /\ Len(x.stack) >= 1
           /\ Len(x.stack) \in Nat /\ DOMAIN x.stack = 1 .. Len(x.stack)
           /\ At(x.stack, Len(x.stack)) = x.stack[1]
<1>1. Len(x.stack) \in Nat /\ DOMAIN x.stack = 1 .. Len(x.stack) /\ Len(x.stack) # 0
  BY StackElements
<1>2. Len(x.stack) + 1 - Len(x.stack) = 1 /\ 1 \in 1 .. Len(x.stack) /\ Len(x.stack) >= 1
  BY <1>1
<1> QED
  BY <1>1, <1>2 DEF Top, At

-------------------------------------------------------------------------------
(* One step of a translation.                                                 *)

\* y is x after a step that put frames fs in place of the running one.
Steps(x, y, fs) ==
    /\ DOMAIN y = DOMAIN Idle
    /\ y.exit \in BOOLEAN /\ y.diverted \in BOOLEAN /\ y.cut \in BOOLEAN
    /\ Replaced(x.stack, fs, y.stack)
    /\ IsStack(fs) /\ \A k \in 1 .. Len(fs) : Shape(fs[k])
    /\ y.owed = x.owed
    /\ x.seen \subseteq y.seen
    /\ (x.exit => y.exit) /\ (x.diverted => y.diverted) /\ (x.cut => y.cut)

LEMMA StackOfStep ==
    ASSUME NEW x, NEW y, NEW fs, NEW c, NEW w, Good(x, c, w), x.stack # <<>>, Steps(x, y, fs),
           \A k \in 1 .. Len(fs) : ModReached(fs[k], c, w)
    PROVE  ThreadShape(y) /\ \A k \in DOMAIN y.stack : ModReached(y.stack[k], c, w)
<1>1. /\ \A m \in 2 .. Len(x.stack) : Shape(x.stack[m]) /\ ModReached(x.stack[m], c, w)
      /\ \A k \in 1 .. Len(fs) : Shape(fs[k])
  BY StackElements DEF Good, ThreadShape, Steps
<1>2. \A k \in DOMAIN y.stack : \/ k \in 1 .. Len(fs) /\ y.stack[k] = fs[k]
                                \/ \E m \in 2 .. Len(x.stack) : y.stack[k] = x.stack[m]
  BY DEF Steps, Replaced
<1>3. \A k \in DOMAIN y.stack : Shape(y.stack[k]) /\ ModReached(y.stack[k], c, w)
  BY <1>1, <1>2
<1> QED
  BY <1>3 DEF Steps, Replaced, ThreadShape

\* The part of the ingress walk that a step has to look after itself: it runs the frame
\* at the bottom, or the frame of the walk.
AtBottom(x) ==
    Len(x.stack) = 1 /\ (x.stack[1].kind = "first" \/ Based(x, x.stack[1]))

InWalk(x) ==
    /\ Len(x.stack) = 2 /\ Based(x, x.stack[2]) /\ x.stack[2].resubmit_done
    /\ IngressWalk(x, x.stack[1])

LEMMA IngressOfStep ==
    ASSUME NEW x, NEW y, NEW fs, NEW c, NEW w, Good(x, c, w), x.stack # <<>>, Steps(x, y, fs),
           Undisturbed(y, w) /\ AtBottom(x) => Ingress(y, w),
           Undisturbed(y, w) /\ InWalk(x) => Ingress(y, w)
    PROVE  Ingress(y, w)
<1> SUFFICES ASSUME Undisturbed(y, w) PROVE Ingress(y, w)
  BY DEF Ingress
<1> DEFINE n == Len(x.stack)
<1>1. /\ n \in Nat /\ n >= 1 /\ Len(fs) \in Nat /\ Len(y.stack) = Len(fs) + n - 1
      /\ IsStack(x.stack) /\ IsStack(y.stack)
  BY StackElements DEF Good, ThreadShape, Steps, Replaced
<1>2. \A j \in 1 .. n - 1 : At(y.stack, j) = At(x.stack, j)
  BY DEF Steps, Replaced
<1>3. Undisturbed(x, w)
  BY DEF Undisturbed, Steps
<1>4. CASE IngressOwed(x) \subseteq x.seen
  <2>1. IngressOwed(y) \subseteq y.seen
    BY <1>4 DEF IngressOwed, Steps
  <2> QED
    BY <2>1 DEF Ingress
<1>5. CASE n = 1 /\ x.stack[1].kind = "first"
  BY <1>5 DEF AtBottom
<1>6. CASE Based(x, At(x.stack, 1))
  <2> DEFINE b == At(x.stack, 1)
  <2>1. CASE n = 1
    BY <1>6, <2>1 DEF AtBottom, At
  <2>2. CASE n >= 2
    <3>1. At(y.stack, 1) = b /\ Len(y.stack) >= 1 /\ y.stack # <<>>
      BY <1>1, <1>2, <2>2, StackElements
    <3>2. b.kind = "acts" /\ b.table = 0 /\ b.rule /\ 0 \in y.seen
      BY <1>6 DEF Based, Steps
    <3>3. CASE ~b.resubmit_done
      BY <3>1, <3>2, <3>3 DEF Ingress, Based
    <3>4. CASE b.resubmit_done /\ n = 2
      <4>1. At(x.stack, 1) = x.stack[2] /\ At(x.stack, 2) = x.stack[1]
        BY <3>4 DEF At
      <4>2. InWalk(x)
        BY <1>6, <3>4, <4>1 DEF InWalk, Based
      <4> QED
        BY <4>2
    <3>5. CASE b.resubmit_done /\ n # 2
      <4>1. At(y.stack, 2) = At(x.stack, 2) /\ Len(y.stack) >= 2
        <5>1. n >= 3 /\ 2 \in 1 .. n - 1
          <6>1. n \in Nat /\ n >= 2 /\ n # 2
            BY <1>1, <2>2, <3>5
          <6> HIDE DEF n
          <6> QED
            BY <6>1
        <5> QED
          BY <1>1, <1>2, <5>1
      <4>2. x.exit \/ b.acts = <<>>
        BY <1>6, <3>5 DEF Based
      <4>3. y.exit \/ b.acts = <<>>
        BY <4>2 DEF Steps
      <4>4. IngressWalk(x, At(x.stack, 2))
        BY <1>6, <3>5 DEF Based
      <4>5. IngressWalk(y, At(y.stack, 2))
        BY <4>1, <4>4 DEF IngressWalk, Steps
      <4>6. Based(y, At(y.stack, 1))
        BY <3>1, <3>2, <4>1, <4>3, <4>5 DEF Based
      <4> QED
        BY <3>1, <4>6 DEF Ingress
    <3> QED
      BY <3>3, <3>4, <3>5
  <2>3. n = 1 \/ n >= 2
    <3>1. n \in Nat /\ n >= 1
      BY <1>1
    <3> HIDE DEF n
    <3> QED
      BY <3>1
  <2> QED
    BY <2>1, <2>2, <2>3
<1> QED
  BY <1>3, <1>4, <1>5, <1>6 DEF Good, Ingress

LEMMA EgressOfStep ==
    ASSUME NEW x, NEW y, NEW fs, NEW c, NEW w, Good(x, c, w), x.stack # <<>>, Steps(x, y, fs),
           y.judged = x.judged, ~EgressWalk(x, x.stack[1])
    PROVE  EgressWalked(y, w)
<1> SUFFICES ASSUME y.judged # <<>>, ~y.cut, "EGRESS" \notin w PROVE EgressWalked(y, w)
  BY DEF EgressWalked
<1>1. ~x.cut /\ x.judged # <<>>
  BY DEF Steps
<1>2. CASE EgressOwed(x) \subseteq x.seen
  BY <1>2 DEF EgressWalked, EgressOwed, Steps
<1>3. CASE \E k \in DOMAIN x.stack : EgressWalk(x, x.stack[k])
  <2>1. PICK k \in DOMAIN x.stack : EgressWalk(x, x.stack[k])
    BY <1>3
  <2>2. k \in 2 .. Len(x.stack)
    <3>1. DOMAIN x.stack = 1 .. Len(x.stack) /\ Len(x.stack) \in Nat
      BY StackElements DEF Good, ThreadShape
    <3> QED
      BY <2>1, <3>1
  <2>3. PICK m \in DOMAIN y.stack : y.stack[m] = x.stack[k]
    BY <2>2 DEF Steps, Replaced
  <2>4. EgressWalk(y, y.stack[m])
    BY <2>1, <2>3 DEF EgressWalk, Steps
  <2> QED
    BY <2>4 DEF EgressWalked
<1> QED
  BY <1>1, <1>2, <1>3 DEF Good, EgressWalked

\* A step keeps the invariant of its thread if it keeps the parts it runs.
LEMMA GoodStep ==
    ASSUME NEW x, NEW y, NEW fs, NEW c, NEW w, Good(x, c, w), x.stack # <<>>, Steps(x, y, fs),
           \A k \in 1 .. Len(fs) : ModReached(fs[k], c, w),
           Undisturbed(y, w) /\ AtBottom(x) => Ingress(y, w),
           Undisturbed(y, w) /\ InWalk(x) => Ingress(y, w),
           \/ y.judged = x.judged /\ ~EgressWalk(x, x.stack[1])
           \/ EgressWalked(y, w)
    PROVE  Good(y, c, w)
<1>1. ThreadShape(y) /\ \A k \in DOMAIN y.stack : ModReached(y.stack[k], c, w)
  BY StackOfStep, Zenon
<1>2. Ingress(y, w)
  BY IngressOfStep, Zenon
<1>3. EgressWalked(y, w)
  BY EgressOfStep, Zenon
<1>4. \A t \in y.owed : t \in Table /\ Reached(t, c, w)
  BY DEF Good, Steps
<1> QED
  BY <1>1, <1>2, <1>3, <1>4 DEF Good

-------------------------------------------------------------------------------
(* The steps.                                                                 *)

LEMMA IdleFields ==
    DOMAIN Idle = {"kind", "flow", "stack", "may_learn", "may_increment", "exit", "slow",
                   "status", "key", "src", "reg", "seen", "owed", "judged",
                   "diverted", "cut"}
BY DEF Idle

\* The fields of a thread that Replace() leaves alone.
Alike(x, y) ==
    /\ y.kind = x.kind /\ y.flow = x.flow /\ y.exit = x.exit /\ y.status = x.status
    /\ y.seen = x.seen /\ y.owed = x.owed /\ y.judged = x.judged
    /\ y.diverted = x.diverted /\ y.cut = x.cut

LEMMA ReplaceIs ==
    ASSUME NEW x, NEW fs, ThreadShape(x), x.stack # <<>>, IsStack(fs)
    PROVE  /\ DOMAIN Replace(x, fs) = DOMAIN Idle
           /\ Replaced(x.stack, fs, Replace(x, fs).stack)
           /\ Alike(x, Replace(x, fs))
<1> DEFINE y == Replace(x, fs)
<1>1. y.stack = fs \o Tail(x.stack)
  BY IdleFields DEF Replace, ThreadShape
<1>2. Replaced(x.stack, fs, fs \o Tail(x.stack))
  BY TopReplaced DEF ThreadShape
<1>3. Alike(x, y)
  BY DEF Replace, ThreadShape, Alike
<1>4. DOMAIN y = DOMAIN Idle
  BY DEF Replace, ThreadShape
<1> QED
  BY <1>1, <1>2, <1>3, <1>4

LEMMA BodyIs ==
    ASSUME NEW t, NEW d, NEW a
    PROVE  /\ Shape(Body(t, d, a, TRUE)) /\ Shape(Body(t, d, a, FALSE))
           /\ Body(t, d, a, TRUE).kind = "acts" /\ Body(t, d, a, FALSE).kind = "acts"
BY DEF Body, Shape

LEMMA CallIs ==
    ASSUME NEW t, NEW d, NEW m, NEW s
    PROVE  /\ Shape(Call(t, d, m, s))
           /\ Call(t, d, m, s).kind = "table" /\ Call(t, d, m, s).table = t
           /\ Call(t, d, m, s).status = s
BY DEF Call, Shape

LEMMA FirstGood ==
    ASSUME NEW x, NEW c, NEW w, Good(x, c, w), x.stack # <<>>, x.stack[1].kind = "first"
    PROVE  Good(LookupFirst(x), c, w)
<1> DEFINE rule == rules[0][x.flow]
           a == IF rule = <<>> THEN <<Controller>> ELSE rule[1]
           b == Body(0, 0, a, TRUE)
           z == Replace(x, <<b>>)
           y == LookupFirst(x)
<1>1. Shape(b) /\ b.kind = "acts" /\ b.table = 0 /\ b.rule /\ ~b.resubmit_done
  <2> HIDE DEF a
  <2> QED
    BY DEF Body, Shape
<1>2. y = [z EXCEPT !.seen = z.seen \cup {0}]
  BY DEF LookupFirst
<1> HIDE DEF b, y
<1>3. IsStack(<<b>>) /\ Len(<<b>>) = 1 /\ <<b>>[1] = b
  BY SmallStacks
<1>4. /\ DOMAIN z = DOMAIN Idle
      /\ Replaced(x.stack, <<b>>, z.stack) /\ Alike(x, z)
  BY <1>3, ReplaceIs DEF Good
<1> HIDE DEF z
<1>5. Steps(x, y, <<b>>)
  BY <1>1, <1>2, <1>3, <1>4, IdleFields DEF Steps, Alike, Good, ThreadShape
<1>6. y.judged = x.judged /\ y.seen = x.seen \cup {0} /\ y.stack = z.stack
  BY <1>2, <1>4, IdleFields DEF Alike
<1>7. ASSUME AtBottom(x) PROVE Ingress(y, w)
  <2>1. Len(y.stack) = 1 /\ y.stack[1] = b /\ y.stack # <<>>
    BY <1>3, <1>4, <1>6, <1>7 DEF Replaced, AtBottom
  <2>2. Based(y, At(y.stack, 1))
    BY <1>1, <1>6, <2>1 DEF Based, At
  <2> QED
    BY <2>1, <2>2 DEF Ingress
<1>8. ~InWalk(x) /\ ~EgressWalk(x, x.stack[1])
  BY DEF InWalk, IngressWalk, EgressWalk
<1>9. \A k \in 1 .. Len(<<b>>) : ModReached(<<b>>[k], c, w)
  BY <1>1, <1>3 DEF ModReached
<1> QED
  BY <1>5, <1>6, <1>7, <1>8, <1>9, GoodStep DEF y

\* The last of the new frames takes the height of the frame that ran.
LEMMA LastFrame ==
    ASSUME NEW s, NEW fs, NEW t, IsStack(s), s # <<>>, IsStack(fs), fs # <<>>, Replaced(s, fs, t)
    PROVE  At(t, Len(s)) = fs[Len(fs)] /\ t # <<>>
<1>1. Len(s) \in Nat /\ Len(fs) \in Nat /\ Len(fs) >= 1 /\ Len(s) >= 1
  BY StackElements
<1>2. Len(t) = Len(fs) + Len(s) - 1 /\ IsStack(t)
  BY DEF Replaced
<1>3. Len(t) + 1 - Len(s) = Len(fs) /\ Len(t) >= 1
  BY <1>1, <1>2
<1>4. t[Len(fs)] = fs[Len(fs)]
  BY <1>1 DEF Replaced
<1> QED
  BY <1>2, <1>3, <1>4, StackElements DEF At

\* Loading register 1 and comparing leave the walk alone.
LEMMA ComparedIs ==
    ASSUME NEW x, NEW f, ThreadShape(x)
    PROVE  LET z == Compared(Loaded(x, f), f)
           IN  /\ ThreadShape(z) /\ z.stack = x.stack
               /\ z.exit = x.exit /\ z.seen = x.seen /\ z.owed = x.owed
               /\ z.diverted = x.diverted /\ z.cut = x.cut
               /\ f.table # Egress => z.judged = x.judged
<1> DEFINE u == Loaded(x, f)
           z == Compared(u, f)
<1>1. /\ ThreadShape(u) /\ u.stack = x.stack
      /\ u.exit = x.exit /\ u.seen = x.seen /\ u.owed = x.owed
      /\ u.diverted = x.diverted /\ u.cut = x.cut /\ u.judged = x.judged
  BY IdleFields DEF Loaded, ThreadShape
<1> HIDE DEF u
<1>2. /\ ThreadShape(z) /\ z.stack = u.stack
      /\ z.exit = u.exit /\ z.seen = u.seen /\ z.owed = u.owed
      /\ z.diverted = u.diverted /\ z.cut = u.cut
      /\ f.table # Egress => z.judged = u.judged
  BY <1>1, IdleFields DEF Compared, do_egress_compare, ThreadShape
<1> HIDE DEF z
<1> QED
  BY <1>1, <1>2 DEF z, u

\* The frames of a lookup: the rule that was found, if any, above the rest of
\* xlate_table_action().
Frames(x, f) ==
    LET found == Found(x, f)
        body == IF found = <<>> THEN <<>> ELSE << Body(f.table, f.depth + 1, found[1], TRUE) >>
    IN  body \o <<Continuation(f)>>

AreFrames(fs, f) ==
    /\ IsStack(fs) /\ fs # <<>>
    /\ \A k \in 1 .. Len(fs) : Shape(fs[k]) /\ fs[k].kind # "mod"
    /\ fs[Len(fs)].kind = "next" /\ fs[Len(fs)].table = f.table

LEMMA LookupFrames ==
    ASSUME NEW x, NEW f, f.kind = "table", Shape(f)
    PROVE  AreFrames(Frames(x, f), f)
<1> DEFINE found == Found(x, f)
           b == Body(f.table, f.depth + 1, found[1], TRUE)
           g == Continuation(f)
           body == IF found = <<>> THEN <<>> ELSE <<b>>
           fs == body \o <<g>>
<1>1. Shape(b) /\ b.kind = "acts"
  BY BodyIs, Zenon
<1>2. Shape(g) /\ g.kind = "next" /\ g.table = f.table
  BY DEF Continuation, Shape
<1> HIDE DEF b, g, found
<1>3. /\ IsStack(body) /\ Len(body) \in {0, 1} /\ \A k \in 1 .. Len(body) : body[k] = b
      /\ IsStack(<<g>>) /\ Len(<<g>>) = 1 /\ <<g>>[1] = g
  BY SmallStacks
<1> HIDE DEF body
<1>4. Joined(body, <<g>>, fs)
  BY <1>3, StackConcat
<1> HIDE DEF fs
<1>5. /\ IsStack(fs) /\ Len(fs) = Len(body) + 1 /\ fs[Len(fs)] = g
      /\ \A k \in 1 .. Len(body) : fs[k] = b
  BY <1>3, <1>4 DEF Joined
<1>6. \A k \in 1 .. Len(fs) : fs[k] = b \/ fs[k] = g
  BY <1>3, <1>5
<1>7. fs # <<>>
  BY <1>3, <1>5, StackElements
<1> QED
  BY <1>1, <1>2, <1>5, <1>6, <1>7, Zenon DEF fs, body, b, g, found, Frames, AreFrames

LEMMA LookupGood ==
    ASSUME NEW x, NEW c, NEW w, Good(x, c, w), x.stack # <<>>, x.stack[1].kind = "table"
    PROVE  Good(LookupTable(x), c, w)
<1> DEFINE f == x.stack[1]
           y == LookupTable(x)
<1>1. Top(x) = f /\ Shape(f) /\ ThreadShape(x) /\ IsStack(x.stack)
  BY TopIs DEF Good, ThreadShape
<1>2. ~AtBottom(x)
  BY DEF AtBottom, Based
<1>3. CASE f.depth < MaxRecursion
  <2> DEFINE z == Compared(Loaded(x, f), f)
             fs == Frames(z, f)
             v == Replace(z, fs)
             g == fs[Len(fs)]
  <2>1. y = [v EXCEPT !.seen = v.seen \cup {f.table}]
    BY <1>1, <1>3 DEF LookupTable, Entered, Frames
  <2>2. /\ ThreadShape(z) /\ z.stack = x.stack
        /\ z.exit = x.exit /\ z.seen = x.seen /\ z.owed = x.owed
        /\ z.diverted = x.diverted /\ z.cut = x.cut
        /\ f.table # Egress => z.judged = x.judged
    BY <1>1, ComparedIs
  <2> HIDE DEF z, y
  <2>3. /\ IsStack(fs) /\ fs # <<>>
        /\ \A k \in 1 .. Len(fs) : Shape(fs[k]) /\ fs[k].kind # "mod"
        /\ g.kind = "next" /\ g.table = f.table
    <3> HIDE DEF f
    <3>1. AreFrames(Frames(z, f), f)
      BY <1>1, LookupFrames DEF f
    <3> QED
      BY <3>1 DEF AreFrames
  <2> HIDE DEF fs
  <2>4. DOMAIN v = DOMAIN Idle /\ Replaced(x.stack, fs, v.stack) /\ Alike(z, v)
    BY <2>2, <2>3, ReplaceIs
  <2> HIDE DEF v
  <2>5. /\ y.seen = x.seen \cup {f.table} /\ y.stack = v.stack
        /\ f.table # Egress => y.judged = x.judged
    BY <2>1, <2>2, <2>4, IdleFields DEF Alike
  <2>6. Steps(x, y, fs)
    BY <2>1, <2>2, <2>3, <2>4, IdleFields DEF Steps, Alike, Good, ThreadShape
  <2>7. At(y.stack, Len(x.stack)) = g /\ y.stack # <<>> /\ Replaced(x.stack, fs, y.stack)
    BY <1>1, <2>3, <2>4, <2>5, LastFrame
  <2>8. Len(y.stack) = Len(fs) + Len(x.stack) - 1 /\ Len(fs) \in Nat /\ Len(fs) >= 1
    BY <2>3, <2>7, StackElements DEF Replaced
  <2> HIDE DEF g
  <2>9. ASSUME InWalk(x) PROVE Ingress(y, w)
    <3>1. Len(y.stack) >= 2 /\ At(y.stack, 1) = At(x.stack, 1) /\ At(y.stack, 2) = g
      BY <2>7, <2>8, <2>9 DEF InWalk, Replaced
    <3>2. At(x.stack, 1) = x.stack[2]
      BY <2>9 DEF InWalk, At
    <3>3. IngressWalk(y, g)
      BY <2>3, <2>5, <2>9, TablesAssumption DEF InWalk, IngressWalk
    <3>4. Based(y, x.stack[2])
      BY <2>6, <2>9, <3>1, <3>3 DEF InWalk, Based, Steps
    <3> QED
      BY <2>7, <3>1, <3>2, <3>4 DEF Ingress
  <2>10. \/ y.judged = x.judged /\ ~EgressWalk(x, f)
         \/ EgressWalked(y, w)
    <3>1. ASSUME f.table = Egress \/ EgressWalk(x, f) PROVE EgressWalked(y, w)
      <4>1. EgressWalk(y, g)
        <5>1. CASE f.table = Egress
          BY <2>3, <2>5, <5>1, TablesAssumption DEF EgressWalk
        <5>2. CASE EgressWalk(x, f)
          BY <2>3, <2>5, <5>2, TablesAssumption DEF EgressWalk
        <5> QED
          BY <3>1, <5>1, <5>2
      <4>2. \E k \in DOMAIN y.stack : y.stack[k] = g
        <5>1. y.stack[Len(fs)] = g /\ IsStack(y.stack)
          BY <2>7, <2>8 DEF Replaced, g
        <5>2. Len(fs) \in DOMAIN y.stack
          BY <1>1, <2>8, <5>1, StackElements
        <5> QED
          BY <5>1, <5>2
      <4> QED
        BY <4>1, <4>2 DEF EgressWalked
    <3> QED
      BY <2>5, <3>1
  <2>11. \A k \in 1 .. Len(fs) : ModReached(fs[k], c, w)
    BY <2>3 DEF ModReached
  <2> QED
    BY <1>2, <2>6, <2>9, <2>10, <2>11, GoodStep DEF y
<1>4. CASE ~(f.depth < MaxRecursion)
  <2> DEFINE z == Loaded(x, f)
             v == Replace(z, <<>>)
  <2>1. y = [v EXCEPT !.cut = TRUE]
    BY <1>1, <1>4 DEF LookupTable, Return
  <2>2. /\ ThreadShape(z) /\ z.stack = x.stack /\ z.exit = x.exit /\ z.seen = x.seen
        /\ z.owed = x.owed /\ z.diverted = x.diverted
    BY <1>1, IdleFields DEF Loaded, ThreadShape
  <2> HIDE DEF z, y
  <2>3. IsStack(<<>>) /\ Len(<<>>) = 0
    BY SmallStacks
  <2>4. DOMAIN v = DOMAIN Idle /\ Replaced(x.stack, <<>>, v.stack) /\ Alike(z, v)
    BY <2>2, <2>3, ReplaceIs
  <2> HIDE DEF v
  <2>5. Steps(x, y, <<>>) /\ y.cut
    BY <2>1, <2>2, <2>3, <2>4, IdleFields DEF Steps, Alike, Good, ThreadShape
  <2>6. Ingress(y, w) /\ EgressWalked(y, w)
    BY <2>5 DEF Ingress, Undisturbed, EgressWalked
  <2>7. \A k \in 1 .. Len(<<>>) : ModReached(<<>>[k], c, w)
    BY <2>3
  <2> QED
    BY <2>5, <2>6, <2>7, GoodStep DEF y
<1> QED
  BY <1>3, <1>4

\* A step that only replaces the running frame.
LEMMA ReplaceSteps ==
    ASSUME NEW x, NEW fs, NEW c, NEW w, Good(x, c, w), x.stack # <<>>, IsStack(fs),
           \A k \in 1 .. Len(fs) : Shape(fs[k])
    PROVE  /\ Steps(x, Replace(x, fs), fs)
           /\ Replace(x, fs).judged = x.judged /\ Replace(x, fs).seen = x.seen
BY ReplaceIs DEF Steps, Alike, Good, ThreadShape

LEMMA ContinuedGood ==
    ASSUME NEW x, NEW w, Good(x, counter, w), x.stack # <<>>, x.stack[1].kind = "next",
           counter \in [Spec_ -> 0 .. Width - 1]
    PROVE  Good(Continued(x), counter, w)
<1> DEFINE f == x.stack[1]
           t == NextTable(f.table)
           g == Call(t[1], f.depth, f.may_packet_in, "kept")
           fs == IF t = <<>> THEN <<>> ELSE <<g>>
           y == Replace(x, fs)
<1>1. Top(x) = f /\ IsStack(x.stack)
  BY TopIs DEF Good, ThreadShape
<1>2. Continued(x) = y
  BY <1>1 DEF Continued
<1>3. Shape(g) /\ g.kind = "table" /\ g.table = t[1]
  BY CallIs
<1>4. counter["INGRESS"] \in Nat /\ counter["EGRESS"] \in Nat
  BY TablesAssumption DEF Spec_
<1>5. t # <<>> => t = <<t[1]>>
  BY DEF NextTable
<1> HIDE DEF t, g
<1>6. /\ IsStack(fs) /\ \A k \in 1 .. Len(fs) : fs[k] = g
      /\ t = <<>> => Len(fs) = 0
      /\ t # <<>> => Len(fs) = 1
  BY SmallStacks
<1> HIDE DEF fs
<1>7. \A k \in 1 .. Len(fs) : Shape(fs[k]) /\ ModReached(fs[k], counter, w)
  BY <1>3, <1>6 DEF ModReached
<1>8. Steps(x, y, fs) /\ y.judged = x.judged /\ y.seen = x.seen
  BY <1>6, <1>7, ReplaceSteps
<1> HIDE DEF y
<1>9. Replaced(x.stack, fs, y.stack) /\ y.owed = x.owed
  BY <1>8 DEF Steps
<1>10. ~AtBottom(x)
  BY DEF AtBottom, Based
<1>11. \A u \in x.owed : u \in Nat /\ u <= Internal /\ Reached(u, counter, w)
  BY TablesAssumption DEF Good, Table
<1>12. ASSUME InWalk(x), Undisturbed(y, w) PROVE Ingress(y, w)
  <2>1. f.table \in 1 .. Production - 1 /\ 0 .. f.table \subseteq y.seen
    BY <1>8, <1>12 DEF InWalk, IngressWalk
  <2>2. t = << IF f.table < counter["INGRESS"] THEN f.table + 1 ELSE Production >>
    BY <2>1, TablesAssumption DEF t, NextTable, IsIngress
  <2>3. CASE f.table < counter["INGRESS"] /\ f.table + 1 < Production
    <3>1. g.table = f.table + 1 /\ Len(fs) = 1
      BY <1>3, <1>6, <2>2, <2>3
    <3>2. IngressWalk(y, g)
      BY <1>3, <2>1, <2>3, <3>1, TablesAssumption DEF IngressWalk
    <3>3. Len(y.stack) = 2 /\ At(y.stack, 1) = At(x.stack, 1) /\ y.stack[1] = g
      BY <1>6, <1>9, <1>12, <3>1 DEF Replaced, InWalk
    <3>4. At(x.stack, 1) = x.stack[2] /\ At(y.stack, 2) = g
      BY <1>12, <3>3 DEF InWalk, At
    <3>5. Based(y, x.stack[2])
      BY <1>8, <1>12, <3>2, <3>3, <3>4 DEF InWalk, Based, Steps
    <3> QED
      BY <3>3, <3>4, <3>5 DEF Ingress
  <2>4. CASE ~(f.table < counter["INGRESS"] /\ f.table + 1 < Production)
    <3>1. ASSUME NEW u \in IngressOwed(y) PROVE u \in y.seen
      <4>1. u \in Nat /\ u < Production /\ u <= counter["INGRESS"]
        BY <1>9, <1>11, <1>12 DEF IngressOwed, Reached, IsIngress, Undisturbed
      <4>2. u <= f.table
        BY <1>4, <2>1, <2>4, <4>1, TablesAssumption
      <4>3. u \in 0 .. f.table
        BY <2>1, <4>1, <4>2, TablesAssumption
      <4> QED
        BY <2>1, <4>3
    <3> QED
      BY <3>1 DEF Ingress
  <2> QED
    BY <2>3, <2>4
<1>13. ASSUME EgressWalk(x, f) PROVE EgressWalked(y, w)
  <2>1. f.table \in Egress .. Internal /\ Egress .. f.table \subseteq y.seen
    BY <1>8, <1>13 DEF EgressWalk
  <2>2. t = IF f.table < Internal /\ f.table - Egress < counter["EGRESS"] THEN <<f.table + 1>> ELSE <<>>
    BY <2>1, TablesAssumption DEF t, NextTable, IsIngress, IsEgress
  <2>3. CASE f.table < Internal /\ f.table - Egress < counter["EGRESS"]
    <3>1. g.table = f.table + 1 /\ Len(fs) = 1
      BY <1>3, <1>6, <2>2, <2>3
    <3>2. EgressWalk(y, g)
      BY <1>3, <2>1, <2>3, <3>1, TablesAssumption DEF EgressWalk
    <3>3. y.stack[1] = g /\ 1 \in DOMAIN y.stack
      <4>1. y.stack[1] = g /\ Len(y.stack) = Len(x.stack) /\ IsStack(y.stack)
        BY <1>1, <1>6, <1>9, <3>1, StackElements DEF Replaced
      <4>2. Len(x.stack) \in Nat /\ Len(x.stack) >= 1
        BY <1>1, StackElements
      <4>3. DOMAIN y.stack = 1 .. Len(y.stack)
        BY <4>1, StackElements
      <4> QED
        BY <4>1, <4>2, <4>3
    <3> QED
      BY <3>2, <3>3 DEF EgressWalked
  <2>4. CASE ~(f.table < Internal /\ f.table - Egress < counter["EGRESS"])
    <3>1. ASSUME NEW u \in EgressOwed(y), "EGRESS" \notin w PROVE u \in y.seen
      <4>1. u \in Nat /\ Egress <= u /\ u < Internal /\ u - Egress <= counter["EGRESS"]
        BY <1>9, <1>11, <3>1 DEF EgressOwed, Reached, IsEgress
      <4>2. u <= f.table
        BY <1>4, <2>1, <2>4, <4>1, TablesAssumption
      <4>3. u \in Egress .. f.table
        BY <2>1, <4>1, <4>2, TablesAssumption
      <4> QED
        BY <2>1, <4>3
    <3> QED
      BY <3>1 DEF EgressWalked
  <2> QED
    BY <2>3, <2>4
<1> QED
  BY <1>2, <1>7, <1>8, <1>10, <1>12, <1>13, GoodStep

\* A step of do_xlate_actions() that leaves frame g to do the rest of the actions.
LEMMA ActionGood ==
    ASSUME NEW x, NEW y, NEW fs, NEW c, NEW w, Good(x, c, w), x.stack # <<>>,
           x.stack[1].kind = "acts", Steps(x, y, fs), y.judged = x.judged, fs # <<>>,
           \A k \in 1 .. Len(fs) : ModReached(fs[k], c, w),
           NEW g, g = fs[Len(fs)], g.kind = "acts", g.table = x.stack[1].table,
           g.rule = x.stack[1].rule,
           g.table = 0 /\ g.resubmit_done /\ ~y.diverted => x.stack[1].resubmit_done
    PROVE  Good(y, c, w)
<1> DEFINE f == x.stack[1]
<1>1. IsStack(x.stack) /\ IsStack(fs) /\ Replaced(x.stack, fs, y.stack)
  BY DEF Good, ThreadShape, Steps
<1>2. At(y.stack, Len(x.stack)) = g /\ y.stack # <<>>
  BY <1>1, LastFrame
<1>3. ASSUME AtBottom(x), Undisturbed(y, w) PROVE Ingress(y, w)
  <2>1. Len(x.stack) = 1 /\ Based(x, f) /\ ~f.resubmit_done
    BY <1>3 DEF AtBottom, Based
  <2>2. Based(y, g)
    BY <1>3, <2>1, ZenonT(30) DEF Based, Steps, Undisturbed
  <2> QED
    BY <1>2, <2>1, <2>2 DEF Ingress
<1>4. ~InWalk(x) /\ ~EgressWalk(x, f)
  BY DEF InWalk, IngressWalk, EgressWalk
<1> QED
  BY <1>3, <1>4, GoodStep

\* The calls an action makes.
LEMMA CallsOf ==
    ASSUME NEW a, NEW f
    PROVE  /\ \/ Resubmits(a, f) = <<>>
              \/ \E t, d, m, s : Resubmits(a, f) = <<Call(t, d, m, s)>>
           /\ \/ do_xlate_egress_action(a, f) = <<>>
              \/ \E t, d, m, s : do_xlate_egress_action(a, f) = <<Call(t, d, m, s)>>
<1>1. \/ Resubmits(a, f) = <<>>
      \/ \E t, d, m, s : Resubmits(a, f) = <<Call(t, d, m, s)>>
  BY Zenon DEF Resubmits, Outputs
<1>2. \/ do_xlate_egress_action(a, f) = <<>>
      \/ \E t, d, m, s : do_xlate_egress_action(a, f) = <<Call(t, d, m, s)>>
  BY Zenon DEF do_xlate_egress_action
<1> QED
  BY <1>1, <1>2

\* No call, or one.
Calls(r) == r = <<>> \/ \E t, d, m, s : r = <<Call(t, d, m, s)>>

LEMMA CallsAre ==
    ASSUME NEW r, Calls(r)
    PROVE  IsStack(r) /\ \A k \in 1 .. Len(r) : Shape(r[k]) /\ r[k].kind = "table"
<1>1. CASE r = <<>>
  BY <1>1, SmallStacks
<1>2. CASE \E t, d, m, s : r = <<Call(t, d, m, s)>>
  <2>1. PICK t, d, m, s : r = <<Call(t, d, m, s)>>
    BY <1>2
  <2> DEFINE g == Call(t, d, m, s)
  <2>2. Shape(g) /\ g.kind = "table"
    BY CallIs
  <2> HIDE DEF g
  <2>3. IsStack(<<g>>) /\ Len(<<g>>) = 1 /\ <<g>>[1] = g
    BY SmallStacks
  <2> QED
    BY <2>1, <2>2, <2>3 DEF g
<1> QED
  BY <1>1, <1>2 DEF Calls

\* Calls above a frame g.
Above(fs, g) ==
    /\ IsStack(fs) /\ fs # <<>> /\ fs[Len(fs)] = g
    /\ \A k \in 1 .. Len(fs) : Shape(fs[k]) /\ fs[k].kind # "mod"

LEMMA CallsAbove ==
    ASSUME NEW r, NEW e, NEW g, Calls(r), Calls(e), Shape(g), g.kind = "acts"
    PROVE  Above(r \o e \o <<g>>, g)
<1> DEFINE q == r \o e
           fs == q \o <<g>>
<1>1. /\ IsStack(r) /\ \A k \in 1 .. Len(r) : Shape(r[k]) /\ r[k].kind = "table"
      /\ IsStack(e) /\ \A k \in 1 .. Len(e) : Shape(e[k]) /\ e[k].kind = "table"
  BY CallsAre
<1>2. Joined(r, e, q)
  BY <1>1, StackConcat
<1> HIDE DEF q
<1>3. Len(r) \in Nat /\ Len(e) \in Nat
  BY <1>1, StackElements
<1>4. /\ IsStack(q) /\ Len(q) = Len(r) + Len(e)
      /\ \A k \in 1 .. Len(q) : Shape(q[k]) /\ q[k].kind = "table"
  <2>1. /\ IsStack(q) /\ Len(q) = Len(r) + Len(e)
        /\ \A k \in 1 .. Len(r) : q[k] = r[k]
        /\ \A k \in 1 .. Len(e) : q[Len(r) + k] = e[k]
    BY <1>2 DEF Joined
  <2>2. ASSUME NEW k \in 1 .. Len(q) PROVE Shape(q[k]) /\ q[k].kind = "table"
    <3>1. CASE k <= Len(r)
      <4>1. k \in 1 .. Len(r)
        BY <1>3, <3>1
      <4> QED
        BY <1>1, <2>1, <4>1
    <3>2. CASE ~(k <= Len(r))
      <4>1. k - Len(r) \in 1 .. Len(e) /\ Len(r) + (k - Len(r)) = k
        BY <1>3, <2>1, <3>2
      <4>2. q[k] = e[k - Len(r)]
        BY <2>1, <4>1
      <4> QED
        BY <1>1, <4>1, <4>2
    <3> QED
      BY <3>1, <3>2
  <2> QED
    BY <2>1, <2>2
<1>5. IsStack(<<g>>) /\ Len(<<g>>) = 1 /\ <<g>>[1] = g
  BY SmallStacks
<1>6. Joined(q, <<g>>, fs)
  BY <1>4, <1>5, StackConcat
<1> HIDE DEF fs
<1>7. /\ IsStack(fs) /\ Len(fs) = Len(q) + 1 /\ fs[Len(fs)] = g
      /\ \A k \in 1 .. Len(q) : fs[k] = q[k]
  BY <1>5, <1>6 DEF Joined
<1>8. Len(q) \in Nat /\ fs # <<>>
  BY <1>4, <1>7, StackElements
<1>9. ASSUME NEW k \in 1 .. Len(fs) PROVE Shape(fs[k]) /\ fs[k].kind # "mod"
  <2>1. k \in 1 .. Len(q) \/ k = Len(fs)
    BY <1>7, <1>8
  <2> QED
    BY <1>4, <1>7, <2>1
<1> QED
  BY <1>7, <1>8, <1>9 DEF fs, q, Above

\* The frame that does the rest of the actions.
RestOf(g, f, done) ==
    /\ Shape(g) /\ g.kind = "acts" /\ g.table = f.table /\ g.rule = f.rule
    /\ g.resubmit_done = done

LEMMA RestIs ==
    ASSUME NEW f, NEW acts, NEW done \in BOOLEAN, Shape(f), f.kind = "acts"
    PROVE  /\ RestOf([f EXCEPT !.acts = acts, !.resubmit_done = done], f, done)
           /\ RestOf([f EXCEPT !.acts = acts], f, f.resubmit_done)
           /\ RestOf([f EXCEPT !.drop = FALSE], f, f.resubmit_done)
           /\ RestOf([f EXCEPT !.resubmit_done = TRUE], f, TRUE)
<1>1. RestOf([f EXCEPT !.acts = acts, !.resubmit_done = done], f, done)
  BY DEF RestOf, Shape
<1>2. RestOf([f EXCEPT !.acts = acts], f, f.resubmit_done)
  BY DEF RestOf, Shape
<1>3. RestOf([f EXCEPT !.drop = FALSE], f, f.resubmit_done)
  BY DEF RestOf, Shape
<1>4. RestOf([f EXCEPT !.resubmit_done = TRUE], f, TRUE)
  BY Zenon DEF RestOf, Shape
<1> QED
  BY <1>1, <1>2, <1>3, <1>4, Zenon

LEMMA ExecutedGood ==
    ASSUME NEW x, NEW c, NEW w, Good(x, c, w), x.stack # <<>>, x.stack[1].kind = "acts"
    PROVE  Good(Executed(x), c, w)
<1> DEFINE f == x.stack[1]
           a == Head(f.acts)
           done == f.resubmit_done \/ a.type = "resubmit"
           rest == [f EXCEPT !.acts = Tail(f.acts), !.resubmit_done = done]
           fs == Resubmits(a, f) \o do_xlate_egress_action(a, f) \o <<rest>>
           z == Replace(x, fs)
           y == Executed(x)
<1>1. Top(x) = f /\ IsStack(x.stack) /\ Shape(f) /\ ThreadShape(x)
  BY TopIs DEF Good, ThreadShape
<1>2. y = [z EXCEPT !.exit = z.exit \/ a.type = "exit",
                    !.slow = z.slow \/ a.type = "increment" \/ SendsPacketIn(a),
                    !.reg = IF a.type = "load" THEN x.src ELSE z.reg,
                    !.src = IF a.type = "set_src" THEN Blank ELSE z.src,
                    !.diverted = z.diverted \/ (f.table = 0 /\ a.type = "resubmit")]
  BY <1>1 DEF Executed
<1>3. /\ Shape(rest) /\ rest.kind = "acts" /\ rest.table = f.table /\ rest.rule = f.rule
      /\ rest.resubmit_done = done
  <2>1. done \in BOOLEAN /\ f.kind = "acts"
    OBVIOUS
  <2> HIDE DEF done, f
  <2>2. RestOf(rest, f, done)
    BY <1>1, <2>1, RestIs, Zenon
  <2> QED
    BY <2>2 DEF RestOf
<1> HIDE DEF rest, y
<1>4. /\ IsStack(fs) /\ fs # <<>> /\ fs[Len(fs)] = rest
      /\ \A k \in 1 .. Len(fs) : Shape(fs[k]) /\ fs[k].kind # "mod"
  <2>1. Calls(Resubmits(a, f)) /\ Calls(do_xlate_egress_action(a, f))
    <3> HIDE DEF a, f
    <3> QED
      BY CallsOf DEF Calls
  <2> QED
    <3>1. Above(fs, rest)
      BY <1>3, <2>1, CallsAbove
    <3> QED
      BY <3>1, ZenonT(30) DEF Above
<1> HIDE DEF fs
<1>5. DOMAIN z = DOMAIN Idle /\ Replaced(x.stack, fs, z.stack) /\ Alike(x, z)
  BY <1>1, <1>4, ReplaceIs
<1> HIDE DEF z
<1>6. /\ DOMAIN y = DOMAIN Idle /\ y.stack = z.stack /\ y.owed = x.owed /\ y.seen = x.seen
      /\ y.cut = x.cut /\ y.judged = x.judged
      /\ y.exit = (x.exit \/ a.type = "exit")
      /\ y.diverted = (x.diverted \/ (f.table = 0 /\ a.type = "resubmit"))
  BY <1>2, <1>5, IdleFields DEF Alike
<1>7. Steps(x, y, fs)
  BY <1>1, <1>4, <1>5, <1>6 DEF Steps, ThreadShape
<1>8. \A k \in 1 .. Len(fs) : ModReached(fs[k], c, w)
  BY <1>4 DEF ModReached
<1>9. rest.table = 0 /\ rest.resubmit_done /\ ~y.diverted => f.resubmit_done
  BY <1>3, <1>6, Zenon
<1> QED
  BY <1>3, <1>4, <1>6, <1>7, <1>8, <1>9, ActionGood, ZenonT(30) DEF y

\* An egress table number that overflows is no egress table.
LEMMA EgressNumber ==
    ASSUME NEW n \in 0 .. Width - 1, IsEgress((Egress + n) % Width)
    PROVE  (Egress + n) % Width = Egress + n
<1> DEFINE s == Egress + n
<1>1. Width \in Nat /\ Width > 0 /\ s \in Nat /\ s < Width + Egress /\ Egress < Width
  BY TablesAssumption
<1>2. CASE s < Width
  <2> HIDE DEF s
  <2>1. s % Width = s
    BY <1>1, <1>2
  <2> QED
    BY <2>1 DEF s
<1>3. CASE s >= Width
  <2> HIDE DEF s
  <2>1. s % Width = s - Width
    BY <1>1, <1>3, TablesAssumption
  <2>2. s % Width < Egress
    BY <1>1, <2>1, TablesAssumption
  <2> QED
    BY <2>1, <2>2, TablesAssumption DEF s, IsEgress
<1> QED
  BY <1>1, <1>2, <1>3

\* A flow_mod of learn_learn goes to a table that the counter has reached.
LEMMA LearnTableReached ==
    ASSUME NEW a, NEW f, NEW w, counter \in [Spec_ -> 0 .. Width - 1]
    PROVE  ModReached(FlowMod(LearnTable(a, f), a), counter, w)
<1> DEFINE t == LearnTable(a, f)
           g == FlowMod(t, a)
<1>1. g.table = t /\ g.act = a
  BY DEF FlowMod
<1>2. counter["INGRESS"] \in 0 .. Width - 1 /\ counter["EGRESS"] \in 0 .. Width - 1
  BY DEF Spec_
<1>3. CASE a.spec = "INGRESS" /\ IsIngress(t)
  <2>1. t = counter["INGRESS"]
    BY <1>3 DEF LearnTable
  <2> QED
    BY <1>1, <1>2, <1>3, <2>1, TablesAssumption DEF ModReached, Reached, IsIngress, IsEgress
<1>4. CASE a.spec = "EGRESS" /\ IsEgress(t)
  <2>1. t = (Egress + counter["EGRESS"]) % Width
    BY <1>4 DEF LearnTable
  <2>2. t = Egress + counter["EGRESS"]
    BY <1>2, <1>4, <2>1, EgressNumber
  <2> HIDE DEF t, g
  <2>3. t \in Nat /\ ~(t < Production) /\ t - Egress <= counter["EGRESS"]
    BY <1>2, <2>2, TablesAssumption
  <2>4. ModReached(g, counter, w)
    BY <1>1, <2>3 DEF ModReached, Reached, IsIngress
  <2> QED
    BY <2>4 DEF g, t
<1> QED
  BY <1>1, <1>3, <1>4 DEF ModReached, InBlock

LEMMA TwoFrames ==
    ASSUME NEW f, NEW g, NEW c, NEW w, Shape(f), Shape(g), ModReached(f, c, w), ModReached(g, c, w)
    PROVE  /\ <<f, g>> # <<>>
           /\ \A k \in 1 .. Len(<<f, g>>) : Shape(<<f, g>>[k]) /\ ModReached(<<f, g>>[k], c, w)
<1>1. IsStack(<<f, g>>) /\ Len(<<f, g>>) = 2 /\ <<f, g>>[1] = f /\ <<f, g>>[2] = g
  BY SmallStacks
<1>2. <<f, g>> # <<>>
  OBVIOUS
<1>3. \A k \in 1 .. 2 : k = 1 \/ k = 2
  OBVIOUS
<1> QED
  BY <1>1, <1>2, <1>3, Zenon

LEMMA ComposedGood ==
    ASSUME NEW x, NEW w, Good(x, counter, w), x.stack # <<>>, x.stack[1].kind = "acts",
           counter \in [Spec_ -> 0 .. Width - 1]
    PROVE  Good(Composed(x), counter, w)
<1> DEFINE f == x.stack[1]
           a == Head(f.acts)
           m == FlowMod(LearnTable(a, f), a)
           rest == [f EXCEPT !.acts = Tail(f.acts)]
           fs == <<m, rest>>
           y == Replace(x, fs)
<1>1. Top(x) = f /\ IsStack(x.stack) /\ Shape(f)
  BY TopIs DEF Good, ThreadShape
<1>2. Composed(x) = y
  BY <1>1 DEF Composed
<1>3. /\ Shape(rest) /\ rest.kind = "acts" /\ rest.table = f.table /\ rest.rule = f.rule
      /\ rest.resubmit_done = f.resubmit_done
  <2>1. f.kind = "acts" /\ TRUE \in BOOLEAN
    OBVIOUS
  <2> HIDE DEF f
  <2>2. RestOf(rest, f, f.resubmit_done)
    BY <1>1, <2>1, RestIs, ZenonT(30)
  <2> QED
    BY <2>2 DEF RestOf
<1>4. Shape(m)
  BY DEF FlowMod, Shape
<1>5. ModReached(m, counter, w) /\ ModReached(rest, counter, w)
  <2>1. ModReached(m, counter, w)
    BY LearnTableReached
  <2> QED
    BY <1>3, <2>1, Zenon DEF ModReached
<1> HIDE DEF m, rest
<1>6. IsStack(fs) /\ Len(fs) = 2 /\ fs[1] = m /\ fs[2] = rest
  BY SmallStacks
<1>7. fs # <<>> /\ \A k \in 1 .. Len(fs) : Shape(fs[k]) /\ ModReached(fs[k], counter, w)
  BY <1>3, <1>4, <1>5, TwoFrames, ZenonT(30)
<1> HIDE DEF fs
<1>8. Steps(x, y, fs) /\ y.judged = x.judged
  BY <1>6, <1>7, ReplaceSteps
<1> HIDE DEF y
<1> QED
  BY <1>2, <1>3, <1>6, <1>7, <1>8, ActionGood, ZenonT(30)

\* Leaving a function whose frame has no walk in it.
LEMMA ReturnGood ==
    ASSUME NEW x, NEW c, NEW w, Good(x, c, w), x.stack # <<>>,
           x.stack[1].kind \notin {"table", "next"}, ~AtBottom(x)
    PROVE  Good(Return(x), c, w)
<1> DEFINE y == Replace(x, <<>>)
<1>1. IsStack(<<>>) /\ Len(<<>>) = 0
  BY SmallStacks
<1>2. \A k \in 1 .. Len(<<>>) : Shape(<<>>[k]) /\ ModReached(<<>>[k], c, w)
  BY <1>1
<1>3. Steps(x, y, <<>>) /\ y.judged = x.judged
  BY <1>1, <1>2, ReplaceSteps
<1> HIDE DEF y
<1>4. ~InWalk(x) /\ ~EgressWalk(x, x.stack[1])
  BY ZenonT(30) DEF InWalk, IngressWalk, EgressWalk
<1>5. Good(y, c, w)
  BY <1>2, <1>3, <1>4, GoodStep
<1> QED
  BY <1>5 DEF Return, y

\* Actions of table 0 that stop early leave the automatic resubmit.
LEMMA StoppedGood ==
    ASSUME NEW x, NEW c, NEW w, Good(x, c, w), x.stack # <<>>, x.stack[1].kind = "acts"
    PROVE  Good(Stopped(x), c, w)
<1> DEFINE f == x.stack[1]
           tells == Head(f.acts).spec = "CONTROLLER"
           z == Replace(x, <<>>)
           y == [z EXCEPT !.slow = z.slow \/ tells,
                          !.diverted = z.diverted \/ f.table = 0]
<1>1. Top(x) = f /\ IsStack(x.stack) /\ ThreadShape(x)
  BY TopIs, Zenon DEF Good, ThreadShape
<1>2. Stopped(x) = y
  BY <1>1 DEF Stopped, Return
<1>3. IsStack(<<>>) /\ Len(<<>>) = 0
  BY SmallStacks
<1>4. \A k \in 1 .. Len(<<>>) : Shape(<<>>[k]) /\ ModReached(<<>>[k], c, w)
  BY <1>3
<1>5. DOMAIN z = DOMAIN Idle /\ Replaced(x.stack, <<>>, z.stack) /\ Alike(x, z)
  BY <1>1, <1>3, ReplaceIs
<1> HIDE DEF z
<1>6. /\ DOMAIN y = DOMAIN Idle /\ y.stack = z.stack /\ y.owed = x.owed /\ y.seen = x.seen
      /\ y.cut = x.cut /\ y.judged = x.judged /\ y.exit = x.exit
      /\ y.diverted = (x.diverted \/ f.table = 0)
  BY <1>5, IdleFields DEF Alike
<1> HIDE DEF y
<1>7. Steps(x, y, <<>>)
  BY <1>1, <1>3, <1>4, <1>5, <1>6 DEF Steps, ThreadShape
<1>8. ~(Undisturbed(y, w) /\ AtBottom(x))
  BY <1>6, Zenon DEF Undisturbed, AtBottom, Based
<1>9. ~InWalk(x) /\ ~EgressWalk(x, f)
  BY ZenonT(30) DEF InWalk, IngressWalk, EgressWalk
<1>10. Good(y, c, w)
  BY <1>4, <1>6, <1>7, <1>8, <1>9, GoodStep, ZenonT(30)
<1> QED
  BY <1>2, <1>10

LEMMA EndedGood ==
    ASSUME NEW x, NEW c, NEW w, Good(x, c, w), x.stack # <<>>, x.stack[1].kind = "acts",
           x.exit \/ x.stack[1].acts = <<>>
    PROVE  Good(Ended(x), c, w)
<1> DEFINE f == x.stack[1]
<1>1. Top(x) = f /\ IsStack(x.stack) /\ Shape(f) /\ ThreadShape(x)
  BY TopIs, Zenon DEF Good, ThreadShape
<1>2. CASE f.drop /\ IsProduction(f.table)
  <2> DEFINE g == Call(Egress, f.depth, FALSE, "drop")
             rest == [f EXCEPT !.drop = FALSE]
             fs == <<g, rest>>
             y == Replace(x, fs)
  <2>1. Ended(x) = y
    BY <1>1, <1>2 DEF Ended
  <2>2. Shape(g) /\ g.kind = "table"
    BY DEF Call, Shape
  <2>3. /\ Shape(rest) /\ rest.kind = "acts" /\ rest.table = f.table /\ rest.rule = f.rule
        /\ rest.resubmit_done = f.resubmit_done
    <3>1. f.kind = "acts" /\ TRUE \in BOOLEAN
      OBVIOUS
    <3> HIDE DEF f
    <3>2. RestOf(rest, f, f.resubmit_done)
      BY <1>1, <3>1, RestIs, Zenon
    <3> QED
      BY <3>2 DEF RestOf
  <2> HIDE DEF g, rest
  <2>4. IsStack(fs) /\ Len(fs) = 2 /\ fs[1] = g /\ fs[2] = rest
    BY SmallStacks
  <2> HIDE DEF fs
  <2>5. fs # <<>> /\ \A k \in 1 .. Len(fs) : Shape(fs[k]) /\ ModReached(fs[k], c, w)
    <3>1. ModReached(g, c, w) /\ ModReached(rest, c, w)
      BY <2>2, <2>3, ZenonT(30) DEF ModReached
    <3> QED
      BY <2>2, <2>3, <3>1, TwoFrames DEF fs
  <2>6. DOMAIN y = DOMAIN Idle /\ Replaced(x.stack, fs, y.stack) /\ Alike(x, y)
    BY <1>1, <2>4, ReplaceIs
  <2> HIDE DEF y
  <2>7. Steps(x, y, fs) /\ y.judged = x.judged
    BY <1>1, <2>4, <2>5, <2>6, ZenonT(30) DEF Steps, Alike, ThreadShape
  <2> HIDE DEF y
  <2> QED
    BY <2>1, <2>3, <2>4, <2>5, <2>7, ActionGood, Zenon
<1>3. CASE ~(f.drop /\ IsProduction(f.table)) /\ f.table = 0 /\ ~f.resubmit_done /\ f.rule
  <2> DEFINE g == Call(1, f.depth, FALSE, "kept")
             rest == [f EXCEPT !.resubmit_done = TRUE]
             fs == <<g, rest>>
             y == Replace(x, fs)
  <2>1. Ended(x) = y
    BY <1>1, <1>3 DEF Ended
  <2>2. Shape(g) /\ g.kind = "table" /\ g.table = 1
    BY DEF Call, Shape
  <2>3. /\ Shape(rest) /\ rest.kind = "acts" /\ rest.table = 0 /\ rest.rule
        /\ rest.acts = f.acts
    BY <1>1, <1>3, Zenon DEF Shape
  <2> HIDE DEF g, rest
  <2>4. IsStack(fs) /\ Len(fs) = 2 /\ fs[1] = g /\ fs[2] = rest
    BY SmallStacks
  <2> HIDE DEF fs
  <2>5. fs # <<>> /\ \A k \in 1 .. Len(fs) : Shape(fs[k]) /\ ModReached(fs[k], c, w)
    <3>1. ModReached(g, c, w) /\ ModReached(rest, c, w)
      BY <2>2, <2>3, ZenonT(30) DEF ModReached
    <3> QED
      BY <2>2, <2>3, <3>1, TwoFrames, Zenon DEF fs
  <2>6. Steps(x, y, fs) /\ y.judged = x.judged /\ y.seen = x.seen
    BY <2>4, <2>5, ReplaceSteps
  <2>7. y.exit = x.exit
    BY <1>1, <2>4, ReplaceIs DEF Alike
  <2> HIDE DEF y
  <2>8. ASSUME AtBottom(x) PROVE Ingress(y, w)
    <3>1. Len(x.stack) = 1 /\ Based(x, f)
      BY <2>8, ZenonT(30) DEF AtBottom
    <3>2. Len(y.stack) = 2 /\ y.stack[1] = g /\ y.stack[2] = rest
      BY <2>4, <2>6, <3>1 DEF Steps, Replaced
    <3>3. At(y.stack, 1) = rest /\ At(y.stack, 2) = g /\ y.stack # <<>>
      BY <3>2 DEF At
    <3>4. 0 .. g.table - 1 \subseteq y.seen
      BY <2>2, <2>6, <3>1 DEF Based
    <3>5. IngressWalk(y, g)
      BY <2>2, <3>4, TablesAssumption DEF IngressWalk
    <3>6. Based(y, rest)
      BY <2>3, <2>6, <2>7, <3>1, <3>2, <3>3, <3>5 DEF Based
    <3> QED
      BY <3>3, <3>6 DEF Ingress
  <2>9. ~InWalk(x) /\ ~EgressWalk(x, x.stack[1])
    BY DEF InWalk, IngressWalk, EgressWalk
  <2> QED
    BY <2>1, <2>5, <2>6, <2>8, <2>9, GoodStep
<1>4. CASE ~(f.drop /\ IsProduction(f.table)) /\ ~(f.table = 0 /\ ~f.resubmit_done /\ f.rule)
  <2>1. Ended(x) = Return(x)
    BY <1>1, <1>4 DEF Ended
  <2>2. ~AtBottom(x)
    <3> SUFFICES ASSUME AtBottom(x) PROVE FALSE
      OBVIOUS
    <3>1. f.table = 0 /\ f.rule /\ ~f.resubmit_done
      BY DEF AtBottom, Based
    <3> QED
      BY <1>4, <3>1
  <2> QED
    BY <2>1, <2>2, ReturnGood
<1> QED
  BY <1>2, <1>3, <1>4, Zenon

\* A deleted flow is owed no more.
LEMMA ForgetsGood ==
    ASSUME NEW x, NEW c, NEW w, Good(x, c, w), NEW a, NEW tables
    PROVE  Good(Forgets(x, a, tables), c, w)
<1> DEFINE y == Forgets(x, a, tables)
<1>1. /\ DOMAIN y = DOMAIN Idle /\ y.stack = x.stack /\ y.exit = x.exit /\ y.seen = x.seen
      /\ y.judged = x.judged /\ y.diverted = x.diverted /\ y.cut = x.cut
      /\ y.owed \subseteq x.owed
  BY IdleFields DEF Forgets, Good, ThreadShape
<1> HIDE DEF y
<1>2. ThreadShape(y)
  BY <1>1, ZenonT(30) DEF Good, ThreadShape
<1>3. Ingress(y, w)
  <2>1. Undisturbed(y, w) = Undisturbed(x, w) /\ IngressOwed(y) \subseteq IngressOwed(x)
    BY <1>1 DEF Undisturbed, IngressOwed
  <2>2. ASSUME NEW b, Based(x, b) PROVE Based(y, b)
    BY <1>1, <2>2, ZenonT(30) DEF Based, IngressWalk
  <2> QED
    BY <1>1, <2>1, <2>2 DEF Good, Ingress
<1>4. EgressWalked(y, w)
  BY <1>1 DEF Good, EgressWalked, EgressWalk, EgressOwed
<1>5. (\A u \in y.owed : u \in Table /\ Reached(u, c, w)) /\ \A k \in DOMAIN y.stack : ModReached(y.stack[k], c, w)
  BY <1>1 DEF Good
<1> QED
  BY <1>2, <1>3, <1>4, <1>5 DEF Good, y

\* A counter that moves on leaves behind the tables it has reached.
LEMMA CounterGood ==
    ASSUME NEW x, NEW c, NEW w, NEW d, NEW v, Good(x, c, w), w \subseteq v,
           \A t \in Nat : Reached(t, c, w) => Reached(t, d, v)
    PROVE  Good(x, d, v)
<1>1. Ingress(x, v) /\ EgressWalked(x, v)
  BY DEF Good, Ingress, Undisturbed, EgressWalked
<1>2. \A t \in x.owed : t \in Table /\ Reached(t, d, v)
  BY TablesAssumption DEF Good, Table
<1>3. \A k \in DOMAIN x.stack : ModReached(x.stack[k], d, v)
  BY DEF Good, ModReached
<1> QED
  BY <1>1, <1>2, <1>3, ZenonT(30) DEF Good

LEMMA IdleGood ==
    ASSUME NEW c, NEW w
    PROVE  Good(Idle, c, w)
<1>1. /\ Idle.stack = <<>> /\ Idle.owed = {} /\ Idle.judged = <<>>
      /\ Idle.exit = FALSE /\ Idle.diverted = FALSE /\ Idle.cut = FALSE
  BY DEF Idle
<1>2. IsStack(Idle.stack) /\ DOMAIN Idle.stack = {}
  BY <1>1, SmallStacks
<1> QED
  BY <1>1, <1>2, Zenon DEF Good, ThreadShape, Ingress, EgressWalked, IngressOwed

\* A translation that begins is owed the tables that flows were learned in.
LEMMA TranslateGood ==
    ASSUME NEW e, NEW owed, NEW c, NEW w, \A t \in owed : t \in Table /\ Reached(t, c, w)
    PROVE  Good(Translate(e, owed), c, w)
<1> DEFINE y == Translate(e, owed)
           po == e.kind = "packet_out"
           f == IF po THEN Body(0, 0, e.acts, FALSE) ELSE [kind |-> "first"]
<1>1. /\ DOMAIN y = DOMAIN Idle /\ y.stack = <<f>> /\ y.owed = owed /\ y.judged = <<>>
      /\ y.exit = FALSE /\ y.diverted = po /\ y.cut = FALSE
  BY Zenon DEF Translate, Idle
<1>2. /\ Shape(f) /\ f.kind = IF po THEN "acts" ELSE "first"
  BY Zenon DEF Body, Shape
<1> HIDE DEF y, f
<1>3. IsStack(<<f>>) /\ Len(<<f>>) = 1 /\ <<f>>[1] = f /\ DOMAIN <<f>> = {1}
  BY SmallStacks
<1>4. ThreadShape(y)
  BY <1>1, <1>2, <1>3, Zenon DEF ThreadShape
<1>5. Ingress(y, w)
  BY <1>1, <1>2, <1>3, ZenonT(30) DEF Ingress, Undisturbed
<1>6. EgressWalked(y, w)
  BY <1>1 DEF EgressWalked
<1>7. \A k \in DOMAIN y.stack : ModReached(y.stack[k], c, w)
  BY <1>1, <1>2, <1>3 DEF ModReached
<1> QED
  BY <1>1, <1>4, <1>5, <1>6, <1>7 DEF Good, y

-------------------------------------------------------------------------------
(* The invariant.                                                             *)

LEMMA InitIInv == Init => IInv
<1> SUFFICES ASSUME Init PROVE IInv
  OBVIOUS
<1>1. /\ counter = [spec \in Spec_ |-> 0] /\ thread = [i \in Thread |-> Idle]
      /\ atomic = [t \in Table |-> {}]
  BY DEF Init
<1>2. \A i \in Thread : Good(thread[i], counter, wrapped)
  BY <1>1, IdleGood
<1> QED
  BY <1>1, <1>2, TablesAssumption DEF IInv

\* A step of one thread that changes nothing else.
LEMMA OneThread ==
    ASSUME IInv, NEW i \in Thread, NEW y, thread' = [thread EXCEPT ![i] = y],
           UNCHANGED <<counter, atomic, wrapped>>, Good(y, counter, wrapped)
    PROVE  IInv'
<1>1. \A j \in Thread : thread'[j] = IF j = i THEN y ELSE thread[j]
  BY DEF IInv
<1>2. \A j \in Thread : Good(thread'[j], counter, wrapped)
  BY <1>1 DEF IInv
<1>3. DOMAIN thread' = Thread
  BY DEF IInv
<1>4. counter' = counter /\ atomic' = atomic /\ wrapped' = wrapped
  OBVIOUS
<1> QED
  BY <1>2, <1>3, <1>4 DEF IInv

LEMMA OwedReached ==
    ASSUME IInv, NEW flow
    PROVE  \A t \in Owed(flow) : t \in Table /\ Reached(t, counter, wrapped)
BY DEF IInv, Owed

\* A counter that is incremented moves on or wraps around.
LEMMA Incremented ==
    ASSUME counter \in [Spec_ -> 0 .. Width - 1], NEW spec,
           counter' = [counter EXCEPT ![spec] = (counter[spec] + 1) % Width],
           wrapped' = IF counter'[spec] = 0 THEN wrapped \cup {spec} ELSE wrapped
    PROVE  /\ counter' \in [Spec_ -> 0 .. Width - 1]
           /\ wrapped \subseteq wrapped'
           /\ \A t \in Nat : Reached(t, counter, wrapped) => Reached(t, counter', wrapped')
<1>1. \A n \in 0 .. Width - 1 : /\ (n + 1) % Width \in 0 .. Width - 1
                                /\ (n + 1) % Width = n + 1 \/ (n + 1) % Width = 0
  <2> TAKE n \in 0 .. Width - 1
  <2>1. CASE n + 1 < Width
    BY <2>1, TablesAssumption
  <2>2. CASE n + 1 = Width
    BY <2>2, TablesAssumption
  <2> QED
    BY <2>1, <2>2, TablesAssumption
<1>2. counter' \in [Spec_ -> 0 .. Width - 1]
  BY <1>1, Zenon
<1>3. wrapped \subseteq wrapped'
  OBVIOUS
<1>4. \A s \in Spec_ : s \notin wrapped' => counter[s] <= counter'[s]
  <2> TAKE s \in Spec_
  <2>1. CASE s # spec
    BY <2>1, TablesAssumption
  <2>2. CASE s = spec
    <3>1. counter'[s] = (counter[s] + 1) % Width /\ counter[s] \in 0 .. Width - 1
      BY <2>2
    <3>2. CASE counter'[s] = 0
      BY <2>2, <3>2
    <3>3. CASE counter'[s] = counter[s] + 1
      BY <3>1, <3>3, TablesAssumption
    <3> QED
      BY <1>1, <3>1, <3>2, <3>3
  <2> QED
    BY <2>1, <2>2
<1>5. ASSUME NEW t \in Nat, Reached(t, counter, wrapped) PROVE Reached(t, counter', wrapped')
  <2>1. /\ "INGRESS" \notin wrapped' => counter["INGRESS"] <= counter'["INGRESS"]
        /\ "EGRESS" \notin wrapped' => counter["EGRESS"] <= counter'["EGRESS"]
    BY <1>4 DEF Spec_
  <2>2. /\ counter["INGRESS"] \in Nat /\ counter'["INGRESS"] \in Nat
        /\ counter["EGRESS"] \in Nat /\ counter'["EGRESS"] \in Nat
    BY <1>2, TablesAssumption DEF Spec_
  <2> QED
    BY <1>3, <1>5, <2>1, <2>2, TablesAssumption DEF Reached, IsIngress, IsEgress
<1> QED
  BY <1>2, <1>3, <1>5, Zenon

LEMMA IncrementIInv ==
    ASSUME IInv, NEW i \in Thread, xlate_increment_table_id_action(i)
    PROVE  IInv'
<1> DEFINE x == thread[i]
           spec == Head(Top(x).acts).spec
<1>1. Good(x, counter, wrapped) /\ x.stack # <<>> /\ x.stack[1].kind = "acts"
  BY TopIs, ZenonT(30) DEF IInv, xlate_increment_table_id_action, Running, Good, ThreadShape
<1>2. /\ thread' = [thread EXCEPT ![i] = Executed(x)] /\ atomic' = atomic
      /\ \/ UNCHANGED <<counter, wrapped>>
         \/ /\ counter' = [counter EXCEPT ![spec] = (counter[spec] + 1) % Width]
            /\ wrapped' = IF counter'[spec] = 0 THEN wrapped \cup {spec} ELSE wrapped
  BY DEF xlate_increment_table_id_action
<1>3. Good(Executed(x), counter, wrapped)
  BY <1>1, ExecutedGood
<1>4. CASE UNCHANGED <<counter, wrapped>>
  BY <1>2, <1>3, <1>4, OneThread, ZenonT(30)
<1>5. CASE /\ counter' = [counter EXCEPT ![spec] = (counter[spec] + 1) % Width]
           /\ wrapped' = IF counter'[spec] = 0 THEN wrapped \cup {spec} ELSE wrapped
  <2> HIDE DEF spec
  <2>1. /\ counter' \in [Spec_ -> 0 .. Width - 1]
        /\ wrapped \subseteq wrapped'
        /\ \A t \in Nat : Reached(t, counter, wrapped) => Reached(t, counter', wrapped')
    BY <1>5, Incremented, Zenon DEF IInv
  <2>2. \A j \in Thread : thread'[j] = IF j = i THEN Executed(x) ELSE thread[j]
    BY <1>2 DEF IInv
  <2>3. \A j \in Thread : Good(thread'[j], counter, wrapped)
    BY <1>3, <2>2 DEF IInv
  <2>4. \A j \in Thread : Good(thread'[j], counter', wrapped')
    BY <2>1, <2>3, CounterGood
  <2>5. \A t \in Table : atomic'[t] # {} => Reached(t, counter', wrapped')
    BY <1>2, <2>1, TablesAssumption DEF IInv, Table
  <2>6. DOMAIN thread' = Thread /\ DOMAIN atomic' = Table
    BY <1>2, Zenon DEF IInv
  <2> QED
    BY <2>1, <2>4, <2>5, <2>6 DEF IInv
<1> QED
  BY <1>2, <1>4, <1>5, Zenon

LEMMA FlowModIInv ==
    ASSUME IInv, NEW i \in Thread, ofproto_dpif_flow_mod(i)
    PROVE  IInv'
<1> DEFINE x == thread[i]
           f == x.stack[1]
           t == f.table
           a == f.act
           into == Targets(t, a)
           kept == a.type = "learn" /\ InBlock(a.spec, t)
           after == [thread EXCEPT ![i] = Return(x)]
<1>1. Good(x, counter, wrapped) /\ x.stack # <<>> /\ f.kind = "mod" /\ Top(x) = f /\ 1 \in DOMAIN x.stack
  BY TopIs, ZenonT(30) DEF IInv, ofproto_dpif_flow_mod, Good, ThreadShape
<1>2. Good(Return(x), counter, wrapped)
  BY <1>1, ReturnGood DEF AtBottom, Based
<1>3. \A j \in Thread : Good(after[j], counter, wrapped)
  BY <1>2 DEF IInv
<1>4. counter' = counter /\ wrapped' = wrapped
  BY Zenon DEF ofproto_dpif_flow_mod
<1>5. /\ atomic' = [u \in Table |-> IF u \notin into THEN atomic[u]
                                   ELSE IF kept THEN atomic[u] \cup {a.flow} ELSE atomic[u] \ {a.flow}]
      /\ thread' = IF kept THEN after ELSE [j \in Thread |-> Forgets(after[j], a, into)]
  <2> HIDE DEF f
  <2>1. atomic' = [u \in Table |-> IF u \notin into THEN atomic[u]
                                  ELSE IF kept THEN atomic[u] \cup {a.flow} ELSE atomic[u] \ {a.flow}]
    BY <1>1 DEF ofproto_dpif_flow_mod
  <2>2. thread' = IF kept THEN after ELSE [j \in Thread |-> Forgets(after[j], a, into)]
    BY <1>1 DEF ofproto_dpif_flow_mod
  <2> QED
    BY <2>1, <2>2, Zenon
<1>6. DOMAIN after = Thread
  BY DEF IInv
<1>7. DOMAIN thread' = Thread /\ \A j \in Thread : Good(thread'[j], counter, wrapped)
  <2>1. CASE thread' = after
    BY <1>3, <1>6, <2>1
  <2>2. CASE thread' = [j \in Thread |-> Forgets(after[j], a, into)]
    <3> HIDE DEF after, a, into
    <3> QED
      BY <1>3, <2>2, ForgetsGood
  <2> QED
    BY <1>5, <2>1, <2>2, Zenon
<1>8. DOMAIN atomic' = Table /\ \A u \in Table : atomic'[u] # {} => Reached(u, counter, wrapped)
  <2>1. kept => t \in Nat /\ Reached(t, counter, wrapped)
    BY <1>1 DEF Good, ModReached
  <2>2. kept => t < Internal /\ t # AllTables
    BY <2>1, TablesAssumption DEF InBlock, IsIngress, IsEgress, AllTables
  <2>3. kept => into = {t}
    <3> HIDE DEF t, a, kept
    <3> QED
      BY <2>2 DEF Targets
  <2> HIDE DEF a, t, kept, into
  <2>4. ASSUME NEW u \in Table, atomic'[u] # {} PROVE Reached(u, counter, wrapped)
    <3>1. atomic'[u] = IF u \notin into THEN atomic[u]
                       ELSE IF kept THEN atomic[u] \cup {a.flow} ELSE atomic[u] \ {a.flow}
      BY <1>5, Zenon
    <3>2. CASE u \in into /\ kept
      BY <2>1, <2>3, <3>2, Zenon
    <3>3. CASE ~(u \in into /\ kept)
      BY <2>4, <3>1, <3>3 DEF IInv
    <3> QED
      BY <3>2, <3>3
  <2> QED
    BY <1>5, <2>4, Zenon
<1> QED
  BY <1>4, <1>7, <1>8, Zenon DEF IInv

LEMMA NextIInv == IInv /\ [Next]_vars => IInv'
<1> SUFFICES ASSUME IInv, [Next]_vars PROVE IInv'
  OBVIOUS
<1>1. CASE UNCHANGED vars
  BY <1>1 DEF vars, IInv
<1>2. CASE Next
  <2>1. PICK i \in Thread : Start(i) \/ Step(i)
    BY <1>2 DEF Next
  <2> DEFINE x == thread[i]
  <2>2. Good(x, counter, wrapped) /\ counter \in [Spec_ -> 0 .. Width - 1]
    BY ZenonT(30) DEF IInv
  <2>3. x.stack # <<>> => Top(x) = x.stack[1]
    BY <2>2, TopIs DEF Good, ThreadShape
  <2>4. CASE Start(i)
    <3>1. PICK e : /\ thread' = [thread EXCEPT ![i] = Translate(e, Owed(e.flow))]
                   /\ UNCHANGED <<counter, atomic, wrapped>>
      BY <2>4, ZenonT(30) DEF Start
    <3>2. Good(Translate(e, Owed(e.flow)), counter, wrapped)
      BY OwedReached, TranslateGood
    <3> QED
      BY <3>1, <3>2, OneThread, Zenon
  <2>5. CASE First(i)
    BY <2>2, <2>3, <2>5, FirstGood, OneThread, Zenon DEF First
  <2>6. CASE Lookup(i)
    BY <2>2, <2>3, <2>6, LookupGood, OneThread, Zenon DEF Lookup
  <2>7. CASE Continue(i)
    BY <2>2, <2>3, <2>7, ContinuedGood, OneThread, Zenon DEF Continue
  <2>8. CASE Execute(i)
    BY <2>2, <2>3, <2>8, ExecutedGood, OneThread, Zenon DEF Execute, Running
  <2>9. CASE xlate_increment_table_id_action(i)
    BY <2>9, IncrementIInv
  <2>10. CASE xlate_learn(i)
    <3>1. Good(Executed(x), counter, wrapped) /\ Good(Composed(x), counter, wrapped)
      BY <2>2, <2>3, <2>10, ExecutedGood, ComposedGood DEF xlate_learn, Running
    <3> QED
      BY <2>10, <3>1, OneThread, ZenonT(30) DEF xlate_learn
  <2>11. CASE EndActions(i)
    BY <2>2, <2>3, <2>11, EndedGood, OneThread, Zenon DEF EndActions
  <2>12. CASE ofproto_dpif_flow_mod(i)
    BY <2>12, FlowModIInv
  <2>13. CASE Finish(i)
    <3>1. Good(Idle, counter, wrapped)
      BY IdleGood
    <3>2. Good(Again(x), counter, wrapped)
      BY OwedReached, TranslateGood, ZenonT(30) DEF Again
    <3> QED
      BY <2>13, <3>1, <3>2, OneThread, Zenon DEF Finish
  <2>14. CASE StopActions(i)
    BY <2>2, <2>3, <2>14, StoppedGood, OneThread, Zenon DEF StopActions, Running
  <2> QED
    BY <2>1, <2>4, <2>5, <2>6, <2>7, <2>8, <2>9, <2>10, <2>11, <2>12, <2>13, <2>14, Zenon DEF Step
<1> QED
  BY <1>1, <1>2

\* A translation that has ended has no walk under way.
LEMMA IInvSeen == IInv => LearnedFlowsSeen
<1> SUFFICES ASSUME IInv, NEW i \in Thread, Finished(i), ~thread[i].cut, NEW t \in thread[i].owed
             PROVE  /\ IsIngress(t) /\ ~thread[i].diverted /\ "INGRESS" \notin wrapped => t \in thread[i].seen
                    /\ IsEgress(t) /\ thread[i].judged # <<>> /\ "EGRESS" \notin wrapped => t \in thread[i].seen
  BY DEF LearnedFlowsSeen
<1> DEFINE x == thread[i]
<1>1. Good(x, counter, wrapped) /\ x.stack = <<>>
  BY DEF IInv, Finished
<1>2. Len(x.stack) = 0 /\ DOMAIN x.stack = {}
  BY <1>1
<1>3. Ingress(x, wrapped) /\ EgressWalked(x, wrapped)
  BY <1>1, ZenonT(30) DEF Good
<1>4. Undisturbed(x, wrapped) => IngressOwed(x) \subseteq x.seen
  BY <1>1, <1>2, <1>3 DEF Ingress
<1>5. x.judged # <<>> /\ "EGRESS" \notin wrapped => EgressOwed(x) \subseteq x.seen
  BY <1>2, <1>3 DEF EgressWalked
<1> QED
  BY <1>4, <1>5 DEF Undisturbed, IngressOwed, EgressOwed

\* A flow that xlate_learn_learn_action() has put in the table its counter stood at is looked
\* up by every later packet of its class, in the ingress block when table 0 leaves the walk to
\* the automatic resubmit and in the egress block when xlate_table_action() gets there,
\* whichever threads increment the counters, learn and delete meanwhile.
THEOREM LearnedFlowsAlwaysSeen == Spec => []LearnedFlowsSeen
<1>1. Spec => []IInv
  BY InitIInv, NextIInv, PTL DEF Spec
<1> QED
  BY <1>1, IInvSeen, PTL

================================================================================
