------------------------------ MODULE UdpifProofs ------------------------------
(******************************************************************************)
(* Proofs about Udpif: for any flows, handlers and queue lengths the state    *)
(* keeps its type, the main thread is not left asleep with something queued   *)
(* for it (MainNotStranded), and revalidation leaves no old facet behind      *)
(* (FacetsFresh).                                                             *)
(*                                                                            *)
(* The inductive invariant has three parts.  Threads: who may run.  Awake:    *)
(* what main may count on between reading wait_seq and poll_block().  Fresh:  *)
(* unless a change is pending, what was translated before it carries an old   *)
(* reval_seq.                                                                 *)
(******************************************************************************)
EXTENDS Udpif, TLAPS

\* Handlers that were not started do not run, and without any neither does the
\* dispatcher; a handler that is about to queue a drop key has its upcall.
Threads ==
    /\ \A h \in Handler : h >= n_handlers => HandlerIs(h, "exited")
    /\ dispatcher.pc # "exited" => n_handlers > 0
    /\ \A h \in Handler : HandlerIs(h, "drop") => handler[h].misses # <<>>

\* What is queued for main has a thread that is about to call seq_change().
Announced ==
    /\ upcalls > 0 => dispatcher.new > 0
    /\ drop_keys # <<>> => \E h \in Handler : HandlerIs(h, "drop_wake")
    /\ fmbs # <<>> => \E h \in Handler : HandlerIs(h, "wake")

\* Once main has found the queues empty, a change of wait_seq is noticed, and
\* without one what is queued is announced.
Awake ==
    /\ pc = "arm" /\ changed = {} => Announced
    /\ pc \in {"flag", "block", "blocked"} /\ main \notin wake =>
           armed = {<<main, wait_seq>>} /\ Announced

\* A change was made that type_run() has not taken up.
Dirty == backer.need_revalidate \/ \E h \in Handler : HandlerIs(h, "learned")

\* The batches, in the queue and of the handlers.
Batches == {fmbs[i] : i \in DOMAIN fmbs} \union {handler[h].fmb : h \in Handler}

Old(g) == g \notin {0, gen}

Fresh ==
    /\ \A b \in Batches : b.reval_seq <= reval_seq
    /\ ~Dirty /\ pc \notin {"xlate", "facet"} =>
           /\ \A f \in Flow : ~Old(facets[f])
           /\ \A b \in Batches : b.reval_seq = reval_seq => \A f \in Flow : ~Old(b.gen[f])
    /\ ~Dirty /\ pc = "facet" => \A f \in Flow \ unchecked : ~Old(facets[f])

IInv == TypeOK /\ Threads /\ Awake /\ Fresh

-------------------------------------------------------------------------------
(* Queues.                                                                    *)

LEMMA ElementOfSeq ==
    ASSUME NEW S, NEW s \in Seq(S), NEW i \in 1 .. Len(s)
    PROVE  s[i] \in S
OBVIOUS

LEMMA LenProperties ==
    ASSUME NEW S, NEW s \in Seq(S)
    PROVE  Len(s) \in Nat /\ DOMAIN s = 1 .. Len(s) /\ s \in [1 .. Len(s) -> S]
OBVIOUS

LEMMA IsASeq ==
    ASSUME NEW S, NEW n \in Nat, NEW s \in [1 .. n -> S]
    PROVE  s \in Seq(S) /\ Len(s) = n
OBVIOUS

LEMMA SubSeqProperties ==
    ASSUME NEW S, NEW s, NEW m \in Int, NEW n \in Int, \A i \in m .. n : s[i] \in S
    PROVE  SubSeq(s, m, n) \in Seq(S)
OBVIOUS

LEMMA PrefixProperties ==
    ASSUME NEW S, NEW s \in Seq(S), NEW n \in Nat
    PROVE  Prefix(s, n) \in Seq(S)
<1> DEFINE m == IF n < Len(s) THEN n ELSE Len(s)
<1>1. Len(s) \in Nat /\ m \in 0 .. Len(s)
  OBVIOUS
<1>2. \A i \in 1 .. m : s[i] \in S
  BY <1>1, ElementOfSeq
<1> HIDE DEF m
<1>3. SubSeq(s, 1, m) \in Seq(S)
  BY <1>1, <1>2, SubSeqProperties
<1> QED
  BY <1>3 DEF Prefix, m

\* Taking items off the front of a queue leaves items of it.
LEMMA SuffixProperties ==
    ASSUME NEW S, NEW s \in Seq(S), NEW n \in Nat
    PROVE  /\ Suffix(s, n) \in Seq(S)
           /\ Len(Suffix(s, n)) <= Len(s)
           /\ {Suffix(s, n)[i] : i \in DOMAIN Suffix(s, n)} \subseteq {s[i] : i \in DOMAIN s}
<1> DEFINE t == Suffix(s, n)
<1>1. Len(s) \in Nat /\ DOMAIN s = 1 .. Len(s)
  BY LenProperties
<1> DEFINE k == IF n + 1 <= Len(s) THEN Len(s) - n ELSE 0
<1>2. t = [i \in 1 .. k |-> s[i + n]]
  BY <1>1 DEF Suffix
<1>3. k \in 0 .. Len(s) /\ \A i \in 1 .. k : i + n \in 1 .. Len(s)
  BY <1>1
<1> HIDE DEF t, k
<1>4. \A i \in 1 .. k : t[i] = s[i + n] /\ s[i + n] \in S
  BY <1>2, <1>3, ElementOfSeq
<1>5. t \in [1 .. k -> S]
  BY <1>2, <1>4
<1>6. t \in Seq(S) /\ DOMAIN t = 1 .. k /\ Len(t) = k
  BY <1>3, <1>5, IsASeq
<1>7. {t[i] : i \in DOMAIN t} \subseteq {s[i] : i \in DOMAIN s}
  BY <1>1, <1>3, <1>4, <1>6, Zenon
<1> QED
  BY <1>1, <1>3, <1>6, <1>7 DEF t

LEMMA AppendItems ==
    ASSUME NEW S, NEW s \in Seq(S), NEW x \in S
    PROVE  /\ Append(s, x) \in Seq(S)
           /\ Len(Append(s, x)) = Len(s) + 1
           /\ Append(s, x) # <<>>
           /\ {Append(s, x)[i] : i \in DOMAIN Append(s, x)} = {s[i] : i \in DOMAIN s} \union {x}
<1>1. /\ Append(s, x) \in Seq(S) /\ Append(s, x) # <<>>
      /\ Len(s) \in Nat /\ Len(Append(s, x)) = Len(s) + 1
      /\ \A i \in 1 .. Len(s) : Append(s, x)[i] = s[i]
      /\ Append(s, x)[Len(s) + 1] = x
  OBVIOUS
<1> QED
  BY <1>1, LenProperties

\* Discharged at the end of the module, so that the theorems about well-founded
\* relations stay out of the way of the proofs between.
LeastNumber == \A S \in SUBSET Nat : S # {} => \E x \in S : \A y \in S : x <= y

LEMMA LeastExists ==
    ASSUME LeastNumber, NEW S \in SUBSET Nat, S # {}
    PROVE  Least(S) \in S
BY Zenon DEF Least, LeastNumber

\* flow_miss_batch_next() pops no more than there is.
LEMMA PoppedInRange ==
    ASSUME LeastNumber, TypeOK
    PROVE  Popped \in 0 .. Len(fmbs)
<1> DEFINE current == {i \in DOMAIN fmbs : fmbs[i].reval_seq = reval_seq}
           limit == IF Len(fmbs) < MAX_POPS THEN Len(fmbs) ELSE MAX_POPS
<1>1. Len(fmbs) \in Nat /\ DOMAIN fmbs = 1 .. Len(fmbs)
  BY LenProperties DEF TypeOK
<1>2. limit \in 0 .. Len(fmbs)
  BY <1>1, UdpifAssumption
<1>3. current # {} => Least(current) \in 1 .. Len(fmbs)
  <2>1. current \subseteq 1 .. Len(fmbs) /\ current \in SUBSET Nat
    BY <1>1
  <2> HIDE DEF current
  <2> QED
    BY <2>1, LeastExists, Zenon
<1> HIDE DEF current, limit
<1>4. (IF current = {} \/ limit < Least(current) THEN limit ELSE Least(current)) \in 0 .. Len(fmbs)
  BY <1>1, <1>2, <1>3
<1> QED
  BY <1>4 DEF Popped, current, limit

-------------------------------------------------------------------------------
(* Types.                                                                     *)

\* What seq_change() does to the main thread.
LEMMA SeqChanged ==
    ASSUME TypeOK, SeqChange
    PROVE  /\ changed' = {<<main, wait_seq>>} /\ armed' = {}
           /\ wake' = wake \union (IF armed = {} THEN {} ELSE {main})
           /\ UNCHANGED mainVars
<1>1. armed \subseteq {<<main, wait_seq>>} /\ changed \subseteq {<<main, wait_seq>>}
  BY DEF TypeOK
<1>2. /\ changed' = changed \union ({main} \X {wait_seq})
      /\ wake' = wake \union {t \in {main} : <<t, wait_seq>> \in armed}
      /\ armed' = armed \ ({main} \X {wait_seq})
  BY DEF SeqChange, Wait!Change, Wait!Notify
<1>3. {main} \X {wait_seq} = {<<main, wait_seq>>}
  OBVIOUS
<1>4. changed' = {<<main, wait_seq>>} /\ armed' = {}
  BY <1>1, <1>2, <1>3
<1>5. {t \in {main} : <<t, wait_seq>> \in armed} = IF armed = {} THEN {} ELSE {main}
  BY <1>1
<1> QED
  BY <1>2, <1>4, <1>5 DEF SeqChange

LEMMA SignalledType ==
    ASSUME NEW hd \in StructHandler
    PROVE  /\ Signalled(hd) \in StructHandler
           /\ Signalled(hd).pc = IF hd.pc = "asleep" THEN "take" ELSE hd.pc
           /\ Signalled(hd).fmb = hd.fmb
<1>1. [hd EXCEPT !.pc = "take"] \in StructHandler
  BY DEF StructHandler, HandlerPC
<1> QED
  BY <1>1, Zenon DEF Signalled, StructHandler

\* A handler whose fields of the right types are replaced is still a handler.
LEMMA StoppedType ==
    /\ Stopped \in StructHandler /\ Started \in StructHandler
    /\ Stopped.pc = "exited" /\ Started.pc = "top"
    /\ Stopped.fmb = EmptyFmb(0) /\ Started.fmb = EmptyFmb(0)
    /\ \A n \in Nat : EmptyFmb(n) \in Fmb
<1>1. \A n \in Nat : EmptyFmb(n) \in Fmb
  BY DEF EmptyFmb, Fmb
<1>2. EmptyFmb(0) \in Fmb
  BY <1>1
<1>3. Stopped \in StructHandler /\ Stopped.pc = "exited" /\ Stopped.fmb = EmptyFmb(0)
  <2>1. <<>> \in Seq(Flow)
    OBVIOUS
  <2> QED
    BY <1>2, <2>1 DEF Stopped, StructHandler, HandlerPC
<1>4. Started \in StructHandler /\ Started.pc = "top" /\ Started.fmb = EmptyFmb(0)
  BY <1>3 DEF Started, StructHandler, HandlerPC
<1> QED
  BY <1>1, <1>3, <1>4

LEMMA StartType ==
    ASSUME NEW n \in 0 .. MaxHandlers
    PROVE  /\ HandlersFrom(n) \in [Handler -> StructHandler]
           /\ DispatcherFrom(n) \in [pc : DispatcherPC, new : Nat]
           /\ \A h \in Handler : h >= n => HandlersFrom(n)[h].pc = "exited"
           /\ \A h \in Handler : /\ HandlersFrom(n)[h].pc \in {"exited", "top"}
                                 /\ HandlersFrom(n)[h].fmb = EmptyFmb(0)
           /\ DispatcherFrom(n).pc # "exited" => n > 0
<1>1. n \in Nat /\ \A h \in Handler : h \in Nat
  BY UdpifAssumption DEF Handler
<1> QED
  BY <1>1, StoppedType DEF HandlersFrom, DispatcherFrom, DispatcherPC

LEMMA EmptyQueue ==
    ASSUME NEW S
    PROVE  <<>> \in Seq(S) /\ Len(<<>>) = 0 /\ {<<>>[i] : i \in DOMAIN <<>>} = {}
OBVIOUS

\* A step of one handler's thread leaves the other handlers alone.
LEMMA HandlerReplaced ==
    ASSUME TypeOK, NEW h \in Handler, NEW hd \in StructHandler, HandlerBecomes(h, hd)
    PROVE  /\ handler' \in [Handler -> StructHandler]
           /\ handler'[h] = hd
           /\ \A k \in Handler \ {h} : handler'[k] = handler[k]
BY DEF HandlerBecomes, TypeOK

LEMMA HandlerMoved ==
    ASSUME TypeOK, NEW h \in Handler, NEW p \in HandlerPC, HandlerGoto(h, p)
    PROVE  /\ handler' \in [Handler -> StructHandler]
           /\ handler'[h] = [handler[h] EXCEPT !.pc = p]
           /\ handler'[h].pc = p /\ handler'[h].fmb = handler[h].fmb
           /\ \A k \in Handler \ {h} : handler'[k] = handler[k]
<1> DEFINE hd == [handler[h] EXCEPT !.pc = p]
<1>1. handler[h] \in StructHandler
  BY DEF TypeOK
<1>2. hd \in StructHandler /\ hd.pc = p /\ hd.fmb = handler[h].fmb
  BY <1>1 DEF StructHandler
<1>3. HandlerBecomes(h, hd)
  BY DEF HandlerGoto
<1> HIDE DEF hd
<1>4. /\ handler' \in [Handler -> StructHandler] /\ handler'[h] = hd
      /\ \A k \in Handler \ {h} : handler'[k] = handler[k]
  BY <1>2, <1>3, HandlerReplaced
<1> QED
  BY <1>2, <1>4 DEF hd

LEMMA OneMoreChange ==
    ASSUME TypeOK, MoreEvents
    PROVE  config.changes + 1 \in 0 .. MaxEvents
<1>1. n_events \in 0 .. MaxEvents /\ config.changes \in 0 .. MaxEvents
  BY DEF TypeOK
<1> QED
  BY <1>1, UdpifAssumption DEF MoreEvents

\* Steps of the dispatcher keep the types.
LEMMA DispatcherTypes == LeastNumber /\ TypeOK /\ Threads /\ DispatcherStep => TypeOK'
<1> SUFFICES ASSUME LeastNumber, TypeOK, Threads, DispatcherStep PROVE TypeOK'
  OBVIOUS
<1> USE DEF TypeOK, udpifVars, queueVars, xlateVars, mainVars, wakeVars
<1>1. CASE DispatcherTop
  BY <1>1, Zenon DEF DispatcherTop, DispatcherGoto, DispatcherPC
<1>2. CASE DispatcherRecv
  <2>1. n_events' \in 0 .. MaxEvents
    BY <1>2, UdpifAssumption DEF DispatcherRecv, MoreEvents
  <2>2. ASSUME NEW f \in Flow, RecvMiss(f) PROVE TypeOK'
    <3> DEFINE h == Hash[f] % n_handlers
    <3>1. h \in Handler
      <4>1. n_handlers \in Nat /\ n_handlers > 0 /\ n_handlers <= MaxHandlers
        BY <1>2, UdpifAssumption DEF Threads, DispatcherRecv
      <4>2. Hash[f] \in Nat
        BY UdpifAssumption
      <4> QED
        BY <4>1, <4>2, UdpifAssumption DEF Handler
    <3> HIDE DEF h
    <3> DEFINE queued == [handler[h] EXCEPT !.upcalls = Append(@, f),
                                            !.n_new_upcalls = Len(handler[h].upcalls) + 1]
    <3>2. handler[h] \in StructHandler
      BY <3>1
    <3>3. queued \in StructHandler
      <4>1. handler[h].upcalls \in Seq(Flow)
        BY <3>2 DEF StructHandler
      <4>2. Append(handler[h].upcalls, f) \in Seq(Flow) /\ Len(handler[h].upcalls) + 1 \in Nat
        BY <4>1, AppendItems, LenProperties
      <4> QED
        BY <3>2, <4>2, Zenon DEF StructHandler
    <3> HIDE DEF queued
    <3>4. Signalled(queued) \in StructHandler
      BY <3>3, SignalledType
    <3>5. \E hd \in StructHandler : handler' = handler \/ handler' = [handler EXCEPT ![h] = hd]
      BY <2>2, <3>3, <3>4, Zenon DEF RecvMiss, h, queued
    <3>6. handler' \in [Handler -> StructHandler]
      BY <3>1, <3>5, Zenon
    <3>7. UNCHANGED <<dispatcher, upcalls>>
      BY <2>2 DEF RecvMiss
    <3> QED
      BY <1>2, <2>1, <3>6, <3>7, Zenon DEF DispatcherRecv
  <2>3. CASE RecvOther
    <3>1. upcalls' \in 0 .. MAX_QUEUE_LENGTH /\ dispatcher' \in [pc : DispatcherPC, new : Nat]
      BY <2>3, UdpifAssumption DEF RecvOther, HasRoom, DispatcherPC
    <3>2. UNCHANGED handler
      BY <2>3 DEF RecvOther
    <3> QED
      BY <1>2, <2>1, <3>1, <3>2, Zenon DEF DispatcherRecv
  <2> QED
    BY <1>2, <2>2, <2>3, Zenon DEF DispatcherRecv
<1>3. CASE DispatcherRecvWake
  BY <1>3, SeqChanged, Zenon DEF DispatcherRecvWake, DispatcherGoto, DispatcherPC
<1>4. CASE DispatcherSignal
  <2> DEFINE h == Least(Unwoken)
  <2>1. h \in Handler
    <3>1. Unwoken # {} /\ Unwoken \subseteq Handler
      BY <1>4 DEF DispatcherSignal, Unwoken
    <3>2. \A k \in Handler : k \in Nat
      BY UdpifAssumption DEF Handler
    <3>3. Unwoken \in SUBSET Nat
      BY <3>1, <3>2
    <3> QED
      BY <3>1, <3>3, LeastExists, Zenon
  <2> HIDE DEF h
  <2> DEFINE hd == [handler[h] EXCEPT !.n_new_upcalls = 0]
  <2>2. hd \in StructHandler
    <3>1. handler[h] \in StructHandler
      BY <2>1
    <3> QED
      BY <3>1, Zenon DEF StructHandler
  <2>3. handler' = [handler EXCEPT ![h] = Signalled(hd)]
    BY <1>4 DEF DispatcherSignal, h
  <2> HIDE DEF hd
  <2>4. handler' \in [Handler -> StructHandler]
    BY <2>1, <2>2, <2>3, SignalledType
  <2> QED
    BY <1>4, <2>4, Zenon DEF DispatcherSignal, DispatcherGoto, DispatcherPC
<1>5. CASE DispatcherDone
  BY <1>5, SeqChanged DEF DispatcherDone, DispatcherPC
<1> QED
  BY <1>1, <1>2, <1>3, <1>4, <1>5, Zenon DEF DispatcherStep

\* Steps of a handler keep the types.
LEMMA HandlerTypes ==
    ASSUME TypeOK, Threads, NEW h \in Handler, HandlerStep(h) \/ HandlerSpurious(h)
    PROVE  TypeOK'
<1> DEFINE x == handler[h]
<1>0. x \in StructHandler /\ x.upcalls \in Seq(Flow) /\ x.misses \in Seq(Flow) /\ x.fmb \in Fmb
  BY DEF TypeOK, StructHandler
<1> USE DEF udpifVars, queueVars, xlateVars, mainVars, wakeVars
<1>1. CASE HandlerTop(h)
  <2>1. handler' \in [Handler -> StructHandler]
    BY <1>1, HandlerMoved, Zenon DEF HandlerTop, HandlerPC
  <2> QED
    BY <1>1, <2>1 DEF HandlerTop, HandlerLocal, TypeOK
<1>2. CASE HandlerTake(h)
  <2> DEFINE m == Prefix(x.upcalls, FLOW_MISS_MAX_BATCH)
             u == Suffix(x.upcalls, FLOW_MISS_MAX_BATCH)
             hd == [x EXCEPT !.pc = "start", !.misses = m, !.upcalls = u]
  <2>1. m \in Seq(Flow) /\ u \in Seq(Flow)
    BY <1>0, PrefixProperties, SuffixProperties, UdpifAssumption, Zenon
  <2>2. HandlerBecomes(h, hd)
    BY <1>2 DEF HandlerTake
  <2> HIDE DEF m, u
  <2>3. hd \in StructHandler
    BY <1>0, <2>1, Zenon DEF StructHandler, HandlerPC
  <2> HIDE DEF hd
  <2>4. handler' \in [Handler -> StructHandler]
    BY <2>2, <2>3, HandlerReplaced
  <2> QED
    BY <1>2, <2>4, Zenon DEF HandlerTake, HandlerLocal, TypeOK
<1>3. CASE HandlerStart(h)
  <2> DEFINE hd == [x EXCEPT !.pc = "receive", !.fmb = EmptyFmb(reval_seq)]
  <2>1. EmptyFmb(reval_seq) \in Fmb
    BY StoppedType DEF TypeOK
  <2>2. hd \in StructHandler
    BY <1>0, <2>1, Zenon DEF StructHandler, HandlerPC
  <2>3. HandlerBecomes(h, hd)
    BY <1>3 DEF HandlerStart
  <2> HIDE DEF hd
  <2>4. handler' \in [Handler -> StructHandler]
    BY <2>2, <2>3, HandlerReplaced
  <2> QED
    BY <1>3, <2>4, Zenon DEF HandlerStart, HandlerLocal, TypeOK
<1>4. CASE HandlerReceive(h)
  <2> DEFINE f == Head(x.misses)
             next == [x EXCEPT !.misses = Tail(@)]
             more == [next EXCEPT !.todo = @ \union {f}]
  <2>1. f \in Flow /\ Tail(x.misses) \in Seq(Flow)
    BY <1>0, <1>4 DEF HandlerReceive
  <2>2. next \in StructHandler /\ more \in StructHandler
    BY <1>0, <2>1, Zenon DEF StructHandler
  <2>3. HandlerGoto(h, "drop") \/ HandlerBecomes(h, next) \/ HandlerBecomes(h, more)
    BY <1>4 DEF HandlerReceive
  <2> HIDE DEF next, more
  <2>4. handler' \in [Handler -> StructHandler]
    BY <2>2, <2>3, HandlerMoved, HandlerReplaced, Zenon DEF HandlerPC
  <2> QED
    BY <1>4, <2>4, Zenon DEF HandlerReceive, HandlerLocal, TypeOK
<1>5. CASE HandlerDrop(h)
  <2> DEFINE room == HasRoom(Len(drop_keys))
             hd == [x EXCEPT !.misses = Tail(@), !.pc = IF room THEN "drop_wake" ELSE "receive"]
  <2>0. x.misses # <<>>
    BY <1>5 DEF HandlerDrop, Threads
  <2>1. Head(x.misses) \in Flow /\ Tail(x.misses) \in Seq(Flow)
    BY <1>0, <2>0
  <2>2. hd \in StructHandler
    BY <1>0, <2>1, Zenon DEF StructHandler, HandlerPC
  <2>3. HandlerBecomes(h, hd)
    BY <1>5 DEF HandlerDrop
  <2> HIDE DEF hd
  <2>4. handler' \in [Handler -> StructHandler]
    BY <2>2, <2>3, HandlerReplaced
  <2>5. drop_keys' \in Seq(Flow) /\ Len(drop_keys') <= MAX_QUEUE_LENGTH
    BY <1>5, <2>1, AppendItems, UdpifAssumption DEF HandlerDrop, HasRoom, TypeOK
  <2> QED
    BY <1>5, <2>4, <2>5, Zenon DEF HandlerDrop, TypeOK
<1>6. CASE HandlerDropWake(h)
  <2>1. handler' \in [Handler -> StructHandler]
    BY <1>6, HandlerMoved, Zenon DEF HandlerDropWake, HandlerPC
  <2> QED
    BY <1>6, <2>1, SeqChanged, Zenon DEF HandlerDropWake, TypeOK
<1>7. CASE HandlerExecute(h)
  <2>1. PICK f \in x.todo :
            LET done == [x EXCEPT !.todo = @ \ {f}, !.fmb.gen[f] = gen]
            IN  \/ HandlerBecomes(h, done) /\ UNCHANGED <<config, gen>>
                \/ /\ MoreEvents
                   /\ config' = [config EXCEPT !.changes = @ + 1]
                   /\ gen' = gen + 1
                   /\ HandlerBecomes(h, [done EXCEPT !.pc = "learned"])
    BY <1>7, Zenon DEF HandlerExecute
  <2> DEFINE done == [x EXCEPT !.todo = @ \ {f}, !.fmb.gen[f] = gen]
             learned == [done EXCEPT !.pc = "learned"]
  <2>2. done \in StructHandler /\ learned \in StructHandler
    BY <1>0, Zenon DEF StructHandler, Fmb, TypeOK, HandlerPC
  <2>3. HandlerBecomes(h, done) \/ HandlerBecomes(h, learned)
    BY <2>1
  <2>4. gen' \in Nat
    BY <2>1 DEF TypeOK
  <2>5. config' \in [ports : SUBSET Flow, n_handler_threads : 1 .. MaxHandlers,
                     flow_restore_wait : BOOLEAN, changes : 0 .. MaxEvents]
    <3>1. config.changes + 1 \in 0 .. MaxEvents \/ UNCHANGED config
      BY <2>1, OneMoreChange
    <3> QED
      BY <2>1, <3>1, Zenon DEF TypeOK
  <2> HIDE DEF done, learned
  <2>6. handler' \in [Handler -> StructHandler]
    BY <2>2, <2>3, HandlerReplaced
  <2> QED
    BY <1>7, <2>4, <2>5, <2>6, Zenon DEF HandlerExecute, TypeOK
<1>8. CASE HandlerLearned(h)
  <2>1. handler' \in [Handler -> StructHandler]
    BY <1>8, HandlerMoved, Zenon DEF HandlerLearned, HandlerPC
  <2> QED
    BY <1>8, <2>1, Zenon DEF HandlerLearned, TypeOK
<1>9. CASE HandlerCheck(h)
  <2> DEFINE hd == [x EXCEPT !.pc = "top", !.fmb = EmptyFmb(0)]
  <2>1. hd \in StructHandler
    BY <1>0, StoppedType, Zenon DEF StructHandler, HandlerPC
  <2>2. HandlerGoto(h, "push") \/ HandlerBecomes(h, hd)
    BY <1>9 DEF HandlerCheck
  <2> HIDE DEF hd
  <2>3. handler' \in [Handler -> StructHandler]
    BY <2>1, <2>2, HandlerMoved, HandlerReplaced, Zenon DEF HandlerPC
  <2> QED
    BY <1>9, <2>3 DEF HandlerCheck, HandlerLocal, TypeOK
<1>10. CASE HandlerPush(h)
  <2> DEFINE room == HasRoom(Len(fmbs))
             hd == [x EXCEPT !.fmb = EmptyFmb(0), !.pc = IF room THEN "wake" ELSE "top"]
  <2>1. hd \in StructHandler
    BY <1>0, StoppedType, Zenon DEF StructHandler, HandlerPC
  <2>2. HandlerBecomes(h, hd)
    BY <1>10 DEF HandlerPush
  <2> HIDE DEF hd
  <2>3. handler' \in [Handler -> StructHandler]
    BY <2>1, <2>2, HandlerReplaced
  <2>4. fmbs' \in Seq(Fmb) /\ Len(fmbs') <= MAX_QUEUE_LENGTH
    BY <1>0, <1>10, AppendItems, UdpifAssumption DEF HandlerPush, HasRoom, TypeOK
  <2> QED
    BY <1>10, <2>3, <2>4, Zenon DEF HandlerPush, TypeOK
<1>11. CASE HandlerWake(h)
  <2>1. handler' \in [Handler -> StructHandler]
    BY <1>11, HandlerMoved, Zenon DEF HandlerWake, HandlerPC
  <2> QED
    BY <1>11, <2>1, SeqChanged, Zenon DEF HandlerWake, TypeOK
<1>12. CASE HandlerSpurious(h)
  <2>1. handler' \in [Handler -> StructHandler]
    BY <1>12, HandlerMoved, Zenon DEF HandlerSpurious, HandlerPC
  <2>2. n_events' \in 0 .. MaxEvents
    <3>1. n_events \in 0 .. MaxEvents /\ config.changes \in Nat
      BY UdpifAssumption DEF TypeOK
    <3>2. n_events + config.changes < MaxEvents /\ n_events' = n_events + 1
      BY <1>12 DEF HandlerSpurious, MoreEvents
    <3> QED
      BY <3>1, <3>2, UdpifAssumption
  <2> QED
    BY <1>12, <2>1, <2>2, Zenon DEF HandlerSpurious, TypeOK
<1> QED
  BY <1>1, <1>2, <1>3, <1>4, <1>5, <1>6, <1>7, <1>8, <1>9, <1>10, <1>11, <1>12 DEF HandlerStep

\* Steps of the main thread keep the types.
LEMMA MainTypes == LeastNumber /\ TypeOK /\ MainStep => TypeOK'
<1> SUFFICES ASSUME LeastNumber, TypeOK, MainStep PROVE TypeOK'
  OBVIOUS
<1> USE DEF TypeOK, udpifVars, queueVars, xlateVars, mainVars, wakeVars, threadVars, MainGoto, MainPC, MainWaits
<1>1. CASE HandleUpcalls
  BY <1>1, UdpifAssumption DEF HandleUpcalls
<1>2. CASE HandleDropKeys
  <2> DEFINE keys == Prefix(drop_keys, FLOW_MISS_MAX_BATCH)
             got == {keys[i] : i \in DOMAIN keys}
  <2>1. drop_keys' \in Seq(Flow) /\ Len(drop_keys') <= MAX_QUEUE_LENGTH
    <3>1. /\ Suffix(drop_keys, FLOW_MISS_MAX_BATCH) \in Seq(Flow)
          /\ Len(Suffix(drop_keys, FLOW_MISS_MAX_BATCH)) <= Len(drop_keys)
      BY SuffixProperties, UdpifAssumption, Zenon
    <3>2. Len(drop_keys) \in Nat /\ Len(Suffix(drop_keys, FLOW_MISS_MAX_BATCH)) \in Nat
      BY <3>1
    <3> QED
      BY <1>2, <3>1, <3>2, UdpifAssumption DEF HandleDropKeys
  <2>2. keys \in Seq(Flow)
    BY PrefixProperties, UdpifAssumption
  <2>3. got \subseteq Flow
    <3> HIDE DEF keys
    <3> QED
      BY <2>2, ElementOfSeq, LenProperties
  <2>4. backer' = [backer EXCEPT !.drop_keys = @ \union got]
    BY <1>2 DEF HandleDropKeys
  <2> HIDE DEF got
  <2>5. backer' \in [need_revalidate : BOOLEAN, n_handler_threads : 1 .. MaxHandlers,
                     recv_set_enable : BOOLEAN, drop_keys : SUBSET Flow]
    BY <2>3, <2>4, Zenon
  <2> QED
    BY <1>2, <2>1, <2>5, Zenon DEF HandleDropKeys
<1>3. CASE HandleFlowMisses
  <2>1. Popped \in Nat /\ Popped <= Len(fmbs)
    BY PoppedInRange
  <2>2. fmbs' \in Seq(Fmb) /\ Len(fmbs') <= MAX_QUEUE_LENGTH
    <3>1. /\ Suffix(fmbs, Popped) \in Seq(Fmb)
          /\ Len(Suffix(fmbs, Popped)) <= Len(fmbs)
      BY <2>1, SuffixProperties
    <3>2. Len(fmbs) \in Nat /\ Len(Suffix(fmbs, Popped)) \in Nat
      BY <3>1
    <3> QED
      BY <1>3, <3>1, <3>2, UdpifAssumption DEF HandleFlowMisses
  <2>3. facets' \in [Flow -> Nat]
    <3>1. ASSUME NEW f \in Flow, NEW g \in Nat, NEW r PROVE MissOutcome(f, g, r) \in Nat
      BY <3>1 DEF MissOutcome, Revalidated
    <3>2. ASSUME Popped > 0, NEW f \in Flow PROVE fmbs[Popped].gen[f] \in Nat
      <4>1. Popped \in 1 .. Len(fmbs)
        BY <2>1, <3>2
      <4>2. fmbs[Popped] \in Fmb
        BY <4>1, ElementOfSeq
      <4> QED
        BY <4>2 DEF Fmb
    <3>3. CASE Popped > 0 /\ fmbs[Popped].reval_seq = reval_seq
      <4>1. PICK refused \in SUBSET Flow :
                facets' = [f \in Flow |-> MissOutcome(f, fmbs[Popped].gen[f], f \in refused)]
        BY <1>3, <3>3, Zenon DEF HandleFlowMisses
      <4>2. \A f \in Flow : MissOutcome(f, fmbs[Popped].gen[f], f \in refused) \in Nat
        BY <3>1, <3>2, <3>3, Zenon
      <4> QED
        BY <4>1, <4>2
    <3> QED
      BY <1>3, <3>3 DEF HandleFlowMisses
  <2> QED
    BY <1>3, <2>2, <2>3, Zenon DEF HandleFlowMisses
<1>4. CASE TypeRun
  <2> DEFINE stop == exit_latch'
  <2>1. backer' \in [need_revalidate : BOOLEAN, n_handler_threads : 1 .. MaxHandlers,
                     recv_set_enable : BOOLEAN, drop_keys : SUBSET Flow]
    BY <1>4, Zenon DEF TypeRun
  <2>2. \A e \in BOOLEAN : Wanted(e) \in 0 .. MaxHandlers
    BY UdpifAssumption DEF Wanted
  <2>3. \/ UNCHANGED <<n_handlers, handler, dispatcher>>
        \/ \E n \in 0 .. MaxHandlers :
             n_handlers' = n /\ handler' = HandlersFrom(n) /\ dispatcher' = DispatcherFrom(n)
    BY <1>4, <2>2, Zenon DEF TypeRun
  <2>4. /\ n_handlers' \in 0 .. MaxHandlers /\ handler' \in [Handler -> StructHandler]
        /\ dispatcher' \in [pc : DispatcherPC, new : Nat]
    BY <2>3, StartType
  <2>5. exit_latch' \in BOOLEAN /\ unsignalled' \in SUBSET Handler /\ pc' \in MainPC
    BY <1>4 DEF TypeRun
  <2> QED
    BY <1>4, <2>1, <2>4, <2>5, Zenon DEF TypeRun
<1>5. CASE TypeRunFails
  BY <1>5, Zenon DEF TypeRunFails
<1>6. CASE RecvSetSignal
  <2>1. CASE unsignalled = {}
    BY <1>6, <2>1 DEF RecvSetSignal
  <2>2. CASE unsignalled # {}
    <3> DEFINE h == Least(unsignalled)
    <3>1. h \in Handler
      <4>1. unsignalled \in SUBSET Nat
        BY UdpifAssumption DEF Handler
      <4> QED
        BY <2>2, <4>1, LeastExists, Zenon
    <3> HIDE DEF h
    <3>2. handler' = [handler EXCEPT ![h] = Signalled(handler[h])] /\ unsignalled' = unsignalled \ {h}
      BY <1>6, <2>2, <3>1 DEF RecvSetSignal, h
    <3>3. handler' \in [Handler -> StructHandler]
      BY <3>1, <3>2, SignalledType
    <3> QED
      BY <1>6, <2>2, <3>2, <3>3 DEF RecvSetSignal
  <2> QED
    BY <2>1, <2>2, Zenon
<1>7. CASE RecvSetJoin
  <2>1. n_handlers' \in 0 .. MaxHandlers
    BY <1>7, UdpifAssumption DEF RecvSetJoin, Wanted
  <2>2. handler' \in [Handler -> StructHandler] /\ dispatcher' \in [pc : DispatcherPC, new : Nat]
    BY <1>7, <2>1, StartType DEF RecvSetJoin
  <2> QED
    BY <1>7, <2>1, <2>2, Zenon DEF RecvSetJoin
<1>8. CASE TakeNeedRevalidate
  <2>1. drop_keys' \in Seq(Flow) /\ Len(drop_keys') <= MAX_QUEUE_LENGTH
    <3>1. drop_keys' = <<>> \/ drop_keys' = drop_keys
      BY <1>8 DEF TakeNeedRevalidate
    <3>2. <<>> \in Seq(Flow) /\ Len(<<>>) = 0
      BY EmptyQueue
    <3>3. CASE drop_keys' = <<>>
      BY <3>2, <3>3, UdpifAssumption
    <3> QED
      BY <3>1, <3>3
  <2>2. backer' \in [need_revalidate : BOOLEAN, n_handler_threads : 1 .. MaxHandlers,
                     recv_set_enable : BOOLEAN, drop_keys : SUBSET Flow]
    BY <1>8, ZenonT(30) DEF TakeNeedRevalidate
  <2> QED
    BY <1>8, <2>1, <2>2, Zenon DEF TakeNeedRevalidate
<1>9. CASE XlateSet
  BY <1>9 DEF XlateSet
<1>10. CASE FacetRevalidate
  BY <1>10 DEF FacetRevalidate, Revalidated
<1>11. CASE UdpifRevalidate
  BY <1>11 DEF UdpifRevalidate
<1>12. CASE UdpifRevalidateClear
  <2>1. /\ drop_keys' \in Seq(Flow) /\ Len(drop_keys') <= MAX_QUEUE_LENGTH
        /\ fmbs' \in Seq(Fmb) /\ Len(fmbs') <= MAX_QUEUE_LENGTH
    BY <1>12, EmptyQueue, UdpifAssumption DEF UdpifRevalidateClear
  <2> QED
    BY <1>12, <2>1 DEF UdpifRevalidateClear
<1>13. CASE Expire
  <2>1. drop_keys' \in Seq(Flow) /\ Len(drop_keys') <= MAX_QUEUE_LENGTH
    BY <1>13, EmptyQueue, UdpifAssumption DEF Expire
  <2>2. backer' \in [need_revalidate : BOOLEAN, n_handler_threads : 1 .. MaxHandlers,
                     recv_set_enable : BOOLEAN, drop_keys : SUBSET Flow]
    BY <1>13, Zenon DEF Expire
  <2>3. facets' \in [Flow -> Nat]
    BY <1>13 DEF Expire
  <2> QED
    BY <1>13, <2>1, <2>2, <2>3, Zenon DEF Expire
<1>14. CASE ExpireNotYet
  BY <1>14 DEF ExpireNotYet
<1>15. CASE ConfDone
  BY <1>15 DEF ConfDone
<1>16. CASE UdpifWaitRead
  BY <1>16 DEF UdpifWaitRead, Wait!Read
<1>17. CASE UdpifWaitCheck
  BY <1>17, ZenonT(30) DEF UdpifWaitCheck, Wait!WakeNow
<1>18. CASE UdpifWaitArm
  BY <1>18 DEF UdpifWaitArm, Wait!Wait
<1>19. CASE OfprotoWait
  BY <1>19 DEF OfprotoWait, Wait!WakeNow
<1>20. CASE MainBlock
  BY <1>20 DEF MainBlock, Wait!Block
<1>21. CASE MainWoken
  BY <1>21 DEF MainWoken, Wait!Woken, Wait!Unblock
<1>22. CASE MainTimer
  BY <1>22 DEF MainTimer, Wait!Unrelated, Wait!Unblock
<1> QED
  BY ZenonT(30), <1>1, <1>2, <1>3, <1>4, <1>5, <1>6, <1>7, <1>8, <1>9, <1>10, <1>11, <1>12, <1>13,
     <1>14, <1>15, <1>16, <1>17, <1>18, <1>19, <1>20, <1>21, <1>22, Zenon DEF MainStep

\* Configuration changes keep the types.
LEMMA ChangeTypes == TypeOK /\ MainChange => TypeOK'
<1> SUFFICES ASSUME TypeOK, MainChange PROVE TypeOK'
  OBVIOUS
<1> DEFINE Config == [ports : SUBSET Flow, n_handler_threads : 1 .. MaxHandlers,
                      flow_restore_wait : BOOLEAN, changes : 0 .. MaxEvents]
<1>0. ASSUME NEW c \in Config, c.changes = config.changes, Change(c) PROVE config' \in Config
  <2>1. c.changes + 1 \in 0 .. MaxEvents
    BY <1>0, OneMoreChange DEF Change
  <2> QED
    BY <1>0, <2>1 DEF Change
<1>b. NeedRevalidate =>
        backer' \in [need_revalidate : BOOLEAN, n_handler_threads : 1 .. MaxHandlers,
                     recv_set_enable : BOOLEAN, drop_keys : SUBSET Flow]
  BY Zenon DEF NeedRevalidate, TypeOK
<1>c. ASSUME NEW c, Change(c), config' \in Config,
             backer' \in [need_revalidate : BOOLEAN, n_handler_threads : 1 .. MaxHandlers,
                          recv_set_enable : BOOLEAN, drop_keys : SUBSET Flow],
             gen' \in Nat, assoc' \in SUBSET Flow, facets' \in [Flow -> Nat],
             pc' \in MainPC, ret' \in {"type", "wait", "expire", "conf"}
      PROVE  TypeOK'
  BY <1>c, Zenon DEF Change, TypeOK, udpifVars, queueVars, wakeVars, threadVars
<1>1. CASE FlowMod
  <2>1. config' \in Config
    BY <1>0, <1>1 DEF FlowMod, TypeOK
  <2>2. gen' \in Nat
    BY <1>1 DEF FlowMod, TypeOK
  <2>3. UNCHANGED <<pc, ret, assoc, facets>> /\ NeedRevalidate /\ Change(config)
    BY <1>1 DEF FlowMod
  <2> QED
    BY <1>b, <1>c, <2>1, <2>2, <2>3, Zenon DEF TypeOK
<1>2. CASE Destruct
  <2> DEFINE c == [config EXCEPT !.ports = {}]
  <2>1. c \in Config /\ c.changes = config.changes
    BY Zenon DEF TypeOK
  <2>2. Change(c)
    BY <1>2 DEF Destruct
  <2> HIDE DEF c
  <2>3. config' \in Config
    BY <1>0, <2>1, <2>2
  <2>4. gen' \in Nat /\ facets' \in [Flow -> Nat] /\ assoc' \in SUBSET Flow
    BY <1>2 DEF Destruct, TypeOK
  <2>5. pc' \in MainPC /\ ret' \in {"type", "wait", "expire", "conf"} /\ NeedRevalidate
    BY <1>2 DEF Destruct, MainPC
  <2> QED
    BY <1>b, <1>c, <2>2, <2>3, <2>4, <2>5
<1>3. ASSUME NEW f \in Flow, PortConstruct(f) PROVE TypeOK'
  <2> DEFINE c == [config EXCEPT !.ports = @ \union {f}]
  <2>1. c \in Config /\ c.changes = config.changes
    BY Zenon DEF TypeOK
  <2>2. Change(c)
    BY <1>3 DEF PortConstruct
  <2> HIDE DEF c
  <2>3. config' \in Config
    BY <1>0, <2>1, <2>2
  <2> QED
    BY <1>3, <1>b, <1>c, <2>2, <2>3, Zenon DEF PortConstruct, TypeOK, MainPC
<1>4. ASSUME NEW f \in Flow, PortDestruct(f) PROVE TypeOK'
  <2> DEFINE c == [config EXCEPT !.ports = @ \ {f}]
  <2>1. c \in Config /\ c.changes = config.changes
    BY Zenon DEF TypeOK
  <2>2. Change(c)
    BY <1>4 DEF PortDestruct
  <2> HIDE DEF c
  <2>3. config' \in Config
    BY <1>0, <2>1, <2>2
  <2>4. gen' \in Nat /\ assoc' \in SUBSET Flow
    BY <1>4 DEF PortDestruct, TypeOK
  <2>5. UNCHANGED <<pc, ret, facets>> /\ NeedRevalidate
    BY <1>4 DEF PortDestruct
  <2> QED
    BY <1>b, <1>c, <2>2, <2>3, <2>4, <2>5, Zenon DEF TypeOK
<1>5. ASSUME NEW n \in 1 .. MaxHandlers, NEW restore \in BOOLEAN, SetThreads(n, restore) PROVE TypeOK'
  <2> DEFINE c == [config EXCEPT !.n_handler_threads = n, !.flow_restore_wait = restore]
  <2>1. c \in Config /\ c.changes = config.changes
    BY Zenon DEF TypeOK
  <2>2. Change(c)
    BY <1>5 DEF SetThreads
  <2> HIDE DEF c
  <2>3. config' \in Config
    BY <1>0, <2>1, <2>2
  <2> QED
    BY <1>5, <1>c, <2>2, <2>3, ZenonT(30) DEF SetThreads, TypeOK, MainPC
<1> QED
  BY <1>1, <1>2, <1>3, <1>4, <1>5 DEF MainChange

-------------------------------------------------------------------------------
(* What a step of a thread does to the parts of the invariant.                *)

\* The handler may have been signalled, and is otherwise where it was.
Nudged(a, b) ==
    /\ b.pc = a.pc \/ (a.pc = "asleep" /\ b.pc = "take")
    /\ b.misses = a.misses /\ b.fmb = a.fmb

LEMMA SignalledNudged ==
    ASSUME NEW hd \in StructHandler
    PROVE  Nudged(hd, hd) /\ Nudged(hd, Signalled(hd))
BY DEF Nudged, Signalled, StructHandler

LEMMA DispatcherEffect ==
    ASSUME TypeOK, Threads, DispatcherStep
    PROVE  /\ \A k \in Handler : Nudged(handler[k], handler'[k])
           /\ dispatcher.pc # "exited"
           /\ UNCHANGED <<drop_keys, fmbs, udpifVars, xlateVars, mainVars>>
           /\ \/ SeqChange
              \/ /\ UNCHANGED wakeVars
                 /\ upcalls' = upcalls \/ upcalls' = upcalls + 1
                 /\ upcalls' # upcalls => dispatcher'.new = upcalls'
                 /\ upcalls' = upcalls => dispatcher'.new = dispatcher.new
<1> USE DEF udpifVars, queueVars, xlateVars, mainVars, wakeVars
<1>0. \A k \in Handler : handler[k] \in StructHandler
  BY DEF TypeOK
<1>s. UNCHANGED handler => \A k \in Handler : Nudged(handler[k], handler'[k])
  BY DEF Nudged
<1>d. dispatcher \in [pc : DispatcherPC, new : Nat] /\ upcalls \in Nat
  BY UdpifAssumption DEF TypeOK
<1>1. CASE DispatcherTop
  BY <1>1, <1>s, <1>d, ZenonT(30) DEF DispatcherTop, DispatcherGoto
<1>2. CASE DispatcherRecv
  <2>1. ASSUME NEW f \in Flow, RecvMiss(f) PROVE \A k \in Handler : Nudged(handler[k], handler'[k])
    <3> DEFINE h == Hash[f] % n_handlers
               queued == [handler[h] EXCEPT !.upcalls = Append(@, f),
                                            !.n_new_upcalls = Len(handler[h].upcalls) + 1]
    <3>1. handler' = handler \/ handler' = [handler EXCEPT ![h] = queued]
            \/ handler' = [handler EXCEPT ![h] = Signalled(queued)]
      BY <2>1, Zenon DEF RecvMiss
    <3> HIDE DEF h
    <3>2. h \in Handler => Nudged(handler[h], queued) /\ Nudged(handler[h], Signalled(queued))
      <4> SUFFICES ASSUME h \in Handler PROVE Nudged(handler[h], queued) /\ Nudged(handler[h], Signalled(queued))
        OBVIOUS
      <4>1. handler[h] \in StructHandler
        BY <1>0
      <4> QED
        BY <4>1 DEF Nudged, Signalled, StructHandler
    <3> HIDE DEF queued
    <3>3. ASSUME NEW k \in Handler PROVE Nudged(handler[k], handler'[k])
      <4>1. DOMAIN handler = Handler
        BY DEF TypeOK
      <4>2. CASE k = h
        BY <1>0, <3>1, <3>2, <4>1, <4>2, SignalledNudged
      <4>3. CASE k # h
        BY <1>0, <3>1, <4>1, <4>3, SignalledNudged
      <4> QED
        BY <4>2, <4>3
    <3> QED
      BY <3>3
  <2>2. ASSUME NEW f \in Flow, RecvMiss(f) PROVE UNCHANGED <<dispatcher, upcalls>>
    BY <2>2 DEF RecvMiss
  <2>3. CASE RecvOther
    <3>1. UNCHANGED handler
      BY <2>3 DEF RecvOther
    <3>2. \/ UNCHANGED <<upcalls, dispatcher>>
          \/ upcalls' = upcalls + 1 /\ dispatcher'.new = upcalls'
      BY <2>3 DEF RecvOther
    <3> QED
      BY <1>2, <1>s, <1>d, <3>1, <3>2 DEF DispatcherRecv
  <2> QED
    BY <1>2, <2>1, <2>2, <2>3 DEF DispatcherRecv
<1>3. CASE DispatcherRecvWake
  BY <1>3, <1>s DEF DispatcherRecvWake, SeqChange
<1>4. CASE DispatcherSignal
  <2> DEFINE h == Least(Unwoken)
             hd == [handler[h] EXCEPT !.n_new_upcalls = 0]
  <2>1. handler' = [handler EXCEPT ![h] = Signalled(hd)]
    BY <1>4 DEF DispatcherSignal
  <2> HIDE DEF h
  <2>2. h \in Handler => Nudged(handler[h], Signalled(hd))
    BY <1>0 DEF Nudged, Signalled, StructHandler
  <2> HIDE DEF hd
  <2>3. \A k \in Handler : Nudged(handler[k], handler'[k])
    BY <1>0, <2>1, <2>2, SignalledNudged DEF TypeOK
  <2> QED
    BY <1>4, <1>d, <2>3 DEF DispatcherSignal, DispatcherGoto
<1>5. CASE DispatcherDone
  <2>1. CASE dispatcher.new > 0
    BY <1>5, <1>s, <2>1 DEF DispatcherDone, SeqChange
  <2>2. CASE ~(dispatcher.new > 0)
    <3>1. dispatcher.new = 0
      BY <1>d, <2>2
    <3> QED
      BY <1>5, <1>s, <2>2, <3>1 DEF DispatcherDone
  <2> QED
    BY <2>1, <2>2
<1> QED
  BY <1>1, <1>2, <1>3, <1>4, <1>5 DEF DispatcherStep

\* The batch of a handler as one step may leave it.
NextFmb(b, c) ==
    \/ c = b \/ c = EmptyFmb(0) \/ c = EmptyFmb(reval_seq)
    \/ \E f \in Flow : c = [b EXCEPT !.gen[f] = gen]

LEMMA HandlerEffect ==
    ASSUME TypeOK, Threads, NEW h \in Handler, HandlerStep(h) \/ HandlerSpurious(h)
    PROVE  /\ \A k \in Handler \ {h} : handler'[k] = handler[k]
           /\ ~HandlerIs(h, "exited")
           /\ UNCHANGED <<dispatcher, upcalls, udpifVars, assoc, facets, unchecked, pc>>
           /\ \/ SeqChange /\ UNCHANGED queueVars
              \/ UNCHANGED wakeVars /\ ~HandlerIs(h, "drop_wake") /\ ~HandlerIs(h, "wake")
           /\ drop_keys' # drop_keys => handler'[h].pc = "drop_wake"
           /\ fmbs' = fmbs \/ (fmbs' = Append(fmbs, handler[h].fmb) /\ handler'[h].pc = "wake")
           /\ handler'[h].pc = "drop" => handler'[h].misses # <<>>
           /\ UNCHANGED backer \/ backer'.need_revalidate
           /\ HandlerIs(h, "learned") => backer'.need_revalidate
           /\ gen' = gen \/ handler'[h].pc = "learned"
           /\ NextFmb(handler[h].fmb, handler'[h].fmb)
<1> DEFINE x == handler[h]
<1>0. x \in StructHandler
  BY DEF TypeOK
<1> USE DEF udpifVars, queueVars, xlateVars, mainVars, wakeVars, HandlerIs
<1>t. handler' \in [Handler -> StructHandler]
  BY HandlerTypes DEF TypeOK
<1>1. CASE HandlerTop(h)
  <2>1. /\ handler'[h].pc \in {"exited", "asleep", "take"} /\ handler'[h].fmb = x.fmb
        /\ \A k \in Handler \ {h} : handler'[k] = handler[k]
    BY <1>1, HandlerMoved, Zenon DEF HandlerTop, HandlerPC
  <2> QED
    BY <1>1, <2>1 DEF HandlerTop, HandlerLocal, NextFmb
<1>2. CASE HandlerTake(h)
  <2>1. /\ handler'[h].pc = "start" /\ handler'[h].fmb = x.fmb
        /\ \A k \in Handler \ {h} : handler'[k] = handler[k]
    BY <1>0, <1>2 DEF HandlerTake, HandlerBecomes, StructHandler, TypeOK
  <2> QED
    BY <1>2, <2>1 DEF HandlerTake, HandlerLocal, NextFmb
<1>3. CASE HandlerStart(h)
  <2>1. /\ handler'[h].pc = "receive" /\ handler'[h].fmb = EmptyFmb(reval_seq)
        /\ \A k \in Handler \ {h} : handler'[k] = handler[k]
    BY <1>0, <1>3 DEF HandlerStart, HandlerBecomes, StructHandler, TypeOK
  <2> QED
    BY <1>3, <2>1 DEF HandlerStart, HandlerLocal, NextFmb
<1>4. CASE HandlerReceive(h)
  <2> DEFINE f == Head(x.misses)
             next == [x EXCEPT !.misses = Tail(@)]
             more == [next EXCEPT !.todo = @ \union {f}]
  <2>1. HandlerGoto(h, "drop") \/ HandlerBecomes(h, next) \/ HandlerBecomes(h, more)
    BY <1>4 DEF HandlerReceive
  <2>2. next.pc = x.pc /\ more.pc = x.pc /\ next.fmb = x.fmb /\ more.fmb = x.fmb
    BY <1>0 DEF StructHandler
  <2>3. [x EXCEPT !.pc = "drop"].misses = x.misses /\ [x EXCEPT !.pc = "drop"].fmb = x.fmb
    BY <1>0 DEF StructHandler
  <2> HIDE DEF next, more
  <2>4. \/ handler'[h] \in {next, more}
        \/ handler'[h] = [x EXCEPT !.pc = "drop"]
    BY <2>1, Zenon DEF HandlerGoto, HandlerBecomes, TypeOK
  <2>5. \A k \in Handler \ {h} : handler'[k] = handler[k]
    BY <2>1 DEF HandlerGoto, HandlerBecomes, TypeOK
  <2>6. /\ handler'[h].pc = "drop" => handler'[h].misses # <<>>
        /\ handler'[h].fmb = x.fmb
    BY <1>4, <2>2, <2>3, <2>4, Zenon DEF HandlerReceive
  <2> QED
    BY <1>4, <2>5, <2>6 DEF HandlerReceive, HandlerLocal, NextFmb
<1>5. CASE HandlerDrop(h)
  <2>1. /\ handler'[h].pc = (IF HasRoom(Len(drop_keys)) THEN "drop_wake" ELSE "receive")
        /\ handler'[h].fmb = x.fmb
        /\ \A k \in Handler \ {h} : handler'[k] = handler[k]
    BY <1>0, <1>5 DEF HandlerDrop, HandlerBecomes, StructHandler, TypeOK
  <2> QED
    BY <1>5, <2>1 DEF HandlerDrop, NextFmb
<1>6. CASE HandlerDropWake(h)
  <2>1. /\ handler'[h].pc = "receive" /\ handler'[h].fmb = x.fmb
        /\ \A k \in Handler \ {h} : handler'[k] = handler[k]
    BY <1>6, HandlerMoved, Zenon DEF HandlerDropWake, HandlerPC
  <2> QED
    BY <1>6, <2>1 DEF HandlerDropWake, NextFmb, SeqChange
<1>7. CASE HandlerExecute(h)
  <2>1. PICK f \in x.todo :
            LET done == [x EXCEPT !.todo = @ \ {f}, !.fmb.gen[f] = gen]
            IN  \/ HandlerBecomes(h, done) /\ UNCHANGED <<config, gen>>
                \/ /\ MoreEvents
                   /\ config' = [config EXCEPT !.changes = @ + 1]
                   /\ gen' = gen + 1
                   /\ HandlerBecomes(h, [done EXCEPT !.pc = "learned"])
    BY <1>7, Zenon DEF HandlerExecute
  <2> DEFINE done == [x EXCEPT !.todo = @ \ {f}, !.fmb.gen[f] = gen]
             learned == [done EXCEPT !.pc = "learned"]
  <2>2. /\ done.pc = x.pc /\ learned.pc = "learned" /\ learned.fmb = done.fmb
        /\ done.fmb = [x.fmb EXCEPT !.gen[f] = gen] /\ f \in Flow
    BY <1>0 DEF StructHandler, Fmb
  <2>3. \/ HandlerBecomes(h, done) /\ gen' = gen
        \/ HandlerBecomes(h, learned)
    BY <2>1, Zenon
  <2> HIDE DEF done, learned
  <2>4. /\ \A k \in Handler \ {h} : handler'[k] = handler[k]
        /\ (handler'[h] = done /\ gen' = gen) \/ handler'[h] = learned
    BY <2>3 DEF HandlerBecomes, TypeOK
  <2>5. /\ handler'[h].pc \in {x.pc, "learned"} /\ NextFmb(x.fmb, handler'[h].fmb)
        /\ gen' = gen \/ handler'[h].pc = "learned"
    BY <2>2, <2>4, Zenon DEF NextFmb
  <2> QED
    BY <1>7, <2>4, <2>5 DEF HandlerExecute, Received
<1>8. CASE HandlerLearned(h)
  <2>1. /\ handler'[h].pc = "receive" /\ handler'[h].fmb = x.fmb
        /\ \A k \in Handler \ {h} : handler'[k] = handler[k]
    BY <1>8, HandlerMoved, Zenon DEF HandlerLearned, HandlerPC
  <2>2. backer'.need_revalidate
    BY <1>8 DEF HandlerLearned, TypeOK
  <2> QED
    BY <1>8, <2>1, <2>2 DEF HandlerLearned, NextFmb
<1>9. CASE HandlerCheck(h)
  <2> DEFINE hd == [x EXCEPT !.pc = "top", !.fmb = EmptyFmb(0)]
  <2>a. hd \in StructHandler /\ hd.pc = "top" /\ hd.fmb = EmptyFmb(0)
    BY <1>0, StoppedType, Zenon DEF StructHandler, HandlerPC
  <2>b. HandlerGoto(h, "push") \/ HandlerBecomes(h, hd)
    BY <1>9 DEF HandlerCheck
  <2> HIDE DEF hd
  <2>1. /\ handler'[h].pc \in {"push", "top"} /\ handler'[h].fmb \in {x.fmb, EmptyFmb(0)}
        /\ \A k \in Handler \ {h} : handler'[k] = handler[k]
    BY <2>a, <2>b, HandlerMoved, HandlerReplaced, Zenon DEF HandlerPC
  <2> QED
    BY <1>9, <2>1 DEF HandlerCheck, HandlerLocal, NextFmb, Received
<1>10. CASE HandlerPush(h)
  <2>1. /\ handler'[h].pc = (IF HasRoom(Len(fmbs)) THEN "wake" ELSE "top")
        /\ handler'[h].fmb = EmptyFmb(0)
        /\ \A k \in Handler \ {h} : handler'[k] = handler[k]
    BY <1>0, <1>10 DEF HandlerPush, HandlerBecomes, StructHandler, TypeOK
  <2> QED
    BY <1>10, <2>1 DEF HandlerPush, NextFmb
<1>11. CASE HandlerWake(h)
  <2>1. /\ handler'[h].pc = "top" /\ handler'[h].fmb = x.fmb
        /\ \A k \in Handler \ {h} : handler'[k] = handler[k]
    BY <1>11, HandlerMoved, Zenon DEF HandlerWake, HandlerPC
  <2> QED
    BY <1>11, <2>1 DEF HandlerWake, NextFmb, SeqChange
<1>12. CASE HandlerSpurious(h)
  <2>1. /\ handler'[h].pc = "take" /\ handler'[h].fmb = x.fmb
        /\ \A k \in Handler \ {h} : handler'[k] = handler[k]
    BY <1>12, HandlerMoved, ZenonT(30) DEF HandlerSpurious, HandlerPC
  <2> QED
    BY <1>12, <2>1 DEF HandlerSpurious, NextFmb
<1> QED
  BY <1>1, <1>2, <1>3, <1>4, <1>5, <1>6, <1>7, <1>8, <1>9, <1>10, <1>11, <1>12, ZenonT(30) DEF HandlerStep

-------------------------------------------------------------------------------
(* The threads that run.                                                      *)

\* The steps of main that start, signal or stop threads.
LEMMA MainThreads ==
    ASSUME TypeOK, Threads, MainStep \/ MainChange
    PROVE  \/ UNCHANGED <<handler, n_handlers, dispatcher>>
           \/ /\ \A k \in Handler : Nudged(handler[k], handler'[k])
              /\ UNCHANGED <<n_handlers, dispatcher>>
           \/ /\ \A k \in Handler : HandlerIs(k, "exited")
              /\ \E n \in 0 .. MaxHandlers :
                    n_handlers' = n /\ handler' = HandlersFrom(n) /\ dispatcher' = DispatcherFrom(n)
<1> USE DEF threadVars, udpifVars
<1>h. \A k \in Handler : k \in Nat
  BY UdpifAssumption DEF Handler
<1>w. \A e \in BOOLEAN : Wanted(e) \in 0 .. MaxHandlers
  BY UdpifAssumption DEF Wanted, TypeOK
<1>1. CASE MainChange
  BY <1>1, Zenon DEF MainChange, FlowMod, Destruct, PortConstruct, PortDestruct, SetThreads, Change
<1>2. CASE TypeRun
  <2>1. \/ UNCHANGED <<n_handlers, handler, dispatcher>>
        \/ n_handlers = 0 /\ \E n \in 0 .. MaxHandlers :
             n_handlers' = n /\ handler' = HandlersFrom(n) /\ dispatcher' = DispatcherFrom(n)
    BY <1>2, <1>w, Zenon DEF TypeRun, TypeOK
  <2> QED
    BY <1>h, <2>1 DEF Threads
<1>3. CASE RecvSetSignal
  <2>1. \A k \in Handler : Nudged(handler[k], handler'[k])
    <3>1. \A k \in Handler : handler[k] \in StructHandler
      BY DEF TypeOK
    <3>2. DOMAIN handler = Handler
      BY DEF TypeOK
    <3> DEFINE h == Least(unsignalled)
    <3>3. handler' = handler \/ handler' = [handler EXCEPT ![h] = Signalled(handler[h])]
      BY <1>3 DEF RecvSetSignal
    <3> HIDE DEF h
    <3>4. \A k \in Handler : handler'[k] = handler[k] \/ handler'[k] = Signalled(handler[k])
      BY <3>2, <3>3
    <3> QED
      BY <3>1, <3>4, SignalledNudged
  <2> QED
    BY <1>3, <2>1 DEF RecvSetSignal
<1>4. CASE RecvSetJoin
  <2>1. \A k \in Handler : HandlerIs(k, "exited")
    <3>1. n_handlers \in Nat
      BY UdpifAssumption DEF TypeOK
    <3> QED
      BY <1>4, <1>h, <3>1 DEF RecvSetJoin, Threads
  <2> QED
    BY <1>4, <1>w, <2>1 DEF RecvSetJoin, TypeOK
<1>5. CASE HandleUpcalls \/ HandleDropKeys \/ HandleFlowMisses \/ TypeRunFails
  BY <1>5 DEF HandleUpcalls, HandleDropKeys, HandleFlowMisses, TypeRunFails
<1>6. CASE TakeNeedRevalidate \/ XlateSet \/ FacetRevalidate \/ UdpifRevalidate \/ UdpifRevalidateClear
  BY <1>6 DEF TakeNeedRevalidate, XlateSet, FacetRevalidate, UdpifRevalidate, UdpifRevalidateClear
<1>7. CASE Expire \/ ExpireNotYet \/ ConfDone
  BY <1>7, ZenonT(30) DEF Expire, ExpireNotYet, ConfDone
<1>8. CASE UdpifWaitRead \/ UdpifWaitCheck \/ UdpifWaitArm \/ OfprotoWait \/ MainBlock
              \/ MainWoken \/ MainTimer
  BY <1>8 DEF UdpifWaitRead, UdpifWaitCheck, UdpifWaitArm, OfprotoWait, MainBlock,
              MainWoken, MainTimer, MainWaits
<1> QED
  BY <1>1, <1>2, <1>3, <1>4, <1>5, <1>6, <1>7, <1>8 DEF MainStep

LEMMA ThreadsPreserved == TypeOK /\ Threads /\ Next => Threads'
<1> SUFFICES ASSUME TypeOK, Threads, Next PROVE Threads'
  BY Zenon
<1>n. ASSUME \A k \in Handler : Nudged(handler[k], handler'[k]), UNCHANGED n_handlers,
             dispatcher'.pc # "exited" => dispatcher.pc # "exited"
      PROVE  Threads'
  BY <1>n DEF Threads, Nudged, HandlerIs
<1>1. CASE DispatcherStep
  BY <1>1, <1>n, DispatcherEffect DEF udpifVars
<1>2. ASSUME NEW h \in Handler, HandlerStep(h) \/ HandlerSpurious(h) PROVE Threads'
  <2>1. /\ \A k \in Handler \ {h} : handler'[k] = handler[k]
        /\ ~HandlerIs(h, "exited") /\ UNCHANGED <<dispatcher, n_handlers>>
        /\ handler'[h].pc = "drop" => handler'[h].misses # <<>>
    BY <1>2, HandlerEffect DEF udpifVars
  <2> QED
    BY <2>1 DEF Threads, HandlerIs
<1>3. CASE MainStep \/ MainChange
  <2>1. CASE UNCHANGED <<handler, n_handlers, dispatcher>>
    BY <2>1 DEF Threads, HandlerIs
  <2>2. ASSUME NEW n \in 0 .. MaxHandlers,
               n_handlers' = n /\ handler' = HandlersFrom(n) /\ dispatcher' = DispatcherFrom(n)
        PROVE  Threads'
    BY <2>2, StartType DEF Threads, HandlerIs
  <2> QED
    BY <1>3, <1>n, <2>1, <2>2, MainThreads
<1> QED
  BY <1>1, <1>2, <1>3 DEF Next

-------------------------------------------------------------------------------
(* Main is not left asleep.                                                   *)

\* seq_change() wakes main if it may sleep.
LEMMA ChangeWakes ==
    ASSUME TypeOK, Awake, SeqChange
    PROVE  Awake'
<1>1. /\ changed' = {<<main, wait_seq>>} /\ pc' = pc
      /\ wake' = wake \union (IF armed = {} THEN {} ELSE {main})
  BY SeqChanged DEF mainVars
<1>2. pc \in {"flag", "block", "blocked"} => main \in wake'
  BY <1>1, Zenon DEF Awake
<1> QED
  BY <1>1, <1>2, Zenon DEF Awake

\* The other threads' steps keep what main counts on.
LEMMA AwakeFrame ==
    ASSUME Awake, UNCHANGED <<pc, wakeVars>>, Announced => Announced'
    PROVE  Awake'
BY DEF Awake, wakeVars

LEMMA AwakePreserved == TypeOK /\ Threads /\ Awake /\ Next => Awake'
<1> SUFFICES ASSUME TypeOK, Threads, Awake, Next PROVE Awake'
  OBVIOUS
<1>1. CASE DispatcherStep
  <2>1. CASE SeqChange
    BY <2>1, ChangeWakes
  <2>2. CASE /\ UNCHANGED wakeVars
             /\ upcalls' = upcalls \/ upcalls' = upcalls + 1
             /\ upcalls' # upcalls => dispatcher'.new = upcalls'
             /\ upcalls' = upcalls => dispatcher'.new = dispatcher.new
    <3>1. \A k \in Handler : Nudged(handler[k], handler'[k])
      BY <1>1, DispatcherEffect
    <3>2. UNCHANGED <<drop_keys, fmbs, pc>>
      BY <1>1, DispatcherEffect DEF mainVars
    <3>3. upcalls \in Nat
      BY UdpifAssumption DEF TypeOK
    <3>4. Announced => Announced'
      BY <2>2, <3>1, <3>2, <3>3 DEF Announced, Nudged, HandlerIs
    <3> QED
      BY <2>2, <3>2, <3>4, AwakeFrame
  <2> QED
    BY <1>1, <2>1, <2>2, DispatcherEffect
<1>2. ASSUME NEW h \in Handler, HandlerStep(h) \/ HandlerSpurious(h) PROVE Awake'
  <2>1. CASE SeqChange
    BY <2>1, ChangeWakes
  <2>2. CASE ~SeqChange
    <3>1. UNCHANGED wakeVars /\ ~HandlerIs(h, "drop_wake") /\ ~HandlerIs(h, "wake")
      BY <1>2, <2>2, HandlerEffect, Zenon
    <3>2. /\ \A k \in Handler \ {h} : handler'[k] = handler[k]
          /\ UNCHANGED <<dispatcher, upcalls, pc>>
          /\ drop_keys' # drop_keys => handler'[h].pc = "drop_wake"
          /\ fmbs' # fmbs => handler'[h].pc = "wake"
      BY <1>2, HandlerEffect
    <3>3. Announced => Announced'
      BY <3>1, <3>2 DEF Announced, HandlerIs
    <3> QED
      BY <3>1, <3>2, <3>3, AwakeFrame
  <2> QED
    BY <2>1, <2>2
<1>3. CASE MainStep \/ MainChange
  <2>q. pc' \notin {"arm", "flag", "block", "blocked"} => Awake'
    BY DEF Awake
  <2>r. ret \notin {"arm", "flag", "block", "blocked"}
    BY DEF TypeOK
  <2>1. CASE MainChange
    BY <2>1, <2>q, Zenon DEF MainChange, FlowMod, Destruct, PortConstruct, PortDestruct, SetThreads, Change
  <2>2. CASE HandleUpcalls \/ HandleDropKeys \/ HandleFlowMisses \/ TypeRun \/ TypeRunFails
                \/ RecvSetSignal \/ RecvSetJoin
    BY <2>2, <2>q, <2>r DEF HandleUpcalls, HandleDropKeys, HandleFlowMisses, TypeRun, TypeRunFails,
                RecvSetSignal, RecvSetJoin, MainGoto
  <2>3. CASE TakeNeedRevalidate \/ XlateSet \/ FacetRevalidate \/ UdpifRevalidate
                \/ UdpifRevalidateClear \/ Expire \/ ExpireNotYet \/ ConfDone
    BY <2>3, <2>q, <2>r DEF TakeNeedRevalidate, XlateSet, FacetRevalidate, UdpifRevalidate,
                UdpifRevalidateClear, Expire, ExpireNotYet, ConfDone, MainGoto
  <2>4. CASE UdpifWaitRead \/ MainWoken \/ MainTimer
    BY <2>4, <2>q DEF UdpifWaitRead, MainWoken, MainTimer, MainWaits
  <2>u. ASSUME UNCHANGED <<threadVars, queueVars>> PROVE Announced' = Announced
    BY <2>u DEF threadVars, queueVars, Announced, HandlerIs
  <2>5. CASE UdpifWaitCheck
    <3>1. CASE QueuesEmpty
      <4>1. Announced'
        BY <2>5, <3>1 DEF UdpifWaitCheck, MainWaits, QueuesEmpty, Announced, queueVars
      <4> QED
        BY <2>5, <3>1, <4>1 DEF UdpifWaitCheck, MainWaits, Awake
    <3>2. CASE ~QueuesEmpty
      BY <2>5, <3>2 DEF UdpifWaitCheck, MainWaits, Awake, Wait!WakeNow
    <3> QED
      BY <3>1, <3>2
  <2>6. CASE UdpifWaitArm
    <3>1. UNCHANGED <<threadVars, queueVars>> /\ pc = "arm" /\ pc' = "flag"
      BY <2>6 DEF UdpifWaitArm, MainWaits
    <3>2. changed \subseteq {<<main, wait_seq>>} /\ armed \subseteq {<<main, wait_seq>>}
      BY DEF TypeOK
    <3>3. IF <<main, wait_seq>> \in changed THEN wake' = wake \union {main}
                                            ELSE armed' = armed \union {<<main, wait_seq>>}
      BY <2>6 DEF UdpifWaitArm, Wait!Wait
    <3>4. main \in wake' \/ (changed = {} /\ armed' = {<<main, wait_seq>>})
      BY <3>2, <3>3
    <3> QED
      BY <2>u, <3>1, <3>4 DEF Awake
  <2>7. CASE OfprotoWait
    <3>1. UNCHANGED <<threadVars, queueVars>> /\ pc = "flag" /\ pc' = "block"
      BY <2>7 DEF OfprotoWait, MainWaits
    <3>2. main \in wake' \/ UNCHANGED wakeVars
      BY <2>7 DEF OfprotoWait, Wait!WakeNow
    <3> QED
      BY <2>u, <3>1, <3>2 DEF Awake, wakeVars
  <2>8. CASE MainBlock
    <3>1. UNCHANGED <<threadVars, queueVars>> /\ pc = "block" /\ pc' = "blocked"
      BY <2>8 DEF MainBlock, MainWaits
    <3>2. UNCHANGED <<armed, wake>>
      BY <2>8 DEF MainBlock, Wait!Block
    <3> QED
      BY <2>u, <3>1, <3>2 DEF Awake
  <2> QED
    BY <1>3, <2>1, <2>2, <2>3, <2>4, <2>5, <2>6, <2>7, <2>8 DEF MainStep
<1> QED
  BY <1>1, <1>2, <1>3 DEF Next

-------------------------------------------------------------------------------
(* What is installed is up to date.                                           *)

\* The batches that a step leaves.
LEMMA BatchesAre ==
    ASSUME NEW b
    PROVE  b \in Batches <=> \/ b \in {fmbs[i] : i \in DOMAIN fmbs}
                             \/ \E h \in Handler : b = handler[h].fmb
BY DEF Batches

\* A batch that holds nothing.
LEMMA EmptyBatch ==
    ASSUME NEW n \in Nat
    PROVE  EmptyFmb(n).reval_seq = n /\ \A f \in Flow : EmptyFmb(n).gen[f] = 0
BY DEF EmptyFmb

\* Unless type_run() is between drop_key_clear() and udpif_revalidate(), a step
\* that adds no batch, keeps the facets or drops some, and withdraws no request to
\* revalidate, leaves nothing old.
LEMMA FreshFrame ==
    ASSUME TypeOK, Fresh, UNCHANGED <<reval_seq, gen>>,
           pc \notin {"xlate", "facet"}, pc' \notin {"xlate", "facet"},
           Dirty => Dirty',
           \A f \in Flow : facets'[f] \in {0, facets[f]},
           Batches' \subseteq Batches \union {EmptyFmb(0)}
    PROVE  Fresh'
<1>1. reval_seq \in Nat
  BY Zenon DEF TypeOK
<1>2. EmptyFmb(0).reval_seq = 0 /\ \A f \in Flow : EmptyFmb(0).gen[f] = 0
  BY EmptyBatch
<1>3. \A b \in Batches' : b.reval_seq <= reval_seq'
  BY <1>1, <1>2 DEF Fresh
<1>4. ASSUME ~Dirty'
      PROVE  /\ \A f \in Flow : ~Old(facets[f])'
             /\ \A b \in Batches' : b.reval_seq = reval_seq' => \A f \in Flow : ~Old(b.gen[f])'
  <2>1. /\ \A f \in Flow : ~Old(facets[f])
        /\ \A b \in Batches : b.reval_seq = reval_seq => \A f \in Flow : ~Old(b.gen[f])
    BY <1>4 DEF Fresh
  <2>2. \A f \in Flow : ~Old(facets[f])'
    BY <2>1 DEF Old
  <2>3. ASSUME NEW b \in Batches', b.reval_seq = reval_seq', NEW f \in Flow
        PROVE  ~Old(b.gen[f])'
    BY <1>2, <2>1, <2>3 DEF Old
  <2> QED
    BY <2>2, <2>3
<1> HIDE DEF Batches
<1> QED
  BY <1>3, <1>4 DEF Fresh

\* The steps of the dispatcher, and of main where it does not touch the batches.
LEMMA BatchesFrame ==
    ASSUME UNCHANGED fmbs, \A k \in Handler : handler'[k].fmb = handler[k].fmb
    PROVE  Batches' = Batches
BY DEF Batches

LEMMA FreshDispatcher == TypeOK /\ Threads /\ Fresh /\ DispatcherStep => Fresh'
<1> SUFFICES ASSUME TypeOK, Threads, Fresh, DispatcherStep PROVE Fresh'
  OBVIOUS
<1>1. /\ \A k \in Handler : Nudged(handler[k], handler'[k])
      /\ UNCHANGED <<fmbs, reval_seq, gen, facets, unchecked, pc, backer>>
  BY DispatcherEffect DEF udpifVars, xlateVars, mainVars
<1>2. Batches' = Batches
  BY <1>1, BatchesFrame DEF Nudged
<1>3. Dirty' = Dirty
  BY <1>1, ZenonT(30) DEF Dirty, Nudged, HandlerIs
<1> QED
  BY <1>1, <1>2, <1>3 DEF Fresh, Old

LEMMA FreshHandler ==
    ASSUME TypeOK, Threads, Fresh, NEW h \in Handler, HandlerStep(h) \/ HandlerSpurious(h)
    PROVE  Fresh'
<1> DEFINE x == handler[h]
           y == handler'[h]
<1>1. /\ \A k \in Handler \ {h} : handler'[k] = handler[k]
      /\ UNCHANGED <<reval_seq, facets, unchecked, pc>>
      /\ fmbs' = fmbs \/ fmbs' = Append(fmbs, x.fmb)
      /\ UNCHANGED backer \/ backer'.need_revalidate
      /\ HandlerIs(h, "learned") => backer'.need_revalidate
      /\ gen' = gen \/ y.pc = "learned"
      /\ NextFmb(x.fmb, y.fmb)
  BY HandlerEffect, Zenon DEF udpifVars
<1>2. x.fmb \in Fmb /\ reval_seq \in Nat /\ gen \in Nat /\ fmbs \in Seq(Fmb)
  BY DEF TypeOK, StructHandler
<1>3. Batches' \subseteq Batches \union {y.fmb}
  <2>1. {fmbs'[i] : i \in DOMAIN fmbs'} \subseteq {fmbs[i] : i \in DOMAIN fmbs} \union {x.fmb}
    <3> DEFINE b == x.fmb
    <3>1. b \in Fmb /\ fmbs \in Seq(Fmb) /\ (fmbs' = fmbs \/ fmbs' = Append(fmbs, b))
      BY <1>1, <1>2, Zenon
    <3> HIDE DEF b
    <3>2. {Append(fmbs, b)[i] : i \in DOMAIN Append(fmbs, b)}
            = {fmbs[i] : i \in DOMAIN fmbs} \union {b}
      BY <3>1, AppendItems
    <3>3. {fmbs'[i] : i \in DOMAIN fmbs'} \subseteq {fmbs[i] : i \in DOMAIN fmbs} \union {b}
      BY <3>1, <3>2
    <3> QED
      BY <3>3 DEF b
  <2> QED
    BY <1>1, <2>1 DEF Batches
<1>4. x.fmb \in Batches
  BY DEF Batches
<1>5. y.fmb.reval_seq <= reval_seq
  <2>1. x.fmb.reval_seq <= reval_seq
    BY <1>4 DEF Fresh
  <2>2. \A f \in Flow : [x.fmb EXCEPT !.gen[f] = gen].reval_seq = x.fmb.reval_seq
    BY <1>2 DEF Fmb
  <2>3. EmptyFmb(0).reval_seq <= reval_seq /\ EmptyFmb(reval_seq).reval_seq <= reval_seq
    BY <1>2, EmptyBatch
  <2>4. \/ y.fmb \in {x.fmb, EmptyFmb(0), EmptyFmb(reval_seq)}
        \/ \E f \in Flow : y.fmb = [x.fmb EXCEPT !.gen[f] = gen]
    BY <1>1, Zenon DEF NextFmb
  <2> QED
    BY <2>1, <2>2, <2>3, <2>4, Zenon
<1>6. \A b \in Batches' : b.reval_seq <= reval_seq'
  BY <1>1, <1>3, <1>5, ZenonT(30) DEF Fresh
<1>7. ~Dirty' => ~Dirty /\ gen' = gen
  BY <1>1 DEF Dirty, HandlerIs
<1>8. ASSUME ~Dirty', pc' \notin {"xlate", "facet"}
      PROVE  \A b \in Batches' : b.reval_seq = reval_seq' => \A f \in Flow : ~Old(b.gen[f])'
  <2>1. \A b \in Batches : b.reval_seq = reval_seq => \A f \in Flow : ~Old(b.gen[f])
    BY <1>1, <1>7, <1>8, Zenon DEF Fresh
  <2>2. ASSUME y.fmb.reval_seq = reval_seq, NEW f \in Flow PROVE ~Old(y.fmb.gen[f])
    <3>1. CASE y.fmb = x.fmb
      BY <1>4, <2>1, <2>2, <3>1, ZenonT(30)
    <3>2. CASE y.fmb = EmptyFmb(0) \/ y.fmb = EmptyFmb(reval_seq)
      BY <1>2, <3>2, EmptyBatch DEF Old
    <3>3. ASSUME NEW g \in Flow, y.fmb = [x.fmb EXCEPT !.gen[g] = gen] PROVE ~Old(y.fmb.gen[f])
      <4>1. y.fmb.reval_seq = x.fmb.reval_seq /\ y.fmb.gen[f] = IF f = g THEN gen ELSE x.fmb.gen[f]
        BY <1>2, <3>3, Zenon DEF Fmb
      <4>2. ~Old(x.fmb.gen[f])
        BY <1>4, <2>1, <2>2, <4>1, Zenon
      <4> QED
        BY <4>1, <4>2 DEF Old
    <3> QED
      BY <1>1, <3>1, <3>2, <3>3, Zenon DEF NextFmb
  <2>3. gen' = gen /\ reval_seq' = reval_seq
    BY <1>1, <1>7, <1>8
  <2>4. ASSUME NEW b \in Batches', b.reval_seq = reval_seq', NEW f \in Flow PROVE ~Old(b.gen[f])'
    <3>1. b \in Batches \/ b = y.fmb
      BY <1>3
    <3>2. ~Old(b.gen[f])
      BY <2>1, <2>2, <2>3, <2>4, <3>1, Zenon
    <3> QED
      BY <2>3, <3>2 DEF Old
  <2> QED
    BY <2>4
<1> HIDE DEF Batches
<1> QED
  BY <1>1, <1>6, <1>7, <1>8, SMTT(30) DEF Fresh, Old

\* Main's own steps.
LEMMA FreshMain == LeastNumber /\ TypeOK /\ Threads /\ Fresh /\ MainStep => Fresh'
<1> SUFFICES ASSUME LeastNumber, TypeOK, Threads, Fresh, MainStep PROVE Fresh'
  OBVIOUS
<1> USE DEF udpifVars, queueVars, xlateVars, threadVars
<1>r. ret \notin {"xlate", "facet"}
  BY DEF TypeOK
\* Requests to revalidate and the handlers' batches, whatever main does to the threads.
<1>h. (\E k \in Handler : HandlerIs(k, "learned")) => (\E k \in Handler : HandlerIs(k, "learned"))'
  BY MainThreads DEF Nudged, HandlerIs
<1>d. (backer.need_revalidate => backer'.need_revalidate) => (Dirty => Dirty')
  BY <1>h DEF Dirty
<1>b. \A k \in Handler : handler'[k].fmb \in {handler[k].fmb, EmptyFmb(0)}
  BY MainThreads, StartType DEF Nudged
<1>q. {fmbs'[i] : i \in DOMAIN fmbs'} \subseteq {fmbs[i] : i \in DOMAIN fmbs}
        => Batches' \subseteq Batches \union {EmptyFmb(0)}
  BY <1>b DEF Batches
<1>f. ASSUME UNCHANGED <<reval_seq, gen, facets, fmbs>>,
             pc \notin {"xlate", "facet"}, pc' \notin {"xlate", "facet"},
             backer.need_revalidate => backer'.need_revalidate
      PROVE  Fresh'
  <2>1. \A f \in Flow : facets'[f] \in {0, facets[f]}
    BY <1>f
  <2>2. Batches' \subseteq Batches \union {EmptyFmb(0)}
    BY <1>f, <1>q
  <2> QED
    BY <1>f, <1>d, <2>1, <2>2, FreshFrame
<1>1. CASE HandleUpcalls \/ HandleDropKeys
  BY <1>1, <1>f, Zenon DEF HandleUpcalls, HandleDropKeys, MainGoto, TypeOK
<1>2. CASE TypeRun \/ TypeRunFails
  BY <1>2, <1>f, ZenonT(30) DEF TypeRun, TypeRunFails, MainGoto, TypeOK
<1>3. CASE RecvSetSignal \/ RecvSetJoin
  BY <1>3, <1>f DEF RecvSetSignal, RecvSetJoin, MainGoto
<1>4. CASE ExpireNotYet \/ ConfDone
  BY <1>4, <1>f DEF ExpireNotYet, ConfDone, MainGoto
<1>5. CASE UdpifWaitRead \/ UdpifWaitCheck \/ UdpifWaitArm \/ OfprotoWait \/ MainBlock
              \/ MainWoken \/ MainTimer
  BY <1>5, <1>f, ZenonT(30) DEF UdpifWaitRead, UdpifWaitCheck, UdpifWaitArm, OfprotoWait, MainBlock,
              MainWoken, MainTimer, MainWaits
<1>6. CASE Expire
  <2>1. \A f \in Flow : facets'[f] \in {0, facets[f]}
    BY <1>6 DEF Expire
  <2>2. UNCHANGED <<reval_seq, gen, fmbs>> /\ pc = "expire" /\ pc' = "conf"
    BY <1>6 DEF Expire, MainGoto
  <2>3. backer.need_revalidate => backer'.need_revalidate
    BY <1>6 DEF Expire, TypeOK
  <2> QED
    BY <1>d, <1>q, <2>1, <2>2, <2>3, FreshFrame
<1>7. CASE UdpifRevalidateClear
  <2>1. UNCHANGED <<reval_seq, gen, facets, backer>> /\ pc = "clear" /\ pc' = ret /\ fmbs' = <<>>
    BY <1>7 DEF UdpifRevalidateClear, MainGoto
  <2>2. Batches' \subseteq Batches \union {EmptyFmb(0)}
    BY <1>q, <2>1, EmptyQueue
  <2> QED
    BY <1>d, <1>r, <2>1, <2>2, FreshFrame
<1>8. CASE TakeNeedRevalidate
  <2>1. CASE backer.need_revalidate
    <3>1. UNCHANGED <<handler, fmbs, reval_seq>> /\ pc' = "xlate"
      BY <1>8, <2>1 DEF TakeNeedRevalidate, MainGoto
    <3>2. Batches' = Batches
      BY <3>1, BatchesFrame
    <3> QED
      BY <3>1, <3>2 DEF Fresh
  <2>2. CASE ~backer.need_revalidate
    BY <1>8, <1>f, <2>2 DEF TakeNeedRevalidate, MainGoto
  <2> QED
    BY <2>1, <2>2
<1>9. CASE XlateSet
  <2>1. UNCHANGED <<handler, fmbs, reval_seq, facets>> /\ pc' = "facet"
        /\ unchecked' = {f \in Flow : facets[f] # 0}
    BY <1>9 DEF XlateSet, MainGoto
  <2>2. Batches' = Batches
    BY <2>1, BatchesFrame, ZenonT(30)
  <2> QED
    BY <2>1, <2>2 DEF Fresh, Old
<1>10. CASE FacetRevalidate
  <2>1. UNCHANGED <<handler, fmbs, reval_seq, gen, backer>> /\ pc = "facet" /\ pc' = "facet"
    BY <1>10 DEF FacetRevalidate, MainGoto
  <2>2. PICK f \in unchecked : facets' = [facets EXCEPT ![f] = Revalidated(f)]
                               /\ unchecked' = unchecked \ {f}
    BY <1>10, Zenon DEF FacetRevalidate
  <2>3. Batches' = Batches /\ Dirty' = Dirty
    BY <2>1, BatchesFrame DEF Dirty, HandlerIs
  <2>4. ASSUME ~Dirty, NEW k \in Flow \ unchecked' PROVE ~Old(facets[k])'
    <3>1. k \notin unchecked => ~Old(facets[k])
      BY <2>1, <2>4, Zenon DEF Fresh
    <3>2. facets'[k] = IF k = f THEN Revalidated(f) ELSE facets[k]
      BY <2>2 DEF TypeOK
    <3> QED
      BY <2>1, <2>2, <2>4, <3>1, <3>2, Zenon DEF Old, Revalidated
  <2> QED
    BY <2>1, <2>3, <2>4 DEF Fresh
<1>11. CASE UdpifRevalidate
  <2>1. /\ UNCHANGED <<handler, fmbs, facets, gen, backer>> /\ pc' = "clear" /\ reval_seq' = reval_seq + 1
        /\ pc = "reval" \/ (pc = "facet" /\ unchecked = {})
    BY <1>11 DEF UdpifRevalidate, MainGoto
  <2>2. Batches' = Batches /\ Dirty' = Dirty
    BY <2>1, BatchesFrame DEF Dirty, HandlerIs
  <2>3. \A b \in Batches : b.reval_seq \in Nat
    <3>1. \A i \in DOMAIN fmbs : fmbs[i] \in Fmb
      BY ElementOfSeq, LenProperties DEF TypeOK
    <3>2. \A k \in Handler : handler[k].fmb \in Fmb
      BY DEF TypeOK, StructHandler
    <3> QED
      BY <3>1, <3>2 DEF Batches, Fmb
  <2>4. reval_seq \in Nat
    BY DEF TypeOK
  <2>5. \A b \in Batches' : b.reval_seq <= reval_seq' /\ b.reval_seq # reval_seq'
    BY <2>1, <2>2, <2>3, <2>4 DEF Fresh
  <2>6. ~Dirty => \A f \in Flow : ~Old(facets[f])
    BY <2>1 DEF Fresh
  <2> QED
    BY <2>1, <2>2, <2>5, <2>6 DEF Fresh, Old
<1>12. CASE HandleFlowMisses
  <2>1. UNCHANGED <<handler, reval_seq, gen, backer>> /\ pc = "fmb" /\ pc' = ret /\ fmbs' = Suffix(fmbs, Popped)
    BY <1>12 DEF HandleFlowMisses, MainGoto
  <2>2. Popped \in Nat /\ Popped <= Len(fmbs)
    BY PoppedInRange
  <2>3. Batches' \subseteq Batches
    <3>1. {fmbs'[i] : i \in DOMAIN fmbs'} \subseteq {fmbs[i] : i \in DOMAIN fmbs}
      <4>1. fmbs \in Seq(Fmb)
        BY DEF TypeOK
      <4>2. {Suffix(fmbs, Popped)[i] : i \in DOMAIN Suffix(fmbs, Popped)}
              \subseteq {fmbs[i] : i \in DOMAIN fmbs}
        BY <2>2, <4>1, SuffixProperties, Zenon
      <4> QED
        BY <2>1, <4>2
    <3> QED
      BY <2>1, <3>1 DEF Batches
  <2>4. Dirty' = Dirty
    BY <2>1 DEF Dirty, HandlerIs
  <2>5. ASSUME ~Dirty, NEW f \in Flow PROVE ~Old(facets[f])'
    <3>1. ~Old(facets[f])
      BY <2>1, <2>5 DEF Fresh
    <3>2. CASE Popped > 0 /\ fmbs[Popped].reval_seq = reval_seq
      <4>1. PICK refused \in SUBSET Flow :
                facets' = [k \in Flow |-> MissOutcome(k, fmbs[Popped].gen[k], k \in refused)]
        BY <1>12, <3>2, Zenon DEF HandleFlowMisses
      <4>2. Popped \in DOMAIN fmbs
        BY <2>2, <3>2, LenProperties DEF TypeOK
      <4>3. fmbs[Popped] \in Batches
        BY <4>2 DEF Batches
      <4>4. ~Old(fmbs[Popped].gen[f])
        BY <2>1, <2>5, <3>2, <4>3, Zenon DEF Fresh
      <4>5. facets'[f] \in {facets[f], fmbs[Popped].gen[f]}
        BY <2>5, <4>1, ZenonT(30) DEF MissOutcome, Dirty
      <4> QED
        BY <2>1, <3>1, <4>4, <4>5, Zenon DEF Old
    <3>3. CASE ~(Popped > 0 /\ fmbs[Popped].reval_seq = reval_seq)
      BY <1>12, <2>1, <3>1, <3>3 DEF HandleFlowMisses, Old
    <3> QED
      BY <3>2, <3>3
  <2> QED
    BY <1>r, <2>1, <2>3, <2>4, <2>5, ZenonT(30) DEF Fresh, Old
<1> QED
  BY <1>1, <1>2, <1>3, <1>4, <1>5, <1>6, <1>7, <1>8, <1>9, <1>10, <1>11, <1>12 DEF MainStep

\* A change asks to revalidate, or changes nothing that is translated.
LEMMA FreshChange == TypeOK /\ Threads /\ Fresh /\ MainChange => Fresh'
<1> SUFFICES ASSUME TypeOK, Threads, Fresh, MainChange PROVE Fresh'
  OBVIOUS
<1>1. UNCHANGED <<handler, fmbs, reval_seq>> /\ pc = "conf" /\ pc' \in {"conf", "reval"}
  BY Zenon DEF MainChange, FlowMod, Destruct, PortConstruct, PortDestruct, SetThreads, Change,
         threadVars, queueVars, udpifVars
<1>2. Batches' = Batches
  BY <1>1, BatchesFrame
<1>3. backer'.need_revalidate \/ UNCHANGED <<backer, gen, facets>>
  <2>1. NeedRevalidate => backer'.need_revalidate
    BY ZenonT(30) DEF NeedRevalidate, TypeOK
  <2> QED
    BY <2>1, Zenon DEF MainChange, FlowMod, Destruct, PortConstruct, PortDestruct, SetThreads
<1>4. CASE backer'.need_revalidate
  BY <1>1, <1>2, <1>4 DEF Fresh, Dirty
<1>5. CASE UNCHANGED <<backer, gen, facets>>
  <2>1. Dirty' = Dirty
    BY <1>1, <1>5 DEF Dirty, HandlerIs
  <2> QED
    BY <1>1, <1>2, <1>5, <2>1 DEF Fresh, Old
<1> QED
  BY <1>3, <1>4, <1>5

-------------------------------------------------------------------------------
(* The theorems.                                                              *)

LEMMA InitInv == Init => IInv
<1> SUFFICES ASSUME Init PROVE IInv
  OBVIOUS
<1>1. PICK n \in 1 .. MaxHandlers, enable \in BOOLEAN :
        /\ config = [ports |-> Flow, n_handler_threads |-> n,
                     flow_restore_wait |-> ~enable, changes |-> 0]
        /\ backer = [need_revalidate |-> TRUE, n_handler_threads |-> n,
                     recv_set_enable |-> enable, drop_keys |-> {}]
        /\ n_handlers = (IF enable THEN n ELSE 0)
        /\ handler = HandlersFrom(n_handlers)
        /\ dispatcher = DispatcherFrom(n_handlers)
  BY Zenon DEF Init
<1>2. n_handlers \in 0 .. MaxHandlers
  BY <1>1, UdpifAssumption
<1>3. /\ upcalls = 0 /\ drop_keys = <<>> /\ fmbs = <<>> /\ n_events = 0
      /\ reval_seq = 0 /\ exit_latch = FALSE /\ unsignalled = {}
      /\ pc = "upcalls" /\ ret = "type"
      /\ assoc = {} /\ gen = 1 /\ facets = [f \in Flow |-> 0] /\ unchecked = {}
      /\ changed = {<<main, wait_seq>>} /\ armed = {} /\ wake = {}
  BY Zenon DEF Init
<1>4. /\ handler \in [Handler -> StructHandler]
      /\ dispatcher \in [pc : DispatcherPC, new : Nat]
      /\ \A h \in Handler : h >= n_handlers => HandlerIs(h, "exited")
      /\ \A h \in Handler : handler[h].pc \in {"exited", "top"} /\ handler[h].fmb = EmptyFmb(0)
      /\ dispatcher.pc # "exited" => n_handlers > 0
  BY <1>1, <1>2, StartType, ZenonT(30) DEF HandlerIs
<1>5. TypeOK
  <2>1. /\ backer \in [need_revalidate : BOOLEAN, n_handler_threads : 1 .. MaxHandlers,
                       recv_set_enable : BOOLEAN, drop_keys : SUBSET Flow]
        /\ config \in [ports : SUBSET Flow, n_handler_threads : 1 .. MaxHandlers,
                       flow_restore_wait : BOOLEAN, changes : 0 .. MaxEvents]
    <3>1. 0 \in 0 .. MaxEvents
      BY UdpifAssumption
    <3>2. (~enable) \in BOOLEAN
      OBVIOUS
    <3> QED
      BY <1>1, <3>1, <3>2, Zenon
  <2>2. /\ drop_keys \in Seq(Flow) /\ Len(drop_keys) <= MAX_QUEUE_LENGTH
        /\ fmbs \in Seq(Fmb) /\ Len(fmbs) <= MAX_QUEUE_LENGTH
    BY <1>3, EmptyQueue, UdpifAssumption
  <2>3. /\ n_events \in 0 .. MaxEvents /\ upcalls \in 0 .. MAX_QUEUE_LENGTH
        /\ reval_seq \in Nat /\ gen \in Nat /\ facets \in [Flow -> Nat]
    BY <1>3, UdpifAssumption
  <2>4. /\ exit_latch \in BOOLEAN /\ unsignalled \in SUBSET Handler
        /\ pc \in MainPC /\ ret \in {"type", "wait", "expire", "conf"}
        /\ assoc \in SUBSET Flow /\ unchecked \in SUBSET Flow
        /\ changed \in SUBSET {<<main, wait_seq>>} /\ armed \in SUBSET {<<main, wait_seq>>}
        /\ wake \in SUBSET {main}
    BY <1>3, Zenon DEF MainPC
  <2> QED
    BY <1>2, <1>4, <2>1, <2>2, <2>3, <2>4 DEF TypeOK
<1>6. Threads
  BY <1>4 DEF Threads, HandlerIs
<1>7. Awake
  BY <1>3, Zenon DEF Awake
<1>8. Fresh
  <2>1. Batches \subseteq {EmptyFmb(0)}
    BY <1>3, <1>4, EmptyQueue DEF Batches
  <2>2. EmptyFmb(0).reval_seq = 0
    BY EmptyBatch, Zenon
  <2>3. Dirty
    BY <1>1 DEF Dirty
  <2> QED
    BY <1>3, <2>1, <2>2, <2>3 DEF Fresh
<1> QED
  BY <1>5, <1>6, <1>7, <1>8 DEF IInv

LEMMA InductiveStep == LeastNumber /\ IInv /\ [Next]_vars => IInv'
<1> SUFFICES ASSUME LeastNumber, IInv, [Next]_vars PROVE IInv'
  OBVIOUS
<1>1. TypeOK /\ Threads /\ Awake /\ Fresh
  BY DEF IInv
<1>2. CASE Next
  <2>1. TypeOK'
    BY <1>1, <1>2, DispatcherTypes, HandlerTypes, MainTypes, ChangeTypes DEF Next
  <2>2. Fresh'
    BY <1>1, <1>2, FreshDispatcher, FreshHandler, FreshMain, FreshChange, Zenon DEF Next
  <2> QED
    BY <1>1, <1>2, <2>1, <2>2, ThreadsPreserved, AwakePreserved DEF IInv
<1>3. CASE UNCHANGED vars
  <2> USE <1>3 DEF vars, threadVars, queueVars, udpifVars, mainVars, xlateVars, wakeVars
  <2>1. TypeOK'
    BY <1>1, Zenon DEF TypeOK
  <2>2. Threads'
    BY <1>1, ZenonT(30) DEF Threads, HandlerIs
  <2>3. Awake'
    BY <1>1, ZenonT(30) DEF Awake, Announced, HandlerIs
  <2>4. Fresh'
    BY <1>1, ZenonT(30) DEF Fresh, Batches, Dirty, Old, HandlerIs
  <2> QED
    BY <2>1, <2>2, <2>3, <2>4, Zenon DEF IInv
<1> QED
  BY <1>2, <1>3

-------------------------------------------------------------------------------
(* The theorems.                                                              *)

WF == INSTANCE WellFoundedInduction

LEMMA LeastNumberHolds == LeastNumber
<1> SUFFICES ASSUME NEW S \in SUBSET Nat, S # {} PROVE \E x \in S : \A y \in S : x <= y
  BY DEF LeastNumber
<1> DEFINE R == WF!OpToRel(<, Nat)
<1>1. WF!IsWellFoundedOn(R, Nat)
  BY WF!NatLessThanWellFounded, Zenon
<1> HIDE DEF R
<1>2. PICK x \in S : \A y \in S : <<y, x>> \notin R
  BY <1>1, WF!WFMin, Zenon
<1>3. \A y \in S : ~(y < x)
  BY <1>2, Zenon DEF R, WF!OpToRel
<1>4. \A y \in S : x <= y
  BY <1>3
<1> QED
  BY <1>4

LEMMA Inductive == IInv /\ [Next]_vars => IInv'
BY InductiveStep, LeastNumberHolds, Zenon

\* Every state of the upcall path is well typed, whatever the number of flows and
\* handlers: in particular no queue outgrows MAX_QUEUE_LENGTH (guarded-list.c) and
\* the dispatcher's hash never selects a handler that does not exist.
THEOREM TypeCorrect == Spec => []TypeOK
<1>1. IInv => TypeOK
  BY DEF IInv
<1> QED
  BY <1>1, InitInv, Inductive, PTL DEF Spec

\* The main thread never sleeps in poll_block() with something queued for it by
\* the dispatcher or a handler and nobody about to call seq_change(wait_seq):
\* udpif_wait() reads wait_seq before it looks at the queues, and every push is
\* followed by a seq_change().
THEOREM MainNeverStranded == Spec => []MainNotStranded
<1>1. IInv => MainNotStranded
  BY DEF IInv, Awake, Announced, MainNotStranded
<1> QED
  BY <1>1, InitInv, Inductive, PTL DEF Spec

\* Whenever type_run() has served every request to revalidate, each installed
\* facet was translated under the current configuration: a batch translated
\* before the change has a reval_seq that udpif_revalidate() has left behind.
THEOREM FacetsAlwaysFresh == Spec => []FacetsFresh
<1>1. IInv => FacetsFresh
  BY Zenon DEF IInv, Fresh, Dirty, Old, FacetsFresh, Settled
<1> QED
  BY <1>1, InitInv, Inductive, PTL DEF Spec

================================================================================
