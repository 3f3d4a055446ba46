--------------------------------- MODULE Udpif ---------------------------------
(******************************************************************************)
(* The upcall path of ofproto-dpif: the dispatcher and handler threads of     *)
(* ofproto/ofproto-dpif-upcall.c and the parts of ofproto/ofproto-dpif.c      *)
(* through which the main thread feeds and drains them.  The dispatcher takes *)
(* upcalls from the datapath; flow misses go to a handler, which translates   *)
(* them and queues a batch for the main thread to install as facets, or, for  *)
(* a packet of an unknown port, a drop key; the other upcalls are queued for  *)
(* the main thread directly.  The main thread changes the configuration,      *)
(* revalidates what was translated before, and sleeps on udpif->wait_seq.     *)
(*                                                                            *)
(* A flow stands for its datapath key and the port it arrives on.  What a     *)
(* translation reads (flow tables, ports, bundles...) is abstracted to "gen", *)
(* which grows when any of it changes: a facet is up to date iff it was       *)
(* translated at the current gen.  A step is a critical section, or a stretch *)
(* of code that touches state no other thread can see.                        *)
(******************************************************************************)
EXTENDS Integers, Sequences

CONSTANTS Flow,                 \* flows that miss in the datapath
          Hash,                 \* the hash of a flow's key, before the modulo
          MaxHandlers,          \* bound: handler threads (64 in the code)
          MAX_QUEUE_LENGTH,     \* 512 in the code
          FLOW_MISS_MAX_BATCH,  \* 50 in the code
          MAX_POPS,             \* the 50 of flow_miss_batch_next()
          MaxEvents             \* bound: upcalls received, spurious wakeups,
                                \* configuration changes and learn actions

ASSUME UdpifAssumption ==
    /\ Hash \in [Flow -> Nat]
    /\ MaxHandlers \in Nat \ {0} /\ MAX_QUEUE_LENGTH \in Nat \ {0}
    /\ FLOW_MISS_MAX_BATCH \in Nat \ {0} /\ MAX_POPS \in Nat \ {0}
    /\ MaxEvents \in Nat

VARIABLES
    n_events,     \* upcalls received and spurious wakeups so far
    handler,      \* struct handler and the local state of its thread
    dispatcher,   \* the dispatcher thread: [pc, new], new = n_udpif_new_upcalls
    upcalls,      \* length of udpif->upcalls
    drop_keys,    \* udpif->drop_keys
    fmbs,         \* udpif->fmbs
    reval_seq,    \* udpif->reval_seq
    n_handlers,   \* udpif->n_handlers
    exit_latch,   \* udpif->exit_latch
    pc,           \* where the main thread is
    ret,          \* where it goes on after the function it is in
    unsignalled,  \* udpif_recv_set(): handlers still to be woken
    backer,       \* struct dpif_backer: need_revalidate, n_handler_threads,
                  \* recv_set_enable, drop_keys
    config,       \* what main configures: ports, n_handler_threads,
                  \* flow_restore_wait, and the number of changes so far
    assoc,        \* flows whose port the xlate module associates with an ofproto
    gen,          \* version of everything a translation reads
    facets,       \* per flow: the gen its facet was translated at, 0 for none
    unchecked,    \* type_run(): facets still to be revalidated
    changed, armed, wake  \* the main thread and wait_seq, see Wakeup

wakeVars == <<changed, armed, wake>>
queueVars == <<upcalls, drop_keys, fmbs>>
xlateVars == <<assoc, gen, facets, unchecked>>
mainVars == <<pc, ret, unsignalled, backer, config>>
threadVars == <<n_events, handler, dispatcher>>
udpifVars == <<reval_seq, n_handlers, exit_latch>>
vars == <<threadVars, queueVars, udpifVars, mainVars, xlateVars, wakeVars>>

-------------------------------------------------------------------------------
main == "main"
wait_seq == "wait_seq"

\* udpif->wait_seq, used through lib/seq.h, with the main thread as its waiter.
Wait == INSTANCE Wakeup WITH
    THREAD <- {main}, SEQ <- {wait_seq}, exist <- {wait_seq},
    state <- [t \in {main} |-> IF pc = "blocked" THEN "block" ELSE "run"]

Handler == 0 .. MaxHandlers - 1

\* struct flow_miss_batch: per flow, the gen its miss was translated at.
Fmb == [reval_seq : Nat, gen : [Flow -> Nat]]
EmptyFmb(seq) == [reval_seq |-> seq, gen |-> [f \in Flow |-> 0]]

\* A handler that does not run, and one whose thread starts.
Stopped == [pc |-> "exited", upcalls |-> <<>>, n_new_upcalls |-> 0,
            misses |-> <<>>, todo |-> {}, fmb |-> EmptyFmb(0)]
Started == [Stopped EXCEPT !.pc = "top"]

HandlerPC == {"exited", "top", "asleep", "take", "start", "receive", "drop",
              "drop_wake", "learned", "push", "wake"}
DispatcherPC == {"exited", "top", "recv", "recv_wake", "signal", "block"}
MainPC == {"upcalls", "drops", "fmb", "type", "stop", "join", "need", "xlate",
           "facet", "reval", "clear", "expire", "conf", "wait", "check", "arm",
           "flag", "block", "blocked"}

\* Something may still happen within the bound.
MoreEvents == n_events + config.changes < MaxEvents

StructHandler == [pc : HandlerPC, upcalls : Seq(Flow), n_new_upcalls : Nat,
                  misses : Seq(Flow), todo : SUBSET Flow, fmb : Fmb]

\* guarded_list_push_back() succeeds.
HasRoom(n) == n < MAX_QUEUE_LENGTH

\* The state of the handlers when the first n of them start.
HandlersFrom(n) == [h \in Handler |-> IF h < n THEN Started ELSE Stopped]
DispatcherFrom(n) == [pc |-> IF n > 0 THEN "top" ELSE "exited", new |-> 0]

\* udpif_recv_set(): the number of handlers it is asked for.
Wanted(enable) == IF enable THEN config.n_handler_threads ELSE 0

Least(S) == CHOOSE x \in S : \A y \in S : x <= y
Prefix(s, n) == SubSeq(s, 1, IF n < Len(s) THEN n ELSE Len(s))
Suffix(s, n) == SubSeq(s, n + 1, Len(s))

Init ==
    /\ n_events = 0
    /\ \E n \in 1 .. MaxHandlers, enable \in BOOLEAN :
        /\ config = [ports |-> Flow, n_handler_threads |-> n,
                     flow_restore_wait |-> ~enable, changes |-> 0]
        /\ backer = [need_revalidate |-> TRUE, n_handler_threads |-> n,
                     recv_set_enable |-> enable, drop_keys |-> {}]
        /\ n_handlers = (IF enable THEN n ELSE 0)
        /\ handler = HandlersFrom(n_handlers)
        /\ dispatcher = DispatcherFrom(n_handlers)
    /\ upcalls = 0 /\ drop_keys = <<>> /\ fmbs = <<>>
    /\ reval_seq = 0 /\ exit_latch = FALSE /\ unsignalled = {}
    /\ pc = "upcalls" /\ ret = "type"
    /\ assoc = {} /\ gen = 1 /\ facets = [f \in Flow |-> 0] /\ unchecked = {}
    /\ changed = {<<main, wait_seq>>} /\ armed = {} /\ wake = {}

-------------------------------------------------------------------------------
(* The dispatcher thread: udpif_dispatcher() and recv_upcalls(). *)

\* seq_change(udpif->wait_seq).  The main thread stays where it is.
SeqChange == UNCHANGED mainVars /\ Wait!Change(wait_seq)

\* xpthread_cond_signal(&handler->wake_cond), lost unless the thread waits.
Signalled(hd) == IF hd.pc = "asleep" THEN [hd EXCEPT !.pc = "take"] ELSE hd

DispatcherGoto(p) == dispatcher' = [dispatcher EXCEPT !.pc = p]

\* Look at the latch, at first and whenever poll_block() returns, which it does
\* for an upcall or for the latch.
DispatcherTop ==
    /\ \/ dispatcher.pc = "top"
       \/ dispatcher.pc = "block" /\ (MoreEvents \/ exit_latch)
    /\ DispatcherGoto(IF exit_latch THEN "exited" ELSE "recv")
    /\ UNCHANGED <<udpifVars, queueVars, xlateVars, mainVars, wakeVars,
                   n_events, handler>>

\* A MISS_UPCALL goes to the handler its flow hashes to.
RecvMiss(f) ==
    LET h  == Hash[f] % n_handlers
        hd == handler[h]
        n  == Len(hd.upcalls) + 1
        queued == [hd EXCEPT !.upcalls = Append(@, f), !.n_new_upcalls = n]
    IN  /\ handler' = IF HasRoom(Len(hd.upcalls))
                      THEN [handler EXCEPT ![h] =
                            IF n >= FLOW_MISS_MAX_BATCH THEN Signalled(queued)
                                                        ELSE queued]
                      ELSE handler
        /\ UNCHANGED <<dispatcher, upcalls>>

\* An sFlow, IPFIX or flow sample upcall goes to the main thread.
RecvOther ==
    /\ IF HasRoom(upcalls)
       THEN /\ upcalls' = upcalls + 1
            /\ dispatcher' = [pc |-> IF upcalls' >= FLOW_MISS_MAX_BATCH
                                     THEN "recv_wake" ELSE "recv",
                              new |-> upcalls']
       ELSE UNCHANGED <<dispatcher, upcalls>>
    /\ UNCHANGED handler

\* dpif_recv() returns an upcall.  A BAD_UPCALL is dropped, which changes nothing.
DispatcherRecv ==
    /\ dispatcher.pc = "recv"
    /\ MoreEvents
    /\ n_events' = n_events + 1
    /\ \/ \E f \in Flow : RecvMiss(f)
       \/ RecvOther
    /\ UNCHANGED <<udpifVars, xlateVars, mainVars, wakeVars, drop_keys, fmbs>>

DispatcherRecvWake ==
    /\ dispatcher.pc = "recv_wake"
    /\ DispatcherGoto("recv")
    /\ SeqChange
    /\ UNCHANGED <<udpifVars, queueVars, xlateVars, n_events, handler>>

\* The handlers with new upcalls, which the final loop of recv_upcalls() wakes.
Unwoken == {h \in Handler : h < n_handlers /\ handler[h].n_new_upcalls > 0}

\* dpif_recv() has returned an error, normally EAGAIN: the final loop begins, or
\* goes on with the next handler.
DispatcherSignal ==
    /\ dispatcher.pc \in {"recv", "signal"}
    /\ Unwoken # {}
    /\ DispatcherGoto("signal")
    /\ LET h == Least(Unwoken)
       IN  handler' = [handler EXCEPT ![h] =
                           Signalled([@ EXCEPT !.n_new_upcalls = 0])]
    /\ UNCHANGED <<udpifVars, queueVars, xlateVars, mainVars, wakeVars,
                   n_events>>

\* The end of recv_upcalls(), and on to poll_block().
DispatcherDone ==
    /\ dispatcher.pc \in {"recv", "signal"}
    /\ Unwoken = {}
    /\ dispatcher' = [pc |-> "block", new |-> 0]
    /\ IF dispatcher.new > 0 THEN SeqChange
                             ELSE UNCHANGED <<mainVars, wakeVars>>
    /\ UNCHANGED <<udpifVars, queueVars, xlateVars, n_events, handler>>

DispatcherStep ==
    \/ DispatcherTop \/ DispatcherRecv \/ DispatcherRecvWake
    \/ DispatcherSignal \/ DispatcherDone

-------------------------------------------------------------------------------
(* A handler thread: udpif_miss_handler() and handle_miss_upcalls(). *)

HandlerIs(h, p) == handler[h].pc = p
HandlerBecomes(h, hd) == handler' = [handler EXCEPT ![h] = hd]
HandlerGoto(h, p) == HandlerBecomes(h, [handler[h] EXCEPT !.pc = p])

\* A step that changes nothing but the handler itself.
HandlerLocal ==
    UNCHANGED <<udpifVars, queueVars, xlateVars, mainVars, wakeVars, n_events,
                dispatcher>>

\* Slip: with the latch set the thread skips the wait but goes on.
HandlerTop_Continues(h) ==
    /\ HandlerIs(h, "top")
    /\ HandlerGoto(h, IF ~exit_latch /\ handler[h].upcalls = <<>>
                      THEN "asleep" ELSE "take")
    /\ HandlerLocal

\* Look at the latch and the queue, and wait on wake_cond, under the mutex.
HandlerTop(h) ==
    /\ HandlerIs(h, "top")
    /\ HandlerGoto(h, IF exit_latch THEN "exited"
                      ELSE IF handler[h].upcalls = <<>> THEN "asleep" ELSE "take")
    /\ HandlerLocal

\* The wait is not in a loop: a spurious wakeup goes on, with an empty batch.
HandlerSpurious(h) ==
    /\ HandlerIs(h, "asleep")
    /\ MoreEvents
    /\ n_events' = n_events + 1
    /\ HandlerGoto(h, "take")
    /\ UNCHANGED <<udpifVars, queueVars, xlateVars, mainVars, wakeVars,
                   dispatcher>>

\* Slip: the loop ends one short of a full batch.
HandlerTake_OneShort(h) ==
    /\ HandlerIs(h, "take")
    /\ HandlerBecomes(h, [handler[h] EXCEPT
            !.pc = "start",
            !.misses = Prefix(handler[h].upcalls, FLOW_MISS_MAX_BATCH - 1),
            !.upcalls = Suffix(@, FLOW_MISS_MAX_BATCH - 1)])
    /\ HandlerLocal

HandlerTake(h) ==
    /\ HandlerIs(h, "take")
    /\ HandlerBecomes(h, [handler[h] EXCEPT
            !.pc = "start",
            !.misses = Prefix(handler[h].upcalls, FLOW_MISS_MAX_BATCH),
            !.upcalls = Suffix(@, FLOW_MISS_MAX_BATCH)])
    /\ HandlerLocal

\* The batch is given the reval_seq of before any translation.
HandlerStart(h) ==
    /\ HandlerIs(h, "start")
    /\ HandlerBecomes(h, [handler[h] EXCEPT !.pc = "receive",
                                            !.fmb = EmptyFmb(reval_seq)])
    /\ HandlerLocal

\* xlate_receive() of the next upcall: no ofproto (ENODEV), another error,
\* or a new or existing miss.
HandlerReceive(h) ==
    LET f == Head(handler[h].misses)
        next == [handler[h] EXCEPT !.misses = Tail(@)]
    IN  /\ HandlerIs(h, "receive")
        /\ handler[h].misses # <<>>
        /\ \/ f \notin assoc /\ HandlerGoto(h, "drop")
           \/ HandlerBecomes(h, next)
           \/ f \in assoc /\ HandlerBecomes(h, [next EXCEPT !.todo = @ \union {f}])
        /\ HandlerLocal

\* Queue a drop key for the upcall without an ofproto.
HandlerDrop(h) ==
    LET room == HasRoom(Len(drop_keys))
    IN  /\ HandlerIs(h, "drop")
        /\ drop_keys' = IF room THEN Append(drop_keys, Head(handler[h].misses))
                                ELSE drop_keys
        /\ HandlerBecomes(h, [handler[h] EXCEPT
               !.misses = Tail(@), !.pc = IF room THEN "drop_wake" ELSE "receive"])
        /\ UNCHANGED <<udpifVars, xlateVars, mainVars, wakeVars, n_events,
                       dispatcher, upcalls, fmbs>>

HandlerDropWake(h) ==
    /\ HandlerIs(h, "drop_wake")
    /\ HandlerGoto(h, "receive")
    /\ SeqChange
    /\ UNCHANGED <<udpifVars, queueVars, xlateVars, n_events, dispatcher>>

\* Every upcall of the batch has been received: its misses are next.
Received(h) == HandlerIs(h, "receive") /\ handler[h].misses = <<>>

\* execute_flow_miss(): translate one miss.  A learn action in its actions also
\* changes the flow table, before complete_operation() asks to revalidate.
HandlerExecute(h) ==
    \E f \in handler[h].todo :
        LET done == [handler[h] EXCEPT !.todo = @ \ {f}, !.fmb.gen[f] = gen]
        IN  /\ Received(h)
            /\ \/ HandlerBecomes(h, done) /\ UNCHANGED <<config, gen>>
               \/ /\ MoreEvents
                  /\ config' = [config EXCEPT !.changes = @ + 1]
                  /\ gen' = gen + 1
                  /\ HandlerBecomes(h, [done EXCEPT !.pc = "learned"])
            /\ UNCHANGED <<udpifVars, queueVars, wakeVars, n_events, dispatcher,
                           pc, ret, unsignalled, backer, assoc, facets,
                           unchecked>>

\* complete_operation(), run by the handler thread.
HandlerLearned(h) ==
    /\ HandlerIs(h, "learned")
    /\ HandlerGoto(h, "receive")
    /\ backer' = [backer EXCEPT !.need_revalidate = TRUE]
    /\ UNCHANGED <<udpifVars, queueVars, xlateVars, wakeVars, n_events,
                   dispatcher, pc, ret, unsignalled, config>>

\* Slip: the batch gets its reval_seq when it is done.
HandlerCheck_StampsLate(h) ==
    /\ Received(h)
    /\ handler[h].todo = {}
    /\ HandlerBecomes(h, [handler[h] EXCEPT !.pc = "push", !.fmb.reval_seq = reval_seq])
    /\ HandlerLocal

\* The batch is done: keep it unless udpif_revalidate() was called meanwhile.
HandlerCheck(h) ==
    /\ Received(h)
    /\ handler[h].todo = {}
    /\ IF handler[h].fmb.reval_seq = reval_seq
       THEN HandlerGoto(h, "push")
       ELSE HandlerBecomes(h, [handler[h] EXCEPT !.pc = "top", !.fmb = EmptyFmb(0)])
    /\ HandlerLocal

HandlerPush(h) ==
    LET room == HasRoom(Len(fmbs))
    IN  /\ HandlerIs(h, "push")
        /\ fmbs' = IF room THEN Append(fmbs, handler[h].fmb) ELSE fmbs
        /\ HandlerBecomes(h, [handler[h] EXCEPT !.fmb = EmptyFmb(0),
                                  !.pc = IF room THEN "wake" ELSE "top"])
        /\ UNCHANGED <<udpifVars, xlateVars, mainVars, wakeVars, n_events,
                       dispatcher, upcalls, drop_keys>>

HandlerWake(h) ==
    /\ HandlerIs(h, "wake")
    /\ HandlerGoto(h, "top")
    /\ SeqChange
    /\ UNCHANGED <<udpifVars, queueVars, xlateVars, n_events, dispatcher>>

HandlerStep(h) ==
    \/ HandlerTop(h) \/ HandlerTake(h) \/ HandlerStart(h) \/ HandlerReceive(h)
    \/ HandlerDrop(h) \/ HandlerDropWake(h)
    \/ HandlerExecute(h) \/ HandlerLearned(h) \/ HandlerCheck(h)
    \/ HandlerPush(h) \/ HandlerWake(h)

-------------------------------------------------------------------------------
(* The main thread.  handle_upcalls() runs before and after type_run(). *)

\* A step that leaves the threads and wait_seq alone.
MainGoto(p) ==
    /\ pc' = p
    /\ UNCHANGED <<wakeVars, n_events>>

HandleUpcalls ==
    /\ pc = "upcalls"
    /\ MainGoto("drops")
    /\ upcalls' = IF upcalls > FLOW_MISS_MAX_BATCH
                  THEN upcalls - FLOW_MISS_MAX_BATCH ELSE 0
    /\ UNCHANGED <<udpifVars, xlateVars, handler, dispatcher, drop_keys, fmbs,
                   ret, unsignalled, backer, config>>

\* Install a drop flow for each drop key.
HandleDropKeys ==
    LET keys == Prefix(drop_keys, FLOW_MISS_MAX_BATCH)
    IN  /\ pc = "drops"
        /\ MainGoto("fmb")
        /\ drop_keys' = Suffix(drop_keys, FLOW_MISS_MAX_BATCH)
        /\ backer' = [backer EXCEPT !.drop_keys =
                          @ \union {keys[i] : i \in DOMAIN keys}]
        /\ UNCHANGED <<udpifVars, xlateVars, handler, dispatcher, upcalls, fmbs,
                       ret, unsignalled, config>>

\* flow_miss_batch_next(): how many batches it pops, the last of them the one it
\* returns if it is current; at most MAX_POPS.
Popped ==
    LET current == {i \in DOMAIN fmbs : fmbs[i].reval_seq = reval_seq}
        limit == IF Len(fmbs) < MAX_POPS THEN Len(fmbs) ELSE MAX_POPS
    IN  IF current = {} \/ limit < Least(current) THEN limit ELSE Least(current)

\* facet_revalidate(): the facet is translated again, or removed.
Revalidated(f) == IF f \in assoc THEN gen ELSE 0

\* handle_flow_miss(): an existing facet is kept, or revalidated when that is
\* due; without one, a facet is made of the miss, unless it is refused: the key's
\* fitness or the governor forbids it.
MissOutcome(f, g, refused) ==
    LET valid == IF facets[f] # 0 /\ backer.need_revalidate
                 THEN Revalidated(f) ELSE facets[f]
    IN  IF g = 0 THEN facets[f]
        ELSE IF valid # 0 \/ refused THEN valid ELSE g

HandleFlowMisses ==
    LET n == Popped
        usable == n > 0 /\ fmbs[n].reval_seq = reval_seq
    IN  /\ pc = "fmb"
        /\ MainGoto(ret)
        /\ fmbs' = Suffix(fmbs, n)
        /\ IF usable
           THEN \E refused \in SUBSET Flow :
                   facets' = [f \in Flow |->
                                MissOutcome(f, fmbs[n].gen[f], f \in refused)]
           ELSE UNCHANGED facets
        /\ UNCHANGED <<udpifVars, handler, dispatcher, upcalls, drop_keys, ret,
                       unsignalled, backer, config, assoc, gen, unchecked>>

\* type_run(): the calls of udpif_recv_set().
TypeRun ==
    LET enabling == ~backer.recv_set_enable /\ ~config.flow_restore_wait
        enable == backer.recv_set_enable \/ enabling
        call == enabling \/ backer.n_handler_threads # config.n_handler_threads
        stop == call /\ n_handlers > 0 /\ n_handlers # Wanted(enable)
        start == call /\ n_handlers = 0
    IN  /\ pc = "type"
        /\ backer' = [backer EXCEPT
               !.recv_set_enable = enable,
               !.n_handler_threads = config.n_handler_threads,
               !.need_revalidate = @ \/ enabling]
        /\ MainGoto(IF stop THEN "stop" ELSE "need")
        /\ exit_latch' = stop
        /\ unsignalled' = IF stop THEN {h \in Handler : h < n_handlers} ELSE {}
        /\ IF start
           THEN /\ n_handlers' = Wanted(enable)
                /\ handler' = HandlersFrom(n_handlers')
                /\ dispatcher' = DispatcherFrom(n_handlers')
           ELSE UNCHANGED <<n_handlers, handler, dispatcher>>
        /\ UNCHANGED <<queueVars, xlateVars, reval_seq, ret, config>>

\* type_run() when dpif_recv_set() fails: return with no thread started.
TypeRunFails ==
    /\ pc = "type"
    /\ ~backer.recv_set_enable /\ ~config.flow_restore_wait
    /\ backer' = [backer EXCEPT !.recv_set_enable = TRUE]
    /\ MainGoto("conf")
    /\ UNCHANGED <<udpifVars, queueVars, xlateVars, handler, dispatcher, ret,
                   unsignalled, config>>

\* Wake the next handler so that it can exit.
RecvSetSignal ==
    /\ pc = "stop"
    /\ IF unsignalled = {}
       THEN MainGoto("join") /\ UNCHANGED <<unsignalled, handler>>
       ELSE LET h == Least(unsignalled)
            IN  /\ handler' = [handler EXCEPT ![h] = Signalled(@)]
                /\ unsignalled' = unsignalled \ {h}
                /\ MainGoto("stop")
    /\ UNCHANGED <<udpifVars, queueVars, xlateVars, dispatcher, ret, backer,
                   config>>

\* Join the threads, drop what they leave behind, and start the new ones.
RecvSetJoin ==
    /\ pc = "join"
    /\ dispatcher.pc = "exited"
    /\ \A h \in Handler : h < n_handlers => HandlerIs(h, "exited")
    /\ exit_latch' = FALSE
    /\ n_handlers' = Wanted(backer.recv_set_enable)
    /\ handler' = HandlersFrom(n_handlers')
    /\ dispatcher' = DispatcherFrom(n_handlers')
    /\ MainGoto("need")
    /\ UNCHANGED <<queueVars, xlateVars, reval_seq, ret, unsignalled, backer,
                   config>>

\* type_run(): take the request to revalidate, and drop_key_clear().
TakeNeedRevalidate ==
    /\ pc = "need"
    /\ IF backer.need_revalidate
       THEN /\ backer' = [backer EXCEPT !.need_revalidate = FALSE, !.drop_keys = {}]
            /\ drop_keys' = <<>>
            /\ MainGoto("xlate")
       ELSE MainGoto("expire") /\ UNCHANGED <<backer, drop_keys>>
    /\ UNCHANGED <<udpifVars, xlateVars, handler, dispatcher, upcalls, fmbs,
                   ret, unsignalled, config>>

\* Tell the xlate module about the ofprotos, bundles and ports, under its lock.
XlateSet ==
    /\ pc = "xlate"
    /\ MainGoto("facet")
    /\ assoc' = config.ports
    /\ gen' = IF assoc = config.ports THEN gen ELSE gen + 1
    /\ unchecked' = {f \in Flow : facets[f] # 0}
    /\ UNCHANGED <<udpifVars, queueVars, handler, dispatcher, ret, unsignalled,
                   backer, config, facets>>

\* Slip: the facet keeps its old actions.
FacetRevalidate_KeepsActions ==
    /\ pc = "facet"
    /\ \E f \in unchecked : unchecked' = unchecked \ {f}
    /\ MainGoto("facet")
    /\ UNCHANGED <<udpifVars, queueVars, handler, dispatcher, facets, ret,
                   unsignalled, backer, config, assoc, gen>>

FacetRevalidate ==
    /\ pc = "facet"
    /\ \E f \in unchecked :
        /\ facets' = [facets EXCEPT ![f] = Revalidated(f)]
        /\ unchecked' = unchecked \ {f}
    /\ MainGoto("facet")
    /\ UNCHANGED <<udpifVars, queueVars, handler, dispatcher, ret, unsignalled,
                   backer, config, assoc, gen>>

\* udpif_revalidate(): first the counter, then the queues.
UdpifRevalidate ==
    /\ pc = "reval" \/ (pc = "facet" /\ unchecked = {})
    /\ MainGoto("clear")
    /\ ret' = IF pc = "facet" THEN "expire" ELSE ret
    /\ reval_seq' = reval_seq + 1
    /\ UNCHANGED <<queueVars, xlateVars, handler, dispatcher, n_handlers,
                   exit_latch, unsignalled, backer, config>>

UdpifRevalidateClear ==
    /\ pc = "clear"
    /\ MainGoto(ret)
    /\ fmbs' = <<>> /\ drop_keys' = <<>>
    /\ UNCHANGED <<udpifVars, xlateVars, handler, dispatcher, upcalls, ret,
                   unsignalled, backer, config>>

\* Slip: the drop keys stay.
Expire_KeepsDropKeys ==
    /\ pc = "expire"
    /\ backer.recv_set_enable
    /\ \E idle \in SUBSET Flow :
           facets' = [f \in Flow |-> IF f \in idle THEN 0 ELSE facets[f]]
    /\ MainGoto("conf")
    /\ UNCHANGED <<udpifVars, queueVars, handler, dispatcher, backer, ret,
                   unsignalled, config, assoc, gen, unchecked>>

\* expire(): clear the drop keys and drop idle facets.
Expire ==
    /\ pc = "expire"
    /\ backer.recv_set_enable
    /\ backer' = [backer EXCEPT !.drop_keys = {}]
    /\ drop_keys' = <<>>
    /\ \E idle \in SUBSET Flow :
           facets' = [f \in Flow |-> IF f \in idle THEN 0 ELSE facets[f]]
    /\ MainGoto("conf")
    /\ UNCHANGED <<udpifVars, handler, dispatcher, upcalls, fmbs, ret,
                   unsignalled, config, assoc, gen, unchecked>>

\* next_expiration has not come.
ExpireNotYet ==
    /\ pc = "expire"
    /\ MainGoto("conf")
    /\ UNCHANGED <<udpifVars, queueVars, xlateVars, handler, dispatcher, ret,
                   unsignalled, backer, config>>

-------------------------------------------------------------------------------
(* Configuration changes, which the main thread makes in ofproto_run() and    *)
(* bridge_reconfigure().                                                      *)

Change(cfg) ==
    /\ pc = "conf"
    /\ MoreEvents
    /\ config' = [cfg EXCEPT !.changes = @ + 1]
    /\ UNCHANGED <<threadVars, udpifVars, queueVars, wakeVars, unsignalled,
                   unchecked>>

NeedRevalidate == backer' = [backer EXCEPT !.need_revalidate = TRUE]

\* A flow is added, modified, deleted or expires: complete_operation().
FlowMod ==
    /\ Change(config)
    /\ gen' = gen + 1
    /\ NeedRevalidate
    /\ UNCHANGED <<pc, ret, assoc, facets>>

\* port_construct(): the xlate module hears of the port in the next type_run().
PortConstruct(f) ==
    /\ f \notin config.ports
    /\ Change([config EXCEPT !.ports = @ \union {f}])
    /\ NeedRevalidate
    /\ UNCHANGED <<pc, ret, assoc, gen, facets>>

\* port_destruct(): the xlate module hears of it at once.
PortDestruct(f) ==
    /\ f \in config.ports
    /\ Change([config EXCEPT !.ports = @ \ {f}])
    /\ assoc' = assoc \ {f}
    /\ gen' = gen + 1
    /\ NeedRevalidate
    /\ UNCHANGED <<pc, ret, facets>>

\* destruct() of the ofproto, with its facets and ports.
Destruct ==
    /\ config.ports # {}
    /\ Change([config EXCEPT !.ports = {}])
    /\ facets' = [f \in Flow |-> 0]
    /\ assoc' = {}
    /\ gen' = gen + 1
    /\ NeedRevalidate
    /\ pc' = "reval" /\ ret' = "conf"

\* ofproto_set_n_handler_threads() and ofproto_set_flow_restore_wait().
SetThreads(n, restore) ==
    /\ restore => config.flow_restore_wait
    /\ <<n, restore>> # <<config.n_handler_threads, config.flow_restore_wait>>
    /\ Change([config EXCEPT !.n_handler_threads = n, !.flow_restore_wait = restore])
    /\ UNCHANGED <<pc, ret, backer, assoc, gen, facets>>

ConfDone ==
    /\ pc = "conf"
    /\ MainGoto("upcalls")
    /\ ret' = "wait"
    /\ UNCHANGED <<udpifVars, queueVars, xlateVars, handler, dispatcher,
                   unsignalled, backer, config>>

-------------------------------------------------------------------------------
(* Waiting: type_wait() with udpif_wait(), wait(), and poll_block().          *)

MainWaits(p) ==
    /\ pc' = p
    /\ UNCHANGED <<threadVars, udpifVars, queueVars, xlateVars, unsignalled,
                   backer, config>>

UdpifWaitRead ==
    /\ pc = "wait"
    /\ MainWaits("check")
    /\ Wait!Read(main, wait_seq)
    /\ UNCHANGED ret

\* Other threads only add to the queues: to look at one after the other is to
\* look at all three at the time of the first.
QueuesEmpty == drop_keys = <<>> /\ upcalls = 0 /\ fmbs = <<>>

\* Slip: the queues are not looked at.
UdpifWaitCheck_Trusts ==
    /\ pc = "check"
    /\ MainWaits("arm")
    /\ UNCHANGED <<wakeVars, ret>>

UdpifWaitCheck ==
    /\ pc = "check"
    /\ IF QueuesEmpty
       THEN MainWaits("arm") /\ UNCHANGED wakeVars
       ELSE MainWaits("flag") /\ Wait!WakeNow(main)
    /\ UNCHANGED ret

UdpifWaitArm ==
    /\ pc = "arm"
    /\ MainWaits("flag")
    /\ Wait!Wait(main, wait_seq)
    /\ UNCHANGED ret

\* wait(): need_revalidate set here makes the main thread go around again, but
\* not while flow_restore_wait makes it return early.
OfprotoWait ==
    /\ pc = "flag"
    /\ MainWaits("block")
    /\ IF backer.need_revalidate /\ ~config.flow_restore_wait
       THEN Wait!WakeNow(main) ELSE UNCHANGED wakeVars
    /\ UNCHANGED ret

MainBlock ==
    /\ pc = "block"
    /\ MainWaits("blocked")
    /\ Wait!Block(main)
    /\ UNCHANGED ret

MainWoken ==
    /\ pc = "blocked"
    /\ MainWaits("upcalls")
    /\ ret' = "type"
    /\ Wait!Woken(main)

\* The expiration timer, or another event that the main thread waits for.
MainTimer ==
    /\ pc = "blocked"
    /\ MainWaits("upcalls")
    /\ ret' = "type"
    /\ Wait!Unrelated(main)

MainStep ==
    \/ HandleUpcalls \/ HandleDropKeys \/ HandleFlowMisses
    \/ TypeRun \/ TypeRunFails \/ RecvSetSignal \/ RecvSetJoin
    \/ TakeNeedRevalidate \/ XlateSet \/ FacetRevalidate
    \/ UdpifRevalidate \/ UdpifRevalidateClear \/ Expire \/ ExpireNotYet
    \/ ConfDone \/ UdpifWaitRead \/ UdpifWaitCheck \/ UdpifWaitArm
    \/ OfprotoWait \/ MainBlock \/ MainWoken \/ MainTimer

MainChange ==
    \/ FlowMod \/ Destruct
    \/ \E f \in Flow : PortConstruct(f) \/ PortDestruct(f)
    \/ \E n \in 1 .. MaxHandlers, restore \in BOOLEAN : SetThreads(n, restore)

Next ==
    \/ DispatcherStep
    \/ \E h \in Handler : HandlerStep(h) \/ HandlerSpurious(h)
    \/ MainStep \/ MainChange

Spec == Init /\ [][Next]_vars

\* Every thread runs when it can; poll_block() of the main thread returns at the
\* latest when next_expiration comes, and then, again and again, expire() runs.
\* Spurious wakeups and configuration changes are owed to nobody.
Fairness ==
    /\ WF_vars(DispatcherStep) /\ WF_vars(MainStep) /\ SF_vars(Expire)
    /\ \A h \in Handler : WF_vars(HandlerStep(h))

FairSpec == Spec /\ Fairness

-------------------------------------------------------------------------------
\* The state has its type.
TypeOK ==
    /\ n_events \in 0 .. MaxEvents
    /\ handler \in [Handler -> StructHandler]
    /\ dispatcher \in [pc : DispatcherPC, new : Nat]
    /\ upcalls \in 0 .. MAX_QUEUE_LENGTH
    /\ drop_keys \in Seq(Flow) /\ Len(drop_keys) <= MAX_QUEUE_LENGTH
    /\ fmbs \in Seq(Fmb) /\ Len(fmbs) <= MAX_QUEUE_LENGTH
    /\ reval_seq \in Nat /\ n_handlers \in 0 .. MaxHandlers
    /\ exit_latch \in BOOLEAN
    /\ pc \in MainPC /\ ret \in {"type", "wait", "expire", "conf"}
    /\ unsignalled \in SUBSET Handler
    /\ backer \in [need_revalidate : BOOLEAN, n_handler_threads : 1 .. MaxHandlers,
                   recv_set_enable : BOOLEAN, drop_keys : SUBSET Flow]
    /\ config \in [ports : SUBSET Flow, n_handler_threads : 1 .. MaxHandlers,
                   flow_restore_wait : BOOLEAN, changes : 0 .. MaxEvents]
    /\ assoc \in SUBSET Flow /\ gen \in Nat
    /\ facets \in [Flow -> Nat] /\ unchecked \in SUBSET Flow
    /\ changed \in SUBSET {<<main, wait_seq>>} /\ armed \in SUBSET {<<main, wait_seq>>}
    /\ wake \in SUBSET {main}

\* The configuration has been revalidated and no thread is changing it.
Settled ==
    /\ ~backer.need_revalidate
    /\ pc \notin {"xlate", "facet"}
    /\ \A h \in Handler : ~HandlerIs(h, "learned")

\* Once type_run() has revalidated, no facet was translated under an older
\* configuration, although handlers translate at any time and main installs
\* their batches later: the check of reval_seq must discard every batch begun
\* before udpif_revalidate(), and facet_lookup_valid() must not keep old facets.
FacetsFresh == Settled => \A f \in Flow : facets[f] \in {0, gen}

\* When the main thread sleeps in poll_block() while a queue holds something for
\* it, the thread that queued it is still about to call seq_change().
MainNotStranded ==
    pc = "blocked" /\ main \notin wake =>
        /\ upcalls > 0 => dispatcher.new > 0
        /\ drop_keys # <<>> => \E h \in Handler : HandlerIs(h, "drop_wake")
        /\ fmbs # <<>> => \E h \in Handler : HandlerIs(h, "wake")

\* udpif_recv_set() gets rid of the old threads: the dispatcher and every handler
\* see exit_latch and exit, wherever they are when it is set.
ThreadsStop == exit_latch ~> ~exit_latch

Queued(f) ==
    \E h \in Handler : \E i \in DOMAIN handler[h].upcalls : handler[h].upcalls[i] = f

\* A miss queued to a handler (recv_upcalls()) is taken by it, or discarded with
\* it: no flow has misses waiting for ever.
MissesAreTaken == \A f \in Flow : Queued(f) ~> ~Queued(f)

\* drop_key_clear() in type_run() is there "in case we should now be accepting
\* some formerly dropped flows".  A handler that looked the port up before may
\* queue its drop key after that, and a drop flow is then installed although its
\* port is known; expire() makes it go away.
StaleDropsEnd ==
    backer.drop_keys \cap assoc # {} ~> backer.drop_keys \cap assoc = {}

\* A request to revalidate is served: it leads to a state in which nothing is
\* pending and every facet is up to date.
RevalidationCompletes ==
    backer.need_revalidate ~> Settled /\ \A f \in Flow : facets[f] \in {0, gen}

================================================================================
