---------------------------------- MODULE Seq ----------------------------------
(******************************************************************************)
(* lib/seq.c with the parts of lib/latch.c and lib/poll-loop.c it works with: *)
(* a pollable sequence number.  Threads register interest in a seq with       *)
(* seq_wait(), sleep in poll_block(), and are woken through a per-thread      *)
(* latch (a nonblocking pipe) when the seq changes or is destroyed.           *)
(*                                                                            *)
(* Every function of seq.c runs under seq_mutex, so each is one action.       *)
(* poll_block() is three: entering poll(), returning from it, and seq_woke(), *)
(* because other threads take seq_mutex between them.                         *)
(******************************************************************************)
EXTENDS Naturals

CONSTANTS SEQ,       \* struct seq objects (an address may be reused)
          THREAD,    \* threads that run a poll loop
          MaxNext    \* bound on the global counter seq_next

ASSUME MaxNextAssumption == MaxNext \in Nat

VARIABLES seq_next,  \* the global counter every new value is taken from
          seqs,      \* the seqs that exist, between seq_create and seq_destroy
          value,     \* seq->value
          waiters,   \* struct seq_waiter objects, on a seq's and a thread's list
          latch,     \* seq_thread->latch: does the pipe hold a byte
          waiting,   \* seq_thread->waiting: latch_wait was already called
          pollfds,   \* is the thread's latch among loop->pollfds
          timeout,   \* loop->timeout_when: "now" (already past) or "never"
          pc,        \* where the thread is in its poll loop
          seen,      \* what the thread's last seq_read() of each seq returned
          want       \* history: the seq_wait() calls since the last poll_block()

vars == <<seq_next, seqs, value, waiters, latch, waiting, pollfds, timeout, pc,
          seen, want>>

Waiter == [seq : SEQ, thread : THREAD, value : Nat]

TypeOK ==
    /\ seq_next \in Nat
    /\ seqs \subseteq SEQ
    /\ value \in [SEQ -> Nat]
    /\ waiters \subseteq Waiter /\ {w.seq : w \in waiters} \subseteq seqs
    /\ latch \in [THREAD -> BOOLEAN]
    /\ waiting \in [THREAD -> BOOLEAN]
    /\ pollfds \in [THREAD -> BOOLEAN]
    /\ timeout \in [THREAD -> {"now", "never"}]
    /\ pc \in [THREAD -> {"run", "poll", "woke", "exited"}]
    /\ seen \in [THREAD -> [SEQ -> Nat]]
    /\ want \in [THREAD -> SUBSET (SEQ \X Nat)]

\* poll_loop() zero-allocates the loop, so timeout_when starts at 0, a time in
\* the past: a thread's first poll_block() does not sleep.  seq_thread_get()
\* creates a seq_thread on first use; before that it has no effect.
Init ==
    /\ seq_next = 1
    /\ seqs = {}
    /\ value = [s \in SEQ |-> 0]
    /\ waiters = {}
    /\ latch = [t \in THREAD |-> FALSE]
    /\ waiting = [t \in THREAD |-> FALSE]
    /\ pollfds = [t \in THREAD |-> FALSE]
    /\ timeout = [t \in THREAD |-> "now"]
    /\ pc = [t \in THREAD |-> "run"]
    /\ seen = [t \in THREAD |-> [s \in SEQ |-> 0]]
    /\ want = [t \in THREAD |-> {}]

--------------------------------------------------------------------------------
(* Helpers that run with seq_mutex held. *)

WaitersOf(s) == {w \in waiters : w.seq = s}

\* seq_wake_waiters(): set the latch of each waiter's thread, destroy the waiter.
SeqWakeWaiters(s) ==
    /\ latch' = [t \in THREAD |-> latch[t] \/ \E w \in WaitersOf(s) : w.thread = t]
    /\ waiters' = waiters \ WaitersOf(s)

\* seq_thread_woke(): destroy all of a thread's waiters and empty its latch.
SeqThreadWoke(t) ==
    /\ waiters' = {w \in waiters : w.thread # t}
    /\ latch' = [latch EXCEPT ![t] = FALSE]

TakeNext(s) ==
    /\ seq_next < MaxNext
    /\ value' = [value EXCEPT ![s] = seq_next]
    /\ seq_next' = seq_next + 1

--------------------------------------------------------------------------------
(* The life of a seq.  Any thread may make these calls at any time. *)

\* Slip: a counter of its own in each new seq, instead of the global one.
SeqCreate_OwnCounter(s) ==
    /\ s \notin seqs
    /\ value' = [value EXCEPT ![s] = 1]
    /\ seqs' = seqs \union {s}
    /\ UNCHANGED <<seq_next, waiters, latch, waiting, pollfds, timeout, pc, seen, want>>

SeqCreate(s) ==
    /\ s \notin seqs
    /\ TakeNext(s)
    /\ seqs' = seqs \union {s}
    /\ UNCHANGED <<waiters, latch, waiting, pollfds, timeout, pc, seen, want>>

SeqChange(s) ==
    /\ s \in seqs
    /\ TakeNext(s)
    /\ SeqWakeWaiters(s)
    /\ UNCHANGED <<seqs, waiting, pollfds, timeout, pc, seen, want>>

\* Slip: the waiters are freed, their threads' latches not set.
SeqDestroy_Silent(s) ==
    /\ s \in seqs
    /\ seqs' = seqs \ {s}
    /\ waiters' = waiters \ WaitersOf(s)
    /\ UNCHANGED <<seq_next, value, latch, waiting, pollfds, timeout, pc, seen, want>>

SeqDestroy(s) ==
    /\ s \in seqs
    /\ seqs' = seqs \ {s}
    /\ SeqWakeWaiters(s)
    /\ UNCHANGED <<seq_next, value, waiting, pollfds, timeout, pc, seen, want>>

--------------------------------------------------------------------------------
(* A thread and its poll loop. *)

PollImmediateWake(t) == timeout' = [timeout EXCEPT ![t] = "now"]

SeqRead(t, s) ==
    /\ pc[t] = "run"
    /\ s \in seqs
    /\ seen' = [seen EXCEPT ![t][s] = value[s]]
    /\ UNCHANGED <<seq_next, seqs, value, waiters, latch, waiting, pollfds,
                   timeout, pc, want>>

\* seq_wait__(): a new waiter, unless this thread already has one on s, and the
\* thread's latch among the pollfds, unless it is already there.
SeqWait__(t, s, v) ==
    IF \E w \in WaitersOf(s) : w.thread = t
    THEN /\ IF \E w \in WaitersOf(s) : w.thread = t /\ w.value # v
            THEN PollImmediateWake(t) ELSE UNCHANGED timeout
         /\ UNCHANGED <<waiters, waiting, pollfds>>
    ELSE /\ waiters' = waiters \union {[seq |-> s, thread |-> t, value |-> v]}
         /\ pollfds' = [pollfds EXCEPT ![t] = @ \/ ~waiting[t]]
         /\ waiting' = [waiting EXCEPT ![t] = TRUE]
         /\ UNCHANGED timeout

\* seq_wait() for the value that the thread's last seq_read() returned, or for
\* 0, which is no seq's value, if there was none.
SeqWait(t, s) ==
    /\ pc[t] = "run"
    /\ s \in seqs
    /\ IF seen[t][s] = value[s]
       THEN SeqWait__(t, s, seen[t][s])
       ELSE /\ PollImmediateWake(t)
            /\ UNCHANGED <<waiters, waiting, pollfds>>
    /\ want' = [want EXCEPT ![t] = @ \union {<<s, seen[t][s]>>}]
    /\ UNCHANGED <<seq_next, seqs, value, latch, pc, seen>>

\* poll_block() up to its call to poll().
PollBlock(t) ==
    /\ pc[t] = "run"
    /\ pc' = [pc EXCEPT ![t] = "poll"]
    /\ UNCHANGED <<seq_next, seqs, value, waiters, latch, waiting, pollfds, timeout, seen, want>>

\* What makes poll() return on account of seqs: a zero timeout, or a readable latch.
Ready(t) == timeout[t] = "now" \/ (pollfds[t] /\ latch[t])

\* poll() returns, and poll_block() resets the thread's registrations.
PollReturn(t) ==
    /\ pc' = [pc EXCEPT ![t] = "woke"]
    /\ timeout' = [timeout EXCEPT ![t] = "never"]
    /\ pollfds' = [pollfds EXCEPT ![t] = FALSE]
    /\ UNCHANGED <<seq_next, seqs, value, waiters, latch, waiting, seen, want>>

PollWake(t) == pc[t] = "poll" /\ Ready(t) /\ PollReturn(t)

\* Some other file descriptor or timer of the thread ends the poll().
PollOther(t) == pc[t] = "poll" /\ ~Ready(t) /\ PollReturn(t)

\* Slip: "thread->waiting = false" is missing.
SeqWoke_KeepsWaiting(t) ==
    /\ pc[t] = "woke"
    /\ SeqThreadWoke(t)
    /\ pc' = [pc EXCEPT ![t] = "run"]
    /\ want' = [want EXCEPT ![t] = {}]
    /\ UNCHANGED <<seq_next, seqs, value, waiting, pollfds, timeout, seen>>

\* seq_woke(), the last thing poll_block() does.
SeqWoke(t) ==
    /\ pc[t] = "woke"
    /\ SeqThreadWoke(t)
    /\ waiting' = [waiting EXCEPT ![t] = FALSE]
    /\ pc' = [pc EXCEPT ![t] = "run"]
    /\ want' = [want EXCEPT ![t] = {}]
    /\ UNCHANGED <<seq_next, seqs, value, pollfds, timeout, seen>>

\* The destructor of the thread's seq_thread, run when the thread exits.
SeqThreadExit(t) ==
    /\ pc[t] = "run"
    /\ SeqThreadWoke(t)
    /\ pc' = [pc EXCEPT ![t] = "exited"]
    /\ want' = [want EXCEPT ![t] = {}]
    /\ UNCHANGED <<seq_next, seqs, value, waiting, pollfds, timeout, seen>>

--------------------------------------------------------------------------------
Next ==
    \/ \E s \in SEQ : SeqCreate(s) \/ SeqChange(s) \/ SeqDestroy(s)
    \/ \E t \in THREAD :
        \/ \E s \in SEQ : SeqRead(t, s) \/ SeqWait(t, s)
        \/ PollBlock(t) \/ PollWake(t) \/ PollOther(t) \/ SeqWoke(t)
        \/ SeqThreadExit(t)

Spec == Init /\ [][Next]_vars

\* poll() returns once one of its file descriptors is readable or its timeout
\* has passed; the kernel guarantees it.
FairSpec == Spec /\ \A t \in THREAD : WF_vars(PollWake(t))

--------------------------------------------------------------------------------
(* Properties *)

\* How a state of Seq looks to the users of seqs.  Between poll() and
\* seq_woke() a thread's registrations are left over from the round that ended.
InRound(t) == pc[t] \in {"run", "poll"}

Waits(t, s) == \E w \in waiters : w.seq = s /\ w.thread = t

Abstract == INSTANCE Wakeup WITH
    exist <- seqs,
    changed <- {p \in THREAD \X SEQ : seen[p[1]][p[2]] # value[p[2]]},
    armed <- {p \in THREAD \X SEQ : InRound(p[1]) /\ Waits(p[1], p[2])},
    wake <- {t \in THREAD : InRound(t) /\ Ready(t)},
    state <- [t \in THREAD |-> IF pc[t] = "poll" THEN "block"
                               ELSE IF pc[t] = "exited" THEN "exited" ELSE "run"]

\* The waiters, latches and pollfds of seq.c implement the wakeups that seq.h
\* describes: every call has the effect on the poll_block() calls of all
\* threads that Wakeup gives it, and no other.
ImplementsWakeup == Abstract!Spec

\* What a seq_wait(s, v) call waits for has happened.
Stale(w) == w[1] \notin seqs \/ value[w[1]] # w[2]

\* seq.h: "a thread waiting on a particular value will wake up if the sequence
\* number changes, or even if the 'struct seq' is destroyed".  A thread that
\* sleeps in poll_block() after seq_wait(s, v), while s no longer has the value
\* v or no longer exists, is being woken.  It takes a registration by one
\* thread, a change by another and the latch and registrations left over from
\* earlier rounds of the loop to go wrong.
NoMissedWakeup ==
    \A t \in THREAD : \A w \in want[t] :
        pc[t] = "poll" /\ Stale(w) => Ready(t)

\* No waiter outlives the value it waits for: seq_change() and seq_destroy()
\* free every waiter, and seq_wait() adds one only for the current value, so
\* the branch of seq_wait__() for a waiter with a different value is never taken.
WaitersAreCurrent ==
    \A w \in waiters : w.seq \in seqs /\ w.value = value[w.seq]

\* A seq never has a value that it had before, not even when it is destroyed and
\* another one is created at its address, so equal values mean "no change".
ValuesNeverReturn ==
    [][\A s \in SEQ : value'[s] # value[s] => value'[s] > value[s]]_vars

\* A thread asleep on a seq that has changed, or was destroyed, wakes up.
SleeperWakes ==
    \A t \in THREAD :
        (pc[t] = "poll" /\ \E w \in want[t] : Stale(w)) ~> pc[t] # "poll"
================================================================================
