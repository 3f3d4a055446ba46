------------------------------- MODULE SeqProofs -------------------------------
(* Proofs about Seq, for any sets of seqs and threads and any bound.            *)
EXTENDS Seq, TLAPS

(******************************************************************************)
(* The inductive invariant.  NoMissedWakeup says nothing of a thread that is   *)
(* not yet in poll(), nor how a wakeup will come about; what carries it from   *)
(* seq_wait() to poll() is that every registration of the current round is     *)
(* already answered (Ready) or still has its waiter, and that a waiter's       *)
(* thread polls its latch.                                                     *)
(******************************************************************************)

\* In a round of its loop that is not over, each seq_wait() of a thread is
\* answered or represented by a waiter.
Registered ==
    \A t \in THREAD : \A w \in want[t] :
        pc[t] \in {"run", "poll"} =>
            Ready(t) \/ [seq |-> w[1], thread |-> t, value |-> w[2]] \in waiters

\* A thread with a waiter has called latch_wait() in this round.
WaitersPoll ==
    \A w \in waiters : pc[w.thread] \in {"run", "poll"} => waiting[w.thread]

\* "waiting" tells the truth about the pollfds of this round.
WaitingPolls ==
    \A t \in THREAD : waiting[t] /\ pc[t] \in {"run", "poll"} => pollfds[t]

IInv == TypeOK /\ WaitersAreCurrent /\ Registered /\ WaitersPoll /\ WaitingPolls

--------------------------------------------------------------------------------
\* The types of the state, among them that no waiter points to a seq that was
\* destroyed, are kept by every call.
THEOREM TypeCorrect == Spec => []TypeOK
<1>. USE MaxNextAssumption DEF TypeOK, Waiter
<1>1. Init => TypeOK
  BY DEF Init
<1>2. TypeOK /\ [Next]_vars => TypeOK'
  <2>. SUFFICES ASSUME TypeOK, [Next]_vars PROVE TypeOK'
    OBVIOUS
  <2>1. ASSUME NEW s \in SEQ, SeqCreate(s) PROVE TypeOK'
    BY <2>1 DEF SeqCreate, TakeNext
  <2>2. ASSUME NEW s \in SEQ, SeqChange(s) PROVE TypeOK'
    BY <2>2 DEF SeqChange, TakeNext, SeqWakeWaiters, WaitersOf
  <2>3. ASSUME NEW s \in SEQ, SeqDestroy(s) PROVE TypeOK'
    BY <2>3 DEF SeqDestroy, SeqWakeWaiters, WaitersOf
  <2>10. ASSUME NEW t \in THREAD, NEW s \in SEQ, SeqRead(t, s) PROVE TypeOK'
    BY <2>10 DEF SeqRead
  <2>4. ASSUME NEW t \in THREAD, NEW s \in SEQ, SeqWait(t, s) PROVE TypeOK'
    <3>1. seen[t][s] \in Nat
      OBVIOUS
    <3>2. waiters' \subseteq Waiter /\ {w.seq : w \in waiters'} \subseteq seqs'
      BY <2>4, <3>1 DEF SeqWait, SeqWait__
    <3>3. waiting' \in [THREAD -> BOOLEAN] /\ pollfds' \in [THREAD -> BOOLEAN]
      BY <2>4, Zenon DEF SeqWait, SeqWait__
    <3>4. timeout' \in [THREAD -> {"now", "never"}]
      BY <2>4 DEF SeqWait, SeqWait__, PollImmediateWake
    <3>5. want' \in [THREAD -> SUBSET (SEQ \X Nat)]
      BY <2>4, <3>1 DEF SeqWait
    <3>. QED
      BY <2>4, <3>2, <3>3, <3>4, <3>5 DEF SeqWait
  <2>5. ASSUME NEW t \in THREAD, PollBlock(t) PROVE TypeOK'
    BY <2>5 DEF PollBlock
  <2>6. ASSUME NEW t \in THREAD, PollReturn(t) PROVE TypeOK'
    BY <2>6 DEF PollReturn
  <2>7. ASSUME NEW t \in THREAD, SeqWoke(t) PROVE TypeOK'
    BY <2>7 DEF SeqWoke, SeqThreadWoke
  <2>8. ASSUME NEW t \in THREAD, SeqThreadExit(t) PROVE TypeOK'
    BY <2>8 DEF SeqThreadExit, SeqThreadWoke
  <2>9. CASE UNCHANGED vars
    BY <2>9 DEF vars
  <2>. QED
    BY <2>1, <2>2, <2>3, <2>4, <2>5, <2>6, <2>7, <2>8, <2>9, <2>10
       DEF Next, PollWake, PollOther
<1>. QED
  BY <1>1, <1>2, PTL DEF Spec

--------------------------------------------------------------------------------
LEMMA InitIInv == Init => IInv
BY DEF Init, IInv, TypeOK, WaitersAreCurrent, Registered, WaitersPoll,
       WaitingPolls, Waiter

\* seq_change() and seq_destroy() take away every waiter of s, but set the
\* latch of each one's thread, which polls it.
LEMMA WakeKeepsRegistrations ==
    ASSUME NEW s \in SEQ, IInv, SeqWakeWaiters(s),
           UNCHANGED <<waiting, pollfds, timeout, pc, want>>
    PROVE  Registered' /\ WaitersPoll' /\ WaitingPolls'
<1>. USE DEF IInv, TypeOK, Waiter
<1>1. Registered'
  <2>. SUFFICES ASSUME NEW t \in THREAD, NEW w \in want[t], pc[t] \in {"run", "poll"}
                PROVE  \/ Ready(t)'
                       \/ [seq |-> w[1], thread |-> t, value |-> w[2]] \in waiters'
    BY DEF Registered
  <2>1. CASE Ready(t)
    BY <2>1 DEF Ready, SeqWakeWaiters
  <2>2. CASE ~Ready(t) /\ w[1] = s
    <3>. DEFINE wtr == [seq |-> w[1], thread |-> t, value |-> w[2]]
    <3>1. wtr \in WaitersOf(s) /\ wtr.thread = t
      BY <2>2 DEF Registered, WaitersOf
    <3>2. latch'[t]
      BY <3>1, Zenon DEF SeqWakeWaiters
    <3>3. pollfds[t]
      BY <3>1 DEF WaitersPoll, WaitingPolls, WaitersOf
    <3>. QED
      BY <3>2, <3>3 DEF Ready
  <2>3. CASE ~Ready(t) /\ w[1] # s
    BY <2>3 DEF Registered, SeqWakeWaiters, WaitersOf
  <2>. QED
    BY <2>1, <2>2, <2>3
<1>2. WaitersPoll'
  BY DEF WaitersPoll, SeqWakeWaiters
<1>3. WaitingPolls'
  BY DEF WaitingPolls
<1>. QED
  BY <1>1, <1>2, <1>3

\* seq_wait() registers its thread or makes it ready, and takes nothing from
\* the registrations that exist.
LEMMA WaitKeepsIInv ==
    ASSUME NEW t \in THREAD, NEW s \in SEQ, IInv, SeqWait(t, s)
    PROVE  WaitersAreCurrent' /\ Registered' /\ WaitersPoll' /\ WaitingPolls'
<1>. USE DEF IInv, TypeOK, Waiter
<1>. DEFINE v == seen[t][s]
            wtr == [seq |-> s, thread |-> t, value |-> v]
<1>1. CASE v # value[s]
  BY <1>1 DEF SeqWait, PollImmediateWake, WaitersAreCurrent, Registered,
              WaitersPoll, WaitingPolls, Ready
<1>2. CASE v = value[s] /\ \E w \in WaitersOf(s) : w.thread = t
  <2>1. wtr \in waiters
    BY <1>2 DEF WaitersOf, WaitersAreCurrent
  <2>2. UNCHANGED <<waiters, waiting, pollfds, timeout, latch, pc, value, seqs>>
    BY <1>2 DEF SeqWait, SeqWait__, WaitersOf, WaitersAreCurrent
  <2>3. Registered'
    BY <1>2, <2>1, <2>2 DEF SeqWait, Registered, Ready
  <2>. QED
    BY <2>2, <2>3 DEF WaitersAreCurrent, WaitersPoll, WaitingPolls
<1>3. CASE v = value[s] /\ ~\E w \in WaitersOf(s) : w.thread = t
  <2>1. /\ waiters' = waiters \union {wtr}
        /\ pollfds' = [pollfds EXCEPT ![t] = @ \/ ~waiting[t]]
        /\ waiting' = [waiting EXCEPT ![t] = TRUE]
        /\ UNCHANGED <<timeout, latch, pc, value, seqs>>
        /\ pc[t] = "run" /\ s \in seqs
        /\ want' = [want EXCEPT ![t] = @ \union {<<s, v>>}]
    BY <1>3 DEF SeqWait, SeqWait__
  <2>2. WaitersAreCurrent'
    BY <1>3, <2>1 DEF WaitersAreCurrent
  <2>3. Registered'
    BY <2>1 DEF Registered, Ready
  <2>4. WaitersPoll'
    BY <2>1 DEF WaitersPoll
  <2>5. WaitingPolls'
    BY <2>1, ZenonT(30) DEF WaitingPolls
  <2>. QED
    BY <2>2, <2>3, <2>4, <2>5
<1>. QED
  BY <1>1, <1>2, <1>3

LEMMA NextIInv == IInv /\ TypeOK' /\ [Next]_vars => IInv'
<1>. SUFFICES ASSUME IInv, TypeOK', [Next]_vars PROVE IInv'
  OBVIOUS
<1>. USE DEF IInv, TypeOK, Waiter
<1>1. ASSUME NEW s \in SEQ, SeqCreate(s) PROVE IInv'
  BY <1>1 DEF SeqCreate, TakeNext, WaitersAreCurrent, Registered, WaitersPoll,
              WaitingPolls, Ready
<1>2. ASSUME NEW s \in SEQ, SeqChange(s) PROVE IInv'
  <2>1. WaitersAreCurrent'
    BY <1>2 DEF SeqChange, TakeNext, SeqWakeWaiters, WaitersOf, WaitersAreCurrent
  <2>. QED
    BY <1>2, <2>1, WakeKeepsRegistrations, Zenon DEF SeqChange
<1>3. ASSUME NEW s \in SEQ, SeqDestroy(s) PROVE IInv'
  <2>1. WaitersAreCurrent'
    BY <1>3 DEF SeqDestroy, SeqWakeWaiters, WaitersOf, WaitersAreCurrent
  <2>. QED
    BY <1>3, <2>1, WakeKeepsRegistrations DEF SeqDestroy
<1>10. ASSUME NEW t \in THREAD, NEW s \in SEQ, SeqRead(t, s) PROVE IInv'
  BY <1>10 DEF SeqRead, WaitersAreCurrent, Registered, WaitersPoll,
               WaitingPolls, Ready
<1>4. ASSUME NEW t \in THREAD, NEW s \in SEQ, SeqWait(t, s) PROVE IInv'
  BY <1>4, WaitKeepsIInv, Zenon
<1>5. ASSUME NEW t \in THREAD, PollBlock(t) PROVE IInv'
  BY <1>5 DEF PollBlock, WaitersAreCurrent, Registered, WaitersPoll,
              WaitingPolls, Ready
<1>6. ASSUME NEW t \in THREAD, PollReturn(t) PROVE IInv'
  BY <1>6 DEF PollReturn, WaitersAreCurrent, Registered, WaitersPoll,
              WaitingPolls, Ready
<1>7. ASSUME NEW t \in THREAD, SeqWoke(t) PROVE IInv'
  BY <1>7 DEF SeqWoke, SeqThreadWoke, WaitersAreCurrent, Registered,
              WaitersPoll, WaitingPolls, Ready
<1>8. ASSUME NEW t \in THREAD, SeqThreadExit(t) PROVE IInv'
  BY <1>8 DEF SeqThreadExit, SeqThreadWoke, WaitersAreCurrent, Registered,
              WaitersPoll, WaitingPolls, Ready
<1>9. CASE UNCHANGED vars
  BY <1>9 DEF vars, WaitersAreCurrent, Registered, WaitersPoll, WaitingPolls, Ready
<1>. QED
  BY <1>1, <1>2, <1>3, <1>4, <1>5, <1>6, <1>7, <1>8, <1>9, <1>10
     DEF Next, PollWake, PollOther

THEOREM IInvHolds == Spec => []IInv
BY InitIInv, NextIInv, TypeCorrect, PTL DEF Spec

--------------------------------------------------------------------------------
\* seq.h's promise: a thread asleep in poll_block() is being woken as soon as a
\* seq it waits on has changed or was destroyed.
THEOREM WakeupsAreNotMissed == Spec => []NoMissedWakeup
<1>1. IInv => NoMissedWakeup
  BY Zenon DEF IInv, Registered, WaitersAreCurrent, NoMissedWakeup, Stale, TypeOK
<1>. QED
  BY <1>1, IInvHolds, PTL

\* seq_wait__() never finds a waiter of its thread with another value.
THEOREM WaitersStayCurrent == Spec => []WaitersAreCurrent
BY IInvHolds, PTL DEF IInv

\* The counter is ahead of every seq.
Below == \A s \in SEQ : value[s] < seq_next

\* seq_create() and seq_change() take a seq to a value it never had, because
\* seq_next is above every value handed out.
THEOREM ValuesAreFresh == Spec => ValuesNeverReturn
<1>1. Init => Below
  <2>. SUFFICES ASSUME Init, NEW s \in SEQ PROVE value[s] < seq_next
    BY Zenon DEF Below
  <2>. QED
    BY 0 < 1 DEF Init
<1>2. TypeOK /\ Below /\ [Next]_vars =>
          Below' /\ [\A s \in SEQ : value'[s] # value[s] => value'[s] > value[s]]_vars
  <2>. SUFFICES ASSUME TypeOK, Below, [Next]_vars
                PROVE  /\ Below'
                       /\ \A s \in SEQ : value'[s] # value[s] => value'[s] > value[s]
    OBVIOUS
  <2>1. ASSUME NEW s \in SEQ, TakeNext(s)
        PROVE  Below' /\ \A r \in SEQ : value'[r] # value[r] => value'[r] > value[r]
    BY <2>1 DEF TakeNext, TypeOK, Below
  <2>2. CASE UNCHANGED <<value, seq_next>>
    BY <2>2 DEF Below
  <2>. QED
    BY <2>1, <2>2 DEF Next, vars, SeqCreate, SeqChange, SeqDestroy, SeqRead,
       SeqWait, PollBlock, PollWake, PollOther, PollReturn, SeqWoke, SeqThreadExit
<1>. QED
  BY <1>1, <1>2, TypeCorrect, PTL DEF Spec, ValuesNeverReturn

--------------------------------------------------------------------------------
(* Seq implements Wakeup. *)

\* Between poll() and seq_woke() nothing of the next round is registered yet.
WokeClean == \A t \in THREAD : pc[t] = "woke" => timeout[t] = "never" /\ ~pollfds[t]

\* A byte in a latch is from this round.
LatchWaited == \A t \in THREAD : InRound(t) /\ latch[t] => waiting[t]

\* No thread has read a value that was not yet handed out.
SeenBelow == \A t \in THREAD, s \in SEQ : seen[t][s] < seq_next

RInv == IInv /\ Below /\ WokeClean /\ LatchWaited /\ SeenBelow

LEMMA InitRInv == Init => RInv
<1>. SUFFICES ASSUME Init PROVE RInv
  OBVIOUS
<1>1. IInv
  BY InitIInv
<1>2. WokeClean /\ LatchWaited
  BY DEF Init, WokeClean, LatchWaited
<1>3. ASSUME NEW s \in SEQ PROVE value[s] < seq_next
  BY 0 < 1 DEF Init
<1>4. ASSUME NEW t \in THREAD, NEW s \in SEQ PROVE seen[t][s] < seq_next
  BY 0 < 1 DEF Init
<1>. QED
  BY <1>1, <1>2, <1>3, <1>4 DEF RInv, Below, SeenBelow

LEMMA NextRInv == RInv /\ IInv' /\ [Next]_vars => RInv'
<1>. SUFFICES ASSUME RInv, IInv', [Next]_vars PROVE RInv'
  OBVIOUS
<1>. USE DEF RInv, IInv, TypeOK, Waiter, InRound
<1>1. ASSUME NEW s \in SEQ, SeqCreate(s) PROVE RInv'
  BY <1>1 DEF SeqCreate, TakeNext, Below, WokeClean, LatchWaited, SeenBelow
<1>2. ASSUME NEW s \in SEQ, SeqChange(s) PROVE RInv'
  <2>1. Below' /\ SeenBelow' /\ WokeClean'
    BY <1>2 DEF SeqChange, TakeNext, Below, SeenBelow, WokeClean
  <2>2. LatchWaited'
    BY <1>2 DEF SeqChange, SeqWakeWaiters, WaitersOf, LatchWaited, WaitersPoll
  <2>. QED
    BY <2>1, <2>2
<1>3. ASSUME NEW s \in SEQ, SeqDestroy(s) PROVE RInv'
  BY <1>3 DEF SeqDestroy, SeqWakeWaiters, WaitersOf, LatchWaited, WaitersPoll,
              Below, SeenBelow, WokeClean
<1>4. ASSUME NEW t \in THREAD, NEW s \in SEQ, SeqRead(t, s) PROVE RInv'
  BY <1>4 DEF SeqRead, Below, WokeClean, LatchWaited, SeenBelow
<1>5. ASSUME NEW t \in THREAD, NEW s \in SEQ, SeqWait(t, s) PROVE RInv'
  BY <1>5 DEF SeqWait, SeqWait__, PollImmediateWake, Below, WokeClean,
              LatchWaited, SeenBelow
<1>6. ASSUME NEW t \in THREAD, PollBlock(t) PROVE RInv'
  BY <1>6 DEF PollBlock, Below, WokeClean, LatchWaited, SeenBelow
<1>7. ASSUME NEW t \in THREAD, PollReturn(t) PROVE RInv'
  BY <1>7 DEF PollReturn, Below, WokeClean, LatchWaited, SeenBelow
<1>8. ASSUME NEW t \in THREAD, SeqWoke(t) \/ SeqThreadExit(t) PROVE RInv'
  BY <1>8, SMTT(30) DEF SeqWoke, SeqThreadExit, SeqThreadWoke, Below, WokeClean,
              LatchWaited, SeenBelow
<1>9. CASE UNCHANGED vars
  BY <1>9 DEF vars, Below, WokeClean, LatchWaited, SeenBelow
<1>. QED
  BY <1>1, <1>2, <1>3, <1>4, <1>5, <1>6, <1>7, <1>8, <1>9
     DEF Next, PollWake, PollOther

\* seq_wake_waiters() does what Wakeup calls Notify.
LEMMA WakeNotifies ==
    ASSUME NEW s \in SEQ, RInv, SeqWakeWaiters(s),
           UNCHANGED <<waiting, pollfds, timeout, pc>>
    PROVE  Abstract!Notify(s)
<1>. USE DEF RInv, IInv, TypeOK, Waiter, InRound, WaitersOf
<1>1. ASSUME NEW t \in THREAD, InRound(t)
      PROVE  Ready(t)' <=> Ready(t) \/ Waits(t, s)
  <2>1. Waits(t, s) => pollfds[t]
    BY <1>1 DEF WaitersPoll, WaitingPolls, Waits
  <2>2. latch'[t] <=> latch[t] \/ Waits(t, s)
    BY Zenon DEF SeqWakeWaiters, Waits
  <2>. QED
    BY <2>1, <2>2 DEF Ready
<1>2. ASSUME NEW t \in THREAD, NEW r \in SEQ
      PROVE  Waits(t, r)' <=> r # s /\ Waits(t, r)
  BY DEF SeqWakeWaiters, Waits
<1>. QED
  BY <1>1, <1>2 DEF Abstract!Notify

\* One step of Seq is one step of Wakeup, or no step at all (seq_woke()).
LEMMA StepRefines == RInv /\ [Next]_vars => [Abstract!Next]_(Abstract!vars)
<1>. SUFFICES ASSUME RInv, [Next]_vars
              PROVE  Abstract!Next \/ UNCHANGED Abstract!vars
  OBVIOUS
<1>. USE DEF RInv, IInv, TypeOK, Waiter, InRound
<1>1. ASSUME NEW s \in SEQ, SeqCreate(s) PROVE Abstract!Create(s)
  BY <1>1 DEF SeqCreate, TakeNext, SeenBelow, Waits, Ready, Abstract!Create
<1>2. ASSUME NEW s \in SEQ, SeqChange(s) PROVE Abstract!Change(s)
  <2>1. Abstract!Notify(s)
    BY <1>2, WakeNotifies DEF SeqChange
  <2>2. ASSUME NEW t \in THREAD, NEW r \in SEQ
        PROVE  seen'[t][r] # value'[r] <=> seen[t][r] # value[r] \/ r = s
    BY <1>2 DEF SeqChange, TakeNext, SeenBelow
  <2>. QED
    BY <1>2, <2>1, <2>2 DEF SeqChange, Abstract!Change
<1>3. ASSUME NEW s \in SEQ, SeqDestroy(s) PROVE Abstract!Destroy(s)
  <2>1. Abstract!Notify(s)
    BY <1>3, WakeNotifies DEF SeqDestroy
  <2>. QED
    BY <1>3, <2>1 DEF SeqDestroy, Abstract!Destroy
<1>4. ASSUME NEW t \in THREAD, NEW s \in SEQ, SeqRead(t, s)
      PROVE  Abstract!Read(t, s)
  BY <1>4 DEF SeqRead, Waits, Ready, Abstract!Read
<1>5. ASSUME NEW t \in THREAD, NEW s \in SEQ, SeqWait(t, s)
      PROVE  Abstract!Wait(t, s)
  <2>1. CASE seen[t][s] # value[s]
    BY <1>5, <2>1, SMTT(30) DEF SeqWait, PollImmediateWake, Waits, Ready, Abstract!Wait
  <2>2. CASE seen[t][s] = value[s] /\ Waits(t, s)
    <3>1. UNCHANGED <<waiters, waiting, pollfds, timeout, latch, pc, value, seqs, seen>>
      BY <1>5, <2>2 DEF SeqWait, SeqWait__, WaitersOf, Waits, WaitersAreCurrent
    <3>. QED
      BY <1>5, <2>2, <3>1, SMTT(30) DEF SeqWait, Waits, Ready, Abstract!Wait
  <2>3. CASE seen[t][s] = value[s] /\ ~Waits(t, s)
    <3>1. /\ waiters' = waiters \union {[seq |-> s, thread |-> t, value |-> seen[t][s]]}
          /\ UNCHANGED <<timeout, latch, pc, value, seqs, seen>>
          /\ pc[t] = "run" /\ s \in seqs
          /\ pollfds' = [pollfds EXCEPT ![t] = @ \/ ~waiting[t]]
      BY <1>5, <2>3 DEF SeqWait, SeqWait__, WaitersOf, Waits
    <3>2. ASSUME NEW u \in THREAD, NEW r \in SEQ
          PROVE  Waits(u, r)' <=> Waits(u, r) \/ (u = t /\ r = s)
      <4>. DEFINE n == [seq |-> s, thread |-> t, value |-> seen[t][s]]
      <4>1. n \in waiters' /\ n.seq = s /\ n.thread = t
        BY <3>1
      <4>2. \A w \in waiters' : w \in waiters \/ w = n
        BY <3>1
      <4>3. waiters \subseteq waiters'
        BY <3>1
      <4>. HIDE DEF n
      <4>. QED
        BY <4>1, <4>2, <4>3 DEF Waits
    <3>3. ASSUME NEW u \in THREAD, InRound(u) PROVE Ready(u)' <=> Ready(u)
      BY <3>1, <3>3 DEF WaitingPolls, LatchWaited, Ready
    <3>. QED
      BY <2>3, <3>1, <3>2, <3>3, SMTT(30) DEF Abstract!Wait
  <2>. QED
    BY <2>1, <2>2, <2>3
<1>6. ASSUME NEW t \in THREAD, PollBlock(t) PROVE Abstract!Block(t)
  BY <1>6, Zenon DEF PollBlock, Waits, Ready, Abstract!Block
<1>7. ASSUME NEW t \in THREAD, PollWake(t) PROVE Abstract!Woken(t)
  BY <1>7, Zenon DEF PollWake, PollReturn, Waits, Ready, Abstract!Woken, Abstract!Unblock
<1>8. ASSUME NEW t \in THREAD, PollOther(t) PROVE Abstract!Unrelated(t)
  BY <1>8, Zenon DEF PollOther, PollReturn, Waits, Ready, Abstract!Unrelated,
              Abstract!Unblock
<1>9. ASSUME NEW t \in THREAD, SeqWoke(t) PROVE UNCHANGED Abstract!vars
  BY <1>9 DEF SeqWoke, SeqThreadWoke, WokeClean, Waits, Ready, Abstract!vars
<1>10. ASSUME NEW t \in THREAD, SeqThreadExit(t) PROVE Abstract!Exit(t)
  BY <1>10, Zenon DEF SeqThreadExit, SeqThreadWoke, Waits, Ready, Abstract!Exit
<1>11. CASE UNCHANGED vars
  BY <1>11 DEF vars, Waits, Ready, Abstract!vars
<1>. QED
  BY <1>1, <1>2, <1>3, <1>4, <1>5, <1>6, <1>7, <1>8, <1>9, <1>10, <1>11
     DEF Next, Abstract!Next

\* seq.c keeps the promise of seq.h, for any seqs and threads.
THEOREM SeqImplementsWakeup == Spec => ImplementsWakeup
<1>1. Init => Abstract!Init
  BY DEF Init, Abstract!Init, InRound, Ready, Waits
<1>. QED
  BY <1>1, InitRInv, NextRInv, StepRefines, IInvHolds, PTL
     DEF Spec, ImplementsWakeup, Abstract!Spec
================================================================================
