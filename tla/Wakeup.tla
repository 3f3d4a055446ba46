--------------------------------- MODULE Wakeup --------------------------------
(******************************************************************************)
(* What lib/seq.h promises the users of a seq, without waiters, latches or    *)
(* file descriptors.  A thread remembers, for each seq, whether it changed    *)
(* since the thread read it; seq_wait() arms the thread's next poll_block()   *)
(* for a seq, or makes it return at once when the seq has already changed;    *)
(* a change or the destruction of a seq wakes every thread armed for it.      *)
(******************************************************************************)
CONSTANTS SEQ, THREAD

VARIABLES exist,    \* the seqs that exist
          changed,  \* <<t, s>>: s changed since thread t read it
          armed,    \* <<t, s>>: t's next or current poll_block() is armed for s
          wake,     \* the threads whose next or current poll_block() must return
          state     \* per thread: running, in poll_block(), or exited

vars == <<exist, changed, armed, wake, state>>

Init ==
    /\ exist = {}
    /\ changed = {}
    /\ armed = {}
    /\ wake = THREAD
    /\ state = [t \in THREAD |-> "run"]

\* Wake the threads armed for s, which stop being armed for it.
Notify(s) ==
    /\ wake' = wake \union {t \in THREAD : <<t, s>> \in armed}
    /\ armed' = armed \ (THREAD \X {s})

Create(s) ==
    /\ s \notin exist
    /\ exist' = exist \union {s}
    /\ changed' = changed \union (THREAD \X {s})
    /\ UNCHANGED <<armed, wake, state>>

Change(s) ==
    /\ s \in exist
    /\ changed' = changed \union (THREAD \X {s})
    /\ Notify(s)
    /\ UNCHANGED <<exist, state>>

Destroy(s) ==
    /\ s \in exist
    /\ exist' = exist \ {s}
    /\ Notify(s)
    /\ UNCHANGED <<changed, state>>

Read(t, s) ==
    /\ state[t] = "run" /\ s \in exist
    /\ changed' = changed \ {<<t, s>>}
    /\ UNCHANGED <<exist, armed, wake, state>>

Wait(t, s) ==
    /\ state[t] = "run" /\ s \in exist
    /\ IF <<t, s>> \in changed
       THEN wake' = wake \union {t} /\ UNCHANGED armed
       ELSE armed' = armed \union {<<t, s>>} /\ UNCHANGED wake
    /\ UNCHANGED <<exist, changed, state>>

\* poll_immediate_wake().
WakeNow(t) ==
    /\ state[t] = "run"
    /\ wake' = wake \union {t}
    /\ UNCHANGED <<exist, changed, armed, state>>

Block(t) ==
    /\ state[t] = "run"
    /\ state' = [state EXCEPT ![t] = "block"]
    /\ UNCHANGED <<exist, changed, armed, wake>>

\* poll_block() returns, and with it all its registrations are gone.
Unblock(t) ==
    /\ state[t] = "block"
    /\ state' = [state EXCEPT ![t] = "run"]
    /\ armed' = armed \ ({t} \X SEQ)
    /\ wake' = wake \ {t}
    /\ UNCHANGED <<exist, changed>>

Woken(t) == t \in wake /\ Unblock(t)

\* Other events of the thread's poll loop may end poll_block() as well.
Unrelated(t) == t \notin wake /\ Unblock(t)

Exit(t) ==
    /\ state[t] = "run"
    /\ state' = [state EXCEPT ![t] = "exited"]
    /\ armed' = armed \ ({t} \X SEQ)
    /\ wake' = wake \ {t}
    /\ UNCHANGED <<exist, changed>>

Next ==
    \/ \E s \in SEQ : Create(s) \/ Change(s) \/ Destroy(s)
    \/ \E t \in THREAD :
        \/ \E s \in SEQ : Read(t, s) \/ Wait(t, s)
        \/ WakeNow(t) \/ Block(t) \/ Woken(t) \/ Unrelated(t) \/ Exit(t)

Spec == Init /\ [][Next]_vars
================================================================================
