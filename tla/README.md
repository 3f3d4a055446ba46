# Open vSwitch: a TLA+ verification project

This directory models parts of Open vSwitch (the C sources under `src/`, including
the segmented table pipeline that this fork adds) in TLA+, checks the models with
TLC on small instances, and proves the most important properties with TLAPS for
every instance. `PROJECT.json` lists the components, runs, mutants, hazards and
theorems, and maps every definition to the lines it models.

    tlc -config MCSeq.cfg MCSeq      # one of the runs
    tlapm SeqProofs.tla              # one of the proof modules

## The system

`ovs-vswitchd` is a main thread that configures bridges from a database and
processes OpenFlow, and a set of threads that handle packets the datapath could
not. `ovsdb-server` holds the database. Its clients, among them `ovs-vsctl` and
`ovs-vswitchd`, talk JSON-RPC to it.

| Part | State | What makes it hard |
| --- | --- | --- |
| seq, latch, poll loop (`lib/seq.c`, `lib/latch.c`, `lib/poll-loop.c`) | values, waiters, latches, pollfds | wakeups across threads, left-over registrations, reused addresses |
| Upcall path (`ofproto/ofproto-dpif-upcall.c`, parts of `ofproto-dpif.c`) | per-handler queues, queues to main, `reval_seq`, facets, drop keys | translation races with configuration; sleeping threads; stopping threads |
| Reconnect FSM and JSON-RPC session (`lib/reconnect.c`, `lib/jsonrpc.c`) | FSM state and timers, streams, seqno | timeouts, retries, failures at each step |
| LACP (`lib/lacp.c`) | slaves, partner information, attached flags | lost PDUs, handler thread against main thread |
| BFD (`lib/bfd.c`) | session state, poll sequences, decay | lost, duplicated, reordered messages, restarts, crossing polls |
| OVSDB storage (`ovsdb/log.c`, `ovsdb/file.c`) | log file, its copy during compaction, the directory | calls that fail, kills and power failures between any two calls |
| OVSDB transactions (`ovsdb/transaction.c`) | tables, reference counts, weak references, indexes | passes that add to what they go over; errors half way |
| OVSDB server and client library (`ovsdb/jsonrpc-server.c`, `server.c`, `trigger.c`, `lib/ovsdb-idl.c`) | sessions, locks, triggers, monitors, replicas | connections that fail with work under way |
| Configuration (`vswitchd/bridge.c`, `utilities/ovs-vsctl.c`) | `next_cfg`, `cur_cfg`, bridges | retries after an unknown outcome, two switches and one lock |
| OpenFlow switch library and connections (`ofproto/ofproto.c`, `connmgr.c`) | flow tables, pending operations, roles, monitors | blocked requests, paused notifications, changes by other threads |
| Segmented table pipeline (`ofproto/ofproto-dpif-xlate.c`, `lib/increment_table_id.c`, `learn_learn.c`, `learn_delete.c`, `simon.h`) | table counters, learned flows, the walk of a translation | translations that change the tables that others walk |

How they interact: handler threads fill the queues of the upcall path and wake the
main thread through a seq (`Udpif` uses `Wakeup`). They translate packets, and so
walk and change the tables of the pipeline (`Pipeline`), and their learn actions
change the flow tables that controllers monitor (`Ofproto`). They also deliver LACP
and BFD packets to those modules while the main thread runs their timers, each
module under a mutex of its own. The main thread gets its configuration over a
JSON-RPC session to `ovsdb-server` (`ConfigSync`, over `OvsdbIdl` and
`OvsdbServer`), which commits transactions (`OvsdbTxn`) and stores them
(`OvsdbFile`).

The remaining parts (encodings, device and datapath providers, tools, the kernel
datapath, CFM, STP, bonding, MAC learning) are in `PROJECT.json` with the reason
they are left out.

## Modules

| Module | Models |
| --- | --- |
| `Wakeup` | the promise of `lib/seq.h`: an abstract wakeup object |
| `Seq`, `SeqProofs` | `lib/seq.c` with latches and the poll loop; implements `Wakeup` |
| `Udpif`, `UdpifProofs` | the upcall path; uses `Wakeup` for `udpif->wait_seq` |
| `Reconnect` | the FSM of `lib/reconnect.c`, as operators |
| `JsonrpcSession`, `SessionProofs` | `struct jsonrpc_session`; extends `Reconnect` |
| `Lacp`, `LacpProofs` | bonds joined by links that lose PDUs |
| `Bfd`, `BfdProofs` | the two ends of a path that is unreliable |
| `DurableStore` | the promise of the database's storage |
| `OvsdbFile`, `OvsdbFileProofs` | log, recovery and compaction; implements `DurableStore` |
| `OvsdbTxn` | the commit of a transaction, pass by pass |
| `OvsdbServer` | sessions, lock, triggers and monitors of `ovsdb-server` |
| `OvsdbIdl` | the client library over `OvsdbServer`'s sessions |
| `ConfigSync` | `ovs-vsctl`, `ovs-vswitchd` and direct clients, composed with the two above |
| `Ofproto` | flow tables, controllers and monitors of a bridge |
| `Pipeline`, `PipelineProofs` | translations through the ingress, production and egress tables |

The modules named `MC...` give the constants their values. Definitions that `PROJECT.json`
lists as mutants (most are called `Slip...`) are mutated forms of the definition that follows.
Nothing uses them but mutation tests: replacing the definition by its slip must
make TLC report the property that `PROJECT.json` pairs it with.

### Seq and Wakeup

Every function of `seq.c` runs under `seq_mutex` and is one action. `poll_block()`
is three (`PollBlock`, `PollWake` or `PollOther`, `SeqWoke`), because other threads
may take the mutex between them. `SeqCreate`, `SeqChange` and `SeqDestroy` have no
thread: any thread may call them. `want` is history, the `seq_wait()` calls of the
current round, and `seen` is what the caller keeps of its last `seq_read()`. An
address may be reused after `seq_destroy()`.

`Wakeup` forgets waiters, latches and file descriptors. It keeps which seqs have
changed since a thread read them, for which it is armed, and who must wake.
`Abstract` in `Seq` is the refinement mapping.

### Udpif

A step is a critical section, or code that touches only what its thread owns. The
program counters of the dispatcher, of each handler and of the main thread name
the places in between, so `udpif_wait()`, for instance, reads the seq
(`UdpifWaitRead`), looks at the queues (`UdpifWaitCheck`) and registers
(`UdpifWaitArm`) in three steps. What a translation computes is abstracted to
`gen`, the version of the configuration it read: a facet is stale iff its `gen` is
old. `wait_seq` is an instance of `Wakeup` with the main thread as its waiter,
which is what `Seq` is proved to implement.

### Reconnect and JsonrpcSession

`Reconnect` has one operator per function of `reconnect.c`, from an FSM and the
time to the next FSM. `JsonrpcSession` calls them where `jsonrpc.c` does.
`jsonrpc_session_run` is one action that does everything the function does in one
call, with the results of the streams below as its inputs. Time is counted in
units of a second. Four kinds of sessions are modelled: active with retry, active
without, passive, and one opened on an accepted connection.

### Lacp

Each operation holds the module's mutex and is one action. `lacp_run(a, rx, tx)`
is `lacp_run()` with any set of expired timers. A slave is a record in the set of
its bond's slaves, a state byte the set of its flags, and a system's id and
priority are one number. `Ends` is the cabling, which may lead the slaves of one bond
to different bonds.

### Bfd

Both ends with their sessions, and the messages on their way (`wire`). Time is not
kept: each timer may have passed at any call. The operators on one session
(`Configured`, `Ran`, `Composed`, `Processed`, ...) are the bodies of the functions,
and the actions apply them to one end. A session that is disabled and enabled gets
a new discriminator. `heard` is history: which session accepted a message of which.

### OvsdbFile and DurableStore

A step is one system call of `ovsdb_log_write()`, `ovsdb_log_commit()`,
`ovsdb_file_compact()` or of the start of the server, so a kill or a power failure
can come between any two. A file is what the process reads of it (`data`) and what
is known to be on the disk (`disk`); after a power failure it is any mixture that
the calls so far allow, torn records included. The directory has two versions in
the same way, because a rename is durable only after `fsync_parent_dir()`. A
database is the sequence of the transactions that made it, with a unique index that
makes the replay of a log in the wrong order fail.

`DurableStore` is what a client may count on: transactions are answered one by one,
and a restart undoes at most the last of those that were not answered as durable. A
sync that fails ends the promise (`sound`), as the program cannot know what is on
the disk. `Durable` in `OvsdbFile` is the refinement.

### OvsdbTxn

The passes of `ovsdb_txn_commit()` in their order, each visiting the rows of the
transaction in any order, as the order is that of a hash table. `Surviving`,
`Final` and `Legal` define what a commit should give without passes, and
`CommitsRight` compares the two. The contents of a row are abstracted, but not its
`_version`: it is new from the first change in a transaction until the commit is
finished, and it is one of the columns that `determine_changes()` compares.

### OvsdbServer, OvsdbIdl and ConfigSync

The database is one `Open_vSwitch` row. The server reads one message, runs one
trigger, or writes one answer per step; a client's `ovsdb_idl_run()` reads one
message. A session has two ends that close separately, so a client can be back on
a new session while the server still serves the old one. `change_seqno` is
kept as `changed`, what its users compare it for. Roles say what each client is:
an `ovs-vsctl` with or without `--retry`, an `ovs-vswitchd`, or a client that takes,
steals and releases the lock and submits transactions directly.

### Ofproto

One action per request, per step of the expiry loop and per call of a handler
thread. A request, including the operations it queues and their completion by
`ofproto-dpif`, runs under `ofproto_mutex` and is one step; the reply to a monitor
request is sent after the mutex is released and is another. `view` is history: what
a controller believes of the flows it monitors. `misled` marks the flows about which
the code can misinform it (see Observations). Where the code's outcome is undefined,
`fault` says why and the behaviour stops.

### Pipeline

A translation is a recursive C function; its stack is explicit here, one frame per
call. Threads interleave between any two accesses to the counters, the tables and the
flow tables behind `ofproto_mutex`. An address is abstracted to its two halves. All
actions that output are kept, as only some are followed by an egress pass, and so are
those that end a table early (`StopActions`, a TTL that has run out). Table number 255
in a flow_mod stands for all tables, as in `ofproto.c` (`Targets`).
`owed` is history: the tables that hold, when a translation begins, a flow learned
for its class; `seen` the tables it looked up.

## Runs

All runs finish within five minutes with two workers. There is one for each question:

| Run | Instance | Shows |
| --- | --- | --- |
| `seq` | 2 threads, 2 seqs, 2 values | `NoMissedWakeup`, `ValuesNeverReturn`, `SleeperWakes`; `Seq` implements `Wakeup` |
| `udpif` | up to 2 handlers, 1 flow, queues and batches of 1, 2 events, fair | `FacetsFresh`: revalidation leaves no stale facet; `MainNotStranded`; `ThreadsStop`, `MissesAreTaken`, `StaleDropsEnd`, `RevalidationCompletes` |
| `session` | 4 kinds, 5 s, 2 connections, settings that change | `SessionConsistent`, `ProbedBeforeDrop`, `AliveAsPromised` |
| `lacp` | two bonds, one link, 2 events, fair | `LinksComeUp` |
| `bfd` | 2 changes at one end, or 1 and a fault, 2 messages each way, fair | `UpMeansHeard`, `Settles` |
| `bfd_decay` | decay begins and ends, fair | violates `DecayEnds` (see Findings) |
| `ovsdb_storage` | 3 transactions, 1 compaction, 2 failing calls, 2 crashes | `EitherVersion`: the server can always start; `Durable`: `OvsdbFile` implements `DurableStore` |
| `ovsdb_txn` | three schemas, transactions of 2 row operations one after the other | `CountsRight`, `WeakListsExact`, `CommitsRight` |
| `config_sync` | eight deployments of three clients, one fault | `ReplicaInStep`, `LockInStep`, `ExactlyOnce`, `AppliedBeforeReturn`, `BridgesFollow`, `NoTriggerOverlooked`, `AnsweredOnce`, `CurCfgAdvances`, `VsctlReturns`, `ConfigReaches` |
| `openflow` | eight scenarios of two controllers and a service connection | `MonitorsFollow`, `QueueBounded`, `OneMaster`, `SlavesWriteNothing`, `PauseEnds` |
| `pipeline` | two handlers, the main thread, ten scenarios | `LearnedFlowsSeen`, `TranslationsEnd` |
| `pipeline_compare` | two source addresses | violates `SourceCompared` (see Findings) |

### Bounds

- `MaxNext = 3` gives out two values. That is enough for two seqs at once, a change,
  or a seq that is destroyed and created again at its address.
- `MaxEvents` in `Udpif` counts upcalls, spurious wakeups, configuration changes and
  learn actions. A stale facet takes one upcall and one change. The switch starts
  with one handler and may be configured for two, which stops and starts threads.
  Queues hold one, so that the second upcall, or what the second batch pushes to
  the main thread, can find them full.
- `MaxTime` in `JsonrpcSession` is five seconds: the backoff doubles twice and a
  probe of two seconds is sent and times out. Two connections are enough to
  confuse one with the other.
- `MaxEvents` in `Lacp` counts losses, expired receive timers and
  reconfigurations. Periodic transmission is not bounded.
- In `Bfd`, `MaxChanges` counts configurations, restarts and changes of decay,
  `MaxFaults` expired detection times and faults of the path, and `MaxWire` the
  messages on their way to one end. Duplicates and reordering need two messages on
  the wire. A change during the poll sequence of another takes two changes; together
  with a fault they are too many states, so `MaxEvents` bounds the sum.
- In `OvsdbFile` two rows with values 0 and 1 under a unique index make the order of
  three transactions matter. Two crashes let recovery itself be interrupted, and two
  failing calls let the handling of an error fail too.
- In `OvsdbTxn` a transaction of two operations follows any other, so a row deleted,
  modified or referred to in one can be old in the next. The schemas have reference
  chains and cycles, weak references within and between tables, and keys.
- In `ConfigSync` a client makes at most two connections: one that fails and its
  successor. One fault strikes at any point, of any kind that the deployment allows,
  and direct clients send up to three requests. To steal a lock that another session
  waits for takes three clients; where there are three, they send lock requests only.
- In `Ofproto` a scenario bounds the requests, drops, reconnections, learn actions
  and sweeps of the expiry loop. The queue of notifications holds one and
  generation ids are taken modulo 4, so both limits are reached.
- In `Pipeline` the blocks have three, two and three tables and a counter wraps at
  ten, so that counters reach the ends of their blocks and, as nine, stand for 255; a
  recursion limit of three is reached by the looping scenarios.

### Deadlock

Six runs do not check for deadlock, because the system may stop: in `MCSeq` all
threads can exit, in `MCOvsdbFile` the bounds run out, in `MCConfigSync` every
`ovs-vsctl` returns and the others wait for events, in `MCOfproto` the scenario ends
or the outcome is undefined (`fault`), and in `MCPipeline` and `MCPipelineCompare` all packets have been
translated. The other runs check it.

### Fairness

- `Seq`: weak fairness of `PollWake`. The kernel returns from `poll()` when a
  descriptor is readable or the timeout has passed. Nobody is assumed to run
  anything else.
- `Udpif`: weak fairness of each thread's steps, because threads are scheduled, and
  strong fairness of `Expire`, because the main loop runs it whenever
  `next_expiration` comes. Upcalls, spurious wakeups and configuration changes are
  owed to nobody.
- `Lacp`: weak fairness of `lacp_run()` with all transmit timers expired, which
  `lacp_wait()` provides, and of the arrival of a PDU that is not lost.
- `Bfd`: weak fairness of `bfd_run()`, of transmission, which `bfd_wait()` provides,
  and of arrival. `Quick` says that again and again no message is on its way.
  Messages are at least 100 ms apart, and a second while a session is down, much
  longer than a path takes. Without it two sessions whose messages always cross can
  take each other up and down in lockstep for ever.
- `ConfigSync`: weak fairness of `Work`, the steps that processes take by themselves
  (the server wakes at least every five seconds, clients run their loops, a probe
  finds a dead connection). Faults and the requests of direct clients are not fair.
- `Ofproto`: as long as the threads have something to do or a controller something to
  read (`CanProgress`), some such step is taken (`Progress`). No controller is owed
  the opportunity to send.
- `Pipeline`: weak fairness of each thread's steps within a translation. Packets need
  not arrive.

## Proofs

TLAPS proves the following for every value of the constants that the named
assumptions allow: any number of threads, flows, handlers, systems, configurations,
transactions and crashes, any length of queues and blocks of tables.

**SeqProofs**, from `MaxNextAssumption` (`MaxNext` is a natural number):

- `TypeCorrect`: `TypeOK`, which includes that no waiter points to a freed seq.
- `WakeupsAreNotMissed`: `NoMissedWakeup`. It is not inductive: it says nothing of
  a thread before it polls. `IInv` adds that every `seq_wait()` of the current round
  is answered or has its waiter (`Registered`), that a thread with a waiter has
  called `latch_wait()` (`WaitersPoll`), and that `waiting` tells the truth about the
  pollfds (`WaitingPolls`). The last two are what a missing reset in `seq_woke()`
  would break.
- `WaitersStayCurrent`: `WaitersAreCurrent`, a conjunct of `IInv`.
- `ValuesAreFresh`: `ValuesNeverReturn`, from the fact that all values are below
  `seq_next`.
- `SeqImplementsWakeup`: `Spec => Abstract!Spec`. `RInv` adds to `IInv` what the
  mapping needs: between `poll()` and `seq_woke()` nothing of the next
  round is registered (`WokeClean`), a byte in a latch is from this round
  (`LatchWaited`), and no thread has read a value not yet given out (`SeenBelow`).
  Each action maps to one action of `Wakeup` or to a stuttering step.

**UdpifProofs**, from `UdpifAssumption` (the hash is a number, the limits are positive):

- `TypeCorrect`: no queue outgrows its limit, and the hash of a flow selects a
  handler that exists, while threads are stopped and started.
- `MainNeverStranded`: `MainNotStranded`. The property speaks of the main thread
  asleep. `Awake` extends it back to `udpif_wait()`: once main has found the queues
  empty, a change of `wait_seq` since it read it will wake it, and without one whatever
  is queued has a thread that is about to call `seq_change()`.
- `FacetsAlwaysFresh`: `FacetsFresh`. `Fresh` adds the batches: unless a change
  waits for `type_run()`, a batch that was translated before it has an older
  `reval_seq`, in the queue and in the hands of a handler. Without that the facet a
  late batch installs would be stale. `Threads` says which threads can run at all.

**SessionProofs**, from the assumptions of `Reconnect` and `JsonrpcSession` (limits are
numbers, `Forever` is more than one):

- `TypeCorrect`, `AlwaysConsistent` (`SessionConsistent`), `DropsAreProbed`
  (`ProbedBeforeDrop`), `AlwaysAliveAsPromised` (`AliveAsPromised`). One call of
  `jsonrpc_session_run()` changes a session up to three times, so the invariant is a
  predicate of a session record, `Good`, that every part of the call keeps. It adds to the
  properties which kinds of session listen and connect (`Sided`), and how many tries are
  left in each state (`Tries`): that a session without retry is dead for good rests on
  its backoff being `Forever`.
- `ConnectionsToldApart`: `jsonrpc_session_get_seqno()` never goes back, and no call
  takes a connection away, even to put another in its place, without increasing it.
  The IDL and the server start over when they see it change.

**LacpProofs**, from `LacpAssumption`:

- `TypeCorrect`: in particular `slave_get_actor()` always finds its key slave.
- `OnePartnerAlways`: `AttachedToOnePartner`, which takes bonds of several links to be
  worth stating; the run has one link, so only the proof is kept. The invariant is a statement on one bond,
  `GoodBond` and `OnePartner`; every operation keeps it or asks for an update, and
  `lacp_update_attached()` establishes it again. That a lead exists among finitely many
  candidates is proved by well-founded induction on their priorities.

**BfdProofs**, from `BfdAssumption` (configurations are configurations, the bounds
are numbers, a path holds at least one message):

- `TypeCorrect`, `AssertionHolds` (the assertion of `bfd_put_packet()` that a message
  is not both a Poll and a Final) and `UpIsBidirectional`
  (`UpMeansHeard`). The inductive invariant `IInv` adds `SessionHeard` (the remote
  session a session is bound to has been heard by it) and `WireHeard` (a message
  that names a session was sent by one that had heard it). These carry the
  fact from the sender, through the message, to the receiver. The functions that only work on one
  session share the relation `Keeps` between the session before and after, which
  is proved for each of them and is transitive.

**OvsdbFileProofs**, from `OvsdbFileAssumption` (0 is a value, the
bounds are numbers):

- `TypeCorrect` and `AlwaysEitherVersion` (`EitherVersion`). The property speaks of the
  inodes that the directory may name after a power failure. `FileInv` adds what makes a
  file worth naming: the copy that compaction writes has its schema on the disk before it
  is renamed, it is neither the database nor its log until then (`NewLog`), and a log never
  truncates its file below the schema (`OldLog`).
- `StorageIsDurable`: `Durable`, that is, `OvsdbFile` implements `DurableStore`. `StoreInv`
  says that, as long as no sync has failed, the database holds what the server has in
  memory less the commit that is not written yet (`Stores`, `Memory`), the log ends where
  the readable part of its file does (`LogHolds`), and what is synced of a file is a
  prefix of what can be read of it that has all that was promised (`Synced`). Every image
  that a power failure may leave lies between the two (`ImageBetween`).

**PipelineProofs**, from `TablesAssumption` (the blocks follow each other, the counters
can hold a table number, 255 is not one):

- `LearnedFlowsAlwaysSeen`: `LearnedFlowsSeen`, with any flow tables, actions and
  arrivals. The invariant follows the two walks through a stack of frames: the ingress walk
  is at the second frame from the bottom and has looked up every table below its own, an
  egress walk may be anywhere. Flows are learned only in tables that the counter has
  reached (`Reached`), so a walk that reads the counter and stops has passed them all.

Recursive definitions over sequences (the contents of a log, the prefix that can be read
of it) are recursive functions, and what the proofs need of them is shown by
the least counterexample (`LeastExists`).

### Only model-checked

- All liveness properties (`SleeperWakes`, `ThreadsStop`, `MissesAreTaken`,
  `StaleDropsEnd`, `RevalidationCompletes`, `LinksComeUp`, `Settles`, `VsctlReturns`,
  `ConfigReaches`, `PauseEnds`, `TranslationsEnd`): fairness and `ENABLED` are out
  of the prover's reach.
- `OvsdbTxn`: `CommitsRight` compares loops over sets of rows with a definition by
  greatest fixpoint, which needs induction over the passes.
- `Ofproto`: its loops over flows are `RECURSIVE` operators, which the prover does not
  take.
- `ConfigSync`: its safety properties (`ReplicaInStep`, `LockInStep`, `ExactlyOnce`,
  `AppliedBeforeReturn`, `BridgesFollow`, `NoTriggerOverlooked`, `AnsweredOnce`,
  `CurCfgAdvances`) relate the server to messages of three protocols in flight in both
  directions of every session. The inductive invariant that ties each message to what its
  sender had done when it left has a proof several times the size of the others, which
  takes well over an hour to check and is not kept here.

## Findings

- `bfd_decay`. If traffic comes back while the poll sequence that announces decay
  still waits for its Final, no sequence back is ever started, and `min_rx` stays at
  `decay_min_rx` for good. `tests/bfd.at` expects it to go back.
- `pipeline_compare`. `SIMON_REG16_HI` (`lib/simon.h:53`) shifts the upper half of a
  register down by 8 bits in place of 16. Register 3, which `README:120` says holds
  `p.dl_src == p'.dl_src`, is 0 for every unchanged source address whose upper 16 bits
  are not 0.

### Observations

Behaviour met while modelling that no run states as a property, because it is
harmless, undocumented, or plain without a model.

Upcall path and sessions:

- A drop key carries no `reval_seq`, so a stale one can be installed. It stays until
  the next expiration, which `StaleDropsEnd` says always comes.
- A handler that asks for revalidation and then discards its own batch does not wake
  the main thread (`ofproto-dpif-upcall.c:796`). The request waits for a timer,
  which is why `RevalidationCompletes` needs fairness of `Expire`.
- When `dpif_recv_set()` fails in `type_run()`, `recv_set_enable` stays true and the
  call is not retried (`ofproto-dpif.c:674`, action `TypeRunFails`).
- `reconnect_activity()` moves the FSM from RECONNECT to ACTIVE. A reconnection forced
  by `jsonrpc_session_force_reconnect()` is forgotten when bytes arrive before
  `reconnect_run()` is called (`reconnect.c:475`; the comment at 308-311 says the next
  call returns `RECONNECT_DISCONNECT`).
- A passive session replaces its connection without telling the FSM, and the new
  one inherits its IDLE state (`reconnect.c:451`). `ProbedBeforeDrop` is stated of
  the other kinds of sessions.

LACP and BFD:

- A slave registered with an active bond is EXPIRED with an all-zero partner and can
  become the lead of its bond until it hears from its partner (`lacp.c:401`).
- All PDUs of a bond carry one key, so interfaces with different aggregation keys
  are enabled together (`lacp.c:694`), unlike `vswitch.xml:2213-2215` says.
- `lacp_slave_is_current()` is true of a slave that has never received a PDU and then
  lost its carrier (`lacp.c:489`), unlike its comment says.
- A BFD session that is not up can advertise an interval below a second
  (`bfd.c:819`). The interval it uses is a second or more.
- A delayed Final of an earlier sequence can end the next one early (`bfd.c:704`).

Database:

- Online compaction gives the database's lock file up for a while, although
  `file.c:79-80` says it is locked.
- When `fsync()` fails the client is told of an error and memory is rolled back, but
  the record stays in the log and is there after a restart.
- `determine_changes()` has a branch for a row that a transaction has touched without
  changing it, "Nothing actually changed in this row, so drop it" (`transaction.c:594`). It
  is never taken, because `ovsdb_txn_row_modify()` gives the row a new `_version` and the
  comparison covers that column. The passes run, the replicas are called and triggers run
  again; the log skips the row, as `_version` is not persistent.
- The result of `fsync_parent_dir()` after the rename is ignored.
- A waiter that leaves the queue of a lock without owning it causes a spurious "locked"
  notification to its owner (`server.c:217`).
- A trigger that completes without a commit is answered at the next wakeup only, up to
  five seconds later. The timeout of a trigger is the least over all its waits, which can
  make the server's loop busy.
- A pending trigger with an "assert" is not tried again when the lock changes hands.
- An `ovs-vsctl` without `--retry` hangs when its connection is lost. With `--retry`, after
  an unknown outcome it finds its change already made, and returns without waiting.
- An `ovs-vswitchd` that reconnects before the server notices the death of its old
  session finds the lock contended and destroys its bridges. After a restart of the server,
  two of them may both believe that they own the lock. `max_sessions` filled by waiting
  `ovs-vsctl`s keeps `ovs-vswitchd` out.

OpenFlow (each of the first three is an exception that `MonitorsFollow` names):

- `ofopgroup_complete()` tests `op->actions` the wrong way round (`ofproto.c:5994`; the
  comment above it says otherwise): a change of a flow's actions alone is not reported.
- A flow that is replaced while notifications are paused and then deleted is never
  reported as deleted.
- The initial reply to a monitor request is sent after the mutex is released
  (`ofproto.c:5336`), so a change in that window can reach the controller before the older
  contents do.
- `ofproto_rule_expire()` takes the mutex back with `trylock` and ignores the result
  (`ofproto.c:4378`), then deletes the rule. While it was free the rule, or the one the loop
  visits next, can be freed. These outcomes are undefined; the model stops there (`fault`).
- The error path of `modify_flows__()` leaves its operation group behind, which blocks its
  flows until the connection drops (`ofproto.c:4101`).
- `collect_rules_loose()` overwrites an earlier `OFPROTO_POSTPONE`. A strict
  modification of all tables that finds the flow in two of them does nothing. A modification
  that gives a flow timeouts does not enter it in `expirable`
  (`ofproto-provider.h:382-383` says all such flows are there).
- `NXFMF_OWN` is ignored, and service connections are not demoted when another
  connection becomes master.

Pipeline:

- Table 0 always resubmits to table 1, whatever the counter. A table 0 that is reached by
  a resubmit is walked on from twice.
- A production miss reached by the ordinary path has `may_packet_in` false, so there
  is neither a miss rule nor an egress pass, although the comment at
  `ofproto-dpif-xlate.c:1729-1730` and the `README` say "drop".
- `increment_table_id` and `learn_learn` are not atomic together: two packets may learn
  into one table. `execute_flow_miss()` translates twice, with learning but not counting
  the first time, so a flow is learned in the old table and again in the new one.
- A TTL that has run out in table 0 ends the ingress walk too: its automatic resubmit is
  at the end of `do_xlate_actions()`, which is not reached. `LearnedFlowsSeen` excepts it.
- `README:13-18` says that every terminal action of a production table submits the packet
  to the egress tables. `do_xlate_egress_action()` (`ofproto-dpif-xlate.c:2697`) does
  nothing for enqueue, output_reg and bundle, and a packet-in of a TTL that has run out is
  followed by a return (2550-2556), so the egress tables do not see these decisions.
- A second egress pass compares registers that the first has overwritten.
- The counters are bytes and wrap around. Before that an ingress counter reaches the
  production tables, and an egress counter table 254 and, modulo 256, the ingress
  tables. A counter at 255 makes `learn_delete` delete the flow from all tables, and
  `learn_learn` change it where it is, if that is one table. `LearnedFlowsSeen` excepts counters that have wrapped around.

## What is not modelled

The models cover the parts where interleavings, failures and retries decide what is
correct, about 6 % of the lines of the sources. Most of the remainder is encoding and
decoding, providers that are system calls, statistics, the classifier, the tools and the
kernel datapath, where a model would repeat the code without adding anything to check.
`PROJECT.json` has a line on each.

- `Seq`: logging and the details of `poll(2)`.
- `Udpif`: the teardown in `udpif_destroy()`, classification of packets,
  statistics, MAC learning, the contents of translations.
- `JsonrpcSession`: message contents and the send queue; `reconnect_disable()`,
  which no session calls; counters that only feed statistics.
- `Lacp`: the wire format, `lacp/show`, and the values of timers.
- `Bfd`: the packet counters behind `forwarding_if_rx` and decay (a choice in the
  model), packet validation, the manual override, `bfd/show`, clocks. For that
  reason it is not stated that the detection time always covers the interval in
  use.
- `OvsdbFile`: `ovsdb_file_create()`, the offline copies of `ovsdb-tool`, checksums (a
  torn record is one that does not parse).
- `OvsdbTxn`, `OvsdbServer`, `OvsdbIdl`, `ConfigSync`: conditions, mutations and types of
  columns; several databases and lock names, which do not meet; monitors of some columns;
  arcs between rows of a replica; what a reconfiguration does to `ofproto`.
- `Ofproto`: ports, meters, packet-ins, statistics, snoops, asynchronous message masks.
- `Pipeline`: the composition of datapath actions, `bundle_load`, and matching beyond
  classes of packets.
