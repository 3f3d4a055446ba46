------------------------------- MODULE OvsdbFile -------------------------------
(******************************************************************************)
(* The storage of ovsdb-server: the log file (ovsdb/log.c) and the database   *)
(* replica on top of it with its online compaction (ovsdb/file.c), on a file  *)
(* system that may fail any call and lose whatever was not synced.            *)
(*                                                                            *)
(* A step is one system call, so that the process can be killed or the power  *)
(* can fail between any two of them.  The rows are Keys with a value that a   *)
(* unique index covers, 0 for no row; a transaction sets one row.  The        *)
(* database in memory is the sequence of the transactions that made it, and a *)
(* log record is a schema, or transactions: one of them, or all of them in    *)
(* the copy that compaction writes, or bytes that do not parse.  Offsets are  *)
(* counted in records.                                                        *)
(******************************************************************************)
EXTENDS Integers, Sequences

CONSTANTS Keys, Values,
          MaxTxns,       \* bound: transactions applied
          MaxFaults,     \* bound: calls that fail
          MaxCrashes,    \* bound: kills and power failures
          MaxCompactions \* bound: compactions begun

ASSUME OvsdbFileAssumption ==
    /\ 0 \in Values /\ Values \subseteq Nat
    /\ {MaxTxns, MaxFaults, MaxCrashes, MaxCompactions} \subseteq Nat

VARIABLES pc,       \* the next call of the process, "idle" in the main loop, or "down"
          db,       \* the tables in memory, with the rows of a commit under way
          txn,      \* the commit under way: "none", "plain" or "durable"
          log,      \* file->log: inode, offset, mode and write_error
          new_log,  \* new_log of ovsdb_file_compact()
          locked,   \* file->log holds the lock file of the database
          inodes,   \* the files: data as the process sees it, disk as synced
          dir,      \* the directory: the inode of the database and of its .tmp
          ddir,     \* the directory as synced
          acked, promised, sound,  \* history: what DurableStore speaks of
          budget    \* what is left of the bounds

\* The greatest of a set of numbers.
Max(S) == CHOOSE x \in S : \A y \in S : x >= y

files == <<inodes, dir, ddir>>
vars == <<pc, db, txn, log, new_log, locked, files, acked, promised, sound, budget>>

Txn == Keys \X Values
Schema == [kind |-> "schema", txns |-> <<>>]
Torn == [kind |-> "torn", txns |-> <<>>]
Data(s) == [kind |-> "data", txns |-> s]

NoInode == 0
Log == [inode : Nat, offset : Nat, mode : {"READ", "WRITE"}, write_error : BOOLEAN]
OpenLog(i) == [inode |-> i, offset |-> 0, mode |-> "READ", write_error |-> FALSE]

Compacting == {"sync_old", "lock_tmp", "unlink_tmp", "create", "write_schema",
               "write_data", "sync_new", "rename", "sync_dir", "swap", "undo"}

----------------------------------------------------------------------------
\* Rows.  A transaction of the log that deletes a row that does not exist, or
\* that breaks the unique index, does not commit.
Content(s) ==
    [k \in Keys |-> LET writes == {i \in 1 .. Len(s) : s[i][1] = k}
                    IN  IF writes = {} THEN 0 ELSE s[Max(writes)][2]]

Rejected(c, t) == IF t[2] = 0 THEN c[t[1]] = 0
                  ELSE \E k \in Keys \ {t[1]} : c[k] = t[2]

Replayable(s) == \A i \in 1 .. Len(s) : ~Rejected(Content(SubSeq(s, 1, i - 1)), s[i])

Txns(records) ==
    LET upto[n \in 0 .. Len(records)] ==
            IF n = 0 THEN <<>> ELSE upto[n - 1] \o records[n].txns
    IN  upto[Len(records)]

\* How many records ovsdb_file_open__() keeps: it stops at the first that does
\* not parse or does not commit and lets ovsdb_log_unread() drop that one.
Readable(f) == Max({n \in 0 .. Len(f) :
                      /\ \A i \in 1 .. n : f[i].kind = IF i = 1 THEN "schema" ELSE "data"
                      /\ Replayable(Txns(SubSeq(f, 1, n)))})

HasSchema(f) == f # <<>> /\ f[1] = Schema

----------------------------------------------------------------------------
\* Calls on a file.  Fails is a call that returns an error.
Fails == budget.faults > 0 /\ budget' = [budget EXCEPT !.faults = @ - 1]
Works == UNCHANGED budget

SetData(i, d) == inodes' = [inodes EXCEPT ![i].data = d]

\* ovsdb_log_write(): the first write after reading, and the next one after a
\* failure, seeks and truncates.
Truncates(l) == l.mode = "READ" \/ l.write_error
Base(l) == IF Truncates(l) THEN SubSeq(inodes[l.inode].data, 1, l.offset)
           ELSE inodes[l.inode].data

log_write(l, r, l2) ==
    /\ Works
    /\ SetData(l.inode, Append(Base(l), r))
    /\ l2 = [l EXCEPT !.mode = "WRITE", !.write_error = FALSE, !.offset = @ + 1]

\* The seek or the truncation fails; or the write fails after some of the bytes,
\* and the truncation that removes them works or fails as well.
log_write_fails(l, l2) ==
    /\ Fails
    /\ \/ Truncates(l) /\ UNCHANGED inodes
       \/ SetData(l.inode, SubSeq(Base(l), 1, l.offset))
       \/ SetData(l.inode, Append(Base(l), Torn))
    /\ l2 = [l EXCEPT !.mode = "WRITE", !.write_error = TRUE]

\* ovsdb_log_commit()
log_commit(l) == Works /\ inodes' = [inodes EXCEPT ![l.inode].disk = inodes[l.inode].data]
log_commit_fails(l) == Fails /\ UNCHANGED inodes

----------------------------------------------------------------------------
Init ==
    /\ pc = "idle" /\ txn = "none" /\ db = <<>>
    /\ inodes = <<[data |-> <<Schema>>, disk |-> <<Schema>>]>>
    /\ dir = [db |-> 1, tmp |-> NoInode] /\ ddir = dir
    /\ log = [OpenLog(1) EXCEPT !.offset = 1]
    /\ new_log = OpenLog(NoInode)
    /\ locked = TRUE
    /\ acked = <<>> /\ promised = 0 /\ sound = TRUE
    /\ budget = [txns |-> MaxTxns, faults |-> MaxFaults, crashes |-> MaxCrashes,
                 compactions |-> MaxCompactions]

ghosts == <<acked, promised, sound>>

\* ovsdb_txn_commit() calls ovsdb_file_commit() with the new rows in the tables.
\* A transaction that changes nothing or breaks a constraint never gets here.
Commit(t, durable) ==
    /\ pc = "idle" /\ budget.txns > 0
    /\ ~Rejected(Content(db), t) /\ Content(db)[t[1]] # t[2]
    /\ db' = Append(db, t)
    /\ txn' = IF durable THEN "durable" ELSE "plain"
    /\ pc' = "write"
    /\ budget' = [budget EXCEPT !.txns = @ - 1]
    /\ UNCHANGED <<log, new_log, locked, files, ghosts>>

\* ovsdb_txn_abort() undoes the rows of a commit that the replica refused, and
\* the client is told of the error.
Abort == db' = SubSeq(db, 1, Len(db) - 1) /\ txn' = "none" /\ pc' = "idle"

\* A slip: "durable" is not looked at.
SlipWrite ==
    /\ pc = "write"
    /\ \/ /\ log_write(log, Data(<<db[Len(db)]>>), log')
          /\ pc' = "written"
          /\ UNCHANGED <<db, txn>>
       \/ log_write_fails(log, log') /\ Abort
    /\ UNCHANGED <<new_log, locked, dir, ddir, ghosts>>

Write ==
    /\ pc = "write"
    /\ \/ /\ log_write(log, Data(<<db[Len(db)]>>), log')
          /\ pc' = IF txn = "durable" THEN "sync" ELSE "written"
          /\ UNCHANGED <<db, txn>>
       \/ log_write_fails(log, log') /\ Abort
    /\ UNCHANGED <<new_log, locked, dir, ddir, ghosts>>

Sync ==
    /\ pc = "sync"
    /\ \/ log_commit(log) /\ pc' = "written" /\ UNCHANGED <<db, txn, sound>>
       \/ log_commit_fails(log) /\ Abort /\ sound' = FALSE
    /\ UNCHANGED <<log, new_log, locked, dir, ddir, acked, promised>>

\* The end of ovsdb_file_commit(): compaction, when time, count and size say so.
Written ==
    /\ pc = "written"
    /\ \/ pc' = "answer" /\ Works
       \/ /\ budget.compactions > 0 /\ pc' = "sync_old"
          /\ budget' = [budget EXCEPT !.compactions = @ - 1]
    /\ UNCHANGED <<db, txn, log, new_log, locked, files, ghosts>>

Answer ==
    /\ pc = "answer"
    /\ acked' = db
    /\ promised' = IF txn = "durable" THEN Len(db) ELSE promised
    /\ txn' = "none" /\ pc' = "idle"
    /\ UNCHANGED <<db, log, new_log, locked, files, sound, budget>>

----------------------------------------------------------------------------
\* ovsdb_file_compact(), from a commit or from the ovsdb-server/compact command.
CompactCommand ==
    /\ pc = "idle" /\ budget.compactions > 0
    /\ pc' = "sync_old"
    /\ budget' = [budget EXCEPT !.compactions = @ - 1]
    /\ UNCHANGED <<db, txn, log, new_log, locked, files, ghosts>>

Compacted == pc' = IF txn = "none" THEN "idle" ELSE "answer"

SyncOld ==
    /\ pc = "sync_old"
    /\ \/ log_commit(log) /\ pc' = "lock_tmp" /\ UNCHANGED sound
       \/ log_commit_fails(log) /\ Compacted /\ sound' = FALSE
    /\ UNCHANGED <<db, txn, log, new_log, locked, dir, ddir, acked, promised>>

\* A compaction that could not lock the temporary file leaves it alone.
LockTmp ==
    /\ pc = "lock_tmp"
    /\ \/ Works /\ pc' = "unlink_tmp"
       \/ Fails /\ Compacted
    /\ UNCHANGED <<db, txn, log, new_log, locked, files, ghosts>>

UnlinkTmp ==
    /\ pc = "unlink_tmp"
    /\ \/ Works /\ dir' = [dir EXCEPT !.tmp = NoInode] /\ pc' = "create"
       \/ Fails /\ UNCHANGED dir /\ pc' = "undo"
    /\ UNCHANGED <<db, txn, log, new_log, locked, inodes, ddir, ghosts>>

\* ovsdb_log_open(): the file must not exist; the directory is synced and it does
\* not matter here if that fails.
Create ==
    /\ pc = "create"
    /\ \/ /\ Works
          /\ dir.tmp = NoInode
          /\ inodes' = Append(inodes, [data |-> <<>>, disk |-> <<>>])
          /\ dir' = [dir EXCEPT !.tmp = Len(inodes')]
          /\ ddir' \in {ddir, dir'}
          /\ new_log' = OpenLog(dir'.tmp)
          /\ pc' = "write_schema"
       \/ Fails /\ pc' = "undo" /\ UNCHANGED <<inodes, dir, ddir, new_log>>
    /\ UNCHANGED <<db, txn, log, locked, ghosts>>

WriteCopy(record, next) ==
    /\ \/ log_write(new_log, record, new_log') /\ pc' = next
       \/ log_write_fails(new_log, new_log') /\ pc' = "undo"
    /\ UNCHANGED <<db, txn, log, locked, dir, ddir, ghosts>>

\* ovsdb_file_save_copy__()
WriteSchema == pc = "write_schema" /\ WriteCopy(Schema, "write_data")
WriteData == pc = "write_data" /\ WriteCopy(Data(db), "sync_new")

\* A slip: the copy is renamed before it is on the disk.
SlipSyncNew ==
    /\ pc = "sync_new" /\ pc' = "rename"
    /\ UNCHANGED <<db, txn, log, new_log, locked, files, ghosts, budget>>

SyncNew ==
    /\ pc = "sync_new"
    /\ \/ log_commit(new_log) /\ pc' = "rename"
       \/ log_commit_fails(new_log) /\ pc' = "undo"
    /\ UNCHANGED <<db, txn, log, new_log, locked, dir, ddir, ghosts>>

Rename ==
    /\ pc = "rename"
    /\ \/ Works /\ dir' = [db |-> dir.tmp, tmp |-> NoInode] /\ pc' = "sync_dir"
       \/ Fails /\ UNCHANGED dir /\ pc' = "undo"
    /\ UNCHANGED <<db, txn, log, new_log, locked, inodes, ddir, ghosts>>

\* The result of fsync_parent_dir() is not looked at.
SyncDir ==
    /\ pc = "sync_dir"
    /\ \/ Works /\ ddir' = dir /\ UNCHANGED sound
       \/ Fails /\ UNCHANGED ddir /\ sound' = FALSE
    /\ pc' = "swap"
    /\ UNCHANGED <<db, txn, log, new_log, locked, inodes, dir, acked, promised>>

\* The old log is closed, and with it goes the lock: the new one has none.
Swap ==
    /\ pc = "swap"
    /\ log' = new_log /\ new_log' = OpenLog(NoInode)
    /\ locked' = FALSE
    /\ Compacted
    /\ UNCHANGED <<db, txn, files, ghosts, budget>>

\* The error exit; unlink() may fail as well and nobody looks.
Undo ==
    /\ pc = "undo"
    /\ new_log' = OpenLog(NoInode)
    /\ \/ Works /\ dir' = [dir EXCEPT !.tmp = NoInode]
       \/ Fails /\ UNCHANGED dir
    /\ Compacted
    /\ UNCHANGED <<db, txn, log, locked, inodes, ddir, ghosts>>

----------------------------------------------------------------------------
\* Faults.  A process that is killed leaves its files as they are, the record it
\* was writing cut short.  Killed between rename() and fsync_parent_dir(), it
\* leaves a directory that no later run syncs.
Down == /\ pc' = "down" /\ txn' = "none" /\ locked' = FALSE
        /\ new_log' = OpenLog(NoInode)
        /\ budget.crashes > 0 /\ budget' = [budget EXCEPT !.crashes = @ - 1]
        /\ UNCHANGED <<db, log, acked, promised>>

Kill ==
    /\ pc # "down"
    /\ Down
    /\ \/ UNCHANGED inodes
       \/ pc = "write" /\ SetData(log.inode, Append(Base(log), Torn))
    /\ sound' = (sound /\ pc # "sync_dir")
    /\ UNCHANGED <<dir, ddir>>

\* What may be found of a file after a power failure: as much of it as was
\* synced, then more records of it, the last perhaps cut short; or what was
\* synced last, when the file has been truncated since.
Common(f, n) == n <= Len(f.data) /\ n <= Len(f.disk)
                /\ SubSeq(f.data, 1, n) = SubSeq(f.disk, 1, n)

Cuts(f) == {n \in 0 .. Len(f.data) : \A m \in 0 .. Len(f.data) : Common(f, m) => m <= n}

Images(f) ==
    {SubSeq(f.data, 1, n) : n \in Cuts(f)}
    \union {Append(SubSeq(f.data, 1, n), Torn) : n \in Cuts(f) \ {Len(f.data)}}
    \union {f.disk}

PowerFailure ==
    /\ Down /\ UNCHANGED sound
    /\ dir' \in {dir, ddir} /\ ddir' = dir'
    /\ \E f \in Images(inodes[dir'.db]) :
          inodes' = [inodes EXCEPT ![dir'.db] = [data |-> f, disk |-> f]]

\* ovsdb_file_open__(): the lock, the schema, then the transactions until one is
\* unreadable, which is logged and otherwise ignored.
Open ==
    LET f == inodes[dir.db].data
        n == Readable(f)
    IN /\ pc = "down"
       /\ HasSchema(f)
       /\ locked' = TRUE
       /\ db' = Txns(SubSeq(f, 1, n))
       /\ log' = [OpenLog(dir.db) EXCEPT !.offset = n]
       /\ pc' = "idle"
       /\ acked' = db'
       /\ UNCHANGED <<txn, new_log, files, promised, sound, budget>>

Next ==
    \/ \E t \in Txn, durable \in BOOLEAN : Commit(t, durable)
    \/ Write \/ Sync \/ Written \/ Answer
    \/ CompactCommand \/ SyncOld \/ LockTmp \/ UnlinkTmp \/ Create
    \/ WriteSchema \/ WriteData \/ SyncNew \/ Rename \/ SyncDir \/ Swap \/ Undo
    \/ Kill \/ PowerFailure \/ Open

Spec == Init /\ [][Next]_vars

----------------------------------------------------------------------------
TypeOK ==
    /\ pc \in Compacting \union {"down", "idle", "write", "sync", "written", "answer"}
    /\ db \in Seq(Txn) /\ acked \in Seq(Txn) /\ promised \in Nat
    /\ txn \in {"none", "plain", "durable"}
    /\ log \in Log /\ new_log \in Log
    /\ log.inode \in 1 .. Len(inodes) /\ new_log.inode \in 0 .. Len(inodes)
    /\ {dir.db, ddir.db} \subseteq 1 .. Len(inodes)
    /\ {locked, sound} \subseteq BOOLEAN

\* The storage does what DurableStore promises, whatever calls fail and wherever
\* the process is killed or the power fails (ovsdb/SPECS, the "commit" operation).
Store == INSTANCE DurableStore
Durable == Store!Spec

\* "we can be assured that we'll eventually have either the old or the new
\* version" (file.c, ovsdb_file_compact()): whenever the power fails, the database
\* has a file with a schema, so that the server can start.
EitherVersion ==
    \A d \in {dir, ddir} : \A f \in Images(inodes[d.db]) : HasSchema(f)

============================================================================
