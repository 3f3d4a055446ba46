-------------------------------- MODULE OvsdbTxn --------------------------------
(******************************************************************************)
(* How ovsdb-server commits a transaction, ovsdb/transaction.c: the row       *)
(* operations of ovsdb/execution.c change the tables in place and record the  *)
(* old rows, and ovsdb_txn_commit() then goes over those records in passes    *)
(* that add rows to them: what changed, strong reference counts, garbage      *)
(* collection, the row limit, weak references, unique indexes.                *)
(*                                                                            *)
(* The server is one thread, so transactions do not interleave.  The order in *)
(* which a pass visits the rows is the order of a hash table: any order.  A   *)
(* row has a column of strong references, a column of weak references and a   *)
(* key column that may be indexed. Lists of weak references are sets.        *)
(******************************************************************************)
EXTENDS Integers, FiniteSets, FiniteSetsExt, Functions, TLC

CONSTANTS Null,     \* no row
          Schemas,  \* the schemas, with the values that clients give to columns
          MaxOps    \* bound: row operations in a transaction

VARIABLES schema,   \* one of Schemas
          rows,     \* the tables: the rows there are, by id
          txn,      \* the struct ovsdb_txn_row of every row of the transaction
          pc,       \* "open" for operations, the pass of ovsdb_txn_commit(), or "reply"
          done,     \* the rows that the pass has visited
          dying,    \* the rows that delete_garbage_row() is about to delete
          ops,      \* row operations so far
          before, want, result  \* history: the tables at the beginning and before
                                \* the commit; how the last transaction ended

vars == <<schema, rows, txn, pc, done, dying, ops, before, want, result>>
history == <<before, want, result>>

\* A schema: the table of every id, the root tables, the tables whose key column
\* has an index, max_rows, n_min of the weak column, and the column values in use.
Id == DOMAIN schema.table
Table(i) == schema.table[i]
IsRoot(i) == Table(i) \in schema.roots

\* struct ovsdb_row: columns, n_refs, and the sources of its dst_refs.  The column _version
\* is a UUID that is generated anew: all that matters is whether this transaction did it.
NewRow(cols) == [cols |-> cols, version |-> "new", n_refs |-> 0, dst |-> {}]
Exists(i) == i \in DOMAIN rows

\* Strong references other than the row's own.
Strong(i, row) == IF row = Null THEN {} ELSE row.cols.strong \ {i}

\* ovsdb_txn_row_create() and ovsdb_txn_row_modify(): the clone has a new _version and no
\* weak references to it.  Rows that are in the transaction are left as they are.
TxnRow(old) == [old |-> old, n_refs |-> IF old = Null THEN 0 ELSE old.n_refs]
TxnWith(s) == [i \in s \ DOMAIN txn |-> TxnRow(rows[i])] @@ txn
RowsWith(s) == [i \in s \ DOMAIN txn |-> [rows[i] EXCEPT !.version = "new", !.dst = {}]] @@ rows

Nothing == [i \in {} |-> Null]

Init ==
    /\ schema \in Schemas
    /\ rows = Nothing /\ txn = Nothing
    /\ pc = "open" /\ done = {} /\ dying = {} /\ ops = 0
    /\ before = Nothing /\ want = Nothing /\ result = "none"

----------------------------------------------------------------------------
\* Row operations.
Operate ==
    /\ pc = "open" /\ ops < MaxOps
    /\ ops' = ops + 1
    /\ before' = IF ops = 0 THEN rows ELSE before
    /\ UNCHANGED <<schema, pc, done, dying, want, result>>

ovsdb_txn_row_insert(i, cols) ==
    /\ Operate
    /\ i \notin DOMAIN rows \union DOMAIN txn
    /\ rows' = (i :> NewRow(cols)) @@ rows
    /\ txn' = (i :> TxnRow(Null)) @@ txn

ovsdb_txn_row_modify(i, cols) ==
    /\ Operate
    /\ Exists(i)
    /\ rows' = [RowsWith({i}) EXCEPT ![i].cols = cols]
    /\ txn' = TxnWith({i})

\* A row that the transaction itself inserted leaves no record.
ovsdb_txn_row_delete(i) ==
    /\ Operate
    /\ Exists(i)
    /\ rows' = Restrict(rows, DOMAIN rows \ {i})
    /\ txn' = IF i \in DOMAIN txn /\ txn[i].old = Null
              THEN Restrict(txn, DOMAIN txn \ {i}) ELSE TxnWith({i})

----------------------------------------------------------------------------
\* The end of a transaction.
Close(tables, how) ==
    /\ rows' = tables /\ result' = how
    /\ txn' = Nothing
    /\ pc' = "reply" /\ ops' = 0 /\ done' = {} /\ dying' = {}
    /\ UNCHANGED <<schema, before, want>>

\* ovsdb_txn_row_abort() puts the old row back.
Undone == LET lasting == {i \in DOMAIN txn : txn[i].old # Null}
          IN [i \in lasting |-> txn[i].old] @@ Restrict(rows, DOMAIN rows \ DOMAIN txn)

ovsdb_txn_abort(how) == Close(Undone, how)

\* An operation failed, or was "abort".
AbortRequest == pc = "open" /\ ops > 0 /\ ovsdb_txn_abort("aborted")

CommitRequest ==
    /\ pc = "open" /\ ops > 0
    /\ pc' = "determine_changes"
    /\ want' = rows
    /\ UNCHANGED <<schema, rows, txn, done, dying, ops, before, result>>

\* for_each_txn_row(): every row once, those that the pass adds included.
Visit(pass, r) ==
    /\ pc = pass /\ dying = {}
    /\ r \in DOMAIN txn \ done
    /\ done' = done \union {r}
    /\ UNCHANGED <<schema, pc, ops, history>>

\* After the last row of a pass comes the next pass.
Passed(pass, next) ==
    /\ pc = pass /\ DOMAIN txn \subseteq done /\ dying = {}
    /\ pc' = next /\ done' = {}
    /\ UNCHANGED <<schema, rows, txn, dying, ops, history>>

Fail(pass, r) == /\ pc = pass /\ dying = {} /\ r \in DOMAIN txn \ done
                 /\ ovsdb_txn_abort("error")

----------------------------------------------------------------------------
\* Every column of the schema is compared, and _version is one of them (table.c,
\* add_column() in ovsdb_table_schema_create()).
Unchanged(r) == /\ txn[r].old # Null /\ Exists(r)
                /\ rows[r].cols = txn[r].old.cols /\ rows[r].version = txn[r].old.version

determine_changes(r) ==
    /\ Visit("determine_changes", r)
    /\ IF Unchanged(r)
       THEN /\ rows' = [rows EXCEPT ![r] = txn[r].old]
            /\ txn' = Restrict(txn, DOMAIN txn \ {r})
       ELSE UNCHANGED <<rows, txn>>
    /\ UNCHANGED dying

NoChange == /\ pc = "determine_changes" /\ txn = Nothing
            /\ ovsdb_txn_abort("noop")

\* update_row_ref_count(): referents join the transaction, and a referent that
\* neither exists nor is in the transaction is an error.
Referents(r) == Strong(r, txn[r].old) \union (IF Exists(r) THEN Strong(r, rows[r]) ELSE {})

update_row_ref_count(r) ==
    LET refs == Referents(r)
        less == Strong(r, txn[r].old)
        more == IF Exists(r) THEN Strong(r, rows[r]) ELSE {}
        t == TxnWith(refs)
    IN /\ Visit("update_row_ref_count", r)
       /\ refs \subseteq DOMAIN rows \union DOMAIN txn
       /\ rows' = RowsWith(refs)
       /\ txn' = [i \in DOMAIN t |->
                    [t[i] EXCEPT !.n_refs = @ + (IF i \in more THEN 1 ELSE 0)
                                              - (IF i \in less THEN 1 ELSE 0)]]
       /\ UNCHANGED dying

ReferentMissing(r) ==
    /\ Fail("update_row_ref_count", r)
    /\ ~(Referents(r) \subseteq DOMAIN rows \union DOMAIN txn)

StillReferenced(r) == ~Exists(r) /\ txn[r].n_refs # 0

check_ref_count(r) ==
    /\ Visit("check_ref_count", r)
    /\ ~StillReferenced(r)
    /\ UNCHANGED <<rows, txn, dying>>

ReferencesRemain(r) == Fail("check_ref_count", r) /\ StillReferenced(r)

\* collect_garbage(), delete_garbage_row() and delete_row_refs(): a row with no
\* references goes, and at once every row that loses its last one by that.
DeleteGarbage(r) ==
    LET refs == Strong(r, rows[r])
        t == TxnWith(refs)
    IN /\ txn' = [i \in DOMAIN t |-> [t[i] EXCEPT !.n_refs = @ - (IF i \in refs THEN 1 ELSE 0)]]
       /\ rows' = Restrict(RowsWith(refs), DOMAIN rows \ {r})
       /\ dying' = (dying \ {r}) \union {i \in refs : txn'[i].n_refs = 0 /\ ~IsRoot(i)}

\* A slip: only rows that lost a reference are looked at.
SlipIsGarbage(r) == Exists(r) /\ txn[r].n_refs = 0 /\ ~IsRoot(r) /\ txn[r].old # Null

IsGarbage(r) == Exists(r) /\ txn[r].n_refs = 0 /\ ~IsRoot(r)

collect_garbage(r) ==
    /\ Visit("collect_garbage", r)
    /\ IF IsGarbage(r) THEN DeleteGarbage(r) ELSE UNCHANGED <<rows, txn, dying>>

delete_garbage_row(r) ==
    /\ r \in dying
    /\ DeleteGarbage(r)
    /\ UNCHANGED <<schema, pc, done, ops, history>>

check_max_rows ==
    /\ pc = "check_max_rows"
    /\ LET full == \E i \in DOMAIN txn :
                      Quantify(DOMAIN rows, LAMBDA j : Table(j) = Table(i))
                         > schema.max_rows[Table(i)]
       IN IF full THEN ovsdb_txn_abort("error")
          ELSE /\ pc' = "assess_weak_refs"
               /\ UNCHANGED <<schema, rows, txn, done, dying, ops, history>>

\* A slip: the rows that refer to a row are revisited only when it is deleted.
SlipSources(r) == IF txn[r].old = Null \/ Exists(r) THEN {} ELSE txn[r].old.dst

\* assess_weak_refs() and add_weak_ref(): the sources of references to the old row
\* join the transaction, references to rows that are gone are dropped, and the
\* referents of the others join it too.
Sources(r) == IF txn[r].old = Null THEN {} ELSE txn[r].old.dst
Weak(r) == IF Exists(r) THEN rows[r].cols.weak ELSE {}
Kept(r) == Weak(r) \intersect DOMAIN rows
TooFew(r) == Kept(r) # Weak(r) /\ Cardinality(Kept(r)) < schema.n_min[Table(r)]

assess_weak_refs(r) ==
    LET joined == (Sources(r) \union Kept(r)) \ DOMAIN txn
        t == RowsWith(joined)
    IN /\ Visit("assess_weak_refs", r)
       /\ ~TooFew(r)
       /\ txn' = TxnWith(joined)
       /\ rows' = [i \in DOMAIN t |->
                     [t[i] EXCEPT !.cols.weak = IF i = r THEN Kept(r) ELSE @,
                                  !.dst = IF i \in Kept(r) \ {r} THEN @ \union {r} ELSE @]]
       /\ UNCHANGED dying

WeakColumnEmpty(r) == Fail("assess_weak_refs", r) /\ TooFew(r)

\* A slip: new rows are not compared with one another.
SlipDuplicate(r) ==
    /\ Exists(r) /\ Table(r) \in schema.indexed
    /\ \E i \in DOMAIN rows \ DOMAIN txn :
          Table(i) = Table(r) /\ rows[i].cols.key = rows[r].cols.key

\* check_index_uniqueness(): against the new rows checked before it, and against
\* the rows of the table that are not in the transaction.
Duplicate(r) ==
    /\ Exists(r) /\ Table(r) \in schema.indexed
    /\ \E i \in DOMAIN rows \ {r} :
          /\ Table(i) = Table(r) /\ rows[i].cols.key = rows[r].cols.key
          /\ i \in done \/ i \notin DOMAIN txn

check_index_uniqueness(r) ==
    /\ Visit("check_index_uniqueness", r)
    /\ ~Duplicate(r)
    /\ UNCHANGED <<rows, txn, dying>>

IndexViolation(r) == Fail("check_index_uniqueness", r) /\ Duplicate(r)

\* The first replica, the file, may refuse; the others may not.
ReplicaFails == pc = "replicas" /\ ovsdb_txn_abort("io")

\* ovsdb_txn_row_commit(): the counts go into the rows, and the old rows take
\* their weak references with them.
Finalize ==
    /\ pc = "replicas"
    /\ Close([i \in DOMAIN rows |->
                IF i \in DOMAIN txn
                THEN [rows[i] EXCEPT !.version = "old", !.n_refs = txn[i].n_refs]
                ELSE [rows[i] EXCEPT !.dst = @ \ DOMAIN txn]], "ok")

\* ovsdb_execute() returns the result.
Reply ==
    /\ pc = "reply"
    /\ pc' = "open" /\ result' = "none" /\ before' = Nothing /\ want' = Nothing
    /\ UNCHANGED <<schema, rows, txn, done, dying, ops>>

\* for_each_txn_row() of a pass returns.
NextPass ==
    \/ txn # Nothing /\ Passed("determine_changes", "update_row_ref_count")
    \/ Passed("update_row_ref_count", "check_ref_count")
    \/ Passed("check_ref_count", "collect_garbage")
    \/ Passed("collect_garbage", "check_max_rows")
    \/ Passed("assess_weak_refs", "check_index_uniqueness")
    \/ Passed("check_index_uniqueness", "replicas")

Next ==
    \/ \E i \in Id :
          \/ \E cols \in schema.cols[Table(i)] : \/ ovsdb_txn_row_insert(i, cols)
                                                 \/ ovsdb_txn_row_modify(i, cols)
          \/ ovsdb_txn_row_delete(i)
    \/ AbortRequest \/ CommitRequest
    \/ \E r \in DOMAIN txn :
          \/ determine_changes(r)
          \/ update_row_ref_count(r) \/ ReferentMissing(r)
          \/ check_ref_count(r) \/ ReferencesRemain(r)
          \/ collect_garbage(r) \/ delete_garbage_row(r)
          \/ assess_weak_refs(r) \/ WeakColumnEmpty(r)
          \/ check_index_uniqueness(r) \/ IndexViolation(r)
    \/ NoChange \/ NextPass \/ check_max_rows
    \/ ReplicaFails \/ Finalize \/ Reply

Spec == Init /\ [][Next]_vars

----------------------------------------------------------------------------
IsRow(row) == /\ row.cols.strong \subseteq Id /\ row.cols.weak \subseteq Id
              /\ row.version \in {"old", "new"} /\ row.n_refs \in Nat /\ row.dst \subseteq Id

TypeOK ==
    /\ DOMAIN rows \subseteq Id /\ DOMAIN txn \subseteq Id
    /\ \A i \in DOMAIN rows : IsRow(rows[i])
    /\ \A i \in DOMAIN txn : txn[i].n_refs \in Int /\ (txn[i].old = Null \/ IsRow(txn[i].old))
    /\ dying \subseteq DOMAIN rows /\ ops \in 0 .. MaxOps
    /\ result \in {"none", "ok", "noop", "error", "io", "aborted"}

Closed == pc = "reply"

\* After a transaction n_refs is the number of other rows that refer to the row,
\* every referent exists, and a row of a table that is not a root has one
\* (transaction.c, update_ref_counts() and collect_garbage()).
CountsRight ==
    Closed => \A i \in Id :
        LET from == {j \in DOMAIN rows : i \in Strong(j, rows[j])} IN
        /\ from # {} => Exists(i)
        /\ Exists(i) => /\ rows[i].n_refs = Cardinality(from)
                        /\ ~IsRoot(i) => from # {}

\* After a transaction the dst_refs of a row are exactly the rows with a weak
\* reference to it, so that the next deletion finds them all (transaction.c,
\* assess_weak_refs(), which relies on the lists of the old rows).
WeakListsExact ==
    Closed => \A i \in DOMAIN rows :
        /\ rows[i].cols.weak \subseteq DOMAIN rows
        /\ rows[i].dst = {j \in DOMAIN rows \ {i} : i \in rows[j].cols.weak}

\* The reference definition of a commit.  Of the rows that a transaction leaves,
\* the largest set stays in which every row is a root or has a reference from
\* another one; weak references are cut down to it.
Surviving(t) ==
    UNION {s \in SUBSET DOMAIN t :
              \A i \in s : IsRoot(i) \/ \E j \in s : i \in Strong(j, t[j])}

Final(t) == [i \in Surviving(t) |-> [t[i].cols EXCEPT !.weak = @ \intersect Surviving(t)]]

Legal(t) ==
    LET f == Final(t) IN
    /\ \A i \in DOMAIN t : Strong(i, t[i]) \subseteq DOMAIN t
    /\ \A i \in DOMAIN f :
          /\ Cardinality({j \in DOMAIN f : Table(j) = Table(i)}) <= schema.max_rows[Table(i)]
          /\ Cardinality(f[i].weak) < schema.n_min[Table(i)] => f[i].weak = t[i].cols.weak
          /\ \A j \in DOMAIN f \ {i} :
                Table(j) = Table(i) /\ Table(i) \in schema.indexed => f[j].key # f[i].key

Columns(t) == [i \in DOMAIN t |-> t[i].cols]

\* Whatever the order of the passes, a commit has the result that the reference
\* definition gives, it fails exactly when that result breaks a constraint, and a
\* transaction that fails leaves every row, count and list as it was
\* (ovsdb_txn_commit() and ovsdb_txn_abort()).
CommitsRight ==
    Closed => CASE result = "ok" -> Legal(want) /\ Columns(rows) = Final(want)
              [] result = "error" -> ~Legal(want) /\ rows = before
              [] result = "noop" -> Columns(want) = Columns(before) /\ rows = before
              [] result \in {"io", "aborted"} -> rows = before
================================================================================
