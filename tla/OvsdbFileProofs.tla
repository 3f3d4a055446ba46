---------------------------- MODULE OvsdbFileProofs ----------------------------
(******************************************************************************)
(* Theorems about OvsdbFile, for every set of keys and values and every bound *)
(* on transactions, failures, crashes and compactions: types, that every      *)
(* power failure leaves a file the server can start from, and that the        *)
(* storage implements DurableStore.                                           *)
(*                                                                            *)
(* EitherVersion speaks of the two inodes that the directory may name after a *)
(* power failure.  It is inductive only with what makes a file worth naming:  *)
(* the copy that compaction writes has a schema on the disk before it is      *)
(* renamed (NewLog), it is neither the database nor its log until then, and   *)
(* a log never truncates its file below the schema (OldLog).                  *)
(*                                                                            *)
(* As long as no sync has failed (sound), the database holds what the server  *)
(* has in memory, less the commit that is not written yet (Stores, Memory);   *)
(* the log ends where the readable part of its file does (LogHolds); and what *)
(* is synced of a file is a prefix of what can be read of it that has all     *)
(* that was promised (Synced).  The last is what makes a power failure        *)
(* harmless: every image it may leave lies between the two (ImageBetween).    *)
(*                                                                            *)
(* What Txns, prefixes and the greatest number of a set are is proved first,  *)
(* by the least counterexample where the argument is an induction.            *)
(******************************************************************************)
EXTENDS OvsdbFile, TLAPS

Record == [kind : {"schema", "data", "torn"}, txns : Seq(Txn)]
File == [data : Seq(Record), disk : Seq(Record)]
Directory == [db : Nat, tmp : Nat]

PCs == Compacting \union {"down", "idle", "write", "sync", "written", "answer"}

\* The new log is being written, or has become the database.
Copying == {"write_schema", "write_data", "sync_new", "rename"}
Renamed == {"sync_dir", "swap"}

Types ==
    /\ pc \in PCs
    /\ txn \in {"none", "plain", "durable"}
    /\ db \in Seq(Txn) /\ acked \in Seq(Txn) /\ promised \in Nat
    /\ log \in Log /\ new_log \in Log
    /\ locked \in BOOLEAN /\ sound \in BOOLEAN
    /\ inodes \in Seq(File)
    /\ dir \in Directory /\ ddir \in Directory

\* A file that the server can start from, synced or not.
Whole(f) == HasSchema(f.data) /\ HasSchema(f.disk)

\* A commit under way has its transaction in db.
Transacting ==
    /\ txn # "none" => db # <<>>
    /\ pc \in {"write", "sync"} => txn # "none"
    /\ pc \in {"idle", "down"} => txn = "none"

\* What a power failure may make the database.
Databases ==
    \A d \in {dir, ddir} : d.db \in DOMAIN inodes /\ Whole(inodes[d.db])

\* file->log, which a later write truncates to its offset and no further.
OldLog ==
    /\ log.inode \in DOMAIN inodes
    /\ pc # "down" => /\ Whole(inodes[log.inode])
                      /\ log.offset \in 1 .. Len(inodes[log.inode].data)

\* new_log of ovsdb_file_compact(), up to the rename and after it.
NewLog ==
    /\ new_log.inode \in 0 .. Len(inodes)
    /\ pc \in Copying => /\ new_log.inode \in DOMAIN inodes \ {dir.db, ddir.db, log.inode}
                         /\ dir.tmp = new_log.inode
    /\ pc = "write_schema" => Truncates(new_log) /\ new_log.offset = 0
    /\ pc \in (Copying \ {"write_schema"}) \union Renamed =>
           /\ ~Truncates(new_log)
           /\ new_log.offset = Len(inodes[new_log.inode].data)
           /\ HasSchema(inodes[new_log.inode].data)
    /\ pc = "rename" => Whole(inodes[new_log.inode])
    /\ pc \in Renamed => new_log.inode = dir.db

FileInv == Types /\ Transacting /\ Databases /\ OldLog /\ NewLog

-------------------------------------------------------------------------------
(* What the proofs use of sequences.                                          *)

LEMMA ElementOfSeq ==
    ASSUME NEW S, NEW s \in Seq(S), NEW i \in 1 .. Len(s)
    PROVE  s[i] \in S
OBVIOUS

LEMMA EmptySeq ==
    ASSUME NEW S
    PROVE  /\ <<>> \in Seq(S) /\ Len(<<>>) = 0
           /\ \A s \in Seq(S) : s # <<>> => Len(s) \in Nat \ {0}
OBVIOUS

LEMMA LenProperties ==
    ASSUME NEW S, NEW s \in Seq(S)
    PROVE  Len(s) \in Nat /\ DOMAIN s = 1 .. Len(s) /\ s \in [1 .. Len(s) -> S]
OBVIOUS

LEMMA ExceptSeq ==
    ASSUME NEW S, NEW s \in Seq(S), NEW i \in 1 .. Len(s), NEW x \in S
    PROVE  LET t == [s EXCEPT ![i] = x]
           IN  /\ t \in Seq(S) /\ Len(t) = Len(s)
               /\ \A j \in 1 .. Len(s) : t[j] = IF j = i THEN x ELSE s[j]
OBVIOUS

LEMMA SeqEqual ==
    ASSUME NEW S, NEW s \in Seq(S), NEW t \in Seq(S),
           Len(s) = Len(t), \A i \in 1 .. Len(s) : s[i] = t[i]
    PROVE  s = t
OBVIOUS

LEMMA ConcatProperties ==
    ASSUME NEW S, NEW s \in Seq(S), NEW t \in Seq(S)
    PROVE  /\ s \o t \in Seq(S) /\ Len(s \o t) = Len(s) + Len(t)
           /\ \A i \in 1 .. Len(s) + Len(t) :
                  (s \o t)[i] = IF i <= Len(s) THEN s[i] ELSE t[i - Len(s)]
OBVIOUS

LEMMA SubSeqProperties ==
    ASSUME NEW S, NEW s, NEW m \in Int, NEW n \in Int, \A i \in m .. n : s[i] \in S
    PROVE  /\ SubSeq(s, m, n) \in Seq(S)
           /\ Len(SubSeq(s, m, n)) = IF m <= n THEN n - m + 1 ELSE 0
           /\ \A i \in 1 .. n - m + 1 : SubSeq(s, m, n)[i] = s[m + i - 1]
OBVIOUS

LEMMA SubSeqFull ==
    ASSUME NEW S, NEW s \in Seq(S)
    PROVE  SubSeq(s, 1, Len(s)) = s
OBVIOUS

LEMMA AppendProperties ==
    ASSUME NEW S, NEW s \in Seq(S), NEW x \in S
    PROVE  /\ Append(s, x) \in Seq(S) /\ Append(s, x) # <<>>
           /\ Len(Append(s, x)) = Len(s) + 1
           /\ \A i \in 1 .. Len(s) : Append(s, x)[i] = s[i]
           /\ Append(s, x)[Len(s) + 1] = x
OBVIOUS

LEMMA AppendIsConcat ==
    ASSUME NEW S, NEW s \in Seq(S), NEW x \in S
    PROVE  Append(s, x) = s \o <<x>>
OBVIOUS

-------------------------------------------------------------------------------
(* Numbers; the least and the greatest of a set of them.                      *)

LEMMA OneMore ==
    ASSUME NEW n \in Nat
    PROVE  n <= n + 1
OBVIOUS

LEMMA AtMost ==
    ASSUME NEW k \in Nat, NEW m \in Nat, NEW n \in Nat, k <= m, m <= n
    PROVE  k <= n
OBVIOUS

\* Proved where it is discharged, at the end of the module: the theorems about
\* well-founded relations stay out of the way of the proofs between.
LeastNumber == \A S \in SUBSET Nat : S # {} => \E x \in S : \A y \in S : x <= y

LEMMA LeastExists ==
    ASSUME LeastNumber, NEW S \in SUBSET Nat, S # {}
    PROVE  \E x \in S : \A y \in S : x <= y
BY Zenon DEF LeastNumber

LEMMA MaxIs ==
    ASSUME LeastNumber, NEW n \in Nat, NEW S \in SUBSET (0 .. n), S # {}
    PROVE  Max(S) \in S /\ \A y \in S : y <= Max(S)
<1> DEFINE T == {n - x : x \in S}
<1>1. T \in SUBSET Nat /\ T # {}
  <2>1. \A x \in S : n - x \in Nat
    OBVIOUS
  <2> QED
    BY <2>1
<1>2. PICK z \in T : \A y \in T : z <= y
  BY <1>1, LeastExists, Zenon
<1>3. PICK x \in S : z = n - x
  OBVIOUS
<1>4. \A y \in S : x >= y
  <2> TAKE y \in S
  <2>1. n - x <= n - y
    BY <1>2, <1>3
  <2> QED
    BY <2>1
<1>5. Max(S) \in S /\ \A y \in S : Max(S) >= y
  BY <1>4, Zenon DEF Max
<1> QED
  BY <1>5

LEMMA MaxUnique ==
    ASSUME LeastNumber, NEW n \in Nat, NEW S \in SUBSET (0 .. n), NEW x \in S, \A y \in S : y <= x
    PROVE  Max(S) = x
<1>1. Max(S) \in S /\ x <= Max(S)
  BY MaxIs, Zenon
<1>2. Max(S) <= x
  BY <1>1, Zenon
<1>3. Max(S) \in Nat /\ x \in Nat
  <2>1. \A y \in S : y \in Nat
    OBVIOUS
  <2> QED
    BY <1>1, <2>1, Zenon
<1> QED
  BY <1>1, <1>2, <1>3

-------------------------------------------------------------------------------
(* The transactions of a sequence of records.                                 *)

LEMMA RecordsAre ==
    /\ Schema \in Record /\ Torn \in Record
    /\ \A s \in Seq(Txn) : Data(s) \in Record
    /\ Schema.txns = <<>> /\ Schema.kind = "schema" /\ Torn.kind = "torn"
    /\ \A s : Data(s).txns = s /\ Data(s).kind = "data"
<1>1. <<>> \in Seq(Txn)
  BY EmptySeq
<1> QED
  BY <1>1 DEF Schema, Torn, Data, Record

\* f gathers the transactions of the first n records of g.
Gathers(f, g, n) == f = [i \in 0 .. n |-> IF i = 0 THEN <<>> ELSE f[i - 1] \o g[i].txns]

LEMMA GathersAt ==
    ASSUME NEW f, NEW g, NEW n, Gathers(f, g, n), NEW i \in 0 .. n
    PROVE  f[i] = IF i = 0 THEN <<>> ELSE f[i - 1] \o g[i].txns
BY Zenon DEF Gathers

LEMMA GathersExists ==
    ASSUME LeastNumber, NEW g, NEW n \in Nat
    PROVE  \E f : Gathers(f, g, n)
<1> DEFINE S == {m \in Nat : ~\E f : Gathers(f, g, m)}
<1>1. SUFFICES ASSUME S # {} PROVE FALSE
  OBVIOUS
<1>2. PICK m \in S : \A y \in S : m <= y
  BY <1>1, LeastExists, Zenon
<1>3. m # 0
  <2>1. Gathers([i \in 0 .. 0 |-> <<>>], g, 0)
    BY DEF Gathers
  <2> QED
    BY <2>1
<1>4. m - 1 \in Nat /\ m - 1 \notin S
  BY <1>2, <1>3
<1>5. PICK f : Gathers(f, g, m - 1)
  BY <1>4
<1> DEFINE h == [i \in 0 .. m |-> IF i < m THEN f[i] ELSE f[m - 1] \o g[m].txns]
<1>6. \A i \in 0 .. m : h[i] = IF i = 0 THEN <<>> ELSE h[i - 1] \o g[i].txns
  <2> TAKE i \in 0 .. m
  <2>1. CASE i < m
    <3>1. i \in 0 .. m - 1
      BY <1>4, <2>1
    <3>2. f[i] = IF i = 0 THEN <<>> ELSE f[i - 1] \o g[i].txns
      BY <1>5, <3>1, Zenon DEF Gathers
    <3>3. i # 0 => i - 1 \in 0 .. m /\ i - 1 < m
      BY <3>1
    <3> QED
      BY <2>1, <3>2, <3>3
  <2>2. CASE i = m
    <3>1. i # 0 /\ i - 1 \in 0 .. m /\ i - 1 < m
      BY <1>3, <2>2
    <3>2. h[i] = f[m - 1] \o g[m].txns
      <4>1. m \in 0 .. m /\ ~(m < m)
        BY <2>2
      <4> QED
        BY <2>2, <4>1, Zenon
    <3>3. h[i - 1] = f[i - 1]
      BY <3>1
    <3> HIDE DEF h
    <3> QED
      BY <2>2, <3>1, <3>2, <3>3, Zenon
  <2> QED
    BY <2>1, <2>2
<1>7. h = [i \in 0 .. m |-> IF i = 0 THEN <<>> ELSE h[i - 1] \o g[i].txns]
  <2>1. h = [i \in 0 .. m |-> h[i]]
    OBVIOUS
  <2> HIDE DEF h
  <2> QED
    BY <1>6, <2>1, Zenon
<1>8. Gathers(h, g, m)
  BY <1>7, Zenon DEF Gathers
<1> QED
  BY <1>8

LEMMA TxnsGathers ==
    ASSUME LeastNumber, NEW g, NEW n \in Nat, Len(g) = n
    PROVE  \E f : Gathers(f, g, n) /\ Txns(g) = f[n]
<1>1. PICK f : f = CHOOSE x : Gathers(x, g, n)
  OBVIOUS
<1>2. \E h : Gathers(h, g, n)
  BY GathersExists, Zenon
<1>3. Gathers(f, g, n)
  BY <1>1, <1>2, Zenon
<1>4. Txns(g) = f[n]
  BY <1>1 DEF Txns, Gathers
<1> QED
  BY <1>3, <1>4

\* Sequences that agree as far as k.
Agree(s, t, k) == \A i \in 0 .. k : s[i] = t[i]

LEMMA GathersAgree ==
    ASSUME LeastNumber, NEW g, NEW h, NEW e, NEW f, NEW n \in Nat, Gathers(e, g, n), Gathers(f, h, n + 1),
           \A i \in 1 .. n : g[i] = h[i]
    PROVE  Agree(e, f, n)
<1> USE DEF Agree
<1> DEFINE S == {i \in 0 .. n : e[i] # f[i]}
<1>1. SUFFICES ASSUME S # {} PROVE FALSE
  OBVIOUS
<1>2. S \in SUBSET Nat
  OBVIOUS
<1>3. PICK j \in S : \A y \in S : j <= y
  BY <1>1, <1>2, LeastExists, Zenon
<1>4. /\ e[j] = IF j = 0 THEN <<>> ELSE e[j - 1] \o g[j].txns
      /\ f[j] = IF j = 0 THEN <<>> ELSE f[j - 1] \o h[j].txns
  <2>1. j \in 0 .. n /\ j \in 0 .. n + 1
    OBVIOUS
  <2> QED
    BY <2>1 DEF Gathers
<1>5. j # 0 => j - 1 \in 0 .. n /\ j - 1 \notin S /\ j \in 1 .. n
  BY <1>3
<1>6. j # 0 => e[j - 1] = f[j - 1] /\ g[j] = h[j]
  BY <1>5
<1> QED
  BY <1>4, <1>6

LEMMA TxnsOfNone ==
    ASSUME LeastNumber
    PROVE  Txns(<<>>) = <<>>
<1>1. PICK f : Gathers(f, <<>>, 0) /\ Txns(<<>>) = f[0]
  BY TxnsGathers
<1>2. 0 \in 0 .. 0
  OBVIOUS
<1>3. f[0] = <<>>
  BY <1>1, <1>2, GathersAt
<1> QED
  BY <1>1, <1>3

LEMMA TxnsAppend ==
    ASSUME LeastNumber, NEW g \in Seq(Record), NEW r \in Record
    PROVE  Txns(Append(g, r)) = Txns(g) \o r.txns
<1> DEFINE h == Append(g, r)
<1>1. PICK n \in Nat : n = Len(g)
  BY LenProperties
<1>2. Len(h) = n + 1 /\ h[n + 1] = r /\ \A i \in 1 .. n : g[i] = h[i]
  BY <1>1, AppendProperties
<1> HIDE DEF h
<1>3. PICK e : Gathers(e, g, n) /\ Txns(g) = e[n]
  BY <1>1, TxnsGathers
<1>4. PICK f : Gathers(f, h, n + 1) /\ Txns(h) = f[n + 1]
  <2>1. n + 1 \in Nat
    OBVIOUS
  <2> QED
    BY <1>2, <2>1, TxnsGathers
<1>5. f[n + 1] = f[n] \o h[n + 1].txns
  <2>1. PICK k \in 0 .. n + 1 : k = n + 1 /\ k # 0 /\ k - 1 = n
    BY <1>1
  <2>2. f[k] = IF k = 0 THEN <<>> ELSE f[k - 1] \o h[k].txns
    BY <1>4, GathersAt
  <2>3. f[k] = f[n] \o h[k].txns
    BY <2>1, <2>2, Zenon
  <2> QED
    BY <2>1, <2>3, Zenon
<1>6. e[n] = f[n]
  <2>1. Agree(e, f, n)
    BY <1>2, <1>3, <1>4, GathersAgree
  <2> QED
    BY <2>1 DEF Agree
<1> QED
  BY <1>2, <1>3, <1>4, <1>5, <1>6 DEF h

-------------------------------------------------------------------------------
(* Prefixes.                                                                  *)

Starts(p, s) == Len(p) <= Len(s) /\ p = SubSeq(s, 1, Len(p))

LEMMA CutIs ==
    ASSUME NEW S, NEW s \in Seq(S), NEW n \in 0 .. Len(s)
    PROVE  /\ SubSeq(s, 1, n) \in Seq(S) /\ Len(SubSeq(s, 1, n)) = n
           /\ \A i \in 1 .. n : SubSeq(s, 1, n)[i] = s[i]
           /\ Starts(SubSeq(s, 1, n), s)
<1>1. Len(s) \in Nat
  BY LenProperties
<1>2. CASE n = 0
  <2>1. SubSeq(s, 1, n) = <<>>
    BY <1>2
  <2> QED
    BY <1>1, <1>2, <2>1 DEF Starts
<1>3. CASE n # 0
  <2>1. 1 \in 1 .. Len(s) /\ n \in 1 .. Len(s)
    BY <1>1, <1>3
  <2>2. /\ SubSeq(s, 1, n) \in Seq(S)
        /\ Len(SubSeq(s, 1, n)) = IF 1 <= n THEN n - 1 + 1 ELSE 0
        /\ \A i \in 1 .. n - 1 + 1 : SubSeq(s, 1, n)[i] = s[1 + i - 1]
    BY <1>1, <2>1, SubSeqProperties
  <2>3. Len(SubSeq(s, 1, n)) = n
    BY <2>1, <2>2
  <2>4. \A i \in 1 .. n : SubSeq(s, 1, n)[i] = s[i]
    <3> TAKE i \in 1 .. n
    <3>1. i \in 1 .. n - 1 + 1 /\ 1 + i - 1 = i
      BY <2>1
    <3> QED
      BY <2>2, <3>1
  <2> QED
    BY <1>1, <2>2, <2>3, <2>4 DEF Starts
<1> QED
  BY <1>2, <1>3

LEMMA SameCut ==
    ASSUME NEW S, NEW s \in Seq(S), NEW t \in Seq(S), NEW n \in Nat, n <= Len(s), n <= Len(t),
           \A i \in 1 .. n : s[i] = t[i]
    PROVE  SubSeq(s, 1, n) = SubSeq(t, 1, n)
<1> DEFINE a == SubSeq(s, 1, n)
           b == SubSeq(t, 1, n)
<1>1. n \in 0 .. Len(s) /\ n \in 0 .. Len(t)
  BY LenProperties
<1>2. /\ a \in Seq(S) /\ Len(a) = n /\ \A i \in 1 .. n : a[i] = s[i]
      /\ b \in Seq(S) /\ Len(b) = n /\ \A i \in 1 .. n : b[i] = t[i]
  BY <1>1, CutIs
<1> HIDE DEF a, b
<1>3. a = b
  BY <1>2, SeqEqual, Zenon
<1> QED
  BY <1>3 DEF a, b

\* A cut of a cut.
LEMMA CutCut ==
    ASSUME NEW S, NEW s \in Seq(S), NEW n \in 0 .. Len(s), NEW m \in 0 .. n
    PROVE  SubSeq(SubSeq(s, 1, n), 1, m) = SubSeq(s, 1, m)
<1>1. /\ SubSeq(s, 1, n) \in Seq(S) /\ Len(SubSeq(s, 1, n)) = n
      /\ \A i \in 1 .. n : SubSeq(s, 1, n)[i] = s[i]
  BY CutIs
<1>2. Len(s) \in Nat
  BY LenProperties
<1> DEFINE t == SubSeq(s, 1, n)
<1> HIDE DEF t
<1>3. \A i \in 1 .. m : t[i] = s[i]
  BY <1>1 DEF t
<1>4. t \in Seq(S) /\ m \in Nat /\ m <= Len(t) /\ m <= Len(s)
  BY <1>1, <1>2 DEF t
<1>5. SubSeq(t, 1, m) = SubSeq(s, 1, m)
  BY <1>3, <1>4, SameCut
<1> QED
  BY <1>5 DEF t

LEMMA StartsTransitive ==
    ASSUME NEW S, NEW p \in Seq(S), NEW q \in Seq(S), NEW s \in Seq(S), Starts(p, q), Starts(q, s)
    PROVE  Starts(p, s)
<1>1. /\ Len(p) \in Nat /\ Len(q) \in Nat /\ Len(s) \in Nat
      /\ Len(p) <= Len(q) /\ Len(q) <= Len(s) /\ p = SubSeq(q, 1, Len(p)) /\ q = SubSeq(s, 1, Len(q))
  BY LenProperties DEF Starts
<1>2. Len(p) \in 0 .. Len(q) /\ Len(q) \in 0 .. Len(s)
  BY <1>1
<1>3. SubSeq(SubSeq(s, 1, Len(q)), 1, Len(p)) = SubSeq(s, 1, Len(p))
  BY <1>2, CutCut
<1> QED
  BY <1>1, <1>3 DEF Starts

LEMMA StartsConcat ==
    ASSUME NEW S, NEW p \in Seq(S), NEW u \in Seq(S)
    PROVE  Starts(p, p \o u)
<1> DEFINE s == p \o u
<1>1. Len(p) \in Nat /\ Len(u) \in Nat
  BY LenProperties
<1>2. /\ s \in Seq(S) /\ Len(s) = Len(p) + Len(u)
      /\ \A i \in 1 .. Len(p) + Len(u) : s[i] = IF i <= Len(p) THEN p[i] ELSE u[i - Len(p)]
  BY ConcatProperties
<1> HIDE DEF s
<1>3. \A i \in 1 .. Len(p) : p[i] = s[i]
  BY <1>1, <1>2
<1>4. SubSeq(p, 1, Len(p)) = SubSeq(s, 1, Len(p))
  BY <1>1, <1>2, <1>3, SameCut
<1>5. SubSeq(p, 1, Len(p)) = p
  BY SubSeqFull
<1> QED
  BY <1>1, <1>2, <1>4, <1>5 DEF Starts, s

LEMMA StartsAppend ==
    ASSUME NEW S, NEW p \in Seq(S), NEW e \in S
    PROVE  /\ Append(p, e) \in Seq(S) /\ Len(Append(p, e)) = Len(p) + 1
           /\ Starts(p, Append(p, e)) /\ SubSeq(Append(p, e), 1, Len(p)) = p
           /\ Append(p, e)[Len(p) + 1] = e
<1>1. Append(p, e) = p \o <<e>> /\ <<e>> \in Seq(S)
  BY AppendIsConcat
<1>2. Starts(p, Append(p, e))
  BY <1>1, StartsConcat, Zenon
<1>3. /\ Append(p, e) \in Seq(S) /\ Len(Append(p, e)) = Len(p) + 1
      /\ Append(p, e)[Len(p) + 1] = e
  BY AppendProperties
<1> QED
  BY <1>2, <1>3 DEF Starts

LEMMA CutStep ==
    ASSUME NEW S, NEW s \in Seq(S), NEW n \in Nat, n < Len(s)
    PROVE  SubSeq(s, 1, n + 1) = Append(SubSeq(s, 1, n), s[n + 1]) /\ s[n + 1] \in S
<1>1. Len(s) \in Nat /\ n \in 0 .. Len(s) /\ n + 1 \in 0 .. Len(s) /\ n + 1 \in 1 .. Len(s)
  BY LenProperties
<1> DEFINE a == SubSeq(s, 1, n)
           b == SubSeq(s, 1, n + 1)
           c == Append(a, s[n + 1])
<1>2. /\ a \in Seq(S) /\ Len(a) = n /\ \A i \in 1 .. n : a[i] = s[i]
      /\ b \in Seq(S) /\ Len(b) = n + 1 /\ \A i \in 1 .. n + 1 : b[i] = s[i]
  BY <1>1, CutIs
<1>3. s[n + 1] \in S
  BY <1>1, ElementOfSeq
<1> HIDE DEF a, b
<1>4. /\ c \in Seq(S) /\ Len(c) = Len(a) + 1
      /\ \A i \in 1 .. Len(a) : c[i] = a[i]
      /\ c[Len(a) + 1] = s[n + 1]
  BY <1>2, <1>3, AppendProperties
<1> HIDE DEF c
<1>5. \A i \in 1 .. n + 1 : b[i] = c[i]
  <2> TAKE i \in 1 .. n + 1
  <2>1. i \in 1 .. n \/ i = n + 1
    OBVIOUS
  <2> QED
    BY <1>2, <1>4, <2>1
<1>6. b = c
  BY <1>2, <1>4, <1>5, SeqEqual
<1> QED
  BY <1>3, <1>6 DEF a, b, c

-------------------------------------------------------------------------------
(* What a prefix of the records holds.                                        *)

LEMMA TxnsOfCut ==
    ASSUME LeastNumber, NEW g \in Seq(Record), NEW n \in Nat, n < Len(g)
    PROVE  /\ Txns(SubSeq(g, 1, n + 1)) = Txns(SubSeq(g, 1, n)) \o g[n + 1].txns
           /\ g[n + 1].txns \in Seq(Txn)
<1>1. SubSeq(g, 1, n + 1) = Append(SubSeq(g, 1, n), g[n + 1]) /\ g[n + 1] \in Record
  BY CutStep
<1>2. SubSeq(g, 1, n) \in Seq(Record)
  BY CutIs, LenProperties
<1> QED
  BY <1>1, <1>2, TxnsAppend, Zenon DEF Record

LEMMA TxnsType ==
    ASSUME LeastNumber, NEW g \in Seq(Record), NEW n \in 0 .. Len(g)
    PROVE  Txns(SubSeq(g, 1, n)) \in Seq(Txn)
<1> DEFINE S == {m \in 0 .. Len(g) : Txns(SubSeq(g, 1, m)) \notin Seq(Txn)}
<1>0. Len(g) \in Nat
  BY LenProperties
<1>1. SUFFICES ASSUME S # {} PROVE FALSE
  OBVIOUS
<1>2. S \in SUBSET Nat
  BY <1>0
<1>3. PICK m \in S : \A y \in S : m <= y
  BY <1>1, <1>2, LeastExists, Zenon
<1>4. CASE m = 0
  <2>1. SubSeq(g, 1, 0) = <<>>
    BY <1>0
  <2> QED
    BY <1>4, <2>1, TxnsOfNone, EmptySeq, Zenon
<1>5. CASE m # 0
  <2> DEFINE k == m - 1
  <2>1. k \in Nat /\ k < Len(g) /\ k + 1 = m /\ k \in 0 .. Len(g) /\ k \notin S
    BY <1>0, <1>3, <1>5
  <2>2. Txns(SubSeq(g, 1, k)) \in Seq(Txn)
    BY <2>1
  <2> HIDE DEF k
  <2>3. Txns(SubSeq(g, 1, k + 1)) = Txns(SubSeq(g, 1, k)) \o g[k + 1].txns /\ g[k + 1].txns \in Seq(Txn)
    BY <2>1, TxnsOfCut, Zenon
  <2>4. Txns(SubSeq(g, 1, k + 1)) \in Seq(Txn)
    BY <2>2, <2>3, ConcatProperties, Zenon
  <2> QED
    BY <2>1, <2>4
<1> QED
  BY <1>4, <1>5

\* More records hold more transactions.
LEMMA TxnsStart ==
    ASSUME LeastNumber, NEW g \in Seq(Record), NEW n \in 0 .. Len(g), NEW k \in 0 .. n
    PROVE  Starts(Txns(SubSeq(g, 1, k)), Txns(SubSeq(g, 1, n)))
<1> DEFINE S == {m \in k .. Len(g) : ~Starts(Txns(SubSeq(g, 1, k)), Txns(SubSeq(g, 1, m)))}
<1>0. Len(g) \in Nat /\ k \in 0 .. Len(g)
  BY LenProperties
<1>1. SUFFICES ASSUME S # {} PROVE FALSE
  BY <1>0
<1>2. S \in SUBSET Nat
  BY <1>0
<1>3. PICK m \in S : \A y \in S : m <= y
  BY <1>1, <1>2, LeastExists, Zenon
<1>4. CASE m = k
  <2>1. Txns(SubSeq(g, 1, k)) \in Seq(Txn)
    BY <1>0, TxnsType
  <2>2. Starts(Txns(SubSeq(g, 1, k)), Txns(SubSeq(g, 1, k)))
    BY <2>1, SubSeqFull, LenProperties DEF Starts
  <2> QED
    BY <1>4, <2>2
<1>5. CASE m # k
  <2> DEFINE j == m - 1
  <2>1. j \in Nat /\ j < Len(g) /\ j + 1 = m /\ j \in k .. Len(g) /\ j \in 0 .. Len(g) /\ j \notin S
    BY <1>0, <1>3, <1>5
  <2>2. Starts(Txns(SubSeq(g, 1, k)), Txns(SubSeq(g, 1, j)))
    BY <2>1
  <2> HIDE DEF j
  <2>3. Txns(SubSeq(g, 1, j + 1)) = Txns(SubSeq(g, 1, j)) \o g[j + 1].txns /\ g[j + 1].txns \in Seq(Txn)
    BY <2>1, TxnsOfCut, Zenon
  <2>4. /\ Txns(SubSeq(g, 1, k)) \in Seq(Txn) /\ Txns(SubSeq(g, 1, j)) \in Seq(Txn)
        /\ Txns(SubSeq(g, 1, j + 1)) \in Seq(Txn)
    <3>1. j + 1 \in 0 .. Len(g)
      BY <2>1
    <3> QED
      BY <1>0, <2>1, <3>1, TxnsType
  <2>5. Starts(Txns(SubSeq(g, 1, j)), Txns(SubSeq(g, 1, j + 1)))
    BY <2>3, <2>4, StartsConcat, Zenon
  <2>6. Starts(Txns(SubSeq(g, 1, k)), Txns(SubSeq(g, 1, j + 1)))
    BY <2>2, <2>4, <2>5, StartsTransitive
  <2> QED
    BY <2>1, <2>6
<1> QED
  BY <1>4, <1>5

LEMMA ReplayablePrefix ==
    ASSUME NEW s \in Seq(Txn), NEW p \in Seq(Txn), Starts(p, s), Replayable(s)
    PROVE  Replayable(p)
<1>1. Len(p) \in Nat /\ Len(s) \in Nat /\ Len(p) \in 0 .. Len(s) /\ p = SubSeq(s, 1, Len(p))
  BY LenProperties DEF Starts
<1>2. \A i \in 1 .. Len(p) : p[i] = s[i]
  BY <1>1, CutIs
<1>3. ASSUME NEW i \in 1 .. Len(p) PROVE ~Rejected(Content(SubSeq(p, 1, i - 1)), p[i])
  <2>1. i \in 1 .. Len(s) /\ i - 1 \in 0 .. Len(p)
    BY <1>1
  <2>2. SubSeq(p, 1, i - 1) = SubSeq(s, 1, i - 1)
    BY <1>1, <2>1, CutCut
  <2>3. ~Rejected(Content(SubSeq(s, 1, i - 1)), s[i])
    BY <2>1 DEF Replayable
  <2> QED
    BY <1>2, <2>2, <2>3, Zenon
<1> QED
  BY <1>3 DEF Replayable

LEMMA ReplayableAppend ==
    ASSUME NEW s \in Seq(Txn), NEW t \in Txn, Replayable(s), ~Rejected(Content(s), t)
    PROVE  Replayable(Append(s, t))
<1> DEFINE u == Append(s, t)
<1>1. /\ Len(s) \in Nat /\ u \in Seq(Txn) /\ Len(u) = Len(s) + 1 /\ SubSeq(u, 1, Len(s)) = s
      /\ u[Len(s) + 1] = t
  BY StartsAppend, LenProperties
<1>2. \A i \in 1 .. Len(s) : u[i] = s[i]
  BY AppendProperties
<1> HIDE DEF u
<1>3. ASSUME NEW i \in 1 .. Len(u) PROVE ~Rejected(Content(SubSeq(u, 1, i - 1)), u[i])
  <2>1. CASE i = Len(s) + 1
    <3>1. i - 1 = Len(s)
      BY <1>1, <2>1
    <3> QED
      BY <1>1, <2>1, <3>1, Zenon
  <2>2. CASE i # Len(s) + 1
    <3>1. i \in 1 .. Len(s) /\ i - 1 \in 0 .. Len(s) /\ Len(s) \in 0 .. Len(u)
      BY <1>1, <2>2
    <3>2. SubSeq(s, 1, i - 1) = SubSeq(u, 1, i - 1)
      BY <1>1, <3>1, CutCut
    <3>3. ~Rejected(Content(SubSeq(s, 1, i - 1)), s[i])
      BY <3>1 DEF Replayable
    <3> QED
      BY <1>2, <3>1, <3>2, <3>3, Zenon
  <2> QED
    BY <2>1, <2>2
<1> QED
  BY <1>3 DEF Replayable, u

-------------------------------------------------------------------------------
(* What ovsdb_file_open__() keeps.                                            *)

\* The first n records can be read.
Reads(f, n) ==
    /\ \A i \in 1 .. n : f[i].kind = IF i = 1 THEN "schema" ELSE "data"
    /\ Replayable(Txns(SubSeq(f, 1, n)))

LEMMA ReadableIs ==
    ASSUME LeastNumber, NEW f \in Seq(Record), HasSchema(f)
    PROVE  /\ Readable(f) \in 1 .. Len(f) /\ Reads(f, Readable(f))
           /\ \A n \in 0 .. Len(f) : Reads(f, n) => n <= Readable(f)
<1> DEFINE S == {n \in 0 .. Len(f) : Reads(f, n)}
<1>1. Readable(f) = Max(S)
  BY DEF Readable, Reads
<1>2. Len(f) \in Nat /\ 1 <= Len(f)
  BY LenProperties, EmptySeq DEF HasSchema
<1>3. 1 \in S
  <2>1. SubSeq(f, 1, 1) = Append(SubSeq(f, 1, 0), f[1]) /\ SubSeq(f, 1, 0) = <<>>
    <3>1. 0 \in Nat /\ 0 < Len(f) /\ 0 + 1 = 1
      BY <1>2
    <3> QED
      BY <3>1, CutStep
  <2>2. Txns(SubSeq(f, 1, 1)) = <<>>
    <3>1. Schema \in Record /\ Schema.txns = <<>>
      BY RecordsAre
    <3>2. Txns(Append(<<>>, Schema)) = Txns(<<>>) \o Schema.txns
      BY <3>1, EmptySeq, TxnsAppend, Zenon
    <3>3. Append(<<>>, Schema) = SubSeq(f, 1, 1)
      BY <2>1 DEF HasSchema
    <3>4. <<>> \o Schema.txns = <<>>
      BY <3>1
    <3> QED
      BY <3>2, <3>3, <3>4, TxnsOfNone, Zenon
  <2>3. Replayable(<<>>)
    BY DEF Replayable
  <2>4. f[1].kind = "schema"
    BY RecordsAre DEF HasSchema
  <2>5. \A i \in 1 .. 1 : i = 1
    OBVIOUS
  <2>6. Reads(f, 1)
    BY <2>2, <2>3, <2>4, <2>5 DEF Reads
  <2> QED
    BY <1>2, <2>6
<1>4. Max(S) \in S /\ \A y \in S : y <= Max(S)
  <2> HIDE DEF S
  <2>1. S \in SUBSET (0 .. Len(f)) /\ S # {}
    BY <1>3 DEF S
  <2> QED
    BY <1>2, <2>1, MaxIs, Zenon
<1> HIDE DEF S
<1>5. Max(S) >= 1 /\ Max(S) \in 0 .. Len(f)
  BY <1>3, <1>4 DEF S
<1> QED
  BY <1>1, <1>2, <1>4, <1>5 DEF S

LEMMA ReadableUnique ==
    ASSUME LeastNumber, NEW f \in Seq(Record), NEW n \in 0 .. Len(f), Reads(f, n),
           \A m \in 0 .. Len(f) : Reads(f, m) => m <= n
    PROVE  Readable(f) = n
<1> DEFINE S == {m \in 0 .. Len(f) : Reads(f, m)}
<1>1. Readable(f) = Max(S)
  BY DEF Readable, Reads
<1>2. Len(f) \in Nat
  BY LenProperties
<1>3. S \in SUBSET (0 .. Len(f)) /\ n \in S /\ \A y \in S : y <= n
  OBVIOUS
<1> HIDE DEF S
<1>4. Max(S) = n
  BY <1>2, <1>3, MaxUnique, Zenon
<1> QED
  BY <1>1, <1>4

-------------------------------------------------------------------------------
(* The calls on a file.                                                       *)

\* File i has new contents and every other file is as it was.
Put(i, data, disk) ==
    /\ inodes' \in Seq(File) /\ Len(inodes') = Len(inodes) /\ DOMAIN inodes' = DOMAIN inodes
    /\ inodes'[i].data = data /\ inodes'[i].disk = disk
    /\ \A j \in DOMAIN inodes \ {i} : inodes'[j] = inodes[j]

LEMMA FileAt ==
    ASSUME inodes \in Seq(File), NEW i \in DOMAIN inodes
    PROVE  /\ inodes[i] \in File /\ inodes[i].data \in Seq(Record) /\ inodes[i].disk \in Seq(Record)
           /\ Len(inodes) \in Nat /\ i \in 1 .. Len(inodes)
<1>1. Len(inodes) \in Nat /\ DOMAIN inodes = 1 .. Len(inodes)
  BY LenProperties
<1>2. inodes[i] \in File
  BY <1>1, ElementOfSeq
<1> QED
  BY <1>1, <1>2 DEF File

LEMMA PutIs ==
    ASSUME inodes \in Seq(File), NEW i \in DOMAIN inodes, NEW d \in Seq(Record), NEW k \in Seq(Record),
           inodes' = [inodes EXCEPT ![i] = [data |-> d, disk |-> k]]
    PROVE  Put(i, d, k)
<1>1. [data |-> d, disk |-> k] \in File
  BY DEF File
<1>2. i \in 1 .. Len(inodes) /\ DOMAIN inodes = 1 .. Len(inodes)
  BY LenProperties
<1>3. inodes' \in Seq(File) /\ Len(inodes') = Len(inodes)
  BY <1>1, <1>2, ExceptSeq
<1> QED
  BY <1>2, <1>3 DEF Put

LEMMA FileFields ==
    ASSUME NEW D, NEW f \in [data : D, disk : D], NEW d
    PROVE  /\ [f EXCEPT !.data = d] = [data |-> d, disk |-> f.disk]
           /\ [f EXCEPT !.disk = d] = [data |-> f.data, disk |-> d]
<1>1. DOMAIN f = {"data", "disk"}
  OBVIOUS
<1>2. DOMAIN [f EXCEPT !.data = d] = {"data", "disk"} /\ DOMAIN [f EXCEPT !.disk = d] = {"data", "disk"}
  BY <1>1
<1>3. [f EXCEPT !.data = d].data = d /\ [f EXCEPT !.data = d].disk = f.disk
  BY <1>1
<1>4. [f EXCEPT !.disk = d].disk = d /\ [f EXCEPT !.disk = d].data = f.data
  BY <1>1
<1>5. [f EXCEPT !.data = d] = [data |-> d, disk |-> f.disk]
  BY <1>2, <1>3
<1>6. [f EXCEPT !.disk = d] = [data |-> f.data, disk |-> d]
  BY <1>2, <1>4
<1> QED
  BY <1>5, <1>6

LEMMA SetDataPuts ==
    ASSUME inodes \in Seq(File), NEW i \in DOMAIN inodes, NEW d \in Seq(Record), SetData(i, d)
    PROVE  Put(i, d, inodes[i].disk)
<1>1. inodes[i] \in File /\ inodes[i].disk \in Seq(Record)
  BY FileAt
<1>2. [inodes[i] EXCEPT !.data = d] = [data |-> d, disk |-> inodes[i].disk]
  BY <1>1, FileFields, Zenon DEF File
<1>3. inodes' = [inodes EXCEPT ![i] = [data |-> d, disk |-> inodes[i].disk]]
  BY <1>2, Zenon DEF SetData
<1> QED
  BY <1>1, <1>3, PutIs, Zenon

LEMMA CommitPuts ==
    ASSUME inodes \in Seq(File), NEW l \in Log, l.inode \in DOMAIN inodes, log_commit(l)
    PROVE  Put(l.inode, inodes[l.inode].data, inodes[l.inode].data)
<1> DEFINE i == l.inode
<1>1. inodes[i] \in File /\ inodes[i].data \in Seq(Record)
  BY FileAt
<1>2. [inodes[i] EXCEPT !.disk = inodes[i].data] = [data |-> inodes[i].data, disk |-> inodes[i].data]
  BY <1>1, FileFields DEF File
<1>3. inodes' = [inodes EXCEPT ![i] = [data |-> inodes[i].data, disk |-> inodes[i].data]]
  BY <1>2, Zenon DEF log_commit
<1> QED
  BY <1>1, <1>3, PutIs, Zenon

\* What the log keeps of the file when it writes.
LEMMA BaseIs ==
    ASSUME inodes \in Seq(File), NEW l \in Log, l.inode \in DOMAIN inodes,
           l.offset \in 0 .. Len(inodes[l.inode].data)
    PROVE  /\ Base(l) \in Seq(Record) /\ Len(Base(l)) \in Nat /\ l.offset <= Len(Base(l))
           /\ Starts(Base(l), inodes[l.inode].data)
           /\ SubSeq(Base(l), 1, l.offset) = SubSeq(inodes[l.inode].data, 1, l.offset)
<1> DEFINE g == inodes[l.inode].data
<1>1. g \in Seq(Record) /\ Len(g) \in Nat /\ l.offset \in 0 .. Len(g) /\ l.offset \in Nat
  BY FileAt, LenProperties
<1>2. Base(l) = IF Truncates(l) THEN SubSeq(g, 1, l.offset) ELSE g
  BY DEF Base
<1> HIDE DEF g
<1>3. CASE Truncates(l)
  <2>1. /\ SubSeq(g, 1, l.offset) \in Seq(Record) /\ Len(SubSeq(g, 1, l.offset)) = l.offset
        /\ Starts(SubSeq(g, 1, l.offset), g)
    BY <1>1, CutIs DEF Starts
  <2>2. SubSeq(SubSeq(g, 1, l.offset), 1, l.offset) = SubSeq(g, 1, l.offset)
    BY <2>1, <1>1, SubSeqFull
  <2> QED
    BY <1>1, <1>2, <1>3, <2>1, <2>2 DEF g
<1>4. CASE ~Truncates(l)
  <2>1. Starts(g, g)
    BY <1>1, SubSeqFull DEF Starts
  <2> QED
    BY <1>1, <1>2, <1>4, <2>1 DEF g
<1> QED
  BY <1>3, <1>4

LEMMA SchemaStays ==
    ASSUME NEW g \in Seq(Record), HasSchema(g)
    PROVE  /\ \A n \in 1 .. Len(g) : HasSchema(SubSeq(g, 1, n))
           /\ \A r \in Record : HasSchema(Append(g, r))
<1>1. Len(g) \in Nat /\ 1 <= Len(g) /\ g[1] = Schema
  BY LenProperties, EmptySeq DEF HasSchema
<1>2. ASSUME NEW n \in 1 .. Len(g) PROVE HasSchema(SubSeq(g, 1, n))
  <2>1. Len(SubSeq(g, 1, n)) = n /\ SubSeq(g, 1, n) \in Seq(Record)
    BY <1>1, CutIs
  <2>2. SubSeq(g, 1, n)[1] = g[1]
    BY <1>1, CutIs
  <2>3. SubSeq(g, 1, n) # <<>>
    BY <1>1, <2>1
  <2> QED
    BY <1>1, <2>2, <2>3 DEF HasSchema
<1>3. ASSUME NEW r \in Record PROVE HasSchema(Append(g, r))
  <2>1. Append(g, r) # <<>> /\ Append(g, r)[1] = g[1]
    BY <1>1, AppendProperties
  <2> QED
    BY <1>1, <2>1 DEF HasSchema
<1> QED
  BY <1>2, <1>3

\* A record was written, after what the log keeps of its file.
Wrote(l, r, l2) ==
    /\ Put(l.inode, Append(Base(l), r), inodes[l.inode].disk)
    /\ Append(Base(l), r) \in Seq(Record) /\ Len(Append(Base(l), r)) = Len(Base(l)) + 1
    /\ l2 \in Log /\ l2.inode = l.inode /\ l2.offset = l.offset + 1 /\ ~Truncates(l2)

LEMMA WriteWrote ==
    ASSUME inodes \in Seq(File), NEW l \in Log, l.inode \in DOMAIN inodes,
           l.offset \in 0 .. Len(inodes[l.inode].data),
           NEW r \in Record, NEW l2, log_write(l, r, l2)
    PROVE  Wrote(l, r, l2)
<1>1. Base(l) \in Seq(Record)
  BY BaseIs
<1>2. Append(Base(l), r) \in Seq(Record) /\ Len(Append(Base(l), r)) = Len(Base(l)) + 1
  BY <1>1, AppendProperties
<1>3. Put(l.inode, Append(Base(l), r), inodes[l.inode].disk)
  BY <1>2, SetDataPuts, Zenon DEF log_write
<1>4. l2 = [l EXCEPT !.mode = "WRITE", !.write_error = FALSE, !.offset = l.offset + 1]
  BY DEF log_write
<1>6. l2 \in Log /\ l2.inode = l.inode /\ l2.offset = l.offset + 1 /\ ~Truncates(l2)
  <2>2. DOMAIN l = {"inode", "offset", "mode", "write_error"} /\ DOMAIN l2 = DOMAIN l
    BY <1>4 DEF Log
  <2>3. l2.inode = l.inode /\ l2.offset = l.offset + 1 /\ l2.mode = "WRITE"
    BY <1>4, <2>2
  <2>4. l2.write_error = FALSE
    BY <1>4, <2>2, Zenon
  <2>5. l2 = [inode |-> l2.inode, offset |-> l2.offset, mode |-> l2.mode, write_error |-> l2.write_error]
    BY <1>4, Zenon DEF Log
  <2>6. l2.write_error \in BOOLEAN
    BY <2>4, Zenon
  <2>7. l2.inode \in Nat /\ l2.offset \in Nat
    BY <2>3 DEF Log
  <2>8. l2 \in Log
    BY <2>3, <2>5, <2>6, <2>7 DEF Log
  <2>9. ~Truncates(l2)
    BY <2>3, <2>4 DEF Truncates
  <2> QED
    BY <2>3, <2>8, <2>9
<1> QED
  BY <1>2, <1>3, <1>6 DEF Wrote

\* A write failed and left d in the file.
Missed(l, l2, d) ==
    /\ Put(l.inode, d, inodes[l.inode].disk)
    /\ d \in Seq(Record) /\ Len(d) \in Nat /\ l.offset <= Len(d)
    /\ d \in {inodes[l.inode].data, SubSeq(Base(l), 1, l.offset), Append(Base(l), Torn)}
    /\ l2 \in Log /\ l2.inode = l.inode /\ l2.offset = l.offset /\ Truncates(l2)

LEMMA WriteMissed ==
    ASSUME inodes \in Seq(File), NEW l \in Log, l.inode \in DOMAIN inodes,
           l.offset \in 0 .. Len(inodes[l.inode].data),
           NEW l2, log_write_fails(l, l2)
    PROVE  \E d : Missed(l, l2, d)
<1> DEFINE g == inodes[l.inode].data
           i == l.inode
<1>1. g \in Seq(Record) /\ Len(g) \in Nat /\ l.offset \in Nat
  BY FileAt, LenProperties
<1>2. Base(l) \in Seq(Record) /\ Len(Base(l)) \in Nat /\ l.offset <= Len(Base(l))
  BY BaseIs
<1>3. l2 \in Log /\ l2.inode = l.inode /\ l2.offset = l.offset /\ Truncates(l2)
  <2>1. l2 = [l EXCEPT !.mode = "WRITE", !.write_error = TRUE]
    BY DEF log_write_fails
  <2>2. DOMAIN l = {"inode", "offset", "mode", "write_error"} /\ DOMAIN l2 = DOMAIN l
    BY <2>1 DEF Log
  <2>3. l2.inode = l.inode /\ l2.offset = l.offset /\ l2.mode = "WRITE"
    BY <2>1, <2>2
  <2>4. l2.write_error = TRUE
    BY <2>1, <2>2, Zenon
  <2>5. l2 = [inode |-> l2.inode, offset |-> l2.offset, mode |-> l2.mode, write_error |-> l2.write_error]
    BY <2>1, Zenon DEF Log
  <2>6. l2.write_error \in BOOLEAN
    BY <2>4, Zenon
  <2>7. l2.inode \in Nat /\ l2.offset \in Nat
    BY <2>3 DEF Log
  <2>8. l2 \in Log
    BY <2>3, <2>5, <2>6, <2>7 DEF Log
  <2>9. Truncates(l2)
    BY <2>3, <2>4 DEF Truncates
  <2> QED
    BY <2>3, <2>8, <2>9
<1>4. CASE UNCHANGED inodes
  <2>1. Put(i, g, inodes[i].disk)
    BY <1>4 DEF Put
  <2>2. Missed(l, l2, g)
    BY <1>1, <1>3, <2>1 DEF Missed
  <2> QED
    BY <2>2
<1>5. CASE SetData(i, SubSeq(Base(l), 1, l.offset))
  <2>1. l.offset \in 0 .. Len(Base(l))
    BY <1>1, <1>2
  <2>2. SubSeq(Base(l), 1, l.offset) \in Seq(Record) /\ Len(SubSeq(Base(l), 1, l.offset)) = l.offset
    BY <1>2, <2>1, CutIs
  <2>3. Put(i, SubSeq(Base(l), 1, l.offset), inodes[i].disk)
    BY <1>5, <2>2, SetDataPuts, Zenon
  <2>4. Missed(l, l2, SubSeq(Base(l), 1, l.offset))
    BY <1>1, <1>3, <2>2, <2>3 DEF Missed
  <2> QED
    BY <2>4
<1>6. CASE SetData(i, Append(Base(l), Torn))
  <2>1. Append(Base(l), Torn) \in Seq(Record) /\ Len(Append(Base(l), Torn)) = Len(Base(l)) + 1
    BY <1>2, RecordsAre, AppendProperties
  <2>2. Put(i, Append(Base(l), Torn), inodes[i].disk)
    BY <1>6, <2>1, SetDataPuts, Zenon
  <2>3. Missed(l, l2, Append(Base(l), Torn))
    BY <1>1, <1>2, <1>3, <2>1, <2>2 DEF Missed
  <2> QED
    BY <2>3
<1> QED
  BY <1>4, <1>5, <1>6 DEF log_write_fails

\* Neither kind of write takes the schema away.
LEMMA SchemaKept ==
    ASSUME inodes \in Seq(File), NEW l \in Log, l.inode \in DOMAIN inodes,
           l.offset \in 1 .. Len(inodes[l.inode].data), HasSchema(inodes[l.inode].data)
    PROVE  /\ \A r \in Record : HasSchema(Append(Base(l), r))
           /\ \A l2, d : Missed(l, l2, d) => HasSchema(d)
<1> DEFINE g == inodes[l.inode].data
<1>1. g \in Seq(Record) /\ Len(g) \in Nat /\ l.offset \in 1 .. Len(g) /\ l.offset \in 0 .. Len(g)
  BY FileAt, LenProperties
<1>2. Base(l) \in Seq(Record) /\ Len(Base(l)) \in Nat /\ l.offset <= Len(Base(l))
  BY <1>1, BaseIs
<1>3. HasSchema(Base(l))
  <2>1. HasSchema(SubSeq(g, 1, l.offset))
    BY <1>1, SchemaStays
  <2> QED
    BY <2>1 DEF Base
<1>4. ASSUME NEW l2, NEW d, Missed(l, l2, d) PROVE HasSchema(d)
  <2>1. l.offset \in 1 .. Len(Base(l))
    BY <1>1, <1>2
  <2>2. HasSchema(SubSeq(Base(l), 1, l.offset)) /\ HasSchema(Append(Base(l), Torn))
    BY <1>2, <1>3, <2>1, SchemaStays, RecordsAre
  <2> QED
    BY <1>4, <2>2, Zenon DEF Missed
<1> QED
  BY <1>2, <1>3, <1>4, SchemaStays

LEMMA PutKeeps ==
    ASSUME inodes \in Seq(File), NEW i \in DOMAIN inodes, NEW d, NEW k, Put(i, d, k),
           NEW j \in DOMAIN inodes, Whole(inodes[j]), i = j => HasSchema(d) /\ HasSchema(k)
    PROVE  j \in DOMAIN inodes' /\ Whole(inodes'[j])
BY DEF Put, Whole

LEMMA ImagesWhole ==
    ASSUME NEW f \in File, Whole(f), NEW g \in Images(f)
    PROVE  g \in Seq(Record) /\ HasSchema(g)
<1>1. f.data \in Seq(Record) /\ f.disk \in Seq(Record) /\ HasSchema(f.data) /\ HasSchema(f.disk)
  BY DEF File, Whole
<1> DEFINE s == f.data
           k == f.disk
<1>2. Len(s) \in Nat /\ 1 <= Len(s) /\ Len(k) \in Nat /\ 1 <= Len(k)
  BY <1>1, LenProperties, EmptySeq DEF HasSchema
<1>3. Common(f, 1)
  <2>1. \A i \in 1 .. 1 : s[i] = k[i]
    BY <1>1 DEF HasSchema
  <2>2. SubSeq(s, 1, 1) = SubSeq(k, 1, 1)
    BY <1>1, <1>2, <2>1, SameCut
  <2> QED
    BY <1>2, <2>2 DEF Common
<1>4. \A n \in Cuts(f) : n \in 1 .. Len(s)
  BY <1>2, <1>3 DEF Cuts
<1>5. ASSUME NEW n \in Cuts(f)
      PROVE  /\ SubSeq(s, 1, n) \in Seq(Record) /\ HasSchema(SubSeq(s, 1, n))
             /\ Append(SubSeq(s, 1, n), Torn) \in Seq(Record) /\ HasSchema(Append(SubSeq(s, 1, n), Torn))
  <2>1. n \in 1 .. Len(s) /\ n \in 0 .. Len(s)
    BY <1>2, <1>4
  <2>2. SubSeq(s, 1, n) \in Seq(Record) /\ HasSchema(SubSeq(s, 1, n))
    BY <1>1, <2>1, CutIs, SchemaStays
  <2> QED
    BY <2>2, RecordsAre, AppendProperties, SchemaStays, Zenon
<1> QED
  BY <1>1, <1>5, Zenon DEF Images

-------------------------------------------------------------------------------
(* FileInv is inductive.                                                      *)

LEMMA FileInit == Init => FileInv
<1> SUFFICES ASSUME Init PROVE FileInv
  OBVIOUS
<1> USE DEF Init, NoInode, OpenLog
<1>1. Schema \in Record
  BY RecordsAre
<1>2. <<Schema>> \in Seq(Record) /\ HasSchema(<<Schema>>) /\ Len(<<Schema>>) = 1
  BY <1>1 DEF HasSchema
<1>3. [data |-> <<Schema>>, disk |-> <<Schema>>] \in File
  BY <1>2 DEF File
<1>4. /\ inodes \in Seq(File) /\ Len(inodes) = 1 /\ DOMAIN inodes = {1}
      /\ inodes[1].data = <<Schema>> /\ inodes[1].disk = <<Schema>>
  BY <1>3
<1>5. log \in Log /\ log.inode = 1 /\ log.offset = 1
  BY Zenon DEF Log
<1>6. new_log \in Log /\ new_log.inode = 0
  BY DEF Log
<1>7. Types
  BY <1>4, <1>5, <1>6, OvsdbFileAssumption DEF Types, PCs, Directory
<1>8. Databases /\ OldLog
  BY <1>2, <1>4, <1>5 DEF Databases, OldLog, Whole
<1>9. Transacting /\ NewLog
  BY <1>4, <1>6 DEF Transacting, NewLog, Copying, Renamed
<1> QED
  BY <1>7, <1>8, <1>9 DEF FileInv

\* Steps that leave the files and the logs alone.
LEMMA FileFrame ==
    ASSUME FileInv, UNCHANGED <<files, log, new_log>>, pc # "down",
           pc' \notin Copying \union Renamed
    PROVE  Databases' /\ OldLog' /\ NewLog'
<1>1. Databases' /\ OldLog'
  BY DEF FileInv, Databases, OldLog, Whole, files
<1>2. NewLog'
  BY DEF FileInv, NewLog, files, Copying, Renamed
<1> QED
  BY <1>1, <1>2

LEMMA QuietStep ==
    ASSUME FileInv,
           \/ \E t \in Txn, durable \in BOOLEAN : Commit(t, durable)
           \/ Written \/ Answer \/ CompactCommand \/ LockTmp
    PROVE  FileInv'
<1>1. Types /\ Transacting
  BY DEF FileInv
<1>2. ASSUME NEW t \in Txn, NEW durable \in BOOLEAN, Commit(t, durable) PROVE FileInv'
  <2>1. Databases' /\ OldLog' /\ NewLog'
    BY <1>2, FileFrame DEF Commit, Copying, Renamed
  <2>2. db' \in Seq(Txn) /\ db' # <<>>
    BY <1>1, <1>2, AppendProperties DEF Commit, Types
  <2>3. Types'
    BY <1>1, <1>2, <2>2 DEF Commit, Types, PCs, files, ghosts
  <2>4. Transacting'
    BY <1>2, <2>2 DEF Commit, Transacting
  <2> QED
    BY <2>1, <2>3, <2>4 DEF FileInv
<1>3. CASE Written
  <2>1. Databases' /\ OldLog' /\ NewLog'
    BY <1>3, FileFrame DEF Written, Copying, Renamed
  <2>2. Types' /\ Transacting'
    BY <1>1, <1>3 DEF Written, Types, PCs, Compacting, files, ghosts, Transacting
  <2> QED
    BY <2>1, <2>2 DEF FileInv
<1>4. CASE Answer
  <2>1. Databases' /\ OldLog' /\ NewLog'
    BY <1>4, FileFrame DEF Answer, Copying, Renamed
  <2>2. Len(db) \in Nat
    BY <1>1, LenProperties DEF Types
  <2>3. Types' /\ Transacting'
    BY <1>1, <1>4, <2>2 DEF Answer, Types, PCs, files, Transacting
  <2> QED
    BY <2>1, <2>3 DEF FileInv
<1>5. CASE CompactCommand
  <2>1. Databases' /\ OldLog' /\ NewLog'
    BY <1>5, FileFrame DEF CompactCommand, Copying, Renamed
  <2>2. Types' /\ Transacting'
    BY <1>1, <1>5 DEF CompactCommand, Types, PCs, Compacting, files, ghosts, Transacting
  <2> QED
    BY <2>1, <2>2 DEF FileInv
<1>6. CASE LockTmp
  <2>1. Databases' /\ OldLog' /\ NewLog'
    BY <1>6, FileFrame DEF LockTmp, Compacted, Copying, Renamed
  <2>2. Types' /\ Transacting'
    BY <1>1, <1>6 DEF LockTmp, Compacted, Types, PCs, Compacting, files, ghosts, Transacting
  <2> QED
    BY <2>1, <2>2 DEF FileInv
<1> QED
  BY <1>2, <1>3, <1>4, <1>5, <1>6

\* Steps that write to the log, or sync it.
LEMMA LogFrame ==
    ASSUME FileInv, NEW d, NEW k, Put(log.inode, d, k), HasSchema(d), HasSchema(k),
           log'.inode = log.inode, log'.offset \in 1 .. Len(d),
           UNCHANGED <<dir, ddir, new_log>>, pc' \notin Copying \union Renamed
    PROVE  Databases' /\ OldLog' /\ NewLog' /\ inodes' \in Seq(File)
<1>1. Types /\ Databases /\ OldLog /\ NewLog
  BY DEF FileInv
<1>2. inodes' \in Seq(File) /\ DOMAIN inodes' = DOMAIN inodes /\ Len(inodes') = Len(inodes)
  BY DEF Put
<1>3. Whole(inodes'[log.inode]) /\ inodes'[log.inode].data = d
  BY DEF Put, Whole
<1>4. Databases'
  <2> SUFFICES ASSUME NEW e \in {dir, ddir} PROVE e.db \in DOMAIN inodes' /\ Whole(inodes'[e.db])
    BY DEF Databases
  <2>1. e.db \in DOMAIN inodes /\ Whole(inodes[e.db]) /\ log.inode \in DOMAIN inodes
    BY <1>1 DEF Databases, OldLog
  <2>2. CASE e.db = log.inode
    BY <1>2, <1>3, <2>1, <2>2
  <2>3. CASE e.db # log.inode
    BY <1>2, <2>1, <2>3 DEF Put, Whole
  <2> QED
    BY <2>2, <2>3
<1>5. OldLog'
  BY <1>1, <1>2, <1>3 DEF OldLog
<1>6. NewLog'
  BY <1>1, <1>2 DEF NewLog, Copying, Renamed
<1> QED
  BY <1>2, <1>4, <1>5, <1>6

LEMMA LogFacts ==
    ASSUME FileInv, pc # "down"
    PROVE  /\ inodes \in Seq(File) /\ log \in Log /\ log.inode \in DOMAIN inodes
           /\ log.offset \in 1 .. Len(inodes[log.inode].data)
           /\ log.offset \in 0 .. Len(inodes[log.inode].data)
           /\ Len(inodes[log.inode].data) \in Nat /\ log.offset \in Nat
           /\ HasSchema(inodes[log.inode].data) /\ HasSchema(inodes[log.inode].disk)
<1>1. /\ inodes \in Seq(File) /\ log \in Log /\ log.inode \in DOMAIN inodes
      /\ log.offset \in 1 .. Len(inodes[log.inode].data)
      /\ HasSchema(inodes[log.inode].data) /\ HasSchema(inodes[log.inode].disk)
  BY DEF FileInv, Types, OldLog, Whole
<1>2. Len(inodes[log.inode].data) \in Nat
  BY <1>1, FileAt, LenProperties
<1> QED
  BY <1>1, <1>2

LEMMA AbortIs ==
    ASSUME FileInv, Abort, pc \in {"write", "sync"}
    PROVE  db' \in Seq(Txn) /\ txn' = "none" /\ pc' = "idle"
<1>1. db \in Seq(Txn) /\ db # <<>>
  BY DEF FileInv, Types, Transacting
<1>2. Len(db) \in Nat /\ Len(db) # 0
  BY <1>1, LenProperties, EmptySeq
<1>3. Len(db) - 1 \in 0 .. Len(db) /\ db' = SubSeq(db, 1, Len(db) - 1)
  BY <1>2 DEF Abort
<1> QED
  BY <1>1, <1>3, CutIs DEF Abort

LEMMA LastIs ==
    ASSUME FileInv, pc \in {"write", "sync"}
    PROVE  db[Len(db)] \in Txn /\ Data(<<db[Len(db)]>>) \in Record
<1>1. db \in Seq(Txn) /\ db # <<>>
  BY DEF FileInv, Types, Transacting
<1>2. Len(db) \in Nat /\ Len(db) # 0
  BY <1>1, LenProperties, EmptySeq
<1>3. Len(db) \in 1 .. Len(db)
  BY <1>2
<1>4. db[Len(db)] \in Txn
  BY <1>1, <1>3, ElementOfSeq
<1>5. <<db[Len(db)]>> \in Seq(Txn)
  BY <1>4
<1> QED
  BY <1>4, <1>5 DEF Data, Record

LEMMA WriteStep ==
    ASSUME FileInv, Write
    PROVE  FileInv'
<1>1. Types /\ Transacting /\ pc = "write" /\ txn # "none"
  BY DEF FileInv, Write, Transacting
<1>2. UNCHANGED <<new_log, locked, dir, ddir, acked, promised, sound>>
  BY DEF Write, ghosts
<1> DEFINE g == inodes[log.inode].data
           r == Data(<<db[Len(db)]>>)
<1>3. CASE /\ log_write(log, r, log')
           /\ pc' = IF txn = "durable" THEN "sync" ELSE "written"
           /\ UNCHANGED <<db, txn>>
  <2>1. r \in Record
    BY <1>1, LastIs
  <2>2. Wrote(log, r, log')
    BY <1>1, <1>3, <2>1, LogFacts, WriteWrote
  <2>3. HasSchema(Append(Base(log), r))
    BY <1>1, <2>1, LogFacts, SchemaKept
  <2>4. log.offset <= Len(Base(log)) /\ Len(Base(log)) \in Nat
    BY <1>1, LogFacts, BaseIs
  <2>5. log'.offset \in 1 .. Len(Append(Base(log), r))
    BY <1>1, <2>2, <2>4, LogFacts DEF Wrote
  <2>6. Databases' /\ OldLog' /\ NewLog' /\ inodes' \in Seq(File)
    <3>1. pc' \notin Copying \union Renamed
      BY <1>3 DEF Copying, Renamed
    <3>2. Put(log.inode, Append(Base(log), r), inodes[log.inode].disk) /\ log'.inode = log.inode
      BY <2>2 DEF Wrote
    <3> QED
      BY <1>1, <1>2, <2>3, <2>5, <3>1, <3>2, LogFacts, LogFrame, Zenon
  <2>7. Types'
    BY <1>1, <1>2, <1>3, <2>2, <2>6 DEF Types, PCs, Wrote
  <2>8. Transacting'
    BY <1>1, <1>3 DEF Transacting
  <2> QED
    BY <2>6, <2>7, <2>8 DEF FileInv
<1>4. CASE log_write_fails(log, log') /\ Abort
  <2>1. PICK d : Missed(log, log', d)
    BY <1>1, <1>4, LogFacts, WriteMissed
  <2>2. HasSchema(d)
    BY <1>1, <2>1, LogFacts, SchemaKept
  <2>3. log'.offset \in 1 .. Len(d)
    BY <1>1, <2>1, LogFacts DEF Missed
  <2>4. db' \in Seq(Txn) /\ txn' = "none" /\ pc' = "idle"
    BY <1>1, <1>4, AbortIs
  <2>5. Databases' /\ OldLog' /\ NewLog' /\ inodes' \in Seq(File)
    <3>1. pc' \notin Copying \union Renamed
      BY <2>4 DEF Copying, Renamed
    <3>2. Put(log.inode, d, inodes[log.inode].disk) /\ log'.inode = log.inode
      BY <2>1 DEF Missed
    <3> QED
      BY <1>1, <1>2, <2>2, <2>3, <3>1, <3>2, LogFacts, LogFrame
  <2>6. Types'
    BY <1>1, <1>2, <2>1, <2>4, <2>5 DEF Types, PCs, Missed
  <2>7. Transacting'
    BY <2>4 DEF Transacting
  <2> QED
    BY <2>5, <2>6, <2>7 DEF FileInv
<1> QED
  BY <1>3, <1>4 DEF Write

LEMMA SyncStep ==
    ASSUME FileInv, Sync \/ SyncOld
    PROVE  FileInv'
<1>1. Types /\ Transacting /\ pc \in {"sync", "sync_old"}
  BY DEF FileInv, Sync, SyncOld
<1>2. UNCHANGED <<log, new_log, locked, dir, ddir, acked, promised>>
  BY DEF Sync, SyncOld
<1>3. /\ db' \in Seq(Txn) /\ sound' \in BOOLEAN /\ txn' \in {"none", "plain", "durable"}
      /\ pc' \in {"idle", "written", "answer", "lock_tmp"}
  <2>1. CASE Sync
    BY <1>1, <2>1, AbortIs, Zenon DEF Sync, Types
  <2>2. CASE SyncOld
    BY <1>1, <2>2, Zenon DEF SyncOld, Compacted, Types
  <2> QED
    BY <2>1, <2>2
<1>4. Transacting'
  <2>1. CASE Sync
    BY <1>1, <2>1, AbortIs DEF Sync, Transacting
  <2>2. CASE SyncOld
    BY <1>1, <2>2 DEF SyncOld, Compacted, Transacting
  <2> QED
    BY <2>1, <2>2
<1>5. \E k : Put(log.inode, inodes[log.inode].data, k) /\ HasSchema(k)
  <2>1. CASE log_commit(log)
    <3>1. Put(log.inode, inodes[log.inode].data, inodes[log.inode].data)
      BY <1>1, <2>1, LogFacts, CommitPuts
    <3> QED
      BY <1>1, <3>1, LogFacts
  <2>2. CASE UNCHANGED inodes
    <3>1. Put(log.inode, inodes[log.inode].data, inodes[log.inode].disk)
      BY <1>1, <2>2 DEF Put, Types
    <3> QED
      BY <1>1, <3>1, LogFacts
  <2> QED
    BY <2>1, <2>2 DEF Sync, SyncOld, log_commit_fails
<1>6. Databases' /\ OldLog' /\ NewLog' /\ inodes' \in Seq(File)
  <2>1. PICK k : Put(log.inode, inodes[log.inode].data, k) /\ HasSchema(k)
    BY <1>5
  <2>2. pc' \notin Copying \union Renamed
    BY <1>3 DEF Copying, Renamed
  <2> QED
    BY <1>1, <1>2, <2>1, <2>2, LogFacts, LogFrame
<1>7. Types'
  BY <1>1, <1>2, <1>3, <1>6 DEF Types, PCs, Compacting
<1> QED
  BY <1>4, <1>6, <1>7 DEF FileInv

\* Steps that leave the files and the log alone, and change only directories.
LEMMA DirectoryStep ==
    ASSUME FileInv, UnlinkTmp \/ Undo
    PROVE  FileInv'
<1>1. Types /\ Transacting /\ Databases /\ OldLog /\ NewLog /\ pc \in {"unlink_tmp", "undo"}
  BY DEF FileInv, UnlinkTmp, Undo
<1>2. UNCHANGED <<db, txn, log, locked, inodes, ddir, acked, promised, sound>>
  BY DEF UnlinkTmp, Undo, ghosts
<1>3. dir' \in Directory /\ dir'.db = dir.db
  <2>1. [dir EXCEPT !.tmp = NoInode] \in Directory /\ [dir EXCEPT !.tmp = NoInode].db = dir.db
    BY <1>1, Zenon DEF Types, Directory, NoInode
  <2> QED
    BY <1>1, <2>1, Zenon DEF UnlinkTmp, Undo, Types
<1>4. new_log' \in Log /\ new_log'.inode \in 0 .. Len(inodes)
  <2>1. OpenLog(NoInode) \in Log /\ OpenLog(NoInode).inode = 0
    BY DEF OpenLog, Log, NoInode
  <2>2. Len(inodes) \in Nat
    BY <1>1, LenProperties DEF Types
  <2> QED
    BY <1>1, <2>1, <2>2 DEF UnlinkTmp, Undo, Types, NewLog
<1>5. pc' \in {"create", "undo", "idle", "answer"} /\ (pc' = "idle" => txn = "none")
  BY DEF UnlinkTmp, Undo, Compacted
<1>6. Types' /\ Transacting'
  BY <1>1, <1>2, <1>3, <1>4, <1>5 DEF Types, Transacting, PCs, Compacting
<1>7. Databases' /\ OldLog'
  BY <1>1, <1>2, <1>3 DEF Databases, OldLog, Whole
<1>8. NewLog'
  BY <1>2, <1>4, <1>5 DEF NewLog, Copying, Renamed
<1> QED
  BY <1>6, <1>7, <1>8 DEF FileInv

LEMMA CreateStep ==
    ASSUME FileInv, Create
    PROVE  FileInv'
<1>1. Types /\ Transacting /\ Databases /\ OldLog /\ NewLog /\ pc = "create"
  BY DEF FileInv, Create
<1>2. UNCHANGED <<db, txn, log, locked, acked, promised, sound>>
  BY DEF Create, ghosts
<1>3. CASE pc' = "undo" /\ UNCHANGED <<inodes, dir, ddir, new_log>>
  <2>1. Databases' /\ OldLog' /\ NewLog'
    BY <1>1, <1>2, <1>3, FileFrame DEF files, Copying, Renamed
  <2>2. Types' /\ Transacting'
    BY <1>1, <1>2, <1>3 DEF Types, Transacting, PCs, Compacting
  <2> QED
    BY <2>1, <2>2 DEF FileInv
<1>4. CASE /\ inodes' = Append(inodes, [data |-> <<>>, disk |-> <<>>])
           /\ dir' = [dir EXCEPT !.tmp = Len(inodes')]
           /\ ddir' \in {ddir, dir'}
           /\ new_log' = OpenLog(dir'.tmp)
           /\ pc' = "write_schema"
  <2> DEFINE n == Len(inodes) + 1
  <2>1. Len(inodes) \in Nat /\ DOMAIN inodes = 1 .. Len(inodes)
    BY <1>1, LenProperties DEF Types
  <2>2. [data |-> <<>>, disk |-> <<>>] \in File
    BY DEF File
  <2>3. /\ inodes' \in Seq(File) /\ Len(inodes') = n /\ DOMAIN inodes' = 1 .. n
        /\ \A i \in DOMAIN inodes : inodes'[i] = inodes[i]
        /\ inodes'[n].data = <<>>
    <3>1. inodes' \in Seq(File) /\ Len(inodes') = n /\ inodes'[n] = [data |-> <<>>, disk |-> <<>>]
      BY <1>1, <1>4, <2>2, AppendProperties DEF Types
    <3>2. \A i \in 1 .. Len(inodes) : inodes'[i] = inodes[i]
      BY <1>1, <1>4, <2>2, AppendProperties DEF Types
    <3> QED
      BY <2>1, <3>1, <3>2, LenProperties
  <2>4. dir' \in Directory /\ dir'.db = dir.db /\ dir'.tmp = n /\ ddir' \in Directory
        /\ ddir'.db \in {dir.db, ddir.db}
    BY <1>1, <1>4, <2>1, <2>3 DEF Types, Directory
  <2>5. new_log' \in Log /\ new_log'.inode = n /\ new_log'.offset = 0 /\ Truncates(new_log')
    BY <1>4, <2>1, <2>4 DEF OpenLog, Log, Truncates
  <2>6. Types' /\ Transacting'
    BY <1>1, <1>2, <1>4, <2>3, <2>4, <2>5 DEF Types, Transacting, PCs, Compacting
  <2>7. Databases'
    <3>1. /\ dir.db \in DOMAIN inodes /\ Whole(inodes[dir.db])
          /\ ddir.db \in DOMAIN inodes /\ Whole(inodes[ddir.db])
      BY <1>1 DEF Databases
    <3>2. \A i \in DOMAIN inodes : i \in DOMAIN inodes'
      BY <2>1, <2>3
    <3> QED
      BY <2>3, <2>4, <3>1, <3>2 DEF Databases, Whole
  <2>8. OldLog'
    <3>1. \A i \in DOMAIN inodes : i \in DOMAIN inodes'
      BY <2>1, <2>3
    <3> QED
      BY <1>1, <1>2, <2>3, <3>1 DEF OldLog, Whole
  <2>9. NewLog'
    <3>1. n \in 0 .. Len(inodes') /\ n \in DOMAIN inodes'
      BY <2>1, <2>3
    <3>2. n \notin DOMAIN inodes
      BY <2>1
    <3>3. {dir'.db, ddir'.db, log'.inode} \subseteq DOMAIN inodes
      BY <1>1, <1>2, <2>4 DEF Databases, OldLog
    <3> HIDE DEF n
    <3>4. n \in DOMAIN inodes' \ {dir'.db, ddir'.db, log'.inode}
      BY <3>1, <3>2, <3>3
    <3> QED
      BY <1>4, <2>4, <2>5, <3>1, <3>4 DEF NewLog, Copying, Renamed
  <2> QED
    BY <2>6, <2>7, <2>8, <2>9 DEF FileInv
<1> QED
  BY <1>3, <1>4 DEF Create

\* Steps that write to the copy, or sync it.
LEMMA CopyFrame ==
    ASSUME FileInv, pc \in Copying, NEW d, NEW k, Put(new_log.inode, d, k),
           UNCHANGED <<dir, ddir, log>>, pc' # "down"
    PROVE  /\ Databases' /\ OldLog' /\ inodes' \in Seq(File)
           /\ new_log.inode \in 0 .. Len(inodes')
           /\ new_log.inode \in DOMAIN inodes' \ {dir'.db, ddir'.db, log'.inode}
           /\ dir'.tmp = new_log.inode
<1>1. Types /\ Databases /\ OldLog /\ NewLog /\ pc # "down"
  BY DEF FileInv, Copying
<1>2. inodes' \in Seq(File) /\ DOMAIN inodes' = DOMAIN inodes /\ Len(inodes') = Len(inodes)
  BY DEF Put
<1>3. new_log.inode \in DOMAIN inodes \ {dir.db, ddir.db, log.inode} /\ dir.tmp = new_log.inode
  BY <1>1 DEF NewLog
<1>4. \A j \in {dir.db, ddir.db, log.inode} : j \in DOMAIN inodes /\ inodes'[j] = inodes[j]
  BY <1>1, <1>3 DEF Put, Databases, OldLog
<1>5. Databases'
  BY <1>1, <1>2, <1>4 DEF Databases, Whole
<1>6. OldLog'
  BY <1>1, <1>2, <1>4 DEF OldLog, Whole
<1> QED
  BY <1>1, <1>2, <1>3, <1>5, <1>6 DEF NewLog

LEMMA CopyFacts ==
    ASSUME FileInv, pc \in Copying
    PROVE  /\ inodes \in Seq(File) /\ new_log \in Log /\ new_log.inode \in DOMAIN inodes
           /\ new_log.offset \in 0 .. Len(inodes[new_log.inode].data)
           /\ inodes[new_log.inode].data \in Seq(Record)
           /\ inodes[new_log.inode].disk \in Seq(Record)
           /\ Len(inodes[new_log.inode].data) \in Nat /\ new_log.offset \in Nat
           /\ Data(db) \in Record
<1>1. inodes \in Seq(File) /\ new_log \in Log /\ new_log.inode \in DOMAIN inodes /\ db \in Seq(Txn)
  BY DEF FileInv, Types, NewLog
<1>2. /\ inodes[new_log.inode].data \in Seq(Record) /\ inodes[new_log.inode].disk \in Seq(Record)
      /\ Len(inodes[new_log.inode].data) \in Nat
  BY <1>1, FileAt, LenProperties
<1>3. new_log.offset = 0 \/ new_log.offset = Len(inodes[new_log.inode].data)
  BY DEF FileInv, NewLog, Copying
<1>4. Data(db) \in Record
  BY <1>1 DEF Data, Record
<1> QED
  BY <1>1, <1>2, <1>3, <1>4

\* A write to the copy that fails.
LEMMA CopyMissed ==
    ASSUME FileInv, pc \in Copying, log_write_fails(new_log, new_log'), pc' = "undo",
           UNCHANGED <<db, txn, log, locked, dir, ddir, ghosts>>
    PROVE  FileInv'
<1>1. Types /\ Transacting
  BY DEF FileInv
<1>2. PICK d : Missed(new_log, new_log', d)
  BY CopyFacts, WriteMissed
<1>3. Put(new_log.inode, d, inodes[new_log.inode].disk) /\ new_log' \in Log /\ new_log'.inode = new_log.inode
  BY <1>2 DEF Missed
<1>4. Databases' /\ OldLog' /\ inodes' \in Seq(File) /\ new_log.inode \in 0 .. Len(inodes')
  BY <1>3, CopyFrame
<1>5. Types' /\ Transacting'
  BY <1>1, <1>3, <1>4 DEF Types, Transacting, PCs, Compacting, ghosts
<1>6. NewLog'
  BY <1>3, <1>4 DEF NewLog, Copying, Renamed
<1> QED
  BY <1>4, <1>5, <1>6 DEF FileInv

\* The new log after a write that works.
LEMMA CopyWrote ==
    ASSUME FileInv, pc \in {"write_schema", "write_data"}, NEW r \in Record,
           log_write(new_log, r, new_log'),
           HasSchema(Append(Base(new_log), r)), Len(Base(new_log)) = new_log.offset,
           pc' \in {"write_data", "sync_new"},
           UNCHANGED <<db, txn, log, locked, dir, ddir, ghosts>>
    PROVE  FileInv'
<1>1. Types /\ Transacting /\ pc \in Copying
  BY DEF FileInv, Copying
<1>2. Wrote(new_log, r, new_log')
  BY <1>1, CopyFacts, WriteWrote
<1> DEFINE d == Append(Base(new_log), r)
<1>3. /\ Put(new_log.inode, d, inodes[new_log.inode].disk)
      /\ new_log' \in Log /\ new_log'.inode = new_log.inode /\ new_log'.offset = new_log.offset + 1
      /\ ~Truncates(new_log') /\ Len(d) = new_log.offset + 1
  BY <1>2 DEF Wrote
<1>4. inodes'[new_log.inode].data = d
  BY <1>3 DEF Put
<1>5. /\ Databases' /\ OldLog' /\ inodes' \in Seq(File) /\ new_log.inode \in 0 .. Len(inodes')
      /\ new_log.inode \in DOMAIN inodes' \ {dir'.db, ddir'.db, log'.inode}
      /\ dir'.tmp = new_log.inode
  BY <1>1, <1>3, CopyFrame
<1>6. Types' /\ Transacting'
  BY <1>1, <1>3, <1>5 DEF Types, Transacting, PCs, Compacting, ghosts
<1> HIDE DEF d
<1>7. HasSchema(d)
  BY DEF d
<1>8. NewLog'
  BY <1>3, <1>4, <1>5, <1>7 DEF NewLog, Copying, Renamed
<1> QED
  BY <1>5, <1>6, <1>8 DEF FileInv

LEMMA CopyStep ==
    ASSUME FileInv, WriteSchema \/ WriteData
    PROVE  FileInv'
<1> DEFINE g == inodes[new_log.inode].data
<1>1. CASE WriteSchema
  <2>1. pc = "write_schema" /\ pc \in Copying /\ WriteCopy(Schema, "write_data")
    BY <1>1 DEF WriteSchema, Copying
  <2>2. g \in Seq(Record) /\ Truncates(new_log) /\ new_log.offset = 0
    BY <2>1, CopyFacts DEF FileInv, NewLog
  <2>3. Base(new_log) = <<>>
    BY <2>2 DEF Base
  <2>4. HasSchema(Append(Base(new_log), Schema)) /\ Len(Base(new_log)) = new_log.offset
    BY <2>2, <2>3 DEF HasSchema
  <2> QED
    BY <2>1, <2>4, RecordsAre, CopyWrote, CopyMissed DEF WriteCopy
<1>2. CASE WriteData
  <2>1. pc = "write_data" /\ pc \in Copying /\ WriteCopy(Data(db), "sync_new")
    BY <1>2 DEF WriteData, Copying
  <2>2. g \in Seq(Record) /\ ~Truncates(new_log) /\ new_log.offset = Len(g) /\ HasSchema(g) /\ Data(db) \in Record
    BY <2>1, CopyFacts DEF FileInv, NewLog, Copying
  <2>3. Base(new_log) = g
    BY <2>2 DEF Base
  <2>4. HasSchema(Append(Base(new_log), Data(db))) /\ Len(Base(new_log)) = new_log.offset
    BY <2>2, <2>3, SchemaStays
  <2> QED
    BY <2>1, <2>2, <2>4, CopyWrote, CopyMissed DEF WriteCopy
<1> QED
  BY <1>1, <1>2

LEMMA SyncNewStep ==
    ASSUME FileInv, SyncNew
    PROVE  FileInv'
<1>1. Types /\ Transacting /\ pc = "sync_new" /\ pc \in Copying /\ NewLog
  BY DEF FileInv, SyncNew, Copying
<1>2. UNCHANGED <<db, txn, log, new_log, locked, dir, ddir, acked, promised, sound>>
  BY DEF SyncNew, ghosts
<1> DEFINE i == new_log.inode
           g == inodes[i].data
<1>3. CASE log_commit(new_log) /\ pc' = "rename"
  <2>1. Put(i, g, g)
    BY <1>1, <1>3, CopyFacts, CommitPuts
  <2>2. /\ Databases' /\ OldLog' /\ inodes' \in Seq(File) /\ i \in 0 .. Len(inodes')
        /\ i \in DOMAIN inodes' \ {dir'.db, ddir'.db, log'.inode} /\ dir'.tmp = i
    BY <1>1, <1>2, <1>3, <2>1, CopyFrame
  <2>3. Types' /\ Transacting'
    BY <1>1, <1>2, <1>3, <2>2 DEF Types, Transacting, PCs, Compacting
  <2>4. inodes'[i].data = g /\ inodes'[i].disk = g
    BY <2>1 DEF Put
  <2>5. ~Truncates(new_log) /\ new_log.offset = Len(g) /\ HasSchema(g)
    BY <1>1 DEF NewLog, Copying
  <2>6. NewLog'
    BY <1>2, <1>3, <2>2, <2>4, <2>5 DEF NewLog, Copying, Renamed, Whole, Truncates
  <2> QED
    BY <2>2, <2>3, <2>6 DEF FileInv
<1>4. CASE log_commit_fails(new_log) /\ pc' = "undo"
  <2>1. Databases' /\ OldLog' /\ NewLog'
    BY <1>1, <1>2, <1>4, FileFrame DEF files, log_commit_fails, Copying, Renamed
  <2>2. Types' /\ Transacting'
    BY <1>1, <1>2, <1>4 DEF Types, Transacting, PCs, Compacting, log_commit_fails
  <2> QED
    BY <2>1, <2>2 DEF FileInv
<1> QED
  BY <1>3, <1>4 DEF SyncNew

LEMMA RenameStep ==
    ASSUME FileInv, Rename
    PROVE  FileInv'
<1>1. /\ Types /\ Transacting /\ Databases /\ OldLog /\ NewLog
      /\ pc = "rename" /\ pc \in Copying
  BY DEF FileInv, Rename, Copying
<1>2. UNCHANGED <<db, txn, log, new_log, locked, inodes, ddir, acked, promised, sound>>
  BY DEF Rename, ghosts
<1>3. CASE dir' = [db |-> dir.tmp, tmp |-> NoInode] /\ pc' = "sync_dir"
  <2>1. /\ new_log.inode \in DOMAIN inodes /\ dir.tmp = new_log.inode /\ Whole(inodes[new_log.inode])
        /\ new_log.inode \in 0 .. Len(inodes)
    BY <1>1 DEF NewLog
  <2>2. dir' \in Directory /\ dir'.db = new_log.inode
    BY <1>1, <1>3, <2>1 DEF Types, Directory, NoInode
  <2>3. Types' /\ Transacting'
    BY <1>1, <1>2, <1>3, <2>2, Zenon DEF Types, Transacting, PCs, Compacting
  <2>4. Databases' /\ OldLog'
    BY <1>1, <1>2, <2>1, <2>2 DEF Databases, OldLog, Whole
  <2>5. NewLog'
    BY <1>1, <1>2, <1>3, <2>1, <2>2 DEF NewLog, Copying, Renamed, Truncates
  <2> QED
    BY <2>3, <2>4, <2>5 DEF FileInv
<1>4. CASE UNCHANGED dir /\ pc' = "undo"
  <2>1. Databases' /\ OldLog' /\ NewLog'
    BY <1>1, <1>2, <1>4, FileFrame DEF files, Copying, Renamed
  <2>2. Types' /\ Transacting'
    BY <1>1, <1>2, <1>4 DEF Types, Transacting, PCs, Compacting
  <2> QED
    BY <2>1, <2>2 DEF FileInv
<1> QED
  BY <1>3, <1>4 DEF Rename

LEMMA RenamedStep ==
    ASSUME FileInv, SyncDir \/ Swap
    PROVE  FileInv'
<1>1. /\ Types /\ Transacting /\ Databases /\ OldLog /\ NewLog
      /\ pc \in Renamed /\ new_log.inode = dir.db
  BY DEF FileInv, SyncDir, Swap, Renamed, NewLog
<1>2. UNCHANGED <<db, txn, inodes, dir, acked, promised>>
  BY DEF SyncDir, Swap, files, ghosts
<1>3. CASE SyncDir
  <2>1. /\ pc' = "swap" /\ UNCHANGED <<log, new_log, locked>> /\ ddir' \in {ddir, dir}
        /\ sound' \in BOOLEAN
    BY <1>1, <1>3, Zenon DEF SyncDir, Types
  <2>2. Types' /\ Transacting'
    BY <1>1, <1>2, <2>1 DEF Types, Transacting, PCs, Compacting
  <2>3. Databases' /\ OldLog'
    <3>1. pc # "down"
      BY <1>1 DEF Renamed
    <3> QED
      BY <1>1, <1>2, <2>1, <3>1 DEF Databases, OldLog, Whole
  <2>4. NewLog'
    BY <1>1, <1>2, <2>1 DEF NewLog, Copying, Renamed, Truncates
  <2> QED
    BY <2>2, <2>3, <2>4 DEF FileInv
<1>4. CASE Swap
  <2>1. /\ log' = new_log /\ new_log' = OpenLog(NoInode) /\ locked' = FALSE
        /\ UNCHANGED <<ddir, sound>> /\ pc' \in {"idle", "answer"} /\ (pc' = "idle" => txn = "none")
    BY <1>4 DEF Swap, Compacted, files, ghosts
  <2>2. new_log' \in Log /\ new_log'.inode = 0
    BY <2>1 DEF OpenLog, Log, NoInode
  <2>3. Types' /\ Transacting'
    BY <1>1, <1>2, <2>1, <2>2, Zenon DEF Types, Transacting, PCs, Compacting
  <2>4. Databases'
    BY <1>1, <1>2, <2>1 DEF Databases, Whole
  <2>5. OldLog'
    <3>1. /\ new_log.inode \in DOMAIN inodes /\ Whole(inodes[new_log.inode])
          /\ new_log.offset = Len(inodes[new_log.inode].data)
      BY <1>1 DEF Databases, NewLog
    <3>2. Len(inodes[new_log.inode].data) \in Nat /\ Len(inodes[new_log.inode].data) # 0
      <4>1. inodes[new_log.inode].data \in Seq(Record)
        BY <1>1, <3>1, FileAt DEF Types
      <4>2. inodes[new_log.inode].data # <<>>
        BY <3>1 DEF Whole, HasSchema
      <4> QED
        BY <4>1, <4>2, LenProperties, EmptySeq
    <3> QED
      BY <1>2, <2>1, <3>1, <3>2 DEF OldLog, Whole
  <2>6. NewLog'
    <3>1. Len(inodes) \in Nat
      BY <1>1, LenProperties DEF Types
    <3> QED
      BY <1>2, <2>1, <2>2, <3>1 DEF NewLog, Copying, Renamed
  <2> QED
    BY <2>3, <2>4, <2>5, <2>6 DEF FileInv
<1> QED
  BY <1>3, <1>4

\* What a process that dies leaves of its own state.
LEMMA DownIs ==
    ASSUME FileInv, Down, sound' \in BOOLEAN, inodes' \in Seq(File), Len(inodes') = Len(inodes),
           DOMAIN inodes' = DOMAIN inodes, dir' \in Directory, ddir' \in Directory
    PROVE  Types' /\ Transacting' /\ OldLog' /\ NewLog'
<1>1. Types /\ OldLog
  BY DEF FileInv
<1>2. /\ pc' = "down" /\ txn' = "none" /\ locked' = FALSE /\ new_log' = OpenLog(NoInode)
      /\ UNCHANGED <<db, log, acked, promised>>
  BY DEF Down
<1>3. new_log' \in Log /\ new_log'.inode = 0
  BY <1>2 DEF OpenLog, Log, NoInode
<1>4. Types' /\ Transacting'
  BY <1>1, <1>2, <1>3, Zenon DEF Types, Transacting, PCs
<1>5. OldLog'
  BY <1>1, <1>2 DEF OldLog
<1>6. NewLog'
  <2>1. Len(inodes') \in Nat
    BY LenProperties
  <2> QED
    BY <1>2, <1>3, <2>1 DEF NewLog, Copying, Renamed
<1> QED
  BY <1>4, <1>5, <1>6

LEMMA KillStep ==
    ASSUME FileInv, Kill
    PROVE  FileInv'
<1>1. Types /\ Databases /\ pc # "down" /\ Down /\ UNCHANGED <<dir, ddir>>
  BY DEF FileInv, Kill
<1>2. sound' \in BOOLEAN
  <2>1. sound' = (sound /\ pc # "sync_dir")
    BY DEF Kill
  <2>2. (sound /\ pc # "sync_dir") \in BOOLEAN
    OBVIOUS
  <2> QED
    BY <2>1, <2>2, Zenon
<1>3. /\ inodes' \in Seq(File) /\ Len(inodes') = Len(inodes) /\ DOMAIN inodes' = DOMAIN inodes
      /\ \A j \in DOMAIN inodes : Whole(inodes[j]) => Whole(inodes'[j])
  <2>1. CASE UNCHANGED inodes
    BY <1>1, <2>1 DEF Types, Whole
  <2>2. CASE SetData(log.inode, Append(Base(log), Torn))
    <3>1. Append(Base(log), Torn) \in Seq(Record)
      BY <1>1, LogFacts, BaseIs, RecordsAre, AppendProperties
    <3>2. Put(log.inode, Append(Base(log), Torn), inodes[log.inode].disk)
      BY <1>1, <2>2, <3>1, LogFacts, SetDataPuts, Zenon
    <3>3. HasSchema(Append(Base(log), Torn)) /\ HasSchema(inodes[log.inode].disk)
      BY <1>1, LogFacts, SchemaKept, RecordsAre
    <3> QED
      BY <3>2, <3>3, Zenon DEF Put, Whole
  <2> QED
    BY <2>1, <2>2 DEF Kill
<1>4. Databases'
  BY <1>1, <1>3 DEF Databases
<1>5. Types' /\ Transacting' /\ OldLog' /\ NewLog'
  <2>1. dir' \in Directory /\ ddir' \in Directory
    BY <1>1 DEF Types
  <2> QED
    BY <1>1, <1>2, <1>3, <2>1, DownIs
<1> QED
  BY <1>4, <1>5 DEF FileInv

LEMMA PowerStep ==
    ASSUME FileInv, PowerFailure
    PROVE  FileInv'
<1>1. Types /\ Databases /\ Down /\ UNCHANGED sound /\ dir' \in {dir, ddir} /\ ddir' = dir'
  BY DEF FileInv, PowerFailure
<1> DEFINE i == dir'.db
<1>2. i \in DOMAIN inodes /\ Whole(inodes[i]) /\ inodes \in Seq(File)
  BY <1>1 DEF Databases, Types
<1>3. PICK g \in Images(inodes[i]) : inodes' = [inodes EXCEPT ![i] = [data |-> g, disk |-> g]]
  BY Zenon DEF PowerFailure
<1>4. g \in Seq(Record) /\ HasSchema(g)
  BY <1>2, FileAt, ImagesWhole
<1>5. Put(i, g, g)
  BY <1>2, <1>3, <1>4, PutIs, Zenon
<1>6. Databases'
  BY <1>1, <1>2, <1>4, <1>5 DEF Databases, Put, Whole
<1>7. Types' /\ Transacting' /\ OldLog' /\ NewLog'
  <2>1. dir' \in Directory /\ ddir' \in Directory /\ sound' \in BOOLEAN
    BY <1>1 DEF Types
  <2>2. inodes' \in Seq(File) /\ Len(inodes') = Len(inodes) /\ DOMAIN inodes' = DOMAIN inodes
    BY <1>5 DEF Put
  <2> QED
    BY <1>1, <2>1, <2>2, DownIs
<1> QED
  BY <1>6, <1>7 DEF FileInv

LEMMA OpenStep ==
    ASSUME LeastNumber, FileInv, Open
    PROVE  FileInv'
<1> DEFINE f == inodes[dir.db].data
           n == Readable(f)
<1>1. /\ Types /\ Transacting /\ Databases /\ NewLog /\ pc = "down" /\ txn = "none"
  BY DEF FileInv, Open, Transacting
<1>2. /\ HasSchema(f) /\ locked' = TRUE /\ db' = Txns(SubSeq(f, 1, n))
      /\ log' = [OpenLog(dir.db) EXCEPT !.offset = n]
      /\ pc' = "idle" /\ acked' = db'
      /\ UNCHANGED <<txn, new_log, inodes, dir, ddir, promised, sound>>
  BY DEF Open, files
<1>3. dir.db \in DOMAIN inodes /\ Whole(inodes[dir.db]) /\ dir.db \in Nat
  BY <1>1 DEF Databases, Types, Directory
<1>4. f \in Seq(Record) /\ Len(f) \in Nat
  BY <1>1, <1>3, FileAt, LenProperties DEF Types
<1>5. n \in 1 .. Len(f)
  BY <1>2, <1>4, ReadableIs
<1>6. n \in 0 .. Len(f) /\ n \in Nat
  BY <1>4, <1>5
<1>7. db' \in Seq(Txn)
  BY <1>2, <1>4, <1>6, TxnsType
<1> HIDE DEF n, f
<1>8. log' \in Log /\ log'.inode = dir.db /\ log'.offset = n
  BY <1>2, <1>3, <1>6, Zenon DEF OpenLog, Log
<1>9. Types' /\ Transacting'
  BY <1>1, <1>2, <1>7, <1>8 DEF Types, Transacting, PCs
<1>10. Databases' /\ OldLog'
  BY <1>1, <1>2, <1>3, <1>5, <1>8 DEF Databases, OldLog, Whole, f
<1>11. NewLog'
  BY <1>1, <1>2 DEF NewLog, Copying, Renamed
<1> QED
  BY <1>9, <1>10, <1>11 DEF FileInv

LEMMA FileStep ==
    ASSUME LeastNumber
    PROVE  FileInv /\ [Next]_vars => FileInv'
<1> SUFFICES ASSUME FileInv, [Next]_vars PROVE FileInv'
  OBVIOUS
<1>1. CASE \/ \E t \in Txn, durable \in BOOLEAN : Commit(t, durable)
           \/ Written \/ Answer \/ CompactCommand \/ LockTmp
  BY <1>1, QuietStep
<1>2. CASE Write
  BY <1>2, WriteStep
<1>3. CASE Sync \/ SyncOld
  BY <1>3, SyncStep
<1>4. CASE UnlinkTmp \/ Undo
  BY <1>4, DirectoryStep
<1>5. CASE Create
  BY <1>5, CreateStep
<1>6. CASE WriteSchema \/ WriteData
  BY <1>6, CopyStep
<1>7. CASE SyncNew
  BY <1>7, SyncNewStep
<1>8. CASE Rename
  BY <1>8, RenameStep
<1>9. CASE SyncDir \/ Swap
  BY <1>9, RenamedStep
<1>10. CASE Kill
  BY <1>10, KillStep
<1>11. CASE PowerFailure
  BY <1>11, PowerStep
<1>12. CASE Open
  BY <1>12, OpenStep, ZenonT(30)
<1>13. CASE UNCHANGED vars
  BY <1>13 DEF vars, files, FileInv, Types, Transacting, Databases, OldLog, NewLog, Whole, Truncates
<1> QED
  BY <1>1, <1>2, <1>3, <1>4, <1>5, <1>6, <1>7, <1>8, <1>9, <1>10, <1>11, <1>12, <1>13 DEF Next

-------------------------------------------------------------------------------
(* The refinement of DurableStore.                                            *)

\* The database that ovsdb_file_open__() makes of a file.
Contents(g) == Txns(SubSeq(g, 1, Readable(g)))

\* What a restart may find.
Recovers(s) ==
    \/ \E n \in promised .. Len(acked) : s = SubSeq(acked, 1, n)
    \/ \E t \in Txn : s = Append(acked, t)

\* The transactions that the log holds while the server runs.
Held == IF pc = "write" THEN acked ELSE db

\* How many of them have been synced.
Level == IF txn = "durable" /\ pc \notin {"write", "sync"} THEN Len(db) ELSE promised

\* What is synced of a file is where the file has it and holds p transactions.
Synced(f, p) ==
    /\ Readable(f.disk) <= Readable(f.data)
    /\ Common(f, Readable(f.disk))
    /\ p <= Len(Contents(f.disk))

Promises == promised <= Len(acked) /\ Replayable(acked)

Directories == pc # "sync_dir" => ddir.db = dir.db

\* A file that holds the database.
Stored(f) ==
    /\ Synced(f, Level)
    /\ IF pc = "down" THEN Recovers(Contents(f.data)) ELSE Contents(f.data) = Held

Stores == Stored(inodes[dir.db]) /\ Stored(inodes[ddir.db])

\* The tables in memory: what was answered, and the commit under way.
Memory ==
    pc # "down" => /\ Replayable(db)
                   /\ IF txn = "none" THEN db = acked ELSE \E t \in Txn : db = Append(acked, t)

\* file->log is the database and ends with its last readable record.
LogHolds ==
    pc \notin Renamed \union {"down"} =>
        LET data == inodes[log.inode].data
        IN  /\ log.inode = dir.db
            /\ Readable(data) = log.offset
            /\ ~Truncates(log) => Len(data) = log.offset

\* The copy that compaction makes, as far as it has got.
Copy ==
    LET new == inodes[new_log.inode]
    IN  /\ pc = "write_data" => new.data = <<Schema>>
        /\ pc \in {"sync_new", "rename"} \union Renamed => new.data = <<Schema, Data(db)>>
        /\ pc \in {"rename"} \union Renamed => new.disk = new.data

Kept == Promises /\ Directories /\ Stores /\ Memory /\ LogHolds /\ Copy

StoreInv == sound => Kept

-------------------------------------------------------------------------------
(* What ovsdb_file_open__() reads of a file that has changed.                 *)

LEMMA ReadsLess ==
    ASSUME LeastNumber, NEW f \in Seq(Record), NEW n \in 0 .. Len(f), NEW m \in 0 .. n, Reads(f, n)
    PROVE  Reads(f, m)
<1>1. Len(f) \in Nat
  BY LenProperties
<1>2. m \in 0 .. Len(f)
  BY <1>1
<1>3. /\ Txns(SubSeq(f, 1, n)) \in Seq(Txn) /\ Txns(SubSeq(f, 1, m)) \in Seq(Txn)
      /\ Starts(Txns(SubSeq(f, 1, m)), Txns(SubSeq(f, 1, n)))
  BY <1>2, TxnsType, TxnsStart
<1>4. Replayable(Txns(SubSeq(f, 1, m)))
  BY <1>3, ReplayablePrefix DEF Reads
<1>5. \A i \in 1 .. m : i \in 1 .. n
  OBVIOUS
<1> QED
  BY <1>4, <1>5 DEF Reads

LEMMA ReadsSame ==
    ASSUME NEW f \in Seq(Record), NEW g \in Seq(Record), NEW n \in 0 .. Len(f), n <= Len(g),
           SubSeq(f, 1, n) = SubSeq(g, 1, n), Reads(f, n)
    PROVE  Reads(g, n)
<1>1. n \in 0 .. Len(g)
  BY LenProperties
<1>2. \A i \in 1 .. n : f[i] = g[i]
  BY <1>1, CutIs
<1> QED
  BY <1>2, Zenon DEF Reads

\* A file that starts with what is read of f, and has nothing to read after that.
LEMMA ReadsNoMore ==
    ASSUME LeastNumber, NEW f \in Seq(Record), HasSchema(f), NEW h \in Seq(Record),
           NEW n \in Nat, n = Readable(f), n <= Len(h), SubSeq(h, 1, n) = SubSeq(f, 1, n),
           n + 1 <= Len(h) => ~Reads(h, n + 1)
    PROVE  Readable(h) = n /\ Contents(h) = Contents(f)
<1>1. Len(f) \in Nat /\ Len(h) \in Nat
  BY LenProperties
<1>2. n \in 0 .. Len(f) /\ Reads(f, n)
  BY <1>1, ReadableIs
<1>3. n \in 0 .. Len(h) /\ Reads(h, n)
  BY <1>1, <1>2, ReadsSame
<1>4. ASSUME NEW m \in 0 .. Len(h), Reads(h, m) PROVE m <= n
  <2>1. SUFFICES ASSUME n + 1 <= m PROVE FALSE
    BY <1>1
  <2>2. n + 1 \in 0 .. m /\ n + 1 <= Len(h)
    BY <1>1, <2>1
  <2>3. Reads(h, n + 1)
    BY <1>4, <2>2, ReadsLess
  <2> QED
    BY <2>2, <2>3
<1>5. Readable(h) = n
  BY <1>3, <1>4, ReadableUnique
<1> QED
  BY <1>5, Zenon DEF Contents

\* A file cut after what is read of it, and then perhaps a record cut short.
LEMMA ReadsCut ==
    ASSUME LeastNumber, NEW f \in Seq(Record), HasSchema(f), NEW n \in Readable(f) .. Len(f),
           NEW h \in {SubSeq(f, 1, n), Append(SubSeq(f, 1, n), Torn)}
    PROVE  h \in Seq(Record) /\ Readable(h) = Readable(f) /\ Contents(h) = Contents(f)
<1> DEFINE k == Readable(f)
           c == SubSeq(f, 1, n)
<1>1. Len(f) \in Nat /\ k \in 1 .. Len(f) /\ \A m \in 0 .. Len(f) : Reads(f, m) => m <= k
  BY ReadableIs, LenProperties
<1> HIDE DEF k
<1>2. n \in 0 .. Len(f) /\ k \in 0 .. n /\ k \in Nat /\ n \in Nat
  BY <1>1 DEF k
<1>3. c \in Seq(Record) /\ Len(c) = n /\ \A i \in 1 .. n : c[i] = f[i]
  BY <1>2, CutIs
<1>4. /\ h \in Seq(Record) /\ Len(h) \in {n, n + 1} /\ \A i \in 1 .. n : h[i] = f[i]
      /\ Len(h) = n + 1 => h[n + 1] = Torn
  <2> HIDE DEF c
  <2>1. CASE h = c
    BY <1>2, <1>3, <2>1
  <2>2. CASE h = Append(c, Torn)
    BY <1>2, <1>3, <2>2, RecordsAre, AppendProperties
  <2> QED
    BY <2>1, <2>2 DEF c
<1>5. \A m \in 0 .. n : SubSeq(h, 1, m) = SubSeq(f, 1, m)
  <2> TAKE m \in 0 .. n
  <2>1. m <= Len(h) /\ m <= Len(f) /\ m \in Nat
    BY <1>1, <1>2, <1>4
  <2>2. \A i \in 1 .. m : h[i] = f[i]
    BY <1>2, <1>4
  <2> QED
    BY <1>4, <2>1, <2>2, SameCut
<1>6. k + 1 <= Len(h) => ~Reads(h, k + 1)
  <2> SUFFICES ASSUME k + 1 <= Len(h), Reads(h, k + 1) PROVE FALSE
    OBVIOUS
  <2>1. CASE k + 1 <= n
    <3>1. k + 1 \in 0 .. n /\ k + 1 \in 0 .. Len(h) /\ k + 1 <= Len(f) /\ k + 1 \in 0 .. Len(f)
      BY <1>1, <1>2, <1>4, <2>1
    <3>2. Reads(f, k + 1)
      BY <1>4, <1>5, <3>1, ReadsSame
    <3> QED
      BY <1>1, <1>2, <3>1, <3>2
  <2>2. CASE ~(k + 1 <= n)
    <3>1. k = n /\ Len(h) = n + 1 /\ k + 1 # 1
      BY <1>1, <1>2, <1>4, <2>2
    <3>2. h[k + 1] = Torn /\ k + 1 \in 1 .. k + 1
      BY <1>2, <1>4, <3>1
    <3>3. h[k + 1].kind = "data"
      BY <3>1, <3>2 DEF Reads
    <3> QED
      BY <3>2, <3>3 DEF Torn
  <2> QED
    BY <2>1, <2>2
<1>7. k <= Len(h) /\ SubSeq(h, 1, k) = SubSeq(f, 1, k)
  BY <1>2, <1>4, <1>5
<1>8. Readable(h) = k /\ Contents(h) = Contents(f)
  BY <1>2, <1>4, <1>6, <1>7, ReadsNoMore DEF k
<1> QED
  BY <1>4, <1>8 DEF k

LEMMA ReadsShorter ==
    ASSUME LeastNumber, NEW f \in Seq(Record), HasSchema(f), NEW n \in 1 .. Readable(f),
           NEW h \in {SubSeq(f, 1, n), Append(SubSeq(f, 1, n), Torn)}
    PROVE  h \in Seq(Record) /\ Readable(h) = n /\ Contents(h) = Txns(SubSeq(f, 1, n))
<1> DEFINE k == Readable(f)
           c == SubSeq(f, 1, n)
<1>1. Len(f) \in Nat /\ k \in 1 .. Len(f) /\ Reads(f, k)
  BY ReadableIs, LenProperties
<1> HIDE DEF k
<1>2. n \in 1 .. Len(f) /\ n \in 0 .. Len(f) /\ n \in 0 .. k /\ k \in 0 .. Len(f) /\ n \in Nat
  BY <1>1 DEF k
<1>3. c \in Seq(Record) /\ Len(c) = n /\ HasSchema(c)
  BY <1>2, CutIs, SchemaStays
<1>4. SubSeq(c, 1, n) = c
  BY <1>2, <1>3, SubSeqFull
<1>5. Reads(f, n)
  BY <1>1, <1>2, ReadsLess
<1> HIDE DEF c
<1>6. Reads(c, n)
  <2>1. SubSeq(f, 1, n) = SubSeq(c, 1, n)
    BY <1>4 DEF c
  <2>2. n <= Len(c)
    BY <1>2, <1>3
  <2> QED
    BY <1>2, <1>3, <1>5, <2>1, <2>2, ReadsSame
<1>7. n \in 0 .. Len(c) /\ \A m \in 0 .. Len(c) : m <= n
  BY <1>2, <1>3
<1>8. Readable(c) = n /\ Contents(c) = Txns(c)
  <2>1. Readable(c) = n
    BY <1>3, <1>6, <1>7, ReadableUnique
  <2> QED
    BY <1>4, <2>1, Zenon DEF Contents
<1>9. n \in Readable(c) .. Len(c) /\ h \in {SubSeq(c, 1, n), Append(SubSeq(c, 1, n), Torn)}
  BY <1>2, <1>3, <1>4, <1>8 DEF c
<1>10. h \in Seq(Record) /\ Readable(h) = Readable(c) /\ Contents(h) = Contents(c)
  BY <1>3, <1>9, ReadsCut, Zenon
<1> QED
  BY <1>8, <1>10 DEF c

\* A record of transactions after what is read.
LEMMA ReadsData ==
    ASSUME LeastNumber, NEW f \in Seq(Record), HasSchema(f), Readable(f) = Len(f), NEW s \in Seq(Txn),
           Replayable(Contents(f) \o s)
    PROVE  LET h == Append(f, Data(s))
           IN  h \in Seq(Record) /\ Readable(h) = Len(f) + 1 /\ Contents(h) = Contents(f) \o s
<1> DEFINE h == Append(f, Data(s))
           n == Len(f)
<1>1. n \in Nat /\ n \in 1 .. n /\ Reads(f, n)
  BY ReadableIs, LenProperties
<1>2. Data(s) \in Record /\ Data(s).kind = "data" /\ Data(s).txns = s
  BY DEF Data, Record
<1>3. /\ h \in Seq(Record) /\ Len(h) = n + 1 /\ h[n + 1] = Data(s)
      /\ \A i \in 1 .. n : h[i] = f[i]
  BY <1>2, AppendProperties
<1>4. SubSeq(f, 1, n) = f /\ SubSeq(h, 1, n + 1) = h
  BY <1>1, <1>3, SubSeqFull
<1>5. Txns(h) = Contents(f) \o s
  <2>1. Txns(h) = Txns(f) \o Data(s).txns
    BY <1>2, TxnsAppend, Zenon
  <2> QED
    BY <1>2, <1>4, <2>1, Zenon DEF Contents
<1> HIDE DEF h, n
<1>6. Reads(h, n + 1)
  <2>1. ASSUME NEW i \in 1 .. n + 1 PROVE h[i].kind = IF i = 1 THEN "schema" ELSE "data"
    <3>1. CASE i = n + 1
      <4>1. i # 1
        BY <1>1, <3>1
      <4> QED
        BY <1>2, <1>3, <3>1, <4>1
    <3>2. CASE i # n + 1
      <4>1. i \in 1 .. n
        BY <1>1, <3>2
      <4> QED
        BY <1>1, <1>3, <4>1 DEF Reads
    <3> QED
      BY <3>1, <3>2
  <2> QED
    BY <1>4, <1>5, <2>1, Zenon DEF Reads
<1>7. n + 1 \in 0 .. Len(h) /\ \A m \in 0 .. Len(h) : m <= n + 1
  BY <1>1, <1>3
<1>8. Readable(h) = n + 1
  BY <1>3, <1>6, <1>7, ReadableUnique
<1>9. Contents(h) = Contents(f) \o s
  BY <1>4, <1>5, <1>8, Zenon DEF Contents
<1> QED
  BY <1>3, <1>8, <1>9 DEF h, n

LEMMA ContentsType ==
    ASSUME LeastNumber, NEW f \in Seq(Record), HasSchema(f)
    PROVE  /\ Contents(f) \in Seq(Txn) /\ Len(Contents(f)) \in Nat /\ Replayable(Contents(f))
           /\ Readable(f) \in 1 .. Len(f) /\ Readable(f) \in 0 .. Len(f) /\ Readable(f) \in Nat
           /\ Readable(f) <= Len(f) /\ Len(f) \in Nat
<1>1. Len(f) \in Nat /\ Readable(f) \in 1 .. Len(f) /\ Reads(f, Readable(f))
  BY ReadableIs, LenProperties
<1>2. Readable(f) \in 0 .. Len(f) /\ Readable(f) \in Nat /\ Readable(f) <= Len(f)
  BY <1>1
<1>3. Contents(f) \in Seq(Txn)
  BY <1>2, TxnsType DEF Contents
<1> QED
  BY <1>1, <1>2, <1>3, LenProperties DEF Contents, Reads

\* What a power failure leaves is no less than was synced and no more than was written.
LEMMA ImageBetween ==
    ASSUME LeastNumber, NEW f \in File, Whole(f), NEW p, Synced(f, p), NEW g \in Images(f)
    PROVE  Starts(Contents(f.disk), Contents(g)) /\ Starts(Contents(g), Contents(f.data))
<1> DEFINE s == f.data
           k == f.disk
           a == Readable(k)
           b == Readable(s)
<1>1. s \in Seq(Record) /\ k \in Seq(Record) /\ HasSchema(s) /\ HasSchema(k)
  BY ZenonT(30) DEF File, Whole
<1>2. /\ a \in Nat /\ b \in Nat /\ Len(s) \in Nat /\ Len(k) \in Nat /\ 1 <= a /\ a <= b /\ b <= Len(s)
      /\ a <= Len(k)
  BY <1>1, ContentsType DEF Synced
<1>3. SubSeq(s, 1, a) = SubSeq(k, 1, a) /\ Common(f, a)
  BY Zenon DEF Synced, Common
<1>4. \A n \in Cuts(f) : n \in a .. Len(s)
  BY <1>2, <1>3 DEF Cuts
<1>5. Contents(k) = Txns(SubSeq(s, 1, a)) /\ Contents(s) = Txns(SubSeq(s, 1, b))
  BY <1>3, Zenon DEF Contents
<1> HIDE DEF a, b, s, k
<1>6. \A n \in a .. b : Starts(Txns(SubSeq(s, 1, a)), Txns(SubSeq(s, 1, n)))
  <2> TAKE n \in a .. b
  <2>1. n \in 0 .. Len(s) /\ a \in 0 .. n
    BY <1>2
  <2> QED
    BY <1>1, <2>1, TxnsStart
<1>7. \A n \in a .. b : Starts(Txns(SubSeq(s, 1, n)), Txns(SubSeq(s, 1, b)))
  <2> TAKE n \in a .. b
  <2>1. b \in 0 .. Len(s) /\ n \in 0 .. b
    BY <1>2
  <2> QED
    BY <1>1, <2>1, TxnsStart
<1>8. ASSUME NEW n \in Cuts(f), g \in {SubSeq(s, 1, n), Append(SubSeq(s, 1, n), Torn)}
      PROVE  Starts(Contents(k), Contents(g)) /\ Starts(Contents(g), Contents(s))
  <2>1. n \in a .. Len(s)
    BY <1>4
  <2>2. CASE n <= b
    <3>1. n \in 1 .. b /\ n \in a .. b
      BY <1>2, <2>1, <2>2
    <3>2. Contents(g) = Txns(SubSeq(s, 1, n))
      BY <1>1, <1>8, <3>1, ReadsShorter, Zenon DEF b
    <3> QED
      BY <1>5, <1>6, <1>7, <3>1, <3>2
  <2>3. CASE ~(n <= b)
    <3>1. n \in b .. Len(s) /\ b \in a .. b
      BY <1>2, <2>1, <2>3
    <3>2. Contents(g) = Contents(s)
      BY <1>1, <1>8, <3>1, ReadsCut, Zenon DEF b
    <3> QED
      BY <1>5, <1>6, <1>7, <3>1, <3>2
  <2> QED
    BY <2>2, <2>3
<1>9. CASE g = k
  <2>1. a \in a .. b
    BY <1>2
  <2>2. Starts(Contents(k), Contents(k)) /\ Starts(Contents(k), Contents(s))
    BY <1>5, <1>6, <1>7, <2>1
  <2> QED
    BY <1>9, <2>2 DEF s, k
<1>10. \/ \E n \in Cuts(f) : g \in {SubSeq(s, 1, n), Append(SubSeq(s, 1, n), Torn)}
       \/ g = k
  BY Zenon DEF Images, s, k
<1> QED
  BY <1>8, <1>9, <1>10, Zenon DEF s, k

\* A prefix of what a restart may find, with what was promised, is such as well.
LEMMA RecoversLess ==
    ASSUME acked \in Seq(Txn), promised \in Nat, NEW s \in Seq(Txn), Recovers(s),
           NEW r \in Seq(Txn), Starts(r, s), promised <= Len(r)
    PROVE  Recovers(r)
<1>1. Len(r) \in Nat /\ Len(s) \in Nat /\ Len(acked) \in Nat /\ Len(r) <= Len(s) /\ r = SubSeq(s, 1, Len(r))
  BY LenProperties DEF Starts
<1>2. CASE \E n \in promised .. Len(acked) : s = SubSeq(acked, 1, n)
  <2>1. PICK n \in promised .. Len(acked) : s = SubSeq(acked, 1, n)
    BY <1>2
  <2>2. n \in 0 .. Len(acked) /\ Len(s) = n
    BY <1>1, <2>1, CutIs
  <2>3. Len(r) \in 0 .. n /\ Len(r) \in promised .. Len(acked)
    BY <1>1, <2>2
  <2>4. r = SubSeq(acked, 1, Len(r))
    BY <1>1, <2>1, <2>2, <2>3, CutCut
  <2> QED
    BY <2>3, <2>4, Zenon DEF Recovers
<1>3. CASE \E t \in Txn : s = Append(acked, t)
  <2>1. PICK t \in Txn : s = Append(acked, t)
    BY <1>3
  <2>2. Len(s) = Len(acked) + 1 /\ SubSeq(s, 1, Len(acked)) = acked
    BY <2>1, StartsAppend, AppendProperties
  <2>3. CASE Len(r) = Len(s)
    <3>1. r = s
      BY <1>1, <2>3, SubSeqFull
    <3> QED
      BY <3>1
  <2>4. CASE Len(r) # Len(s)
    <3>1. Len(r) \in promised .. Len(acked) /\ Len(r) \in 0 .. Len(acked) /\ Len(acked) \in 0 .. Len(s)
      <4>1. Len(s) = Len(acked) + 1
        BY <2>2
      <4>2. \A x, y, z, u \in Nat : x <= y /\ y = z + 1 /\ x # y /\ u <= x =>
                x \in u .. z /\ x \in 0 .. z /\ z \in 0 .. y
        OBVIOUS
      <4> QED
        BY <1>1, <2>4, <4>1, <4>2, Zenon
    <3>2. SubSeq(acked, 1, Len(r)) = SubSeq(s, 1, Len(r))
      BY <2>2, <3>1, CutCut
    <3>3. r = SubSeq(acked, 1, Len(r))
      BY <1>1, <3>2
    <3> QED
      BY <3>1, <3>3, Zenon DEF Recovers
  <2> QED
    BY <2>3, <2>4
<1> QED
  BY <1>2, <1>3 DEF Recovers

-------------------------------------------------------------------------------
(* Synced files.                                                              *)

LEMMA SyncedHolds ==
    ASSUME LeastNumber, NEW f \in File, Whole(f), NEW p \in Nat, Synced(f, p)
    PROVE  /\ p <= Len(Contents(f.data))
           /\ \A g \in Images(f) : p <= Len(Contents(g))
<1>1. f.data \in Seq(Record) /\ f.disk \in Seq(Record) /\ HasSchema(f.data) /\ HasSchema(f.disk)
  BY DEF File, Whole
<1>2. Len(Contents(f.data)) \in Nat /\ Len(Contents(f.disk)) \in Nat /\ p <= Len(Contents(f.disk))
  BY <1>1, ContentsType DEF Synced
<1>3. ASSUME NEW g \in Images(f) PROVE p <= Len(Contents(g)) /\ Len(Contents(g)) <= Len(Contents(f.data))
  <2>1. Starts(Contents(f.disk), Contents(g)) /\ Starts(Contents(g), Contents(f.data))
    BY ImageBetween
  <2>2. Len(Contents(g)) \in Nat
    BY ImagesWhole, ContentsType
  <2> QED
    BY <1>2, <2>1, <2>2 DEF Starts
<1>4. f.disk \in Images(f)
  BY DEF Images
<1>5. Len(Contents(f.disk)) <= Len(Contents(f.data))
  BY <1>3, <1>4
<1> QED
  BY <1>2, <1>3, <1>5

\* A file that is synced as it is.
LEMMA SyncedNow ==
    ASSUME LeastNumber, NEW f, NEW d \in Seq(Record), HasSchema(d), f.data = d, f.disk = d,
           NEW p, p <= Len(Contents(d))
    PROVE  Synced(f, p)
<1>1. Readable(d) \in Nat /\ Readable(d) <= Len(d)
  BY ContentsType
<1> QED
  BY <1>1 DEF Synced, Common

\* A file that changes only after what is read of it, which does not get less.
LEMMA SyncedStill ==
    ASSUME LeastNumber, NEW f \in File, Whole(f), NEW p, Synced(f, p), NEW h,
           NEW d \in Seq(Record), HasSchema(d), h.data = d, h.disk = f.disk,
           NEW n \in Nat, n = Readable(f.data), n <= Len(d), n <= Readable(d),
           SubSeq(d, 1, n) = SubSeq(f.data, 1, n)
    PROVE  Synced(h, p)
<1> DEFINE s == f.data
           k == f.disk
           a == Readable(k)
<1>1. s \in Seq(Record) /\ k \in Seq(Record) /\ HasSchema(s) /\ HasSchema(k)
  BY Zenon DEF File, Whole
<1>2. a \in Nat /\ a <= n /\ n <= Len(s) /\ a <= Len(k) /\ Len(s) \in Nat /\ Len(d) \in Nat
  BY <1>1, ContentsType DEF Synced
<1>3. SubSeq(s, 1, a) = SubSeq(k, 1, a)
  BY Zenon DEF Synced, Common
<1> HIDE DEF a, s, k
<1>4. SubSeq(d, 1, a) = SubSeq(s, 1, a)
  <2>1. n \in 0 .. Len(d) /\ n \in 0 .. Len(s) /\ a \in 0 .. n
    BY <1>2
  <2>2. SubSeq(SubSeq(d, 1, n), 1, a) = SubSeq(d, 1, a)
    BY <2>1, CutCut
  <2>3. SubSeq(SubSeq(s, 1, n), 1, a) = SubSeq(s, 1, a)
    BY <1>1, <2>1, CutCut
  <2> QED
    BY <2>2, <2>3, Zenon DEF s
<1>5. a <= Len(d) /\ a <= Readable(d)
  <2>1. Readable(d) \in Nat
    BY ContentsType
  <2> QED
    BY <1>2, <2>1
<1> QED
  BY <1>2, <1>3, <1>4, <1>5, Zenon DEF Synced, Common, a, k

-------------------------------------------------------------------------------
(* StoreInv is inductive, given FileInv.                                      *)

LEMMA SchemaOnly ==
    ASSUME LeastNumber
    PROVE  /\ <<Schema>> \in Seq(Record) /\ HasSchema(<<Schema>>) /\ Len(<<Schema>>) = 1
           /\ Readable(<<Schema>>) = 1 /\ Contents(<<Schema>>) = <<>>
<1>1. Schema \in Record /\ Schema.txns = <<>>
  BY RecordsAre
<1>2. <<Schema>> \in Seq(Record) /\ HasSchema(<<Schema>>) /\ Len(<<Schema>>) = 1
  BY <1>1 DEF HasSchema
<1>3. Readable(<<Schema>>) = 1
  <2>1. Readable(<<Schema>>) \in 1 .. 1
    BY <1>2, ReadableIs, Zenon
  <2> QED
    BY <2>1
<1>4. SubSeq(<<Schema>>, 1, 1) = Append(<<>>, Schema)
  <2>1. SubSeq(<<Schema>>, 1, 1) = <<Schema>>
    BY <1>2, SubSeqFull, Zenon
  <2>2. Append(<<>>, Schema) = <<Schema>>
    OBVIOUS
  <2> QED
    BY <2>1, <2>2
<1>5. Txns(Append(<<>>, Schema)) = Txns(<<>>) \o Schema.txns
  BY <1>1, EmptySeq, TxnsAppend, Zenon
<1>6. <<>> \o Schema.txns = <<>>
  BY <1>1
<1> QED
  BY <1>2, <1>3, <1>4, <1>5, <1>6, TxnsOfNone, Zenon DEF Contents

LEMMA StoreInit ==
    ASSUME LeastNumber
    PROVE  Init => StoreInv
<1> SUFFICES ASSUME Init PROVE Kept
  BY DEF StoreInv
<1>1. /\ inodes[1].data = <<Schema>> /\ inodes[1].disk = <<Schema>> /\ dir.db = 1 /\ ddir.db = 1
      /\ log.inode = 1 /\ log.offset = 1 /\ log.mode = "READ"
      /\ pc = "idle" /\ txn = "none" /\ db = <<>> /\ acked = <<>> /\ promised = 0
  BY DEF Init, OpenLog
<1>2. Level = 0 /\ Held = <<>>
  BY <1>1 DEF Level, Held
<1>3. Synced(inodes[1], 0)
  <2>1. 0 <= Len(Contents(<<Schema>>))
    BY SchemaOnly
  <2> QED
    BY <1>1, <2>1, SchemaOnly, SyncedNow, Zenon
<1>4. Stores
  BY <1>1, <1>2, <1>3, SchemaOnly DEF Stores, Stored
<1>5. Replayable(<<>>)
  BY DEF Replayable
<1>6. Promises /\ Memory /\ Directories
  BY <1>1, <1>5 DEF Promises, Memory, Directories
<1>7. LogHolds /\ Copy
  BY <1>1, SchemaOnly DEF LogHolds, Copy, Truncates, Renamed
<1> QED
  BY <1>4, <1>6, <1>7 DEF Kept

LEMMA DatabaseFacts ==
    ASSUME FileInv, NEW i \in {dir.db, ddir.db}
    PROVE  /\ i \in DOMAIN inodes /\ inodes[i] \in File /\ Whole(inodes[i])
           /\ inodes[i].data \in Seq(Record) /\ HasSchema(inodes[i].data)
           /\ inodes[i].disk \in Seq(Record) /\ HasSchema(inodes[i].disk)
<1>1. inodes \in Seq(File) /\ i \in DOMAIN inodes /\ Whole(inodes[i])
  BY Zenon DEF FileInv, Types, Databases
<1> QED
  BY <1>1, FileAt DEF Whole

\* The program counters at which the log is the database.
Steady == PCs \ (Renamed \union {"down"})

\* What the log keeps of its file when it writes is what can be read of it.
LEMMA LogBase ==
    ASSUME LeastNumber, FileInv, Kept, pc \in Steady
    PROVE  LET g == inodes[log.inode].data
           IN  /\ log.inode = dir.db /\ (pc # "sync_dir" => log.inode = ddir.db)
               /\ Readable(g) = log.offset /\ Base(log) = SubSeq(g, 1, log.offset)
               /\ Base(log) \in Seq(Record) /\ HasSchema(Base(log)) /\ Len(Base(log)) = log.offset
               /\ Readable(Base(log)) = log.offset /\ Contents(Base(log)) = Contents(g)
<1> DEFINE g == inodes[log.inode].data
<1>1. /\ log.inode = dir.db /\ (pc # "sync_dir" => log.inode = ddir.db)
      /\ Readable(g) = log.offset /\ (~Truncates(log) => Len(g) = log.offset)
  BY DEF Kept, LogHolds, Directories, Steady
<1>2. g \in Seq(Record) /\ HasSchema(g) /\ Len(g) \in Nat
  BY <1>1, DatabaseFacts, LenProperties, ZenonT(30)
<1>3. log.offset \in 1 .. Len(g) /\ log.offset \in Nat /\ log.offset \in 0 .. Len(g)
  BY <1>1, <1>2, ContentsType
<1>4. Base(log) = SubSeq(g, 1, log.offset)
  <2>1. CASE Truncates(log)
    BY <2>1, Zenon DEF Base
  <2>2. CASE ~Truncates(log)
    BY <1>1, <1>2, <2>2, SubSeqFull DEF Base
  <2> QED
    BY <2>1, <2>2
<1>5. SubSeq(g, 1, log.offset) \in Seq(Record) /\ Len(SubSeq(g, 1, log.offset)) = log.offset
  BY <1>2, <1>3, CutIs
<1>6. HasSchema(SubSeq(g, 1, log.offset))
  BY <1>2, <1>3, SchemaStays
<1> HIDE DEF g
<1>7. /\ Readable(SubSeq(g, 1, log.offset)) = Readable(g)
      /\ Contents(SubSeq(g, 1, log.offset)) = Contents(g)
  <2>1. log.offset \in Readable(g) .. Len(g)
    BY <1>1, <1>2, <1>3
  <2> QED
    BY <1>2, <2>1, ReadsCut
<1> QED
  BY <1>1, <1>4, <1>5, <1>6, <1>7, Zenon DEF g

\* Steps that leave the database and its log alone.
LEMMA StoreFrame ==
    ASSUME Kept, pc \in Steady, pc' \in Steady, Held' = Held, Level' = Level,
           dir'.db = dir.db, ddir'.db \in {dir.db, ddir.db}, log' = log,
           inodes'[dir.db] = inodes[dir.db], inodes'[ddir.db] = inodes[ddir.db],
           inodes'[log.inode] = inodes[log.inode]
    PROVE  Directories' /\ Stores' /\ LogHolds'
<1>1. pc # "down" /\ pc' # "down" /\ pc \notin Renamed /\ pc' \notin Renamed /\ pc # "sync_dir"
  BY DEF Steady, Renamed
<1>2. ddir.db = dir.db /\ ddir'.db = dir.db
  BY <1>1, Zenon DEF Kept, Directories
<1>3. Directories'
  BY <1>2, Zenon DEF Directories
<1>4. Stores'
  BY <1>1, <1>2, Zenon DEF Kept, Stores, Stored
<1>5. LogHolds'
  BY <1>1 DEF Kept, LogHolds, Truncates
<1> QED
  BY <1>3, <1>4, <1>5

LEMMA AckedIs ==
    ASSUME FileInv, Kept
    PROVE  /\ db \in Seq(Txn) /\ acked \in Seq(Txn) /\ promised \in Nat
           /\ Len(db) \in Nat /\ Len(acked) \in Nat /\ promised <= Len(acked) /\ Replayable(acked)
           /\ pc # "down" => Replayable(db) /\ Len(acked) <= Len(db)
<1>1. db \in Seq(Txn) /\ acked \in Seq(Txn) /\ promised \in Nat
  BY DEF FileInv, Types
<1>2. promised <= Len(acked) /\ Replayable(acked)
  BY DEF Kept, Promises
<1>3. ASSUME pc # "down" PROVE Replayable(db) /\ Len(acked) <= Len(db)
  <2>1. Replayable(db) /\ (db = acked \/ \E t \in Txn : db = Append(acked, t))
    BY <1>3 DEF Kept, Memory
  <2>2. CASE db = acked
    BY <1>1, <2>1, <2>2, LenProperties
  <2>3. CASE \E t \in Txn : db = Append(acked, t)
    <3>1. Len(db) = Len(acked) + 1
      BY <1>1, <2>3, AppendProperties
    <3> QED
      BY <1>1, <2>1, <3>1, LenProperties
  <2> QED
    BY <2>1, <2>2, <2>3
<1> QED
  BY <1>1, <1>2, <1>3, LenProperties

LEMMA CommitKeeps ==
    ASSUME FileInv, Kept, NEW t \in Txn, NEW durable \in BOOLEAN, Commit(t, durable)
    PROVE  Kept'
<1>1. /\ pc = "idle" /\ pc' = "write" /\ ~Rejected(Content(db), t) /\ db' = Append(db, t)
      /\ txn = "none" /\ txn' # "none"
      /\ UNCHANGED <<log, new_log, inodes, dir, ddir, acked, promised>>
  BY DEF Commit, files, ghosts, FileInv, Transacting
<1>2. db = acked
  BY <1>1 DEF Kept, Memory
<1>3. Held' = Held /\ Level' = Level
  BY <1>1, <1>2 DEF Held, Level
<1>4. pc \in Steady /\ pc' \in Steady
  BY <1>1, Zenon DEF Steady, PCs, Renamed
<1>5. Directories' /\ Stores' /\ LogHolds'
  BY <1>1, <1>3, <1>4, StoreFrame, ZenonT(30)
<1>6. Replayable(db')
  BY <1>1, AckedIs, ReplayableAppend
<1>7. Memory' /\ Promises' /\ Copy'
  BY <1>1, <1>2, <1>6, Zenon DEF Memory, Kept, Promises, Copy, Renamed
<1> QED
  BY <1>5, <1>7 DEF Kept

LEMMA AnswerKeeps ==
    ASSUME FileInv, Kept, Answer
    PROVE  Kept'
<1>1. /\ pc = "answer" /\ pc' = "idle" /\ acked' = db /\ txn' = "none"
      /\ promised' = (IF txn = "durable" THEN Len(db) ELSE promised)
      /\ UNCHANGED <<db, log, new_log, inodes, dir, ddir>>
  BY DEF Answer, files
<1>2. Held' = Held /\ Level' = Level
  BY <1>1 DEF Held, Level
<1>3. pc \in Steady /\ pc' \in Steady
  BY <1>1 DEF Steady, PCs, Renamed
<1>4. Directories' /\ Stores' /\ LogHolds'
  BY <1>1, <1>2, <1>3, StoreFrame, Zenon
<1>5. Replayable(db) /\ promised' <= Len(db)
  BY <1>1, AckedIs
<1>6. Memory' /\ Promises' /\ Copy'
  BY <1>1, <1>5, Zenon DEF Memory, Promises, Copy, Renamed
<1> QED
  BY <1>4, <1>6 DEF Kept

\* Steps of a compaction before there is a copy, and after it was given up.
LEMMA AsideKeeps ==
    ASSUME FileInv, Kept, Written \/ CompactCommand \/ LockTmp \/ UnlinkTmp \/ Undo
    PROVE  Kept'
<1>1. /\ pc \in {"written", "idle", "lock_tmp", "unlink_tmp", "undo"}
      /\ pc' \in {"answer", "sync_old", "idle", "unlink_tmp", "create", "undo"}
      /\ UNCHANGED <<db, txn, log, inodes, ddir, acked, promised>>
  BY DEF Written, CompactCommand, LockTmp, UnlinkTmp, Undo, Compacted, files, ghosts
<1>2. dir'.db = dir.db
  BY DEF Written, CompactCommand, LockTmp, UnlinkTmp, Undo, files, FileInv, Types, Directory
<1>3. Held' = Held /\ Level' = Level
  BY <1>1 DEF Held, Level
<1>4. pc \in Steady /\ pc' \in Steady
  BY <1>1 DEF Steady, PCs, Renamed, Compacting
<1>5. Directories' /\ Stores' /\ LogHolds'
  BY <1>1, <1>2, <1>3, <1>4, StoreFrame, ZenonT(30)
<1>6. Memory' /\ Promises' /\ Copy'
  BY <1>1 DEF Kept, Memory, Promises, Copy, Renamed
<1> QED
  BY <1>5, <1>6 DEF Kept

\* Steps that write to the log: what it holds is written and was synced before.
LEMMA LogWriteKeeps ==
    ASSUME LeastNumber, FileInv, Kept, pc \in Steady, pc' \in Steady, pc' \notin Copying,
           NEW d \in Seq(Record), HasSchema(d), Put(log.inode, d, inodes[log.inode].disk),
           log.offset <= Len(d), log.offset <= Readable(d),
           SubSeq(d, 1, log.offset) = SubSeq(inodes[log.inode].data, 1, log.offset),
           log'.inode = log.inode, log'.offset = Readable(d), ~Truncates(log') => Len(d) = log'.offset,
           UNCHANGED <<dir, ddir>>, Level' = Level, Contents(d) = Held'
    PROVE  Directories' /\ Stores' /\ LogHolds' /\ Copy'
<1> DEFINE i == log.inode
<1>1. pc # "down" /\ pc' # "down" /\ pc \notin Renamed /\ pc' \notin Renamed /\ pc # "sync_dir"
  BY Zenon DEF Steady, Renamed
<1>2. i = dir.db /\ i = ddir.db /\ Readable(inodes[i].data) = log.offset
  BY <1>1, LogBase, Zenon
<1>3. inodes[i] \in File /\ Whole(inodes[i]) /\ inodes[i].data \in Seq(Record) /\ HasSchema(inodes[i].data)
  BY <1>2, DatabaseFacts, ZenonT(30)
<1>4. inodes'[i].data = d /\ inodes'[i].disk = inodes[i].disk
  BY DEF Put
<1>5. Synced(inodes[i], Level)
  BY <1>2, ZenonT(30) DEF Kept, Stores, Stored
<1>6. log.offset \in Nat
  BY <1>2, <1>3, ContentsType
<1> HIDE DEF i
<1>7. Synced(inodes'[i], Level)
  BY <1>2, <1>3, <1>4, <1>5, <1>6, SyncedStill, Zenon DEF i
<1>8. Stores'
  BY <1>1, <1>2, <1>4, <1>7 DEF Stores, Stored
<1>9. Directories' /\ Copy'
  BY <1>1, <1>2, ZenonT(30) DEF Directories, Copy, Copying
<1>10. LogHolds'
  BY <1>1, <1>2, <1>4, Zenon DEF LogHolds, i
<1> QED
  BY <1>8, <1>9, <1>10, Zenon

\* The commit under way is one transaction more than was answered.
LEMMA CommitIs ==
    ASSUME FileInv, Kept, pc \in {"write", "sync"}
    PROVE  db[Len(db)] \in Txn /\ db = Append(acked, db[Len(db)]) /\ SubSeq(db, 1, Len(db) - 1) = acked
<1>1. db \in Seq(Txn) /\ acked \in Seq(Txn) /\ txn # "none"
  BY DEF FileInv, Types, Transacting
<1>2. PICK t \in Txn : db = Append(acked, t)
  BY <1>1 DEF Kept, Memory
<1>3. Len(db) = Len(acked) + 1 /\ db[Len(acked) + 1] = t /\ Len(acked) \in Nat
  BY <1>1, <1>2, AppendProperties, LenProperties
<1>4. db[Len(db)] = t
  BY <1>3
<1>5. SubSeq(db, 1, Len(db) - 1) = SubSeq(db, 1, Len(acked))
  <2>1. Len(db) - 1 = Len(acked)
    BY <1>3
  <2> QED
    BY <2>1
<1>6. SubSeq(Append(acked, t), 1, Len(acked)) = acked
  BY <1>1, StartsAppend
<1> QED
  BY <1>2, <1>4, <1>5, <1>6

LEMMA WriteKeeps ==
    ASSUME LeastNumber, FileInv, Kept, Write
    PROVE  Kept'
<1> DEFINE g == inodes[log.inode].data
           s == <<db[Len(db)]>>
<1>1. pc = "write" /\ txn # "none" /\ UNCHANGED <<new_log, dir, ddir, acked, promised>>
  BY DEF Write, ghosts, FileInv, Transacting
<1>2. pc \in Steady
  BY <1>1, Zenon DEF Steady, PCs, Renamed
<1>3. /\ log.inode = dir.db /\ Readable(g) = log.offset /\ Base(log) = SubSeq(g, 1, log.offset)
      /\ Base(log) \in Seq(Record) /\ HasSchema(Base(log)) /\ Len(Base(log)) = log.offset
      /\ Readable(Base(log)) = log.offset /\ Contents(Base(log)) = Contents(g)
  BY <1>2, LogBase, Zenon
<1>4. g \in Seq(Record) /\ HasSchema(g) /\ Len(g) \in Nat /\ log.offset \in Nat /\ log.offset <= Len(g)
  <2>1. g \in Seq(Record) /\ HasSchema(g)
    BY <1>3, DatabaseFacts, Zenon
  <2> HIDE DEF g
  <2>2. Len(g) \in Nat /\ Readable(g) \in Nat /\ Readable(g) <= Len(g)
    BY <2>1, ContentsType, Zenon
  <2> QED
    BY <1>3, <2>1, <2>2, Zenon
<1>5. Held = acked /\ Contents(g) = acked
  BY <1>1, <1>3 DEF Held, Kept, Stores, Stored
<1>6. db[Len(db)] \in Txn /\ db = Append(acked, db[Len(db)]) /\ SubSeq(db, 1, Len(db) - 1) = acked
  BY <1>1, CommitIs
<1>7. acked \in Seq(Txn) /\ Replayable(db) /\ Promises
  BY <1>1, AckedIs DEF Kept
<1>8. CASE /\ log_write(log, Data(s), log')
           /\ pc' = IF txn = "durable" THEN "sync" ELSE "written"
           /\ UNCHANGED <<db, txn>>
  <2> DEFINE d == Append(Base(log), Data(s))
  <2>1. Wrote(log, Data(s), log')
    BY <1>1, <1>8, LogFacts, LastIs, WriteWrote
  <2>2. s \in Seq(Txn) /\ acked \o s = db
    BY <1>6, <1>7, AppendIsConcat
  <2>3. Replayable(Contents(Base(log)) \o s)
    BY <1>3, <1>5, <1>7, <2>2, Zenon
  <2>4. d \in Seq(Record) /\ Readable(d) = log.offset + 1 /\ Contents(d) = db
    <3> HIDE DEF s
    <3>1. d \in Seq(Record) /\ Readable(d) = Len(Base(log)) + 1 /\ Contents(d) = Contents(Base(log)) \o s
      BY <1>3, <2>2, <2>3, ReadsData, Zenon
    <3> QED
      BY <1>3, <1>5, <2>2, <3>1, Zenon
  <2>5. Put(log.inode, d, inodes[log.inode].disk) /\ log'.inode = log.inode
        /\ log'.offset = log.offset + 1 /\ Len(d) = log.offset + 1
    BY <1>3, <2>1, Zenon DEF Wrote
  <2>6. HasSchema(d)
    BY <1>1, LogFacts, LastIs, SchemaKept, ZenonT(30)
  <2>7. SubSeq(d, 1, log.offset) = Base(log)
    <3>1. Data(s) \in Record
      BY <1>1, LastIs, ZenonT(30)
    <3> HIDE DEF s
    <3>2. SubSeq(Append(Base(log), Data(s)), 1, Len(Base(log))) = Base(log)
      BY <1>3, <3>1, StartsAppend
    <3> QED
      BY <1>3, <3>2
  <2>8. Level' = Level /\ Held' = db
    BY <1>1, <1>8 DEF Level, Held
  <2>9. pc' \in Steady /\ pc' \notin Copying
    BY <1>8, Zenon DEF Steady, PCs, Renamed, Copying
  <2> HIDE DEF d
  <2>10. log.offset <= Len(d) /\ log.offset <= Readable(d)
    BY <1>4, <2>4, <2>5, OneMore, Zenon
  <2>11. Directories' /\ Stores' /\ LogHolds' /\ Copy'
    BY <1>1, <1>2, <1>3, <2>4, <2>5, <2>6, <2>7, <2>8, <2>9, <2>10, LogWriteKeeps, Zenon
  <2>12. Memory' /\ Promises'
    BY <1>1, <1>7, <1>8, <1>6, Zenon DEF Memory, Promises
  <2> QED
    BY <2>11, <2>12, ZenonT(30) DEF Kept
<1>9. CASE log_write_fails(log, log') /\ Abort
  <2>1. PICK d : Missed(log, log', d)
    BY <1>1, <1>9, LogFacts, WriteMissed, Zenon
  <2>2. /\ Put(log.inode, d, inodes[log.inode].disk) /\ d \in Seq(Record) /\ log.offset <= Len(d)
        /\ d \in {g, SubSeq(Base(log), 1, log.offset), Append(Base(log), Torn)}
        /\ log'.inode = log.inode /\ log'.offset = log.offset /\ Truncates(log')
    BY <2>1, Zenon DEF Missed
  <2>3. HasSchema(d)
    BY <1>1, <2>1, LogFacts, SchemaKept, ZenonT(30)
  <2>4. SubSeq(Base(log), 1, log.offset) = Base(log)
    BY <1>3, SubSeqFull
  <2>5. d = g \/ d \in {SubSeq(g, 1, log.offset), Append(SubSeq(g, 1, log.offset), Torn)}
    BY <1>3, <2>2, <2>4, Zenon
  <2>6. Readable(d) = log.offset /\ Contents(d) = acked
    <3>1. CASE d = g
      BY <1>3, <1>5, <3>1, Zenon
    <3>2. CASE d \in {SubSeq(g, 1, log.offset), Append(SubSeq(g, 1, log.offset), Torn)}
      <4>1. log.offset \in Readable(g) .. Len(g)
        BY <1>3, <1>4
      <4> HIDE DEF g
      <4>2. Readable(d) = Readable(g) /\ Contents(d) = Contents(g)
        BY <1>4, <3>2, <4>1, ReadsCut, Zenon
      <4> QED
        BY <1>3, <1>5, <4>2, ZenonT(30)
    <3> QED
      BY <2>5, <3>1, <3>2, Zenon
  <2>7. SubSeq(d, 1, log.offset) = SubSeq(g, 1, log.offset)
    <3>1. CASE d = g
      BY <3>1, Zenon
    <3>2. CASE d = SubSeq(g, 1, log.offset)
      BY <1>3, <2>4, <3>2, Zenon
    <3>3. CASE d = Append(SubSeq(g, 1, log.offset), Torn)
      <4>1. SubSeq(Append(Base(log), Torn), 1, Len(Base(log))) = Base(log)
        BY <1>3, RecordsAre, StartsAppend
      <4> QED
        BY <1>3, <3>3, <4>1, ZenonT(30)
    <3> QED
      BY <2>5, <3>1, <3>2, <3>3, Zenon
  <2>8. db' = acked /\ txn' = "none" /\ pc' = "idle"
    BY <1>6, <1>9 DEF Abort
  <2>9. Level' = Level /\ Held' = acked
    BY <1>1, <2>8 DEF Level, Held
  <2>10. pc' \in Steady /\ pc' \notin Copying
    BY <2>8 DEF Steady, PCs, Renamed, Copying
  <2>11. log.offset <= Readable(d)
    BY <1>4, <2>6
  <2>12. Directories' /\ Stores' /\ LogHolds' /\ Copy'
    BY <1>1, <1>2, <2>2, <2>3, <2>6, <2>7, <2>9, <2>10, <2>11, LogWriteKeeps, Zenon
  <2>13. Memory' /\ Promises'
    BY <1>1, <1>7, <2>8 DEF Memory, Promises
  <2> QED
    BY <2>12, <2>13 DEF Kept
<1> QED
  BY <1>8, <1>9 DEF Write

LEMMA SyncKeeps ==
    ASSUME LeastNumber, FileInv, Kept, Sync \/ SyncOld, sound'
    PROVE  Kept'
<1> DEFINE i == log.inode
           g == inodes[i].data
<1>1. /\ pc \in {"sync", "sync_old"} /\ pc' \in {"written", "lock_tmp"} /\ log_commit(log)
      /\ UNCHANGED <<db, txn, log, new_log, dir, ddir, acked, promised>>
  BY Zenon DEF Sync, SyncOld
<1>2. /\ pc \in Steady /\ pc' \in Steady /\ pc # "down" /\ pc' # "down" /\ pc # "write" /\ pc' # "write"
      /\ pc # "sync_dir" /\ pc \notin Renamed /\ pc' \notin Renamed \union Copying
  BY <1>1 DEF Steady, PCs, Renamed, Compacting, Copying
<1>3. i = dir.db /\ i = ddir.db
  BY <1>2, LogBase
<1>4. g \in Seq(Record) /\ HasSchema(g)
  BY <1>3, DatabaseFacts, Zenon
<1>5. Contents(g) = db /\ Held' = db
  BY <1>1, <1>2, <1>3, Zenon DEF Held, Kept, Stores, Stored
<1>6. Put(i, g, g)
  BY <1>1, <1>2, LogFacts, CommitPuts, Zenon
<1>7. inodes'[i].data = g /\ inodes'[i].disk = g
  BY <1>6 DEF Put
<1>8. Level' <= Len(db)
  BY <1>1, <1>2, AckedIs DEF Level
<1> HIDE DEF g, i
<1>9. Synced(inodes'[i], Level')
  BY <1>4, <1>5, <1>7, <1>8, SyncedNow, Zenon
<1>10. Stores'
  BY <1>1, <1>2, <1>3, <1>5, <1>7, <1>9, Zenon DEF Stores, Stored
<1>11. Directories' /\ Copy' /\ Memory' /\ Promises'
  BY <1>1, <1>2, <1>3, ZenonT(30) DEF Directories, Copy, Copying, Kept, Memory, Promises
<1>12. LogHolds'
  BY <1>1, <1>2, <1>3, <1>7 DEF LogHolds, Kept, i, g, Truncates
<1> QED
  BY <1>10, <1>11, <1>12 DEF Kept

LEMMA CreateKeeps ==
    ASSUME FileInv, Kept, Create
    PROVE  Kept'
<1>1. /\ pc = "create" /\ pc' \in {"write_schema", "undo"}
      /\ UNCHANGED <<db, txn, log, acked, promised>>
  BY DEF Create, ghosts
<1>2. pc \in Steady /\ pc' \in Steady
  BY <1>1 DEF Steady, PCs, Renamed, Compacting
<1>3. dir'.db = dir.db /\ ddir'.db \in {dir.db, ddir.db}
  BY DEF Create, FileInv, Types, Directory
<1>4. \A i \in DOMAIN inodes : inodes'[i] = inodes[i]
  <2>1. CASE UNCHANGED inodes
    BY <2>1, ZenonT(30)
  <2>2. CASE inodes' = Append(inodes, [data |-> <<>>, disk |-> <<>>])
    <3>1. [data |-> <<>>, disk |-> <<>>] \in File
      BY DEF File
    <3>2. inodes \in Seq(File) /\ DOMAIN inodes = 1 .. Len(inodes)
      BY LenProperties DEF FileInv, Types
    <3> QED
      BY <2>2, <3>1, <3>2, AppendProperties
  <2> QED
    BY <2>1, <2>2 DEF Create
<1>5. {dir.db, ddir.db, log.inode} \subseteq DOMAIN inodes
  BY DEF FileInv, Databases, OldLog
<1>6. Held' = Held /\ Level' = Level
  BY <1>1 DEF Held, Level
<1>7. Directories' /\ Stores' /\ LogHolds'
  BY <1>1, <1>2, <1>3, <1>4, <1>5, <1>6, StoreFrame, ZenonT(30)
<1>8. Memory' /\ Promises' /\ Copy'
  BY <1>1 DEF Kept, Memory, Promises, Copy, Renamed
<1> QED
  BY <1>7, <1>8 DEF Kept

\* Steps that write to the copy, or sync it, leave the database alone.
LEMMA CopyAside ==
    ASSUME FileInv, Kept, pc \in Copying \ {"rename"}, pc' \in Copying \union {"undo"},
           NEW d, NEW k, Put(new_log.inode, d, k),
           UNCHANGED <<db, txn, log, dir, ddir, acked, promised>>
    PROVE  Directories' /\ Stores' /\ LogHolds' /\ Memory' /\ Promises'
<1>1. pc \in Steady /\ pc' \in Steady /\ pc # "down" /\ pc' # "down" /\ pc \in Copying
  BY DEF Steady, PCs, Renamed, Compacting, Copying
<1>2. new_log.inode \in DOMAIN inodes \ {dir.db, ddir.db, log.inode}
  BY <1>1 DEF FileInv, NewLog
<1>3. {dir.db, ddir.db, log.inode} \subseteq DOMAIN inodes
  BY Zenon DEF FileInv, Databases, OldLog
<1>4. \A i \in {dir.db, ddir.db, log.inode} : inodes'[i] = inodes[i]
  BY <1>2, <1>3 DEF Put
<1>5. Held' = Held /\ Level' = Level
  BY Zenon DEF Held, Level, Copying
<1>6. Directories' /\ Stores' /\ LogHolds'
  BY <1>1, <1>4, <1>5, StoreFrame, Zenon
<1>7. Memory' /\ Promises'
  BY <1>1 DEF Kept, Memory, Promises
<1> QED
  BY <1>6, <1>7

LEMMA AppendPair ==
    ASSUME NEW S, NEW a \in S, NEW b \in S
    PROVE  Append(<<a>>, b) = <<a, b>>
<1>1. <<a>> \in Seq(S) /\ Len(<<a>>) = 1 /\ <<a>>[1] = a
  OBVIOUS
<1>2. <<a, b>> \in Seq(S) /\ Len(<<a, b>>) = 2 /\ <<a, b>>[1] = a /\ <<a, b>>[2] = b
  OBVIOUS
<1> DEFINE s == Append(<<a>>, b)
           t == <<a, b>>
<1>3. s \in Seq(S) /\ Len(s) = 2 /\ s[1] = a /\ s[2] = b
  BY <1>1, AppendProperties
<1> HIDE DEF s, t
<1>4. t \in Seq(S) /\ Len(t) = 2 /\ t[1] = a /\ t[2] = b
  BY <1>2 DEF t
<1>5. \A i \in 1 .. Len(s) : s[i] = t[i]
  BY <1>3, <1>4
<1>6. s = t
  BY <1>3, <1>4, <1>5, SeqEqual
<1> QED
  BY <1>6 DEF s, t

LEMMA CopyKeeps ==
    ASSUME FileInv, Kept, WriteSchema \/ WriteData
    PROVE  Kept'
<1> DEFINE i == new_log.inode
           g == inodes[i].data
<1>1. pc \in {"write_schema", "write_data"} /\ UNCHANGED <<db, txn, log, dir, ddir, acked, promised>>
  BY DEF WriteSchema, WriteData, WriteCopy, ghosts
<1>2. pc \in Copying /\ pc \in Copying \ {"rename"}
  BY <1>1 DEF Copying
<1>3. CASE log_write_fails(new_log, new_log') /\ pc' = "undo"
  <2>1. PICK d : Missed(new_log, new_log', d)
    BY <1>2, <1>3, CopyFacts, WriteMissed, Zenon
  <2>2. Put(i, d, inodes[i].disk)
    BY <2>1, Zenon DEF Missed
  <2>3. Directories' /\ Stores' /\ LogHolds' /\ Memory' /\ Promises'
    BY <1>1, <1>2, <1>3, <2>2, CopyAside, Zenon
  <2>4. Copy'
    BY <1>3, Zenon DEF Copy, Renamed
  <2> QED
    BY <2>3, <2>4, Zenon DEF Kept
<1>4. CASE pc = "write_schema" /\ log_write(new_log, Schema, new_log') /\ pc' = "write_data"
  <2>1. Wrote(new_log, Schema, new_log')
    BY <1>2, <1>4, CopyFacts, RecordsAre, WriteWrote, Zenon
  <2>2. Base(new_log) = <<>>
    <3>1. g \in Seq(Record) /\ Truncates(new_log) /\ new_log.offset = 0
      BY <1>2, <1>4, CopyFacts DEF FileInv, NewLog
    <3> QED
      BY <3>1 DEF Base
  <2>3. Append(<<>>, Schema) = <<Schema>>
    OBVIOUS
  <2>4. Put(i, <<Schema>>, inodes[i].disk) /\ new_log'.inode = i
    BY <2>1, <2>2, <2>3, Zenon DEF Wrote
  <2>5. inodes'[i].data = <<Schema>>
    BY <2>4, ZenonT(30) DEF Put
  <2>6. Directories' /\ Stores' /\ LogHolds' /\ Memory' /\ Promises'
    <3>1. pc' \in Copying \union {"undo"}
      BY <1>4, Zenon DEF Copying
    <3> QED
      BY <1>1, <1>2, <2>4, <3>1, CopyAside, Zenon
  <2>7. Copy'
    BY <1>4, <2>4, <2>5, ZenonT(30) DEF Copy, Renamed
  <2> QED
    BY <2>6, <2>7 DEF Kept
<1>5. CASE pc = "write_data" /\ log_write(new_log, Data(db), new_log') /\ pc' = "sync_new"
  <2>1. Wrote(new_log, Data(db), new_log')
    BY <1>2, <1>5, CopyFacts, WriteWrote
  <2>2. Base(new_log) = <<Schema>>
    <3>1. ~Truncates(new_log) /\ g = <<Schema>>
      BY <1>5, Zenon DEF FileInv, NewLog, Copying, Kept, Copy
    <3> QED
      BY <3>1, Zenon DEF Base
  <2>3. Append(<<Schema>>, Data(db)) = <<Schema, Data(db)>>
    BY <1>2, CopyFacts, RecordsAre, AppendPair
  <2>4. Put(i, <<Schema, Data(db)>>, inodes[i].disk) /\ new_log'.inode = i
    BY <2>1, <2>2, <2>3, Zenon DEF Wrote
  <2>5. inodes'[i].data = <<Schema, Data(db)>>
    BY <2>4, ZenonT(30) DEF Put
  <2>6. Directories' /\ Stores' /\ LogHolds' /\ Memory' /\ Promises'
    <3>1. pc' \in Copying \union {"undo"}
      BY <1>5 DEF Copying
    <3> QED
      BY <1>1, <1>2, <2>4, <3>1, CopyAside
  <2>7. Copy'
    BY <1>1, <1>5, <2>4, <2>5, Zenon DEF Copy, Renamed
  <2> QED
    BY <2>6, <2>7 DEF Kept
<1> QED
  BY <1>3, <1>4, <1>5 DEF WriteSchema, WriteData, WriteCopy

LEMMA SyncNewKeeps ==
    ASSUME FileInv, Kept, SyncNew
    PROVE  Kept'
<1> DEFINE i == new_log.inode
           g == inodes[i].data
<1>1. /\ pc = "sync_new" /\ pc \in Copying /\ pc \in Copying \ {"rename"}
      /\ UNCHANGED <<db, txn, log, new_log, dir, ddir, acked, promised>>
  BY DEF SyncNew, Copying, ghosts
<1>2. g = <<Schema, Data(db)>>
  BY <1>1 DEF Kept, Copy
<1>3. CASE log_commit(new_log) /\ pc' = "rename"
  <2>1. Put(i, g, g)
    BY <1>1, <1>3, CopyFacts, CommitPuts, Zenon
  <2>2. inodes'[i].data = g /\ inodes'[i].disk = g
    BY <2>1, ZenonT(30) DEF Put
  <2>3. Directories' /\ Stores' /\ LogHolds' /\ Memory' /\ Promises'
    <3>1. pc' \in Copying \union {"undo"}
      BY <1>3, Zenon DEF Copying
    <3> QED
      BY <1>1, <2>1, <3>1, CopyAside
  <2>4. Copy'
    BY <1>1, <1>2, <1>3, <2>2, Zenon DEF Copy, Renamed
  <2> QED
    BY <2>3, <2>4, Zenon DEF Kept
<1>4. CASE log_commit_fails(new_log) /\ pc' = "undo"
  <2>1. Put(i, g, inodes[i].disk)
    BY <1>4, ZenonT(30) DEF log_commit_fails, Put, FileInv, Types
  <2>2. Directories' /\ Stores' /\ LogHolds' /\ Memory' /\ Promises'
    BY <1>1, <1>4, <2>1, CopyAside
  <2>3. Copy'
    BY <1>4 DEF Copy, Renamed
  <2> QED
    BY <2>2, <2>3 DEF Kept
<1> QED
  BY <1>3, <1>4 DEF SyncNew

\* The copy holds the database.
LEMMA CopyReads ==
    ASSUME LeastNumber, FileInv, Kept, pc # "down"
    PROVE  LET h == <<Schema, Data(db)>>
           IN  /\ h \in Seq(Record) /\ HasSchema(h) /\ Len(h) = 2
               /\ Readable(h) = 2 /\ Contents(h) = db
<1> DEFINE h == <<Schema, Data(db)>>
<1>1. db \in Seq(Txn) /\ Replayable(db)
  BY AckedIs
<1>2. Data(db) \in Record /\ Schema \in Record
  BY <1>1, RecordsAre DEF Data, Record
<1>3. h = Append(<<Schema>>, Data(db))
  BY <1>2, AppendPair
<1>4. <<>> \o db = db
  BY <1>1
<1>5. Replayable(Contents(<<Schema>>) \o db)
  BY <1>1, <1>4, SchemaOnly
<1>6. h \in Seq(Record) /\ Readable(h) = Len(<<Schema>>) + 1 /\ Contents(h) = Contents(<<Schema>>) \o db
  BY <1>1, <1>3, <1>5, SchemaOnly, ReadsData, Zenon
<1>7. HasSchema(h) /\ Len(h) = 2
  BY DEF HasSchema
<1> HIDE DEF h
<1>8. Contents(h) = db
  BY <1>4, <1>6, SchemaOnly, Zenon
<1>9. Readable(h) = 2
  BY <1>6, SchemaOnly
<1> QED
  BY <1>6, <1>7, <1>8, <1>9 DEF h

LEMMA LevelIs ==
    ASSUME FileInv, Kept
    PROVE  /\ Level \in Nat /\ promised <= Level
           /\ pc # "down" => Level <= Len(db)
<1>1. pc = "down" => txn = "none"
  BY DEF FileInv, Transacting
<1> QED
  BY <1>1, AckedIs DEF Level

LEMMA RenameKeeps ==
    ASSUME LeastNumber, FileInv, Kept, Rename
    PROVE  Kept'
<1>1. /\ pc = "rename" /\ pc \in Copying /\ pc # "down" /\ pc # "sync_dir"
      /\ UNCHANGED <<db, txn, log, new_log, inodes, ddir, acked, promised>>
  BY DEF Rename, Copying, ghosts
<1>2. Memory' /\ Promises'
  <2>1. pc' # "down"
    BY DEF Rename
  <2> QED
    BY <1>1, <2>1 DEF Kept, Memory, Promises
<1>3. CASE dir' = [db |-> dir.tmp, tmp |-> NoInode] /\ pc' = "sync_dir"
  <2> DEFINE i == new_log.inode
             h == <<Schema, Data(db)>>
  <2>1. dir'.db = i
    BY <1>1, <1>3, ZenonT(30) DEF FileInv, NewLog
  <2>2. inodes[i].data = h /\ inodes[i].disk = h
    BY <1>1 DEF Kept, Copy
  <2>3. h \in Seq(Record) /\ HasSchema(h) /\ Contents(h) = db
    BY <1>1, CopyReads
  <2>4. Level' = Level /\ Level <= Len(db) /\ Held = db /\ Held' = db
    BY <1>1, <1>3, LevelIs, Zenon DEF Level, Held
  <2> HIDE DEF h, i
  <2>5. Synced(inodes[i], Level)
    BY <2>2, <2>3, <2>4, SyncedNow, ZenonT(30)
  <2>6. Stored(inodes[ddir.db])
    BY DEF Kept, Stores
  <2>7. Stores'
    BY <1>1, <1>3, <2>1, <2>2, <2>3, <2>4, <2>5, <2>6, ZenonT(30) DEF Stores, Stored
  <2>8. Copy' /\ Directories' /\ LogHolds'
    BY <1>1, <1>3, Zenon DEF Kept, Copy, Directories, LogHolds, Renamed
  <2> QED
    BY <1>2, <2>7, <2>8, Zenon DEF Kept
<1>4. CASE UNCHANGED dir /\ pc' = "undo"
  <2>1. Held' = Held /\ Level' = Level
    BY <1>1, <1>4 DEF Held, Level
  <2>2. pc \in Steady /\ pc' \in Steady
    BY <1>1, <1>4, Zenon DEF Steady, PCs, Renamed, Compacting
  <2>3. Directories' /\ Stores' /\ LogHolds'
    BY <1>1, <1>4, <2>1, <2>2, StoreFrame, ZenonT(30)
  <2>4. Copy'
    BY <1>4 DEF Copy, Renamed
  <2> QED
    BY <1>2, <2>3, <2>4 DEF Kept
<1> QED
  BY <1>3, <1>4, Zenon DEF Rename

LEMMA SyncDirKeeps ==
    ASSUME FileInv, Kept, SyncDir, sound'
    PROVE  Kept'
<1>1. /\ pc = "sync_dir" /\ pc' = "swap" /\ ddir' = dir
      /\ UNCHANGED <<db, txn, log, new_log, inodes, dir, acked, promised>>
  BY DEF SyncDir
<1>2. Held' = Held /\ Level' = Level
  BY <1>1, Zenon DEF Held, Level
<1>3. Stores'
  BY <1>1, <1>2, ZenonT(30) DEF Kept, Stores, Stored
<1>4. Copy' /\ Directories' /\ LogHolds' /\ Memory' /\ Promises'
  BY <1>1 DEF Kept, Copy, Directories, LogHolds, Memory, Promises, Renamed
<1> QED
  BY <1>3, <1>4 DEF Kept

LEMMA SwapKeeps ==
    ASSUME LeastNumber, FileInv, Kept, Swap
    PROVE  Kept'
<1> DEFINE i == new_log.inode
           h == <<Schema, Data(db)>>
<1>1. /\ pc = "swap" /\ pc' \in {"idle", "answer"} /\ log' = new_log
      /\ UNCHANGED <<db, txn, inodes, dir, ddir, acked, promised>>
  BY DEF Swap, Compacted, files, ghosts
<1>2. Held' = Held /\ Level' = Level
  BY <1>1 DEF Held, Level
<1>3. Stores'
  BY <1>1, <1>2, Zenon DEF Kept, Stores, Stored
<1>4. i = dir.db /\ ~Truncates(new_log) /\ new_log.offset = Len(inodes[i].data)
  BY <1>1, ZenonT(30) DEF FileInv, NewLog, Renamed
<1>5. inodes[i].data = h
  BY <1>1 DEF Kept, Copy, Renamed
<1>6. Len(h) = 2 /\ Readable(h) = 2
  BY <1>1, CopyReads
<1>7. LogHolds'
  BY <1>1, <1>4, <1>5, <1>6, ZenonT(30) DEF LogHolds
<1>8. Copy' /\ Directories' /\ Memory' /\ Promises'
  BY <1>1 DEF Kept, Copy, Directories, Memory, Promises, Renamed
<1> QED
  BY <1>3, <1>7, <1>8 DEF Kept

-------------------------------------------------------------------------------
(* The process dies and starts again.                                         *)

\* Whatever it was doing, the database is one that a restart may find.
LEMMA RecoversNow ==
    ASSUME FileInv, Kept, NEW i \in {dir.db, ddir.db}
    PROVE  Recovers(Contents(inodes[i].data))
<1>1. CASE pc = "down"
  BY <1>1 DEF Kept, Stores, Stored
<1>2. CASE pc # "down"
  <2>1. Contents(inodes[i].data) = Held
    BY <1>2 DEF Kept, Stores, Stored
  <2>2. Len(acked) \in promised .. Len(acked) /\ acked = SubSeq(acked, 1, Len(acked))
    BY AckedIs, SubSeqFull
  <2>3. Held = acked \/ \E t \in Txn : Held = Append(acked, t)
    BY <1>2 DEF Held, Kept, Memory
  <2> QED
    BY <2>1, <2>2, <2>3, ZenonT(30) DEF Recovers
<1> QED
  BY <1>1, <1>2, ZenonT(30)

LEMMA DownKeeps ==
    ASSUME FileInv, Kept, Down, dir'.db = ddir'.db, NEW i, i = dir'.db,
           Synced(inodes'[i], promised), Recovers(Contents(inodes'[i].data))
    PROVE  Kept'
<1>1. pc' = "down" /\ txn' = "none" /\ UNCHANGED <<acked, promised>>
  BY DEF Down
<1>2. Level' = promised
  BY <1>1 DEF Level
<1>3. Stores'
  BY <1>1, <1>2, ZenonT(30) DEF Stores, Stored, Recovers
<1>4. Copy' /\ Directories' /\ LogHolds' /\ Memory' /\ Promises'
  BY <1>1 DEF Kept, Copy, Directories, LogHolds, Memory, Promises, Renamed
<1> QED
  BY <1>3, <1>4 DEF Kept

LEMMA KillKeeps ==
    ASSUME LeastNumber, FileInv, Kept, Kill, sound'
    PROVE  Kept'
<1> DEFINE i == dir.db
           g == inodes[i].data
<1>1. pc # "down" /\ pc # "sync_dir" /\ Down /\ UNCHANGED <<dir, ddir>>
  BY Zenon DEF Kill
<1>2. ddir.db = i
  BY <1>1, Zenon DEF Kept, Directories
<1>3. inodes[i] \in File /\ Whole(inodes[i]) /\ g \in Seq(Record) /\ HasSchema(g)
  BY DatabaseFacts, Zenon
<1>4. Synced(inodes[i], promised)
  <2>1. Synced(inodes[i], Level)
    BY Zenon DEF Kept, Stores, Stored
  <2>2. Len(Contents(inodes[i].disk)) \in Nat
    BY DatabaseFacts, ContentsType, Zenon
  <2> QED
    BY <2>1, <2>2, LevelIs, AckedIs, AtMost, Zenon DEF Synced
<1>5. Recovers(Contents(g))
  BY RecoversNow, Zenon
<1>6. Synced(inodes'[i], promised) /\ Recovers(Contents(inodes'[i].data))
  <2>1. CASE UNCHANGED inodes
    BY <1>4, <1>5, <2>1
  <2>2. CASE pc = "write" /\ SetData(log.inode, Append(Base(log), Torn))
    <3> DEFINE d == Append(Base(log), Torn)
    <3>1. pc \in Steady
      BY <2>2, Zenon DEF Steady, PCs, Renamed
    <3>2. /\ log.inode = i /\ Readable(g) = log.offset /\ Base(log) = SubSeq(g, 1, log.offset)
          /\ Base(log) \in Seq(Record) /\ HasSchema(Base(log)) /\ Len(Base(log)) = log.offset
      BY <3>1, LogBase, Zenon
    <3>3. log.offset \in Nat /\ Len(g) \in Nat /\ log.offset \in Readable(g) .. Len(g)
      <4> HIDE DEF g
      <4>1. Readable(g) \in 1 .. Len(g) /\ Readable(g) \in Nat /\ Len(g) \in Nat
        BY <1>3, ContentsType
      <4> QED
        BY <3>2, <4>1
    <3>4. d \in Seq(Record) /\ Readable(d) = Readable(g) /\ Contents(d) = Contents(g)
      <4> HIDE DEF g
      <4>1. d \in {SubSeq(g, 1, log.offset), Append(SubSeq(g, 1, log.offset), Torn)}
        BY <3>2
      <4> QED
        BY <1>3, <3>3, <4>1, ReadsCut, Zenon
    <3>5. HasSchema(d) /\ SubSeq(d, 1, log.offset) = SubSeq(g, 1, log.offset) /\ Len(d) = log.offset + 1
      <4>1. Torn \in Record
        BY RecordsAre, ZenonT(30)
      <4>2. SubSeq(Append(Base(log), Torn), 1, Len(Base(log))) = Base(log)
        BY <3>2, <4>1, StartsAppend
      <4>3. HasSchema(d)
        BY <3>2, <4>1, SchemaStays, Zenon
      <4>4. Len(d) = Len(Base(log)) + 1
        BY <3>2, <4>1, AppendProperties
      <4> QED
        BY <3>2, <4>2, <4>3, <4>4, Zenon
    <3>6. Put(i, d, inodes[i].disk)
      BY <2>2, <3>2, <3>4, DatabaseFacts, SetDataPuts, Zenon DEF FileInv, Types
    <3>7. inodes'[i].data = d /\ inodes'[i].disk = inodes[i].disk
      BY <3>6, ZenonT(30) DEF Put
    <3> HIDE DEF d
    <3>8. log.offset <= Len(d) /\ log.offset <= Readable(d)
      BY <3>2, <3>3, <3>4, <3>5
    <3>9. Synced(inodes'[i], promised)
      BY <1>3, <1>4, <3>2, <3>3, <3>4, <3>5, <3>7, <3>8, SyncedStill, Zenon
    <3> QED
      BY <1>5, <3>4, <3>7, <3>9, Zenon
  <2> QED
    BY <2>1, <2>2, ZenonT(30) DEF Kill
<1> QED
  BY <1>1, <1>2, <1>6, DownKeeps

LEMMA PowerKeeps ==
    ASSUME LeastNumber, FileInv, Kept, PowerFailure
    PROVE  Kept'
<1> DEFINE i == dir'.db
<1>1. Down /\ dir' \in {dir, ddir} /\ ddir' = dir'
  BY DEF PowerFailure
<1>2. i \in {dir.db, ddir.db}
  BY <1>1, ZenonT(30)
<1>3. /\ i \in DOMAIN inodes /\ inodes[i] \in File /\ Whole(inodes[i])
      /\ inodes[i].data \in Seq(Record) /\ HasSchema(inodes[i].data) /\ inodes \in Seq(File)
  BY <1>2, DatabaseFacts DEF FileInv, Types
<1>4. PICK g \in Images(inodes[i]) : inodes' = [inodes EXCEPT ![i] = [data |-> g, disk |-> g]]
  BY Zenon DEF PowerFailure
<1>5. g \in Seq(Record) /\ HasSchema(g)
  BY <1>3, ImagesWhole, Zenon
<1>6. inodes'[i].data = g /\ inodes'[i].disk = g
  <2>1. Put(i, g, g)
    BY <1>3, <1>4, <1>5, PutIs, Zenon
  <2> QED
    BY <2>1 DEF Put
<1>7. Synced(inodes[i], Level)
  BY <1>2, Zenon DEF Kept, Stores, Stored
<1> HIDE DEF i
<1>8. promised <= Len(Contents(g)) /\ Starts(Contents(g), Contents(inodes[i].data))
  <2>1. Level <= Len(Contents(g))
    BY <1>3, <1>7, LevelIs, SyncedHolds
  <2>2. Len(Contents(g)) \in Nat
    BY <1>5, ContentsType, ZenonT(30)
  <2>3. Starts(Contents(g), Contents(inodes[i].data))
    BY <1>3, <1>7, ImageBetween, Zenon
  <2> QED
    BY <2>1, <2>2, <2>3, LevelIs, AckedIs, AtMost, Zenon
<1>9. Recovers(Contents(g))
  <2>1. Recovers(Contents(inodes[i].data))
    BY <1>2, RecoversNow, Zenon
  <2>2. Contents(g) \in Seq(Txn) /\ Contents(inodes[i].data) \in Seq(Txn)
    BY <1>3, <1>5, ContentsType, ZenonT(30)
  <2> QED
    BY <1>8, <2>1, <2>2, AckedIs, RecoversLess, Zenon
<1>10. Synced(inodes'[i], promised)
  BY <1>5, <1>6, <1>8, SyncedNow
<1> QED
  BY <1>1, <1>6, <1>9, <1>10, DownKeeps, Zenon DEF i

LEMMA OpenKeeps ==
    ASSUME LeastNumber, FileInv, Kept, Open
    PROVE  Kept'
<1> DEFINE g == inodes[dir.db].data
<1>1. /\ pc = "down" /\ pc' = "idle" /\ txn = "none" /\ txn' = "none"
      /\ db' = Contents(g) /\ acked' = Contents(g)
      /\ log' = [OpenLog(dir.db) EXCEPT !.offset = Readable(g)]
      /\ UNCHANGED <<inodes, dir, ddir, promised>>
  BY Zenon DEF Open, Contents, files, FileInv, Transacting
<1>2. inodes[dir.db] \in File /\ Whole(inodes[dir.db]) /\ g \in Seq(Record) /\ HasSchema(g)
  BY DatabaseFacts, ZenonT(30)
<1>3. Replayable(Contents(g))
  BY <1>2, ContentsType
<1>4. ddir.db = dir.db
  BY <1>1 DEF Kept, Directories
<1>5. Level = promised /\ Level' = promised /\ Held' = Contents(g)
  BY <1>1, Zenon DEF Level, Held
<1>6. Synced(inodes[dir.db], promised)
  BY <1>5, ZenonT(30) DEF Kept, Stores, Stored
<1>7. promised <= Len(Contents(g))
  BY <1>2, <1>6, AckedIs, SyncedHolds
<1>8. Stores'
  BY <1>1, <1>4, <1>5, <1>6 DEF Stores, Stored
<1>9. Promises' /\ Directories' /\ Memory' /\ Copy'
  BY <1>1, <1>3, <1>4, <1>7 DEF Promises, Directories, Memory, Copy, Renamed
<1>10. log'.inode = dir.db /\ log'.offset = Readable(g) /\ log'.mode = "READ"
  BY <1>1 DEF OpenLog
<1>11. LogHolds'
  BY <1>1, <1>10 DEF LogHolds, Truncates
<1> QED
  BY <1>8, <1>9, <1>11 DEF Kept

\* Trust that is lost does not come back.
LEMMA SoundFalls ==
    ASSUME FileInv, [Next]_vars, sound'
    PROVE  sound
<1> USE DEF ghosts
<1>1. CASE Kill
  <2>1. sound' = (sound /\ pc # "sync_dir")
    BY <1>1, Zenon DEF Kill
  <2> QED
    BY <2>1, Zenon
<1>2. CASE UNCHANGED sound
  BY <1>2
<1>3. CASE ~sound'
  BY <1>3
<1>4. CASE Sync \/ SyncOld \/ SyncDir
  <2>1. UNCHANGED sound \/ sound' = FALSE
    BY <1>4, Zenon DEF Sync, SyncOld, SyncDir
  <2> QED
    BY <2>1, Zenon
<1>5. CASE WriteSchema \/ WriteData
  BY <1>2, <1>5, Zenon DEF WriteSchema, WriteData, WriteCopy
<1> QED
  BY <1>1, <1>2, <1>4, <1>5, Zenon
  DEF Next, Commit, Write, Written, Answer, CompactCommand, LockTmp, UnlinkTmp, Create, SyncNew,
      Rename, Swap, Undo, PowerFailure, Open, vars

LEMMA StoreStep ==
    ASSUME LeastNumber
    PROVE  FileInv /\ StoreInv /\ [Next]_vars => StoreInv'
<1> SUFFICES ASSUME FileInv, StoreInv, [Next]_vars, sound' PROVE Kept'
  BY DEF StoreInv
<1>1. Kept
  BY SoundFalls DEF StoreInv
<1>2. CASE \E t \in Txn, durable \in BOOLEAN : Commit(t, durable)
  BY <1>1, <1>2, CommitKeeps
<1>3. CASE Write
  BY <1>1, <1>3, WriteKeeps
<1>4. CASE Sync \/ SyncOld
  BY <1>1, <1>4, SyncKeeps
<1>5. CASE Answer
  BY <1>1, <1>5, AnswerKeeps
<1>6. CASE Written \/ CompactCommand \/ LockTmp \/ UnlinkTmp \/ Undo
  BY <1>1, <1>6, AsideKeeps
<1>7. CASE Create
  BY <1>1, <1>7, CreateKeeps
<1>8. CASE WriteSchema \/ WriteData
  BY <1>1, <1>8, CopyKeeps, ZenonT(30)
<1>9. CASE SyncNew
  BY <1>1, <1>9, SyncNewKeeps
<1>10. CASE Rename
  BY <1>1, <1>10, RenameKeeps
<1>11. CASE SyncDir
  BY <1>1, <1>11, SyncDirKeeps
<1>12. CASE Swap
  BY <1>1, <1>12, SwapKeeps
<1>13. CASE Kill
  BY <1>1, <1>13, KillKeeps, ZenonT(30)
<1>14. CASE PowerFailure
  BY <1>1, <1>14, PowerKeeps
<1>15. CASE Open
  BY <1>1, <1>15, OpenKeeps
<1>16. CASE UNCHANGED vars
  <2>1. Held' = Held /\ Level' = Level
    BY <1>16 DEF vars, Held, Level
  <2>2. Promises' /\ Directories' /\ Memory' /\ LogHolds' /\ Copy'
    BY <1>1, <1>16, Zenon DEF vars, files, Kept, Promises, Directories, Memory, LogHolds, Copy, Truncates
  <2>3. Stores'
    BY <1>1, <1>16, <2>1, Zenon DEF vars, files, Kept, Stores, Stored, Recovers
  <2> QED
    BY <2>2, <2>3 DEF Kept
<1> QED
  BY <1>2, <1>3, <1>4, <1>5, <1>6, <1>7, <1>8, <1>9, <1>10, <1>11, <1>12, <1>13, <1>14, <1>15, <1>16, ZenonT(30)
  DEF Next

-------------------------------------------------------------------------------
\* The steps of DurableStore that the storage takes.
LEMMA StoreRefines ==
    ASSUME LeastNumber, FileInv, StoreInv, [Next]_vars
    PROVE  [Store!Next]_(Store!vars)
<1>1. CASE ~sound'
  <2>1. sound' = FALSE
    BY <1>1, FileStep DEF FileInv, Types
  <2> QED
    BY <2>1 DEF Store!Next, Store!LoseTrust
<1>2. CASE sound'
  <2>1. sound /\ Kept
    BY <1>2, SoundFalls DEF StoreInv
  <2>2. sound = TRUE /\ sound' = TRUE
    BY <1>2, <2>1, FileStep DEF FileInv, Types
  <2>3. UNCHANGED sound
    BY <2>2
  <2>4. CASE Answer
    <3>1. /\ pc = "answer" /\ acked' = db
          /\ promised' = IF txn = "durable" THEN Len(db) ELSE promised
      BY <2>4 DEF Answer
    <3>2. CASE txn = "none"
      <4>1. db = acked
        BY <2>1, <3>1, <3>2 DEF Kept, Memory
      <4> QED
        BY <2>3, <3>1, <3>2, <4>1 DEF Store!vars
    <3>3. CASE txn # "none"
      <4>1. PICK t \in Txn : db = Append(acked, t)
        BY <2>1, <3>1, <3>3 DEF Kept, Memory
      <4>2. CASE txn = "durable"
        <5>1. Store!Answer(t, TRUE)
          BY <2>3, <3>1, <4>1, <4>2 DEF Store!Answer
        <5> QED
          BY <5>1, Zenon DEF Store!Next
      <4>3. CASE txn # "durable"
        <5>1. Store!Answer(t, FALSE)
          BY <2>3, <3>1, <4>1, <4>3 DEF Store!Answer
        <5> QED
          BY <5>1, Zenon DEF Store!Next
      <4> QED
        BY <4>2, <4>3
    <3> QED
      BY <3>2, <3>3
  <2>5. CASE Open
    <3>1. acked' = Contents(inodes[dir.db].data) /\ UNCHANGED promised
      BY <2>5 DEF Open, Contents
    <3>2. Recovers(acked')
      BY <2>1, <3>1, RecoversNow, ZenonT(30)
    <3>3. Store!Restart
      BY <2>3, <3>1, <3>2 DEF Recovers, Store!Restart
    <3> QED
      BY <3>3 DEF Store!Next
  <2>6. CASE UNCHANGED <<acked, promised>>
    BY <2>3, <2>6, ZenonT(30) DEF Store!vars
  <2>7. Answer \/ Open \/ UNCHANGED <<acked, promised>>
    BY DEF Next, Commit, Write, Sync, Written, CompactCommand, SyncOld, LockTmp, UnlinkTmp, Create,
           WriteSchema, WriteData, WriteCopy, SyncNew, Rename, SyncDir, Swap, Undo, Kill,
           PowerFailure, Down, ghosts, vars
  <2> QED
    BY <2>4, <2>5, <2>6, <2>7
<1> QED
  BY <1>1, <1>2

-------------------------------------------------------------------------------
(* The theorems.                                                              *)

WF == INSTANCE WellFoundedInduction

LEMMA LeastNumberHolds == LeastNumber
<1> SUFFICES ASSUME NEW S \in SUBSET Nat, S # {} PROVE \E x \in S : \A y \in S : x <= y
  BY DEF LeastNumber
<1> DEFINE R == WF!OpToRel(<, Nat)
<1>1. WF!IsWellFoundedOn(R, Nat)
  BY WF!NatLessThanWellFounded, Zenon
<1> HIDE DEF R
<1>2. PICK x \in S : \A y \in S : <<y, x>> \notin R
  BY <1>1, WF!WFMin, Zenon
<1>3. \A y \in S : ~(y < x)
  BY <1>2, Zenon DEF R, WF!OpToRel
<1>4. \A y \in S : x <= y
  BY <1>3
<1> QED
  BY <1>4

LEMMA FileAlways == Spec => []FileInv
<1>1. FileInv /\ [Next]_vars => FileInv'
  BY FileStep, LeastNumberHolds, Zenon
<1> QED
  BY <1>1, FileInit, PTL DEF Spec

\* The files and logs stay what the functions of log.c and file.c take them for: a
\* log always has a file, and the database always has an inode.
THEOREM TypeCorrect == Spec => []TypeOK
<1>1. FileInv => TypeOK
  <2> SUFFICES ASSUME FileInv PROVE TypeOK
    OBVIOUS
  <2>1. inodes \in Seq(File) /\ DOMAIN inodes = 1 .. Len(inodes)
    BY LenProperties DEF FileInv, Types
  <2> QED
    BY <2>1 DEF FileInv, Types, Databases, OldLog, NewLog, TypeOK, PCs
<1> QED
  BY <1>1, FileAlways, PTL

\* Whatever calls fail and wherever the process is killed, at every step of
\* ovsdb_file_compact() and of a commit a power failure leaves a database that
\* ovsdb_file_open() can read: the old version or the new one.
THEOREM AlwaysEitherVersion == Spec => []EitherVersion
<1>1. FileInv => EitherVersion
  <2> SUFFICES ASSUME FileInv, NEW d \in {dir, ddir}, NEW f \in Images(inodes[d.db])
               PROVE  HasSchema(f)
    BY Zenon DEF EitherVersion
  <2>1. inodes \in Seq(File) /\ d.db \in DOMAIN inodes /\ Whole(inodes[d.db])
    BY DEF FileInv, Types, Databases
  <2>2. inodes[d.db] \in File
    BY <2>1, FileAt
  <2> QED
    BY <2>1, <2>2, ImagesWhole, ZenonT(30)
<1> QED
  BY <1>1, FileAlways, PTL

\* The storage implements DurableStore: whatever calls fail, wherever the process
\* is killed or the power fails, and with a compaction at any time, a restart undoes
\* no transaction that was answered as durable, and of the others only the last
\* ones; unless a sync has failed before.
THEOREM StorageIsDurable == Spec => Durable
<1>1. Init => Store!Init
  BY DEF Init, Store!Init
<1>2. Spec => [](FileInv /\ StoreInv)
  <2>1. Init => StoreInv
    BY StoreInit, LeastNumberHolds, Zenon
  <2>2. FileInv /\ StoreInv /\ [Next]_vars => StoreInv'
    BY StoreStep, LeastNumberHolds, Zenon
  <2> QED
    BY <2>1, <2>2, FileAlways, PTL DEF Spec
<1>3. FileInv /\ StoreInv /\ [Next]_vars => [Store!Next]_(Store!vars)
  BY StoreRefines, LeastNumberHolds
<1> QED
  BY <1>1, <1>2, <1>3, PTL DEF Spec, Durable, Store!Spec

================================================================================
