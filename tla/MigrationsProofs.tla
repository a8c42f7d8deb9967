-------------------------- MODULE MigrationsProofs --------------------------
(***************************************************************************)
(* Migrations for every number of runners and every set of directories.    *)
(***************************************************************************)
EXTENDS Migrations, FiniteSetTheorems, SequenceTheorems, TLAPS

Releases == {Sorted(dir) : dir \in {d \in Directories : Loadable(d)}}

(* Statements under the lock, and those after the rows have been read. *)
Working == {"run", "record", "commit", "orphanCommit"}
Locked == Working \cup {"read"}

Done(r) == Len(schema) + Len(run[r])
RowsUpTo(r, n) == {release[r][v] : v \in Len(schema) + 1 .. n}

LoadedInv(r) ==
  /\ pc[r] # "idle" => release[r] \in Releases
  /\ pc[r] \in {"idle", "lock", "read"} => run[r] = <<>> /\ inserted[r] = {}

LockInv(r) == pc[r] \in Locked => lock = r

(* What has been committed and what a runner has run continue each other   *)
(* along its release.                                                      *)
ProgressInv(r) ==
  pc[r] \in Working =>
    /\ applied[r] = recorded
    /\ Done(r) <= Len(release[r])
    /\ \A n \in 1..Len(schema) : schema[n] = release[r][n]
    /\ \A n \in 1..Len(run[r]) : run[r][n] = release[r][Len(schema) + n]

InsertedInv(r) ==
  /\ pc[r] \in {"run", "commit", "orphanCommit"} => inserted[r] = RowsUpTo(r, Done(r))
  /\ pc[r] = "record" => run[r] # <<>> /\ inserted[r] = RowsUpTo(r, Done(r) - 1)
  /\ pc[r] \in {"commit", "orphanCommit"} => Done(r) = Len(release[r])

RunnerInv(r) == LoadedInv(r) /\ LockInv(r) /\ ProgressInv(r) /\ InsertedInv(r)

WholeRelease == schema = <<>> \/ schema \in Releases

MInv ==
  /\ TypeOK
  /\ RecordTrue
  /\ WholeRelease
  /\ \A r \in Runners : RunnerInv(r)

(* A release is numbered from one. *)
LEMMA ReleaseFacts ==
  ASSUME NEW rel \in Releases
  PROVE  /\ rel \in Seq(File) /\ Len(rel) \in Nat /\ Len(rel) <= MaxVersion
         /\ DOMAIN rel = 1..Len(rel) /\ 1..Len(rel) \subseteq Versions
         /\ \A n \in 1..Len(rel) : rel[n] \in File /\ rel[n].version = n
<1>1. PICK dir \in Directories : Loadable(dir) /\ rel = Sorted(dir)
  BY DEF Releases
<1>2. IsFiniteSet(dir) /\ dir \subseteq File /\ MaxVersion \in Nat
  BY <1>1, DirectoriesAssumption
<1>3. Cardinality(dir) \in Nat
  BY <1>2, FS_CardinalityType
<1>4. \A n \in 1..Cardinality(dir) : \E file \in dir : file.version = n
  BY <1>1 DEF Loadable
<1>5. \A n \in 1..Cardinality(dir) : rel[n] \in dir /\ rel[n].version = n
  <2> TAKE n \in 1..Cardinality(dir)
  <2>1. rel[n] = CHOOSE file \in dir : file.version = n
    BY <1>1 DEF Sorted
  <2> QED BY <1>4, <2>1
<1>6. rel \in [1..Cardinality(dir) -> File]
  BY <1>1, <1>2, <1>5 DEF Sorted
<1>7. rel \in Seq(File) /\ Len(rel) = Cardinality(dir) /\ DOMAIN rel = 1..Len(rel)
  BY <1>3, <1>6
<1>8. 1..Len(rel) \subseteq Versions
  BY <1>2, <1>5, <1>7 DEF File
<1>9. Len(rel) <= MaxVersion
  BY <1>2, <1>3, <1>7, <1>8 DEF Versions
<1> QED BY <1>2, <1>3, <1>5, <1>7, <1>8, <1>9

(* What is read under the lock and found unchanged is a part of the        *)
(* release.                                                                *)
LEMMA SchemaInRelease ==
  ASSUME TypeOK, RecordTrue, WholeRelease, NEW rel \in Releases, Verified(recorded, rel)
  PROVE  /\ Len(schema) <= Len(rel)
         /\ \A n \in 1..Len(schema) : schema[n] = rel[n]
<1>1. Len(schema) \in Nat /\ \A n \in 1..Len(schema) : n \in Versions /\ schema[n] \in File
  BY ReleaseFacts DEF WholeRelease, TypeOK
<1>2. \A n \in 1..Len(schema) : recorded[n] = schema[n] /\ recorded[n] # NoFile
  BY <1>1, NullAssumption DEF RecordTrue, Versions
<1>3. \A n \in 1..Len(schema) : n \in 1..Len(rel) /\ schema[n] = rel[n]
  BY <1>1, <1>2, ReleaseFacts DEF Verified
<1>4. Len(schema) <= Len(rel)
  <2>1. Len(rel) \in Nat
    BY ReleaseFacts
  <2>2. Len(schema) = 0 \/ Len(schema) \in 1..Len(schema)
    BY <1>1
  <2> QED BY <1>1, <1>3, <2>1, <2>2
<1> QED BY <1>3, <1>4

(* Only the holder of the lock works. *)
LEMMA Alone ==
  ASSUME MInv, NEW r \in Runners, pc[r] \in Locked, NEW q \in Runners, q # r
  PROVE  pc[q] \notin Locked
  BY DEF MInv, RunnerInv, LockInv

(* A runner that does nothing keeps what it knows while nothing is         *)
(* committed and nobody takes the lock from it.                            *)
LEMMA OthersKeep ==
  ASSUME MInv, NEW r \in Runners, UNCHANGED committed,
         \A q \in Runners \ {r} :
           /\ pc'[q] = pc[q] /\ release'[q] = release[q] /\ applied'[q] = applied[q]
           /\ run'[q] = run[q] /\ inserted'[q] = inserted[q],
         \/ lock' = lock
         \/ lock = NoRunner
         \/ lock = r,
         NEW q \in Runners, q # r
  PROVE  RunnerInv(q)'
<1>1. /\ pc'[q] = pc[q] /\ release'[q] = release[q] /\ applied'[q] = applied[q]
      /\ run'[q] = run[q] /\ inserted'[q] = inserted[q] /\ RunnerInv(q)
  BY DEF MInv
<1>2. LockInv(q)'
  BY <1>1, NullAssumption DEF RunnerInv, LockInv
<1>3. LoadedInv(q)' /\ ProgressInv(q)' /\ InsertedInv(q)'
  BY <1>1 DEF RunnerInv, LoadedInv, ProgressInv, InsertedInv, Done, RowsUpTo, committed
<1> QED BY <1>2, <1>3 DEF RunnerInv

(* The end of a transaction that commits nothing. *)
LEMMA Ends ==
  ASSUME MInv, NEW r \in Runners, End(r), UNCHANGED committed,
         outcome' \in [Runners -> {"none", "current", "failed"}]
  PROVE  MInv'
<1>1. TypeOK'
  <2>1. NoRows \in [Versions -> File \cup {NoFile}]
    BY DEF NoRows
  <2>2. <<>> \in Seq(File)
    OBVIOUS
  <2> QED BY <2>1, <2>2 DEF MInv, TypeOK, End, Goto, committed
<1>2. RecordTrue' /\ WholeRelease'
  BY DEF MInv, RecordTrue, WholeRelease, committed
<1>3. RunnerInv(r)'
  BY DEF MInv, TypeOK, End, Goto, RunnerInv, LoadedInv, LockInv, Locked, Working, ProgressInv,
         InsertedInv
<1>4. \A q \in Runners : q # r => RunnerInv(q)'
  <2>1. \A q \in Runners \ {r} :
          /\ pc'[q] = pc[q] /\ release'[q] = release[q] /\ applied'[q] = applied[q]
          /\ run'[q] = run[q] /\ inserted'[q] = inserted[q]
    BY DEF MInv, TypeOK, End, Goto
  <2>2. lock' = lock \/ lock = r
    BY DEF End
  <2> QED BY <2>1, <2>2, OthersKeep
<1> QED BY <1>1, <1>2, <1>3, <1>4 DEF MInv

(* What a commit makes of the schema: the whole release of its runner. *)
LEMMA CommitsRelease ==
  ASSUME MInv, NEW r \in Runners, pc[r] \in {"commit", "orphanCommit"}, Apply(r)
  PROVE  /\ schema' = release[r] /\ release[r] \in Releases
         /\ recorded' \in [Versions -> File \cup {NoFile}]
         /\ RecordTrue'
         /\ Len(schema) <= Len(release[r])
         /\ \A n \in 1..Len(schema) : schema[n] = release[r][n]
<1> DEFINE rel == release[r]
<1>1. rel \in Releases /\ rel \in Seq(File) /\ Len(rel) \in Nat /\ 1..Len(rel) \subseteq Versions
  BY ReleaseFacts DEF MInv, RunnerInv, LoadedInv
<1>2. /\ Len(schema) \in Nat /\ Len(run[r]) \in Nat /\ schema \in Seq(File) /\ run[r] \in Seq(File)
      /\ Len(schema) + Len(run[r]) = Len(rel)
      /\ \A n \in 1..Len(schema) : schema[n] = rel[n]
      /\ \A n \in 1..Len(run[r]) : run[r][n] = rel[Len(schema) + n]
      /\ inserted[r] = {rel[v] : v \in Len(schema) + 1 .. Len(rel)}
  <2>1. /\ ProgressInv(r) /\ InsertedInv(r) /\ schema \in Seq(File) /\ run[r] \in Seq(File)
        /\ Done(r) = Len(rel) /\ inserted[r] = RowsUpTo(r, Done(r))
    BY DEF MInv, TypeOK, RunnerInv, InsertedInv
  <2>2. inserted[r] = {rel[v] : v \in Len(schema) + 1 .. Len(rel)}
    BY <2>1 DEF RowsUpTo
  <2> QED BY <2>1, <2>2, LenProperties DEF ProgressInv, Working, Done
<1>3. schema' = rel
  <2>1. schema' = schema \o run[r]
    BY DEF Apply
  <2>2. schema' \in Seq(File) /\ Len(schema') = Len(rel)
    BY <1>2, <2>1, ConcatProperties
  <2>3. ASSUME NEW n \in 1..Len(rel)
        PROVE  schema'[n] = rel[n]
    <3>1. CASE n <= Len(schema)
      BY <1>1, <1>2, <2>1, <2>3, <3>1, ConcatProperties
    <3>2. CASE n > Len(schema)
      <4>1. n - Len(schema) \in 1..Len(run[r]) /\ Len(schema) + (n - Len(schema)) = n
        BY <1>1, <1>2, <2>3, <3>2
      <4>2. schema'[n] = run[r][n - Len(schema)]
        BY <1>1, <1>2, <2>1, <2>3, <3>2, ConcatProperties
      <4> QED BY <1>2, <4>1, <4>2
    <3> QED BY <1>1, <1>2, <2>3, <3>1, <3>2
  <2> QED BY <1>1, <2>2, <2>3, SeqEqual
<1>4. \A n \in 1..Len(rel) : rel[n] \in File /\ rel[n].version = n
  BY <1>1, ReleaseFacts
<1>5. \A v \in Versions : recorded'[v] = IF v <= Len(rel) THEN rel[v] ELSE NoFile
  <2> TAKE v \in Versions
  <2>1. v \in Nat \ {0}
    BY DirectoriesAssumption DEF Versions
  <2>2. CASE v \in Len(schema) + 1 .. Len(rel)
    <3>1. rel[v] \in inserted[r] /\ rel[v].version = v
      BY <1>2, <1>4, <2>1, <2>2
    <3>2. \A row \in inserted[r] : row.version = v => row = rel[v]
      BY <1>2, <1>4
    <3>3. recorded'[v] = CHOOSE row \in inserted[r] : row.version = v
      BY <3>1 DEF Apply
    <3> QED BY <1>1, <2>2, <3>1, <3>2, <3>3
  <2>3. CASE v \notin Len(schema) + 1 .. Len(rel)
    <3>1. \A row \in inserted[r] : row.version # v
      BY <1>2, <1>4, <2>3
    <3>2. recorded'[v] = recorded[v]
      BY <3>1 DEF Apply
    <3>3. recorded[v] = IF v <= Len(schema) THEN schema[v] ELSE NoFile
      BY DEF MInv, RecordTrue
    <3> QED BY <1>1, <1>2, <2>1, <2>3, <3>2, <3>3
  <2> QED BY <2>2, <2>3
<1>6. RecordTrue'
  BY <1>3, <1>5 DEF RecordTrue
<1>7. recorded' \in [Versions -> File \cup {NoFile}]
  <2>1. \A v \in Versions : recorded'[v] \in File \cup {NoFile}
    BY <1>1, <1>4, <1>5 DEF Versions
  <2>2. recorded' = [v \in Versions |-> recorded'[v]]
    BY DEF Apply
  <2> QED BY <2>1, <2>2
<1> QED BY <1>1, <1>2, <1>3, <1>6, <1>7

(* A commit. *)
LEMMA Commits ==
  ASSUME MInv, NEW r \in Runners, pc[r] \in {"commit", "orphanCommit"}, Apply(r), End(r),
         outcome' \in [Runners -> {"none", "current", "failed"}]
  PROVE  MInv'
<1>1. schema' = release[r] /\ release[r] \in Releases /\ RecordTrue'
      /\ recorded' \in [Versions -> File \cup {NoFile}]
  BY CommitsRelease
<1>2. TypeOK'
  <2>1. NoRows \in [Versions -> File \cup {NoFile}] /\ <<>> \in Seq(File)
    BY DEF NoRows
  <2> QED BY <1>1, <2>1, ReleaseFacts DEF MInv, TypeOK, End, Goto
<1>3. WholeRelease'
  BY <1>1 DEF WholeRelease, Releases
<1>4. RunnerInv(r)'
  BY DEF MInv, TypeOK, End, Goto, RunnerInv, LoadedInv, LockInv, Locked, Working, ProgressInv,
         InsertedInv
<1>5. ASSUME NEW q \in Runners, q # r
      PROVE  RunnerInv(q)'
  <2>1. pc[q] \notin Locked /\ RunnerInv(q)
    BY <1>5, Alone DEF MInv, Locked, Working
  <2>2. /\ pc'[q] = pc[q] /\ release'[q] = release[q] /\ run'[q] = run[q]
        /\ inserted'[q] = inserted[q]
    BY <1>5 DEF MInv, TypeOK, End, Goto
  <2> QED BY <2>1, <2>2 DEF RunnerInv, LoadedInv, LockInv, Locked, Working, ProgressInv, InsertedInv
<1> QED BY <1>1, <1>2, <1>3, <1>4, <1>5 DEF MInv

(* The first version that is pending follows those that have been run. *)
LEMMA NextFollows ==
  ASSUME MInv, NEW r \in Runners, pc[r] = "run", NEW v \in Versions, NextPending(r, v)
  PROVE  v = Done(r) + 1 /\ v \in 1..Len(release[r])
<1> DEFINE rel == release[r]
<1>1. /\ rel \in Seq(File) /\ Len(rel) \in Nat /\ DOMAIN rel = 1..Len(rel)
      /\ 1..Len(rel) \subseteq Versions
      /\ \A n \in 1..Len(rel) : rel[n].version = n
  BY ReleaseFacts DEF MInv, RunnerInv, LoadedInv
<1>2. /\ Len(schema) \in Nat /\ Len(run[r]) \in Nat /\ Done(r) <= Len(rel)
      /\ Done(r) = Len(schema) + Len(run[r])
      /\ applied[r] = recorded /\ inserted[r] = RowsUpTo(r, Done(r))
  BY LenProperties DEF MInv, TypeOK, RunnerInv, ProgressInv, InsertedInv, Working, Done
<1>3. v \in 1..Len(rel) /\ recorded[v] = NoFile /\ rel[v] \notin RowsUpTo(r, Done(r))
  BY <1>1, <1>2 DEF NextPending, Pending
<1>4. v > Len(schema)
  <2>1. v <= Len(schema) => recorded[v] = schema[v] /\ schema[v] \in File
    BY <1>2, <1>3 DEF MInv, RecordTrue, TypeOK
  <2> QED BY <1>1, <1>2, <1>3, <2>1, NullAssumption
<1>5. v > Done(r)
  BY <1>1, <1>2, <1>3, <1>4 DEF RowsUpTo
<1>6. Pending(r, Done(r) + 1)
  <2>1. Done(r) + 1 \in 1..Len(rel) /\ Done(r) + 1 \in Versions
    BY <1>1, <1>2, <1>3, <1>5
  <2>2. recorded[Done(r) + 1] = NoFile
    BY <1>2, <2>1 DEF MInv, RecordTrue
  <2>3. rel[Done(r) + 1] \notin RowsUpTo(r, Done(r))
    <3>1. \A u \in Len(schema) + 1 .. Done(r) : u \in 1..Len(rel) /\ u # Done(r) + 1
      BY <1>2
    <3> QED BY <1>1, <2>1, <3>1 DEF RowsUpTo
  <2> QED BY <1>1, <1>2, <2>1, <2>2, <2>3 DEF Pending
<1>7. Done(r) + 1 \in Versions
  BY <1>1, <1>6 DEF Pending
<1>8. v <= Done(r) + 1
  BY <1>6, <1>7 DEF NextPending
<1> QED BY <1>1, <1>2, <1>3, <1>5, <1>8

(* Nothing is pending once the release has been run. *)
LEMMA NothingPending ==
  ASSUME MInv, NEW r \in Runners, pc[r] = "run", \A v \in Versions : ~Pending(r, v)
  PROVE  Done(r) = Len(release[r])
<1> DEFINE rel == release[r]
<1>1. /\ rel \in Seq(File) /\ Len(rel) \in Nat /\ DOMAIN rel = 1..Len(rel)
      /\ 1..Len(rel) \subseteq Versions
      /\ \A n \in 1..Len(rel) : rel[n].version = n
  BY ReleaseFacts DEF MInv, RunnerInv, LoadedInv
<1>2. /\ Len(schema) \in Nat /\ Len(run[r]) \in Nat /\ Done(r) <= Len(rel)
      /\ Done(r) = Len(schema) + Len(run[r])
      /\ applied[r] = recorded /\ inserted[r] = RowsUpTo(r, Done(r))
  BY LenProperties DEF MInv, TypeOK, RunnerInv, ProgressInv, InsertedInv, Working, Done
<1>3. SUFFICES ASSUME Done(r) < Len(rel)
               PROVE  FALSE
  BY <1>1, <1>2
<1>4. Done(r) + 1 \in 1..Len(rel) /\ Done(r) + 1 \in Versions
  BY <1>1, <1>2, <1>3
<1>5. recorded[Done(r) + 1] = NoFile
  BY <1>2, <1>4 DEF MInv, RecordTrue
<1>6. rel[Done(r) + 1] \notin RowsUpTo(r, Done(r))
  <2>1. \A u \in Len(schema) + 1 .. Done(r) : u \in 1..Len(rel) /\ u # Done(r) + 1
    BY <1>2
  <2> QED BY <1>1, <1>4, <2>1 DEF RowsUpTo
<1> QED BY <1>1, <1>2, <1>4, <1>5, <1>6 DEF Pending

(* A step of one runner that commits and ends nothing. *)
LEMMA Steps ==
  ASSUME MInv, NEW r \in Runners, TypeOK', UNCHANGED committed, RunnerInv(r)',
         \A q \in Runners \ {r} :
           /\ pc'[q] = pc[q] /\ release'[q] = release[q] /\ applied'[q] = applied[q]
           /\ run'[q] = run[q] /\ inserted'[q] = inserted[q],
         lock' = lock \/ lock = NoRunner
  PROVE  MInv'
<1>1. RecordTrue' /\ WholeRelease'
  BY DEF MInv, RecordTrue, WholeRelease, committed
<1>2. \A q \in Runners : q # r => RunnerInv(q)'
  BY OthersKeep
<1> QED BY <1>1, <1>2 DEF MInv
-----------------------------------------------------------------------------
LEMMA StartKeeps ==
  ASSUME MInv, NEW r \in Runners, NEW dir \in Directories, Start(r, dir)
  PROVE  MInv'
<1>1. CASE ~Loadable(dir)
  <2>1. TypeOK'
    BY <1>1 DEF MInv, TypeOK, Start, Report, committed
  <2>2. RunnerInv(r)'
    BY <1>1 DEF MInv, Start, RunnerInv, LoadedInv, LockInv, ProgressInv, InsertedInv, Done,
                RowsUpTo, Working, Locked, committed
  <2> QED BY <1>1, <2>1, <2>2, Steps DEF Start
<1>2. CASE Loadable(dir)
  <2>1. Sorted(dir) \in Releases /\ Sorted(dir) \in Seq(File)
    <3>1. Sorted(dir) \in Releases
      BY <1>2 DEF Releases
    <3> QED BY <3>1, ReleaseFacts
  <2>2. TypeOK'
    BY <1>2, <2>1 DEF MInv, TypeOK, Start, Goto, Report, committed, InTransaction
  <2>3. /\ pc'[r] = "lock" /\ release'[r] = Sorted(dir) /\ run'[r] = <<>> /\ inserted'[r] = {}
    BY <1>2 DEF MInv, TypeOK, Start, Goto, RunnerInv, LoadedInv
  <2>4. RunnerInv(r)'
    BY <2>1, <2>3 DEF RunnerInv, LoadedInv, LockInv, ProgressInv, InsertedInv, Working, Locked
  <2>5. \A q \in Runners \ {r} : pc'[q] = pc[q] /\ release'[q] = release[q]
    BY <1>2 DEF MInv, TypeOK, Start, Goto
  <2> QED BY <1>2, <2>2, <2>4, <2>5, Steps DEF Start
<1> QED BY <1>1, <1>2

LEMMA LockKeeps ==
  ASSUME MInv, NEW r \in Runners, Lock(r)
  PROVE  MInv'
<1>1. TypeOK'
  BY DEF MInv, TypeOK, Lock, Goto, InTransaction, committed
<1>2. /\ pc'[r] = "read" /\ lock' = r
      /\ LoadedInv(r) /\ pc[r] = "lock"
  BY DEF MInv, TypeOK, Lock, Goto, RunnerInv
<1>3. RunnerInv(r)'
  BY <1>2 DEF Lock, RunnerInv, LoadedInv, LockInv, ProgressInv, InsertedInv, Working, Locked
<1>4. \A q \in Runners \ {r} : pc'[q] = pc[q]
  BY DEF MInv, TypeOK, Lock, Goto
<1> QED BY <1>1, <1>3, <1>4, Steps DEF Lock

LEMMA ReadKeeps ==
  ASSUME MInv, NEW r \in Runners, Read(r)
  PROVE  MInv'
<1>1. CASE ~Verified(recorded, release[r])
  <2>1. End(r) /\ UNCHANGED committed /\ outcome' \in [Runners -> {"none", "current", "failed"}]
    BY <1>1 DEF Read, Rollback, Report, MInv, TypeOK
  <2> QED BY <2>1, Ends
<1>2. CASE Verified(recorded, release[r])
  <2>1. /\ pc[r] = "read" /\ applied' = [applied EXCEPT ![r] = recorded] /\ Goto(r, "run")
        /\ UNCHANGED <<committed, lock, release, run, inserted, outcome>>
    BY <1>2 DEF Read
  <2>2. TypeOK'
    BY <2>1 DEF MInv, TypeOK, Goto, InTransaction, committed
  <2>3. /\ pc'[r] = "run" /\ applied'[r] = recorded' /\ lock = r
        /\ run[r] = <<>> /\ inserted[r] = {} /\ release[r] \in Releases
    BY <2>1 DEF MInv, TypeOK, Goto, RunnerInv, LoadedInv, LockInv, Locked, committed
  <2>4. /\ Len(schema) <= Len(release[r]) /\ Len(schema) \in Nat /\ Len(run[r]) = 0
        /\ \A n \in 1..Len(schema) : schema[n] = release[r][n]
    BY <1>2, <2>3, SchemaInRelease, LenProperties DEF MInv, TypeOK
  <2>5. Done(r) = Len(schema) /\ RowsUpTo(r, Done(r)) = {}
    BY <2>4 DEF Done, RowsUpTo
  <2>6. LoadedInv(r)' /\ LockInv(r)'
    BY <2>1, <2>3 DEF LoadedInv, LockInv
  <2>7. ProgressInv(r)'
    BY <2>1, <2>3, <2>4 DEF ProgressInv, Done, committed
  <2>8. InsertedInv(r)'
    BY <2>1, <2>3, <2>5 DEF InsertedInv, Done, RowsUpTo, committed
  <2>9. \A q \in Runners \ {r} : pc'[q] = pc[q] /\ applied'[q] = applied[q]
    BY <2>1 DEF MInv, TypeOK, Goto
  <2> QED BY <2>1, <2>2, <2>6, <2>7, <2>8, <2>9, Steps DEF RunnerInv
<1> QED BY <1>1, <1>2

LEMMA RunKeeps ==
  ASSUME MInv, NEW r \in Runners, NEW v \in Versions, Run(r, v)
  PROVE  MInv'
<1> DEFINE rel == release[r]
           ran == run[r]
<1>1. /\ pc[r] = "run" /\ run' = [run EXCEPT ![r] = Append(ran, rel[v])] /\ Goto(r, "record")
      /\ UNCHANGED <<committed, lock, release, applied, inserted, outcome>>
  BY DEF Run
<1>2. v = Done(r) + 1 /\ v \in 1..Len(rel)
  BY <1>1, NextFollows DEF Run
<1>3. /\ rel \in Seq(File) /\ Len(rel) \in Nat /\ rel[v] \in File /\ rel \in Releases
  BY <1>1, <1>2, ReleaseFacts DEF MInv, RunnerInv, LoadedInv
<1>4. /\ schema \in Seq(File) /\ ran \in Seq(File) /\ Len(schema) \in Nat /\ Len(ran) \in Nat
      /\ Done(r) = Len(schema) + Len(ran) /\ lock = r /\ applied[r] = recorded
      /\ \A n \in 1..Len(schema) : schema[n] = rel[n]
      /\ \A n \in 1..Len(ran) : ran[n] = rel[Len(schema) + n]
      /\ inserted[r] = RowsUpTo(r, Done(r))
  BY <1>1, LenProperties DEF MInv, TypeOK, RunnerInv, LockInv, ProgressInv, InsertedInv, Working,
     Locked, Done
<1>5. /\ Append(ran, rel[v]) \in Seq(File) /\ Len(Append(ran, rel[v])) = Len(ran) + 1
      /\ \A n \in 1..Len(ran) : Append(ran, rel[v])[n] = ran[n]
      /\ Append(ran, rel[v])[Len(ran) + 1] = rel[v]
  BY <1>3, <1>4, AppendProperties
<1>6. TypeOK'
  BY <1>1, <1>5 DEF MInv, TypeOK, Goto, InTransaction, committed
<1>7. pc'[r] = "record" /\ run'[r] = Append(ran, rel[v])
  BY <1>1 DEF MInv, TypeOK, Goto
<1>8. Done(r)' = Done(r) + 1
  BY <1>1, <1>4, <1>5, <1>7 DEF Done, committed
<1>9. LoadedInv(r)' /\ LockInv(r)'
  BY <1>1, <1>3, <1>4, <1>7 DEF LoadedInv, LockInv
<1>10. ProgressInv(r)'
  <2>1. Done(r)' <= Len(rel)
    BY <1>2, <1>3, <1>4, <1>8
  <2>2. \A n \in 1..Len(run'[r]) : run'[r][n] = rel[Len(schema) + n]
    BY <1>2, <1>4, <1>5, <1>7
  <2> QED BY <1>1, <1>4, <2>1, <2>2 DEF ProgressInv, committed
<1>11. InsertedInv(r)'
  <2>1. run'[r] # <<>>
    <3>1. Len(run'[r]) # 0
      BY <1>4, <1>5, <1>7
    <3>2. Len(<<>>) = 0
      OBVIOUS
    <3> QED BY <3>1, <3>2
  <2>2. inserted'[r] = RowsUpTo(r, Done(r) - 1)'
    BY <1>1, <1>4, <1>8 DEF RowsUpTo, committed
  <2> QED BY <1>7, <2>1, <2>2 DEF InsertedInv
<1>12. \A q \in Runners \ {r} : pc'[q] = pc[q] /\ run'[q] = run[q]
  BY <1>1 DEF MInv, TypeOK, Goto
<1> QED BY <1>1, <1>6, <1>9, <1>10, <1>11, <1>12, Steps DEF RunnerInv

LEMMA RecordKeeps ==
  ASSUME MInv, NEW r \in Runners, Record(r)
  PROVE  MInv'
<1> DEFINE ran == run[r]
           row == RowOf(ran[Len(ran)])
<1>1. CASE End(r) /\ UNCHANGED committed /\ Report(r, "failed")
  <2>1. outcome' \in [Runners -> {"none", "current", "failed"}]
    BY <1>1 DEF Report, MInv, TypeOK
  <2> QED BY <1>1, <2>1, Ends
<1>2. CASE /\ inserted' = [inserted EXCEPT ![r] = @ \cup {row}]
           /\ Goto(r, "run")
           /\ UNCHANGED <<committed, lock, release, applied, run, outcome>>
  <2>1. /\ pc[r] = "record" /\ release[r] \in Releases /\ ran \in Seq(File) /\ ran # <<>>
        /\ schema \in Seq(File) /\ inserted[r] = RowsUpTo(r, Done(r) - 1)
        /\ \A n \in 1..Len(ran) : ran[n] = release[r][Len(schema) + n]
    BY DEF MInv, TypeOK, RunnerInv, LoadedInv, ProgressInv, InsertedInv, Working, Record
  <2>2. /\ Len(ran) \in Nat /\ Len(schema) \in Nat /\ Len(ran) > 0 /\ ran[Len(ran)] \in File
    BY <2>1, LenProperties, EmptySeq, ElementOfSeq
  <2>3. row = ran[Len(ran)]
    BY <2>2 DEF RowOf, File
  <2>4. row = release[r][Done(r)]
    BY <2>1, <2>2, <2>3 DEF Done
  <2>5. inserted'[r] = RowsUpTo(r, Done(r))
    <3>1. Done(r) \in Nat /\ Done(r) >= Len(schema) + 1
      BY <2>2 DEF Done
    <3>2. Len(schema) + 1 .. Done(r) = (Len(schema) + 1 .. Done(r) - 1) \cup {Done(r)}
      BY <2>2, <3>1
    <3>3. RowsUpTo(r, Done(r)) = RowsUpTo(r, Done(r) - 1) \cup {row}
      BY <2>4, <3>2 DEF RowsUpTo
    <3> QED BY <1>2, <2>1, <3>3 DEF MInv, TypeOK
  <2>6. TypeOK'
    BY <1>2, <2>2, <2>3 DEF MInv, TypeOK, Goto, InTransaction, committed
  <2>7. pc'[r] = "run"
    BY <1>2 DEF MInv, TypeOK, Goto
  <2>8. LoadedInv(r)' /\ LockInv(r)' /\ ProgressInv(r)'
    BY <1>2, <2>1, <2>7 DEF MInv, RunnerInv, LoadedInv, LockInv, ProgressInv, Locked, Working, Done,
                            committed
  <2>9. InsertedInv(r)'
    BY <1>2, <2>5, <2>7 DEF InsertedInv, RowsUpTo, Done, committed
  <2>10. \A q \in Runners \ {r} : pc'[q] = pc[q] /\ inserted'[q] = inserted[q]
    BY <1>2 DEF MInv, TypeOK, Goto
  <2> QED BY <1>2, <2>6, <2>8, <2>9, <2>10, Steps DEF RunnerInv
<1> QED BY <1>1, <1>2 DEF Record, Rollback

LEMMA SendCommitKeeps ==
  ASSUME MInv, NEW r \in Runners, SendCommit(r)
  PROVE  MInv'
<1>1. Done(r) = Len(release[r]) /\ pc[r] = "run"
  BY NothingPending DEF SendCommit
<1>2. TypeOK' /\ pc'[r] = "commit" /\ \A q \in Runners \ {r} : pc'[q] = pc[q]
  BY DEF MInv, TypeOK, SendCommit, Goto, committed
<1>3. RunnerInv(r)'
  BY <1>1, <1>2 DEF MInv, SendCommit, RunnerInv, LoadedInv, LockInv, ProgressInv, InsertedInv,
                    Working, Locked, Done, RowsUpTo, committed
<1> QED BY <1>2, <1>3, Steps DEF SendCommit

LEMMA AbandonKeeps ==
  ASSUME MInv, NEW r \in Runners, Abandon(r)
  PROVE  MInv'
<1>1. /\ TypeOK' /\ \A q \in Runners \ {r} : pc'[q] = pc[q]
      /\ pc'[r] = IF pc[r] = "commit" THEN "orphanCommit" ELSE "orphan"
  BY DEF MInv, TypeOK, Abandon, Goto, Report, Orphaned, committed
<1>2. RunnerInv(r)'
  BY <1>1 DEF MInv, Abandon, RunnerInv, LoadedInv, LockInv, ProgressInv, InsertedInv,
              Working, Locked, Done, RowsUpTo, InTransaction, committed
<1> QED BY <1>1, <1>2, Steps DEF Abandon

LEMMA EndingsKeep ==
  ASSUME MInv, NEW r \in Runners, Commit(r) \/ Fail(r) \/ OrphanEnds(r)
  PROVE  MInv'
<1>1. outcome' \in [Runners -> {"none", "current", "failed"}] /\ End(r)
  BY DEF MInv, TypeOK, Commit, Fail, OrphanEnds, Rollback, Report
<1>2. UNCHANGED committed \/ (pc[r] \in {"commit", "orphanCommit"} /\ Apply(r))
  BY DEF Commit, Fail, OrphanEnds, Rollback
<1> QED BY <1>1, <1>2, Ends, Commits

(* Every step of every runner keeps the invariant. *)
LEMMA StepKeeps ==
  ASSUME MInv, [Next]_vars
  PROVE  MInv'
<1>1. CASE UNCHANGED vars
  BY <1>1 DEF vars, committed, MInv, TypeOK, RecordTrue, WholeRelease, RunnerInv, LoadedInv,
              LockInv, ProgressInv, InsertedInv, Done, RowsUpTo
<1>2. ASSUME NEW r \in Runners, RunnerStep(r)
      PROVE  MInv'
  BY <1>2, StartKeeps, LockKeeps, ReadKeeps, RunKeeps, RecordKeeps, SendCommitKeeps, AbandonKeeps,
     EndingsKeep DEF RunnerStep, Advance
<1> QED BY <1>1, <1>2 DEF Next

LEMMA InitHolds == Init => MInv
<1> SUFFICES ASSUME Init PROVE MInv
  OBVIOUS
<1>1. TypeOK
  <2>1. NoRows \in [Versions -> File \cup {NoFile}] /\ <<>> \in Seq(File)
    BY DEF NoRows
  <2> QED BY <2>1 DEF Init, TypeOK
<1>2. RecordTrue
  BY DirectoriesAssumption DEF Init, RecordTrue, NoRows, Versions
<1>3. WholeRelease /\ \A r \in Runners : RunnerInv(r)
  BY DEF Init, WholeRelease, RunnerInv, LoadedInv, LockInv, ProgressInv, InsertedInv, Working, Locked
<1> QED BY <1>1, <1>2, <1>3 DEF MInv

THEOREM MigrationsInvariant == Spec => []MInv
BY InitHolds, StepKeeps, PTL DEF Spec

(* Rows, locks and runners keep their types. *)
THEOREM MigrationsTypeCorrect == Spec => []TypeOK
<1>1. MInv => TypeOK
  BY DEF MInv
<1> QED BY <1>1, MigrationsInvariant, PTL

(* schema_migrations never says anything but what has been done to the     *)
(* schema.                                                                 *)
THEOREM RecordHolds == Spec => []RecordTrue
<1>1. MInv => RecordTrue
  BY DEF MInv
<1> QED BY <1>1, MigrationsInvariant, PTL

(* A runner that calls the schema current has left it at its release.      *)
THEOREM CurrentHolds == Spec => CurrentIsTrue
<1> DEFINE Step == \A r \in Runners :
             outcome[r] = "none" /\ outcome'[r] = "current" => schema' = release[r]
<1>1. ASSUME MInv, [Next]_vars
      PROVE  [Step]_vars
  <2> SUFFICES ASSUME NEW r \in Runners, NEW s \in Runners, RunnerStep(s),
                      outcome[r] = "none", outcome'[r] = "current"
               PROVE  schema' = release[r]
    BY <1>1 DEF Next
  <2>1. CASE Commit(s)
    <3>1. r = s
      BY <1>1, <2>1 DEF Commit, Report, MInv, TypeOK
    <3> QED BY <1>1, <2>1, <3>1, CommitsRelease DEF Commit
  <2>2. CASE ~Commit(s)
    BY <1>1, <2>2 DEF MInv, TypeOK, RunnerStep, Advance, Start, Lock, Read, Run, Record,
       SendCommit, OrphanEnds, Fail, Abandon, Report
  <2> QED BY <2>1, <2>2
<1> QED BY <1>1, MigrationsInvariant, PTL DEF Spec, CurrentIsTrue

(* The runner does to the schema what SchemaHistory allows.                *)
THEOREM HistoryImplemented == Spec => ImplementsHistory
<1>1. Init => History!Init
  BY DEF Init, History!Init
<1>2. ASSUME MInv, [Next]_vars
      PROVE  [History!Next]_schema
  <2> SUFFICES ASSUME NEW r \in Runners, RunnerStep(r), schema' # schema
               PROVE  History!Next
    BY <1>2 DEF Next, vars, committed
  <2>1. pc[r] \in {"commit", "orphanCommit"} /\ Apply(r)
    BY DEF RunnerStep, Advance, Start, Lock, Read, Run, Record, SendCommit, Commit, OrphanEnds,
           Fail, Abandon, Rollback, committed
  <2>2. /\ schema' = release[r] /\ release[r] \in Releases /\ Len(schema) <= Len(release[r])
        /\ \A n \in 1..Len(schema) : schema[n] = release[r][n]
    BY <1>2, <2>1, CommitsRelease
  <2>3. History!Migrate(release[r])
    BY <2>2 DEF History!Migrate, History!Continues
  <2> QED BY <2>2, <2>3 DEF History!Next, Releases
<1> QED BY <1>1, <1>2, MigrationsInvariant, PTL DEF Spec, ImplementsHistory, History!Spec
=============================================================================
