----------------------------- MODULE Migrations -----------------------------
(***************************************************************************)
(* The migration runner: each process loads its directory, and brings the  *)
(* schema up to it in one transaction under an advisory lock.  Processes   *)
(* of different releases may run at once, stop anywhere, and be started    *)
(* again.                                                                  *)
(***************************************************************************)
EXTENDS Naturals, Sequences, FiniteSets

CONSTANTS
  Runners,       \* migrate processes at a time
  Directories,   \* sets of files, the images' migration directories
  MaxVersion,    \* no directory has a higher one
  Names, Sqls,   \* of files; a checksum stands for its SQL
  Blank,         \* the SQL of a file that is empty
  NoFile,        \* a version without a row in schema_migrations
  NoRunner

Versions == 1..MaxVersion
File == [version : Versions, name : Names, sql : Sqls]

ASSUME DirectoriesAssumption ==
  MaxVersion \in Nat /\ \A dir \in Directories : IsFiniteSet(dir) /\ dir \subseteq File
ASSUME NullAssumption == NoFile \notin File /\ NoRunner \notin Runners

VARIABLES
  schema,     \* history: the migrations whose effects are committed, in order
  recorded,   \* committed rows of schema_migrations: version -> its file
  lock,       \* the runner holding the migration advisory lock
  pc,         \* the statement each runner executes next
  release,    \* the migrations each runner has loaded
  applied,    \* the rows it has read
  run,        \* the migrations it has run in its transaction
  inserted,   \* the rows it has inserted in its transaction
  outcome     \* what the last process of each runner reported

committed == <<schema, recorded>>
vars == <<committed, lock, pc, release, applied, run, inserted, outcome>>

NoRows == [v \in Versions |-> NoFile]
InTransaction == {"lock", "read", "run", "record"}
Orphaned == {"orphan", "orphanCommit"}

TypeOK ==
  /\ schema \in Seq(File)
  /\ recorded \in [Versions -> File \cup {NoFile}]
  /\ lock \in Runners \cup {NoRunner}
  /\ pc \in [Runners -> {"idle", "commit"} \cup InTransaction \cup Orphaned]
  /\ release \in [Runners -> Seq(File)]
  /\ applied \in [Runners -> [Versions -> File \cup {NoFile}]]
  /\ run \in [Runners -> Seq(File)]
  /\ inserted \in [Runners -> SUBSET File]
  /\ outcome \in [Runners -> {"none", "current", "failed"}]

Init ==
  /\ schema = <<>>
  /\ recorded = NoRows
  /\ lock = NoRunner
  /\ pc = [r \in Runners |-> "idle"]
  /\ release = [r \in Runners |-> <<>>]
  /\ applied = [r \in Runners |-> NoRows]
  /\ run = [r \in Runners |-> <<>>]
  /\ inserted = [r \in Runners |-> {}]
  /\ outcome = [r \in Runners |-> "none"]
-----------------------------------------------------------------------------
(* Load accepts files numbered from one without a gap, none of them empty. *)
Loadable(dir) ==
  /\ dir # {}
  /\ {file.version : file \in dir} = 1..Cardinality(dir)
  /\ \A file \in dir : file.sql # Blank

Sorted(dir) == [n \in 1..Cardinality(dir) |-> CHOOSE file \in dir : file.version = n]

Goto(r, statement) == pc' = [pc EXCEPT ![r] = statement]
Report(r, code) == outcome' = [outcome EXCEPT ![r] = code]

Start(r, dir) ==
  /\ pc[r] = "idle"
  /\ \/ ~Loadable(dir) /\ Report(r, "failed") /\ UNCHANGED <<pc, release>>
     \/ /\ Loadable(dir)
        /\ Goto(r, "lock")
        /\ release' = [release EXCEPT ![r] = Sorted(dir)]
        /\ Report(r, "none")
  /\ UNCHANGED <<committed, lock, applied, run, inserted>>

(* Mutant: pg_try_advisory_xact_lock, its answer ignored. *)
LockWithoutWaiting(r) ==
  /\ pc[r] = "lock"
  /\ lock' = IF lock = NoRunner THEN r ELSE lock
  /\ Goto(r, "read")
  /\ UNCHANGED <<committed, release, applied, run, inserted, outcome>>

Lock(r) ==
  /\ pc[r] = "lock"
  /\ lock = NoRunner
  /\ lock' = r
  /\ Goto(r, "read")
  /\ UNCHANGED <<committed, release, applied, run, inserted, outcome>>

(* Mutant: a transaction that ends early is left open. *)
EndOpen(r) ==
  /\ Goto(r, "idle")
  /\ release' = [release EXCEPT ![r] = <<>>]
  /\ applied' = [applied EXCEPT ![r] = NoRows]
  /\ run' = [run EXCEPT ![r] = <<>>]
  /\ inserted' = [inserted EXCEPT ![r] = {}]
  /\ UNCHANGED lock

(* The transaction is over, and the process. *)
End(r) ==
  /\ Goto(r, "idle")
  /\ release' = [release EXCEPT ![r] = <<>>]
  /\ applied' = [applied EXCEPT ![r] = NoRows]
  /\ run' = [run EXCEPT ![r] = <<>>]
  /\ inserted' = [inserted EXCEPT ![r] = {}]
  /\ lock' = IF lock = r THEN NoRunner ELSE lock

Rollback(r) == End(r) /\ UNCHANGED committed

(* Mutant: checksums are not compared. *)
SameNames(rows, files) ==
  \A v \in Versions : rows[v] # NoFile => v \in DOMAIN files /\ rows[v].name = files[v].name
(* Every recorded migration is in the directory, unchanged. *)
Verified(rows, files) ==
  \A v \in Versions : rows[v] # NoFile => v \in DOMAIN files /\ rows[v] = files[v]

(* loadApplied, and the comparison with what was loaded. *)
Read(r) ==
  /\ pc[r] = "read"
  /\ \/ ~Verified(recorded, release[r]) /\ Rollback(r) /\ Report(r, "failed")
     \/ /\ Verified(recorded, release[r])
        /\ applied' = [applied EXCEPT ![r] = recorded]
        /\ Goto(r, "run")
        /\ UNCHANGED <<committed, lock, release, run, inserted, outcome>>

Pending(r, v) ==
  v \in DOMAIN release[r] /\ applied[r][v] = NoFile /\ release[r][v] \notin inserted[r]
(* The loop goes through the versions in order, not in that of a map. *)
NextPending(r, v) == Pending(r, v) /\ \A u \in Versions : Pending(r, u) => v <= u

Run(r, v) ==
  /\ pc[r] = "run"
  /\ NextPending(r, v)
  /\ run' = [run EXCEPT ![r] = Append(@, release[r][v])]
  /\ Goto(r, "record")
  /\ UNCHANGED <<committed, lock, release, applied, inserted, outcome>>

RowOf(file) == [version |-> file.version, name |-> file.name, sql |-> file.sql]

(* A version, or name, somebody has recorded meanwhile fails the INSERT. *)
Record(r) ==
  /\ pc[r] = "record"
  /\ LET row == RowOf(run[r][Len(run[r])]) IN
       IF \E v \in Versions : /\ recorded[v] # NoFile
                              /\ v = row.version \/ recorded[v].name = row.name
       THEN Rollback(r) /\ Report(r, "failed")
       ELSE /\ inserted' = [inserted EXCEPT ![r] = @ \cup {row}]
            /\ Goto(r, "run")
            /\ UNCHANGED <<committed, lock, release, applied, run, outcome>>

SendCommit(r) ==
  /\ pc[r] = "run"
  /\ \A v \in Versions : ~Pending(r, v)
  /\ Goto(r, "commit")
  /\ UNCHANGED <<committed, lock, release, applied, run, inserted, outcome>>

Apply(r) ==
  /\ schema' = schema \o run[r]
  /\ recorded' = [v \in Versions |->
       IF \E row \in inserted[r] : row.version = v
       THEN CHOOSE row \in inserted[r] : row.version = v ELSE recorded[v]]

(* The reply may be lost after the server has committed. *)
Commit(r) ==
  /\ pc[r] = "commit"
  /\ Apply(r)
  /\ End(r)
  /\ \E code \in {"current", "failed"} : Report(r, code)

(* A statement fails, a migration's own SQL above all. *)
Fail(r) ==
  /\ pc[r] \in InTransaction
  /\ Rollback(r)
  /\ Report(r, "failed")

(* The process is stopped or killed, or loses its connection; the server   *)
(* has yet to notice.                                                      *)
Abandon(r) ==
  /\ pc[r] \in InTransaction \cup {"commit"}
  /\ Goto(r, IF pc[r] = "commit" THEN "orphanCommit" ELSE "orphan")
  /\ Report(r, "failed")
  /\ UNCHANGED <<committed, lock, release, applied, run, inserted>>

OrphanEnds(r) ==
  /\ pc[r] \in Orphaned
  /\ \/ pc[r] = "orphanCommit" /\ Apply(r)
     \/ UNCHANGED committed
  /\ End(r)
  /\ UNCHANGED outcome
-----------------------------------------------------------------------------
Advance(r) ==
  \/ Lock(r) \/ Read(r) \/ (\E v \in Versions : Run(r, v)) \/ Record(r)
  \/ SendCommit(r) \/ Commit(r) \/ OrphanEnds(r)

RunnerStep(r) ==
  \/ \E dir \in Directories : Start(r, dir)
  \/ Advance(r)
  \/ Fail(r)
  \/ Abandon(r)

Next == \E r \in Runners : RunnerStep(r)

Spec == Init /\ [][Next]_vars

(* A runner waiting for the lock gets it in the end; PostgreSQL queues for *)
(* it.  Nothing makes a runner start, fail or be stopped.                  *)
FairSpec == Spec /\ \A r \in Runners : SF_vars(Advance(r))
-----------------------------------------------------------------------------
(* schema_migrations says exactly what has been done to the schema: each   *)
(* version once, in order, with the name and checksum of what was run.     *)
RecordTrue ==
  \A v \in Versions : recorded[v] = IF v <= Len(schema) THEN schema[v] ELSE NoFile

(* A runner reports "database schema is current" only of its own release,  *)
(* whatever runners of older, newer or altered releases come between.      *)
CurrentIsTrue ==
  [][\A r \in Runners :
       outcome[r] = "none" /\ outcome'[r] = "current" => schema' = release[r]]_vars

(* A run is all or nothing: between transactions the schema is one whole   *)
(* release, and no release replaces one it does not continue.              *)
History == INSTANCE SchemaHistory WITH
  Releases <- {Sorted(dir) : dir \in {d \in Directories : Loadable(d)}}
ImplementsHistory == History!Spec

(* Every runner comes to its end, also behind one that was killed. *)
UpCompletes == \A r \in Runners : pc[r] # "idle" ~> pc[r] = "idle"
=============================================================================
