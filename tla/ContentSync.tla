----------------------------- MODULE ContentSync -----------------------------
(***************************************************************************)
(* sync-content: each job is a process that validates one complete         *)
(* manifest and applies it in one transaction, serialized with the other   *)
(* jobs by an advisory lock.  One action per statement; an upsert or an    *)
(* archival waits for the comment transactions that hold the row FOR       *)
(* SHARE, and what it writes is visible to others at the commit.           *)
(***************************************************************************)
EXTENDS Registry, Naturals, Sequences

CONSTANTS
  Manifests,    \* files: [sound, source, items], items a sequence of
                \* [slug, kind, status, commentsEnabled]; sound if JSON,
                \* version, mode, revision and identifiers are in order
  SeedRows,     \* rows the migrations or earlier syncs have left
  Omitted,      \* an item says nothing of its comments
  NoSnapshot

ASSUME ManifestsAssumption ==
  \A file \in Manifests :
    /\ file.sound \in BOOLEAN
    /\ file.source \in Sources
    /\ file.items \in Seq([slug : Slugs, kind : Kinds, status : Statuses,
                           commentsEnabled : BOOLEAN \cup {Omitted}])
ASSUME SeedRowsAssumption == SeedRows \subseteq Row
ASSUME NullAssumption == NoRow \notin Row /\ NoJob \notin Jobs /\ Omitted \notin BOOLEAN

VARIABLES
  syncLock,   \* the job holding the content sync advisory lock
  jpc,        \* the statement each job runs next
  job,        \* the manifest each job applies
  next,       \* the index of its next item
  staged,     \* the uncommitted rows of its transaction
  todo,       \* rows its archiving UPDATE has still to visit
  applied     \* history: the last snapshot committed for each source

syncVars == <<syncLock, jpc, job, next, staged, todo, applied>>
vars == <<registryVars, syncVars>>

(* What files say, if they can be decoded and say it all. *)
Decided(file) ==
  file.sound /\ \A n \in 1..Len(file.items) : file.items[n].commentsEnabled # Omitted
Snapshot(file) == [source |-> file.source, items |-> file.items]
Snapshots == {Snapshot(file) : file \in {f \in Manifests : Decided(f)}}

Unwritten == [s \in Slugs |-> NoRow]
InTransaction == {"lock", "owner", "upsert", "archive"}

TypeOK ==
  /\ RegistryTypeOK
  /\ syncLock \in Jobs \cup {NoJob}
  /\ jpc \in [Jobs -> {"idle"} \cup InTransaction]
  /\ job \in [Jobs -> Snapshots \cup {NoSnapshot}]
  /\ next \in [Jobs -> Nat \ {0}]
  /\ staged \in [Jobs -> [Slugs -> Row \cup {NoRow}]]
  /\ todo \in [Jobs -> SUBSET Slugs]
  /\ applied \in [Sources -> Snapshots \cup {NoSnapshot}]

Init ==
  /\ content \in [Slugs -> SeedRows \cup {NoRow}]
  /\ sharers = [s \in Slugs |-> {}]
  /\ writer = [s \in Slugs |-> NoJob]
  /\ syncLock = NoJob
  /\ jpc = [j \in Jobs |-> "idle"]
  /\ job = [j \in Jobs |-> NoSnapshot]
  /\ next = [j \in Jobs |-> 1]
  /\ staged = [j \in Jobs |-> Unwritten]
  /\ todo = [j \in Jobs |-> {}]
  /\ applied = [source \in Sources |-> NoSnapshot]
-----------------------------------------------------------------------------
Item(j) == job[j].items[next[j]]
SlugsOf(snap) == {snap.items[n].slug : n \in 1..Len(snap.items)}
ItemRow(j) == [managedBy |-> job[j].source, kind |-> Item(j).kind,
               status |-> Item(j).status, commentsEnabled |-> Item(j).commentsEnabled]

ValidateSnapshot(snap) ==
  /\ snap.items # <<>>
  /\ \A m, n \in 1..Len(snap.items) : m < n => snap.items[m].slug # snap.items[n].slug

(* ReadManifest and Sync refuse a file before a transaction begins; a      *)
(* refused one changes nothing.                                            *)
ReadManifest(file) ==
  IF Decided(file) /\ ValidateSnapshot(Snapshot(file)) THEN {Snapshot(file)} ELSE {}

Start(j, file) ==
  /\ jpc[j] = "idle"
  /\ \E snap \in ReadManifest(file) : job' = [job EXCEPT ![j] = snap]
  /\ jpc' = [jpc EXCEPT ![j] = "lock"]
  /\ UNCHANGED <<registryVars, syncLock, next, staged, todo, applied>>

(* Mutant: jobs do not wait for each other. *)
LockWithoutWaiting(j) ==
  /\ jpc[j] = "lock"
  /\ syncLock' = IF syncLock = NoJob THEN j ELSE syncLock
  /\ jpc' = [jpc EXCEPT ![j] = "owner"]
  /\ UNCHANGED <<registryVars, job, next, staged, todo, applied>>

Lock(j) ==
  /\ jpc[j] = "lock"
  /\ syncLock = NoJob
  /\ syncLock' = j
  /\ jpc' = [jpc EXCEPT ![j] = "owner"]
  /\ UNCHANGED <<registryVars, job, next, staged, todo, applied>>

(* The end of the transaction: locks released, the process exits. *)
End(j) ==
  /\ ReleaseRows(j)
  /\ syncLock' = IF syncLock = j THEN NoJob ELSE syncLock
  /\ jpc' = [jpc EXCEPT ![j] = "idle"]
  /\ job' = [job EXCEPT ![j] = NoSnapshot]
  /\ next' = [next EXCEPT ![j] = 1]
  /\ staged' = [staged EXCEPT ![j] = Unwritten]
  /\ todo' = [todo EXCEPT ![j] = {}]

Rollback(j) == End(j) /\ UNCHANGED <<content, sharers, applied>>

(* Mutant: the owner is left to the upsert's WHERE clause. *)
ReadOwnerIgnored(j) ==
  /\ jpc[j] = "owner"
  /\ next[j] <= Len(job[j].items)
  /\ jpc' = [jpc EXCEPT ![j] = "upsert"]
  /\ UNCHANGED <<registryVars, syncLock, job, next, staged, todo, applied>>

(* SELECT managed_by: a slug of another source fails the whole sync. *)
ReadOwner(j) ==
  /\ jpc[j] = "owner"
  /\ next[j] <= Len(job[j].items)
  /\ LET row == content[Item(j).slug] IN
       IF row # NoRow /\ row.managedBy # job[j].source THEN Rollback(j)
       ELSE /\ jpc' = [jpc EXCEPT ![j] = "upsert"]
            /\ UNCHANGED <<registryVars, syncLock, job, next, staged, todo, applied>>

(* Mutant: the upsert does not hold the row until the commit. *)
UpsertUnlocked(j) ==
  /\ jpc[j] = "upsert"
  /\ LET row == content[Item(j).slug] IN
       staged' = IF row = NoRow \/ (row.managedBy = job[j].source /\ row # ItemRow(j))
                 THEN [staged EXCEPT ![j][Item(j).slug] = ItemRow(j)] ELSE staged
  /\ next' = [next EXCEPT ![j] = @ + 1]
  /\ jpc' = [jpc EXCEPT ![j] = "owner"]
  /\ UNCHANGED <<registryVars, syncLock, job, todo, applied>>

(* INSERT ... ON CONFLICT DO UPDATE locks the row it finds, and writes it  *)
(* only when this source manages it and something differs.                 *)
Upsert(j) ==
  /\ jpc[j] = "upsert"
  /\ WriteRow(j, Item(j).slug)
  /\ LET row == content[Item(j).slug] IN
       staged' = IF row = NoRow \/ (row.managedBy = job[j].source /\ row # ItemRow(j))
                 THEN [staged EXCEPT ![j][Item(j).slug] = ItemRow(j)] ELSE staged
  /\ next' = [next EXCEPT ![j] = @ + 1]
  /\ jpc' = [jpc EXCEPT ![j] = "owner"]
  /\ UNCHANGED <<content, sharers, syncLock, job, todo, applied>>

Archivable(j, s) == /\ content[s] # NoRow
                    /\ content[s].managedBy = job[j].source
                    /\ content[s].status # "archived"

(* The archiving UPDATE finds its rows in the snapshot it starts with ... *)
StartArchive(j) ==
  /\ jpc[j] = "owner"
  /\ next[j] > Len(job[j].items)
  /\ todo' = [todo EXCEPT ![j] = {s \in Slugs \ SlugsOf(job[j]) : Archivable(j, s)}]
  /\ jpc' = [jpc EXCEPT ![j] = "archive"]
  /\ UNCHANGED <<registryVars, syncLock, job, next, staged, applied>>

(* ... locks them one by one, and looks at each again once it has it. *)
ArchiveRow(j, s) ==
  /\ jpc[j] = "archive"
  /\ s \in todo[j]
  /\ WriteRow(j, s)
  /\ staged' = IF Archivable(j, s)
               THEN [staged EXCEPT ![j][s] = [content[s] EXCEPT !.status = "archived"]]
               ELSE staged
  /\ todo' = [todo EXCEPT ![j] = @ \ {s}]
  /\ UNCHANGED <<content, sharers, syncLock, jpc, job, next, applied>>

Commit(j) ==
  /\ jpc[j] = "archive"
  /\ todo[j] = {}
  /\ content' = [s \in Slugs |-> IF staged[j][s] = NoRow THEN content[s] ELSE staged[j][s]]
  /\ applied' = [applied EXCEPT ![job[j].source] = job[j]]
  /\ End(j)
  /\ UNCHANGED sharers

(* A failed statement, SIGTERM, or the death of the process. *)
Fail(j) == jpc[j] \in InTransaction /\ Rollback(j)
-----------------------------------------------------------------------------
Advance(j) ==
  \/ Lock(j) \/ ReadOwner(j) \/ Upsert(j) \/ StartArchive(j) \/ Commit(j)
  \/ \E s \in Slugs : ArchiveRow(j, s)

JobStep(j) == (\E file \in Manifests : Start(j, file)) \/ Advance(j) \/ Fail(j)

(* Comment transactions take shared row locks, and end, at any time. *)
ShareStep ==
  /\ \E p \in Requests :
       \/ \E s \in Slugs : ShareRow(p, s)
       \/ sharers' = [s \in Slugs |-> sharers[s] \ {p}]
  /\ UNCHANGED <<content, writer, syncVars>>

Next == (\E j \in Jobs : JobStep(j)) \/ ShareStep

Spec == Init /\ [][Next]_vars
-----------------------------------------------------------------------------
(* A sync is all or nothing and serialized with the others: every change   *)
(* of the committed rows is one valid manifest applied to the rows before  *)
(* it, whatever jobs overlap, fail half way or wait for comment            *)
(* transactions.                                                           *)
Atomic == INSTANCE AtomicRegistry
ImplementsRegistry == Atomic!Spec

(* The rows of a source say what its last committed manifest says: listed  *)
(* rows as listed, the others archived, however syncs overlapped.          *)
SnapshotInForce == Atomic!SnapshotInForce
=============================================================================
