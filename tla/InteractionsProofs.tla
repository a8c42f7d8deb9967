------------------------- MODULE InteractionsProofs -------------------------
(***************************************************************************)
(* The sync jobs by themselves, and beside the API process, for every set  *)
(* of manifests and every number of jobs, requests and connections.        *)
(***************************************************************************)
EXTENDS Interactions, SequenceTheorems, TLAPS

Items(j) == job[j].items
ItemSet == [slug : Slugs, kind : Kinds, status : Statuses, commentsEnabled : BOOLEAN]
RowFrom(j, n) ==
  [managedBy |-> job[j].source, kind |-> Items(j)[n].kind, status |-> Items(j)[n].status,
   commentsEnabled |-> Items(j)[n].commentsEnabled]

(* The row as the job's own transaction sees it. *)
Effective(j, s) == IF staged[j][s] = NoRow THEN content[s] ELSE staged[j][s]
Owned(j, s) == content[s] = NoRow \/ content[s].managedBy = job[j].source
Archived(row) == [row EXCEPT !.status = "archived"]

Working == {"owner", "upsert", "archive"}

(* Types, without the locks of the readers. *)
SyncTyped ==
  /\ content \in [Slugs -> Row \cup {NoRow}]
  /\ writer \in [Slugs -> Jobs \cup {NoJob}]
  /\ syncLock \in Jobs \cup {NoJob}
  /\ jpc \in [Jobs -> {"idle", "lock"} \cup Working]
  /\ job \in [Jobs -> Snapshots \cup {NoSnapshot}]
  /\ next \in [Jobs -> Nat \ {0}]
  /\ staged \in [Jobs -> [Slugs -> Row \cup {NoRow}]]
  /\ todo \in [Jobs -> SUBSET Slugs]
  /\ applied \in [Sources -> Snapshots \cup {NoSnapshot}]

(* A job that runs has a valid manifest and, past its lock, the lock; what *)
(* it has written it holds for update.                                     *)
JobInv(j) ==
  /\ jpc[j] # "idle" => job[j] \in Snapshots /\ ValidateSnapshot(job[j])
  /\ jpc[j] \in Working => syncLock = j
  /\ jpc[j] \notin Working => next[j] = 1 /\ staged[j] = Unwritten /\ todo[j] = {}
  /\ jpc[j] = "upsert" => next[j] <= Len(Items(j))
  /\ jpc[j] = "archive" => next[j] = Len(Items(j)) + 1
  /\ jpc[j] = "owner" => next[j] <= Len(Items(j)) + 1
  /\ \A s \in Slugs : staged[j][s] # NoRow => writer[s] = j

(* Its transaction sees the items it has done as the manifest says, of the *)
(* other rows nothing but those it has archived has changed.               *)
StageInv(j) ==
  jpc[j] \in Working =>
    /\ \A n \in 1..(next[j] - 1) :
         Owned(j, Items(j)[n].slug) /\ Effective(j, Items(j)[n].slug) = RowFrom(j, n)
    /\ jpc[j] = "upsert" => Owned(j, Items(j)[next[j]].slug)
    /\ jpc[j] # "archive" =>
         \A s \in Slugs : (\A n \in 1..(next[j] - 1) : Items(j)[n].slug # s) => staged[j][s] = NoRow
    /\ jpc[j] = "archive" => todo[j] \cap SlugsOf(job[j]) = {}
    /\ jpc[j] = "archive" =>
         \A s \in Slugs \ SlugsOf(job[j]) :
           staged[j][s] = IF Archivable(j, s) /\ s \notin todo[j]
                          THEN Archived(content[s]) ELSE NoRow

SyncInv == SyncTyped /\ \A j \in Jobs : JobInv(j) /\ StageInv(j)
-----------------------------------------------------------------------------
(* What a decoded manifest is made of. *)
LEMMA SnapshotTyped ==
  ASSUME NEW snap \in Snapshots
  PROVE  /\ snap.source \in Sources /\ snap.items \in Seq(ItemSet) /\ Len(snap.items) \in Nat
         /\ \A n \in 1..Len(snap.items) : snap.items[n] \in ItemSet
         /\ snap = [source |-> snap.source, items |-> snap.items]
<1>1. PICK file \in Manifests : Decided(file) /\ snap = Snapshot(file)
  BY DEF Snapshots
<1>2. snap.source = file.source /\ snap.items = file.items
  BY <1>1 DEF Snapshot
<1> DEFINE Read == [slug : Slugs, kind : Kinds, status : Statuses,
                    commentsEnabled : BOOLEAN \cup {Omitted}]
<1>3. /\ file.source \in Sources /\ file.items \in Seq(Read) /\ Len(file.items) \in Nat
      /\ \A n \in 1..Len(file.items) : file.items[n] \in Read
  <2>1. file.source \in Sources /\ file.items \in Seq(Read)
    BY ManifestsAssumption
  <2> HIDE DEF Read
  <2> QED BY <2>1, LenProperties, ElementOfSeq
<1>4. \A n \in 1..Len(file.items) : file.items[n] \in ItemSet
  BY <1>1, <1>3 DEF Decided, ItemSet
<1>5. file.items \in Seq(ItemSet)
  <2>1. file.items \in [1..Len(file.items) -> ItemSet]
    BY <1>3, <1>4
  <2> QED BY <1>3, <2>1, SeqDef
<1> QED BY <1>1, <1>2, <1>3, <1>4, <1>5 DEF Snapshot

(* The items of a job that runs. *)
LEMMA ItemTyped ==
  ASSUME SyncInv, NEW j \in Jobs, jpc[j] # "idle", NEW n \in 1..Len(Items(j))
  PROVE  /\ Items(j)[n].slug \in Slugs /\ RowFrom(j, n) \in Row /\ RowFrom(j, n) # NoRow
         /\ \A m \in 1..Len(Items(j)) : m # n => Items(j)[m].slug # Items(j)[n].slug
         /\ Items(j)[n].slug \in SlugsOf(job[j])
<1>1. job[j] \in Snapshots /\ ValidateSnapshot(job[j])
  BY DEF SyncInv, JobInv
<1>2. /\ job[j].source \in Sources /\ Items(j)[n] \in ItemSet /\ Len(Items(j)) \in Nat
  BY <1>1, SnapshotTyped DEF Items
<1>3. RowFrom(j, n) \in Row /\ Items(j)[n].slug \in Slugs
  BY <1>2 DEF RowFrom, Row, ItemSet
<1>4. \A m \in 1..Len(Items(j)) : m # n => Items(j)[m].slug # Items(j)[n].slug
  BY <1>1, <1>2 DEF ValidateSnapshot, Items
<1> QED BY <1>3, <1>4, SeedRowsAssumption, NullAssumption DEF SlugsOf, Items

(* The other jobs are where they were, if the rows are and nobody takes a  *)
(* lock from them.                                                         *)
Alone(j) ==
  /\ \A q \in Jobs \ {j} : /\ jpc'[q] = jpc[q] /\ job'[q] = job[q] /\ next'[q] = next[q]
                           /\ staged'[q] = staged[q] /\ todo'[q] = todo[q]
                           /\ syncLock = q => syncLock' = q
                           /\ \A s \in Slugs : writer[s] = q => writer'[s] = q

LEMMA OthersKeepJob ==
  ASSUME SyncInv, NEW j \in Jobs, Alone(j), NEW q \in Jobs \ {j}
  PROVE  JobInv(q)'
BY DEF SyncInv, JobInv, Alone, Items

LEMMA OthersKeepStage ==
  ASSUME SyncInv, NEW j \in Jobs, Alone(j), NEW q \in Jobs \ {j}, content' = content
  PROVE  StageInv(q)'
BY DEF SyncInv, StageInv, Alone, Items, Owned, Effective, RowFrom, Archivable, Archived

LEMMA StartKeeps ==
  ASSUME SyncInv, NEW j \in Jobs, NEW file \in Manifests, Start(j, file)
  PROVE  SyncInv'
<1>1. PICK snap \in ReadManifest(file) : job' = [job EXCEPT ![j] = snap]
  BY DEF Start
<1>2. snap \in Snapshots /\ ValidateSnapshot(snap)
  BY <1>1 DEF ReadManifest, Snapshots
<1>3. /\ jpc[j] = "idle" /\ jpc' = [jpc EXCEPT ![j] = "lock"]
      /\ UNCHANGED <<content, writer, syncLock, next, staged, todo, applied>>
  BY DEF Start, registryVars
<1>4. SyncTyped'
  BY <1>1, <1>2, <1>3 DEF SyncInv, SyncTyped
<1>5. Alone(j) /\ jpc'[j] = "lock" /\ job'[j] = snap
  BY <1>1, <1>3 DEF SyncInv, SyncTyped, Alone
<1>6. JobInv(j)' /\ StageInv(j)'
  BY <1>2, <1>3, <1>5 DEF SyncInv, JobInv, StageInv, Working, ValidateSnapshot, Unwritten
<1> QED BY <1>3, <1>4, <1>5, <1>6, OthersKeepJob, OthersKeepStage DEF SyncInv

LEMMA LockKeeps ==
  ASSUME SyncInv, NEW j \in Jobs, Lock(j)
  PROVE  SyncInv'
<1>1. /\ jpc[j] = "lock" /\ jpc' = [jpc EXCEPT ![j] = "owner"] /\ syncLock = NoJob /\ syncLock' = j
      /\ UNCHANGED <<content, writer, job, next, staged, todo, applied>>
  BY DEF Lock, registryVars
<1>2. SyncTyped'
  BY <1>1 DEF SyncInv, SyncTyped, Working
<1>3. Alone(j) /\ jpc'[j] = "owner"
  BY <1>1, NullAssumption DEF SyncInv, SyncTyped, Alone
<1>4. /\ job[j] \in Snapshots /\ ValidateSnapshot(job[j]) /\ next[j] = 1
      /\ staged[j] = Unwritten /\ todo[j] = {}
  BY <1>1 DEF SyncInv, JobInv, Working
<1>5. Len(Items(j)) \in Nat
  BY <1>4, SnapshotTyped DEF Items
<1>6. JobInv(j)'
  BY <1>1, <1>3, <1>4, <1>5 DEF SyncInv, JobInv, Working, ValidateSnapshot, Items
<1>7. StageInv(j)'
  BY <1>1, <1>3, <1>4 DEF StageInv, Unwritten
<1> QED BY <1>1, <1>2, <1>3, <1>6, <1>7, OthersKeepJob, OthersKeepStage DEF SyncInv

(* The transaction of j ends. *)
LEMMA EndIdle ==
  ASSUME SyncInv, NEW j \in Jobs, End(j)
  PROVE  /\ writer' \in [Slugs -> Jobs \cup {NoJob}] /\ syncLock' \in Jobs \cup {NoJob}
         /\ jpc' \in [Jobs -> {"idle", "lock"} \cup Working]
         /\ job' \in [Jobs -> Snapshots \cup {NoSnapshot}]
         /\ next' \in [Jobs -> Nat \ {0}]
         /\ staged' \in [Jobs -> [Slugs -> Row \cup {NoRow}]]
         /\ todo' \in [Jobs -> SUBSET Slugs]
         /\ Alone(j) /\ JobInv(j)' /\ StageInv(j)'
<1>1. Unwritten \in [Slugs -> Row \cup {NoRow}]
  BY DEF Unwritten
<1>2. /\ writer' = [s \in Slugs |-> IF writer[s] = j THEN NoJob ELSE writer[s]]
      /\ syncLock' = IF syncLock = j THEN NoJob ELSE syncLock
      /\ jpc' = [jpc EXCEPT ![j] = "idle"] /\ job' = [job EXCEPT ![j] = NoSnapshot]
      /\ next' = [next EXCEPT ![j] = 1] /\ staged' = [staged EXCEPT ![j] = Unwritten]
      /\ todo' = [todo EXCEPT ![j] = {}]
  BY DEF End, ReleaseRows
<1>3. /\ writer' \in [Slugs -> Jobs \cup {NoJob}] /\ syncLock' \in Jobs \cup {NoJob}
      /\ jpc' \in [Jobs -> {"idle", "lock"} \cup Working]
      /\ job' \in [Jobs -> Snapshots \cup {NoSnapshot}]
      /\ next' \in [Jobs -> Nat \ {0}]
      /\ staged' \in [Jobs -> [Slugs -> Row \cup {NoRow}]]
      /\ todo' \in [Jobs -> SUBSET Slugs]
  BY <1>1, <1>2 DEF SyncInv, SyncTyped
<1>4. Alone(j)
  BY <1>2 DEF SyncInv, SyncTyped, Alone
<1>5. jpc'[j] = "idle" /\ next'[j] = 1 /\ staged'[j] = Unwritten /\ todo'[j] = {}
  BY <1>2 DEF SyncInv, SyncTyped
<1>6. JobInv(j)' /\ StageInv(j)'
  BY <1>5 DEF JobInv, StageInv, Working, Unwritten
<1> QED BY <1>3, <1>4, <1>6

LEMMA RollbackKeeps ==
  ASSUME SyncInv, NEW j \in Jobs, Rollback(j)
  PROVE  SyncInv'
<1>1. End(j) /\ UNCHANGED <<content, applied>>
  BY DEF Rollback
<1>2. SyncTyped'
  BY <1>1, EndIdle DEF SyncInv, SyncTyped
<1> QED BY <1>1, <1>2, EndIdle, OthersKeepJob, OthersKeepStage DEF SyncInv

LEMMA OwnerKeeps ==
  ASSUME SyncInv, NEW j \in Jobs, ReadOwner(j)
  PROVE  SyncInv'
<1> DEFINE slug == Items(j)[next[j]].slug
<1>1. CASE Rollback(j)
  BY <1>1, RollbackKeeps
<1>2. CASE ~Rollback(j)
  <2>1. /\ jpc[j] = "owner" /\ next[j] <= Len(Items(j)) /\ Owned(j, slug)
        /\ jpc' = [jpc EXCEPT ![j] = "upsert"]
        /\ UNCHANGED <<content, writer, syncLock, job, next, staged, todo, applied>>
    BY <1>2 DEF ReadOwner, registryVars, Item, Items, Owned
  <2>2. SyncTyped' /\ Alone(j) /\ jpc'[j] = "upsert"
    BY <2>1 DEF SyncInv, SyncTyped, Working, Alone
  <2>3. JobInv(j)'
    BY <2>1, <2>2 DEF SyncInv, JobInv, Working, Items, ValidateSnapshot
  <2>4. StageInv(j)'
    BY <2>1, <2>2 DEF SyncInv, StageInv, Working, Items, Owned, Effective, RowFrom
  <2> QED BY <2>1, <2>2, <2>3, <2>4, OthersKeepJob, OthersKeepStage DEF SyncInv
<1> QED BY <1>1, <1>2

LEMMA UpsertKeeps ==
  ASSUME SyncInv, NEW j \in Jobs, Upsert(j)
  PROVE  SyncInv'
<1> DEFINE n == next[j]
           slug == Items(j)[n].slug
<1>1. /\ jpc[j] = "upsert" /\ n \in Nat \ {0} /\ Len(Items(j)) \in Nat /\ n <= Len(Items(j))
      /\ job[j] \in Snapshots
  BY SnapshotTyped DEF Upsert, SyncInv, SyncTyped, JobInv, Items
<1>2. /\ slug \in Slugs /\ RowFrom(j, n) \in Row /\ RowFrom(j, n) # NoRow
      /\ \A m \in 1..Len(Items(j)) : m # n => Items(j)[m].slug # slug
  BY <1>1, ItemTyped
<1>3. ItemRow(j) = RowFrom(j, n) /\ Item(j) = Items(j)[n]
  BY DEF ItemRow, Item, RowFrom, Items
<1>4. Owned(j, slug) /\ staged[j][slug] = NoRow
  BY <1>1, <1>2 DEF SyncInv, StageInv, Working
<1>5. /\ writer[slug] \in {NoJob, j} /\ writer' = [writer EXCEPT ![slug] = j]
      /\ staged' = IF content[slug] # RowFrom(j, n)
                   THEN [staged EXCEPT ![j][slug] = RowFrom(j, n)] ELSE staged
      /\ next' = [next EXCEPT ![j] = n + 1] /\ jpc' = [jpc EXCEPT ![j] = "owner"]
      /\ UNCHANGED <<content, syncLock, job, todo, applied>>
  BY <1>2, <1>3, <1>4 DEF Upsert, WriteRow, Owned
<1>6. SyncTyped'
  BY <1>1, <1>2, <1>5 DEF SyncInv, SyncTyped, Working
<1>7. /\ Alone(j) /\ jpc'[j] = "owner" /\ next'[j] = n + 1 /\ job'[j] = job[j]
      /\ staged'[j][slug] = IF content[slug] # RowFrom(j, n) THEN RowFrom(j, n) ELSE NoRow
      /\ \A s \in Slugs : s # slug => staged'[j][s] = staged[j][s]
      /\ \A s \in Slugs : writer[s] = j => writer'[s] = j
      /\ writer'[slug] = j
  BY <1>2, <1>4, <1>5, NullAssumption DEF SyncInv, SyncTyped, Alone
<1>8. JobInv(j)'
  <2>1. JobInv(j)
    BY DEF SyncInv
  <2>2. Items(j)' = Items(j)
    BY <1>5 DEF Items
  <2>3. /\ job'[j] \in Snapshots' /\ ValidateSnapshot(job'[j]) /\ syncLock' = j
    BY <1>1, <1>5, <1>7, <2>1 DEF JobInv, Working
  <2>4. next'[j] <= Len(Items(j)') + 1
    BY <1>1, <1>7, <2>2
  <2>5. \A s \in Slugs : staged'[j][s] # NoRow => writer'[s] = j
    BY <1>7, <2>1 DEF JobInv
  <2> QED BY <1>7, <2>3, <2>4, <2>5 DEF JobInv, Working, ValidateSnapshot
<1>9. StageInv(j)'
  <2>1. /\ \A m \in 1..(n - 1) : Owned(j, Items(j)[m].slug)
                               /\ Effective(j, Items(j)[m].slug) = RowFrom(j, m)
        /\ \A s \in Slugs : (\A m \in 1..(n - 1) : Items(j)[m].slug # s) => staged[j][s] = NoRow
    BY <1>1 DEF SyncInv, StageInv, Working
  <2>2. ASSUME NEW m \in 1..n
        PROVE  Owned(j, Items(j)[m].slug)' /\ Effective(j, Items(j)[m].slug)' = RowFrom(j, m)'
    <3>1. CASE m = n
      BY <1>4, <1>5, <1>7, <1>2, <3>1 DEF Owned, Effective, RowFrom, Items
    <3>2. CASE m # n
      <4>1. m \in 1..(n - 1) /\ m \in 1..Len(Items(j))
        BY <1>1, <3>2
      <4>2. Items(j)[m].slug \in Slugs /\ Items(j)[m].slug # slug
        BY <1>1, <1>2, <3>2, <4>1, ItemTyped
      <4>3. staged'[j][Items(j)[m].slug] = staged[j][Items(j)[m].slug]
        BY <1>7, <4>2
      <4>4. Owned(j, Items(j)[m].slug) /\ Effective(j, Items(j)[m].slug) = RowFrom(j, m)
        BY <2>1, <4>1
      <4>5. Items(j)' = Items(j) /\ RowFrom(j, m)' = RowFrom(j, m)
        BY <1>5 DEF Items, RowFrom
      <4> QED BY <1>5, <4>3, <4>4, <4>5 DEF Owned, Effective
    <3> QED BY <3>1, <3>2
  <2>3. ASSUME NEW s \in Slugs, \A m \in 1..n : Items(j)[m].slug # s
        PROVE  staged'[j][s] = NoRow
    <3>1. s # slug /\ \A m \in 1..(n - 1) : Items(j)[m].slug # s
      BY <1>1, <2>3
    <3> QED BY <1>7, <2>1, <3>1
  <2>4. next'[j] - 1 = n /\ Items(j)' = Items(j)
    BY <1>1, <1>5, <1>7 DEF Items
  <2> QED BY <1>7, <2>2, <2>3, <2>4 DEF StageInv, Items
<1> QED BY <1>5, <1>6, <1>7, <1>8, <1>9, OthersKeepJob, OthersKeepStage DEF SyncInv

LEMMA StartArchiveKeeps ==
  ASSUME SyncInv, NEW j \in Jobs, StartArchive(j)
  PROVE  SyncInv'
<1>1. /\ jpc[j] = "owner" /\ next[j] > Len(Items(j)) /\ jpc' = [jpc EXCEPT ![j] = "archive"]
      /\ todo' = [todo EXCEPT ![j] = {s \in Slugs \ SlugsOf(job[j]) : Archivable(j, s)}]
      /\ UNCHANGED <<content, writer, syncLock, job, next, staged, applied>>
  BY DEF StartArchive, registryVars, Items
<1>2. Len(Items(j)) \in Nat /\ next[j] = Len(Items(j)) + 1
  <2>1. next[j] <= Len(Items(j)) + 1 /\ job[j] \in Snapshots /\ next[j] \in Nat
    BY <1>1 DEF SyncInv, SyncTyped, JobInv
  <2> QED BY <1>1, <2>1, SnapshotTyped DEF Items
<1>3. SyncTyped' /\ Alone(j) /\ jpc'[j] = "archive"
      /\ todo'[j] = {s \in Slugs \ SlugsOf(job[j]) : Archivable(j, s)}
  BY <1>1 DEF SyncInv, SyncTyped, Working, Alone
<1>4. JobInv(j)'
  BY <1>1, <1>2, <1>3 DEF SyncInv, JobInv, Working, Items, ValidateSnapshot
<1>5. \A s \in Slugs \ SlugsOf(job[j]) : staged[j][s] = NoRow
  <2> SUFFICES ASSUME NEW s \in Slugs \ SlugsOf(job[j]), NEW n \in 1..(next[j] - 1)
               PROVE  Items(j)[n].slug # s
    BY <1>1 DEF SyncInv, StageInv, Working
  <2>1. n \in 1..Len(Items(j))
    BY <1>2
  <2> QED BY <1>1, <2>1, ItemTyped
<1>6. StageInv(j)'
  <2>1. /\ \A n \in 1..(next[j] - 1) :
            Owned(j, Items(j)[n].slug) /\ Effective(j, Items(j)[n].slug) = RowFrom(j, n)
    BY <1>1 DEF SyncInv, StageInv, Working
  <2>2. SlugsOf(job[j])' = SlugsOf(job[j])
        /\ \A s : Archivable(j, s)' = Archivable(j, s)
    BY <1>1 DEF SlugsOf, Archivable
  <2> QED BY <1>1, <1>3, <1>5, <2>1, <2>2 DEF StageInv, Items, Owned, Effective, RowFrom
<1> QED BY <1>1, <1>3, <1>4, <1>6, OthersKeepJob, OthersKeepStage DEF SyncInv

LEMMA ArchiveRowKeeps ==
  ASSUME SyncInv, NEW j \in Jobs, NEW s \in Slugs, ArchiveRow(j, s)
  PROVE  SyncInv'
<1>1. /\ jpc[j] = "archive" /\ s \in todo[j] /\ writer[s] \in {NoJob, j}
      /\ writer' = [writer EXCEPT ![s] = j]
      /\ staged' = IF Archivable(j, s) THEN [staged EXCEPT ![j][s] = Archived(content[s])]
                   ELSE staged
      /\ todo' = [todo EXCEPT ![j] = @ \ {s}]
      /\ UNCHANGED <<content, syncLock, jpc, job, next, applied>>
  BY DEF ArchiveRow, WriteRow, Archived
<1>2. s \notin SlugsOf(job[j])
  BY <1>1 DEF SyncInv, StageInv, Working
<1>3. Archivable(j, s) => Archived(content[s]) \in Row /\ Archived(content[s]) # NoRow
  BY SeedRowsAssumption, NullAssumption DEF Archivable, SyncInv, SyncTyped, Archived, Row, Statuses
<1>4. SyncTyped'
  BY <1>1, <1>3 DEF SyncInv, SyncTyped
<1>5. /\ Alone(j) /\ jpc'[j] = "archive" /\ todo'[j] = todo[j] \ {s}
      /\ staged'[j][s] = IF Archivable(j, s) THEN Archived(content[s]) ELSE staged[j][s]
      /\ \A t \in Slugs : t # s => staged'[j][t] = staged[j][t] /\ writer'[t] = writer[t]
      /\ writer'[s] = j
  BY <1>1, NullAssumption DEF SyncInv, SyncTyped, Alone
<1>6. JobInv(j)'
  BY <1>1, <1>5 DEF SyncInv, JobInv, Working, Items, ValidateSnapshot
<1>7. StageInv(j)'
  <2>1. /\ \A n \in 1..(next[j] - 1) :
            Owned(j, Items(j)[n].slug) /\ Effective(j, Items(j)[n].slug) = RowFrom(j, n)
        /\ todo[j] \cap SlugsOf(job[j]) = {}
        /\ \A t \in Slugs \ SlugsOf(job[j]) :
             staged[j][t] = IF Archivable(j, t) /\ t \notin todo[j]
                            THEN Archived(content[t]) ELSE NoRow
    BY <1>1 DEF SyncInv, StageInv, Working
  <2>2. SlugsOf(job[j])' = SlugsOf(job[j])
        /\ (\A t : Archivable(j, t)' = Archivable(j, t)) /\ Items(j)' = Items(j)
    BY <1>1 DEF SlugsOf, Archivable, Items
  <2>3. next[j] - 1 = Len(Items(j)) /\ Len(Items(j)) \in Nat
    <3>1. next[j] = Len(Items(j)) + 1 /\ job[j] \in Snapshots
      BY <1>1 DEF SyncInv, JobInv
    <3> QED BY <3>1, SnapshotTyped DEF Items
  <2>4. ASSUME NEW n \in 1..(next[j] - 1)
        PROVE  Owned(j, Items(j)[n].slug)' /\ Effective(j, Items(j)[n].slug)' = RowFrom(j, n)'
    <3>1. Items(j)[n].slug \in Slugs /\ Items(j)[n].slug # s
      BY <1>1, <1>2, <2>3, <2>4, ItemTyped
    <3> QED BY <1>1, <1>5, <2>1, <2>4, <3>1 DEF Owned, Effective, RowFrom, Items
  <2>5. ASSUME NEW t \in Slugs \ SlugsOf(job[j])
        PROVE  staged'[j][t] = IF Archivable(j, t) /\ t \notin todo'[j]
                               THEN Archived(content[t]) ELSE NoRow
    BY <1>1, <1>5, <2>1, <2>5
  <2>6. todo'[j] \cap SlugsOf(job[j]) = {}
    BY <1>5, <2>1
  <2> QED BY <1>1, <1>5, <2>2, <2>4, <2>5, <2>6 DEF StageInv
<1> QED BY <1>1, <1>4, <1>5, <1>6, <1>7, OthersKeepJob, OthersKeepStage DEF SyncInv

(* The rows of a job that has nothing left to archive. *)
LEMMA CommitEffect ==
  ASSUME SyncInv, NEW j \in Jobs, Commit(j)
  PROVE  /\ jpc[j] = "archive" /\ job[j] \in Snapshots /\ ValidateSnapshot(job[j])
         /\ syncLock = j
         /\ content' \in [Slugs -> Row \cup {NoRow}]
         /\ \A n \in 1..Len(Items(j)) : /\ Owned(j, Items(j)[n].slug)
                                      /\ content'[Items(j)[n].slug] = RowFrom(j, n)
         /\ \A s \in Slugs \ SlugsOf(job[j]) :
              content'[s] = IF Archivable(j, s) THEN Archived(content[s]) ELSE content[s]
         /\ \A s \in Slugs : content'[s] = content[s] \/ (writer[s] = j /\ content'[s] \in Row)
         /\ applied' = [applied EXCEPT ![job[j].source] = job[j]]
         /\ job[j].source \in Sources
<1>1. /\ jpc[j] = "archive" /\ todo[j] = {}
      /\ content' = [s \in Slugs |-> Effective(j, s)]
      /\ applied' = [applied EXCEPT ![job[j].source] = job[j]]
  BY DEF Commit, Effective
<1>2. /\ job[j] \in Snapshots /\ ValidateSnapshot(job[j]) /\ syncLock = j
      /\ next[j] = Len(Items(j)) + 1
  BY <1>1 DEF SyncInv, JobInv, Working
<1>3. job[j].source \in Sources /\ Len(Items(j)) \in Nat
  BY <1>2, SnapshotTyped DEF Items
<1>4. content' \in [Slugs -> Row \cup {NoRow}]
  BY <1>1 DEF SyncInv, SyncTyped, Effective
<1>5. /\ \A n \in 1..Len(Items(j)) : /\ Owned(j, Items(j)[n].slug)
                                   /\ Effective(j, Items(j)[n].slug) = RowFrom(j, n)
      /\ \A s \in Slugs \ SlugsOf(job[j]) :
           staged[j][s] = IF Archivable(j, s) THEN Archived(content[s]) ELSE NoRow
  BY <1>1, <1>2, <1>3 DEF SyncInv, StageInv, Working
<1>6. \A n \in 1..Len(Items(j)) : content'[Items(j)[n].slug] = RowFrom(j, n)
  BY <1>1, <1>5, ItemTyped
<1>7. ASSUME NEW s \in Slugs \ SlugsOf(job[j])
      PROVE  content'[s] = IF Archivable(j, s) THEN Archived(content[s]) ELSE content[s]
  <2>1. Archivable(j, s) => Archived(content[s]) # NoRow
    BY SeedRowsAssumption, NullAssumption DEF Archivable, SyncInv, SyncTyped, Archived, Row, Statuses
  <2> QED BY <1>1, <1>5, <2>1 DEF Effective
<1>8. ASSUME NEW s \in Slugs
      PROVE  content'[s] = content[s] \/ (writer[s] = j /\ content'[s] \in Row)
  <2>1. content'[s] = Effective(j, s)
    BY <1>1
  <2>2. staged[j][s] # NoRow => writer[s] = j /\ staged[j][s] \in Row
    BY DEF SyncInv, SyncTyped, JobInv
  <2> QED BY <2>1, <2>2 DEF Effective
<1> QED BY <1>1, <1>2, <1>3, <1>4, <1>5, <1>6, <1>7, <1>8

LEMMA CommitKeeps ==
  ASSUME SyncInv, NEW j \in Jobs, Commit(j)
  PROVE  SyncInv'
<1>1. End(j)
  BY DEF Commit
<1>2. SyncTyped'
  BY <1>1, CommitEffect, EndIdle DEF SyncInv, SyncTyped
<1>3. ASSUME NEW q \in Jobs \ {j}
      PROVE  StageInv(q)'
  <2>1. jpc[q] \notin Working
    BY CommitEffect DEF SyncInv, JobInv
  <2>2. jpc'[q] = jpc[q]
    BY <1>1, EndIdle DEF Alone
  <2> QED BY <2>1, <2>2 DEF StageInv
<1> QED BY <1>1, <1>2, <1>3, EndIdle, OthersKeepJob DEF SyncInv

(* No step of a job breaks it, nor any that leaves rows, jobs and writers  *)
(* alone.                                                                  *)
LEMMA JobKeeps ==
  ASSUME SyncInv, NEW j \in Jobs, JobStep(j)
  PROVE  SyncInv'
BY StartKeeps, LockKeeps, OwnerKeeps, UpsertKeeps, StartArchiveKeeps, ArchiveRowKeeps, CommitKeeps,
   RollbackKeeps DEF JobStep, Advance, Fail

LEMMA OutsideKeeps ==
  ASSUME SyncInv, UNCHANGED <<content, writer, syncVars>>
  PROVE  SyncInv'
<1>1. UNCHANGED <<content, writer, syncLock, jpc, job, next, staged, todo, applied>>
  BY DEF syncVars
<1>2. SyncTyped'
  BY <1>1 DEF SyncInv, SyncTyped
<1>3. ASSUME NEW j \in Jobs
      PROVE  JobInv(j)'
  BY <1>1 DEF SyncInv, JobInv, Items
<1>4. ASSUME NEW j \in Jobs
      PROVE  StageInv(j)'
  BY <1>1 DEF SyncInv, StageInv, Items, Owned, Effective, RowFrom, Archived, Archivable
<1> QED BY <1>2, <1>3, <1>4 DEF SyncInv

LEMMA SyncStarts ==
  ASSUME Init
  PROVE  SyncInv
BY SeedRowsAssumption, NullAssumption DEF Init, SyncInv, SyncTyped, JobInv, StageInv, Working, Unwritten

LEMMA SyncInvariant == Spec => []SyncInv
<1>1. ASSUME SyncInv, [Next]_vars
      PROVE  SyncInv'
  BY <1>1, JobKeeps, OutsideKeeps DEF Next, ShareStep, vars, syncVars,
     registryVars
<1> QED BY <1>1, SyncStarts, PTL DEF Spec
-----------------------------------------------------------------------------
(* Types hold in the job's module, whose readers take locks as they like.  *)
THEOREM SyncTypeCorrect == Spec => []TypeOK
<1> DEFINE Shared == sharers \in [Slugs -> SUBSET Requests]
<1>1. Init => Shared
  BY DEF Init
<1>2. ASSUME Shared, [Next]_vars
      PROVE  Shared'
  <2>1. ASSUME NEW j \in Jobs, JobStep(j)
        PROVE  UNCHANGED sharers
    BY <2>1 DEF JobStep, Advance, Fail, Start, Lock, ReadOwner,
       Rollback, Upsert, StartArchive, ArchiveRow, Commit, registryVars
  <2>2. CASE ShareStep
    BY <1>2, <2>2 DEF ShareStep, ShareRow
  <2>3. CASE UNCHANGED vars
    BY <1>2, <2>3 DEF vars, registryVars
  <2> QED BY <1>2, <2>1, <2>2, <2>3 DEF Next
<1>3. SyncInv /\ Shared => TypeOK
  BY DEF SyncInv, SyncTyped, TypeOK, RegistryTypeOK, Row, Statuses,
     InTransaction, Working
<1> QED BY <1>1, <1>2, <1>3, SyncInvariant, PTL DEF Spec

(* A committed job has done what AtomicRegistry does with its manifest. *)
LEMMA ListedItem ==
  ASSUME NEW snap \in Snapshots, ValidateSnapshot(snap), NEW n \in 1..Len(snap.items)
  PROVE  Atomic!ItemFor(snap, snap.items[n].slug) = snap.items[n]
<1>1. snap.items[n] \in Atomic!Items(snap)
  BY DEF Atomic!Items
<1>2. ASSUME NEW item \in Atomic!Items(snap), item.slug = snap.items[n].slug
      PROVE  item = snap.items[n]
  <2>1. PICK m \in 1..Len(snap.items) : item = snap.items[m]
    BY DEF Atomic!Items
  <2>2. Len(snap.items) \in Nat
    BY SnapshotTyped
  <2>3. m = n
    BY <1>2, <2>1, <2>2 DEF ValidateSnapshot
  <2> QED BY <2>1, <2>3
<1> QED BY <1>1, <1>2 DEF Atomic!ItemFor

LEMMA ListsSlugs ==
  ASSUME NEW snap, NEW s
  PROVE  Atomic!Lists(snap, s) <=> s \in SlugsOf(snap)
BY DEF Atomic!Lists, Atomic!Items, SlugsOf

LEMMA CommitApplies ==
  ASSUME SyncInv, NEW j \in Jobs, Commit(j)
  PROVE  Atomic!Apply(job[j])
<1> DEFINE snap == job[j]
<1>1. /\ snap \in Snapshots /\ ValidateSnapshot(snap)
      /\ content' \in [Slugs -> Row \cup {NoRow}]
      /\ \A n \in 1..Len(Items(j)) : /\ Owned(j, Items(j)[n].slug)
                                   /\ content'[Items(j)[n].slug] = RowFrom(j, n)
      /\ \A s \in Slugs \ SlugsOf(snap) :
           content'[s] = IF Archivable(j, s) THEN Archived(content[s]) ELSE content[s]
      /\ applied' = [applied EXCEPT ![snap.source] = snap]
  BY CommitEffect
<1>2. Len(snap.items) \in Nat
  BY <1>1, SnapshotTyped
<1>3. Atomic!Valid(snap)
  <2>1. snap.items # <<>> /\ Len(snap.items) > 0
    BY <1>1, <1>2, SnapshotTyped, EmptySeq DEF ValidateSnapshot
  <2> QED BY <1>1, <1>2, <2>1 DEF ValidateSnapshot, Atomic!Valid
<1>4. ASSUME NEW s \in Slugs, Atomic!Lists(snap, s)
      PROVE  /\ content[s] = NoRow \/ Atomic!Managed(snap.source, s)
             /\ content'[s] = Atomic!RowFrom(snap, Atomic!ItemFor(snap, s))
  <2>1. PICK n \in 1..Len(snap.items) : snap.items[n].slug = s
    BY <1>4, ListsSlugs DEF SlugsOf
  <2>2. Atomic!ItemFor(snap, s) = snap.items[n]
    BY <1>1, <2>1, ListedItem
  <2> QED BY <1>1, <2>1, <2>2 DEF Items, Owned, RowFrom, Atomic!RowFrom, Atomic!Managed
<1>5. ASSUME NEW s \in Slugs, ~Atomic!Lists(snap, s)
      PROVE  content'[s] = IF Atomic!Managed(snap.source, s)
                           THEN [content[s] EXCEPT !.status = "archived"] ELSE content[s]
  <2>1. content'[s] = IF Archivable(j, s) THEN Archived(content[s]) ELSE content[s]
    BY <1>1, <1>5, ListsSlugs
  <2>2. content[s] # NoRow /\ content[s].status = "archived" => Archived(content[s]) = content[s]
    BY DEF SyncInv, SyncTyped, Row, Archived
  <2> QED BY <2>1, <2>2 DEF Archivable, Atomic!Managed, Archived
<1> QED BY <1>1, <1>3, <1>4, <1>5 DEF Atomic!Apply

(* Every other step of a job, and of those that read rows, leaves the      *)
(* committed rows alone.                                                   *)
LEMMA OnlyCommits ==
  ASSUME SyncInv, [Next]_vars
  PROVE  (\E j \in Jobs : Commit(j)) \/ UNCHANGED <<content, applied>>
<1>1. ASSUME NEW j \in Jobs, JobStep(j), ~Commit(j)
      PROVE  UNCHANGED <<content, applied>>
  BY <1>1 DEF JobStep, Advance, Fail, Start, Lock, ReadOwner,
     Rollback, Upsert, StartArchive, ArchiveRow, registryVars
<1> QED BY <1>1 DEF Next, ShareStep, vars, registryVars, syncVars

(* A sync is all or nothing: whatever jobs overlap, fail half way or wait  *)
(* for comment transactions, the committed rows change only by one valid   *)
(* manifest being applied as a whole (Sync of internal/content).           *)
THEOREM RegistryImplemented == Spec => ImplementsRegistry
<1>1. Init => Atomic!Init
  BY DEF Init, Atomic!Init
<1>2. ASSUME SyncInv, [Next]_vars
      PROVE  [Atomic!Next]_(Atomic!registryVars)
  <2>1. ASSUME NEW j \in Jobs, Commit(j)
        PROVE  Atomic!Next
    BY <1>2, <2>1, CommitEffect, CommitApplies DEF Atomic!Next
  <2> QED BY <1>2, <2>1, OnlyCommits DEF Atomic!registryVars
<1> QED BY <1>1, <1>2, SyncInvariant, PTL DEF Spec, ImplementsRegistry, Atomic!Spec
(* A snapshot in force is a valid one of the source it stands for. *)
Taken ==
  \A source \in Sources : applied[source] # NoSnapshot =>
    /\ applied[source] \in Snapshots /\ ValidateSnapshot(applied[source])
    /\ applied[source].source = source

LEMMA ListedTyped ==
  ASSUME NEW snap \in Snapshots, ValidateSnapshot(snap), NEW s, Atomic!Lists(snap, s)
  PROVE  LET row == Atomic!RowFrom(snap, Atomic!ItemFor(snap, s)) IN
           row \in Row /\ row # NoRow /\ row.managedBy = snap.source
<1>1. PICK n \in 1..Len(snap.items) : snap.items[n].slug = s
  BY ListsSlugs DEF SlugsOf
<1>2. Atomic!ItemFor(snap, s) = snap.items[n]
  BY <1>1, ListedItem
<1>3. snap.items[n] \in ItemSet /\ snap.source \in Sources
  BY SnapshotTyped
<1> QED BY <1>2, <1>3, SeedRowsAssumption, NullAssumption DEF Atomic!RowFrom, ItemSet, Row

LEMMA CommitInForce ==
  ASSUME SyncInv, Taken, SnapshotInForce, NEW j \in Jobs, Commit(j)
  PROVE  Taken' /\ SnapshotInForce'
<1> DEFINE snap == job[j]
<1>1. /\ snap \in Snapshots /\ ValidateSnapshot(snap) /\ snap.source \in Sources
      /\ applied' = [applied EXCEPT ![snap.source] = snap]
  BY CommitEffect
<1>2. /\ \A s \in Slugs : Atomic!Lists(snap, s) =>
           /\ content[s] = NoRow \/ Atomic!Managed(snap.source, s)
           /\ content'[s] = Atomic!RowFrom(snap, Atomic!ItemFor(snap, s))
      /\ \A s \in Slugs : ~Atomic!Lists(snap, s) =>
           content'[s] = IF Atomic!Managed(snap.source, s)
                         THEN [content[s] EXCEPT !.status = "archived"] ELSE content[s]
  BY CommitApplies DEF Atomic!Apply
<1>3. \A source \in Sources : applied'[source] = IF source = snap.source THEN snap ELSE applied[source]
  BY <1>1 DEF SyncInv, SyncTyped
<1>4. Taken'
  BY <1>1, <1>3 DEF Taken, Snapshots, ValidateSnapshot
<1>5. ASSUME NEW s \in Slugs
      PROVE  /\ Atomic!Lists(snap, s) =>
                  content'[s] = Atomic!RowFrom(snap, Atomic!ItemFor(snap, s))
             /\ content'[s] # NoRow /\ content'[s].managedBy = snap.source
                  /\ ~Atomic!Lists(snap, s) => content'[s].status = "archived"
  <2>1. CASE Atomic!Lists(snap, s)
    BY <1>2, <2>1
  <2>2. CASE ~Atomic!Lists(snap, s)
    <3>1. CASE Atomic!Managed(snap.source, s)
      <4>1. content[s] \in Row
        BY <3>1 DEF Atomic!Managed, SyncInv, SyncTyped
      <4>2. content'[s] = [content[s] EXCEPT !.status = "archived"]
        BY <1>2, <2>2, <3>1
      <4>3. content'[s].status = "archived"
        BY <4>1, <4>2 DEF Row
      <4> QED BY <2>2, <4>3
    <3>2. CASE ~Atomic!Managed(snap.source, s)
      <4>1. content'[s] = content[s]
        BY <1>2, <2>2, <3>2
      <4> QED BY <2>2, <3>2, <4>1 DEF Atomic!Managed
    <3> QED BY <3>1, <3>2
  <2> QED BY <2>1, <2>2
<1>6. ASSUME NEW source \in Sources, source # snap.source, applied[source] # NoSnapshot, NEW s \in Slugs
      PROVE  /\ Atomic!Lists(applied[source], s) =>
                  content'[s] = Atomic!RowFrom(applied[source],
                                                    Atomic!ItemFor(applied[source], s))
             /\ Atomic!Managed(source, s)' /\ ~Atomic!Lists(applied[source], s) =>
                  content'[s].status = "archived"
  <2>1. /\ applied[source] \in Snapshots /\ ValidateSnapshot(applied[source])
        /\ applied[source].source = source
        /\ Atomic!Lists(applied[source], s) =>
             content[s] = Atomic!RowFrom(applied[source], Atomic!ItemFor(applied[source], s))
        /\ Atomic!Managed(source, s) /\ ~Atomic!Lists(applied[source], s) =>
             content[s].status = "archived"
    BY <1>6 DEF Taken, SnapshotInForce, Atomic!SnapshotInForce
  <2>2. Atomic!Lists(snap, s) => content'[s].managedBy = snap.source
    BY <1>1, <1>2, ListedTyped
  <2>3. Atomic!Managed(snap.source, s) => content'[s].managedBy = snap.source
    BY <1>2, <2>2 DEF Atomic!Managed, SyncInv, SyncTyped, Row
  <2>4. Atomic!Managed(source, s)' => content'[s] = content[s]
    BY <1>2, <1>6, <2>2, <2>3 DEF Atomic!Managed
  <2>5. CASE Atomic!Lists(applied[source], s)
    <3>1. content[s] # NoRow /\ content[s].managedBy = source
      BY <2>1, <2>5, ListedTyped
    <3>2. content'[s] = content[s]
      BY <1>2, <1>6, <3>1 DEF Atomic!Managed
    <3> QED BY <2>1, <2>5, <3>2
  <2>6. CASE ~Atomic!Lists(applied[source], s)
    BY <2>1, <2>4, <2>6 DEF Atomic!Managed
  <2> QED BY <2>5, <2>6
<1>7. \A source \in Sources : applied'[source] # NoSnapshot =>
        \A s \in Slugs :
          /\ Atomic!Lists(applied'[source], s) =>
               content'[s] = Atomic!RowFrom(applied'[source],
                                                 Atomic!ItemFor(applied'[source], s))
          /\ Atomic!Managed(source, s)' /\ ~Atomic!Lists(applied'[source], s) =>
               content'[s].status = "archived"
  <2> SUFFICES ASSUME NEW source \in Sources, applied'[source] # NoSnapshot, NEW s \in Slugs
               PROVE  /\ Atomic!Lists(applied'[source], s) =>
                           content'[s] = Atomic!RowFrom(applied'[source],
                                           Atomic!ItemFor(applied'[source], s))
                      /\ Atomic!Managed(source, s)'
                           /\ ~Atomic!Lists(applied'[source], s) => content'[s].status = "archived"
    OBVIOUS
  <2>1. CASE source = snap.source
    <3>1. applied'[source] = snap
      BY <1>3, <2>1
    <3> QED BY <1>5, <2>1, <3>1 DEF Atomic!Managed
  <2>2. CASE source # snap.source
    <3>1. applied'[source] = applied[source]
      BY <1>3, <2>2
    <3> QED BY <1>6, <2>2, <3>1
  <2> QED BY <2>1, <2>2
<1>8. SnapshotInForce'
  BY <1>7 DEF SnapshotInForce, Atomic!SnapshotInForce, Atomic!Lists,
     Atomic!Items, Atomic!RowFrom, Atomic!ItemFor, Atomic!Managed
<1> QED BY <1>4, <1>8

(* What the last manifest of a source says is what its rows say, however   *)
(* many jobs of however many sources overlap (Sync of internal/content).   *)
THEOREM SnapshotHolds == Spec => []SnapshotInForce
<1>1. Init => Taken /\ SnapshotInForce
  BY DEF Init, Taken, SnapshotInForce, Atomic!SnapshotInForce
<1>2. ASSUME SyncInv, Taken, SnapshotInForce, [Next]_vars
      PROVE  Taken' /\ SnapshotInForce'
  <2>1. CASE UNCHANGED <<content, applied>>
    BY <1>2, <2>1 DEF Taken, SnapshotInForce, Atomic!SnapshotInForce, Atomic!Managed
  <2> QED BY <1>2, <2>1, OnlyCommits, CommitInForce
<1>3. Taken /\ SnapshotInForce => SnapshotInForce
  OBVIOUS
<1> QED BY <1>1, <1>2, <1>3, SyncInvariant, PTL DEF Spec
-----------------------------------------------------------------------------
(* The API process never touches the rows. *)
LEMMA RequestsOnlyRead ==
  ASSUME NEW p \in Requests, Request(p)
  PROVE  UNCHANGED <<content, writer, syncVars>>
BY DEF Request, Store!RequestStep, Store!Serve, Store!Create, Store!Moderate, Store!Check,
   Store!Begin, Store!Find, Store!Lock, Store!Policy, Store!Count, Store!Insert, Store!Reread,
   Store!Update, Store!Audit, Store!Commit, Store!OrphanEnds, Store!Abandon, Store!Refuse,
   Store!Finish, Store!registryVars

LEMMA SyncInside == SystemSpec => []SyncInv
<1>1. SystemInit => SyncInv
  BY SyncStarts DEF SystemInit
<1>2. ASSUME SyncInv, [SystemNext]_systemVars
      PROVE  SyncInv'
  <2>1. ASSUME NEW p \in Requests, Request(p)
        PROVE  SyncInv'
    BY <1>2, <2>1, RequestsOnlyRead, OutsideKeeps
  <2>2. ASSUME NEW j \in Jobs, Job(j)
        PROVE  SyncInv'
    BY <1>2, <2>2, JobKeeps DEF Job
  <2>3. CASE UNCHANGED systemVars
    BY <1>2, <2>3, OutsideKeeps DEF systemVars, vars, registryVars
  <2> QED BY <1>2, <2>1, <2>2, <2>3 DEF SystemNext
<1> QED BY <1>1, <1>2, PTL DEF SystemSpec

(* A step of a job is one that CommentStore allows, or none. *)
LEMMA JobAllowed ==
  ASSUME SyncInv, NEW j \in Jobs, JobStep(j)
  PROVE  Store!RegistryStep(Row) \/ UNCHANGED registryVars
<1>1. CASE Rollback(j)
  <2>1. Store!ReleaseRows(j) /\ UNCHANGED <<content, sharers>>
    BY <1>1 DEF Rollback, End, ReleaseRows, Store!ReleaseRows
  <2>2. content' \in [Slugs -> Row \cup {content[s] : s \in Slugs}]
    BY <2>1 DEF SyncInv, SyncTyped
  <2> QED BY <2>1, <2>2 DEF Store!RegistryStep
<1>2. CASE Upsert(j)
  <2>1. /\ jpc[j] = "upsert" /\ next[j] \in 1..Len(Items(j))
    BY <1>2, SnapshotTyped DEF Upsert, SyncInv, SyncTyped, JobInv, Items
  <2>2. Item(j).slug \in Slugs
    BY <2>1, ItemTyped DEF Item, Items
  <2>3. WriteRow(j, Item(j).slug) /\ UNCHANGED <<content, sharers>>
    BY <1>2 DEF Upsert
  <2> QED BY <2>2, <2>3 DEF Store!RegistryStep, Store!WriteRow, WriteRow
<1>3. ASSUME NEW s \in Slugs, ArchiveRow(j, s)
      PROVE  Store!RegistryStep(Row)
  BY <1>3 DEF ArchiveRow, Store!RegistryStep, Store!WriteRow, WriteRow
<1>4. CASE Commit(j)
  <2>1. /\ Store!ReleaseRows(j) /\ UNCHANGED sharers
        /\ content' = [s \in Slugs |-> Effective(j, s)]
    BY <1>4 DEF Commit, End, ReleaseRows, Store!ReleaseRows, Effective
  <2>2. \A s \in Slugs : content'[s] = content[s] \/ (writer[s] = j /\ content'[s] \in Row)
    BY <1>4, CommitEffect
  <2>3. content' \in [Slugs -> Row \cup {content[s] : s \in Slugs}]
    BY <2>1, <2>2
  <2> QED BY <2>1, <2>2, <2>3 DEF Store!RegistryStep
<1>5. ASSUME \/ \E file \in Manifests : Start(j, file)
             \/ Lock(j) \/ StartArchive(j)
             \/ ReadOwner(j) /\ ~Rollback(j)
      PROVE  UNCHANGED registryVars
  BY <1>5 DEF Start, Lock, StartArchive, ReadOwner, registryVars
<1> QED BY <1>1, <1>2, <1>3, <1>4, <1>5 DEF JobStep, Advance, Fail

(* The jobs do to the registry what CommentStore assumes of them and no    *)
(* more, so what is proved of CommentStore holds beside real jobs.         *)
THEOREM StoreImplemented == SystemSpec => ImplementsStore
<1>1. SystemInit => Store!Init
  BY DEF SystemInit
<1>2. ASSUME SyncInv, [SystemNext]_systemVars
      PROVE  [Store!Next]_(Store!vars)
  <2>1. ASSUME NEW p \in Requests, Request(p)
        PROVE  Store!Next
    BY <2>1 DEF Request, Store!Next
  <2>2. ASSUME NEW j \in Jobs, Job(j)
        PROVE  Store!Next \/ UNCHANGED Store!vars
    <3>1. UNCHANGED Store!commentVars
      BY <2>2 DEF Job, commentVars, Store!commentVars, Store!boardVars, Store!requestVars
    <3>2. Store!RegistryStep(Row) \/ UNCHANGED registryVars
      BY <1>2, <2>2, JobAllowed DEF Job
    <3> QED BY <3>1, <3>2 DEF Store!Next, Store!vars, Store!registryVars, registryVars
  <2>3. CASE UNCHANGED systemVars
    BY <2>3 DEF systemVars, vars, registryVars, commentVars, Store!vars, Store!registryVars, Store!commentVars,
       Store!boardVars, Store!requestVars
  <2> QED BY <1>2, <2>1, <2>2, <2>3 DEF SystemNext
<1> QED BY <1>1, <1>2, SyncInside, PTL DEF SystemSpec, ImplementsStore, Store!Spec
-----------------------------------------------------------------------------
(* A creation knows its post from the start; only creations ask for a row. *)
Shaped(r) == r = [op |-> r.op, slug |-> r.slug, id |-> r.id, current |-> r.current]
Steps == {"idle", "check", "begin"} \cup Store!Connected \cup Store!Orphaned

AskInv ==
  /\ pc \in [Requests -> Steps]
  /\ tx = [p \in Requests |-> tx[p]]
  /\ \A p \in Requests :
       /\ Shaped(tx[p])
       /\ pc[p] \in {"find", "policy"} => (tx[p].op = "create" <=> pc[p] = "policy")
       /\ tx[p].op = "create" => tx[p].slug \in Slugs

LEMMA AskStarts ==
  ASSUME SystemInit
  PROVE  AskInv
BY DEF SystemInit, Store!Init, AskInv, Shaped, Steps, Store!NullTx, Store!Asks

LEMMA Reshaped ==
  ASSUME NEW r, Shaped(r), NEW x
  PROVE  /\ [r EXCEPT !.slug = x] = [op |-> r.op, slug |-> x, id |-> r.id, current |-> r.current]
         /\ [r EXCEPT !.id = x] = [op |-> r.op, slug |-> r.slug, id |-> x, current |-> r.current]
         /\ [r EXCEPT !.current = x] = [op |-> r.op, slug |-> r.slug, id |-> r.id, current |-> x]
<1> DEFINE shape == [op |-> r.op, slug |-> r.slug, id |-> r.id, current |-> r.current]
<1>1. /\ [shape EXCEPT !.slug = x] = [op |-> r.op, slug |-> x, id |-> r.id, current |-> r.current]
      /\ [shape EXCEPT !.id = x] = [op |-> r.op, slug |-> r.slug, id |-> x, current |-> r.current]
      /\ [shape EXCEPT !.current = x] = [op |-> r.op, slug |-> r.slug, id |-> r.id, current |-> x]
  OBVIOUS
<1>2. r = shape
  BY DEF Shaped
<1> QED BY <1>1, <1>2

LEMMA AskKept ==
  ASSUME AskInv, NEW p \in Requests, Store!RequestStep(p)
  PROVE  AskInv'
<1> DEFINE To(step, record) ==
      pc' = [pc EXCEPT ![p] = step] /\ tx' = [tx EXCEPT ![p] = record]
<1> USE DEF Steps, Store!Connected, Store!Orphaned
<1>1. ASSUME NEW step \in Steps, NEW record, To(step, record), Shaped(record),
             step \in {"find", "policy"} => (record.op = "create" <=> step = "policy"),
             record.op = "create" => record.slug \in Slugs
      PROVE  AskInv'
  BY <1>1 DEF AskInv
<1>2. ASSUME NEW step \in Steps, Store!Goto(p, step), UNCHANGED tx,
             step \in {"find", "policy"} => (tx[p].op = "create" <=> step = "policy")
      PROVE  AskInv'
  BY <1>2 DEF AskInv, Store!Goto
<1>3. ASSUME NEW code, Store!Finish(p, code)
      PROVE  AskInv'
  <2>1. To("idle", Store!NullTx)
    BY <1>3 DEF Store!Finish, Store!Goto
  <2> QED BY <1>1, <2>1 DEF Shaped, Store!NullTx, Store!Asks
<1>4. ASSUME NEW s \in Slugs, Store!Create(p, s)
      PROVE  AskInv'
  <2>1. To("check", Store!Asks("create", s, 0))
    BY <1>4 DEF Store!Create, Store!Goto
  <2> QED BY <1>1, <2>1 DEF Shaped, Store!Asks
<1>5. ASSUME NEW op \in Store!Moderations, NEW i, Store!Moderate(p, op, i)
      PROVE  AskInv'
  <2>1. To("begin", Store!Asks(op, NoSlug, i))
    BY <1>5 DEF Store!Moderate, Store!Goto
  <2> QED BY <1>1, <2>1, <1>5 DEF Shaped, Store!Asks, Store!Moderations
<1>6. CASE Store!Check(p)
  BY <1>6, <1>2, <1>3 DEF Store!Check, Store!Refuse
<1>7. CASE Store!Begin(p)
  BY <1>7, <1>2 DEF Store!Begin
<1>8. CASE Store!Find(p)
  <2>1. CASE Store!Refuse(p, "notfound")
    BY <2>1, <1>3 DEF Store!Refuse
  <2>2. ASSUME pc[p] = "find", tx' = [tx EXCEPT ![p].slug = comments[tx[p].id].slug],
               Store!Goto(p, "lock")
        PROVE  AskInv'
    <3>1. To("lock", [tx[p] EXCEPT !.slug = comments[tx[p].id].slug])
      BY <2>2 DEF Store!Goto
    <3>2. Shaped(tx[p]) /\ tx[p].op # "create"
      BY <2>2 DEF AskInv
    <3> QED BY <1>1, <3>1, <3>2, Reshaped DEF Shaped
  <2> QED BY <1>8, <2>1, <2>2 DEF Store!Find
<1>9. CASE Store!Lock(p)
  BY <1>9, <1>2 DEF Store!Lock
<1>10. CASE Store!Policy(p)
  BY <1>10, <1>2, <1>3 DEF Store!Policy, Store!Refuse
<1>11. CASE Store!Count(p)
  BY <1>11, <1>2, <1>3 DEF Store!Count, Store!Refuse
<1>12. CASE Store!Insert(p)
  <2>1. ASSUME tx' = [tx EXCEPT ![p].id = seq + 1], Store!Goto(p, "commit")
        PROVE  AskInv'
    <3>1. To("commit", [tx[p] EXCEPT !.id = seq + 1])
      BY <2>1 DEF Store!Goto
    <3>2. Shaped(tx[p]) /\ (tx[p].op = "create" => tx[p].slug \in Slugs)
      BY DEF AskInv
    <3> QED BY <1>1, <3>1, <3>2, Reshaped DEF Shaped
  <2> QED BY <1>12, <1>3, <2>1 DEF Store!Insert, Store!Refuse
<1>13. CASE Store!Reread(p)
  <2>1. PICK step \in {"commitRead", "count", "update"} :
          To(step, [tx[p] EXCEPT !.current = comments[tx[p].id].status])
    BY <1>13 DEF Store!Reread, Store!Goto
  <2>2. Shaped(tx[p]) /\ (tx[p].op = "create" => tx[p].slug \in Slugs)
    BY DEF AskInv
  <2> QED BY <1>1, <2>1, <2>2, Reshaped DEF Shaped
<1>14. CASE Store!Update(p) \/ Store!Audit(p)
  BY <1>14, <1>2 DEF Store!Update, Store!Audit
<1>15. CASE Store!Commit(p) \/ Store!OrphanEnds(p)
  BY <1>15, <1>3 DEF Store!Commit, Store!OrphanEnds
<1>16. CASE Store!Abandon(p)
  <2>1. CASE To("idle", Store!NullTx)
    BY <1>1, <2>1 DEF Shaped, Store!NullTx, Store!Asks
  <2> QED BY <1>16, <1>2, <2>1 DEF Store!Abandon, Store!Goto
<1> QED BY <1>4, <1>5, <1>6, <1>7, <1>8, <1>9, <1>10, <1>11, <1>12, <1>13, <1>14, <1>15, <1>16
        DEF Store!RequestStep, Store!Serve

LEMMA AskInside == SystemSpec => []AskInv
<1>1. ASSUME AskInv, [SystemNext]_systemVars
      PROVE  AskInv'
  <2>1. CASE UNCHANGED <<pc, tx>>
    BY <1>1, <2>1 DEF AskInv
  <2> QED BY <1>1, <2>1, AskKept DEF SystemNext, Request, Job, systemVars, commentVars
<1> QED BY <1>1, AskStarts, PTL DEF SystemSpec

(* A step of a request is one that ContentSync allows, or none. *)
LEMMA RequestAllowed ==
  ASSUME AskInv, NEW p \in Requests, Request(p)
  PROVE  ShareStep \/ UNCHANGED vars
<1>1. UNCHANGED <<content, writer, syncVars>>
  BY RequestsOnlyRead
<1>2. CASE UNCHANGED sharers
  BY <1>1, <1>2 DEF vars, registryVars
<1>3. CASE sharers' = [s \in Slugs |-> sharers[s] \ {p}]
  BY <1>1, <1>3 DEF ShareStep
<1>4. CASE pc[p] = "policy" /\ Store!ShareRow(p, tx[p].slug)
  <2>1. tx[p].slug \in Slugs
    BY <1>4 DEF AskInv
  <2>2. ShareRow(p, tx[p].slug)
    BY <1>4 DEF Store!ShareRow, ShareRow, Store!CanShareRow, CanShareRow
  <2> QED BY <1>1, <2>1, <2>2 DEF ShareStep
<1> QED
  BY <1>2, <1>3, <1>4 DEF Request, Store!RequestStep, Store!Serve, Store!Create, Store!Moderate,
     Store!Check, Store!Begin, Store!Find, Store!Lock, Store!Policy, Store!Count, Store!Insert,
     Store!Reread, Store!Update, Store!Audit, Store!Commit, Store!OrphanEnds, Store!Abandon,
     Store!Refuse, Store!Finish, Store!ReleaseLocks, Store!registryVars

(* The requests do to the rows what ContentSync assumes of them and no     *)
(* more, so what is proved of it holds beside real requests.               *)
THEOREM SyncImplemented == SystemSpec => ImplementsSync
<1>1. SystemInit => Init
  BY DEF SystemInit
<1>2. ASSUME AskInv, [SystemNext]_systemVars
      PROVE  [Next]_vars
  BY <1>2, RequestAllowed DEF SystemNext, Job, Next, systemVars
<1> QED BY <1>1, <1>2, AskInside, PTL DEF SystemSpec, ImplementsSync, Spec
-----------------------------------------------------------------------------
(* The theorems of CommentStoreProofs, with the rows a sync may write for  *)
(* EnvRows.  They are about this instance of CommentStore, Store about     *)
(* another: the lemmas below say that the two are the same.                *)
Comments == INSTANCE CommentStoreProofs WITH EnvRows <- Row

LEMMA SameCardinality == \A S : Store!Cardinality(S) = Comments!Cardinality(S)
BY DEF Store!Cardinality, Comments!Cardinality

LEMMA SamePool == Store!PoolFree <=> Comments!PoolFree
BY SameCardinality DEF Store!PoolFree, Comments!PoolFree, Store!Connected, Comments!Connected

LEMMA SameCount == \A s : Store!VisibleCount(s) = Comments!VisibleCount(s)
BY SameCardinality
  DEF Store!VisibleCount, Comments!VisibleCount, Store!VisibleIds, Comments!VisibleIds,
     Store!CommentIds, Comments!CommentIds

LEMMA SameStep ==
  ASSUME NEW p
  PROVE  Store!RequestStep(p) <=> Comments!RequestStep(p)
<1> USE DEF Store!Goto, Comments!Goto, Store!Finish, Comments!Finish, Store!Refuse,
     Comments!Refuse, Store!ReleaseLocks, Comments!ReleaseLocks, Store!Apply,
     Comments!Apply, Store!Asks, Comments!Asks, Store!NullTx, Comments!NullTx,
     Store!Connected, Comments!Connected, Store!Orphaned, Comments!Orphaned,
     Store!Moderations, Comments!Moderations, Store!CommentIds, Comments!CommentIds,
     Store!Desired, Comments!Desired, Store!Published, Comments!Published,
     Store!CommentsEnabled, Comments!CommentsEnabled, Store!CanShareRow,
     Comments!CanShareRow, Store!ShareRow, Comments!ShareRow, Store!registryVars,
     Comments!registryVars, Store!boardVars, Comments!boardVars, Store!requestVars,
     Comments!requestVars
<1>1. ASSUME NEW s
      PROVE  Store!Create(p, s) <=> Comments!Create(p, s)
  BY DEF Store!Create, Comments!Create
<1>2. ASSUME NEW op, NEW i
      PROVE  Store!Moderate(p, op, i) <=> Comments!Moderate(p, op, i)
  BY SameCardinality DEF Store!Moderate, Comments!Moderate
<1>3. /\ Store!Check(p) <=> Comments!Check(p)
      /\ Store!Begin(p) <=> Comments!Begin(p)
  BY SamePool DEF Store!Check, Comments!Check, Store!Begin, Comments!Begin
<1>4. /\ Store!Find(p) <=> Comments!Find(p)
      /\ Store!Lock(p) <=> Comments!Lock(p)
      /\ Store!Policy(p) <=> Comments!Policy(p)
  BY DEF Store!Find, Comments!Find, Store!Lock, Comments!Lock, Store!Policy, Comments!Policy
<1>5. /\ Store!Count(p) <=> Comments!Count(p)
      /\ Store!Insert(p) <=> Comments!Insert(p)
  BY SameCount DEF Store!Count, Comments!Count, Store!Insert, Comments!Insert
<1>6. /\ Store!Reread(p) <=> Comments!Reread(p)
      /\ Store!Update(p) <=> Comments!Update(p)
      /\ Store!Audit(p) <=> Comments!Audit(p)
  BY DEF Store!Reread, Comments!Reread, Store!Update, Comments!Update, Store!Audit,
     Comments!Audit
<1>7. /\ Store!Commit(p) <=> Comments!Commit(p)
      /\ Store!OrphanEnds(p) <=> Comments!OrphanEnds(p)
      /\ Store!Abandon(p) <=> Comments!Abandon(p)
  BY DEF Store!Commit, Comments!Commit, Store!OrphanEnds, Comments!OrphanEnds, Store!Abandon,
     Comments!Abandon
<1> QED
  BY <1>1, <1>2, <1>3, <1>4, <1>5, <1>6, <1>7
  DEF Store!RequestStep, Comments!RequestStep, Store!Serve, Comments!Serve

LEMMA SameStart == Store!Init <=> Comments!Init
BY DEF Store!Init, Comments!Init, Store!NullTx, Comments!NullTx, Store!Asks, Comments!Asks,
     Store!CommentIds, Comments!CommentIds, Store!Row, Comments!Row, Store!Statuses,
     Comments!Statuses

LEMMA SameNext == [Store!Next]_(Store!vars) <=> [Comments!Next]_(Comments!vars)
BY SameStep
  DEF Store!Next, Comments!Next, Store!RegistryStep, Comments!RegistryStep,
     Store!WriteRow, Comments!WriteRow, Store!ReleaseRows, Comments!ReleaseRows,
     Store!vars, Comments!vars, Store!registryVars, Comments!registryVars,
     Store!commentVars, Comments!commentVars, Store!boardVars, Comments!boardVars,
     Store!requestVars, Comments!requestVars

LEMMA SamePolicy == Store!PolicyAtCommit <=> Comments!PolicyAtCommit
<1> DEFINE Opened(ids, Enabled(_)) ==
      \A i \in ids : comments[i] = NoComment /\ comments'[i] # NoComment =>
                      Enabled(comments'[i].slug)
<1>1. [Opened(Store!CommentIds, Store!CommentsEnabled)]_(Store!vars)
        <=> [Opened(Comments!CommentIds, Comments!CommentsEnabled)]_(Comments!vars)
  BY DEF Store!CommentIds, Comments!CommentIds, Store!CommentsEnabled,
     Comments!CommentsEnabled, Store!Published, Comments!Published, Store!vars,
     Comments!vars, Store!registryVars, Comments!registryVars, Store!commentVars,
     Comments!commentVars, Store!boardVars, Comments!boardVars, Store!requestVars,
     Comments!requestVars
<1> QED
  BY <1>1, PTL DEF Store!PolicyAtCommit, Comments!PolicyAtCommit

LEMMA SameBoard == Store!ImplementsBoard <=> Comments!ImplementsBoard
<1>1. Store!Board!Init <=> Comments!Board!Init
  BY DEF Store!Board!Init, Comments!Board!Init, Store!Board!CommentIds,
     Comments!Board!CommentIds, Store!CommentsEnabled, Comments!CommentsEnabled,
     Store!Published, Comments!Published, Store!Orphaned, Comments!Orphaned
<1>2. [Store!Board!Next]_(Store!Board!boardVars)
        <=> [Comments!Board!Next]_(Comments!Board!boardVars)
  BY DEF Store!Board!Next, Comments!Board!Next, Store!Board!boardVars,
     Comments!Board!boardVars, Store!Board!CommentIds, Comments!Board!CommentIds,
     Store!Board!Requested, Comments!Board!Requested, Store!Board!Of, Comments!Board!Of,
     Store!Board!Room, Comments!Board!Room, Store!Board!Submit, Comments!Board!Submit,
     Store!Board!Settle, Comments!Board!Settle, Store!Board!Create, Comments!Board!Create,
     Store!Board!Moderate, Comments!Board!Moderate, Store!Board!Refuse,
     Comments!Board!Refuse, Store!Board!Abandon, Comments!Board!Abandon, Store!Board!Drop,
     Comments!Board!Drop, Store!Board!ChangePolicy, Comments!Board!ChangePolicy,
     Store!Board!Cardinality, Comments!Board!Cardinality,
     Store!CommentsEnabled, Comments!CommentsEnabled, Store!Published,
     Comments!Published, Store!Orphaned, Comments!Orphaned
<1> QED
  BY <1>1, <1>2, PTL DEF Store!ImplementsBoard, Comments!ImplementsBoard,
     Store!Board!Spec, Comments!Board!Spec

LEMMA RowAssumption == Row \subseteq Comments!Row
BY DEF Row, Statuses, Comments!Row, Comments!Statuses

(* Beside real sync-content jobs on one database, whatever requests create *)
(* and moderate side by side: a post never shows more comments than        *)
(* MAX_COMMENTS_PER_POST, the audit events of a comment explain its        *)
(* status, a comment appears only while its post accepts comments, and     *)
(* every request takes effect at one moment, at most once, and is answered *)
(* truly.                                                                  *)
THEOREM CommentsSafe ==
  SystemSpec => /\ []Store!VisibleCap
                /\ []Store!AuditExplainsStatus
                /\ Store!PolicyAtCommit
                /\ Store!ImplementsBoard
<1>1. SystemSpec => Comments!Spec
  BY StoreImplemented, SameStart, SameNext, PTL DEF ImplementsStore, Store!Spec, Comments!Spec
<1>2. Comments!Spec => []Comments!VisibleCap
  BY Comments!CapHolds, RowAssumption, StoreAssumption, NullAssumption
<1>3. Store!VisibleCap <=> Comments!VisibleCap
  BY SameCount DEF Store!VisibleCap, Comments!VisibleCap
<1>4. Comments!Spec => []Comments!AuditExplainsStatus
  BY Comments!AuditHolds, RowAssumption, StoreAssumption, NullAssumption
<1>5. Store!AuditExplainsStatus <=> Comments!AuditExplainsStatus
  BY DEF Store!AuditExplainsStatus, Comments!AuditExplainsStatus, Store!StatusAfter,
     Comments!StatusAfter, Store!CommentIds, Comments!CommentIds
<1>6. Comments!Spec => Comments!PolicyAtCommit
  BY Comments!PolicyHolds, RowAssumption, StoreAssumption, NullAssumption
<1>7. Comments!Spec => Comments!ImplementsBoard
  BY Comments!BoardImplemented, RowAssumption, StoreAssumption, NullAssumption
<1> QED
  BY <1>1, <1>2, <1>3, <1>4, <1>5, <1>6, <1>7, SamePolicy, SameBoard, PTL

(* Beside real comment transactions, which hold rows that the jobs want to *)
(* write: the rows of a source always say what its last committed manifest *)
(* says, and every change of the rows is one valid manifest applied whole. *)
THEOREM SyncsSafe == SystemSpec => []SnapshotInForce /\ ImplementsRegistry
BY SyncImplemented, SnapshotHolds, RegistryImplemented, PTL DEF ImplementsSync
=============================================================================
