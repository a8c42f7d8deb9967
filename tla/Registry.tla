------------------------------ MODULE Registry ------------------------------
(***************************************************************************)
(* The content_items table of PostgreSQL and the locks its rows carry.     *)
(* Every dynamic feature of the API asks it whether a slug is published    *)
(* and accepts comments; sync-content jobs, which are processes of their   *)
(* own with pools of their own, are its only writers.  The modules that    *)
(* model the two sides extend this one.                                    *)
(***************************************************************************)
CONSTANTS
  Slugs,      \* content identities
  Sources,    \* frontend repositories, the values of managed_by
  Kinds,      \* descriptive metadata of a row
  Requests,   \* requests the API process serves at a time
  Jobs,       \* sync-content processes
  NoRow,      \* the slug has no row
  NoJob       \* the row has no uncommitted version

VARIABLES
  content,    \* the committed rows
  sharers,    \* the transactions holding each row FOR SHARE
  writer      \* the job holding each row for update, its version uncommitted

registryVars == <<content, sharers, writer>>

Statuses == {"draft", "published", "archived"}

Row == [managedBy : Sources, kind : Kinds, status : Statuses,
        commentsEnabled : BOOLEAN]

RegistryTypeOK ==
  /\ content \in [Slugs -> Row \cup {NoRow}]
  /\ sharers \in [Slugs -> SUBSET Requests]
  /\ writer \in [Slugs -> Jobs \cup {NoJob}]

(* ContentState of a slug: a missing row reads as unpublished. *)
Published(s) == content[s] # NoRow /\ content[s].status = "published"
CommentsEnabled(s) == Published(s) /\ content[s].commentsEnabled

(* SELECT ... FOR SHARE.  It sees committed rows only, so a row that is    *)
(* being inserted is no row; an existing row makes it wait for its writer. *)
CanShareRow(s) == content[s] = NoRow \/ writer[s] = NoJob

ShareRow(p, s) ==
  /\ CanShareRow(s)
  /\ sharers' = IF content[s] = NoRow THEN sharers
                ELSE [sharers EXCEPT ![s] = @ \cup {p}]

(* An UPDATE or upsert of one row waits for its readers and its writer. *)
WriteRow(j, s) ==
  /\ sharers[s] = {}
  /\ writer[s] \in {NoJob, j}
  /\ writer' = [writer EXCEPT ![s] = j]

(* The end of a job's transaction gives up the rows it wrote. *)
ReleaseRows(j) == writer' = [s \in Slugs |-> IF writer[s] = j THEN NoJob ELSE writer[s]]

(* All that the API process relies on about the jobs: a committed row      *)
(* changes only by a transaction that holds it for update.                 *)
RegistryStep(rows) ==
  \E j \in Jobs :
    \/ /\ \E s \in Slugs : WriteRow(j, s)
       /\ UNCHANGED <<content, sharers>>
    \/ /\ ReleaseRows(j)
       /\ content' \in [Slugs -> rows \cup {content[s] : s \in Slugs}]
       /\ \A s \in Slugs : \/ content'[s] = content[s]
                           \/ writer[s] = j /\ content'[s] \in rows
       /\ UNCHANGED sharers
=============================================================================
