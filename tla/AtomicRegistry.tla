--------------------------- MODULE AtomicRegistry ---------------------------
(***************************************************************************)
(* What sync-content promises: a manifest is applied as a whole or not at  *)
(* all, touches only what its source manages, archives what it omits and   *)
(* deletes nothing.  ContentSync implements this specification.            *)
(***************************************************************************)
EXTENDS Naturals, Sequences

CONSTANTS Slugs, Sources, Snapshots, SeedRows, NoRow, NoSnapshot

VARIABLES
  content,   \* slug -> row
  applied    \* source -> the last snapshot that took effect

registryVars == <<content, applied>>

Items(snap) == {snap.items[n] : n \in 1..Len(snap.items)}
ItemFor(snap, s) == CHOOSE item \in Items(snap) : item.slug = s
Lists(snap, s) == \E item \in Items(snap) : item.slug = s
Managed(source, s) == content[s] # NoRow /\ content[s].managedBy = source

(* An empty manifest is taken for build damage. *)
Valid(snap) ==
  /\ Len(snap.items) > 0
  /\ \A m, n \in 1..Len(snap.items) : snap.items[m].slug = snap.items[n].slug => m = n

RowFrom(snap, item) ==
  [managedBy |-> snap.source, kind |-> item.kind, status |-> item.status,
   commentsEnabled |-> item.commentsEnabled]

Init ==
  /\ content \in [Slugs -> SeedRows \cup {NoRow}]
  /\ applied = [source \in Sources |-> NoSnapshot]

Apply(snap) ==
  /\ Valid(snap)
  /\ \A s \in Slugs : Lists(snap, s) => content[s] = NoRow \/ Managed(snap.source, s)
  /\ content' = [s \in Slugs |->
       IF Lists(snap, s) THEN RowFrom(snap, ItemFor(snap, s))
       ELSE IF Managed(snap.source, s) THEN [content[s] EXCEPT !.status = "archived"]
       ELSE content[s]]
  /\ applied' = [applied EXCEPT ![snap.source] = snap]

Next == \E snap \in Snapshots : Apply(snap)

Spec == Init /\ [][Next]_registryVars

(* The rows of a source are what its last manifest says: the listed ones   *)
(* as listed, the others archived.                                         *)
SnapshotInForce ==
  \A source \in Sources : applied[source] # NoSnapshot =>
    \A s \in Slugs :
      /\ Lists(applied[source], s) =>
           content[s] = RowFrom(applied[source], ItemFor(applied[source], s))
      /\ Managed(source, s) /\ ~Lists(applied[source], s) => content[s].status = "archived"
=============================================================================
