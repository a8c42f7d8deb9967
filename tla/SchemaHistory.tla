---------------------------- MODULE SchemaHistory ----------------------------
(***************************************************************************)
(* What the migration runner promises: the schema is always the whole of   *)
(* one release, and only a release that continues it replaces it.          *)
(* Migrations implements this specification.                               *)
(***************************************************************************)
EXTENDS Naturals, Sequences

CONSTANT Releases   \* sequences of migrations
VARIABLE schema     \* the migrations the database has run, oldest first

Continues(release) ==
  /\ Len(schema) <= Len(release)
  /\ \A n \in 1..Len(schema) : schema[n] = release[n]

Init == schema = <<>>

Migrate(release) == Continues(release) /\ schema' = release

Next == \E release \in Releases : Migrate(release)

Spec == Init /\ [][Next]_schema
=============================================================================
