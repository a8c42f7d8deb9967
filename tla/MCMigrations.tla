---------------------------- MODULE MCMigrations ----------------------------
(* Three runners at a time of an older release, the next one, one that has   *)
(* rewritten history, and one with a gap, which does not load.             *)
EXTENDS Migrations

CONSTANTS alter, create, rewritten, index, r1, r2, r3

F(v, name, sql) == [version |-> v, name |-> name, sql |-> sql]
First == F(1, "first", create)
Second == F(2, "second", alter)
Third == F(3, "third", index)
Older == {First, Second}
Newer == {First, Second, Third}
Altered == {F(1, "first", rewritten), Second, F(3, "third", rewritten)}
Gap == {First, Third}
Images == {Older, Newer, Altered, Gap}
=============================================================================
