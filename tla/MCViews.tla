------------------------------- MODULE MCViews -------------------------------
(* Views of one post, which comes and goes, by two visitors. *)
EXTENDS Views

CONSTANTS site, post, a, v, w, p1, p2

Open == [managedBy |-> site, kind |-> post, status |-> "published", commentsEnabled |-> FALSE]
OpenOrArchived == {Open, [Open EXCEPT !.status = "archived"]}
=============================================================================
