------------------------------- MODULE MCLikes -------------------------------
(* Three requests of one visitor, for a post that is not there at first. *)
EXTENDS Likes

CONSTANTS site, post, a, v, p1, p2, p3

Open == [managedBy |-> site, kind |-> post, status |-> "published", commentsEnabled |-> FALSE]
OpenRow == {Open}
=============================================================================
