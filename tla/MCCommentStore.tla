--------------------------- MODULE MCCommentStore ---------------------------
(* Two requests at a time on two posts, one of which may be closed or      *)
(* reopened under them; the two slugs share one advisory lock key, as      *)
(* slugs with the same hashtext do.                                        *)
EXTENDS CommentStore, TLC

CONSTANTS a, b, p1, p2, site, post

OneKey == [s \in Slugs |-> 0]
Open == [managedBy |-> site, kind |-> post, status |-> "published", commentsEnabled |-> TRUE]
Closed == [Open EXCEPT !.commentsEnabled = FALSE]
OpenOrClosed == {Open, Closed}
Symmetry == Permutations(Requests) \cup Permutations(Slugs)
=============================================================================
