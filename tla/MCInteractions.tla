--------------------------- MODULE MCInteractions ---------------------------
(* Two requests on one connection, and a job that applies a manifest that  *)
(* opens one post and closes the other, again and again.                   *)
EXTENDS Interactions

CONSTANTS a, b, site, post

KeyOf == [s \in Slugs |-> IF s = a THEN 0 ELSE 1]
Entry(s, enabled) ==
  [slug |-> s, kind |-> post, status |-> "published", commentsEnabled |-> enabled]
Closes ==
  [sound |-> TRUE, source |-> site, items |-> <<Entry(b, TRUE), Entry(a, FALSE)>>]
Files == {Closes}
Seeds == {[managedBy |-> site, kind |-> post, status |-> "published", commentsEnabled |-> TRUE]}
=============================================================================
