---------------------------- MODULE MCContentSync ----------------------------
(* Three jobs at a time, of one source or of two that both claim slug b:   *)
(* manifests of site that overlap in part, one of docs, and files that     *)
(* have to be refused: an empty and a contradictory one, one that does not *)
(* decode and one that does not say whether posts accept comments.         *)
EXTENDS ContentSync

CONSTANTS a, b, c, site, docs, post

Comments(s, status, enabled) ==
  [slug |-> s, kind |-> post, status |-> status, commentsEnabled |-> enabled]
Entry(s, status) == Comments(s, status, TRUE)
File(source, items) == [sound |-> TRUE, source |-> source, items |-> items]
Older == File(site, <<Entry(a, "published")>>)
Newer == File(site, <<Entry(b, "published"), Entry(a, "draft")>>)
Latest == File(site, <<Entry(c, "published")>>)
Docs == File(docs, <<Entry(b, "published")>>)
Empty == File(site, <<>>)
Twice == File(site, <<Entry(a, "published"), Entry(a, "draft")>>)
Silent == File(site, <<Comments(a, "published", Omitted)>>)
Broken == [Older EXCEPT !.sound = FALSE]
Files == {Older, Newer, Latest, Docs, Empty, Twice, Silent, Broken}
Seeds == {[managedBy |-> site, kind |-> post, status |-> "published", commentsEnabled |-> TRUE]}
=============================================================================
