--------------------------- MODULE MCCommentLists ---------------------------
(* Three ids for two posts, pages of one or two, and requests with a limit *)
(* above the maximum.                                                      *)
EXTENDS CommentLists

CONSTANTS a, b
=============================================================================
