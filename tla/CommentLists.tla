---------------------------- MODULE CommentLists ----------------------------
(***************************************************************************)
(* The comment lists: a reader follows next_before_id from page to page    *)
(* while comments are created, hidden and unhidden and sync jobs open and  *)
(* close posts.  A page is the set of its ids, which the query orders      *)
(* newest first.  There is one reader and one walk: readers write nothing  *)
(* and do not meet, and a walk takes nothing from the one before it.  The  *)
(* board beside it takes the atomic steps that CommentBoard promises and   *)
(* CommentStore implements.                                                *)
(***************************************************************************)
EXTENDS Naturals, FiniteSets, Sequences

CONSTANTS
  Slugs,
  NoComment,
  MaxComments,      \* bound: the ids there are
  DefaultPageSize,
  MaximumPageSize,
  Limits            \* limit parameters of requests, 0 for none

ASSUME BoundsAssumption == MaxComments \in Nat /\ Limits \subseteq Nat
ASSUME PageSizesAssumption ==
  DefaultPageSize \in Nat \ {0} /\ MaximumPageSize \in Nat /\ DefaultPageSize <= MaximumPageSize
ASSUME NoCommentAssumption == NoComment \notin [slug : Slugs, status : {"visible", "hidden"}]

VARIABLES
  open,       \* posts that are published and accept comments
  comments,   \* id -> committed comment
  pc,         \* the request on its way: none, sent, past the checks; or how it ended
  query,      \* the list it walks: [audience, slug, status, limit]
  cursor,     \* before_id, 0 for none
  pages,      \* the pages it has got
  steady,     \* history: what has been in the list ever since it began
  known,      \* history: the comments of the post when the first page was made
  barred      \* history: the post has been closed since the request was sent

boardVars == <<open, comments>>
walkVars == <<pc, query, cursor, pages>>
historyVars == <<steady, known, barred>>
vars == <<boardVars, walkVars, historyVars>>

CommentIds == 1..MaxComments
Ended == {"done", "refused", "failed"}
Walking == pc \in {"sent", "checked"}

PublicQueries ==
  [audience : {"public"}, slug : Slugs, status : {"visible"}, limit : Limits]
ModerationQueries ==
  [audience : {"moderators"}, slug : {"any"}, status : {"any", "visible", "hidden", "invalid"},
   limit : Limits]
Queries == PublicQueries \cup ModerationQueries

TypeOK ==
  /\ open \subseteq Slugs
  /\ comments \in [CommentIds -> {NoComment} \cup [slug : Slugs, status : {"visible", "hidden"}]]
  /\ pc \in {"idle", "sent", "checked"} \cup Ended
  /\ query \in Queries
  /\ cursor \in 0..MaxComments
  /\ pages \in Seq(SUBSET CommentIds)
  /\ steady \subseteq CommentIds
  /\ known \subseteq CommentIds
  /\ barred \in BOOLEAN

Listed == UNION {pages[n] : n \in 1..Len(pages)}
Of(s) == {i \in CommentIds : comments[i] # NoComment /\ comments[i].slug = s}

(* The WHERE clauses of ListVisible and ListForModeration. *)
Matches(q, comment) ==
  /\ comment # NoComment
  /\ q.audience = "public" => comment.slug = q.slug
  /\ q.status # "any" => comment.status = q.status

Existing(q) == {i \in CommentIds : comments[i] # NoComment
                                /\ (q.audience = "public" => comments[i].slug = q.slug)}
Matching(q) == {i \in CommentIds : Matches(q, comments[i])}

(* Mutant: the comparison includes the cursor. *)
UpTo(ids, before) == {i \in ids : before = 0 \/ i <= before}
Below(ids, before) == {i \in ids : before = 0 \/ i < before}

(* ORDER BY id DESC LIMIT size. *)
IsPage(page, ids, size) ==
  /\ page \subseteq ids
  /\ Cardinality(page) <= size
  /\ page = ids \/ Cardinality(page) = size
  /\ \A i \in page, k \in ids \ page : k < i

PageSize(limit) == IF limit = 0 THEN DefaultPageSize ELSE limit

Init ==
  /\ open \in SUBSET Slugs
  /\ comments = [i \in CommentIds |-> NoComment]
  /\ pc = "idle"
  /\ query \in Queries
  /\ cursor = 0
  /\ pages = <<>>
  /\ steady = {}
  /\ known = {}
  /\ barred = FALSE
-----------------------------------------------------------------------------
(* The board.  Mutant: the id is drawn before the lock of the post. *)
PostAnyId(s) ==
  /\ s \in open
  /\ \E i \in CommentIds :
       /\ comments[i] = NoComment
       /\ comments' = [comments EXCEPT ![i] = [slug |-> s, status |-> "visible"]]
  /\ UNCHANGED open

(* A comment commits: the newest of its post, ids of other posts may be    *)
(* newer.                                                                  *)
Post(s) ==
  /\ s \in open
  /\ \E i \in CommentIds :
       /\ comments[i] = NoComment
       /\ \A k \in Of(s) : k < i
       /\ comments' = [comments EXCEPT ![i] = [slug |-> s, status |-> "visible"]]
  /\ UNCHANGED open

SetVisibility(i, status) ==
  /\ comments[i] # NoComment
  /\ comments' = [comments EXCEPT ![i].status = status]
  /\ UNCHANGED open

(* A sync job commits: it may open and close any of its posts. *)
SetPolicy ==
  /\ open' \in SUBSET Slugs
  /\ UNCHANGED comments

BoardStep ==
  \/ \E s \in Slugs : Post(s)
  \/ SetPolicy
  \/ \E i \in CommentIds, status \in {"visible", "hidden"} : SetVisibility(i, status)

(* What the histories remember of it. *)
Board ==
  /\ BoardStep
  /\ steady' = {i \in steady : Matches(query, comments'[i])}
  /\ barred' = (barred /\ query.slug \notin open')
  /\ UNCHANGED <<walkVars, known>>
-----------------------------------------------------------------------------
Closed(q) == q.audience = "public" /\ q.slug \notin open

(* The first request of a walk, from the top or from a cursor kept from an *)
(* earlier one.                                                            *)
Begin(from) ==
  /\ pc = "idle"
  /\ pc' = "sent"
  /\ cursor' = from
  /\ steady' = Below(Matching(query), from)
  /\ barred' = Closed(query)
  /\ UNCHANGED <<boardVars, query, pages, known>>

BadRequest == query.limit > MaximumPageSize \/ query.status = "invalid"

(* Mutant: later pages skip the policy. *)
CheckFirstPage ==
  /\ pc = "sent"
  /\ ~BadRequest
  /\ cursor = 0 => ~Closed(query)
  /\ pc' = "checked"
  /\ UNCHANGED <<boardVars, query, cursor, pages, historyVars>>

(* The services check the parameters, the public one the policy. *)
Check ==
  /\ pc = "sent"
  /\ ~BadRequest
  /\ ~Closed(query)
  /\ pc' = "checked"
  /\ UNCHANGED <<boardVars, query, cursor, pages, historyVars>>

(* Mutant: a withdrawn post is not answered. *)
RefuseBadRequest ==
  /\ pc = "sent"
  /\ BadRequest
  /\ pc' = "refused"
  /\ UNCHANGED <<boardVars, query, cursor, pages, historyVars>>

Refuse ==
  /\ pc = "sent"
  /\ BadRequest \/ Closed(query)
  /\ pc' = "refused"
  /\ UNCHANGED <<boardVars, query, cursor, pages, historyVars>>

(* Mutant: only a request with a limit has a next page. *)
NextCursorOfLimited(page) ==
  IF page # {} /\ Cardinality(page) = query.limit
  THEN CHOOSE i \in page : \A k \in page : i <= k ELSE 0

(* next_before_id, 0 for null: the last id of a page that may not be the   *)
(* last one.                                                               *)
NextCursor(page) ==
  IF page # {} /\ (query.limit = 0 \/ Cardinality(page) = query.limit)
  THEN CHOOSE i \in page : \A k \in page : i <= k ELSE 0

(* The query, in one snapshot, and the reader's next request. *)
Answer ==
  /\ pc = "checked"
  /\ \E page \in SUBSET CommentIds :
       /\ IsPage(page, Below(Matching(query), cursor), PageSize(query.limit))
       /\ pages' = Append(pages, page)
       /\ LET following == NextCursor(page) IN
            /\ cursor' = IF following = 0 THEN cursor ELSE following
            /\ pc' = IF following = 0 THEN "done" ELSE "sent"
  /\ known' = IF pages = <<>> THEN Existing(query) ELSE known
  /\ barred' = Closed(query)
  /\ UNCHANGED <<boardVars, query, steady>>

(* A failed statement, a timeout, or a reader that has seen enough. *)
GiveUp ==
  /\ Walking
  /\ pc' = "failed"
  /\ UNCHANGED <<boardVars, query, cursor, pages, historyVars>>

Walk == Check \/ Refuse \/ Answer

Next ==
  \/ Board
  \/ \E from \in 0..MaxComments : Begin(from)
  \/ Walk
  \/ GiveUp

Spec == Init /\ [][Next]_vars

(* The server answers and the reader goes on. *)
FairSpec == Spec /\ WF_vars(Walk)
-----------------------------------------------------------------------------
(* "Newest-first, cursor-paginated" (README.md): each page is older than   *)
(* the one before it, so that no comment is listed twice, whatever is      *)
(* created, hidden or unhidden between the pages.                          *)
PagesDescend ==
  \A n \in 1..Len(pages) : \A m \in 1..(n - 1) : \A i \in pages[m], k \in pages[n] : k < i

(* A reader that has come to the end has seen every comment that was in    *)
(* the list all the time, on the first pages or the last.                  *)
NoneMissed == pc = "done" => steady \subseteq Listed

(* The public list is that of the moment of its first page, less what has  *)
(* been hidden: a comment written since never turns up on a later page,    *)
(* since the ids of a post commit in their order.                          *)
NothingNewer == query.audience = "public" => Listed \subseteq known

(* No page is on its way for a request that was sent after commenting was  *)
(* switched off or the post withdrawn, and while it stayed so.             *)
PagesNeedPolicy == pc = "checked" => ~barred

(* A walk that is not given up comes to an end, however fast comments are  *)
(* written above it or unhidden below.                                     *)
WalkEnds == Walking ~> pc \in Ended
=============================================================================
