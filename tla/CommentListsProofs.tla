------------------------- MODULE CommentListsProofs -------------------------
(***************************************************************************)
(* The comment lists for every number of posts and comments, every page    *)
(* size and every limit.                                                   *)
(***************************************************************************)
EXTENDS CommentLists, WellFoundedInduction, FiniteSetTheorems, SequenceTheorems, TLAPS

(* CommentBoard on the posts and comments of the lists. *)
CONSTANTS MaxVisible, Requests
VARIABLES audit, phase, request, outcome
Atomic == INSTANCE CommentBoard

Comment == [slug : Slugs, status : {"visible", "hidden"}]

(* A request to go on starts where the last page ended. *)
CursorInv == Walking /\ pages # <<>> => cursor # 0 /\ \A i \in Listed : cursor <= i

(* What has been in the list all the time is listed, or still ahead. *)
SteadyInv ==
  /\ steady \subseteq Matching(query)
  /\ pc \in {"sent", "checked", "done"} =>
       \A i \in steady : i \in Listed \/ (Walking /\ (cursor = 0 \/ i < cursor))

(* Below the cursor of a public list nothing is new. *)
KnownInv ==
  query.audience = "public" =>
    /\ Listed \subseteq known
    /\ Walking /\ pages # <<>> =>
         /\ cursor \in Existing(query)
         /\ \A i \in Existing(query) : i < cursor => i \in known

BarredInv == (barred => Closed(query)) /\ PagesNeedPolicy

ListsInv ==
  /\ TypeOK
  /\ pc = "idle" => pages = <<>> /\ steady = {}
  /\ PagesDescend /\ CursorInv /\ SteadyInv /\ KnownInv /\ BarredInv

(* A set of comments that is not empty has an oldest one. *)
LEMMA Oldest ==
  ASSUME NEW page \in SUBSET CommentIds, page # {}
  PROVE  \E i \in page : \A k \in page : i <= k
<1> DEFINE Less == OpToRel(<, Nat)
<1>1. \E i \in page : \A k \in page : <<k, i>> \notin Less
  <2>1. page \subseteq Nat
    BY BoundsAssumption DEF CommentIds
  <2> QED BY <2>1, NatLessThanWellFounded, WFMin
<1>2. \A i, k \in Nat : k < i => <<k, i>> \in Less
  BY DEF OpToRel
<1> HIDE DEF Less
<1>3. PICK i \in page : \A k \in page : <<k, i>> \notin Less
  BY <1>1
<1>4. page \subseteq Nat
  BY BoundsAssumption DEF CommentIds
<1>5. \A k \in page : ~(k < i)
  BY <1>2, <1>3, <1>4
<1> QED BY <1>4, <1>5

(* One more page. *)
LEMMA ListedMore ==
  ASSUME TypeOK, NEW page \in SUBSET CommentIds, pages' = Append(pages, page)
  PROVE  /\ Listed' = Listed \cup page
         /\ pages' \in Seq(SUBSET CommentIds) /\ pages' # <<>>
         /\ Len(pages') = Len(pages) + 1
         /\ \A n \in 1..Len(pages) : pages'[n] = pages[n]
         /\ pages'[Len(pages) + 1] = page
<1>1. /\ pages' \in Seq(SUBSET CommentIds) /\ Len(pages') = Len(pages) + 1
      /\ \A n \in 1..Len(pages) : pages'[n] = pages[n]
      /\ pages'[Len(pages) + 1] = page
      /\ Len(pages) \in Nat
  BY AppendProperties, LenProperties DEF TypeOK
<1>2. Listed' = Listed \cup page
  BY <1>1 DEF Listed
<1>3. pages' # <<>>
  BY <1>1
<1> QED BY <1>1, <1>2, <1>3

(* A page without a next one is all there is, another one ends where the   *)
(* rest begins.                                                            *)
LEMMA PageEnds ==
  ASSUME TypeOK, NEW ids \in SUBSET CommentIds, NEW page,
         IsPage(page, ids, PageSize(query.limit))
  PROVE  /\ NextCursor(page) = 0 => page = ids
         /\ NextCursor(page) # 0 =>
              /\ NextCursor(page) \in page
              /\ \A i \in page : NextCursor(page) <= i
              /\ \A i \in ids \ page : i < NextCursor(page)
<1>1. page \in SUBSET CommentIds /\ query.limit \in Nat
  BY BoundsAssumption DEF IsPage, TypeOK, Queries, PublicQueries, ModerationQueries
<1>2. CASE page = {}
  <2>1. Cardinality(page) = 0 /\ PageSize(query.limit) # 0
    BY <1>1, <1>2, FS_EmptySet, PageSizesAssumption DEF PageSize
  <2> QED BY <1>2, <2>1 DEF NextCursor, IsPage
<1>3. CASE page # {} /\ (query.limit = 0 \/ Cardinality(page) = query.limit)
  <2>1. \E i \in page : \A k \in page : i <= k
    BY <1>1, <1>3, Oldest
  <2>2. NextCursor(page) \in page /\ \A i \in page : NextCursor(page) <= i
    BY <1>3, <2>1 DEF NextCursor
  <2>3. NextCursor(page) # 0
    BY <1>1, <2>2, BoundsAssumption DEF CommentIds
  <2> QED BY <2>2, <2>3 DEF IsPage
<1>4. CASE page # {} /\ query.limit # 0 /\ Cardinality(page) # query.limit
  BY <1>4 DEF NextCursor, IsPage, PageSize
<1> QED BY <1>2, <1>3, <1>4

(* Comments stay, and a new one is the newest of its post. *)
LEMMA BoardKeeps ==
  ASSUME TypeOK, BoardStep
  PROVE  /\ open' \subseteq Slugs /\ comments' \in [CommentIds -> {NoComment} \cup Comment]
         /\ \A i \in CommentIds : comments[i] # NoComment =>
              comments'[i] # NoComment /\ comments'[i].slug = comments[i].slug
         /\ \A i \in CommentIds : comments[i] = NoComment /\ comments'[i] # NoComment =>
              \A k \in Of(comments'[i].slug) : k < i
<1>1. CASE \E s \in Slugs : Post(s)
  BY <1>1, NoCommentAssumption DEF Post, TypeOK, Comment, Of
<1>2. CASE SetPolicy
  BY <1>2 DEF SetPolicy, TypeOK, Comment
<1>3. CASE \E i \in CommentIds, status \in {"visible", "hidden"} : SetVisibility(i, status)
  <2>1. PICK i \in CommentIds, status \in {"visible", "hidden"} : SetVisibility(i, status)
    BY <1>3
  <2>2. comments[i] \in Comment /\ [comments[i] EXCEPT !.status = status] \in Comment
    BY <2>1 DEF SetVisibility, TypeOK, Comment
  <2> QED BY <2>1, <2>2, NoCommentAssumption DEF SetVisibility, TypeOK, Comment
<1> QED BY <1>1, <1>2, <1>3 DEF BoardStep

LEMMA BoardPreserves ==
  ASSUME ListsInv, Board
  PROVE  ListsInv'
<1>1. /\ open' \subseteq Slugs /\ comments' \in [CommentIds -> {NoComment} \cup Comment]
      /\ \A i \in CommentIds : comments[i] # NoComment =>
           comments'[i] # NoComment /\ comments'[i].slug = comments[i].slug
      /\ \A i \in CommentIds : comments[i] = NoComment /\ comments'[i] # NoComment =>
           \A k \in Of(comments'[i].slug) : k < i
  BY BoardKeeps DEF ListsInv, Board
<1>2. /\ UNCHANGED <<pc, query, cursor, pages, known>>
      /\ steady' = {i \in steady : Matches(query, comments'[i])}
      /\ barred' = (barred /\ query.slug \notin open')
  BY DEF Board, walkVars
<1>3. TypeOK'
  BY <1>1, <1>2 DEF ListsInv, TypeOK, Comment
<1>4. Listed' = Listed /\ (PagesDescend /\ CursorInv)' /\ (Walking <=> Walking')
  BY <1>2 DEF ListsInv, Listed, PagesDescend, CursorInv, Walking
<1>5. SteadyInv'
  BY <1>2, <1>4 DEF ListsInv, TypeOK, SteadyInv, Matching, Matches
<1>6. KnownInv'
  <2>1. SUFFICES ASSUME query.audience = "public", Walking, pages # <<>>
                 PROVE  /\ cursor \in Existing(query)'
                        /\ \A i \in Existing(query)' : i < cursor => i \in known
    BY <1>2, <1>4 DEF ListsInv, KnownInv
  <2>2. cursor \in Existing(query) /\ \A i \in Existing(query) : i < cursor => i \in known
    BY <2>1 DEF ListsInv, KnownInv
  <2>3. cursor \in CommentIds /\ comments[cursor] # NoComment /\ comments[cursor].slug = query.slug
    BY <2>1, <2>2 DEF Existing
  <2>4. cursor \in Existing(query)'
    BY <1>1, <1>2, <2>1, <2>3 DEF Existing
  <2>5. ASSUME NEW i \in CommentIds, comments'[i] # NoComment, comments'[i].slug = query.slug,
               comments[i] = NoComment
        PROVE  ~(i < cursor)
    <3>1. cursor \in Of(comments'[i].slug)
      BY <2>3, <2>5 DEF Of
    <3>2. cursor < i
      BY <1>1, <2>5, <3>1
    <3> QED BY <2>3, <3>2, BoundsAssumption DEF CommentIds
  <2>6. ASSUME NEW i \in Existing(query)', i < cursor
        PROVE  i \in known
    <3>1. i \in CommentIds /\ comments'[i] # NoComment /\ comments'[i].slug = query.slug
      BY <1>2, <2>1 DEF Existing
    <3>2. comments[i] # NoComment
      BY <2>5, <2>6, <3>1
    <3>3. i \in Existing(query)
      BY <1>1, <2>1, <3>1, <3>2 DEF Existing
    <3> QED BY <2>2, <2>6, <3>3
  <2> QED BY <2>4, <2>6
<1>7. BarredInv'
  BY <1>2 DEF ListsInv, BarredInv, Closed, PagesNeedPolicy
<1> QED BY <1>2, <1>3, <1>4, <1>5, <1>6, <1>7 DEF ListsInv

LEMMA BeginPreserves ==
  ASSUME ListsInv, NEW from \in 0..MaxComments, Begin(from)
  PROVE  ListsInv'
<1>1. /\ pages = <<>> /\ pc' = "sent" /\ cursor' = from /\ barred' = Closed(query)
      /\ steady' = Below(Matching(query), from)
      /\ UNCHANGED <<open, comments, query, pages, known>>
  BY DEF ListsInv, Begin, boardVars
<1>2. Listed = {} /\ Listed' = {}
  BY <1>1 DEF Listed
<1>3. TypeOK' /\ PagesDescend' /\ CursorInv'
  BY <1>1 DEF ListsInv, TypeOK, Below, Matching, Closed, PagesDescend, CursorInv
<1>4. SteadyInv'
  BY <1>1 DEF SteadyInv, Below, Matching, Walking
<1>5. KnownInv' /\ BarredInv'
  BY <1>1, <1>2 DEF KnownInv, BarredInv, PagesNeedPolicy, Closed
<1> QED BY <1>1, <1>3, <1>4, <1>5 DEF ListsInv

(* The end of a page, from which nothing changes but the request. *)
LEMMA RequestPreserves ==
  ASSUME ListsInv, Check \/ Refuse \/ GiveUp
  PROVE  ListsInv'
<1>1. /\ UNCHANGED <<open, comments, query, cursor, pages, steady, known, barred>>
      /\ Walking /\ pc' \in {"checked", "refused", "failed"}
      /\ pc' = "checked" => ~Closed(query)
  BY DEF Check, Refuse, GiveUp, boardVars, historyVars, Walking
<1>2. TypeOK' /\ PagesDescend'
  BY <1>1 DEF ListsInv, TypeOK, PagesDescend, Ended
<1>3. CursorInv' /\ SteadyInv'
  BY <1>1 DEF ListsInv, CursorInv, SteadyInv, Walking, Listed, Matching, Matches
<1>4. KnownInv' /\ BarredInv'
  BY <1>1 DEF ListsInv, KnownInv, BarredInv, PagesNeedPolicy, Closed, Walking, Listed, Existing
<1> QED BY <1>1, <1>2, <1>3, <1>4 DEF ListsInv

LEMMA AnswerPreserves ==
  ASSUME ListsInv, Answer
  PROVE  ListsInv'
<1> DEFINE ids == Below(Matching(query), cursor)
<1>1. PICK page \in SUBSET CommentIds :
        /\ IsPage(page, ids, PageSize(query.limit))
        /\ pages' = Append(pages, page)
        /\ cursor' = IF NextCursor(page) = 0 THEN cursor ELSE NextCursor(page)
        /\ pc' = IF NextCursor(page) = 0 THEN "done" ELSE "sent"
  BY DEF Answer
<1>2. /\ pc = "checked" /\ Walking
      /\ UNCHANGED <<open, comments, query, steady>>
      /\ known' = IF pages = <<>> THEN Existing(query) ELSE known
      /\ barred' = Closed(query)
  BY DEF Answer, boardVars, Walking
<1>3. /\ Listed' = Listed \cup page /\ pages' \in Seq(SUBSET CommentIds) /\ pages' # <<>>
      /\ Len(pages') = Len(pages) + 1 /\ \A n \in 1..Len(pages) : pages'[n] = pages[n]
      /\ pages'[Len(pages) + 1] = page
  BY <1>1, ListedMore DEF ListsInv
<1>4. ids \in SUBSET CommentIds /\ page \subseteq ids /\ Matching(query) \subseteq Existing(query)
  BY <1>1 DEF Below, Matching, IsPage, Existing, Matches
<1>5. /\ NextCursor(page) = 0 => page = ids
      /\ NextCursor(page) # 0 => /\ NextCursor(page) \in page
                                 /\ \A i \in page : NextCursor(page) <= i
                                 /\ \A i \in ids \ page : i < NextCursor(page)
  BY <1>1, <1>4, PageEnds DEF ListsInv
<1>6. cursor \in 0..MaxComments /\ MaxComments \in Nat /\ Len(pages) \in Nat
      /\ Listed \subseteq CommentIds /\ \A n \in 1..Len(pages) : pages[n] \subseteq CommentIds
  BY BoundsAssumption DEF ListsInv, TypeOK, Listed
<1> HIDE DEF ids
<1>7. TypeOK'
  <2>1. known' \subseteq CommentIds /\ barred' \in BOOLEAN
    BY <1>2 DEF ListsInv, TypeOK, Existing, Closed
  <2>2. cursor' \in 0..MaxComments /\ pc' \in {"sent", "done"}
    BY <1>1, <1>4, <1>5, <1>6 DEF CommentIds
  <2> QED BY <1>2, <1>3, <2>1, <2>2 DEF ListsInv, TypeOK, Ended
<1>8. ASSUME NEW i \in Listed, NEW k \in page
      PROVE  k < i
  <2>1. pages # <<>>
    BY <1>8 DEF Listed
  <2>2. cursor # 0 /\ cursor <= i
    BY <1>2, <1>8, <2>1 DEF ListsInv, CursorInv
  <2>3. k < cursor
    BY <1>4, <1>8, <2>2 DEF ids, Below
  <2> QED BY <1>4, <1>6, <1>8, <2>2, <2>3 DEF CommentIds
<1>9. PagesDescend'
  <2>1. SUFFICES ASSUME NEW n \in 1..Len(pages'), NEW m \in 1..(n - 1),
                        NEW i \in pages'[m], NEW k \in pages'[n]
                 PROVE  k < i
    BY DEF PagesDescend
  <2>2. m \in 1..Len(pages) /\ pages'[m] = pages[m]
    BY <1>3, <1>6, <2>1
  <2>3. CASE n \in 1..Len(pages)
    BY <1>3, <2>1, <2>2, <2>3 DEF ListsInv, PagesDescend
  <2>4. CASE n = Len(pages) + 1
    BY <1>3, <1>8, <2>1, <2>2, <2>4 DEF Listed
  <2> QED BY <1>3, <1>6, <2>1, <2>3, <2>4
<1>10. CursorInv'
  <2>1. SUFFICES ASSUME NextCursor(page) # 0
                 PROVE  cursor' # 0 /\ \A i \in Listed \cup page : cursor' <= i
    BY <1>1, <1>3 DEF CursorInv, Walking
  <2>2. cursor' = NextCursor(page) /\ cursor' \in page
    BY <1>1, <1>5, <2>1
  <2>3. \A i \in Listed : cursor' < i
    BY <1>8, <2>2
  <2> QED BY <1>4, <1>5, <1>6, <2>1, <2>2, <2>3 DEF CommentIds
<1>11. SteadyInv'
  <2>1. Matching(query)' = Matching(query) /\ steady' = steady
    BY <1>2 DEF Matching, Matches
  <2>2. SUFFICES ASSUME NEW i \in steady
                 PROVE  i \in Listed \cup page \/ (Walking' /\ i < cursor')
    BY <1>2, <1>3, <2>1 DEF ListsInv, SteadyInv
  <2>3. i \in Listed \/ i \in ids
    BY <1>2, <2>2 DEF ListsInv, SteadyInv, ids, Below
  <2> QED BY <1>1, <1>5, <2>3 DEF Walking
<1>12. KnownInv'
  <2>1. SUFFICES ASSUME query.audience = "public"
                 PROVE  /\ Listed \cup page \subseteq known'
                        /\ NextCursor(page) # 0 =>
                             /\ cursor' \in Existing(query)
                             /\ \A i \in Existing(query) : i < cursor' => i \in known'
    BY <1>1, <1>2, <1>3 DEF KnownInv, Existing, Walking
  <2>2. page \subseteq Existing(query) /\ \A k \in page : cursor = 0 \/ k < cursor
    BY <1>4 DEF ids, Below
  <2>3. NextCursor(page) # 0 => cursor' \in page /\ cursor' \in Existing(query)
    BY <1>1, <1>5, <2>2
  <2>4. CASE pages = <<>>
    <3>1. Listed = {}
      BY <2>4 DEF Listed
    <3> QED BY <1>2, <2>2, <2>3, <2>4, <3>1
  <2>5. CASE pages # <<>>
    <3>1. /\ known' = known /\ Listed \subseteq known /\ cursor # 0
          /\ \A i \in Existing(query) : i < cursor => i \in known
      BY <1>2, <2>1, <2>5 DEF ListsInv, KnownInv, CursorInv
    <3>2. NextCursor(page) # 0 => cursor' < cursor
      BY <2>2, <2>3, <3>1
    <3>3. Existing(query) \subseteq CommentIds
      BY DEF Existing
    <3>4. ASSUME NEW i \in Existing(query), NextCursor(page) # 0, i < cursor'
          PROVE  i < cursor
      BY <1>4, <1>6, <2>3, <3>2, <3>3, <3>4 DEF CommentIds
    <3> QED BY <2>2, <2>3, <3>1, <3>4
  <2> QED BY <2>4, <2>5
<1>13. BarredInv'
  BY <1>1, <1>2 DEF BarredInv, PagesNeedPolicy, Closed
<1>14. pc' # "idle"
  BY <1>1
<1> QED BY <1>7, <1>9, <1>10, <1>11, <1>12, <1>13, <1>14 DEF ListsInv

LEMMA ListsInductive == Spec => []ListsInv
<1>1. ASSUME Init
      PROVE  ListsInv
  <2>1. TypeOK
    <3>1. <<>> \in Seq(SUBSET CommentIds) /\ 0 \in 0..MaxComments
      BY BoundsAssumption
    <3> QED BY <1>1, <3>1 DEF Init, TypeOK
  <2>2. Listed = {}
    BY <1>1 DEF Init, Listed
  <2> QED BY <1>1, <2>1, <2>2 DEF Init, ListsInv, PagesDescend, CursorInv, SteadyInv, KnownInv,
             BarredInv, PagesNeedPolicy, Walking
<1>2. ASSUME ListsInv, [Next]_vars
      PROVE  ListsInv'
  <2>1. CASE Next
    BY <1>2, <2>1, BoardPreserves, BeginPreserves, RequestPreserves, AnswerPreserves DEF Next, Walk
  <2>2. CASE UNCHANGED vars
    BY <1>2, <2>2 DEF vars, boardVars, walkVars, historyVars, ListsInv, TypeOK, PagesDescend,
       CursorInv, SteadyInv, KnownInv, BarredInv, PagesNeedPolicy, Walking, Listed, Closed,
       Existing, Matching, Matches
  <2> QED BY <1>2, <2>1, <2>2
<1> QED BY <1>1, <1>2, PTL DEF Spec

(* Requests, pages and histories keep their types. *)
THEOREM ListsTypeCorrect == Spec => []TypeOK
<1>1. ListsInv => TypeOK
  BY DEF ListsInv
<1> QED BY <1>1, ListsInductive, PTL

(* No comment is listed twice, and every page is older than the last. *)
THEOREM PagesGoDown == Spec => []PagesDescend
<1>1. ListsInv => PagesDescend
  BY DEF ListsInv
<1> QED BY <1>1, ListsInductive, PTL

(* A reader at the end has seen all that was in the list all the time. *)
THEOREM ReaderMissesNone == Spec => []NoneMissed
<1>1. ListsInv => NoneMissed
  BY DEF ListsInv, SteadyInv, NoneMissed, Walking
<1> QED BY <1>1, ListsInductive, PTL

(* A comment written since the first page turns up on no later one. *)
THEOREM NothingNewListed == Spec => []NothingNewer
<1>1. ListsInv => NothingNewer
  BY DEF ListsInv, KnownInv, NothingNewer
<1> QED BY <1>1, ListsInductive, PTL

(* No page for a request sent after its post was closed. *)
THEOREM ClosedPostsListNothing == Spec => []PagesNeedPolicy
<1>1. ListsInv => PagesNeedPolicy
  BY DEF ListsInv, BarredInv
<1> QED BY <1>1, ListsInductive, PTL
-----------------------------------------------------------------------------
(* What is asked for is about posts and ids there are. *)
BoardInv ==
  /\ open \subseteq Slugs
  /\ request \in [Requests -> [op : {"none"}] \cup [op : {"create"}, slug : Slugs]
                                \cup [op : {"hide", "unhide"}, id : CommentIds]]

LEMMA BoardTyped ==
  ASSUME BoardInv, Atomic!Next
  PROVE  BoardInv'
<1> DEFINE R == [op : {"none"}] \cup [op : {"create"}, slug : Slugs]
                  \cup [op : {"hide", "unhide"}, id : CommentIds]
<1>1. CASE Atomic!ChangePolicy
  BY <1>1 DEF BoardInv, Atomic!ChangePolicy
<1>2. CASE \E p \in Requests, r \in R : Atomic!Submit(p, r)
  BY <1>2 DEF BoardInv, Atomic!Submit
<1>3. CASE \E p \in Requests : request' = [request EXCEPT ![p] = [op |-> "none"]] /\ open' = open
  <2>1. [op |-> "none"] \in R
    OBVIOUS
  <2> QED BY <1>3, <2>1 DEF BoardInv
<1>4. CASE UNCHANGED <<open, request>>
  BY <1>4 DEF BoardInv
<1>5. \/ Atomic!ChangePolicy
      \/ \E p \in Requests, r \in R : Atomic!Submit(p, r)
      \/ \E p \in Requests : request' = [request EXCEPT ![p] = [op |-> "none"]] /\ open' = open
      \/ UNCHANGED <<open, request>>
  <2>1. \A s \in Slugs : [op |-> "create", slug |-> s] \in R
    OBVIOUS
  <2>2. \A op \in {"hide", "unhide"}, i \in CommentIds : [op |-> op, id |-> i] \in R
    OBVIOUS
  <2>3. \A p, answers : Atomic!Settle(p, answers) =>
          request' = [request EXCEPT ![p] = [op |-> "none"]] /\ open' = open
    BY DEF Atomic!Settle
  <2>4. ASSUME NEW p \in Requests,
               \/ Atomic!Create(p) \/ Atomic!Moderate(p, "hide", "hidden")
               \/ Atomic!Moderate(p, "unhide", "visible") \/ Atomic!Refuse(p) \/ Atomic!Drop(p)
        PROVE  request' = [request EXCEPT ![p] = [op |-> "none"]] /\ open' = open
    BY <2>3, <2>4 DEF Atomic!Create, Atomic!Moderate, Atomic!Refuse, Atomic!Drop
  <2>5. ASSUME NEW p \in Requests, Atomic!Abandon(p)
        PROVE  UNCHANGED <<open, request>>
    BY <2>5 DEF Atomic!Abandon
  <2> HIDE DEF R
  <2> QED BY <2>1, <2>2, <2>4, <2>5 DEF Atomic!Next, CommentIds, Atomic!CommentIds
<1> QED BY <1>1, <1>2, <1>3, <1>4, <1>5

(* What CommentBoard does to posts and comments, the lists reckon with:    *)
(* the board beside the reader is no tamer than the one CommentStore       *)
(* implements.                                                             *)
THEOREM BoardIsBoard == Atomic!Spec => [][BoardStep]_boardVars
<1>1. Atomic!Init => BoardInv
  BY DEF Atomic!Init, BoardInv
<1>2. BoardInv /\ [Atomic!Next]_(Atomic!boardVars) => BoardInv'
  BY BoardTyped DEF Atomic!boardVars, BoardInv
<1>3. ASSUME BoardInv, Atomic!Next
      PROVE  BoardStep \/ UNCHANGED boardVars
  <2>1. CASE Atomic!ChangePolicy
    BY <1>3, <2>1 DEF Atomic!ChangePolicy, BoardStep, SetPolicy
  <2>2. ASSUME NEW p \in Requests, Atomic!Create(p)
        PROVE  BoardStep
    <3>1. request[p].slug \in Slugs /\ open' = open
      BY <1>3, <2>2 DEF BoardInv, Atomic!Create, Atomic!Settle
    <3> QED BY <2>2, <3>1 DEF Atomic!Create, BoardStep, Post, Of, CommentIds, Atomic!Of,
               Atomic!CommentIds
  <2>3. ASSUME NEW p \in Requests, NEW op \in {"hide", "unhide"},
               NEW status \in {"visible", "hidden"}, Atomic!Moderate(p, op, status)
        PROVE  BoardStep \/ UNCHANGED boardVars
    <3>1. request[p].id \in CommentIds /\ open' = open
      BY <1>3, <2>3 DEF BoardInv, Atomic!Moderate, Atomic!Settle, Atomic!Requested
    <3> QED BY <2>3, <3>1 DEF Atomic!Moderate, BoardStep, SetVisibility, boardVars
  <2>4. ASSUME NEW p \in Requests, Atomic!Refuse(p) \/ Atomic!Abandon(p) \/ Atomic!Drop(p)
        PROVE  UNCHANGED boardVars
    BY <2>4 DEF Atomic!Refuse, Atomic!Abandon, Atomic!Drop, Atomic!Settle, boardVars
  <2>5. ASSUME NEW p \in Requests, NEW r, Atomic!Submit(p, r)
        PROVE  UNCHANGED boardVars
    BY <2>5 DEF Atomic!Submit, boardVars
  <2> QED BY <1>3, <2>1, <2>2, <2>3, <2>4, <2>5 DEF Atomic!Next
<1>4. BoardInv /\ [Atomic!Next]_(Atomic!boardVars) => [BoardStep]_boardVars
  BY <1>3 DEF Atomic!boardVars, boardVars
<1> QED BY <1>1, <1>2, <1>4, PTL DEF Atomic!Spec
=============================================================================
