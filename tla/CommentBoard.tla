---------------------------- MODULE CommentBoard ----------------------------
(***************************************************************************)
(* What comment creation and moderation promise to their clients: each     *)
(* request takes effect atomically, at most once, at a moment between its  *)
(* submission and its answer, and the answer says what was true then.  An  *)
(* error of the server is the one answer that leaves the effect open: it   *)
(* may have happened, may still happen, or never.  CommentStore implements *)
(* this specification.                                                     *)
(***************************************************************************)
EXTENDS Naturals, FiniteSets, Sequences

CONSTANTS Slugs, Requests, NoComment, MaxVisible, MaxComments

VARIABLES
  open,       \* slugs that are published and accept comments
  comments,   \* id -> comment
  audit,      \* id -> its moderation history, oldest first
  phase,      \* "idle", "pending", or "abandoned" by the client
  request,    \* what is asked for: [op, slug, id]
  outcome     \* the answer to the last request

boardVars == <<open, comments, audit, phase, request, outcome>>

CommentIds == 1..MaxComments
Requested(p, op) == phase[p] # "idle" /\ request[p].op = op
Of(s) == {i \in CommentIds : comments[i] # NoComment /\ comments[i].slug = s}
Room(s) == Cardinality({i \in Of(s) : comments[i].status = "visible"}) < MaxVisible

Init ==
  /\ open \in SUBSET Slugs
  /\ comments = [i \in CommentIds |-> NoComment]
  /\ audit = [i \in CommentIds |-> <<>>]
  /\ phase = [p \in Requests |-> "idle"]
  /\ request \in [Requests -> {[op |-> "none"]}]
  /\ outcome = [p \in Requests |-> "none"]

Submit(p, r) ==
  /\ phase[p] = "idle"
  /\ phase' = [phase EXCEPT ![p] = "pending"]
  /\ request' = [request EXCEPT ![p] = r]
  /\ outcome' = [outcome EXCEPT ![p] = "none"]
  /\ UNCHANGED <<open, comments, audit>>

(* A request that took effect is answered once; an abandoned one has been. *)
Settle(p, answers) ==
  /\ phase' = [phase EXCEPT ![p] = "idle"]
  /\ request' = [request EXCEPT ![p] = [op |-> "none"]]
  /\ IF phase[p] = "abandoned" THEN UNCHANGED outcome
     ELSE \E answer \in answers : outcome' = [outcome EXCEPT ![p] = answer]
  /\ UNCHANGED open

(* The new comment is the newest of its post. *)
Create(p) ==
  /\ Requested(p, "create")
  /\ request[p].slug \in open
  /\ Room(request[p].slug)
  /\ \E i \in CommentIds :
       /\ comments[i] = NoComment
       /\ \A k \in Of(request[p].slug) : k < i
       /\ comments' = [comments EXCEPT ![i] = [slug |-> request[p].slug, status |-> "visible"]]
  /\ Settle(p, {"stored", "failed"})
  /\ UNCHANGED audit

(* Status and audit history change together, and only when they change. *)
Moderate(p, op, status) ==
  /\ Requested(p, op)
  /\ comments[request[p].id] # NoComment
  /\ LET i == request[p].id IN
       IF comments[i].status = status THEN UNCHANGED <<comments, audit>>
       ELSE /\ status = "visible" => Room(comments[i].slug)
            /\ comments' = [comments EXCEPT ![i].status = status]
            /\ audit' = [audit EXCEPT ![i] =
                           Append(@, [previous |-> comments[i].status, new |-> status])]
  /\ Settle(p, {"stored", "failed"})

(* The refusals, each true at the moment it is given. *)
Refuse(p) ==
  /\ phase[p] = "pending"
  /\ \/ Requested(p, "create") /\ request[p].slug \notin open
        /\ Settle(p, {"notfound", "disabled"})
     \/ Requested(p, "create") /\ ~Room(request[p].slug) /\ Settle(p, {"full"})
     \/ Requested(p, "create") /\ Settle(p, {"invalid"})
     \/ ~Requested(p, "create") /\ comments[request[p].id] = NoComment
        /\ Settle(p, {"notfound"})
     \/ /\ Requested(p, "unhide")
        /\ comments[request[p].id] # NoComment
        /\ ~Room(comments[request[p].id].slug)
        /\ Settle(p, {"full"})
  /\ UNCHANGED <<comments, audit>>

Abandon(p) ==
  /\ phase[p] = "pending"
  /\ phase' = [phase EXCEPT ![p] = "abandoned"]
  /\ outcome' = [outcome EXCEPT ![p] = "failed"]
  /\ UNCHANGED <<open, comments, audit, request>>

(* The request comes to nothing. *)
Drop(p) ==
  /\ phase[p] # "idle"
  /\ Settle(p, {"failed"})
  /\ UNCHANGED <<comments, audit>>

(* Content is published and withdrawn from outside. *)
ChangePolicy ==
  /\ open' \in SUBSET Slugs
  /\ UNCHANGED <<comments, audit, phase, request, outcome>>

Next ==
  \/ \E p \in Requests :
       \/ \E s \in Slugs : Submit(p, [op |-> "create", slug |-> s])
       \/ \E op \in {"hide", "unhide"}, i \in CommentIds : Submit(p, [op |-> op, id |-> i])
       \/ Create(p)
       \/ Moderate(p, "hide", "hidden")
       \/ Moderate(p, "unhide", "visible")
       \/ Refuse(p) \/ Abandon(p) \/ Drop(p)
  \/ ChangePolicy

Spec == Init /\ [][Next]_boardVars
=============================================================================
