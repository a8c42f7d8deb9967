---------------------------- MODULE CommentStore ----------------------------
(***************************************************************************)
(* Comment creation and moderation: the services of internal/comments and  *)
(* the PostgreSQL transactions of internal/comments/postgres, one action   *)
(* per statement, interleaved as READ COMMITTED allows.  Requests share    *)
(* one connection pool.  A client may go away, a statement fail or a reply *)
(* be lost at any point; the server-side transaction then lives on for a   *)
(* while with its locks, and a COMMIT already sent may still take effect.  *)
(***************************************************************************)
EXTENDS Registry, Naturals, FiniteSets, Sequences

CONSTANTS
  LockKeys,      \* values of hashtext(slug) in the comment lock namespace
  Hash,          \* Slugs -> LockKeys; two slugs may collide
  MaxVisible,    \* MAX_COMMENTS_PER_POST
  MaxConns,      \* DB_MAX_CONNS
  NoRequest,     \* a lock nobody holds
  NoSlug,        \* no slug read yet
  NoComment,     \* an id without a committed row
  EnvRows,       \* rows a sync job may write in this instance
  MaxComments,   \* the last value of the identity sequence, small in an instance
  MaxEvents      \* bound: audit events per comment

ASSUME MaxVisibleAssumption == MaxVisible \in Nat \ {0}
ASSUME MaxConnsAssumption == MaxConns \in Nat \ {0}
ASSUME BoundsAssumption == MaxComments \in Nat /\ MaxEvents \in Nat
ASSUME EnvRowsAssumption == EnvRows \subseteq Row
ASSUME HashAssumption == Hash \in [Slugs -> LockKeys]
ASSUME NullAssumption ==
  /\ NoRequest \notin Requests
  /\ NoJob \notin Jobs
  /\ NoSlug \notin Slugs
  /\ NoComment \notin [slug : Slugs, status : {"visible", "hidden"}]

VARIABLES
  comments,   \* committed rows of comments
  audit,      \* committed admin_audit_events of each comment, oldest first
  seq,        \* last value of the identity sequence; survives rollbacks
  advisory,   \* the transaction holding each advisory lock
  rowLock,    \* the transaction holding each comment row FOR UPDATE
  pc,         \* the statement each request runs next
  tx,         \* what each request asks for, and what it has read
  outcome     \* what the client of the last request was told

boardVars == <<comments, audit>>
lockVars == <<sharers, advisory, rowLock>>
requestVars == <<pc, tx, outcome>>
commentVars == <<boardVars, seq, advisory, rowLock, requestVars>>
vars == <<registryVars, commentVars>>

CommentIds == 1..MaxComments
CommentStatus == {"visible", "hidden"}
Comment == [slug : Slugs, status : CommentStatus]
Event == [previous : CommentStatus, new : CommentStatus]
Moderations == {"hide", "unhide"}
Outcomes == {"none", "stored", "notfound", "disabled", "invalid",
             "full", "failed"}

Tx == [op : Moderations \cup {"none", "create"}, slug : Slugs \cup {NoSlug},
       id : 0..MaxComments, current : CommentStatus]
Asks(op, s, i) == [op |-> op, slug |-> s, id |-> i, current |-> "visible"]
NullTx == Asks("none", NoSlug, 0)

(* Mutant: the pre-check's connection is kept until the transaction has its own. *)
ConnectedSinceCheck == {"begin", "find", "lock", "policy", "count", "insert", "reread",
                        "update", "audit", "commit", "commitRead"}
(* Statements of an open transaction of a request that is being served. *)
Connected == {"find", "lock", "policy", "count", "insert", "reread", "update", "audit",
              "commit", "commitRead"}
(* The client was told of a failure; the transaction has not ended yet. *)
Orphaned == {"orphan", "orphanCommit"}

Desired(p) == IF tx[p].op = "hide" THEN "hidden" ELSE "visible"
VisibleIds(s) == {i \in CommentIds : comments[i] = [slug |-> s, status |-> "visible"]}
VisibleCount(s) == Cardinality(VisibleIds(s))
PoolFree == Cardinality({p \in Requests : pc[p] \in Connected}) < MaxConns

TypeOK ==
  /\ RegistryTypeOK
  /\ comments \in [CommentIds -> Comment \cup {NoComment}]
  /\ audit \in [CommentIds -> Seq(Event)]
  /\ seq \in 0..MaxComments
  /\ advisory \in [LockKeys -> Requests \cup {NoRequest}]
  /\ rowLock \in [CommentIds -> Requests \cup {NoRequest}]
  /\ pc \in [Requests -> {"idle", "check", "begin"} \cup Connected \cup Orphaned]
  /\ tx \in [Requests -> Tx]
  /\ outcome \in [Requests -> Outcomes]

Init ==
  /\ content \in [Slugs -> EnvRows \cup {NoRow}]
  /\ sharers = [s \in Slugs |-> {}]
  /\ writer = [s \in Slugs |-> NoJob]
  /\ comments = [i \in CommentIds |-> NoComment]
  /\ audit = [i \in CommentIds |-> <<>>]
  /\ seq = 0
  /\ advisory = [k \in LockKeys |-> NoRequest]
  /\ rowLock = [i \in CommentIds |-> NoRequest]
  /\ pc = [p \in Requests |-> "idle"]
  /\ tx = [p \in Requests |-> NullTx]
  /\ outcome = [p \in Requests |-> "none"]
-----------------------------------------------------------------------------
Goto(p, statement) == pc' = [pc EXCEPT ![p] = statement]

(* The end of a transaction releases every lock it holds. *)
ReleaseLocks(p) ==
  /\ sharers' = [s \in Slugs |-> sharers[s] \ {p}]
  /\ advisory' = [k \in LockKeys |-> IF advisory[k] = p THEN NoRequest ELSE advisory[k]]
  /\ rowLock' = [i \in CommentIds |-> IF rowLock[i] = p THEN NoRequest ELSE rowLock[i]]

(* The call returns: its deferred Rollback ends what is still open. *)
Finish(p, code) ==
  /\ Goto(p, "idle")
  /\ tx' = [tx EXCEPT ![p] = NullTx]
  /\ outcome' = [outcome EXCEPT ![p] = code]
  /\ ReleaseLocks(p)

(* Mutant: no deferred Rollback; the refused transaction keeps its locks. *)
RefuseOpen(p, code) ==
  /\ Goto(p, "idle")
  /\ tx' = [tx EXCEPT ![p] = NullTx]
  /\ outcome' = [outcome EXCEPT ![p] = code]
  /\ UNCHANGED <<registryVars, boardVars, seq, advisory, rowLock>>

(* A refusal or error before anything was written. *)
Refuse(p, code) == Finish(p, code) /\ UNCHANGED <<boardVars, seq, content, writer>>

(* A visitor submits a comment. *)
Create(p, s) ==
  /\ pc[p] = "idle"
  /\ Goto(p, "check")
  /\ tx' = [tx EXCEPT ![p] = Asks("create", s, 0)]
  /\ outcome' = [outcome EXCEPT ![p] = "none"]
  /\ UNCHANGED <<registryVars, boardVars, seq, advisory, rowLock>>

(* RequireCommentsEnabled runs on a pooled connection of its own, outside  *)
(* the transaction.  Whether author and body are valid is not part of the  *)
(* request here: it is chosen where the service looks at it.               *)
Check(p) ==
  /\ pc[p] = "check"
  /\ PoolFree
  /\ \/ ~Published(tx[p].slug) /\ Refuse(p, "notfound")
     \/ Published(tx[p].slug) /\ ~CommentsEnabled(tx[p].slug) /\ Refuse(p, "disabled")
     \/ CommentsEnabled(tx[p].slug) /\ Refuse(p, "invalid")
     \/ /\ CommentsEnabled(tx[p].slug)
        /\ Goto(p, "begin")
        /\ UNCHANGED <<registryVars, boardVars, seq, advisory, rowLock, tx, outcome>>

(* A moderator hides or unhides a comment. *)
Moderate(p, op, i) ==
  /\ pc[p] = "idle"
  /\ Len(audit[i]) + Cardinality({q \in Requests : tx[q].op \in Moderations /\ tx[q].id = i})
       < MaxEvents
  /\ Goto(p, "begin")
  /\ tx' = [tx EXCEPT ![p] = Asks(op, NoSlug, i)]
  /\ outcome' = [outcome EXCEPT ![p] = "none"]
  /\ UNCHANGED <<registryVars, boardVars, seq, advisory, rowLock>>

Begin(p) ==
  /\ pc[p] = "begin"
  /\ PoolFree
  /\ Goto(p, IF tx[p].op = "create" THEN "lock" ELSE "find")
  /\ UNCHANGED <<registryVars, boardVars, seq, advisory, rowLock, tx, outcome>>

(* SetVisibility learns the post of the comment before it locks the post. *)
Find(p) ==
  /\ pc[p] = "find"
  /\ \/ comments[tx[p].id] = NoComment /\ Refuse(p, "notfound")
     \/ /\ comments[tx[p].id] # NoComment
        /\ tx' = [tx EXCEPT ![p].slug = comments[tx[p].id].slug]
        /\ Goto(p, "lock")
        /\ UNCHANGED <<registryVars, boardVars, seq, advisory, rowLock, outcome>>

(* Mutant: pg_try_advisory_xact_lock, its answer ignored. *)
LockWithoutWaiting(p) ==
  /\ pc[p] = "lock"
  /\ advisory' = [advisory EXCEPT ![Hash[tx[p].slug]] = IF @ = NoRequest THEN p ELSE @]
  /\ Goto(p, IF tx[p].op = "create" THEN "policy" ELSE "reread")
  /\ UNCHANGED <<registryVars, boardVars, seq, rowLock, tx, outcome>>

(* pg_advisory_xact_lock: waits until the key is free. *)
Lock(p) ==
  /\ pc[p] = "lock"
  /\ advisory[Hash[tx[p].slug]] = NoRequest
  /\ advisory' = [advisory EXCEPT ![Hash[tx[p].slug]] = p]
  /\ Goto(p, IF tx[p].op = "create" THEN "policy" ELSE "reread")
  /\ UNCHANGED <<registryVars, boardVars, seq, rowLock, tx, outcome>>

(* Mutant: the policy SELECT without FOR SHARE. *)
PolicyUnlocked(p) ==
  /\ pc[p] = "policy"
  /\ \/ ~CommentsEnabled(tx[p].slug) /\ Refuse(p, "disabled")
     \/ /\ CommentsEnabled(tx[p].slug)
        /\ Goto(p, "count")
        /\ UNCHANGED <<registryVars, boardVars, seq, advisory, rowLock, tx, outcome>>

(* Mutant: FOR KEY SHARE, which does not wait for a job that writes the row. *)
PolicyKeyShared(p) ==
  /\ pc[p] = "policy"
  /\ \/ ~CommentsEnabled(tx[p].slug) /\ Refuse(p, "disabled")
     \/ /\ CommentsEnabled(tx[p].slug)
        /\ sharers' = [sharers EXCEPT ![tx[p].slug] = @ \cup {p}]
        /\ Goto(p, "count")
        /\ UNCHANGED <<content, writer, boardVars, seq, advisory, rowLock, tx, outcome>>

(* The policy is read again, under a FOR SHARE lock held to the end. *)
Policy(p) ==
  /\ pc[p] = "policy"
  /\ \/ CanShareRow(tx[p].slug) /\ ~CommentsEnabled(tx[p].slug) /\ Refuse(p, "disabled")
     \/ /\ ShareRow(p, tx[p].slug)
        /\ CommentsEnabled(tx[p].slug)
        /\ Goto(p, "count")
        /\ UNCHANGED <<content, writer, boardVars, seq, advisory, rowLock, tx, outcome>>

(* Creation and unhiding both count what is visible under the lock. *)
Count(p) ==
  /\ pc[p] = "count"
  /\ \/ VisibleCount(tx[p].slug) >= MaxVisible /\ Refuse(p, "full")
     \/ /\ VisibleCount(tx[p].slug) < MaxVisible
        /\ Goto(p, IF tx[p].op = "create" THEN "insert" ELSE "update")
        /\ UNCHANGED <<registryVars, boardVars, seq, advisory, rowLock, tx, outcome>>

(* The id is drawn from the sequence here; the row appears at the commit. *)
(* An exhausted sequence fails the statement.                             *)
Insert(p) ==
  /\ pc[p] = "insert"
  /\ \/ seq = MaxComments /\ Refuse(p, "failed")
     \/ /\ seq < MaxComments
        /\ seq' = seq + 1
        /\ tx' = [tx EXCEPT ![p].id = seq + 1]
        /\ Goto(p, "commit")
        /\ UNCHANGED <<registryVars, boardVars, advisory, rowLock, outcome>>

(* Mutant: a repeated hide or unhide is not recognized. *)
RereadAlwaysWrites(p) ==
  /\ pc[p] = "reread"
  /\ rowLock[tx[p].id] = NoRequest
  /\ rowLock' = [rowLock EXCEPT ![tx[p].id] = p]
  /\ tx' = [tx EXCEPT ![p].current = comments[tx[p].id].status]
  /\ Goto(p, IF Desired(p) = "visible" THEN "count" ELSE "update")
  /\ UNCHANGED <<registryVars, boardVars, seq, advisory, outcome>>

(* SELECT ... FOR UPDATE: the state that decides is the one read here. *)
Reread(p) ==
  /\ pc[p] = "reread"
  /\ rowLock[tx[p].id] = NoRequest
  /\ rowLock' = [rowLock EXCEPT ![tx[p].id] = p]
  /\ tx' = [tx EXCEPT ![p].current = comments[tx[p].id].status]
  /\ Goto(p, IF comments[tx[p].id].status = Desired(p) THEN "commitRead"
             ELSE IF Desired(p) = "visible" THEN "count" ELSE "update")
  /\ UNCHANGED <<registryVars, boardVars, seq, advisory, outcome>>

(* The UPDATE and the audit INSERT are visible to others at the commit. *)
Update(p) ==
  /\ pc[p] = "update"
  /\ Goto(p, "audit")
  /\ UNCHANGED <<registryVars, boardVars, seq, advisory, rowLock, tx, outcome>>

Audit(p) ==
  /\ pc[p] = "audit"
  /\ Goto(p, "commit")
  /\ UNCHANGED <<registryVars, boardVars, seq, advisory, rowLock, tx, outcome>>

(* What the commit of a transaction with writes makes visible. *)
Apply(p) ==
  IF tx[p].op = "create"
  THEN /\ comments' = [comments EXCEPT ![tx[p].id] = [slug |-> tx[p].slug, status |-> "visible"]]
       /\ UNCHANGED audit
  ELSE /\ comments' = [comments EXCEPT ![tx[p].id].status = Desired(p)]
       /\ audit' = [audit EXCEPT ![tx[p].id] =
                      Append(@, [previous |-> tx[p].current, new |-> Desired(p)])]

(* The reply to COMMIT may be lost after the server has committed. *)
Commit(p) ==
  /\ \E code \in {"stored", "failed"} : Finish(p, code)
  /\ \/ pc[p] = "commit" /\ Apply(p)
     \/ pc[p] = "commitRead" /\ UNCHANGED boardVars
  /\ UNCHANGED <<content, writer, seq>>

(* The request's context ends, or a statement fails: the client hears of a *)
(* failure now, the server ends the transaction when it notices.           *)
Abandon(p) ==
  /\ outcome' = [outcome EXCEPT ![p] = "failed"]
  /\ \/ /\ pc[p] \in {"check", "begin"}
        /\ Goto(p, "idle")
        /\ tx' = [tx EXCEPT ![p] = NullTx]
     \/ /\ pc[p] \in Connected
        /\ Goto(p, IF pc[p] = "commit" THEN "orphanCommit" ELSE "orphan")
        /\ UNCHANGED tx
  /\ UNCHANGED <<registryVars, boardVars, seq, advisory, rowLock>>

(* The orphan's transaction ends; a COMMIT that was sent may still win. *)
OrphanEnds(p) ==
  /\ pc[p] \in Orphaned
  /\ Finish(p, outcome[p])
  /\ \/ pc[p] = "orphanCommit" /\ Apply(p)
     \/ UNCHANGED boardVars
  /\ UNCHANGED <<content, writer, seq>>
-----------------------------------------------------------------------------
Serve(p) ==
  \/ Check(p) \/ Begin(p) \/ Find(p) \/ Lock(p) \/ Policy(p) \/ Count(p) \/ Insert(p)
  \/ Reread(p) \/ Update(p) \/ Audit(p) \/ Commit(p) \/ OrphanEnds(p)

RequestStep(p) ==
  \/ \E s \in Slugs : Create(p, s)
  \/ \E op \in Moderations, i \in CommentIds : Moderate(p, op, i)
  \/ Serve(p)
  \/ Abandon(p)

Next ==
  \/ \E p \in Requests : RequestStep(p)
  \/ RegistryStep(EnvRows) /\ UNCHANGED commentVars

Spec == Init /\ [][Next]_vars
-----------------------------------------------------------------------------
(* A post never shows more than MaxVisible comments, whatever creations    *)
(* and unhidings of it run side by side (CreateVisibleIfUnderLimit and     *)
(* SetVisibility each count and write under the post's advisory lock).     *)
VisibleCap == \A s \in Slugs : VisibleCount(s) <= MaxVisible

StatusAfter(i, n) == IF n = 0 THEN "visible" ELSE audit[i][n].new

(* The audit events of a comment are a gapless account of its status: each *)
(* starts from what the one before it left, changes it, and the last one   *)
(* is the status the comment has.  A comment that does not exist has none. *)
AuditExplainsStatus ==
  \A i \in CommentIds :
    IF comments[i] = NoComment THEN audit[i] = <<>>
    ELSE /\ \A n \in 1..Len(audit[i]) : /\ audit[i][n].previous = StatusAfter(i, n - 1)
                                        /\ audit[i][n].new # audit[i][n].previous
         /\ comments[i].status = StatusAfter(i, Len(audit[i]))

(* A comment appears only while its post is published and accepts          *)
(* comments: no sync disables a post between the policy check of a comment *)
(* and its commit (ADR 0004).                                              *)
PolicyAtCommit ==
  [][\A i \in CommentIds :
       comments[i] = NoComment /\ comments'[i] # NoComment =>
         CommentsEnabled(comments'[i].slug)]_vars

(* Requests behave as the atomic operations of CommentBoard: their effect  *)
(* happens at one moment, at most once, under the policy and the room of   *)
(* that moment, and every answer but a server error is true of it.         *)
Board == INSTANCE CommentBoard WITH
  open <- {s \in Slugs : CommentsEnabled(s)},
  phase <- [p \in Requests |-> IF pc[p] = "idle" THEN "idle"
                               ELSE IF pc[p] \in Orphaned THEN "abandoned" ELSE "pending"],
  request <- [p \in Requests |->
                IF pc[p] = "idle" THEN [op |-> "none"]
                ELSE IF tx[p].op = "create" THEN [op |-> "create", slug |-> tx[p].slug]
                ELSE [op |-> tx[p].op, id |-> tx[p].id]]
ImplementsBoard == Board!Spec
=============================================================================
