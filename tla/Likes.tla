-------------------------------- MODULE Likes --------------------------------
(***************************************************************************)
(* Likes: LikeService and the two statements of its store, each an         *)
(* implicit transaction.  A request whose client has gone is not stopped:  *)
(* its statement runs on in the server and may still commit, beside the    *)
(* visitor's next requests.                                                *)
(***************************************************************************)
EXTENDS Registry, Naturals, FiniteSets

CONSTANTS
  Visitors,    \* visitor hashes
  MaxConns,    \* DB_MAX_CONNS
  NoRequest,   \* a row nobody writes
  NoKey,       \* the key of no request
  EnvRows      \* rows a sync job may write in this instance

ASSUME MaxConnsAssumption == MaxConns \in Nat \ {0}
ASSUME EnvRowsAssumption == EnvRows \subseteq Row
ASSUME NullAssumption == NoRequest \notin Requests /\ NoKey \notin Slugs \X Visitors

VARIABLES
  liked,      \* the committed rows of post_likes: post and visitor -> BOOLEAN
  likeLock,   \* the request whose uncommitted insert or delete has the row
  pc,         \* the statement each request runs next
  tx,         \* what each request wants, and what it has found
  outcome,    \* what the client of the last request was told
  seen        \* history: the states its like has been in since it arrived

requestVars == <<pc, tx, outcome>>
likeVars == <<liked, likeLock, requestVars, seen>>
vars == <<registryVars, likeVars>>

Keys == Slugs \X Visitors
Ops == {"like", "unlike"}
NullTx == [op |-> "none", key |-> NoKey, found |-> FALSE, client |-> FALSE]

(* Statements that have been sent. *)
Running == {"insert", "scan", "delete", "commit"}
PoolFree == Cardinality({p \in Requests : pc[p] \in Running /\ tx[p].client}) < MaxConns
Desired(p) == tx[p].op = "like"

TypeOK ==
  /\ RegistryTypeOK
  /\ liked \in [Keys -> BOOLEAN]
  /\ likeLock \in [Keys -> Requests \cup {NoRequest}]
  /\ pc \in [Requests -> {"idle", "check", "begin"} \cup Running]
  /\ tx \in [Requests -> [op : Ops, key : Keys, found : BOOLEAN, client : BOOLEAN] \cup {NullTx}]
  /\ outcome \in [Requests -> {"none", "done", "notfound", "failed"}]
  /\ seen \in [Requests -> SUBSET BOOLEAN]
  /\ \A p \in Requests : pc[p] = "idle" <=> tx[p] = NullTx

Init ==
  /\ content \in [Slugs -> EnvRows \cup {NoRow}]
  /\ sharers = [s \in Slugs |-> {}]
  /\ writer = [s \in Slugs |-> NoJob]
  /\ liked = [k \in Keys |-> FALSE]
  /\ likeLock = [k \in Keys |-> NoRequest]
  /\ pc = [p \in Requests |-> "idle"]
  /\ tx = [p \in Requests |-> NullTx]
  /\ outcome = [p \in Requests |-> "none"]
  /\ seen = [p \in Requests |-> {}]
-----------------------------------------------------------------------------
Goto(p, statement) == pc' = [pc EXCEPT ![p] = statement]
Unlocked(k) == likeLock[k] = NoRequest

(* Mutant: a statement that ends early leaves its transaction open. *)
FinishOpen(p, code) ==
  /\ Goto(p, "idle")
  /\ tx' = [q \in Requests |-> IF q = p THEN NullTx ELSE tx[q]]
  /\ outcome' = [outcome EXCEPT ![p] = IF tx[p].client THEN code ELSE @]
  /\ UNCHANGED <<registryVars, likeLock>>

(* The statement has ended, and so has its transaction; the answer goes to *)
(* whoever still waits for it.                                             *)
Finish(p, code) ==
  /\ Goto(p, "idle")
  /\ tx' = [q \in Requests |-> IF q = p THEN NullTx ELSE tx[q]]
  /\ outcome' = [outcome EXCEPT ![p] = IF tx[p].client THEN code ELSE @]
  /\ likeLock' = [k \in Keys |-> IF likeLock[k] = p THEN NoRequest ELSE likeLock[k]]
  /\ UNCHANGED registryVars

(* A visitor likes or unlikes a post; invalid slugs and visitors over      *)
(* their rate do not get this far.                                         *)
Arrive(p, op, k) ==
  /\ pc[p] = "idle"
  /\ Goto(p, "check")
  /\ tx' = [tx EXCEPT ![p] = [op |-> op, key |-> k, found |-> FALSE, client |-> TRUE]]
  /\ outcome' = [outcome EXCEPT ![p] = "none"]
  /\ seen' = [seen EXCEPT ![p] = {liked[k]}]
  /\ UNCHANGED <<registryVars, liked, likeLock>>

(* RequirePublishedContent, on a pooled connection it gives back. *)
Check(p) ==
  /\ pc[p] = "check"
  /\ PoolFree
  /\ \/ ~Published(tx[p].key[1]) /\ Finish(p, "notfound") /\ UNCHANGED <<liked, seen>>
     \/ /\ Published(tx[p].key[1])
        /\ Goto(p, "begin")
        /\ UNCHANGED <<registryVars, liked, likeLock, tx, outcome, seen>>

Begin(p) ==
  /\ pc[p] = "begin"
  /\ PoolFree
  /\ Goto(p, IF tx[p].op = "like" THEN "insert" ELSE "scan")
  /\ UNCHANGED <<registryVars, liked, likeLock, tx, outcome, seen>>

(* The statement has the row: its change is visible to others at the commit. *)
Take(p) ==
  /\ Unlocked(tx[p].key)
  /\ likeLock' = [likeLock EXCEPT ![tx[p].key] = p]
  /\ Goto(p, "commit")
  /\ UNCHANGED <<registryVars, liked, tx, outcome, seen>>

(* Mutant: a row that somebody is writing counts as a conflict. *)
InsertWithoutWaiting(p) ==
  /\ pc[p] = "insert"
  /\ \/ /\ liked[tx[p].key] \/ ~Unlocked(tx[p].key)
        /\ Finish(p, "done")
        /\ UNCHANGED <<liked, seen>>
     \/ ~liked[tx[p].key] /\ Take(p)

(* INSERT ... ON CONFLICT DO NOTHING waits for whoever inserts or deletes  *)
(* the row to end before it knows whether there is a conflict.             *)
Insert(p) ==
  /\ pc[p] = "insert"
  /\ \/ /\ liked[tx[p].key] /\ Unlocked(tx[p].key)
        /\ Finish(p, "done")
        /\ UNCHANGED <<liked, seen>>
     \/ ~liked[tx[p].key] /\ Take(p)

(* DELETE looks for the row in its snapshot, which has committed rows only. *)
Scan(p) ==
  /\ pc[p] = "scan"
  /\ \/ ~liked[tx[p].key] /\ Finish(p, "done") /\ UNCHANGED <<liked, seen>>
     \/ /\ liked[tx[p].key]
        /\ tx' = [tx EXCEPT ![p].found = TRUE]
        /\ Goto(p, "delete")
        /\ UNCHANGED <<registryVars, liked, likeLock, outcome, seen>>

(* It waits for the row it found, and leaves alone a row that is gone by   *)
(* then, also when another has taken its place.                            *)
Delete(p) ==
  /\ pc[p] = "delete"
  /\ \/ ~tx[p].found /\ Finish(p, "done") /\ UNCHANGED <<liked, seen>>
     \/ tx[p].found /\ Take(p)

(* A deleted row is found by nobody any more. *)
Apply(p) ==
  /\ liked' = [liked EXCEPT ![tx[p].key] = Desired(p)]
  /\ tx' = [q \in Requests |-> IF q = p THEN NullTx
                               ELSE IF tx[q].key = tx[p].key THEN [tx[q] EXCEPT !.found = FALSE]
                               ELSE tx[q]]
  /\ seen' = [q \in Requests |-> IF tx[q].key = tx[p].key THEN seen[q] \cup {Desired(p)}
                                 ELSE seen[q]]

(* The reply may be lost after the server has committed. *)
Commit(p) ==
  /\ pc[p] = "commit"
  /\ Goto(p, "idle")
  /\ \E code \in {"done", "failed"} :
       outcome' = [outcome EXCEPT ![p] = IF tx[p].client THEN code ELSE @]
  /\ likeLock' = [likeLock EXCEPT ![tx[p].key] = NoRequest]
  /\ Apply(p)
  /\ UNCHANGED registryVars

(* The query timeout, or the client, ends the request's context. *)
Abandon(p) ==
  /\ tx[p].client
  /\ outcome' = [outcome EXCEPT ![p] = "failed"]
  /\ \/ /\ pc[p] \in {"check", "begin"}
        /\ Goto(p, "idle")
        /\ tx' = [tx EXCEPT ![p] = NullTx]
     \/ /\ pc[p] \in Running
        /\ tx' = [tx EXCEPT ![p].client = FALSE]
        /\ UNCHANGED pc
  /\ UNCHANGED <<registryVars, liked, likeLock, seen>>

(* A statement nobody waits for fails, or the server notices and stops it. *)
Rollback(p) ==
  /\ pc[p] \in Running
  /\ ~tx[p].client
  /\ Finish(p, "failed")
  /\ UNCHANGED <<liked, seen>>
-----------------------------------------------------------------------------
Serve(p) ==
  Check(p) \/ Begin(p) \/ Insert(p) \/ Scan(p) \/ Delete(p) \/ Commit(p)

RequestStep(p) ==
  \/ \E op \in Ops, k \in Keys : Arrive(p, op, k)
  \/ Serve(p)
  \/ Abandon(p)
  \/ Rollback(p)

Next ==
  \/ \E p \in Requests : RequestStep(p)
  \/ RegistryStep(EnvRows) /\ UNCHANGED likeVars

Spec == Init /\ [][Next]_vars

(* Whoever waits for a connection or a row is woken whenever it is free    *)
(* and does not lose every race for it.  Clients need not arrive or leave. *)
FairSpec == Spec /\ \A p \in Requests : SF_vars(Serve(p))
-----------------------------------------------------------------------------
(* A like or unlike that is answered with success was true at some moment  *)
(* while the request ran, whatever requests of the same visitor, failed    *)
(* and forgotten ones among them, ran beside it ("ensures the current      *)
(* pseudonymous visitor likes the requested post", ReactionHandler.Like).  *)
DesiredStateReached ==
  [][\A p \in Requests :
       outcome[p] = "none" /\ outcome'[p] = "done" => Desired(p) \in seen'[p]]_vars

(* Every request comes to its end; those who lose the race for a row find  *)
(* out, and those nobody waits for do not keep it.                         *)
LikesComplete == \A p \in Requests : pc[p] # "idle" ~> pc[p] = "idle"
=============================================================================
