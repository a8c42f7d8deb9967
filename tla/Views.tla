-------------------------------- MODULE Views --------------------------------
(***************************************************************************)
(* View counting: ViewService and the one statement of its store, which    *)
(* first takes the visitor's row of the post and then, if the view counts, *)
(* the post's total.  Times are read before the statement starts, by API   *)
(* processes whose clocks need not agree, so a statement meets any time.   *)
(***************************************************************************)
EXTENDS Registry, Naturals, FiniteSets, Sequences

CONSTANTS
  Visitors,    \* visitor hashes
  Window,      \* the deduplication window, in ticks
  MaxTime,     \* bound: the last time a clock shows
  MaxConns,    \* DB_MAX_CONNS
  NoRequest,   \* a row nobody writes
  Never,       \* no row of this visitor
  NoKey,       \* the key of no request
  EnvRows      \* rows a sync job may write in this instance

ASSUME WindowAssumption == Window \in Nat \ {0} /\ MaxTime \in Nat
ASSUME MaxConnsAssumption == MaxConns \in Nat \ {0}
ASSUME EnvRowsAssumption == EnvRows \subseteq Row
ASSUME NullAssumption ==
  NoRequest \notin Requests /\ NoKey \notin Slugs \X Visitors /\ Never \notin Nat

VARIABLES
  viewed,       \* committed post_view_visitors: post and visitor -> last_counted_at
  total,        \* committed post_stats: post -> view_count, 0 without a row
  visitorLock,  \* the request writing each visitor's row
  totalLock,    \* the request writing each total
  pc,           \* what each request does next
  tx,           \* its view, and the total it is going to write
  outcome,      \* what Record returned last
  counted       \* history: the views counted for each post, oldest first

lockVars == <<visitorLock, totalLock>>
requestVars == <<pc, tx, outcome>>
viewVars == <<viewed, total, lockVars, requestVars, counted>>
vars == <<registryVars, viewVars>>

Keys == Slugs \X Visitors
Times == 0..MaxTime
NullTx == [key |-> NoKey, countedAt |-> 0, views |-> 0, client |-> FALSE]

(* Parts of a statement that has been sent. *)
Running == {"visitor", "total", "commit"}
PoolFree == Cardinality({p \in Requests : pc[p] \in Running /\ tx[p].client}) < MaxConns
Slug(p) == tx[p].key[1]

TypeOK ==
  /\ RegistryTypeOK
  /\ viewed \in [Keys -> Times \cup {Never}]
  /\ total \in [Slugs -> Nat]
  /\ visitorLock \in [Keys -> Requests \cup {NoRequest}]
  /\ totalLock \in [Slugs -> Requests \cup {NoRequest}]
  /\ pc \in [Requests -> {"idle", "check", "begin"} \cup Running]
  /\ tx \in [Requests -> [key : Keys \cup {NoKey}, countedAt : Times, views : Nat,
                          client : BOOLEAN]]
  /\ \A p \in Requests : pc[p] # "idle" => tx[p].key \in Keys
  /\ outcome \in [Requests -> {"none", "counted", "known", "notfound", "failed"}]
  /\ counted \in [Slugs -> Seq([visitor : Visitors, at : Times])]

Init ==
  /\ content \in [Slugs -> EnvRows \cup {NoRow}]
  /\ sharers = [s \in Slugs |-> {}]
  /\ writer = [s \in Slugs |-> NoJob]
  /\ viewed = [k \in Keys |-> Never]
  /\ total = [s \in Slugs |-> 0]
  /\ visitorLock = [k \in Keys |-> NoRequest]
  /\ totalLock = [s \in Slugs |-> NoRequest]
  /\ pc = [p \in Requests |-> "idle"]
  /\ tx = [p \in Requests |-> NullTx]
  /\ outcome = [p \in Requests |-> "none"]
  /\ counted = [s \in Slugs |-> <<>>]
-----------------------------------------------------------------------------
Goto(p, statement) == pc' = [pc EXCEPT ![p] = statement]

ReleaseLocks(p) ==
  /\ visitorLock' = [k \in Keys |-> IF visitorLock[k] = p THEN NoRequest ELSE visitorLock[k]]
  /\ totalLock' = [s \in Slugs |-> IF totalLock[s] = p THEN NoRequest ELSE totalLock[s]]

(* Mutant: a statement that ends leaves its transaction open. *)
FinishOpen(p, code) ==
  /\ Goto(p, "idle")
  /\ tx' = [tx EXCEPT ![p] = NullTx]
  /\ outcome' = [outcome EXCEPT ![p] = IF tx[p].client THEN code ELSE @]
  /\ UNCHANGED <<lockVars, registryVars>>

(* The statement and its transaction have ended; Record returns to whoever *)
(* still waits.                                                            *)
Finish(p, code) ==
  /\ Goto(p, "idle")
  /\ tx' = [tx EXCEPT ![p] = NullTx]
  /\ outcome' = [outcome EXCEPT ![p] = IF tx[p].client THEN code ELSE @]
  /\ ReleaseLocks(p)
  /\ UNCHANGED registryVars

(* Nothing was counted. *)
Drop(p, code) == Finish(p, code) /\ UNCHANGED <<viewed, total, counted>>

(* A visitor views a post; invalid slugs and visitors over their rate do   *)
(* not get this far.                                                       *)
Record(p, k) ==
  /\ pc[p] = "idle"
  /\ Goto(p, "check")
  /\ tx' = [tx EXCEPT ![p] = [key |-> k, countedAt |-> 0, views |-> 0, client |-> TRUE]]
  /\ outcome' = [outcome EXCEPT ![p] = "none"]
  /\ UNCHANGED <<registryVars, viewed, total, lockVars, counted>>

(* RequirePublishedContent, on a pooled connection it gives back; then the *)
(* clock is read.                                                          *)
Check(p) ==
  /\ pc[p] = "check"
  /\ PoolFree
  /\ \/ ~Published(Slug(p)) /\ Drop(p, "notfound")
     \/ /\ Published(Slug(p))
        /\ \E t \in Times : tx' = [tx EXCEPT ![p].countedAt = t]
        /\ Goto(p, "begin")
        /\ UNCHANGED <<registryVars, viewed, total, lockVars, outcome, counted>>

Begin(p) ==
  /\ pc[p] = "begin"
  /\ PoolFree
  /\ Goto(p, "visitor")
  /\ UNCHANGED <<registryVars, viewed, total, lockVars, tx, outcome, counted>>

(* Mutant: a view exactly one window after the last is not counted. *)
DueLate(last, at) == last # Never => last < at - Window
(* Whether a view at this time counts after the last one that did. *)
Due(last, at) == last # Never => last <= at - Window

(* Mutant: the visitor's row is read, not locked. *)
TakeVisitorUnlocked(p) ==
  /\ pc[p] = "visitor"
  /\ \/ ~Due(viewed[tx[p].key], tx[p].countedAt) /\ Drop(p, "known")
     \/ /\ Due(viewed[tx[p].key], tx[p].countedAt)
        /\ Goto(p, "total")
        /\ UNCHANGED <<registryVars, viewed, total, lockVars, tx, outcome, counted>>

(* INSERT ... ON CONFLICT DO UPDATE waits for the visitor's row, also for  *)
(* one being inserted, and decides on its latest committed version.        *)
TakeVisitor(p) ==
  /\ pc[p] = "visitor"
  /\ visitorLock[tx[p].key] = NoRequest
  /\ \/ ~Due(viewed[tx[p].key], tx[p].countedAt) /\ Drop(p, "known")
     \/ /\ Due(viewed[tx[p].key], tx[p].countedAt)
        /\ visitorLock' = [visitorLock EXCEPT ![tx[p].key] = p]
        /\ Goto(p, "total")
        /\ UNCHANGED <<registryVars, viewed, total, totalLock, tx, outcome, counted>>

(* Mutant: the total is read before it is locked. *)
TakeTotalUnlocked(p) ==
  /\ pc[p] = "total"
  /\ tx' = [tx EXCEPT ![p].views = total[Slug(p)] + 1]
  /\ Goto(p, "commit")
  /\ UNCHANGED <<registryVars, viewed, total, lockVars, outcome, counted>>

(* The second part of the statement increments the total, of which it      *)
(* waits for the latest committed version too.                             *)
TakeTotal(p) ==
  /\ pc[p] = "total"
  /\ totalLock[Slug(p)] = NoRequest
  /\ totalLock' = [totalLock EXCEPT ![Slug(p)] = p]
  /\ tx' = [tx EXCEPT ![p].views = total[Slug(p)] + 1]
  /\ Goto(p, "commit")
  /\ UNCHANGED <<registryVars, viewed, total, visitorLock, outcome, counted>>

(* Both rows appear at once.  The reply may be lost. *)
Commit(p) ==
  /\ pc[p] = "commit"
  /\ viewed' = [viewed EXCEPT ![tx[p].key] = tx[p].countedAt]
  /\ total' = [total EXCEPT ![Slug(p)] = tx[p].views]
  /\ counted' = [counted EXCEPT ![Slug(p)] =
                   Append(@, [visitor |-> tx[p].key[2], at |-> tx[p].countedAt])]
  /\ \E code \in {"counted", "failed"} : Finish(p, code)

(* The query timeout, or the client, ends the request's context; what has  *)
(* been sent runs on.                                                      *)
Abandon(p) ==
  /\ tx[p].client
  /\ outcome' = [outcome EXCEPT ![p] = "failed"]
  /\ \/ /\ pc[p] \in {"check", "begin"}
        /\ Goto(p, "idle")
        /\ tx' = [tx EXCEPT ![p] = NullTx]
     \/ /\ pc[p] \in Running
        /\ tx' = [tx EXCEPT ![p].client = FALSE]
        /\ UNCHANGED pc
  /\ UNCHANGED <<registryVars, viewed, total, lockVars, counted>>

(* A statement nobody waits for fails, or the server notices and stops it. *)
Rollback(p) ==
  /\ pc[p] \in Running
  /\ ~tx[p].client
  /\ Drop(p, "failed")
-----------------------------------------------------------------------------
Serve(p) == Check(p) \/ Begin(p) \/ TakeVisitor(p) \/ TakeTotal(p) \/ Commit(p)

RequestStep(p) ==
  \/ \E k \in Keys : Record(p, k)
  \/ Serve(p)
  \/ Abandon(p)
  \/ Rollback(p)

Next ==
  \/ \E p \in Requests : RequestStep(p)
  \/ RegistryStep(EnvRows) /\ UNCHANGED viewVars

Spec == Init /\ [][Next]_vars

(* Whoever waits for a connection or a row is woken whenever it is free    *)
(* and does not lose every race for it.  Clients need not arrive or leave. *)
FairSpec == Spec /\ \A p \in Requests : SF_vars(Serve(p))
-----------------------------------------------------------------------------
(* The total of a post is the number of views that were counted for it:    *)
(* no increment is lost between visitors, none happens without its visitor *)
(* row, whatever replies are lost (ViewStore.RecordView).                  *)
ViewsAddUp == \A s \in Slugs : total[s] = Len(counted[s])

(* Two counted views of a post by one visitor are at least a window apart, *)
(* although the times of its requests reach the row in any order.          *)
RollingWindow ==
  \A s \in Slugs : \A i, j \in 1..Len(counted[s]) :
    i < j /\ counted[s][i].visitor = counted[s][j].visitor =>
      counted[s][j].at >= counted[s][i].at + Window

(* A view that is found not to count has a counted one of its visitor less *)
(* than a window before it, or after it; failed attempts are no reason.    *)
KnownForAReason ==
  [][\A p \in Requests :
       outcome[p] = "none" /\ outcome'[p] = "known" =>
         \E i \in 1..Len(counted[Slug(p)]) :
           /\ counted[Slug(p)][i].visitor = tx[p].key[2]
           /\ counted[Slug(p)][i].at > tx[p].countedAt - Window]_vars

(* Every request comes to its end, although each may hold the visitor's    *)
(* row while it waits for the total.                                       *)
ViewsComplete == \A p \in Requests : pc[p] # "idle" ~> pc[p] = "idle"
=============================================================================
