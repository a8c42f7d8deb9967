----------------------------- MODULE LikesProofs -----------------------------
(***************************************************************************)
(* Likes for every number of requests, visitors, posts and connections.    *)
(***************************************************************************)
EXTENDS Likes, TLAPS

(* Whatever the sync jobs do, the registry keeps its type. *)
LEMMA RegistryStepTyped ==
  ASSUME RegistryTypeOK, NEW rows \in SUBSET Row, RegistryStep(rows)
  PROVE  RegistryTypeOK'
<1>1. PICK j \in Jobs :
        \/ (\E s \in Slugs : WriteRow(j, s)) /\ UNCHANGED <<content, sharers>>
        \/ /\ ReleaseRows(j)
           /\ content' \in [Slugs -> rows \cup {content[s] : s \in Slugs}]
           /\ UNCHANGED sharers
  BY DEF RegistryStep
<1>2. writer' \in [Slugs -> Jobs \cup {NoJob}]
  BY <1>1 DEF RegistryTypeOK, WriteRow, ReleaseRows
<1>3. content' \in [Slugs -> Row \cup {NoRow}]
  BY <1>1 DEF RegistryTypeOK
<1>4. sharers' = sharers
  BY <1>1
<1> QED BY <1>2, <1>3, <1>4 DEF RegistryTypeOK

(* A statement runs for the operation it belongs to. *)
OpInv(p) ==
  /\ pc[p] = "insert" => tx[p].op = "like"
  /\ pc[p] \in {"scan", "delete"} => tx[p].op = "unlike"

(* A request has seen the present, and a row it found is either still      *)
(* there or has been deleted while it ran.                                 *)
SeenInv(p) ==
  /\ pc[p] # "idle" => liked[tx[p].key] \in seen[p]
  /\ pc[p] = "delete" => IF tx[p].found THEN liked[tx[p].key] ELSE FALSE \in seen[p]

(* Whoever is about to commit has the row, which is not yet as it wants.   *)
TakenInv(p) ==
  pc[p] = "commit" => likeLock[tx[p].key] = p /\ liked[tx[p].key] # Desired(p)

RequestInv(p) == OpInv(p) /\ SeenInv(p) /\ TakenInv(p)

LikesInv == TypeOK /\ \A p \in Requests : RequestInv(p)

Tx == [op : Ops, key : Keys, found : BOOLEAN, client : BOOLEAN]

(* A request that runs has arguments. *)
LEMMA Asking ==
  ASSUME TypeOK, NEW p \in Requests, pc[p] # "idle"
  PROVE  /\ tx[p] \in Tx /\ tx[p].op \in Ops /\ tx[p].key \in Keys
         /\ tx[p].found \in BOOLEAN /\ tx[p].client \in BOOLEAN
  BY DEF TypeOK, Tx

(* No key of a request is the key of none. *)
LEMMA NotNull ==
  ASSUME NEW t \in Tx
  PROVE  t # NullTx
  BY DEF Tx, Ops, NullTx

(* A step of one request that commits nothing leaves the others alone if   *)
(* it takes no row from them.                                              *)
LEMMA OthersKeep ==
  ASSUME LikesInv, NEW p \in Requests, liked' = liked,
         \A q \in Requests \ {p} :
           pc'[q] = pc[q] /\ tx'[q] = tx[q] /\ seen'[q] = seen[q],
         \A k \in Keys : likeLock[k] \in Requests \ {p} => likeLock'[k] = likeLock[k],
         NEW q \in Requests \ {p}
  PROVE  RequestInv(q)'
<1>1. RequestInv(q) /\ pc'[q] = pc[q] /\ tx'[q] = tx[q] /\ seen'[q] = seen[q]
  BY DEF LikesInv
<1>2. pc[q] # "idle" => tx[q].key \in Keys
  BY Asking DEF LikesInv
<1>3. OpInv(q)' /\ SeenInv(q)'
  BY <1>1 DEF RequestInv, OpInv, SeenInv
<1>4. TakenInv(q)'
  BY <1>1, <1>2 DEF RequestInv, TakenInv, Desired
<1> QED BY <1>3, <1>4 DEF RequestInv

(* A statement that ends without a change. *)
LEMMA Finishes ==
  ASSUME LikesInv, NEW p \in Requests, pc[p] # "idle",
         NEW code \in {"done", "notfound", "failed"}, Finish(p, code), UNCHANGED <<liked, seen>>
  PROVE  LikesInv'
<1>1. TypeOK'
  BY DEF LikesInv, TypeOK, Finish, Goto, RegistryTypeOK, registryVars
<1>2. RequestInv(p)'
  BY DEF LikesInv, TypeOK, Finish, Goto, RequestInv, OpInv, SeenInv, TakenInv
<1>3. \A q \in Requests \ {p} : RequestInv(q)'
  <2>1. \A q \in Requests \ {p} : pc'[q] = pc[q] /\ tx'[q] = tx[q] /\ seen'[q] = seen[q]
    BY DEF LikesInv, TypeOK, Finish, Goto
  <2>2. \A k \in Keys : likeLock[k] \in Requests \ {p} => likeLock'[k] = likeLock[k]
    BY DEF Finish
  <2> QED BY <2>1, <2>2, OthersKeep
<1> QED BY <1>1, <1>2, <1>3 DEF LikesInv

(* A statement takes the row it is going to change. *)
LEMMA Takes ==
  ASSUME LikesInv, NEW p \in Requests, pc[p] \in {"insert", "delete"},
         liked[tx[p].key] # Desired(p), Take(p)
  PROVE  LikesInv'
<1>1. tx[p] \in Tx /\ tx[p].key \in Keys /\ tx[p] # NullTx
  BY Asking, NotNull DEF LikesInv
<1>2. TypeOK'
  BY <1>1 DEF LikesInv, TypeOK, Take, Goto, Running, RegistryTypeOK, registryVars
<1>3. RequestInv(p)'
  <2>1. /\ pc'[p] = "commit" /\ tx' = tx /\ liked' = liked /\ seen' = seen
        /\ likeLock'[tx[p].key] = p
    BY <1>1 DEF LikesInv, TypeOK, Take, Goto
  <2>2. OpInv(p)' /\ SeenInv(p)'
    BY <2>1 DEF LikesInv, RequestInv, OpInv, SeenInv
  <2>3. TakenInv(p)'
    BY <2>1 DEF TakenInv, Desired
  <2> QED BY <2>2, <2>3 DEF RequestInv
<1>4. \A q \in Requests \ {p} : RequestInv(q)'
  <2>1. \A q \in Requests \ {p} : pc'[q] = pc[q] /\ tx'[q] = tx[q] /\ seen'[q] = seen[q]
    BY DEF LikesInv, TypeOK, Take, Goto
  <2>2. \A k \in Keys : likeLock[k] \in Requests \ {p} => likeLock'[k] = likeLock[k]
    BY <1>1, NullAssumption DEF Take, Unlocked, LikesInv, TypeOK
  <2> QED BY <2>1, <2>2, OthersKeep DEF Take
<1> QED BY <1>2, <1>3, <1>4 DEF LikesInv

(* A change is committed: who runs for the same row sees it, and who has   *)
(* found the row has lost it.                                              *)
LEMMA Commits ==
  ASSUME LikesInv, NEW p \in Requests, Commit(p)
  PROVE  LikesInv'
<1>1. tx[p] \in Tx /\ tx[p].key \in Keys /\ tx[p].op \in Ops /\ pc[p] = "commit"
  BY Asking DEF LikesInv, Commit
<1>2. Desired(p) \in BOOLEAN /\ likeLock[tx[p].key] = p /\ liked[tx[p].key] # Desired(p)
  BY <1>1 DEF LikesInv, RequestInv, TakenInv, Desired
<1>3. /\ pc' = [pc EXCEPT ![p] = "idle"] /\ likeLock' = [likeLock EXCEPT ![tx[p].key] = NoRequest]
      /\ liked' = [liked EXCEPT ![tx[p].key] = Desired(p)]
      /\ tx' = [q \in Requests |-> IF q = p THEN NullTx
                                   ELSE IF tx[q].key = tx[p].key
                                        THEN [tx[q] EXCEPT !.found = FALSE]
                                        ELSE tx[q]]
      /\ seen' = [q \in Requests |-> IF tx[q].key = tx[p].key THEN seen[q] \cup {Desired(p)}
                                     ELSE seen[q]]
      /\ outcome' \in [Requests -> {"none", "done", "notfound", "failed"}]
      /\ UNCHANGED registryVars
  BY DEF Commit, Apply, Goto, LikesInv, TypeOK
<1>4. \A q \in Requests : tx[q].key = tx[p].key => tx[q] \in Tx /\ pc[q] # "idle"
  BY <1>1, NullAssumption DEF LikesInv, TypeOK, Tx, NullTx, Keys
<1>5. \A q \in Requests : tx[q] \in Tx => [tx[q] EXCEPT !.found = FALSE] \in Tx
  BY DEF Tx
<1>6. TypeOK'
  <2>1. RegistryTypeOK'
    BY <1>3 DEF LikesInv, TypeOK, RegistryTypeOK, registryVars
  <2>2. /\ liked' \in [Keys -> BOOLEAN] /\ likeLock' \in [Keys -> Requests \cup {NoRequest}]
        /\ pc' \in [Requests -> {"idle", "check", "begin"} \cup Running]
        /\ seen' \in [Requests -> SUBSET BOOLEAN]
    BY <1>1, <1>2, <1>3 DEF LikesInv, TypeOK
  <2>3. tx' \in [Requests -> Tx \cup {NullTx}]
    BY <1>3, <1>4, <1>5 DEF LikesInv, TypeOK, Tx
  <2>4. \A q \in Requests : pc'[q] = "idle" <=> tx'[q] = NullTx
    BY <1>3, <1>4, <1>5, NotNull DEF LikesInv, TypeOK
  <2> QED BY <1>3, <2>1, <2>2, <2>3, <2>4 DEF TypeOK, Tx
<1>7. RequestInv(p)'
  BY <1>3 DEF RequestInv, OpInv, SeenInv, TakenInv, LikesInv, TypeOK
<1>8. ASSUME NEW q \in Requests, q # p PROVE RequestInv(q)'
  <2>1. pc'[q] = pc[q] /\ RequestInv(q)
    BY <1>3, <1>8 DEF LikesInv, TypeOK
  <2>2. CASE pc[q] = "idle"
    BY <2>1, <2>2 DEF RequestInv, OpInv, SeenInv, TakenInv
  <2>3. CASE pc[q] # "idle" /\ tx[q].key # tx[p].key
    <3>1. /\ tx'[q] = tx[q] /\ seen'[q] = seen[q] /\ tx[q].key \in Keys
          /\ liked'[tx[q].key] = liked[tx[q].key] /\ likeLock'[tx[q].key] = likeLock[tx[q].key]
      BY <1>3, <1>8, <2>3, Asking DEF LikesInv, TypeOK
    <3> QED BY <2>1, <3>1 DEF RequestInv, OpInv, SeenInv, TakenInv, Desired
  <2>4. CASE pc[q] # "idle" /\ tx[q].key = tx[p].key
    <3>1. /\ tx[q] \in Tx /\ tx'[q] = [tx[q] EXCEPT !.found = FALSE]
          /\ seen'[q] = seen[q] \cup {Desired(p)} /\ liked'[tx[p].key] = Desired(p)
      BY <1>1, <1>3, <1>4, <1>8, <2>4 DEF LikesInv, TypeOK
    <3>2. tx'[q].op = tx[q].op /\ tx'[q].key = tx[p].key /\ tx'[q].found = FALSE
      BY <2>4, <3>1 DEF Tx
    <3>3. pc[q] # "commit"
      BY <1>2, <1>8, <2>1, <2>4 DEF RequestInv, TakenInv
    <3>4. ASSUME pc[q] = "delete" PROVE FALSE \in seen'[q]
      <4>1. IF tx[q].found THEN liked[tx[p].key] ELSE FALSE \in seen[q]
        BY <2>1, <2>4, <3>4 DEF RequestInv, SeenInv
      <4>2. CASE liked[tx[p].key]
        <5>1. Desired(p) = FALSE
          BY <1>1, <1>2, <4>2 DEF LikesInv, TypeOK
        <5> QED BY <3>1, <5>1
      <4>3. CASE FALSE \in seen[q]
        BY <3>1, <4>3
      <4> QED BY <4>1, <4>2, <4>3
    <3>5. OpInv(q)' /\ TakenInv(q)'
      BY <2>1, <3>2, <3>3 DEF RequestInv, OpInv, TakenInv
    <3>6. SeenInv(q)'
      BY <3>1, <3>2, <3>4, <2>1 DEF SeenInv
    <3> QED BY <3>5, <3>6 DEF RequestInv
  <2> QED BY <2>2, <2>3, <2>4
<1> QED BY <1>6, <1>7, <1>8 DEF LikesInv

(* A request that only moves on, changing its own arguments at most.       *)
LEMMA Moves ==
  ASSUME LikesInv, NEW p \in Requests, UNCHANGED <<registryVars, liked, likeLock>>,
         NEW next \in {"idle", "check", "begin"} \cup Running, Goto(p, next),
         NEW t \in Tx \cup {NullTx}, next = "idle" <=> t = NullTx, tx' = [tx EXCEPT ![p] = t],
         outcome' \in [Requests -> {"none", "done", "notfound", "failed"}],
         seen' \in [Requests -> SUBSET BOOLEAN],
         \A q \in Requests \ {p} : seen'[q] = seen[q],
         RequestInv(p)'
  PROVE  LikesInv'
<1>1. TypeOK'
  BY DEF LikesInv, TypeOK, Goto, Tx, RegistryTypeOK, registryVars
<1>2. \A q \in Requests \ {p} : pc'[q] = pc[q] /\ tx'[q] = tx[q] /\ seen'[q] = seen[q]
  BY DEF LikesInv, TypeOK, Goto
<1>3. \A k \in Keys : likeLock[k] \in Requests \ {p} => likeLock'[k] = likeLock[k]
  OBVIOUS
<1> QED BY <1>1, <1>2, <1>3, OthersKeep DEF LikesInv

(* A request arrives and sees the present. *)
LEMMA Arrives ==
  ASSUME LikesInv, NEW p \in Requests, NEW op \in Ops, NEW k \in Keys, Arrive(p, op, k)
  PROVE  LikesInv'
<1> DEFINE t == [op |-> op, key |-> k, found |-> FALSE, client |-> TRUE]
<1>1. t \in Tx /\ t # NullTx
  BY NotNull DEF Tx
<1>2. /\ pc'[p] = "check" /\ tx' = [tx EXCEPT ![p] = t] /\ tx'[p] = t /\ liked' = liked
      /\ seen' \in [Requests -> SUBSET BOOLEAN] /\ seen'[p] = {liked[k]}
      /\ \A q \in Requests \ {p} : seen'[q] = seen[q]
      /\ outcome' \in [Requests -> {"none", "done", "notfound", "failed"}]
  BY DEF Arrive, Goto, LikesInv, TypeOK
<1>3. RequestInv(p)'
  BY <1>2 DEF RequestInv, OpInv, SeenInv, TakenInv
<1> HIDE DEF t
<1> QED BY <1>1, <1>2, <1>3, Moves DEF Arrive

(* Policy check, connection, and the look for the row to delete. *)
LEMMA Proceeds ==
  ASSUME LikesInv, NEW p \in Requests, Check(p) \/ Begin(p) \/ Scan(p)
  PROVE  LikesInv'
<1>1. /\ pc[p] \in {"check", "begin", "scan"} /\ tx[p] \in Tx /\ tx[p] # NullTx
      /\ tx[p].op \in Ops /\ tx[p].key \in Keys /\ tx = [tx EXCEPT ![p] = tx[p]]
      /\ RequestInv(p)
  BY Asking, NotNull DEF Check, Begin, Scan, LikesInv, TypeOK
<1>2. CASE \E code \in {"done", "notfound", "failed"} : Finish(p, code) /\ UNCHANGED <<liked, seen>>
  BY <1>1, <1>2, Finishes
<1>3. CASE /\ pc[p] = "check" /\ Goto(p, "begin")
           /\ UNCHANGED <<registryVars, liked, likeLock, tx, outcome, seen>>
  <2>1. RequestInv(p)'
    BY <1>1, <1>3 DEF Goto, LikesInv, TypeOK, RequestInv, OpInv, SeenInv, TakenInv
  <2> QED BY <1>1, <1>3, <2>1, Moves DEF LikesInv, TypeOK
<1>4. CASE /\ pc[p] = "begin" /\ Goto(p, IF tx[p].op = "like" THEN "insert" ELSE "scan")
           /\ UNCHANGED <<registryVars, liked, likeLock, tx, outcome, seen>>
  <2>1. PICK next \in {"insert", "scan"} :
          next = IF tx[p].op = "like" THEN "insert" ELSE "scan"
    OBVIOUS
  <2>2. RequestInv(p)'
    BY <1>1, <1>4 DEF Goto, LikesInv, TypeOK, RequestInv, OpInv, SeenInv, TakenInv, Ops
  <2> QED BY <1>1, <1>4, <2>1, <2>2, Moves DEF LikesInv, TypeOK, Running
<1>5. CASE /\ pc[p] = "scan" /\ liked[tx[p].key] /\ Goto(p, "delete")
           /\ tx' = [tx EXCEPT ![p].found = TRUE]
           /\ UNCHANGED <<registryVars, liked, likeLock, outcome, seen>>
  <2>0. /\ [tx[p] EXCEPT !.found = TRUE] \in Tx
        /\ [tx[p] EXCEPT !.found = TRUE].op = tx[p].op
        /\ [tx[p] EXCEPT !.found = TRUE].key = tx[p].key
        /\ [tx[p] EXCEPT !.found = TRUE].found = TRUE
    BY <1>1 DEF Tx
  <2>1. PICK t \in Tx : t = [tx[p] EXCEPT !.found = TRUE] /\ t.op = tx[p].op /\ t.key = tx[p].key
                        /\ t.found = TRUE
    BY <2>0, Zenon
  <2>2. tx' = [tx EXCEPT ![p] = t] /\ tx'[p] = t
    BY <1>5, <2>1 DEF LikesInv, TypeOK
  <2>3. RequestInv(p)'
    BY <1>1, <1>5, <2>1, <2>2 DEF Goto, LikesInv, TypeOK, RequestInv, OpInv, SeenInv, TakenInv
  <2>4. /\ "delete" \in {"idle", "check", "begin"} \cup Running
        /\ t \in Tx \cup {NullTx} /\ ("delete" = "idle" <=> t = NullTx)
        /\ UNCHANGED <<registryVars, liked, likeLock>>
        /\ outcome' \in [Requests -> {"none", "done", "notfound", "failed"}]
        /\ seen' \in [Requests -> SUBSET BOOLEAN] /\ \A q \in Requests \ {p} : seen'[q] = seen[q]
    BY <1>5, NotNull DEF LikesInv, TypeOK, Running
  <2> HIDE DEF Goto
  <2> QED BY <1>5, <2>2, <2>3, <2>4, Moves
<1> QED BY <1>1, <1>2, <1>3, <1>4, <1>5 DEF Check, Begin, Scan

(* Insert and delete find out whether there is something to change. *)
LEMMA Decides ==
  ASSUME LikesInv, NEW p \in Requests, Insert(p) \/ Delete(p)
  PROVE  LikesInv'
<1>1. pc[p] \in {"insert", "delete"} /\ RequestInv(p)
  BY DEF Insert, Delete, LikesInv
<1>2. CASE Finish(p, "done") /\ UNCHANGED <<liked, seen>>
  BY <1>1, <1>2, Finishes
<1>3. CASE Insert(p) /\ ~liked[tx[p].key] /\ Take(p)
  <2>1. liked[tx[p].key] # Desired(p)
    BY <1>1, <1>3 DEF Insert, RequestInv, OpInv, Desired
  <2> QED BY <1>1, <1>3, <2>1, Takes
<1>4. CASE Delete(p) /\ tx[p].found /\ Take(p)
  <2>1. liked[tx[p].key] # Desired(p)
    BY <1>1, <1>4 DEF Delete, RequestInv, OpInv, SeenInv, Desired
  <2> QED BY <1>1, <1>4, <2>1, Takes
<1>5. CASE Insert(p)
  BY <1>2, <1>3, <1>5, Zenon DEF Insert
<1>6. CASE Delete(p)
  BY <1>2, <1>4, <1>6, Zenon DEF Delete
<1> QED BY <1>5, <1>6

(* A client goes away, or the statement it left behind is stopped. *)
LEMMA Leaves ==
  ASSUME LikesInv, NEW p \in Requests, Abandon(p) \/ Rollback(p)
  PROVE  LikesInv'
<1>1. CASE Rollback(p)
  BY <1>1, Finishes DEF Rollback, Running
<1>2. CASE Abandon(p) /\ pc[p] \in {"check", "begin"}
  <2>1. /\ Goto(p, "idle") /\ tx' = [tx EXCEPT ![p] = NullTx]
        /\ UNCHANGED <<registryVars, liked, likeLock, seen>>
        /\ outcome' \in [Requests -> {"none", "done", "notfound", "failed"}]
    BY <1>2 DEF Abandon, Running, LikesInv, TypeOK
  <2>2. RequestInv(p)'
    BY <2>1 DEF Goto, LikesInv, TypeOK, RequestInv, OpInv, SeenInv, TakenInv
  <2> QED BY <2>1, <2>2, Moves DEF LikesInv, TypeOK
<1>3. CASE Abandon(p) /\ pc[p] \in Running
  <2>1. tx[p] \in Tx /\ RequestInv(p)
    BY <1>3, Asking DEF Running, LikesInv
  <2>0. /\ [tx[p] EXCEPT !.client = FALSE] \in Tx
        /\ [tx[p] EXCEPT !.client = FALSE].op = tx[p].op
        /\ [tx[p] EXCEPT !.client = FALSE].key = tx[p].key
        /\ [tx[p] EXCEPT !.client = FALSE].found = tx[p].found
    BY <2>1 DEF Tx
  <2>2. PICK t \in Tx : /\ t = [tx[p] EXCEPT !.client = FALSE] /\ t.op = tx[p].op
                        /\ t.key = tx[p].key /\ t.found = tx[p].found
    BY <2>0, Zenon
  <2>3. /\ tx' = [tx EXCEPT ![p] = t] /\ tx'[p] = t /\ pc' = pc /\ pc' = [pc EXCEPT ![p] = pc[p]]
        /\ UNCHANGED <<registryVars, liked, likeLock, seen>>
        /\ outcome' \in [Requests -> {"none", "done", "notfound", "failed"}]
    BY <1>3, <2>2 DEF Abandon, Running, LikesInv, TypeOK
  <2>4. RequestInv(p)'
    BY <2>1, <2>2, <2>3 DEF RequestInv, OpInv, SeenInv, TakenInv, Desired
  <2> QED BY <1>3, <2>2, <2>3, <2>4, NotNull, Moves DEF LikesInv, TypeOK, Goto, Running
<1> QED BY <1>1, <1>2, <1>3 DEF Abandon

(* Every step keeps the invariant. *)
LEMMA LikesStepKeeps ==
  ASSUME LikesInv, [Next]_vars
  PROVE  LikesInv'
<1>1. CASE \E p \in Requests : RequestStep(p)
  BY <1>1, Arrives, Proceeds, Decides, Commits, Leaves DEF RequestStep, Serve
<1>2. CASE UNCHANGED likeVars /\ (RegistryStep(EnvRows) \/ UNCHANGED registryVars)
  <2>1. RegistryTypeOK'
    BY <1>2, RegistryStepTyped, EnvRowsAssumption DEF LikesInv, TypeOK, RegistryTypeOK, registryVars
  <2>2. UNCHANGED <<liked, likeLock, pc, tx, outcome, seen>>
    BY <1>2 DEF likeVars, requestVars
  <2>3. TypeOK'
    BY <2>1, <2>2 DEF LikesInv, TypeOK
  <2>4. \A p \in Requests : RequestInv(p)'
    BY <2>2 DEF LikesInv, RequestInv, OpInv, SeenInv, TakenInv, Desired
  <2> QED BY <2>3, <2>4 DEF LikesInv
<1> QED BY <1>1, <1>2 DEF Next, vars

(* No likes and no requests satisfy the invariant. *)
LEMMA LikesStart ==
  ASSUME Init
  PROVE  LikesInv
<1>1. TypeOK
  BY EnvRowsAssumption DEF Init, TypeOK, RegistryTypeOK
<1>2. \A p \in Requests : RequestInv(p)
  BY DEF Init, RequestInv, OpInv, SeenInv, TakenInv
<1> QED BY <1>1, <1>2 DEF LikesInv

(* Success is only reported of a state that was seen. *)
LEMMA Truthful ==
  ASSUME LikesInv, Next, NEW p \in Requests, outcome[p] = "none", outcome'[p] = "done"
  PROVE  Desired(p) \in seen'[p]
<1>1. outcome \in [Requests -> {"none", "done", "notfound", "failed"}] /\ RequestInv(p)
  BY DEF LikesInv, TypeOK
<1>2. RequestStep(p)
  <2>1. PICK q \in Requests : RequestStep(q)
    BY DEF Next, likeVars, requestVars
  <2>2. \A r \in Requests \ {q} : outcome'[r] = outcome[r]
    BY <1>1, <2>1 DEF RequestStep, Serve, Arrive, Check, Begin, Insert, Scan, Delete, Commit,
                     Abandon, Rollback, Finish, Take
  <2> QED BY <2>1, <2>2
<1>3. CASE Commit(p)
  <2>1. tx[p].key \in Keys /\ seen \in [Requests -> SUBSET BOOLEAN]
    BY <1>3, Asking DEF Commit, LikesInv, TypeOK
  <2> QED BY <1>3, <2>1 DEF Commit, Apply
<1>4. CASE Insert(p)
  <2>1. liked[tx[p].key] /\ seen' = seen /\ pc[p] = "insert"
    BY <1>1, <1>4 DEF Insert, Take
  <2>2. TRUE \in seen[p] /\ Desired(p) = TRUE
    <3>1. tx[p].key \in Keys /\ liked \in [Keys -> BOOLEAN]
      BY <2>1, Asking DEF LikesInv, TypeOK
    <3>2. liked[tx[p].key] = TRUE /\ liked[tx[p].key] \in seen[p] /\ tx[p].op = "like"
      BY <1>1, <2>1, <3>1 DEF RequestInv, OpInv, SeenInv
    <3> QED BY <3>2 DEF Desired
  <2> QED BY <2>1, <2>2
<1>5. CASE Scan(p) \/ Delete(p)
  <2>1. pc[p] \in {"scan", "delete"} /\ seen' = seen
        /\ (pc[p] = "scan" => ~liked[tx[p].key]) /\ (pc[p] = "delete" => ~tx[p].found)
    BY <1>1, <1>5 DEF Scan, Delete, Take
  <2>2. FALSE \in seen[p] /\ Desired(p) = FALSE
    <3>1. tx[p].key \in Keys /\ liked \in [Keys -> BOOLEAN]
      BY <2>1, Asking DEF LikesInv, TypeOK
    <3>2. pc[p] = "scan" => liked[tx[p].key] = FALSE
      BY <2>1, <3>1
    <3>3. FALSE \in seen[p] /\ tx[p].op = "unlike"
      BY <1>1, <2>1, <3>2 DEF RequestInv, OpInv, SeenInv
    <3> QED BY <3>3 DEF Desired
  <2> QED BY <2>1, <2>2
<1>6. ~((\E op \in Ops, k \in Keys : Arrive(p, op, k)) \/ Check(p) \/ Begin(p) \/ Abandon(p)
        \/ Rollback(p))
  BY <1>1 DEF Arrive, Check, Begin, Abandon, Rollback, Finish
<1> QED BY <1>2, <1>3, <1>4, <1>5, <1>6 DEF RequestStep, Serve
-----------------------------------------------------------------------------
(* The inductive invariant holds in every reachable state. *)
THEOREM LikesInvariant == Spec => []LikesInv
BY LikesStart, LikesStepKeeps, PTL DEF Spec

(* Rows, locks and requests keep their types, and a request that is not    *)
(* running has no arguments.                                               *)
THEOREM LikesTypeCorrect == Spec => []TypeOK
<1>1. LikesInv => TypeOK
  BY DEF LikesInv
<1> QED BY <1>1, LikesInvariant, PTL

(* What a visitor is told of its like was true while the request ran, for  *)
(* every number of its requests at once, with lost replies and statements  *)
(* that outlive their clients.                                             *)
THEOREM LikesTruthful == Spec => DesiredStateReached
<1>1. ASSUME LikesInv, [Next]_vars
      PROVE  [\A p \in Requests :
                outcome[p] = "none" /\ outcome'[p] = "done" => Desired(p) \in seen'[p]]_vars
  BY <1>1, Truthful
<1> QED BY <1>1, LikesInvariant, PTL DEF Spec, DesiredStateReached
=============================================================================
