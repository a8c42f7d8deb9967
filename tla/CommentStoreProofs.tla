------------------------- MODULE CommentStoreProofs -------------------------
(***************************************************************************)
(* The safety of comment creation and moderation, for every number of      *)
(* requests, posts, comments and connections, every assignment of lock     *)
(* keys to slugs, and whatever the sync jobs do to the registry.           *)
(***************************************************************************)
EXTENDS CommentStore, FiniteSetTheorems, TLAPS

(* Whatever the sync jobs do, the registry keeps its type. *)
LEMMA RegistryStepTyped ==
  ASSUME RegistryTypeOK, NEW rows \in SUBSET Row, RegistryStep(rows)
  PROVE  RegistryTypeOK'
<1>1. PICK j \in Jobs :
        \/ (\E s \in Slugs : WriteRow(j, s)) /\ UNCHANGED <<content, sharers>>
        \/ /\ ReleaseRows(j)
           /\ content' \in [Slugs -> rows \cup {content[s] : s \in Slugs}]
           /\ UNCHANGED sharers
  BY DEF RegistryStep
<1>2. writer' \in [Slugs -> Jobs \cup {NoJob}]
  BY <1>1 DEF RegistryTypeOK, WriteRow, ReleaseRows
<1>3. content' \in [Slugs -> Row \cup {NoRow}]
  BY <1>1 DEF RegistryTypeOK
<1>4. sharers' = sharers
  BY <1>1
<1> QED BY <1>2, <1>3, <1>4 DEF RegistryTypeOK

(* Statements that run under the post's advisory lock, and those of them   *)
(* that follow a decision taken under it.                                  *)
Locked == {"policy", "count", "insert", "reread", "update", "audit", "commit",
           "commitRead", "orphanCommit"}
Writing == {"insert", "update", "audit", "commit", "orphanCommit"}
Inserted(p) == pc[p] \in {"commit", "orphanCommit"} /\ tx[p].op = "create"

(* Which operation is at which statement, and what it knows by then. *)
OpInv(p) ==
  /\ pc[p] \in {"check", "policy", "insert"} => tx[p].op = "create"
  /\ pc[p] \in {"find", "reread", "update", "audit", "commitRead"} => tx[p].op \in Moderations
  /\ pc[p] # "idle" => tx[p].op # "none"
  /\ pc[p] = "count" => tx[p].op # "hide"
  /\ pc[p] # "idle" /\ tx[p].op = "create" => tx[p].slug \in Slugs
  /\ pc[p] # "idle" /\ tx[p].op \in Moderations => tx[p].id \in CommentIds

(* A request at a locked statement holds the lock of its post. *)
LockInv(p) ==
  /\ pc[p] \in Locked \cup {"lock"} => tx[p].slug \in Slugs
  /\ pc[p] \in Locked => advisory[Hash[tx[p].slug]] = p

(* The post a moderation locked is the post of its comment. *)
TargetInv(p) ==
  pc[p] \in Locked \cup {"lock"} /\ tx[p].op \in Moderations =>
    comments[tx[p].id] # NoComment /\ comments[tx[p].id].slug = tx[p].slug

(* The state a moderation has decided on is still the committed one. *)
DecidedInv(p) ==
  pc[p] \in {"count"} \cup Writing /\ tx[p].op \in Moderations =>
    comments[tx[p].id].status = tx[p].current /\ tx[p].current # Desired(p)

(* The room that was counted is still there. *)
RoomInv(p) ==
  pc[p] \in Writing /\ tx[p].op # "hide" => VisibleCount(tx[p].slug) < MaxVisible

(* The id a creation drew names no comment yet. *)
FreshInv(p) == Inserted(p) => tx[p].id \in 1..seq /\ comments[tx[p].id] = NoComment

RequestInv(p) == OpInv(p) /\ LockInv(p) /\ TargetInv(p) /\ DecidedInv(p) /\ RoomInv(p)
                 /\ FreshInv(p)

IdsDrawn == \A i \in CommentIds : comments[i] # NoComment => i <= seq
IdsDistinct ==
  \A p, q \in Requests : p # q /\ Inserted(p) /\ Inserted(q) => tx[p].id # tx[q].id

IInv ==
  /\ TypeOK
  /\ \A p \in Requests : RequestInv(p)
  /\ IdsDrawn
  /\ IdsDistinct
  /\ VisibleCap
  /\ AuditExplainsStatus
-----------------------------------------------------------------------------
(* What the prover has to know of the arithmetic of one write. *)
LEMMA WriteOne ==
  ASSUME NEW i \in CommentIds, NEW v, NEW s,
         comments \in [CommentIds -> Comment \cup {NoComment}],
         comments' = [comments EXCEPT ![i] = v]
  PROVE  /\ VisibleCount(s) \in Nat /\ VisibleCount(s)' \in Nat
         /\ VisibleCount(s)' <= VisibleCount(s) + 1
         /\ v # [slug |-> s, status |-> "visible"] => VisibleCount(s)' <= VisibleCount(s)
<1> DEFINE C == VisibleIds(s)
           D == {k \in CommentIds : comments'[k] = [slug |-> s, status |-> "visible"]}
<1>1. IsFiniteSet(CommentIds)
  BY BoundsAssumption, FS_Interval DEF CommentIds
<1>2. IsFiniteSet(C) /\ IsFiniteSet(D)
  BY <1>1, FS_Subset DEF VisibleIds
<1>3. Cardinality(C) \in Nat /\ Cardinality(D) \in Nat
  BY <1>2, FS_CardinalityType
<1>4. D \subseteq C \cup {i}
  BY DEF VisibleIds
<1>5. /\ IsFiniteSet(C \cup {i})
      /\ \/ Cardinality(C \cup {i}) = Cardinality(C)
         \/ Cardinality(C \cup {i}) = Cardinality(C) + 1
  <2> HIDE DEF C, D
  <2> QED BY <1>2, FS_AddElement
<1>6. Cardinality(D) <= Cardinality(C) + 1
  <2>1. Cardinality(D) <= Cardinality(C \cup {i})
    <3> HIDE DEF C, D
    <3> QED BY <1>4, <1>5, FS_Subset
  <2> QED BY <1>3, <1>5, <2>1
<1>7. v # [slug |-> s, status |-> "visible"] => D \subseteq C
  BY DEF VisibleIds
<1>8. v # [slug |-> s, status |-> "visible"] => Cardinality(D) <= Cardinality(C)
  BY <1>2, <1>7, FS_Subset
<1>9. VisibleCount(s) = Cardinality(C) /\ VisibleCount(s)' = Cardinality(D)
  BY DEF VisibleCount, VisibleIds
<1> QED BY <1>3, <1>6, <1>8, <1>9
-----------------------------------------------------------------------------
(* A step of another request that changes no comment and keeps the locks   *)
(* of q leaves q where it was.                                             *)
LEMMA Undisturbed ==
  ASSUME TypeOK, NEW q \in Requests, RequestInv(q),
         pc'[q] = pc[q], tx'[q] = tx[q], comments' = comments,
         seq' \in Nat, seq <= seq',
         \A k \in LockKeys : advisory[k] = q => advisory'[k] = q
  PROVE  RequestInv(q)'
<1>1. OpInv(q)'
  BY DEF RequestInv, OpInv
<1>2. LockInv(q)'
  BY HashAssumption DEF RequestInv, LockInv
<1>3. TargetInv(q)' /\ DecidedInv(q)'
  BY DEF RequestInv, TargetInv, DecidedInv, Desired
<1>4. RoomInv(q)'
  BY DEF RequestInv, RoomInv, VisibleCount, VisibleIds
<1>5. FreshInv(q)'
  BY DEF RequestInv, FreshInv, Inserted, TypeOK
<1> QED BY <1>1, <1>2, <1>3, <1>4, <1>5 DEF RequestInv

(* The count of a post depends on the comments alone. *)
LEMMA SameCount ==
  ASSUME comments' = comments
  PROVE  \A s : VisibleCount(s)' = VisibleCount(s)
BY DEF VisibleCount, VisibleIds

(* Request p moves to statement st with local state t, writes nothing, and *)
(* keeps the locks of the others.                                          *)
Statements == {"idle", "check", "begin"} \cup Connected \cup Orphaned

Moves(p, st, t) ==
  /\ pc' = [pc EXCEPT ![p] = st]
  /\ tx' = [tx EXCEPT ![p] = t]
  /\ outcome' \in [Requests -> Outcomes]
  /\ UNCHANGED <<content, writer, comments, audit>>
  /\ sharers' \in [Slugs -> SUBSET Requests]
  /\ advisory' \in [LockKeys -> Requests \cup {NoRequest}]
  /\ rowLock' \in [CommentIds -> Requests \cup {NoRequest}]
  /\ \A q \in Requests, k \in LockKeys : q # p /\ advisory[k] = q => advisory'[k] = q
  /\ seq' \in 0..MaxComments /\ seq <= seq'

(* Such a move leaves the invariant if it establishes what p has to know.  *)
LEMMA MoveKeeps ==
  ASSUME IInv, NEW p \in Requests, NEW st \in Statements, NEW t \in Tx, Moves(p, st, t),
         RequestInv(p)',
         Inserted(p)' => t.id > seq \/ (Inserted(p) /\ t.id = tx[p].id)
  PROVE  IInv'
<1>1. /\ pc' \in [Requests -> Statements] /\ pc'[p] = st
      /\ tx' \in [Requests -> Tx] /\ tx'[p] = t
      /\ \A q \in Requests : q # p => pc'[q] = pc[q] /\ tx'[q] = tx[q]
  <2>1. pc \in [Requests -> Statements] /\ tx \in [Requests -> Tx]
    BY DEF IInv, TypeOK, Statements
  <2> QED BY <2>1 DEF Moves
<1>2. TypeOK'
  BY <1>1 DEF IInv, TypeOK, RegistryTypeOK, Moves, Statements
<1>3. ASSUME NEW q \in Requests, q # p PROVE RequestInv(q)'
  <2>1. seq' \in Nat /\ seq <= seq' /\ comments' = comments
        /\ \A k \in LockKeys : advisory[k] = q => advisory'[k] = q
    BY <1>3, BoundsAssumption DEF Moves
  <2> QED BY <1>1, <1>3, <2>1, Undisturbed DEF IInv
<1>4. IdsDrawn'
  BY BoundsAssumption DEF IInv, TypeOK, IdsDrawn, CommentIds, Moves
<1>5. IdsDistinct'
  <2> SUFFICES ASSUME NEW q \in Requests, NEW r \in Requests, q # r, Inserted(q)', Inserted(r)'
               PROVE  tx'[q].id # tx'[r].id
    BY DEF IdsDistinct
  <2>1. \A x \in Requests : x # p /\ Inserted(x)' => Inserted(x) /\ tx'[x].id = tx[x].id
                                                   /\ tx[x].id \in 1..seq
    BY <1>1 DEF Inserted, IInv, RequestInv, FreshInv
  <2>2. Inserted(p)' => tx'[p].id > seq \/ (Inserted(p) /\ tx'[p].id = tx[p].id)
    BY <1>1
  <2>3. seq \in Nat /\ tx'[p].id \in Nat
    BY <1>1, BoundsAssumption DEF IInv, TypeOK, Tx
  <2> QED BY <2>1, <2>2, <2>3 DEF IInv, IdsDistinct
<1>6. VisibleCap' /\ AuditExplainsStatus'
  BY DEF IInv, VisibleCap, VisibleCount, VisibleIds, AuditExplainsStatus, StatusAfter, Moves
<1>7. \A q \in Requests : RequestInv(q)'
  BY <1>3
<1> QED BY <1>2, <1>4, <1>5, <1>6, <1>7 DEF IInv

(* A call that returns without having written leaves the invariant.        *)
LEMMA Returns ==
  ASSUME IInv, NEW p \in Requests, NEW code \in Outcomes, Refuse(p, code)
  PROVE  IInv'
<1>1. NullTx \in Tx /\ "idle" \in Statements
  BY BoundsAssumption DEF Tx, NullTx, Asks, CommentStatus, Statements
<1>2. Moves(p, "idle", NullTx)
  BY BoundsAssumption DEF Refuse, Finish, Goto, ReleaseLocks, boardVars, Moves, IInv, TypeOK,
                          RegistryTypeOK
<1>3. pc'[p] = "idle"
  BY <1>2 DEF Moves, IInv, TypeOK
<1>4. RequestInv(p)' /\ ~Inserted(p)'
  BY <1>3 DEF RequestInv, OpInv, LockInv, TargetInv, DecidedInv, RoomInv, FreshInv, Inserted,
              Locked, Writing
<1> QED BY <1>1, <1>2, <1>4, MoveKeeps

(* A creation is submitted. *)
LEMMA Creates ==
  ASSUME IInv, NEW p \in Requests, NEW s \in Slugs, Create(p, s)
  PROVE  IInv'
<1> DEFINE t == Asks("create", s, 0)
<1>1. t \in Tx /\ "check" \in Statements /\ t.op = "create" /\ t.slug = s
  BY BoundsAssumption DEF Tx, NullTx, Asks, CommentStatus, CommentIds,
                          Moderations, Statements, Connected, Orphaned, IInv,
                          TypeOK, Create
<1>2. Moves(p, "check", t)
  <2>1. pc' = [pc EXCEPT ![p] = "check"] /\ tx' = [tx EXCEPT ![p] = t]
    BY <1>1 DEF IInv, TypeOK, Goto, Create
  <2>2. /\ UNCHANGED <<content, writer, comments, audit>>
        /\ outcome' \in [Requests -> Outcomes]
        /\ seq' \in 0..MaxComments /\ seq <= seq'
        /\ sharers' \in [Slugs -> SUBSET Requests]
    BY BoundsAssumption DEF IInv, TypeOK, RegistryTypeOK, registryVars,
                            boardVars, Outcomes, Create
  <2>3. /\ advisory' \in [LockKeys -> Requests \cup {NoRequest}]
        /\ rowLock' \in [CommentIds -> Requests \cup {NoRequest}]
        /\ \A q \in Requests, k \in LockKeys :
             q # p /\ advisory[k] = q => advisory'[k] = q
    BY HashAssumption, NullAssumption DEF IInv, TypeOK, Create
  <2> QED BY <2>1, <2>2, <2>3 DEF Moves
<1>3. pc'[p] = "check" /\ tx'[p] = t /\ comments' = comments
  BY <1>2 DEF Moves, IInv, TypeOK
<1>4. RequestInv(p)'
  <2> HIDE DEF t
  <2>1. OpInv(p)' /\ LockInv(p)'
    BY <1>1, <1>2, <1>3, HashAssumption DEF RequestInv, OpInv, LockInv,
                                            TargetInv, Locked, Moderations,
                                            Moves, Desired, Tx, IInv, TypeOK,
                                            Create
  <2>2. TargetInv(p)' /\ DecidedInv(p)'
    BY <1>1, <1>3 DEF RequestInv, OpInv, TargetInv, DecidedInv, Locked,
                      Writing, Moderations, Desired, IInv, Create
  <2>3. RoomInv(p)'
    BY <1>1, <1>3, SameCount DEF RequestInv, OpInv, RoomInv, Writing,
                                 Moderations, IInv, Create
  <2>4. FreshInv(p)'
    BY <1>1, <1>2, <1>3, BoundsAssumption DEF RequestInv, OpInv, FreshInv,
                                              Inserted, Moderations, IdsDrawn,
                                              CommentIds, Moves, IInv, TypeOK,
                                              Create
  <2> QED BY <2>1, <2>2, <2>3, <2>4 DEF RequestInv
<1>5. Inserted(p)' => t.id > seq \/ (Inserted(p) /\ t.id = tx[p].id)
  BY <1>1, <1>3, BoundsAssumption DEF Inserted, IInv, TypeOK, RequestInv,
                                      OpInv, Moderations, Create
<1> QED BY <1>1, <1>2, <1>4, <1>5, MoveKeeps

(* The pre-check sends a creation on or turns it away. *)
LEMMA Checks ==
  ASSUME IInv, NEW p \in Requests, Check(p)
  PROVE  IInv'
<1>1. CASE \E code \in Outcomes : Refuse(p, code)
  BY <1>1, Returns
<1>2. CASE /\ pc[p] = "check" /\ Goto(p, "begin")
            /\ UNCHANGED <<registryVars, boardVars, seq, advisory, rowLock, tx, outcome>>
  <2> DEFINE t == tx[p]
  <2>1. t \in Tx /\ "begin" \in Statements
    BY <1>2, BoundsAssumption DEF Tx, NullTx, Asks, CommentStatus, CommentIds,
                                  Moderations, Statements, Connected,
                                  Orphaned, IInv, TypeOK
  <2>2. Moves(p, "begin", t)
    <3>1. pc' = [pc EXCEPT ![p] = "begin"] /\ tx' = [tx EXCEPT ![p] = t]
      BY <1>2, <2>1 DEF IInv, TypeOK, Goto
    <3>2. /\ UNCHANGED <<content, writer, comments, audit>>
          /\ outcome' \in [Requests -> Outcomes]
          /\ seq' \in 0..MaxComments /\ seq <= seq'
          /\ sharers' \in [Slugs -> SUBSET Requests]
      BY <1>2, BoundsAssumption DEF IInv, TypeOK, RegistryTypeOK,
                                    registryVars, boardVars, Outcomes
    <3>3. /\ advisory' \in [LockKeys -> Requests \cup {NoRequest}]
          /\ rowLock' \in [CommentIds -> Requests \cup {NoRequest}]
          /\ \A q \in Requests, k \in LockKeys :
               q # p /\ advisory[k] = q => advisory'[k] = q
      BY <1>2, HashAssumption, NullAssumption DEF IInv, TypeOK
    <3> QED BY <3>1, <3>2, <3>3 DEF Moves
  <2>3. pc'[p] = "begin" /\ tx'[p] = t /\ comments' = comments
    BY <2>2 DEF Moves, IInv, TypeOK
  <2>4. RequestInv(p)'
    <3> HIDE DEF t
    <3>1. OpInv(p)' /\ LockInv(p)'
      BY <1>2, <2>1, <2>2, <2>3, HashAssumption DEF RequestInv, OpInv,
                                                    LockInv, TargetInv,
                                                    Locked, Moderations,
                                                    Moves, Desired, Tx, IInv,
                                                    TypeOK
    <3>2. TargetInv(p)' /\ DecidedInv(p)'
      BY <1>2, <2>1, <2>3 DEF RequestInv, OpInv, TargetInv, DecidedInv,
                              Locked, Writing, Moderations, Desired, IInv
    <3>3. RoomInv(p)'
      BY <1>2, <2>1, <2>3, SameCount DEF RequestInv, OpInv, RoomInv, Writing,
                                         Moderations, IInv
    <3>4. FreshInv(p)'
      BY <1>2, <2>1, <2>2, <2>3, BoundsAssumption DEF RequestInv, OpInv,
                                                      FreshInv, Inserted,
                                                      Moderations, IdsDrawn,
                                                      CommentIds, Moves, IInv,
                                                      TypeOK
    <3> QED BY <3>1, <3>2, <3>3, <3>4 DEF RequestInv
  <2>5. Inserted(p)' => t.id > seq \/ (Inserted(p) /\ t.id = tx[p].id)
    BY <1>2, <2>1, <2>3, BoundsAssumption DEF Inserted, IInv, TypeOK,
                                              RequestInv, OpInv, Moderations
  <2> QED BY <2>1, <2>2, <2>4, <2>5, MoveKeeps
<1> QED BY <1>1, <1>2 DEF Check, Outcomes

(* A moderation is submitted. *)
LEMMA Moderates ==
  ASSUME IInv, NEW p \in Requests, NEW op \in Moderations, NEW i \in CommentIds,
         Moderate(p, op, i)
  PROVE  IInv'
<1> DEFINE t == Asks(op, NoSlug, i)
<1>1. t \in Tx /\ "begin" \in Statements /\ t.op = op /\ t.id = i
  BY BoundsAssumption DEF Tx, NullTx, Asks, CommentStatus, CommentIds,
                          Moderations, Statements, Connected, Orphaned, IInv,
                          TypeOK, Moderate
<1>2. Moves(p, "begin", t)
  <2>1. pc' = [pc EXCEPT ![p] = "begin"] /\ tx' = [tx EXCEPT ![p] = t]
    BY <1>1 DEF IInv, TypeOK, Goto, Moderate
  <2>2. /\ UNCHANGED <<content, writer, comments, audit>>
        /\ outcome' \in [Requests -> Outcomes]
        /\ seq' \in 0..MaxComments /\ seq <= seq'
        /\ sharers' \in [Slugs -> SUBSET Requests]
    BY BoundsAssumption DEF IInv, TypeOK, RegistryTypeOK, registryVars,
                            boardVars, Outcomes, Moderate
  <2>3. /\ advisory' \in [LockKeys -> Requests \cup {NoRequest}]
        /\ rowLock' \in [CommentIds -> Requests \cup {NoRequest}]
        /\ \A q \in Requests, k \in LockKeys :
             q # p /\ advisory[k] = q => advisory'[k] = q
    BY HashAssumption, NullAssumption DEF IInv, TypeOK, Moderate
  <2> QED BY <2>1, <2>2, <2>3 DEF Moves
<1>3. pc'[p] = "begin" /\ tx'[p] = t /\ comments' = comments
  BY <1>2 DEF Moves, IInv, TypeOK
<1>4. RequestInv(p)'
  <2> HIDE DEF t
  <2>1. OpInv(p)' /\ LockInv(p)'
    BY <1>1, <1>2, <1>3, HashAssumption DEF RequestInv, OpInv, LockInv,
                                            TargetInv, Locked, Moderations,
                                            Moves, Desired, Tx, IInv, TypeOK,
                                            Moderate
  <2>2. TargetInv(p)' /\ DecidedInv(p)'
    BY <1>1, <1>3 DEF RequestInv, OpInv, TargetInv, DecidedInv, Locked,
                      Writing, Moderations, Desired, IInv, Moderate
  <2>3. RoomInv(p)'
    BY <1>1, <1>3, SameCount DEF RequestInv, OpInv, RoomInv, Writing,
                                 Moderations, IInv, Moderate
  <2>4. FreshInv(p)'
    BY <1>1, <1>2, <1>3, BoundsAssumption DEF RequestInv, OpInv, FreshInv,
                                              Inserted, Moderations, IdsDrawn,
                                              CommentIds, Moves, IInv, TypeOK,
                                              Moderate
  <2> QED BY <2>1, <2>2, <2>3, <2>4 DEF RequestInv
<1>5. Inserted(p)' => t.id > seq \/ (Inserted(p) /\ t.id = tx[p].id)
  BY <1>1, <1>3, BoundsAssumption DEF Inserted, IInv, TypeOK, RequestInv,
                                      OpInv, Moderations, Moderate
<1> QED BY <1>1, <1>2, <1>4, <1>5, MoveKeeps

(* A transaction begins. *)
LEMMA Begins ==
  ASSUME IInv, NEW p \in Requests, Begin(p)
  PROVE  IInv'
<1> DEFINE t == tx[p]
<1>1. t \in Tx /\ (IF tx[p].op = "create" THEN "lock" ELSE "find") \in Statements
  BY BoundsAssumption DEF Tx, NullTx, Asks, CommentStatus, CommentIds,
                          Moderations, Statements, Connected, Orphaned, IInv,
                          TypeOK, Begin
<1>2. Moves(p, (IF tx[p].op = "create" THEN "lock" ELSE "find"), t)
  <2>1. pc' = [pc EXCEPT ![p] = (IF tx[p].op = "create" THEN "lock" ELSE "find")] /\ tx' = [tx EXCEPT ![p] = t]
    BY <1>1 DEF IInv, TypeOK, Goto, Begin
  <2>2. /\ UNCHANGED <<content, writer, comments, audit>>
        /\ outcome' \in [Requests -> Outcomes]
        /\ seq' \in 0..MaxComments /\ seq <= seq'
        /\ sharers' \in [Slugs -> SUBSET Requests]
    BY BoundsAssumption DEF IInv, TypeOK, RegistryTypeOK, registryVars,
                            boardVars, Outcomes, Begin
  <2>3. /\ advisory' \in [LockKeys -> Requests \cup {NoRequest}]
        /\ rowLock' \in [CommentIds -> Requests \cup {NoRequest}]
        /\ \A q \in Requests, k \in LockKeys :
             q # p /\ advisory[k] = q => advisory'[k] = q
    BY HashAssumption, NullAssumption DEF IInv, TypeOK, Begin
  <2> QED BY <2>1, <2>2, <2>3 DEF Moves
<1>3. pc'[p] = (IF tx[p].op = "create" THEN "lock" ELSE "find") /\ tx'[p] = t /\ comments' = comments
  BY <1>2 DEF Moves, IInv, TypeOK
<1>4. RequestInv(p)'
  <2> HIDE DEF t
  <2>1. OpInv(p)' /\ LockInv(p)'
    BY <1>1, <1>2, <1>3, HashAssumption DEF RequestInv, OpInv, LockInv,
                                            TargetInv, Locked, Moderations,
                                            Moves, Desired, Tx, IInv, TypeOK,
                                            Begin
  <2>2. TargetInv(p)' /\ DecidedInv(p)'
    BY <1>1, <1>3 DEF RequestInv, OpInv, TargetInv, DecidedInv, Locked,
                      Writing, Moderations, Desired, IInv, Begin
  <2>3. RoomInv(p)'
    BY <1>1, <1>3, SameCount DEF RequestInv, OpInv, RoomInv, Writing,
                                 Moderations, IInv, Begin
  <2>4. FreshInv(p)'
    BY <1>1, <1>2, <1>3, BoundsAssumption DEF RequestInv, OpInv, FreshInv,
                                              Inserted, Moderations, IdsDrawn,
                                              CommentIds, Moves, IInv, TypeOK,
                                              Begin
  <2> QED BY <2>1, <2>2, <2>3, <2>4 DEF RequestInv
<1>5. Inserted(p)' => t.id > seq \/ (Inserted(p) /\ t.id = tx[p].id)
  BY <1>1, <1>3, BoundsAssumption DEF Inserted, IInv, TypeOK, RequestInv,
                                      OpInv, Moderations, Begin
<1> QED BY <1>1, <1>2, <1>4, <1>5, MoveKeeps

(* A moderation finds its post. *)
LEMMA Finds ==
  ASSUME IInv, NEW p \in Requests, Find(p)
  PROVE  IInv'
<1>1. CASE \E code \in Outcomes : Refuse(p, code)
  BY <1>1, Returns
<1>2. CASE /\ pc[p] = "find" /\ comments[tx[p].id] # NoComment
            /\ tx' = [tx EXCEPT ![p].slug = comments[tx[p].id].slug]
            /\ Goto(p, "lock")
            /\ UNCHANGED <<registryVars, boardVars, seq, advisory, rowLock, outcome>>
  <2> DEFINE t == [tx[p] EXCEPT !.slug = comments[tx[p].id].slug]
  <2>1. t \in Tx /\ "lock" \in Statements
        /\ t.op = tx[p].op /\ t.id = tx[p].id /\ t.slug = comments[tx[p].id].slug /\ t.slug \in Slugs
    <3>1. tx[p] \in Tx /\ comments[tx[p].id] \in Comment
      BY <1>2 DEF IInv, TypeOK, RequestInv, OpInv
    <3> QED BY <3>1 DEF Tx, Comment, Statements, Connected
  <2>2. Moves(p, "lock", t)
    <3>1. pc' = [pc EXCEPT ![p] = "lock"] /\ tx' = [tx EXCEPT ![p] = t]
      BY <1>2, <2>1 DEF IInv, TypeOK, Goto
    <3>2. /\ UNCHANGED <<content, writer, comments, audit>>
          /\ outcome' \in [Requests -> Outcomes]
          /\ seq' \in 0..MaxComments /\ seq <= seq'
          /\ sharers' \in [Slugs -> SUBSET Requests]
      BY <1>2, BoundsAssumption DEF IInv, TypeOK, RegistryTypeOK,
                                    registryVars, boardVars, Outcomes
    <3>3. /\ advisory' \in [LockKeys -> Requests \cup {NoRequest}]
          /\ rowLock' \in [CommentIds -> Requests \cup {NoRequest}]
          /\ \A q \in Requests, k \in LockKeys :
               q # p /\ advisory[k] = q => advisory'[k] = q
      BY <1>2, HashAssumption, NullAssumption DEF IInv, TypeOK
    <3> QED BY <3>1, <3>2, <3>3 DEF Moves
  <2>3. pc'[p] = "lock" /\ tx'[p] = t /\ comments' = comments
    BY <2>2 DEF Moves, IInv, TypeOK
  <2>4. RequestInv(p)'
    <3> HIDE DEF t
    <3>1. OpInv(p)' /\ LockInv(p)'
      BY <1>2, <2>1, <2>2, <2>3, HashAssumption DEF RequestInv, OpInv,
                                                    LockInv, TargetInv,
                                                    Locked, Moderations,
                                                    Moves, Desired, Tx, IInv,
                                                    TypeOK
    <3>2. TargetInv(p)' /\ DecidedInv(p)'
      BY <1>2, <2>1, <2>3 DEF RequestInv, OpInv, TargetInv, DecidedInv,
                              Locked, Writing, Moderations, Desired, IInv
    <3>3. RoomInv(p)'
      BY <1>2, <2>1, <2>3, SameCount DEF RequestInv, OpInv, RoomInv, Writing,
                                         Moderations, IInv
    <3>4. FreshInv(p)'
      BY <1>2, <2>1, <2>2, <2>3, BoundsAssumption DEF RequestInv, OpInv,
                                                      FreshInv, Inserted,
                                                      Moderations, IdsDrawn,
                                                      CommentIds, Moves, IInv,
                                                      TypeOK
    <3> QED BY <3>1, <3>2, <3>3, <3>4 DEF RequestInv
  <2>5. Inserted(p)' => t.id > seq \/ (Inserted(p) /\ t.id = tx[p].id)
    BY <1>2, <2>1, <2>3, BoundsAssumption DEF Inserted, IInv, TypeOK,
                                              RequestInv, OpInv, Moderations
  <2> QED BY <2>1, <2>2, <2>4, <2>5, MoveKeeps
<1> QED BY <1>1, <1>2 DEF Find, Outcomes

(* A transaction takes the lock of its post. *)
LEMMA Locks ==
  ASSUME IInv, NEW p \in Requests, Lock(p)
  PROVE  IInv'
<1> DEFINE t == tx[p]
<1>1. t \in Tx /\ (IF tx[p].op = "create" THEN "policy" ELSE "reread") \in Statements
  BY BoundsAssumption DEF Tx, NullTx, Asks, CommentStatus, CommentIds,
                          Moderations, Statements, Connected, Orphaned, IInv,
                          TypeOK, Lock
<1>2. Moves(p, (IF tx[p].op = "create" THEN "policy" ELSE "reread"), t)
  <2>1. pc' = [pc EXCEPT ![p] = (IF tx[p].op = "create" THEN "policy" ELSE "reread")] /\ tx' = [tx EXCEPT ![p] = t]
    BY <1>1 DEF IInv, TypeOK, Goto, Lock
  <2>2. /\ UNCHANGED <<content, writer, comments, audit>>
        /\ outcome' \in [Requests -> Outcomes]
        /\ seq' \in 0..MaxComments /\ seq <= seq'
        /\ sharers' \in [Slugs -> SUBSET Requests]
    BY BoundsAssumption DEF IInv, TypeOK, RegistryTypeOK, registryVars,
                            boardVars, Outcomes, Lock
  <2>3. /\ advisory' \in [LockKeys -> Requests \cup {NoRequest}]
        /\ rowLock' \in [CommentIds -> Requests \cup {NoRequest}]
        /\ \A q \in Requests, k \in LockKeys :
             q # p /\ advisory[k] = q => advisory'[k] = q
    BY HashAssumption, NullAssumption DEF IInv, TypeOK, Lock
  <2> QED BY <2>1, <2>2, <2>3 DEF Moves
<1>3. pc'[p] = (IF tx[p].op = "create" THEN "policy" ELSE "reread") /\ tx'[p] = t /\ comments' = comments
  BY <1>2 DEF Moves, IInv, TypeOK
<1>4. RequestInv(p)'
  <2> HIDE DEF t
  <2>1. OpInv(p)' /\ LockInv(p)'
    BY <1>1, <1>2, <1>3, HashAssumption DEF RequestInv, OpInv, LockInv,
                                            TargetInv, Locked, Moderations,
                                            Moves, Desired, Tx, IInv, TypeOK,
                                            Lock
  <2>2. TargetInv(p)' /\ DecidedInv(p)'
    BY <1>1, <1>3 DEF RequestInv, OpInv, TargetInv, DecidedInv, Locked,
                      Writing, Moderations, Desired, IInv, Lock
  <2>3. RoomInv(p)'
    BY <1>1, <1>3, SameCount DEF RequestInv, OpInv, RoomInv, Writing,
                                 Moderations, IInv, Lock
  <2>4. FreshInv(p)'
    BY <1>1, <1>2, <1>3, BoundsAssumption DEF RequestInv, OpInv, FreshInv,
                                              Inserted, Moderations, IdsDrawn,
                                              CommentIds, Moves, IInv, TypeOK,
                                              Lock
  <2> QED BY <2>1, <2>2, <2>3, <2>4 DEF RequestInv
<1>5. Inserted(p)' => t.id > seq \/ (Inserted(p) /\ t.id = tx[p].id)
  BY <1>1, <1>3, BoundsAssumption DEF Inserted, IInv, TypeOK, RequestInv,
                                      OpInv, Moderations, Lock
<1> QED BY <1>1, <1>2, <1>4, <1>5, MoveKeeps

(* The policy is read under the row lock. *)
LEMMA Policies ==
  ASSUME IInv, NEW p \in Requests, Policy(p)
  PROVE  IInv'
<1>1. CASE \E code \in Outcomes : Refuse(p, code)
  BY <1>1, Returns
<1>2. CASE /\ pc[p] = "policy" /\ ShareRow(p, tx[p].slug) /\ Goto(p, "count")
            /\ UNCHANGED <<content, writer, boardVars, seq, advisory, rowLock, tx, outcome>>
  <2> DEFINE t == tx[p]
  <2>1. t \in Tx /\ "count" \in Statements
    BY <1>2, BoundsAssumption DEF Tx, NullTx, Asks, CommentStatus, CommentIds,
                                  Moderations, Statements, Connected,
                                  Orphaned, IInv, TypeOK, ShareRow
  <2>2. Moves(p, "count", t)
    <3>1. pc' = [pc EXCEPT ![p] = "count"] /\ tx' = [tx EXCEPT ![p] = t]
      BY <1>2, <2>1 DEF IInv, TypeOK, Goto, ShareRow
    <3>2. /\ UNCHANGED <<content, writer, comments, audit>>
          /\ outcome' \in [Requests -> Outcomes]
          /\ seq' \in 0..MaxComments /\ seq <= seq'
          /\ sharers' \in [Slugs -> SUBSET Requests]
      <4>1. sharers \in [Slugs -> SUBSET Requests] /\ outcome \in [Requests -> Outcomes]
            /\ seq \in 0..MaxComments
        BY DEF IInv, TypeOK, RegistryTypeOK
      <4>2. sharers' \in [Slugs -> SUBSET Requests]
        BY <1>2, <4>1 DEF ShareRow
      <4> QED BY <1>2, <4>1, <4>2, BoundsAssumption DEF boardVars
    <3>3. /\ advisory' \in [LockKeys -> Requests \cup {NoRequest}]
          /\ rowLock' \in [CommentIds -> Requests \cup {NoRequest}]
          /\ \A q \in Requests, k \in LockKeys :
               q # p /\ advisory[k] = q => advisory'[k] = q
      BY <1>2, HashAssumption, NullAssumption DEF IInv, TypeOK, ShareRow
    <3> QED BY <3>1, <3>2, <3>3 DEF Moves
  <2>3. pc'[p] = "count" /\ tx'[p] = t /\ comments' = comments
    BY <2>2 DEF Moves, IInv, TypeOK
  <2>4. RequestInv(p)'
    <3> HIDE DEF t
    <3>1. OpInv(p)' /\ LockInv(p)'
      BY <1>2, <2>1, <2>2, <2>3, HashAssumption DEF RequestInv, OpInv,
                                                    LockInv, TargetInv,
                                                    Locked, Moderations,
                                                    Moves, Desired, Tx, IInv,
                                                    TypeOK, ShareRow
    <3>2. TargetInv(p)' /\ DecidedInv(p)'
      BY <1>2, <2>1, <2>3 DEF RequestInv, OpInv, TargetInv, DecidedInv,
                              Locked, Writing, Moderations, Desired, IInv,
                              ShareRow
    <3>3. RoomInv(p)'
      BY <1>2, <2>1, <2>3, SameCount DEF RequestInv, OpInv, RoomInv, Writing,
                                         Moderations, IInv, ShareRow
    <3>4. FreshInv(p)'
      BY <1>2, <2>1, <2>2, <2>3, BoundsAssumption DEF RequestInv, OpInv,
                                                      FreshInv, Inserted,
                                                      Moderations, IdsDrawn,
                                                      CommentIds, Moves, IInv,
                                                      TypeOK, ShareRow
    <3> QED BY <3>1, <3>2, <3>3, <3>4 DEF RequestInv
  <2>5. Inserted(p)' => t.id > seq \/ (Inserted(p) /\ t.id = tx[p].id)
    BY <1>2, <2>1, <2>3, BoundsAssumption DEF Inserted, IInv, TypeOK,
                                              RequestInv, OpInv, Moderations,
                                              ShareRow
  <2> QED BY <2>1, <2>2, <2>4, <2>5, MoveKeeps
<1> QED BY <1>1, <1>2 DEF Policy, Outcomes

(* Room is found, and cannot be lost while the lock is held. *)
LEMMA Counts ==
  ASSUME IInv, NEW p \in Requests, Count(p)
  PROVE  IInv'
<1>1. CASE \E code \in Outcomes : Refuse(p, code)
  BY <1>1, Returns
<1>2. CASE /\ pc[p] = "count" /\ VisibleCount(tx[p].slug) < MaxVisible
            /\ Goto(p, IF tx[p].op = "create" THEN "insert" ELSE "update")
            /\ UNCHANGED <<registryVars, boardVars, seq, advisory, rowLock, tx, outcome>>
  <2> DEFINE t == tx[p]
  <2>1. t \in Tx /\ (IF tx[p].op = "create" THEN "insert" ELSE "update") \in Statements
    BY <1>2, BoundsAssumption DEF Tx, NullTx, Asks, CommentStatus, CommentIds,
                                  Moderations, Statements, Connected,
                                  Orphaned, IInv, TypeOK
  <2>2. Moves(p, (IF tx[p].op = "create" THEN "insert" ELSE "update"), t)
    <3>1. pc' = [pc EXCEPT ![p] = (IF tx[p].op = "create" THEN "insert" ELSE "update")] /\ tx' = [tx EXCEPT ![p] = t]
      BY <1>2, <2>1 DEF IInv, TypeOK, Goto
    <3>2. /\ UNCHANGED <<content, writer, comments, audit>>
          /\ outcome' \in [Requests -> Outcomes]
          /\ seq' \in 0..MaxComments /\ seq <= seq'
          /\ sharers' \in [Slugs -> SUBSET Requests]
      BY <1>2, BoundsAssumption DEF IInv, TypeOK, RegistryTypeOK,
                                    registryVars, boardVars, Outcomes
    <3>3. /\ advisory' \in [LockKeys -> Requests \cup {NoRequest}]
          /\ rowLock' \in [CommentIds -> Requests \cup {NoRequest}]
          /\ \A q \in Requests, k \in LockKeys :
               q # p /\ advisory[k] = q => advisory'[k] = q
      BY <1>2, HashAssumption, NullAssumption DEF IInv, TypeOK
    <3> QED BY <3>1, <3>2, <3>3 DEF Moves
  <2>3. pc'[p] = (IF tx[p].op = "create" THEN "insert" ELSE "update") /\ tx'[p] = t /\ comments' = comments
    BY <2>2 DEF Moves, IInv, TypeOK
  <2>4. RequestInv(p)'
    <3> HIDE DEF t
    <3>1. OpInv(p)' /\ LockInv(p)'
      BY <1>2, <2>1, <2>2, <2>3, HashAssumption DEF RequestInv, OpInv,
                                                    LockInv, TargetInv,
                                                    Locked, Moderations,
                                                    Moves, Desired, Tx, IInv,
                                                    TypeOK
    <3>2. TargetInv(p)' /\ DecidedInv(p)'
      BY <1>2, <2>1, <2>3 DEF RequestInv, OpInv, TargetInv, DecidedInv,
                              Locked, Writing, Moderations, Desired, IInv
    <3>3. RoomInv(p)'
      BY <1>2, <2>1, <2>3, SameCount DEF RequestInv, OpInv, RoomInv, Writing,
                                         Moderations, IInv
    <3>4. FreshInv(p)'
      BY <1>2, <2>1, <2>2, <2>3, BoundsAssumption DEF RequestInv, OpInv,
                                                      FreshInv, Inserted,
                                                      Moderations, IdsDrawn,
                                                      CommentIds, Moves, IInv,
                                                      TypeOK
    <3> QED BY <3>1, <3>2, <3>3, <3>4 DEF RequestInv
  <2>5. Inserted(p)' => t.id > seq \/ (Inserted(p) /\ t.id = tx[p].id)
    BY <1>2, <2>1, <2>3, BoundsAssumption DEF Inserted, IInv, TypeOK,
                                              RequestInv, OpInv, Moderations
  <2> QED BY <2>1, <2>2, <2>4, <2>5, MoveKeeps
<1> QED BY <1>1, <1>2 DEF Count, Outcomes

(* The id of a new comment is above every id there is. *)
LEMMA Inserts ==
  ASSUME IInv, NEW p \in Requests, Insert(p)
  PROVE  IInv'
<1>1. CASE \E code \in Outcomes : Refuse(p, code)
  BY <1>1, Returns
<1>2. CASE /\ pc[p] = "insert" /\ seq < MaxComments
            /\ seq' = seq + 1
            /\ tx' = [tx EXCEPT ![p].id = seq + 1]
            /\ Goto(p, "commit")
            /\ UNCHANGED <<registryVars, boardVars, advisory, rowLock, outcome>>
  <2> DEFINE t == [tx[p] EXCEPT !.id = seq + 1]
  <2>1. t \in Tx /\ "commit" \in Statements
        /\ t.op = tx[p].op /\ t.slug = tx[p].slug /\ t.id = seq + 1
    <3>1. tx[p] \in Tx /\ seq + 1 \in 0..MaxComments
      BY <1>2, BoundsAssumption DEF IInv, TypeOK
    <3> QED BY <3>1 DEF Tx, Statements, Connected
  <2>2. Moves(p, "commit", t)
    <3>1. pc' = [pc EXCEPT ![p] = "commit"] /\ tx' = [tx EXCEPT ![p] = t]
      BY <1>2, <2>1 DEF IInv, TypeOK, Goto
    <3>2. /\ UNCHANGED <<content, writer, comments, audit>>
          /\ outcome' \in [Requests -> Outcomes]
          /\ seq' \in 0..MaxComments /\ seq <= seq'
          /\ sharers' \in [Slugs -> SUBSET Requests]
      BY <1>2, BoundsAssumption DEF IInv, TypeOK, RegistryTypeOK,
                                    registryVars, boardVars, Outcomes
    <3>3. /\ advisory' \in [LockKeys -> Requests \cup {NoRequest}]
          /\ rowLock' \in [CommentIds -> Requests \cup {NoRequest}]
          /\ \A q \in Requests, k \in LockKeys :
               q # p /\ advisory[k] = q => advisory'[k] = q
      BY <1>2, HashAssumption, NullAssumption DEF IInv, TypeOK
    <3> QED BY <3>1, <3>2, <3>3 DEF Moves
  <2>3. pc'[p] = "commit" /\ tx'[p] = t /\ comments' = comments
    BY <2>2 DEF Moves, IInv, TypeOK
  <2>4. RequestInv(p)'
    <3> HIDE DEF t
    <3>1. OpInv(p)' /\ LockInv(p)'
      BY <1>2, <2>1, <2>2, <2>3, HashAssumption DEF RequestInv, OpInv,
                                                    LockInv, TargetInv,
                                                    Locked, Moderations,
                                                    Moves, Desired, Tx, IInv,
                                                    TypeOK
    <3>2. TargetInv(p)' /\ DecidedInv(p)'
      BY <1>2, <2>1, <2>3 DEF RequestInv, OpInv, TargetInv, DecidedInv,
                              Locked, Writing, Moderations, Desired, IInv
    <3>3. RoomInv(p)'
      BY <1>2, <2>1, <2>3, SameCount DEF RequestInv, OpInv, RoomInv, Writing,
                                         Moderations, IInv
    <3>4. FreshInv(p)'
      BY <1>2, <2>1, <2>2, <2>3, BoundsAssumption DEF RequestInv, OpInv,
                                                      FreshInv, Inserted,
                                                      Moderations, IdsDrawn,
                                                      CommentIds, Moves, IInv,
                                                      TypeOK
    <3> QED BY <3>1, <3>2, <3>3, <3>4 DEF RequestInv
  <2>5. Inserted(p)' => t.id > seq \/ (Inserted(p) /\ t.id = tx[p].id)
    BY <1>2, <2>1, <2>3, BoundsAssumption DEF Inserted, IInv, TypeOK,
                                              RequestInv, OpInv, Moderations
  <2> QED BY <2>1, <2>2, <2>4, <2>5, MoveKeeps
<1> QED BY <1>1, <1>2 DEF Insert, Outcomes

(* A moderation reads the state it decides on. *)
LEMMA Rereads ==
  ASSUME IInv, NEW p \in Requests, Reread(p)
  PROVE  IInv'
<1> DEFINE t == [tx[p] EXCEPT !.current = comments[tx[p].id].status]
<1>1. t \in Tx /\ (IF comments[tx[p].id].status = Desired(p) THEN "commitRead"
               ELSE IF Desired(p) = "visible" THEN "count" ELSE "update") \in Statements
      /\ t.op = tx[p].op /\ t.slug = tx[p].slug /\ t.id = tx[p].id
      /\ t.current = comments[tx[p].id].status
  <2>1. tx[p] \in Tx /\ tx[p].op \in Moderations /\ comments[tx[p].id].status \in CommentStatus
    BY DEF IInv, TypeOK, Reread, RequestInv, OpInv, TargetInv, Locked, Comment
  <2> QED BY <2>1 DEF Tx, Statements, Connected
<1>2. Moves(p, (IF comments[tx[p].id].status = Desired(p) THEN "commitRead"
               ELSE IF Desired(p) = "visible" THEN "count" ELSE "update"), t)
  <2>1. pc' = [pc EXCEPT ![p] = (IF comments[tx[p].id].status = Desired(p) THEN "commitRead"
               ELSE IF Desired(p) = "visible" THEN "count" ELSE "update")] /\ tx' = [tx EXCEPT ![p] = t]
    BY <1>1 DEF IInv, TypeOK, Goto, Reread
  <2>2. /\ UNCHANGED <<content, writer, comments, audit>>
        /\ outcome' \in [Requests -> Outcomes]
        /\ seq' \in 0..MaxComments /\ seq <= seq'
        /\ sharers' \in [Slugs -> SUBSET Requests]
    BY BoundsAssumption DEF IInv, TypeOK, RegistryTypeOK, registryVars,
                            boardVars, Outcomes, Reread
  <2>3. /\ advisory' \in [LockKeys -> Requests \cup {NoRequest}]
        /\ rowLock' \in [CommentIds -> Requests \cup {NoRequest}]
        /\ \A q \in Requests, k \in LockKeys :
             q # p /\ advisory[k] = q => advisory'[k] = q
    BY HashAssumption, NullAssumption DEF IInv, TypeOK, Reread
  <2> QED BY <2>1, <2>2, <2>3 DEF Moves
<1>3. pc'[p] = (IF comments[tx[p].id].status = Desired(p) THEN "commitRead"
               ELSE IF Desired(p) = "visible" THEN "count" ELSE "update") /\ tx'[p] = t /\ comments' = comments
  BY <1>2 DEF Moves, IInv, TypeOK
<1>4. RequestInv(p)'
  <2> HIDE DEF t
  <2>1. OpInv(p)' /\ LockInv(p)'
    BY <1>1, <1>2, <1>3, HashAssumption DEF RequestInv, OpInv, LockInv,
                                            TargetInv, Locked, Moderations,
                                            Moves, Desired, Tx, IInv, TypeOK,
                                            Reread
  <2>2. TargetInv(p)' /\ DecidedInv(p)'
    BY <1>1, <1>3 DEF RequestInv, OpInv, TargetInv, DecidedInv, Locked,
                      Writing, Moderations, Desired, IInv, Reread
  <2>3. RoomInv(p)'
    <3>1. tx[p].op \in Moderations
      BY DEF IInv, RequestInv, OpInv, Reread
    <3>2. pc'[p] \in Writing => tx[p].op = "hide"
      BY <1>3, <3>1 DEF Writing, Moderations, Desired
    <3> QED BY <1>1, <1>3, <3>2 DEF RoomInv
  <2>4. FreshInv(p)'
    BY <1>1, <1>2, <1>3, BoundsAssumption DEF RequestInv, OpInv, FreshInv,
                                              Inserted, Moderations, IdsDrawn,
                                              CommentIds, Moves, IInv, TypeOK,
                                              Reread
  <2> QED BY <2>1, <2>2, <2>3, <2>4 DEF RequestInv
<1>5. Inserted(p)' => t.id > seq \/ (Inserted(p) /\ t.id = tx[p].id)
  BY <1>1, <1>3, BoundsAssumption DEF Inserted, IInv, TypeOK, RequestInv,
                                      OpInv, Moderations, Reread
<1> QED BY <1>1, <1>2, <1>4, <1>5, MoveKeeps

(* The uncommitted update. *)
LEMMA Updates ==
  ASSUME IInv, NEW p \in Requests, Update(p)
  PROVE  IInv'
<1> DEFINE t == tx[p]
<1>1. t \in Tx /\ "audit" \in Statements
  BY BoundsAssumption DEF Tx, NullTx, Asks, CommentStatus, CommentIds,
                          Moderations, Statements, Connected, Orphaned, IInv,
                          TypeOK, Update
<1>2. Moves(p, "audit", t)
  <2>1. pc' = [pc EXCEPT ![p] = "audit"] /\ tx' = [tx EXCEPT ![p] = t]
    BY <1>1 DEF IInv, TypeOK, Goto, Update
  <2>2. /\ UNCHANGED <<content, writer, comments, audit>>
        /\ outcome' \in [Requests -> Outcomes]
        /\ seq' \in 0..MaxComments /\ seq <= seq'
        /\ sharers' \in [Slugs -> SUBSET Requests]
    BY BoundsAssumption DEF IInv, TypeOK, RegistryTypeOK, registryVars,
                            boardVars, Outcomes, Update
  <2>3. /\ advisory' \in [LockKeys -> Requests \cup {NoRequest}]
        /\ rowLock' \in [CommentIds -> Requests \cup {NoRequest}]
        /\ \A q \in Requests, k \in LockKeys :
             q # p /\ advisory[k] = q => advisory'[k] = q
    BY HashAssumption, NullAssumption DEF IInv, TypeOK, Update
  <2> QED BY <2>1, <2>2, <2>3 DEF Moves
<1>3. pc'[p] = "audit" /\ tx'[p] = t /\ comments' = comments
  BY <1>2 DEF Moves, IInv, TypeOK
<1>4. RequestInv(p)'
  <2> HIDE DEF t
  <2>1. OpInv(p)' /\ LockInv(p)'
    BY <1>1, <1>2, <1>3, HashAssumption DEF RequestInv, OpInv, LockInv,
                                            TargetInv, Locked, Moderations,
                                            Moves, Desired, Tx, IInv, TypeOK,
                                            Update
  <2>2. TargetInv(p)' /\ DecidedInv(p)'
    BY <1>1, <1>3 DEF RequestInv, OpInv, TargetInv, DecidedInv, Locked,
                      Writing, Moderations, Desired, IInv, Update
  <2>3. RoomInv(p)'
    BY <1>1, <1>3, SameCount DEF RequestInv, OpInv, RoomInv, Writing,
                                 Moderations, IInv, Update
  <2>4. FreshInv(p)'
    BY <1>1, <1>2, <1>3, BoundsAssumption DEF RequestInv, OpInv, FreshInv,
                                              Inserted, Moderations, IdsDrawn,
                                              CommentIds, Moves, IInv, TypeOK,
                                              Update
  <2> QED BY <2>1, <2>2, <2>3, <2>4 DEF RequestInv
<1>5. Inserted(p)' => t.id > seq \/ (Inserted(p) /\ t.id = tx[p].id)
  BY <1>1, <1>3, BoundsAssumption DEF Inserted, IInv, TypeOK, RequestInv,
                                      OpInv, Moderations, Update
<1> QED BY <1>1, <1>2, <1>4, <1>5, MoveKeeps

(* The uncommitted audit event. *)
LEMMA Audits ==
  ASSUME IInv, NEW p \in Requests, Audit(p)
  PROVE  IInv'
<1> DEFINE t == tx[p]
<1>1. t \in Tx /\ "commit" \in Statements
  BY BoundsAssumption DEF Tx, NullTx, Asks, CommentStatus, CommentIds,
                          Moderations, Statements, Connected, Orphaned, IInv,
                          TypeOK, Audit
<1>2. Moves(p, "commit", t)
  <2>1. pc' = [pc EXCEPT ![p] = "commit"] /\ tx' = [tx EXCEPT ![p] = t]
    BY <1>1 DEF IInv, TypeOK, Goto, Audit
  <2>2. /\ UNCHANGED <<content, writer, comments, audit>>
        /\ outcome' \in [Requests -> Outcomes]
        /\ seq' \in 0..MaxComments /\ seq <= seq'
        /\ sharers' \in [Slugs -> SUBSET Requests]
    BY BoundsAssumption DEF IInv, TypeOK, RegistryTypeOK, registryVars,
                            boardVars, Outcomes, Audit
  <2>3. /\ advisory' \in [LockKeys -> Requests \cup {NoRequest}]
        /\ rowLock' \in [CommentIds -> Requests \cup {NoRequest}]
        /\ \A q \in Requests, k \in LockKeys :
             q # p /\ advisory[k] = q => advisory'[k] = q
    BY HashAssumption, NullAssumption DEF IInv, TypeOK, Audit
  <2> QED BY <2>1, <2>2, <2>3 DEF Moves
<1>3. pc'[p] = "commit" /\ tx'[p] = t /\ comments' = comments
  BY <1>2 DEF Moves, IInv, TypeOK
<1>4. RequestInv(p)'
  <2> HIDE DEF t
  <2>1. OpInv(p)' /\ LockInv(p)'
    BY <1>1, <1>2, <1>3, HashAssumption DEF RequestInv, OpInv, LockInv,
                                            TargetInv, Locked, Moderations,
                                            Moves, Desired, Tx, IInv, TypeOK,
                                            Audit
  <2>2. TargetInv(p)' /\ DecidedInv(p)'
    BY <1>1, <1>3 DEF RequestInv, OpInv, TargetInv, DecidedInv, Locked,
                      Writing, Moderations, Desired, IInv, Audit
  <2>3. RoomInv(p)'
    BY <1>1, <1>3, SameCount DEF RequestInv, OpInv, RoomInv, Writing,
                                 Moderations, IInv, Audit
  <2>4. FreshInv(p)'
    BY <1>1, <1>2, <1>3, BoundsAssumption DEF RequestInv, OpInv, FreshInv,
                                              Inserted, Moderations, IdsDrawn,
                                              CommentIds, Moves, IInv, TypeOK,
                                              Audit
  <2> QED BY <2>1, <2>2, <2>3, <2>4 DEF RequestInv
<1>5. Inserted(p)' => t.id > seq \/ (Inserted(p) /\ t.id = tx[p].id)
  BY <1>1, <1>3, BoundsAssumption DEF Inserted, IInv, TypeOK, RequestInv,
                                      OpInv, Moderations, Audit
<1> QED BY <1>1, <1>2, <1>4, <1>5, MoveKeeps

(* The client is gone, the transaction is not. *)
LEMMA Abandons ==
  ASSUME IInv, NEW p \in Requests, Abandon(p)
  PROVE  IInv'
<1>1. CASE pc[p] \in {"check", "begin"} /\ Goto(p, "idle") /\ tx' = [tx EXCEPT ![p] = NullTx]
  <2> DEFINE t == NullTx
  <2>1. t \in Tx /\ "idle" \in Statements
    BY <1>1, BoundsAssumption DEF Tx, NullTx, Asks, CommentStatus, CommentIds,
                                  Moderations, Statements, Connected,
                                  Orphaned, IInv, TypeOK, Abandon
  <2>2. Moves(p, "idle", t)
    <3>1. pc' = [pc EXCEPT ![p] = "idle"] /\ tx' = [tx EXCEPT ![p] = t]
      BY <1>1, <2>1 DEF IInv, TypeOK, Goto, Abandon
    <3>2. /\ UNCHANGED <<content, writer, comments, audit>>
          /\ outcome' \in [Requests -> Outcomes]
          /\ seq' \in 0..MaxComments /\ seq <= seq'
          /\ sharers' \in [Slugs -> SUBSET Requests]
      BY <1>1, BoundsAssumption DEF IInv, TypeOK, RegistryTypeOK,
                                    registryVars, boardVars, Outcomes, Abandon
    <3>3. /\ advisory' \in [LockKeys -> Requests \cup {NoRequest}]
          /\ rowLock' \in [CommentIds -> Requests \cup {NoRequest}]
          /\ \A q \in Requests, k \in LockKeys :
               q # p /\ advisory[k] = q => advisory'[k] = q
      BY <1>1, HashAssumption, NullAssumption DEF IInv, TypeOK, Abandon
    <3> QED BY <3>1, <3>2, <3>3 DEF Moves
  <2>3. pc'[p] = "idle" /\ tx'[p] = t /\ comments' = comments
    BY <2>2 DEF Moves, IInv, TypeOK
  <2>4. RequestInv(p)'
    <3> HIDE DEF t
    <3>1. OpInv(p)' /\ LockInv(p)'
      BY <1>1, <2>1, <2>2, <2>3, HashAssumption DEF RequestInv, OpInv,
                                                    LockInv, TargetInv,
                                                    Locked, Moderations,
                                                    Moves, Desired, Tx, IInv,
                                                    TypeOK, Abandon
    <3>2. TargetInv(p)' /\ DecidedInv(p)'
      BY <1>1, <2>1, <2>3 DEF RequestInv, OpInv, TargetInv, DecidedInv,
                              Locked, Writing, Moderations, Desired, IInv,
                              Abandon
    <3>3. RoomInv(p)'
      BY <1>1, <2>1, <2>3, SameCount DEF RequestInv, OpInv, RoomInv, Writing,
                                         Moderations, IInv, Abandon
    <3>4. FreshInv(p)'
      BY <1>1, <2>1, <2>2, <2>3, BoundsAssumption DEF RequestInv, OpInv,
                                                      FreshInv, Inserted,
                                                      Moderations, IdsDrawn,
                                                      CommentIds, Moves, IInv,
                                                      TypeOK, Abandon
    <3> QED BY <3>1, <3>2, <3>3, <3>4 DEF RequestInv
  <2>5. Inserted(p)' => t.id > seq \/ (Inserted(p) /\ t.id = tx[p].id)
    BY <1>1, <2>1, <2>3, BoundsAssumption DEF Inserted, IInv, TypeOK,
                                              RequestInv, OpInv, Moderations,
                                              Abandon
  <2> QED BY <2>1, <2>2, <2>4, <2>5, MoveKeeps
<1>2. CASE /\ pc[p] \in Connected /\ UNCHANGED tx
            /\ Goto(p, IF pc[p] = "commit" THEN "orphanCommit" ELSE "orphan")
  <2> DEFINE t == tx[p]
  <2>1. t \in Tx /\ (IF pc[p] = "commit" THEN "orphanCommit" ELSE "orphan") \in Statements
    BY <1>2, BoundsAssumption DEF Tx, NullTx, Asks, CommentStatus, CommentIds,
                                  Moderations, Statements, Connected,
                                  Orphaned, IInv, TypeOK, Abandon
  <2>2. Moves(p, (IF pc[p] = "commit" THEN "orphanCommit" ELSE "orphan"), t)
    <3>1. pc' = [pc EXCEPT ![p] = (IF pc[p] = "commit" THEN "orphanCommit" ELSE "orphan")] /\ tx' = [tx EXCEPT ![p] = t]
      BY <1>2, <2>1 DEF IInv, TypeOK, Goto, Abandon
    <3>2. /\ UNCHANGED <<content, writer, comments, audit>>
          /\ outcome' \in [Requests -> Outcomes]
          /\ seq' \in 0..MaxComments /\ seq <= seq'
          /\ sharers' \in [Slugs -> SUBSET Requests]
      BY <1>2, BoundsAssumption DEF IInv, TypeOK, RegistryTypeOK,
                                    registryVars, boardVars, Outcomes, Abandon
    <3>3. /\ advisory' \in [LockKeys -> Requests \cup {NoRequest}]
          /\ rowLock' \in [CommentIds -> Requests \cup {NoRequest}]
          /\ \A q \in Requests, k \in LockKeys :
               q # p /\ advisory[k] = q => advisory'[k] = q
      BY <1>2, HashAssumption, NullAssumption DEF IInv, TypeOK, Abandon
    <3> QED BY <3>1, <3>2, <3>3 DEF Moves
  <2>3. pc'[p] = (IF pc[p] = "commit" THEN "orphanCommit" ELSE "orphan") /\ tx'[p] = t /\ comments' = comments
    BY <2>2 DEF Moves, IInv, TypeOK
  <2>4. RequestInv(p)'
    <3> HIDE DEF t
    <3>1. OpInv(p)' /\ LockInv(p)'
      BY <1>2, <2>1, <2>2, <2>3, HashAssumption DEF RequestInv, OpInv,
                                                    LockInv, TargetInv,
                                                    Locked, Moderations,
                                                    Moves, Desired, Tx, IInv,
                                                    TypeOK, Abandon, Connected
    <3>2. TargetInv(p)' /\ DecidedInv(p)'
      BY <1>2, <2>1, <2>3 DEF RequestInv, OpInv, TargetInv, DecidedInv,
                              Locked, Writing, Moderations, Desired, IInv,
                              Abandon, Connected
    <3>3. RoomInv(p)'
      BY <1>2, <2>1, <2>3, SameCount DEF RequestInv, OpInv, RoomInv, Writing,
                                         Moderations, IInv, Abandon, Connected
    <3>4. FreshInv(p)'
      BY <1>2, <2>1, <2>2, <2>3, BoundsAssumption DEF RequestInv, OpInv,
                                                      FreshInv, Inserted,
                                                      Moderations, IdsDrawn,
                                                      CommentIds, Moves, IInv,
                                                      TypeOK, Abandon,
                                                      Connected
    <3> QED BY <3>1, <3>2, <3>3, <3>4 DEF RequestInv
  <2>5. Inserted(p)' => t.id > seq \/ (Inserted(p) /\ t.id = tx[p].id)
    BY <1>2, <2>1, <2>3, BoundsAssumption DEF Inserted, IInv, TypeOK,
                                              RequestInv, OpInv, Moderations,
                                              Abandon
  <2> QED BY <2>1, <2>2, <2>4, <2>5, MoveKeeps
<1> QED BY <1>1, <1>2 DEF Abandon

(* A write takes effect.  It concerns one comment of the post whose lock p *)
(* holds, so what every other request has read under a lock stays true.    *)
LEMMA Applies ==
  ASSUME IInv, NEW p \in Requests, NEW code \in Outcomes,
         pc[p] \in {"commit", "orphanCommit"}, Apply(p), Finish(p, code),
         UNCHANGED <<content, writer, seq>>
  PROVE  IInv'
<1> DEFINE i == tx[p].id
           s == tx[p].slug
           v == [slug |-> s, status |-> Desired(p)]
<1>1. /\ i \in CommentIds /\ s \in Slugs /\ v \in Comment /\ tx[p].op \in Moderations \cup {"create"}
      /\ advisory[Hash[s]] = p
  BY BoundsAssumption
  DEF IInv, TypeOK, RequestInv, OpInv, LockInv, FreshInv, Inserted, Locked, Tx, Moderations,
      CommentIds, Comment, CommentStatus, Desired
<1>2. /\ tx[p].op = "create" => comments[i] = NoComment /\ i <= seq
      /\ tx[p].op # "create" => /\ comments[i] \in Comment /\ comments[i].slug = s
                                /\ comments[i].status = tx[p].current
                                /\ tx[p].current # Desired(p)
  BY <1>1 DEF IInv, TypeOK, RequestInv, TargetInv, DecidedInv, FreshInv, Inserted, Locked,
              Writing, CommentIds
<1>3. comments' = [comments EXCEPT ![i] = v]
  <2>1. CASE tx[p].op = "create"
    BY <2>1 DEF Apply, Desired
  <2>2. CASE tx[p].op # "create"
    BY <1>1, <1>2, <2>2 DEF Apply, IInv, TypeOK, Comment
  <2> QED BY <2>1, <2>2
<1>4. TypeOK'
  <2>1. comments' \in [CommentIds -> Comment \cup {NoComment}]
    BY <1>1, <1>3 DEF IInv, TypeOK
  <2>2. audit' \in [CommentIds -> Seq(Event)]
    <3>1. audit \in [CommentIds -> Seq(Event)] /\ tx[p] \in Tx
      BY DEF IInv, TypeOK
    <3>2. [previous |-> tx[p].current, new |-> Desired(p)] \in Event
      BY <3>1 DEF Tx, Event, Desired, CommentStatus
    <3>3. \A e \in Event : Append(audit[i], e) \in Seq(Event)
      BY <1>1, <3>1
    <3> QED BY <1>1, <3>1, <3>2, <3>3 DEF Apply
  <2>3. /\ pc' \in [Requests -> Statements] /\ tx' \in [Requests -> Tx]
        /\ outcome' \in [Requests -> Outcomes]
    <3>1. NullTx \in Tx /\ "idle" \in Statements
      BY BoundsAssumption DEF Tx, NullTx, Asks, CommentStatus, Statements
    <3>2. /\ pc \in [Requests -> Statements] /\ tx \in [Requests -> Tx]
          /\ outcome \in [Requests -> Outcomes]
      BY DEF IInv, TypeOK, Statements
    <3> QED BY <3>1, <3>2 DEF Finish, Goto
  <2>4. /\ advisory' \in [LockKeys -> Requests \cup {NoRequest}]
        /\ rowLock' \in [CommentIds -> Requests \cup {NoRequest}]
        /\ sharers' \in [Slugs -> SUBSET Requests]
    BY DEF IInv, TypeOK, RegistryTypeOK, Finish, ReleaseLocks
  <2> QED BY <2>1, <2>2, <2>3, <2>4 DEF IInv, TypeOK, RegistryTypeOK, Statements
<1>4a. ASSUME NEW z
       PROVE  /\ VisibleCount(z) \in Nat /\ VisibleCount(z)' \in Nat
              /\ VisibleCount(z)' <= VisibleCount(z) + 1
              /\ v # [slug |-> z, status |-> "visible"] => VisibleCount(z)' <= VisibleCount(z)
  <2>1. comments \in [CommentIds -> Comment \cup {NoComment}]
    BY DEF IInv, TypeOK
  <2> HIDE DEF v, i
  <2> QED BY <1>1, <1>3, <2>1, WriteOne
<1>5. ASSUME NEW q \in Requests, q # p PROVE RequestInv(q)'
  <2>1. pc'[q] = pc[q] /\ tx'[q] = tx[q] /\ RequestInv(q)
    BY <1>5 DEF IInv, TypeOK, Finish, Goto
  <2>2. pc[q] \in Locked => tx[q].slug # s /\ tx[q].slug \in Slugs
    BY <1>1, <1>5, <2>1 DEF RequestInv, LockInv
  <2>3. OpInv(q)'
    BY <2>1 DEF RequestInv, OpInv
  <2>4. LockInv(q)'
    BY <1>5, <2>1, HashAssumption DEF RequestInv, LockInv, IInv, TypeOK, Finish, ReleaseLocks
  <2>5. TargetInv(q)'
    <3> SUFFICES ASSUME pc[q] \in Locked \cup {"lock"}, tx[q].op \in Moderations
                 PROVE  comments'[tx[q].id] # NoComment /\ comments'[tx[q].id].slug = tx[q].slug
      BY <2>1 DEF TargetInv
    <3>1. tx[q].id \in CommentIds /\ comments[tx[q].id] # NoComment
          /\ comments[tx[q].id].slug = tx[q].slug
      BY <2>1 DEF RequestInv, TargetInv, OpInv, Locked
    <3>2. v # NoComment /\ v.slug = s
      BY <1>1, NullAssumption DEF Comment, CommentStatus
    <3>3. tx[q].id = i => tx[q].slug = s
      BY <1>2, <3>1
    <3> HIDE DEF v, i, s
    <3> QED BY <1>3, <3>1, <3>2, <3>3 DEF IInv, TypeOK
  <2>6. DecidedInv(q)'
    BY <1>1, <1>2, <1>3, <2>1, <2>2
    DEF RequestInv, TargetInv, DecidedInv, OpInv, IInv, TypeOK, Comment, Locked, Writing, Desired
  <2>7. RoomInv(q)'
    <3> SUFFICES ASSUME NEW z, z = tx[q].slug, pc[q] \in Writing, tx[q].op # "hide"
                 PROVE  VisibleCount(z)' < MaxVisible
      BY <2>1 DEF RoomInv, VisibleCount, VisibleIds
    <3>1. VisibleCount(z) < MaxVisible /\ z # s
      BY <2>1, <2>2 DEF RequestInv, RoomInv, Locked, Writing
    <3>2. VisibleCount(z)' <= VisibleCount(z)
          /\ VisibleCount(z) \in Nat /\ VisibleCount(z)' \in Nat
      BY <1>4a, <3>1
    <3> QED BY <3>1, <3>2, MaxVisibleAssumption
  <2>8. FreshInv(q)'
    <3> SUFFICES ASSUME Inserted(q) PROVE tx[q].id \in 1..seq /\ comments'[tx[q].id] = NoComment
      BY <2>1 DEF FreshInv, Inserted, Finish
    <3>1. tx[q].id \in 1..seq /\ comments[tx[q].id] = NoComment
      BY <2>1 DEF RequestInv, FreshInv
    <3>2. tx[q].id # i
      BY <1>1, <1>2, <1>5, <3>1, NullAssumption
      DEF IInv, IdsDistinct, Inserted, Comment, CommentStatus
    <3> QED BY <1>3, <3>1, <3>2 DEF IInv, TypeOK, CommentIds
  <2> QED BY <2>3, <2>4, <2>5, <2>6, <2>7, <2>8 DEF RequestInv
<1>6. RequestInv(p)'
  BY DEF IInv, TypeOK, Finish, Goto, RequestInv, OpInv, LockInv, TargetInv, DecidedInv, RoomInv,
         FreshInv, Inserted, Locked, Writing, NullTx, Moderations
<1>7. IdsDrawn' /\ IdsDistinct'
  <2>1. IdsDrawn'
    <3>1. i <= seq
      BY <1>1, <1>2, NullAssumption DEF IInv, IdsDrawn, Comment, CommentStatus
    <3> QED BY <1>3, <3>1 DEF IInv, TypeOK, IdsDrawn
  <2>2. \A q \in Requests : Inserted(q)' => Inserted(q) /\ tx'[q] = tx[q]
    BY DEF IInv, TypeOK, Inserted, Finish, Goto
  <2>3. IdsDistinct'
    BY <2>2 DEF IInv, IdsDistinct
  <2> QED BY <2>1, <2>3
<1>8. VisibleCap'
  <2> SUFFICES ASSUME NEW t \in Slugs PROVE VisibleCount(t)' <= MaxVisible
    BY DEF VisibleCap
  <2>1. /\ VisibleCount(t) \in Nat /\ VisibleCount(t)' \in Nat
        /\ VisibleCount(t)' <= VisibleCount(t) + 1
        /\ v # [slug |-> t, status |-> "visible"] => VisibleCount(t)' <= VisibleCount(t)
    BY <1>4a
  <2>2. VisibleCount(t) <= MaxVisible
    BY DEF IInv, VisibleCap
  <2>3. v = [slug |-> t, status |-> "visible"] => VisibleCount(t) < MaxVisible
    BY DEF IInv, RequestInv, RoomInv, Writing, Desired
  <2> QED BY <2>1, <2>2, <2>3, MaxVisibleAssumption
<1>9. AuditExplainsStatus'
  <2> SUFFICES ASSUME NEW k \in CommentIds
               PROVE (IF comments[k] = NoComment THEN audit[k] = <<>>
                      ELSE /\ \A n \in 1..Len(audit[k]) :
                                /\ audit[k][n].previous = StatusAfter(k, n - 1)
                                /\ audit[k][n].new # audit[k][n].previous
                           /\ comments[k].status = StatusAfter(k, Len(audit[k])))'
    BY DEF AuditExplainsStatus
  <2>1. CASE k # i
    BY <1>1, <1>3, <2>1 DEF Apply, IInv, TypeOK, AuditExplainsStatus, StatusAfter
  <2>2. CASE k = i /\ tx[p].op = "create"
    BY <1>1, <1>2, <1>3, <2>2, NullAssumption
    DEF Apply, IInv, TypeOK, AuditExplainsStatus, StatusAfter, Desired, Comment, CommentStatus
  <2>3. CASE k = i /\ tx[p].op # "create"
    <3>a. audit[k] \in Seq(Event)
      BY DEF IInv, TypeOK
    <3> PICK m \in Nat : m = Len(audit[k])
      BY <3>a
    <3> PICK e : e = [previous |-> tx[p].current, new |-> Desired(p)]
      OBVIOUS
    <3>1. /\ audit[k] \in Seq(Event) /\ audit'[k] = Append(audit[k], e) /\ e \in Event
          /\ comments[k] # NoComment /\ comments'[k] # NoComment
          /\ comments'[k].status = e.new
      BY <1>1, <1>2, <1>3, <2>3, NullAssumption
      DEF Apply, IInv, TypeOK, Comment, CommentStatus, Event, Desired
    <3>2. m \in Nat /\ Len(audit'[k]) = m + 1 /\ audit'[k][m + 1] = e
          /\ \A n \in 1..m : audit'[k][n] = audit[k][n]
      BY <3>1
    <3>3. /\ \A n \in 1..m : /\ audit[k][n].previous = StatusAfter(k, n - 1)
                             /\ audit[k][n].new # audit[k][n].previous
          /\ e.previous = StatusAfter(k, m) /\ e.new # e.previous
      BY <1>1, <1>2, <2>3, <3>1 DEF IInv, AuditExplainsStatus
    <3>4. /\ \A n \in 0..m : StatusAfter(k, n)' = StatusAfter(k, n)
          /\ StatusAfter(k, m + 1)' = e.new
      BY <3>2 DEF StatusAfter
    <3>6. \A n \in 1..(m + 1) : /\ audit'[k][n].previous = StatusAfter(k, n - 1)'
                                /\ audit'[k][n].new # audit'[k][n].previous
      <4> SUFFICES ASSUME NEW n \in 1..(m + 1)
                   PROVE  /\ audit'[k][n].previous = StatusAfter(k, n - 1)'
                          /\ audit'[k][n].new # audit'[k][n].previous
        OBVIOUS
      <4>1. CASE n = m + 1
        BY <3>2, <3>3, <3>4, <4>1
      <4>2. CASE n \in 1..m
        BY <3>2, <3>3, <3>4, <4>2
      <4> QED BY <3>2, <4>1, <4>2
    <3> QED BY <2>3, <3>1, <3>2, <3>4, <3>6
  <2> QED BY <2>1, <2>2, <2>3
<1> QED BY <1>4, <1>5, <1>6, <1>7, <1>8, <1>9 DEF IInv
-----------------------------------------------------------------------------
(* The transaction ends: a write takes effect, or nothing does. *)
LEMMA Commits ==
  ASSUME IInv, NEW p \in Requests, Commit(p) \/ OrphanEnds(p)
  PROVE  IInv'
<1>1. \E code \in Outcomes : Finish(p, code)
  BY DEF Commit, OrphanEnds, Outcomes, IInv, TypeOK
<1>2. CASE pc[p] \in {"commit", "orphanCommit"} /\ Apply(p)
  BY <1>1, <1>2, Applies DEF Commit, OrphanEnds
<1>3. CASE UNCHANGED boardVars
  <2>1. \E code \in Outcomes : Refuse(p, code)
    BY <1>1, <1>3 DEF Refuse, Commit, OrphanEnds
  <2> QED BY <2>1, Returns
<1> QED BY <1>2, <1>3 DEF Commit, OrphanEnds

(* Whatever the sync jobs do, they touch neither comments nor requests. *)
LEMMA RegistryKeeps ==
  ASSUME IInv, RegistryStep(EnvRows), UNCHANGED commentVars
  PROVE  IInv'
<1>1. /\ UNCHANGED <<comments, audit, seq, advisory, rowLock, pc, tx, outcome>>
      /\ seq \in Nat
  BY BoundsAssumption DEF commentVars, boardVars, requestVars, IInv, TypeOK
<1>2. RegistryTypeOK'
  BY RegistryStepTyped, EnvRowsAssumption DEF IInv, TypeOK
<1>3. TypeOK'
  BY <1>1, <1>2 DEF IInv, TypeOK
<1>4. \A q \in Requests : RequestInv(q)'
  <2> SUFFICES ASSUME NEW q \in Requests PROVE RequestInv(q)'
    OBVIOUS
  <2> QED BY <1>1, Undisturbed DEF IInv
<1>5. IdsDrawn' /\ IdsDistinct'
  BY <1>1 DEF IInv, IdsDrawn, IdsDistinct, Inserted
<1>6. VisibleCap' /\ AuditExplainsStatus'
  BY <1>1 DEF IInv, VisibleCap, VisibleCount, VisibleIds, AuditExplainsStatus, StatusAfter
<1> QED BY <1>3, <1>4, <1>5, <1>6 DEF IInv

(* An empty store satisfies the invariant. *)
LEMMA StartsWell ==
  ASSUME Init
  PROVE  IInv
<1>1. TypeOK
  <2>1. NullTx \in Tx
    BY BoundsAssumption DEF Tx, NullTx, Asks, CommentStatus
  <2>2. RegistryTypeOK
    BY EnvRowsAssumption DEF Init, RegistryTypeOK
  <2> QED BY <2>1, <2>2, BoundsAssumption DEF Init, TypeOK, Outcomes
<1>2. \A p \in Requests : RequestInv(p)
  BY DEF Init, RequestInv, OpInv, LockInv, TargetInv, DecidedInv, RoomInv, FreshInv, Inserted,
         Locked, Writing
<1>3. IdsDrawn /\ IdsDistinct /\ AuditExplainsStatus
  BY DEF Init, IdsDrawn, IdsDistinct, Inserted, AuditExplainsStatus
<1>4. VisibleCap
  <2> SUFFICES ASSUME NEW s \in Slugs PROVE VisibleCount(s) <= MaxVisible
    BY DEF VisibleCap
  <2>1. VisibleIds(s) = {}
    BY NullAssumption DEF Init, VisibleIds
  <2> QED BY <2>1, FS_EmptySet, MaxVisibleAssumption DEF VisibleCount
<1> QED BY <1>1, <1>2, <1>3, <1>4 DEF IInv

(* Every step keeps the invariant. *)
LEMMA StepKeeps ==
  ASSUME IInv, [Next]_vars
  PROVE  IInv'
<1>1. CASE \E p \in Requests : RequestStep(p)
  <2> PICK p \in Requests : RequestStep(p)
    BY <1>1
  <2>1. CASE \E s \in Slugs : Create(p, s)
    BY <2>1, Creates
  <2>2. CASE \E op \in Moderations, i \in CommentIds : Moderate(p, op, i)
    BY <2>2, Moderates
  <2>3. CASE Serve(p)
    BY <2>3, Checks, Begins, Finds, Locks, Policies, Counts, Inserts, Rereads, Updates, Audits,
       Commits DEF Serve
  <2>4. CASE Abandon(p)
    BY <2>4, Abandons
  <2> QED BY <2>1, <2>2, <2>3, <2>4 DEF RequestStep
<1>2. CASE RegistryStep(EnvRows) /\ UNCHANGED commentVars
  BY <1>2, RegistryKeeps
<1>3. CASE UNCHANGED vars
  <2>1. UNCHANGED <<content, sharers, writer, comments, audit, seq, advisory, rowLock, pc, tx,
                    outcome>>
    BY <1>3 DEF vars, registryVars, commentVars, boardVars, requestVars
  <2>2. TypeOK' /\ IdsDrawn' /\ IdsDistinct' /\ VisibleCap' /\ AuditExplainsStatus'
    BY <2>1 DEF IInv, TypeOK, RegistryTypeOK, IdsDrawn, IdsDistinct, Inserted, VisibleCap,
                VisibleCount, VisibleIds, AuditExplainsStatus, StatusAfter
  <2>3. \A q \in Requests : RequestInv(q)'
    BY <2>1, BoundsAssumption, Undisturbed DEF IInv, TypeOK
  <2> QED BY <2>2, <2>3 DEF IInv
<1> QED BY <1>1, <1>2, <1>3 DEF Next
-----------------------------------------------------------------------------
(* The inductive invariant holds in every reachable state. *)
THEOREM Invariant == Spec => []IInv
BY StartsWell, StepKeeps, PTL DEF Spec

(* Every variable keeps its type: no statement of CreateVisibleIfUnderLimit *)
(* or SetVisibility, and no interleaving of them, records anything else.   *)
THEOREM TypeCorrect == Spec => []TypeOK
<1>1. IInv => TypeOK
  BY DEF IInv
<1> QED BY <1>1, Invariant, PTL

(* MAX_COMMENTS_PER_POST is never exceeded, for any number of creations    *)
(* and unhidings at once, abandoned transactions and lost COMMIT replies   *)
(* included: count and write are one under the advisory lock of the post.  *)
THEOREM CapHolds == Spec => []VisibleCap
<1>1. IInv => VisibleCap
  BY DEF IInv
<1> QED BY <1>1, Invariant, PTL

(* The audit trail of every comment explains its status without a gap: the *)
(* state that SetVisibility reads FOR UPDATE is the one it replaces.       *)
THEOREM AuditHolds == Spec => []AuditExplainsStatus
<1>1. IInv => AuditExplainsStatus
  BY DEF IInv
<1> QED BY <1>1, Invariant, PTL
-----------------------------------------------------------------------------
(* What a request knows of the policy and of the comments of its post when *)
(* it commits, beyond what IInv says of the cap and the audit trail.       *)

(* A row is never shared and written at once. *)
SharedInv == \A s \in Slugs : sharers[s] # {} => writer[s] = NoJob

(* A creation that has read the policy under its lock still holds it. *)
Sharing == {"count", "insert", "commit", "orphanCommit"}
PolicyInv(p) ==
  pc[p] \in Sharing /\ tx[p].op = "create" =>
    p \in sharers[tx[p].slug] /\ CommentsEnabled(tx[p].slug)

(* A moderation with nothing to do is still right about it. *)
ReadInv(p) == pc[p] = "commitRead" => comments[tx[p].id].status = Desired(p)

(* The id a creation drew is newer than all of its post. *)
NewestInv(p) ==
  Inserted(p) =>
    \A k \in CommentIds : comments[k] # NoComment /\ comments[k].slug = tx[p].slug => k < tx[p].id

EffectInv(p) == PolicyInv(p) /\ ReadInv(p) /\ NewestInv(p)
CommitInv == IInv /\ SharedInv /\ \A p \in Requests : EffectInv(p)

(* A step of p that changes neither comments nor policy. *)
Quiet(p) ==
  /\ UNCHANGED <<content, writer, comments>>
  /\ \A q \in Requests \ {p} : pc'[q] = pc[q] /\ tx'[q] = tx[q]
  /\ \A q \in Requests \ {p}, s \in Slugs : q \in sharers[s] => q \in sharers'[s]
  /\ \A s \in Slugs : sharers'[s] \subseteq sharers[s] \/ writer[s] = NoJob

LEMMA QuietKeeps ==
  ASSUME CommitInv, IInv', NEW p \in Requests, Quiet(p), EffectInv(p)'
  PROVE  CommitInv'
<1>1. SharedInv'
  BY DEF CommitInv, SharedInv, Quiet
<1>2. ASSUME NEW q \in Requests \ {p}
      PROVE  EffectInv(q)'
  <2>1. EffectInv(q) /\ pc'[q] = pc[q] /\ tx'[q] = tx[q] /\ OpInv(q)
    BY DEF CommitInv, IInv, RequestInv, Quiet
  <2>2. PolicyInv(q)'
    <3>1. pc[q] \in Sharing /\ tx[q].op = "create" => tx[q].slug \in Slugs
      BY <2>1 DEF OpInv, Sharing
    <3> QED BY <2>1, <3>1 DEF EffectInv, PolicyInv, Quiet, CommentsEnabled, Published
  <2>3. ReadInv(q)' /\ NewestInv(q)'
    BY <2>1 DEF EffectInv, ReadInv, NewestInv, Quiet, Desired, Inserted
  <2> QED BY <2>2, <2>3 DEF EffectInv
<1> QED BY <1>1, <1>2 DEF CommitInv

(* At these statements there is nothing to know. *)
LEMMA NothingKnown ==
  ASSUME NEW p \in Requests, pc'[p] \notin Sharing \cup {"commitRead"}
  PROVE  EffectInv(p)'
BY DEF EffectInv, PolicyInv, ReadInv, NewestInv, Inserted, Sharing

(* Nor when a moderation is on its way to a write. *)
LEMMA NoCreation ==
  ASSUME NEW p \in Requests, tx'[p].op # "create", pc'[p] # "commitRead"
  PROVE  EffectInv(p)'
BY DEF EffectInv, PolicyInv, ReadInv, NewestInv, Inserted

LEMMA RefuseQuiet ==
  ASSUME CommitInv, IInv', NEW p \in Requests, NEW code, Refuse(p, code)
  PROVE  CommitInv'
<1>1. Quiet(p) /\ pc'[p] = "idle"
  BY DEF CommitInv, IInv, TypeOK, RegistryTypeOK, Refuse, Finish, Goto, ReleaseLocks, Quiet,
         boardVars
<1> QED BY <1>1, NothingKnown, QuietKeeps DEF Sharing

LEMMA EarlyQuiet ==
  ASSUME CommitInv, IInv', NEW p \in Requests,
         \/ \E s \in Slugs : Create(p, s)
         \/ \E op \in Moderations, i \in CommentIds : Moderate(p, op, i)
         \/ Check(p) \/ Begin(p) \/ Find(p) \/ Lock(p)
  PROVE  CommitInv'
<1>1. CASE \E code : Refuse(p, code)
  BY <1>1, RefuseQuiet
<1>2. CASE ~\E code : Refuse(p, code)
  <2>1. Quiet(p) /\ pc'[p] \in {"check", "begin", "lock", "find", "policy", "reread"}
    BY <1>2 DEF CommitInv, IInv, TypeOK, Create, Moderate, Check, Begin, Find, Lock, Goto, Quiet,
       registryVars, boardVars
  <2> QED BY <2>1, NothingKnown, QuietKeeps DEF Sharing
<1> QED BY <1>1, <1>2

LEMMA PolicyQuiet ==
  ASSUME CommitInv, IInv', NEW p \in Requests, Policy(p)
  PROVE  CommitInv'
<1>1. CASE Refuse(p, "disabled")
  BY <1>1, RefuseQuiet
<1>2. CASE ~Refuse(p, "disabled")
  <2>1. /\ pc[p] = "policy" /\ ShareRow(p, tx[p].slug) /\ CommentsEnabled(tx[p].slug)
        /\ pc' = [pc EXCEPT ![p] = "count"] /\ tx' = tx
        /\ UNCHANGED <<content, writer, comments>>
    BY <1>2 DEF Policy, Goto, boardVars
  <2>2. tx[p].slug \in Slugs
    BY <2>1 DEF CommitInv, IInv, RequestInv, LockInv, Locked
  <2>3. content[tx[p].slug] # NoRow /\ writer[tx[p].slug] = NoJob
        /\ sharers' = [sharers EXCEPT ![tx[p].slug] = @ \cup {p}]
    BY <2>1 DEF CommentsEnabled, Published, ShareRow, CanShareRow
  <2>4. Quiet(p)
    BY <2>1, <2>2, <2>3 DEF Quiet, CommitInv, IInv, TypeOK, RegistryTypeOK
  <2>5. pc'[p] = "count" /\ p \in sharers'[tx'[p].slug] /\ CommentsEnabled(tx[p].slug)'
    BY <2>1, <2>2, <2>3 DEF CommitInv, IInv, TypeOK, RegistryTypeOK, CommentsEnabled, Published
  <2>6. EffectInv(p)'
    BY <2>1, <2>5 DEF EffectInv, PolicyInv, ReadInv, NewestInv, Inserted
  <2> QED BY <2>4, <2>6, QuietKeeps
<1> QED BY <1>1, <1>2

LEMMA CountQuiet ==
  ASSUME CommitInv, IInv', NEW p \in Requests, Count(p)
  PROVE  CommitInv'
<1>1. CASE Refuse(p, "full")
  BY <1>1, RefuseQuiet
<1>2. CASE ~Refuse(p, "full")
  <2>1. /\ pc[p] = "count" /\ tx' = tx /\ UNCHANGED <<content, sharers, writer, comments>>
        /\ pc' = [pc EXCEPT ![p] = IF tx[p].op = "create" THEN "insert" ELSE "update"]
    BY <1>2 DEF Count, Goto, boardVars, registryVars
  <2>2. Quiet(p) /\ pc'[p] = IF tx[p].op = "create" THEN "insert" ELSE "update"
    BY <2>1 DEF Quiet, CommitInv, IInv, TypeOK
  <2>3. EffectInv(p)'
    BY <2>1, <2>2 DEF CommitInv, EffectInv, PolicyInv, ReadInv, NewestInv, Inserted, Sharing,
       CommentsEnabled, Published
  <2> QED BY <2>2, <2>3, QuietKeeps
<1> QED BY <1>1, <1>2

LEMMA InsertQuiet ==
  ASSUME CommitInv, IInv', NEW p \in Requests, Insert(p)
  PROVE  CommitInv'
<1>1. CASE Refuse(p, "failed")
  BY <1>1, RefuseQuiet
<1>2. CASE ~Refuse(p, "failed")
  <2>1. /\ pc[p] = "insert" /\ pc' = [pc EXCEPT ![p] = "commit"]
        /\ tx' = [tx EXCEPT ![p].id = seq + 1]
        /\ UNCHANGED <<content, sharers, writer, comments>>
    BY <1>2 DEF Insert, Goto, boardVars, registryVars
  <2>2. Quiet(p) /\ pc'[p] = "commit"
    BY <2>1 DEF Quiet, CommitInv, IInv, TypeOK
  <2>3. tx'[p].slug = tx[p].slug /\ tx'[p].id = seq + 1 /\ tx'[p].op = tx[p].op
    BY <2>1 DEF CommitInv, IInv, TypeOK, Tx
  <2>4. PolicyInv(p)' /\ ReadInv(p)'
    BY <2>1, <2>2, <2>3 DEF CommitInv, EffectInv, PolicyInv, ReadInv, Sharing,
       CommentsEnabled, Published
  <2>5. NewestInv(p)'
    <3>1. seq \in Nat /\ \A k \in CommentIds : comments[k] # NoComment => k <= seq
      BY BoundsAssumption DEF CommitInv, IInv, TypeOK, IdsDrawn
    <3> QED BY <2>1, <2>3, <3>1, BoundsAssumption DEF NewestInv, CommentIds
  <2> QED BY <2>2, <2>4, <2>5, QuietKeeps DEF EffectInv
<1> QED BY <1>1, <1>2

LEMMA ModerationQuiet ==
  ASSUME CommitInv, IInv', NEW p \in Requests, Reread(p) \/ Update(p) \/ Audit(p)
  PROVE  CommitInv'
<1>1. tx[p].op \in Moderations
  BY DEF CommitInv, IInv, RequestInv, OpInv, Reread, Update, Audit
<1>2. Quiet(p) /\ tx'[p].op = tx[p].op /\ tx'[p].id = tx[p].id
  BY DEF Reread, Update, Audit, Goto, Quiet, boardVars, registryVars, CommitInv, IInv, TypeOK, Tx
<1>3. CASE pc'[p] # "commitRead"
  BY <1>1, <1>2, <1>3, NoCreation, QuietKeeps DEF Moderations
<1>4. CASE pc'[p] = "commitRead"
  <2>1. Reread(p) /\ comments[tx[p].id].status = Desired(p)
    BY <1>4 DEF Reread, Update, Audit, Goto, CommitInv, IInv, TypeOK
  <2>2. comments' = comments /\ Desired(p)' = Desired(p)
    BY <1>2 DEF Quiet, Desired
  <2>3. EffectInv(p)'
    BY <1>2, <1>4, <2>1, <2>2 DEF EffectInv, PolicyInv, ReadInv, NewestInv, Inserted, Sharing
  <2> QED BY <1>2, <2>3, QuietKeeps
<1> QED BY <1>3, <1>4

LEMMA AbandonQuiet ==
  ASSUME CommitInv, IInv', NEW p \in Requests, Abandon(p)
  PROVE  CommitInv'
<1>1. Quiet(p)
  BY DEF Abandon, Goto, Quiet, boardVars, registryVars, CommitInv, IInv, TypeOK
<1>2. CASE pc[p] = "commit"
  <2>1. pc'[p] = "orphanCommit" /\ tx' = tx /\ sharers' = sharers
    BY <1>2 DEF Abandon, Goto, registryVars, Connected, CommitInv, IInv, TypeOK
  <2>2. EffectInv(p)'
    BY <1>1, <1>2, <2>1 DEF CommitInv, EffectInv, PolicyInv, ReadInv, NewestInv, Inserted, Sharing,
       CommentsEnabled, Published, Quiet
  <2> QED BY <1>1, <2>2, QuietKeeps
<1>3. CASE pc[p] # "commit"
  <2>1. pc'[p] \in {"idle", "orphan"}
    BY <1>3 DEF Abandon, Goto, CommitInv, IInv, TypeOK
  <2> QED BY <1>1, <2>1, NothingKnown, QuietKeeps DEF Sharing
<1> QED BY <1>2, <1>3

(* A write takes effect: others of its post do not run at locked           *)
(* statements, and what they know of other posts stays true.               *)
LEMMA EffectKeeps ==
  ASSUME CommitInv, IInv', NEW p \in Requests, pc[p] \in {"commit", "orphanCommit"}, Apply(p),
         NEW code \in Outcomes, Finish(p, code), UNCHANGED <<content, writer>>
  PROVE  CommitInv'
<1>1. /\ \A q \in Requests \ {p} : pc'[q] = pc[q] /\ tx'[q] = tx[q]
      /\ pc'[p] = "idle"
      /\ sharers' = [s \in Slugs |-> sharers[s] \ {p}]
  BY DEF Finish, Goto, ReleaseLocks, CommitInv, IInv, TypeOK
<1>2. SharedInv'
  BY <1>1 DEF CommitInv, SharedInv
<1>3. EffectInv(p)'
  BY <1>1, NothingKnown DEF Sharing
<1>4. ASSUME NEW q \in Requests \ {p}, pc[q] \in Locked
      PROVE  tx[q].slug # tx[p].slug
  <2>1. advisory[Hash[tx[p].slug]] = p /\ advisory[Hash[tx[q].slug]] = q
    BY <1>4 DEF CommitInv, IInv, RequestInv, LockInv, Locked
  <2> QED BY <2>1
<1>5. \A k \in CommentIds :
        \/ comments'[k] = comments[k]
        \/ k = tx[p].id /\ comments'[k] \in Comment /\ comments'[k].slug = tx[p].slug
  <2>1. CASE tx[p].op = "create"
    BY <2>1 DEF Apply, CommitInv, IInv, TypeOK, Comment, RequestInv, OpInv, CommentStatus
  <2>2. CASE tx[p].op # "create"
    <3>1. /\ tx[p].op \in Moderations /\ tx[p].id \in CommentIds
          /\ comments[tx[p].id] # NoComment /\ comments[tx[p].id].slug = tx[p].slug
          /\ comments[tx[p].id] \in Comment
      BY <2>2 DEF CommitInv, IInv, TypeOK, RequestInv, OpInv, TargetInv, Tx, Locked
    <3> QED BY <2>2, <3>1 DEF Apply, CommitInv, IInv, TypeOK, Comment, Desired, CommentStatus
  <2> QED BY <2>1, <2>2
<1>6. ASSUME NEW q \in Requests \ {p}
      PROVE  EffectInv(q)'
  <2>1. EffectInv(q) /\ RequestInv(q) /\ pc'[q] = pc[q] /\ tx'[q] = tx[q]
    BY <1>1 DEF CommitInv, IInv
  <2>2. PolicyInv(q)'
    <3>1. pc[q] \in Sharing /\ tx[q].op = "create" => tx[q].slug \in Slugs
      BY <2>1 DEF RequestInv, OpInv, Sharing
    <3> QED BY <1>1, <2>1, <3>1 DEF EffectInv, PolicyInv, CommentsEnabled, Published
  <2>3. ReadInv(q)'
    <3>1. SUFFICES ASSUME pc[q] = "commitRead"
                   PROVE  comments'[tx[q].id].status = Desired(q)
      BY <2>1 DEF ReadInv, Desired
    <3>2. /\ tx[q].id \in CommentIds /\ comments[tx[q].id] # NoComment
          /\ comments[tx[q].id].slug = tx[q].slug
      BY <2>1, <3>1 DEF RequestInv, OpInv, TargetInv, Locked
    <3>3. tx[q].slug # tx[p].slug
      BY <1>4, <3>1 DEF Locked
    <3>4. tx[q].id # tx[p].id
      <4>1. tx[p].op = "create" => comments[tx[p].id] = NoComment
        BY DEF CommitInv, IInv, RequestInv, FreshInv, Inserted
      <4>2. tx[p].op # "create" => comments[tx[p].id].slug = tx[p].slug
        BY DEF CommitInv, IInv, TypeOK, RequestInv, OpInv, TargetInv, Tx, Locked
      <4> QED BY <3>2, <3>3, <4>1, <4>2
    <3>5. comments'[tx[q].id] = comments[tx[q].id]
      BY <1>5, <3>2, <3>4
    <3> QED BY <2>1, <3>1, <3>5 DEF EffectInv, ReadInv
  <2>4. NewestInv(q)'
    <3>1. SUFFICES ASSUME Inserted(q), NEW k \in CommentIds, comments'[k] # NoComment,
                          comments'[k].slug = tx[q].slug
                   PROVE  k < tx[q].id
      BY <2>1 DEF NewestInv, Inserted
    <3>2. tx[q].slug # tx[p].slug
      BY <1>4, <3>1 DEF Inserted, Locked
    <3>3. comments'[k] = comments[k]
      BY <1>5, <3>1, <3>2
    <3> QED BY <2>1, <3>1, <3>3 DEF EffectInv, NewestInv
  <2> QED BY <2>2, <2>3, <2>4 DEF EffectInv
<1> QED BY <1>2, <1>3, <1>6 DEF CommitInv

LEMMA EndKeeps ==
  ASSUME CommitInv, IInv', NEW p \in Requests, Commit(p) \/ OrphanEnds(p)
  PROVE  CommitInv'
<1>1. (\E code \in Outcomes : Finish(p, code)) /\ UNCHANGED <<content, writer, seq>>
  BY DEF Commit, OrphanEnds, Outcomes, CommitInv, IInv, TypeOK
<1>2. CASE pc[p] \in {"commit", "orphanCommit"} /\ Apply(p)
  BY <1>1, <1>2, EffectKeeps
<1>3. CASE UNCHANGED boardVars
  BY <1>1, <1>3, RefuseQuiet DEF Refuse
<1> QED BY <1>2, <1>3 DEF Commit, OrphanEnds

(* A sync job changes no row that is shared. *)
LEMMA RegistryLeavesShared ==
  ASSUME CommitInv, IInv', RegistryStep(EnvRows), UNCHANGED commentVars
  PROVE  CommitInv'
<1>1. UNCHANGED <<comments, pc, tx>>
  BY DEF commentVars, boardVars, requestVars
<1>2. PICK j \in Jobs :
        \/ (\E s \in Slugs : WriteRow(j, s)) /\ UNCHANGED <<content, sharers>>
        \/ /\ ReleaseRows(j)
           /\ \A s \in Slugs : content'[s] = content[s] \/ writer[s] = j
           /\ UNCHANGED sharers
  BY DEF RegistryStep
<1>3. sharers' = sharers /\ \A s \in Slugs : sharers[s] # {} => content'[s] = content[s]
  BY <1>2, NullAssumption DEF CommitInv, SharedInv
<1>4. SharedInv'
  BY <1>2 DEF CommitInv, SharedInv, WriteRow, ReleaseRows, IInv, TypeOK, RegistryTypeOK
<1>5. ASSUME NEW q \in Requests
      PROVE  EffectInv(q)'
  <2>1. EffectInv(q) /\ OpInv(q)
    BY DEF CommitInv, IInv, RequestInv
  <2>2. pc[q] \in Sharing /\ tx[q].op = "create" => tx[q].slug \in Slugs
    BY <2>1 DEF OpInv, Sharing
  <2>3. PolicyInv(q)'
    BY <1>1, <1>3, <2>1, <2>2 DEF EffectInv, PolicyInv, CommentsEnabled, Published
  <2>4. ReadInv(q)' /\ NewestInv(q)'
    BY <1>1, <2>1 DEF EffectInv, ReadInv, NewestInv, Desired, Inserted
  <2> QED BY <2>3, <2>4 DEF EffectInv
<1> QED BY <1>4, <1>5 DEF CommitInv

LEMMA CommitInvariant == Spec => []CommitInv
<1>1. Init => CommitInv
  BY StartsWell DEF CommitInv, Init, SharedInv, EffectInv, PolicyInv, ReadInv, NewestInv, Inserted,
     Sharing
<1>2. ASSUME CommitInv, [Next]_vars
      PROVE  CommitInv'
  <2>1. IInv'
    BY <1>2, StepKeeps DEF CommitInv
  <2>2. ASSUME NEW p \in Requests, RequestStep(p)
        PROVE  CommitInv'
    BY <1>2, <2>1, <2>2, EarlyQuiet, PolicyQuiet, CountQuiet, InsertQuiet, ModerationQuiet,
       AbandonQuiet, EndKeeps DEF RequestStep, Serve
  <2>3. CASE RegistryStep(EnvRows) /\ UNCHANGED commentVars
    BY <1>2, <2>1, <2>3, RegistryLeavesShared
  <2>4. CASE UNCHANGED vars
    BY <1>2, <2>1, <2>4 DEF vars, registryVars, commentVars, boardVars, requestVars, CommitInv,
       SharedInv, EffectInv, PolicyInv, ReadInv, NewestInv, Inserted, Desired, CommentsEnabled,
       Published
  <2> QED BY <1>2, <2>2, <2>3, <2>4 DEF Next
<1> QED BY <1>1, <1>2, PTL DEF Spec

(* Whatever sync jobs do while a comment is on its way, it appears under a *)
(* policy that admits it.                                                  *)
THEOREM PolicyHolds == Spec => PolicyAtCommit
<1> DEFINE Step == \A i \in CommentIds :
             comments[i] = NoComment /\ comments'[i] # NoComment =>
               CommentsEnabled(comments'[i].slug)
<1>1. ASSUME CommitInv, [Next]_vars
      PROVE  [Step]_vars
  <2>1. ASSUME NEW p \in Requests, pc[p] \in {"commit", "orphanCommit"}, Apply(p)
        PROVE  Step
    <3>1. CASE tx[p].op = "create"
      <4>1. CommentsEnabled(tx[p].slug)
        BY <1>1, <2>1, <3>1 DEF CommitInv, EffectInv, PolicyInv, Sharing
      <4> QED BY <1>1, <3>1, <2>1, <4>1 DEF Apply, CommitInv, IInv, TypeOK
    <3>2. CASE tx[p].op # "create"
      <4>1. comments[tx[p].id] # NoComment
        BY <1>1, <2>1, <3>2 DEF CommitInv, IInv, TypeOK, RequestInv, OpInv, TargetInv, Tx, Locked
      <4> QED BY <1>1, <3>2, <2>1, <4>1 DEF Apply, CommitInv, IInv, TypeOK
    <3> QED BY <3>1, <3>2
  <2>2. CASE comments' = comments
    BY <2>2
  <2>3. ASSUME NEW p \in Requests, RequestStep(p)
        PROVE  comments' = comments \/ (pc[p] \in {"commit", "orphanCommit"} /\ Apply(p))
    BY <2>3 DEF RequestStep, Serve, Create, Moderate, Check, Begin, Find, Lock, Policy, Count,
       Insert, Reread, Update, Audit, Commit, OrphanEnds, Abandon, Refuse, boardVars
  <2> QED BY <1>1, <2>1, <2>2, <2>3 DEF Next, vars, commentVars, boardVars
<1> QED BY <1>1, CommitInvariant, PTL DEF Spec, PolicyAtCommit
-----------------------------------------------------------------------------
(* CommentBoard, as CommentStore shows it. *)
PhaseOf(statement) ==
  IF statement = "idle" THEN "idle" ELSE IF statement \in Orphaned THEN "abandoned" ELSE "pending"
AskOf(statement, t) ==
  IF statement = "idle" THEN [op |-> "none"]
  ELSE IF t.op = "create" THEN [op |-> "create", slug |-> t.slug]
  ELSE [op |-> t.op, id |-> t.id]
Open == {s \in Slugs : CommentsEnabled(s)}
Phase == [p \in Requests |-> PhaseOf(pc[p])]
Asked == [p \in Requests |-> AskOf(pc[p], tx[p])]

LEMMA OpenKept == ASSUME content' = content PROVE Open' = Open
BY DEF Open, CommentsEnabled, Published

LEMMA OthersAsk ==
  ASSUME TypeOK, NEW p \in Requests,
         pc' \in [Requests -> {"idle", "check", "begin"} \cup Connected \cup Orphaned],
         tx' \in [Requests -> Tx],
         \A q \in Requests \ {p} : pc'[q] = pc[q] /\ tx'[q] = tx[q]
  PROVE  /\ Phase' = [Phase EXCEPT ![p] = PhaseOf(pc'[p])]
         /\ Asked' = [Asked EXCEPT ![p] = AskOf(pc'[p], tx'[p])]
BY DEF Phase, Asked

(* A step of a request that goes on is no step of the board. *)
LEMMA Stutters ==
  ASSUME TypeOK, TypeOK', NEW p \in Requests,
         \A q \in Requests \ {p} : pc'[q] = pc[q] /\ tx'[q] = tx[q],
         PhaseOf(pc'[p]) = PhaseOf(pc[p]), AskOf(pc'[p], tx'[p]) = AskOf(pc[p], tx[p]),
         UNCHANGED <<content, comments, audit, outcome>>
  PROVE  UNCHANGED Board!boardVars
<1>1. Phase' = Phase /\ Asked' = Asked
  BY OthersAsk DEF TypeOK, Phase, Asked
<1>2. Open' = Open
  BY OpenKept
<1> QED BY <1>1, <1>2 DEF Board!boardVars, Phase, Asked, Open, PhaseOf, AskOf

(* A request arrives. *)
LEMMA Submits ==
  ASSUME TypeOK, TypeOK', NEW p \in Requests, pc[p] = "idle", NEW ask,
         \A q \in Requests \ {p} : pc'[q] = pc[q] /\ tx'[q] = tx[q],
         PhaseOf(pc'[p]) = "pending", AskOf(pc'[p], tx'[p]) = ask,
         outcome' = [outcome EXCEPT ![p] = "none"], UNCHANGED <<content, comments, audit>>
  PROVE  Board!Submit(p, ask)
<1>1. Phase' = [Phase EXCEPT ![p] = "pending"] /\ Asked' = [Asked EXCEPT ![p] = ask]
  BY OthersAsk DEF TypeOK
<1>2. Phase[p] = "idle" /\ Open' = Open
  BY OpenKept DEF Phase, PhaseOf
<1> QED BY <1>1, <1>2 DEF Board!Submit, Phase, Asked, Open, PhaseOf, AskOf

(* A request ends with an answer, or silently if its client has gone. *)
LEMMA Settles ==
  ASSUME TypeOK, TypeOK', NEW p \in Requests, pc[p] # "idle", NEW code, NEW answers,
         pc[p] \in Orphaned \/ code \in answers,
         pc' = [pc EXCEPT ![p] = "idle"], tx' = [tx EXCEPT ![p] = NullTx],
         outcome' = [outcome EXCEPT ![p] = code],
         pc[p] \in Orphaned => code = outcome[p], content' = content
  PROVE  Board!Settle(p, answers)
<1>1. \A q \in Requests \ {p} : pc'[q] = pc[q] /\ tx'[q] = tx[q]
  BY DEF TypeOK
<1>2. /\ Phase' = [Phase EXCEPT ![p] = "idle"] /\ Asked' = [Asked EXCEPT ![p] = [op |-> "none"]]
      /\ Open' = Open
  BY <1>1, OthersAsk, OpenKept DEF TypeOK, PhaseOf, AskOf
<1>3. Phase[p] = "abandoned" => outcome' = outcome
  BY DEF Phase, PhaseOf, TypeOK
<1> QED BY <1>2, <1>3 DEF Board!Settle, Phase, Asked, Open, PhaseOf, AskOf

(* Room is what the statements count. *)
LEMMA SameRoom ==
  ASSUME TypeOK, NEW s \in Slugs
  PROVE  Board!Room(s) <=> VisibleCount(s) < MaxVisible
<1> DEFINE shown == {i \in Board!Of(s) : comments[i].status = "visible"}
<1>1. ASSUME NEW i \in CommentIds
      PROVE  i \in shown <=> i \in VisibleIds(s)
  <2>1. CASE comments[i] = NoComment
    <3>1. NoComment # [slug |-> s, status |-> "visible"]
      BY NullAssumption
    <3> QED BY <2>1, <3>1 DEF Board!Of, VisibleIds
  <2>2. CASE comments[i] \in Comment
    <3>1. comments[i] = [slug |-> s, status |-> "visible"]
            <=> comments[i].slug = s /\ comments[i].status = "visible"
      BY <2>2 DEF Comment
    <3>2. comments[i] # NoComment
      BY <2>2, NullAssumption DEF Comment, CommentStatus
    <3> QED BY <3>1, <3>2 DEF Board!Of, VisibleIds, Board!CommentIds, CommentIds
  <2> QED BY <2>1, <2>2 DEF TypeOK
<1>2. shown \subseteq CommentIds /\ VisibleIds(s) \subseteq CommentIds
  BY DEF Board!Of, VisibleIds, Board!CommentIds, CommentIds
<1>3. shown = VisibleIds(s)
  BY <1>1, <1>2
<1>4. \A S : Board!Cardinality(S) = Cardinality(S)
  BY DEF Board!Cardinality, Cardinality
<1> QED BY <1>3, <1>4 DEF Board!Room, VisibleCount

(* The statements between begin and commit, when the transaction goes on,  *)
(* leave what the board sees of the request.                               *)
Steady == {"begin", "find", "lock", "policy", "count", "insert", "reread", "update", "audit",
           "commit", "commitRead"}

LEMMA GoesOn ==
  ASSUME CommitInv, CommitInv', NEW p \in Requests,
         pc[p] \in Steady \cup {"check"}, pc'[p] \in Steady,
         \A q \in Requests \ {p} : pc'[q] = pc[q] /\ tx'[q] = tx[q],
         tx'[p].op = tx[p].op,
         tx[p].op = "create" => tx'[p].slug = tx[p].slug,
         tx[p].op # "create" => tx'[p].id = tx[p].id,
         UNCHANGED <<content, comments, audit, outcome>>
  PROVE  UNCHANGED Board!boardVars
<1>1. PhaseOf(pc'[p]) = PhaseOf(pc[p]) /\ AskOf(pc'[p], tx'[p]) = AskOf(pc[p], tx[p])
  BY DEF PhaseOf, AskOf, Steady, Orphaned
<1> QED BY <1>1, Stutters DEF CommitInv, IInv

LEMMA Requested ==
  ASSUME CommitInv, NEW p \in Requests, pc[p] # "idle"
  PROVE  /\ tx[p].op \in {"create", "hide", "unhide"}
         /\ \A op \in {"create", "hide", "unhide"} : Board!Requested(p, op) <=> tx[p].op = op
<1>1. tx[p].op \in {"create", "hide", "unhide"}
  BY DEF CommitInv, IInv, TypeOK, RequestInv, OpInv, Tx, Moderations
<1>2. Phase[p] # "idle" /\ Asked[p].op = tx[p].op
  BY <1>1 DEF Phase, Asked, PhaseOf, AskOf
<1> QED BY <1>1, <1>2 DEF Board!Requested, Phase, Asked, PhaseOf, AskOf

(* A refusal is one of the board, if it is true of it. *)
LEMMA RefusalSettles ==
  ASSUME CommitInv, CommitInv', NEW p \in Requests, pc[p] \in Steady \cup {"check"},
         NEW code, Refuse(p, code), NEW answers, code \in answers
  PROVE  /\ Board!Settle(p, answers) /\ UNCHANGED <<comments, audit>>
         /\ Phase[p] = "pending"
<1>1. Board!Settle(p, answers)
  BY Settles DEF CommitInv, IInv, Refuse, Finish, Goto, Steady, Orphaned
<1>2. Phase[p] = "pending"
  BY DEF Phase, PhaseOf, Steady, Orphaned
<1> QED BY <1>1, <1>2 DEF Refuse, boardVars

LEMMA ArrivalOnBoard ==
  ASSUME CommitInv, CommitInv', NEW p \in Requests,
         \/ \E s \in Slugs : Create(p, s)
         \/ \E op \in Moderations, i \in CommentIds : Moderate(p, op, i)
  PROVE  Board!Next
<1>1. ASSUME NEW s \in Slugs, Create(p, s)
      PROVE  Board!Submit(p, [op |-> "create", slug |-> s])
  <2>1. /\ pc[p] = "idle" /\ pc'[p] = "check" /\ tx'[p].op = "create" /\ tx'[p].slug = s
        /\ \A q \in Requests \ {p} : pc'[q] = pc[q] /\ tx'[q] = tx[q]
        /\ outcome' = [outcome EXCEPT ![p] = "none"] /\ UNCHANGED <<content, comments, audit>>
    BY <1>1 DEF Create, Goto, Asks, boardVars, registryVars, CommitInv, IInv, TypeOK
  <2>2. PhaseOf(pc'[p]) = "pending" /\ AskOf(pc'[p], tx'[p]) = [op |-> "create", slug |-> s]
    BY <2>1 DEF PhaseOf, AskOf, Orphaned
  <2> QED BY <2>1, <2>2, Submits DEF CommitInv, IInv
<1>2. ASSUME NEW op \in Moderations, NEW i \in CommentIds, Moderate(p, op, i)
      PROVE  Board!Submit(p, [op |-> op, id |-> i])
  <2>1. /\ pc[p] = "idle" /\ pc'[p] = "begin" /\ tx'[p].op = op /\ tx'[p].id = i
        /\ \A q \in Requests \ {p} : pc'[q] = pc[q] /\ tx'[q] = tx[q]
        /\ outcome' = [outcome EXCEPT ![p] = "none"] /\ UNCHANGED <<content, comments, audit>>
    BY <1>2 DEF Moderate, Goto, Asks, boardVars, registryVars, CommitInv, IInv, TypeOK
  <2>2. PhaseOf(pc'[p]) = "pending" /\ AskOf(pc'[p], tx'[p]) = [op |-> op, id |-> i]
    BY <1>2, <2>1 DEF PhaseOf, AskOf, Orphaned, Moderations
  <2> QED BY <2>1, <2>2, Submits DEF CommitInv, IInv
<1> QED BY <1>1, <1>2 DEF Board!Next, Moderations, CommentIds, Board!CommentIds

(* A refusal for a reason, each as the board gives it. *)
LEMMA ReasonOnBoard ==
  ASSUME CommitInv, CommitInv', NEW p \in Requests, pc[p] \in Steady \cup {"check"},
         NEW code, Refuse(p, code),
         \/ tx[p].op = "create" /\ ~CommentsEnabled(tx[p].slug) /\ code \in {"notfound", "disabled"}
         \/ tx[p].op = "create" /\ ~Board!Room(tx[p].slug) /\ code = "full"
         \/ tx[p].op = "create" /\ code = "invalid"
         \/ tx[p].op # "create" /\ comments[tx[p].id] = NoComment /\ code = "notfound"
         \/ /\ tx[p].op = "unhide" /\ comments[tx[p].id] # NoComment
            /\ ~Board!Room(comments[tx[p].id].slug) /\ code = "full"
  PROVE  Board!Next
<1>1. pc[p] # "idle"
  BY DEF Steady
<1>2. /\ tx[p].op \in {"create", "hide", "unhide"}
      /\ \A op \in {"create", "hide", "unhide"} : Board!Requested(p, op) <=> tx[p].op = op
  BY <1>1, Requested
<1>3. /\ Asked[p] = AskOf(pc[p], tx[p])
      /\ tx[p].op = "create" => Asked[p].slug = tx[p].slug
      /\ tx[p].op # "create" => Asked[p].id = tx[p].id
  BY <1>1 DEF Asked, AskOf
<1>4. Phase[p] = "pending" /\ UNCHANGED <<comments, audit>>
      /\ \A answers : code \in answers => Board!Settle(p, answers)
  BY RefusalSettles
<1>5. tx[p].op = "create" /\ ~CommentsEnabled(tx[p].slug) => Asked[p].slug \notin Open
  BY <1>3 DEF Open
<1>6. Board!Refuse(p)
  BY <1>2, <1>3, <1>4, <1>5 DEF Board!Refuse, Phase, Asked, Open, PhaseOf, AskOf
<1> QED BY <1>6 DEF Board!Next

(* A refusal without a reason is an error of the server. *)
LEMMA DropOnBoard ==
  ASSUME CommitInv, CommitInv', NEW p \in Requests, pc[p] \in Steady, Refuse(p, "failed")
  PROVE  Board!Next
<1>1. Board!Settle(p, {"failed"}) /\ UNCHANGED <<comments, audit>> /\ Phase[p] = "pending"
  BY RefusalSettles
<1>2. Board!Drop(p)
  BY <1>1 DEF Board!Drop, Phase, PhaseOf
<1> QED BY <1>2 DEF Board!Next

LEMMA CheckOnBoard ==
  ASSUME CommitInv, CommitInv', NEW p \in Requests, Check(p)
  PROVE  Board!Next \/ UNCHANGED Board!boardVars
<1>1. pc[p] = "check" /\ tx[p].op = "create" /\ tx[p].slug \in Slugs
  BY DEF Check, CommitInv, IInv, RequestInv, OpInv
<1>2. CASE ~Published(tx[p].slug) /\ Refuse(p, "notfound")
  BY <1>1, <1>2, ReasonOnBoard DEF CommentsEnabled
<1>3. CASE ~CommentsEnabled(tx[p].slug) /\ Refuse(p, "disabled")
  BY <1>1, <1>3, ReasonOnBoard
<1>4. CASE Refuse(p, "invalid")
  BY <1>1, <1>4, ReasonOnBoard
<1>5. CASE Goto(p, "begin") /\ UNCHANGED <<registryVars, boardVars, seq, advisory, rowLock, tx, outcome>>
  <2>1. /\ pc'[p] = "begin" /\ tx' = tx /\ UNCHANGED <<content, comments, audit, outcome>>
        /\ \A q \in Requests \ {p} : pc'[q] = pc[q] /\ tx'[q] = tx[q]
    BY <1>5 DEF Goto, registryVars, boardVars, CommitInv, IInv, TypeOK
  <2> QED BY <1>1, <2>1, GoesOn DEF Steady
<1> QED BY <1>2, <1>3, <1>4, <1>5 DEF Check

LEMMA FindOnBoard ==
  ASSUME CommitInv, CommitInv', NEW p \in Requests, Find(p)
  PROVE  Board!Next \/ UNCHANGED Board!boardVars
<1>1. pc[p] = "find" /\ tx[p].op \in Moderations
  BY DEF Find, CommitInv, IInv, RequestInv, OpInv
<1>2. CASE comments[tx[p].id] = NoComment /\ Refuse(p, "notfound")
  BY <1>1, <1>2, ReasonOnBoard DEF Moderations, Steady
<1>3. CASE ~(comments[tx[p].id] = NoComment /\ Refuse(p, "notfound"))
  <2>1. /\ pc'[p] = "lock" /\ tx'[p].op = tx[p].op /\ tx'[p].id = tx[p].id
        /\ UNCHANGED <<content, comments, audit, outcome>>
        /\ \A q \in Requests \ {p} : pc'[q] = pc[q] /\ tx'[q] = tx[q]
    BY <1>3 DEF Find, Goto, registryVars, boardVars, CommitInv, IInv, TypeOK, Tx
  <2> QED BY <1>1, <2>1, GoesOn DEF Moderations, Steady
<1> QED BY <1>2, <1>3

LEMMA PolicyOnBoard ==
  ASSUME CommitInv, CommitInv', NEW p \in Requests, Policy(p)
  PROVE  Board!Next \/ UNCHANGED Board!boardVars
<1>1. pc[p] = "policy" /\ tx[p].op = "create"
  BY DEF Policy, CommitInv, IInv, RequestInv, OpInv
<1>2. CASE ~CommentsEnabled(tx[p].slug) /\ Refuse(p, "disabled")
  BY <1>1, <1>2, ReasonOnBoard DEF Steady
<1>3. CASE ~(~CommentsEnabled(tx[p].slug) /\ Refuse(p, "disabled"))
  <2>1. /\ pc'[p] = "count" /\ tx' = tx /\ UNCHANGED <<content, comments, audit, outcome>>
        /\ \A q \in Requests \ {p} : pc'[q] = pc[q] /\ tx'[q] = tx[q]
    BY <1>3 DEF Policy, Goto, boardVars, CommitInv, IInv, TypeOK
  <2> QED BY <1>1, <2>1, GoesOn DEF Steady
<1> QED BY <1>2, <1>3

LEMMA CountOnBoard ==
  ASSUME CommitInv, CommitInv', NEW p \in Requests, Count(p)
  PROVE  Board!Next \/ UNCHANGED Board!boardVars
<1>1. /\ pc[p] = "count" /\ tx[p].slug \in Slugs /\ tx[p].op \in {"create", "unhide"}
      /\ tx[p].op # "create" => comments[tx[p].id] # NoComment
                               /\ comments[tx[p].id].slug = tx[p].slug
  BY DEF Count, CommitInv, IInv, TypeOK, Tx, RequestInv, OpInv, LockInv, TargetInv, Locked, Moderations
<1>2. CASE VisibleCount(tx[p].slug) >= MaxVisible /\ Refuse(p, "full")
  <2>1. VisibleCount(tx[p].slug) \in Nat
    <3>1. IsFiniteSet(CommentIds)
      BY BoundsAssumption, FS_Interval DEF CommentIds
    <3> QED BY <3>1, FS_Subset, FS_CardinalityType DEF VisibleCount, VisibleIds
  <2>2. ~Board!Room(tx[p].slug)
    BY <1>1, <1>2, <2>1, SameRoom, MaxVisibleAssumption DEF CommitInv, IInv
  <2> QED BY <1>1, <1>2, <2>2, ReasonOnBoard DEF Steady
<1>3. CASE ~(VisibleCount(tx[p].slug) >= MaxVisible /\ Refuse(p, "full"))
  <2>1. /\ pc'[p] \in {"insert", "update"} /\ tx' = tx
        /\ UNCHANGED <<content, comments, audit, outcome>>
        /\ \A q \in Requests \ {p} : pc'[q] = pc[q] /\ tx'[q] = tx[q]
    BY <1>3 DEF Count, Goto, registryVars, boardVars, CommitInv, IInv, TypeOK
  <2> QED BY <1>1, <2>1, GoesOn DEF Steady
<1> QED BY <1>2, <1>3

LEMMA InsertOnBoard ==
  ASSUME CommitInv, CommitInv', NEW p \in Requests, Insert(p)
  PROVE  Board!Next \/ UNCHANGED Board!boardVars
<1>1. pc[p] = "insert" /\ tx[p].op = "create"
  BY DEF Insert, CommitInv, IInv, RequestInv, OpInv
<1>2. CASE Refuse(p, "failed")
  BY <1>1, <1>2, DropOnBoard DEF Steady
<1>3. CASE ~Refuse(p, "failed")
  <2>1. /\ pc'[p] = "commit" /\ tx'[p].op = tx[p].op /\ tx'[p].slug = tx[p].slug
        /\ UNCHANGED <<content, comments, audit, outcome>>
        /\ \A q \in Requests \ {p} : pc'[q] = pc[q] /\ tx'[q] = tx[q]
    BY <1>3 DEF Insert, Goto, registryVars, boardVars, CommitInv, IInv, TypeOK, Tx
  <2> QED BY <1>1, <2>1, GoesOn DEF Steady
<1> QED BY <1>2, <1>3

LEMMA StatementOnBoard ==
  ASSUME CommitInv, CommitInv', NEW p \in Requests,
         Begin(p) \/ Lock(p) \/ Reread(p) \/ Update(p) \/ Audit(p)
  PROVE  UNCHANGED Board!boardVars
<1>1. /\ pc[p] \in Steady /\ pc'[p] \in Steady /\ tx'[p].op = tx[p].op
      /\ tx'[p].slug = tx[p].slug /\ tx'[p].id = tx[p].id
      /\ UNCHANGED <<content, comments, audit, outcome>>
      /\ \A q \in Requests \ {p} : pc'[q] = pc[q] /\ tx'[q] = tx[q]
  BY DEF Begin, Lock, Reread, Update, Audit, Goto, registryVars, boardVars, CommitInv, IInv,
     TypeOK, Tx, Steady
<1> QED BY <1>1, GoesOn

LEMMA AbandonOnBoard ==
  ASSUME CommitInv, CommitInv', NEW p \in Requests, Abandon(p)
  PROVE  Board!Next
<1>1. outcome' = [outcome EXCEPT ![p] = "failed"] /\ UNCHANGED <<content, comments, audit>>
  BY DEF Abandon, registryVars, boardVars
<1>2. CASE pc[p] \in {"check", "begin"}
  <2>1. pc' = [pc EXCEPT ![p] = "idle"] /\ tx' = [tx EXCEPT ![p] = NullTx]
    BY <1>2 DEF Abandon, Goto, Connected
  <2>2. Board!Settle(p, {"failed"})
    BY <1>1, <1>2, <2>1, Settles DEF CommitInv, IInv, Orphaned
  <2>3. Phase[p] # "idle"
    BY <1>2 DEF Phase, PhaseOf, Orphaned
  <2>4. Board!Drop(p)
    BY <1>1, <2>2, <2>3 DEF Board!Drop, Phase, PhaseOf
  <2> QED BY <2>4 DEF Board!Next
<1>3. CASE pc[p] \in Connected
  <2>1. /\ pc'[p] \in Orphaned /\ tx' = tx
        /\ \A q \in Requests \ {p} : pc'[q] = pc[q] /\ tx'[q] = tx[q]
    BY <1>3 DEF Abandon, Goto, Connected, Orphaned, CommitInv, IInv, TypeOK
  <2>2. Phase' = [Phase EXCEPT ![p] = "abandoned"] /\ Asked' = [Asked EXCEPT ![p] = AskOf(pc'[p], tx'[p])]
    BY <2>1, OthersAsk DEF CommitInv, IInv, TypeOK, PhaseOf, Orphaned
  <2>3. Asked' = Asked /\ Phase[p] = "pending" /\ Open' = Open
    BY <1>1, <1>3, <2>1, <2>2, OpenKept DEF Asked, AskOf, Phase, PhaseOf, Connected, Orphaned
  <2>4. Board!Abandon(p)
    BY <1>1, <2>2, <2>3 DEF Board!Abandon, Phase, Asked, Open, PhaseOf, AskOf
  <2> QED BY <2>4 DEF Board!Next
<1> QED BY <1>2, <1>3 DEF Abandon

(* A write takes effect as the operation that was asked for. *)
LEMMA EffectOnBoard ==
  ASSUME CommitInv, CommitInv', NEW p \in Requests, pc[p] \in {"commit", "orphanCommit"}, Apply(p),
         NEW code, Finish(p, code), UNCHANGED content,
         pc[p] = "commit" => code \in {"stored", "failed"},
         pc[p] = "orphanCommit" => code = outcome[p]
  PROVE  Board!Next
<1>1. Board!Settle(p, {"stored", "failed"})
  BY Settles DEF CommitInv, IInv, Finish, Goto, Orphaned
<1>2. /\ tx[p].op \in {"create", "hide", "unhide"}
      /\ \A op \in {"create", "hide", "unhide"} : Board!Requested(p, op) <=> tx[p].op = op
  BY Requested
<1>3. tx[p].slug \in Slugs /\ (tx[p].op # "hide" => Board!Room(tx[p].slug))
  BY SameRoom DEF CommitInv, IInv, RequestInv, LockInv, RoomInv, Locked, Writing
<1>4. CASE tx[p].op = "create"
  <2>1. Asked[p] = [op |-> "create", slug |-> tx[p].slug]
    BY <1>4 DEF Asked, AskOf
  <2>2. tx[p].slug \in Open
    BY <1>3, <1>4 DEF CommitInv, EffectInv, PolicyInv, Sharing, Open
  <2>3. /\ tx[p].id \in CommentIds /\ comments[tx[p].id] = NoComment
        /\ \A k \in CommentIds :
             comments[k] # NoComment /\ comments[k].slug = tx[p].slug => k < tx[p].id
    <3>1. Inserted(p)
      BY <1>4 DEF Inserted
    <3>2. tx[p].id \in 1..seq /\ comments[tx[p].id] = NoComment /\ seq \in 0..MaxComments
      BY <3>1 DEF CommitInv, IInv, TypeOK, RequestInv, FreshInv
    <3>3. tx[p].id \in CommentIds
      BY <3>2, BoundsAssumption DEF CommentIds
    <3> QED BY <3>1, <3>2, <3>3 DEF CommitInv, EffectInv, NewestInv
  <2>4. /\ comments' = [comments EXCEPT ![tx[p].id] = [slug |-> tx[p].slug, status |-> "visible"]]
        /\ audit' = audit
    BY <1>4 DEF Apply
  <2>5. Board!Create(p)
    BY <1>1, <1>2, <1>3, <1>4, <2>1, <2>2, <2>3, <2>4
    DEF Board!Create, Board!Of, Board!CommentIds, CommentIds, Asked, Open, AskOf
  <2> QED BY <2>5 DEF Board!Next
<1>5. CASE tx[p].op # "create"
  <2>1. Asked[p] = [op |-> tx[p].op, id |-> tx[p].id]
    BY <1>5 DEF Asked, AskOf
  <2>2. /\ tx[p].op \in Moderations /\ comments[tx[p].id] # NoComment
        /\ comments[tx[p].id].slug = tx[p].slug /\ comments[tx[p].id].status = tx[p].current
        /\ tx[p].current # Desired(p)
    BY <1>2, <1>5 DEF CommitInv, IInv, RequestInv, TargetInv, DecidedInv, Locked, Writing, Moderations
  <2>3. /\ comments' = [comments EXCEPT ![tx[p].id].status = Desired(p)]
        /\ audit' = [audit EXCEPT ![tx[p].id] =
                       Append(@, [previous |-> tx[p].current, new |-> Desired(p)])]
    BY <1>5 DEF Apply
  <2>4. Desired(p) = "visible" => Board!Room(comments[tx[p].id].slug)
    BY <1>3, <2>2 DEF Desired
  <2>5. Board!Moderate(p, tx[p].op, Desired(p))
    BY <1>1, <1>2, <2>1, <2>2, <2>3, <2>4 DEF Board!Moderate, Asked, AskOf
  <2> QED BY <2>2, <2>5 DEF Board!Next, Desired, Moderations
<1> QED BY <1>4, <1>5

LEMMA EndOnBoard ==
  ASSUME CommitInv, CommitInv', NEW p \in Requests, Commit(p) \/ OrphanEnds(p)
  PROVE  Board!Next
<1>1. CASE pc[p] \in {"commit", "orphanCommit"} /\ Apply(p)
  BY <1>1, EffectOnBoard DEF Commit, OrphanEnds, Orphaned
<1>2. CASE pc[p] = "commitRead" /\ Commit(p)
  <2>1. PICK code \in {"stored", "failed"} : Finish(p, code) /\ UNCHANGED <<content, comments, audit>>
    BY <1>2 DEF Commit, boardVars
  <2>2. Board!Settle(p, {"stored", "failed"})
    BY <1>2, <2>1, Settles DEF CommitInv, IInv, Finish, Goto, Orphaned
  <2>3. /\ tx[p].op \in Moderations /\ comments[tx[p].id] # NoComment
        /\ comments[tx[p].id].status = Desired(p)
    BY <1>2 DEF CommitInv, IInv, RequestInv, OpInv, TargetInv, EffectInv, ReadInv, Locked
  <2>4. Asked[p] = [op |-> tx[p].op, id |-> tx[p].id] /\ Board!Requested(p, tx[p].op)
    BY <1>2, <2>3, Requested DEF Asked, AskOf, Moderations
  <2>5. Board!Moderate(p, tx[p].op, Desired(p))
    BY <2>1, <2>2, <2>3, <2>4 DEF Board!Moderate, Asked, AskOf
  <2> QED BY <2>3, <2>5 DEF Board!Next, Desired, Moderations
<1>3. CASE pc[p] \in Orphaned /\ OrphanEnds(p) /\ UNCHANGED boardVars
  <2>1. Board!Settle(p, {"failed"}) /\ UNCHANGED <<comments, audit>>
    BY <1>3, Settles DEF CommitInv, IInv, OrphanEnds, Finish, Goto, Orphaned, boardVars
  <2>2. Phase[p] # "idle"
    BY <1>3 DEF Phase, PhaseOf, Orphaned
  <2>3. Board!Drop(p)
    BY <2>1, <2>2 DEF Board!Drop, Phase, PhaseOf
  <2> QED BY <2>3 DEF Board!Next
<1> QED BY <1>1, <1>2, <1>3 DEF Commit, OrphanEnds

(* CommentStore implements CommentBoard: for any number of requests on any *)
(* number of posts, whoever shares a lock key, gives up or loses a reply,  *)
(* every request has its effect at one moment, at most once, and every     *)
(* answer but a server error was true at that moment.                      *)
THEOREM BoardImplemented == Spec => ImplementsBoard
<1>1. Init => Board!Init
  <2> SUFFICES ASSUME Init PROVE Board!Init
    OBVIOUS
  <2>1. Phase = [p \in Requests |-> "idle"]
    BY DEF Init, Phase, PhaseOf
  <2>2. Asked \in [Requests -> {[op |-> "none"]}]
    BY DEF Init, Asked, AskOf
  <2>3. Open \in SUBSET Slugs
    BY DEF Open
  <2> QED BY <2>1, <2>2, <2>3 DEF Init, Board!Init, Board!CommentIds, CommentIds, Phase, Asked,
             Open, PhaseOf, AskOf
<1>2. ASSUME CommitInv, CommitInv', [Next]_vars
      PROVE  Board!Next \/ UNCHANGED Board!boardVars
  <2>1. ASSUME NEW p \in Requests, RequestStep(p)
        PROVE  Board!Next \/ UNCHANGED Board!boardVars
    BY <1>2, <2>1, ArrivalOnBoard, CheckOnBoard, FindOnBoard, PolicyOnBoard, CountOnBoard,
       InsertOnBoard, StatementOnBoard, AbandonOnBoard, EndOnBoard DEF RequestStep, Serve
  <2>2. CASE RegistryStep(EnvRows) /\ UNCHANGED commentVars
    <3>1. UNCHANGED <<comments, audit, pc, tx, outcome>>
      BY <2>2 DEF commentVars, boardVars, requestVars
    <3>2. Open' \in SUBSET Slugs
      BY DEF Open
    <3>3. Board!ChangePolicy
      BY <3>1, <3>2 DEF Board!ChangePolicy, Open
    <3> QED BY <3>3 DEF Board!Next
  <2>3. CASE UNCHANGED vars
    BY <2>3 DEF vars, registryVars, commentVars, boardVars, requestVars, Board!boardVars,
       CommentsEnabled, Published
  <2> QED BY <1>2, <2>1, <2>2, <2>3 DEF Next
<1>3. CommitInv /\ CommitInv' /\ [Next]_vars => [Board!Next]_(Board!boardVars)
  BY <1>2
<1> QED BY <1>1, <1>3, CommitInvariant, PTL DEF Spec, ImplementsBoard, Board!Spec
=============================================================================
