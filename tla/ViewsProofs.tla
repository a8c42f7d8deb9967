----------------------------- MODULE ViewsProofs -----------------------------
(***************************************************************************)
(* Views for every window, and every number of requests, visitors, posts   *)
(* and connections, whatever times their clocks show.                      *)
(***************************************************************************)
EXTENDS Views, TLAPS

(* Whatever the sync jobs do, the registry keeps its type. *)
LEMMA RegistryStepTyped ==
  ASSUME RegistryTypeOK, NEW rows \in SUBSET Row, RegistryStep(rows)
  PROVE  RegistryTypeOK'
<1>1. PICK j \in Jobs :
        \/ (\E s \in Slugs : WriteRow(j, s)) /\ UNCHANGED <<content, sharers>>
        \/ /\ ReleaseRows(j)
           /\ content' \in [Slugs -> rows \cup {content[s] : s \in Slugs}]
           /\ UNCHANGED sharers
  BY DEF RegistryStep
<1>2. writer' \in [Slugs -> Jobs \cup {NoJob}]
  BY <1>1 DEF RegistryTypeOK, WriteRow, ReleaseRows
<1>3. content' \in [Slugs -> Row \cup {NoRow}]
  BY <1>1 DEF RegistryTypeOK
<1>4. sharers' = sharers
  BY <1>1
<1> QED BY <1>2, <1>3, <1>4 DEF RegistryTypeOK

(* A view that is going to count has its visitor's row, and is due.        *)
VisitorInv(p) ==
  pc[p] \in {"total", "commit"} =>
    /\ visitorLock[tx[p].key] = p
    /\ Due(viewed[tx[p].key], tx[p].countedAt)

(* A total about to be written has not been overtaken. *)
TotalInv(p) ==
  pc[p] = "commit" => totalLock[Slug(p)] = p /\ tx[p].views = total[Slug(p)] + 1

RequestInv(p) == VisitorInv(p) /\ TotalInv(p)

(* A visitor's row holds the time of its latest counted view. *)
NoneLater(s) ==
  \A i \in 1..Len(counted[s]) :
    LET k == <<s, counted[s][i].visitor>> IN viewed[k] # Never /\ counted[s][i].at <= viewed[k]

Remembered(s) ==
  \A v \in Visitors : viewed[<<s, v>>] # Never =>
    \E i \in 1..Len(counted[s]) :
      counted[s][i].visitor = v /\ counted[s][i].at = viewed[<<s, v>>]

(* The views of one visitor in a history are a window apart. *)
Apart(history) ==
  \A i, j \in 1..Len(history) :
    i < j /\ history[i].visitor = history[j].visitor =>
      history[j].at >= history[i].at + Window

PostInv(s) == total[s] = Len(counted[s]) /\ NoneLater(s) /\ Remembered(s) /\ Apart(counted[s])

ViewsInv ==
  /\ TypeOK
  /\ \A p \in Requests : RequestInv(p)
  /\ \A s \in Slugs : PostInv(s)

Tx == [key : Keys \cup {NoKey}, countedAt : Times, views : Nat, client : BOOLEAN]
Outcomes == {"none", "counted", "known", "notfound", "failed"}

(* A request that runs is about a visitor of a post. *)
LEMMA Asking ==
  ASSUME TypeOK, NEW p \in Requests, pc[p] # "idle"
  PROVE  /\ tx[p] \in Tx /\ tx[p].key \in Keys /\ Slug(p) \in Slugs /\ tx[p].key[2] \in Visitors
         /\ tx[p].key = <<Slug(p), tx[p].key[2]>>
         /\ tx[p].countedAt \in Times /\ tx[p].views \in Nat /\ tx[p].client \in BOOLEAN
<1>1. tx[p] \in Tx /\ tx[p].key \in Keys
  BY DEF TypeOK, Tx
<1>2. tx[p].key[1] \in Slugs /\ tx[p].key[2] \in Visitors
      /\ tx[p].key = <<tx[p].key[1], tx[p].key[2]>>
  BY <1>1 DEF Keys
<1> QED BY <1>1, <1>2 DEF Tx, Slug

(* A step of one request that commits nothing leaves the others alone if   *)
(* it takes no row from them.                                              *)
LEMMA OthersKeep ==
  ASSUME ViewsInv, NEW p \in Requests, UNCHANGED <<viewed, total>>,
         \A q \in Requests \ {p} : pc'[q] = pc[q] /\ tx'[q] = tx[q],
         \A k \in Keys : visitorLock[k] \in Requests \ {p} => visitorLock'[k] = visitorLock[k],
         \A s \in Slugs : totalLock[s] \in Requests \ {p} => totalLock'[s] = totalLock[s],
         NEW q \in Requests \ {p}
  PROVE  RequestInv(q)'
<1>1. RequestInv(q) /\ pc'[q] = pc[q] /\ tx'[q] = tx[q]
  BY DEF ViewsInv
<1>2. pc[q] # "idle" => tx[q].key \in Keys /\ Slug(q) \in Slugs
  BY Asking DEF ViewsInv
<1>3. VisitorInv(q)'
  BY <1>1, <1>2 DEF RequestInv, VisitorInv, Due
<1>4. TotalInv(q)'
  BY <1>1, <1>2 DEF RequestInv, TotalInv, Slug
<1> QED BY <1>3, <1>4 DEF RequestInv

(* What has been counted stays as it is while nothing is committed. *)
LEMMA PostsKeep ==
  ASSUME ViewsInv, UNCHANGED <<viewed, total, counted>>
  PROVE  \A s \in Slugs : PostInv(s)'
  BY DEF ViewsInv, PostInv, NoneLater, Remembered, Apart

(* A request that only moves on, changing its own arguments at most, and   *)
(* takes a row that nobody has.                                            *)
LEMMA Moves ==
  ASSUME ViewsInv, NEW p \in Requests, UNCHANGED <<registryVars, viewed, total, counted>>,
         NEW next \in {"idle", "check", "begin"} \cup Running, Goto(p, next),
         NEW t \in Tx, next # "idle" => t.key \in Keys, tx' = [tx EXCEPT ![p] = t],
         outcome' \in [Requests -> Outcomes],
         visitorLock' \in [Keys -> Requests \cup {NoRequest}],
         totalLock' \in [Slugs -> Requests \cup {NoRequest}],
         \A k \in Keys : visitorLock[k] \in Requests \ {p} => visitorLock'[k] = visitorLock[k],
         \A s \in Slugs : totalLock[s] \in Requests \ {p} => totalLock'[s] = totalLock[s],
         RequestInv(p)'
  PROVE  ViewsInv'
<1>1. TypeOK'
  BY DEF ViewsInv, TypeOK, Goto, Tx, Outcomes, RegistryTypeOK, registryVars
<1>2. \A q \in Requests \ {p} : pc'[q] = pc[q] /\ tx'[q] = tx[q]
  BY DEF ViewsInv, TypeOK, Goto
<1>3. \A q \in Requests \ {p} : RequestInv(q)'
  BY <1>2, OthersKeep
<1> QED BY <1>1, <1>3, PostsKeep DEF ViewsInv

(* A statement that ends without counting. *)
LEMMA Drops ==
  ASSUME ViewsInv, NEW p \in Requests, NEW code \in Outcomes, Drop(p, code)
  PROVE  ViewsInv'
<1>1. NullTx \in Tx
  BY WindowAssumption DEF NullTx, Tx, Times
<1>2. /\ outcome' \in [Requests -> Outcomes]
      /\ visitorLock' \in [Keys -> Requests \cup {NoRequest}]
      /\ totalLock' \in [Slugs -> Requests \cup {NoRequest}]
      /\ \A k \in Keys : visitorLock[k] \in Requests \ {p} => visitorLock'[k] = visitorLock[k]
      /\ \A s \in Slugs : totalLock[s] \in Requests \ {p} => totalLock'[s] = totalLock[s]
  BY DEF Drop, Finish, ReleaseLocks, ViewsInv, TypeOK, Outcomes
<1>3. RequestInv(p)'
  BY DEF Drop, Finish, Goto, ViewsInv, TypeOK, RequestInv, VisitorInv, TotalInv
<1> QED BY <1>1, <1>2, <1>3, Moves DEF Drop, Finish

(* A view arrives, is checked and timed, and gets a connection. *)
LEMMA Proceeds ==
  ASSUME ViewsInv, NEW p \in Requests,
         (\E k \in Keys : Record(p, k)) \/ Check(p) \/ Begin(p)
  PROVE  ViewsInv'
<1>1. CASE Check(p) /\ Drop(p, "notfound")
  BY <1>1, Drops DEF Outcomes
<1>2. CASE \E k \in Keys : Record(p, k)
  <2> PICK k \in Keys : Record(p, k)
    BY <1>2
  <2> DEFINE t == [key |-> k, countedAt |-> 0, views |-> 0, client |-> TRUE]
  <2>1. t \in Tx /\ t.key \in Keys
    BY WindowAssumption DEF Tx, Times
  <2>2. /\ tx' = [tx EXCEPT ![p] = t] /\ outcome' \in [Requests -> Outcomes]
        /\ UNCHANGED lockVars
    BY DEF Record, ViewsInv, TypeOK, Outcomes
  <2>3. RequestInv(p)'
    BY DEF Record, Goto, ViewsInv, TypeOK, RequestInv, VisitorInv, TotalInv
  <2> HIDE DEF t
  <2> QED BY <2>1, <2>2, <2>3, Moves DEF Record, ViewsInv, TypeOK, lockVars
<1>3. CASE /\ pc[p] = "check" /\ Goto(p, "begin")
           /\ \E t \in Times : tx' = [tx EXCEPT ![p].countedAt = t]
           /\ UNCHANGED <<registryVars, viewed, total, lockVars, outcome, counted>>
  <2>1. PICK at \in Times : tx' = [tx EXCEPT ![p].countedAt = at]
    BY <1>3
  <2>2. tx[p] \in Tx /\ tx[p].key \in Keys
    BY <1>3, Asking DEF ViewsInv
  <2>3. [tx[p] EXCEPT !.countedAt = at] \in Tx /\ [tx[p] EXCEPT !.countedAt = at].key = tx[p].key
    BY <2>2 DEF Tx
  <2>4. PICK t \in Tx : t = [tx[p] EXCEPT !.countedAt = at] /\ t.key = tx[p].key
    BY <2>3, Zenon
  <2>5. tx' = [tx EXCEPT ![p] = t] /\ UNCHANGED <<visitorLock, totalLock>>
    BY <1>3, <2>1, <2>4 DEF lockVars
  <2>6. RequestInv(p)'
    BY <1>3 DEF Goto, ViewsInv, TypeOK, RequestInv, VisitorInv, TotalInv
  <2> QED BY <1>3, <2>2, <2>4, <2>5, <2>6, Moves DEF ViewsInv, TypeOK, Outcomes
<1>4. CASE Begin(p)
  <2>1. tx[p] \in Tx /\ tx[p].key \in Keys /\ tx' = [tx EXCEPT ![p] = tx[p]]
        /\ UNCHANGED <<visitorLock, totalLock>>
    BY <1>4, Asking DEF Begin, ViewsInv, TypeOK, lockVars
  <2>2. RequestInv(p)'
    BY <1>4 DEF Begin, Goto, ViewsInv, TypeOK, RequestInv, VisitorInv, TotalInv
  <2> QED BY <1>4, <2>1, <2>2, Moves DEF Begin, ViewsInv, TypeOK, Outcomes, Running
<1>5. Check(p) => \/ Drop(p, "notfound")
                  \/ /\ pc[p] = "check" /\ Goto(p, "begin")
                     /\ \E t \in Times : tx' = [tx EXCEPT ![p].countedAt = t]
                     /\ UNCHANGED <<registryVars, viewed, total, lockVars, outcome, counted>>
  BY Zenon DEF Check
<1> QED BY <1>1, <1>2, <1>3, <1>4, <1>5

(* The visitor's row is taken only if the view is due. *)
LEMMA TakesVisitor ==
  ASSUME ViewsInv, NEW p \in Requests, TakeVisitor(p)
  PROVE  ViewsInv'
<1>1. CASE Drop(p, "known")
  BY <1>1, Drops DEF Outcomes
<1>2. CASE ~Drop(p, "known")
  <2>1. /\ pc[p] = "visitor" /\ visitorLock[tx[p].key] = NoRequest
        /\ Due(viewed[tx[p].key], tx[p].countedAt)
        /\ visitorLock' = [visitorLock EXCEPT ![tx[p].key] = p] /\ Goto(p, "total")
        /\ UNCHANGED <<registryVars, viewed, total, totalLock, tx, outcome, counted>>
    BY <1>2, Zenon DEF TakeVisitor
  <2>2. tx[p] \in Tx /\ tx[p].key \in Keys /\ tx' = [tx EXCEPT ![p] = tx[p]]
    BY <2>1, Asking DEF ViewsInv, TypeOK
  <2>3. /\ visitorLock' \in [Keys -> Requests \cup {NoRequest}] /\ visitorLock'[tx[p].key] = p
        /\ \A k \in Keys : visitorLock[k] \in Requests \ {p} => visitorLock'[k] = visitorLock[k]
    BY <2>1, <2>2, NullAssumption DEF ViewsInv, TypeOK
  <2>4. RequestInv(p)'
    BY <2>1, <2>2, <2>3 DEF Goto, ViewsInv, TypeOK, RequestInv, VisitorInv, TotalInv, Due
  <2> QED BY <2>1, <2>2, <2>3, <2>4, Moves DEF ViewsInv, TypeOK, Outcomes, Running
<1> QED BY <1>1, <1>2

(* The total is read and taken at once. *)
LEMMA TakesTotal ==
  ASSUME ViewsInv, NEW p \in Requests, TakeTotal(p)
  PROVE  ViewsInv'
<1>1. /\ pc[p] = "total" /\ tx[p] \in Tx /\ tx[p].key \in Keys /\ Slug(p) \in Slugs
      /\ totalLock[Slug(p)] = NoRequest /\ RequestInv(p) /\ total[Slug(p)] \in Nat
  BY Asking DEF TakeTotal, ViewsInv, TypeOK
<1>2. /\ [tx[p] EXCEPT !.views = total[Slug(p)] + 1] \in Tx
      /\ [tx[p] EXCEPT !.views = total[Slug(p)] + 1].key = tx[p].key
      /\ [tx[p] EXCEPT !.views = total[Slug(p)] + 1].countedAt = tx[p].countedAt
      /\ [tx[p] EXCEPT !.views = total[Slug(p)] + 1].views = total[Slug(p)] + 1
  BY <1>1 DEF Tx
<1>3. PICK t \in Tx : /\ t = [tx[p] EXCEPT !.views = total[Slug(p)] + 1]
                      /\ t.key = tx[p].key /\ t.countedAt = tx[p].countedAt
                      /\ t.views = total[Slug(p)] + 1
  BY <1>2, Zenon
<1>4. /\ tx' = [tx EXCEPT ![p] = t] /\ tx'[p] = t /\ pc'[p] = "commit"
      /\ totalLock' = [totalLock EXCEPT ![Slug(p)] = p]
      /\ UNCHANGED <<viewed, total, visitorLock, outcome>>
  BY <1>3 DEF TakeTotal, Goto, ViewsInv, TypeOK
<1>5. /\ totalLock' \in [Slugs -> Requests \cup {NoRequest}] /\ totalLock'[Slug(p)] = p
      /\ \A s \in Slugs : totalLock[s] \in Requests \ {p} => totalLock'[s] = totalLock[s]
  BY <1>1, <1>4, NullAssumption DEF ViewsInv, TypeOK
<1>6. VisitorInv(p)'
  BY <1>1, <1>3, <1>4 DEF RequestInv, VisitorInv, Due
<1>7. TotalInv(p)'
  BY <1>1, <1>3, <1>4, <1>5 DEF TotalInv, Slug
<1> QED BY <1>1, <1>3, <1>4, <1>5, <1>6, <1>7, Moves
        DEF TakeTotal, RequestInv, ViewsInv, TypeOK, Outcomes, Running

(* A client goes away, or the statement it left behind is stopped. *)
LEMMA Leaves ==
  ASSUME ViewsInv, NEW p \in Requests, Abandon(p) \/ Rollback(p)
  PROVE  ViewsInv'
<1>1. CASE Rollback(p)
  BY <1>1, Drops DEF Rollback, Outcomes
<1>2. CASE Abandon(p) /\ pc[p] \in {"check", "begin"}
  <2>1. /\ Goto(p, "idle") /\ tx' = [tx EXCEPT ![p] = NullTx]
        /\ UNCHANGED <<registryVars, viewed, total, lockVars, counted>>
        /\ outcome' \in [Requests -> Outcomes]
    BY <1>2 DEF Abandon, Running, ViewsInv, TypeOK, Outcomes
  <2>2. RequestInv(p)'
    BY <2>1 DEF Goto, ViewsInv, TypeOK, RequestInv, VisitorInv, TotalInv
  <2>3. NullTx \in Tx
    BY WindowAssumption DEF NullTx, Tx, Times
  <2> QED BY <2>1, <2>2, <2>3, Moves DEF ViewsInv, TypeOK, lockVars
<1>3. CASE Abandon(p) /\ pc[p] \in Running
  <2>1. tx[p] \in Tx /\ tx[p].key \in Keys /\ RequestInv(p)
    BY <1>3, Asking DEF Running, ViewsInv
  <2>2. /\ [tx[p] EXCEPT !.client = FALSE] \in Tx
        /\ [tx[p] EXCEPT !.client = FALSE].key = tx[p].key
        /\ [tx[p] EXCEPT !.client = FALSE].countedAt = tx[p].countedAt
        /\ [tx[p] EXCEPT !.client = FALSE].views = tx[p].views
    BY <2>1 DEF Tx
  <2>3. PICK t \in Tx : /\ t = [tx[p] EXCEPT !.client = FALSE] /\ t.key = tx[p].key
                        /\ t.countedAt = tx[p].countedAt /\ t.views = tx[p].views
    BY <2>2, Zenon
  <2>4. /\ tx' = [tx EXCEPT ![p] = t] /\ tx'[p] = t /\ pc' = pc /\ pc' = [pc EXCEPT ![p] = pc[p]]
        /\ UNCHANGED <<registryVars, viewed, total, visitorLock, totalLock, counted>>
        /\ outcome' \in [Requests -> Outcomes]
    BY <1>3, <2>3 DEF Abandon, Running, ViewsInv, TypeOK, lockVars, Outcomes
  <2>5. RequestInv(p)'
    BY <2>1, <2>3, <2>4 DEF RequestInv, VisitorInv, TotalInv, Slug, Due
  <2> QED BY <1>3, <2>1, <2>3, <2>4, <2>5, Moves DEF ViewsInv, TypeOK, Goto
<1> QED BY <1>1, <1>2, <1>3 DEF Abandon

(* What is recorded of a counted view, and how one is added.               *)
LEMMA Recorded ==
  ASSUME TypeOK, NEW s \in Slugs
  PROVE  /\ Len(counted[s]) \in Nat
         /\ \A i \in 1..Len(counted[s]) : /\ counted[s][i].visitor \in Visitors
                                         /\ counted[s][i].at \in Nat
         /\ \A v \in Visitors, at \in Times :
              LET more == Append(counted[s], [visitor |-> v, at |-> at])
              IN /\ more \in Seq([visitor : Visitors, at : Times])
                 /\ Len(more) = Len(counted[s]) + 1
                 /\ more[Len(counted[s]) + 1] = [visitor |-> v, at |-> at]
                 /\ \A i \in 1..Len(counted[s]) : more[i] = counted[s][i]
<1> DEFINE Events == [visitor : Visitors, at : Times]
<1>1. counted[s] \in Seq(Events) /\ \A e \in Events : e.visitor \in Visitors /\ e.at \in Times
  BY DEF TypeOK
<1>2. \A v \in Visitors, at \in Times : [visitor |-> v, at |-> at] \in Events
  OBVIOUS
<1>3. Times \subseteq Nat
  BY WindowAssumption DEF Times
<1> HIDE DEF Events
<1>4. Len(counted[s]) \in Nat /\ \A i \in 1..Len(counted[s]) : counted[s][i] \in Events
  BY <1>1
<1>5. ASSUME NEW v \in Visitors, NEW at \in Times
      PROVE  LET more == Append(counted[s], [visitor |-> v, at |-> at])
             IN /\ more \in Seq(Events)
                /\ Len(more) = Len(counted[s]) + 1
                /\ more[Len(counted[s]) + 1] = [visitor |-> v, at |-> at]
                /\ \A i \in 1..Len(counted[s]) : more[i] = counted[s][i]
  <2>1. PICK e \in Events : e = [visitor |-> v, at |-> at]
    BY <1>2
  <2> QED BY <1>1, <2>1
<1> QED BY <1>1, <1>3, <1>4, <1>5 DEF Events

(* One more view of a post, due when it is counted, keeps the account.     *)
LEMMA Counting ==
  ASSUME ViewsInv, NEW s \in Slugs, NEW v \in Visitors, NEW at \in Times,
         Due(viewed[<<s, v>>], at),
         viewed' = [viewed EXCEPT ![<<s, v>>] = at],
         total' = [total EXCEPT ![s] = total[s] + 1],
         counted' = [counted EXCEPT ![s] = Append(@, [visitor |-> v, at |-> at])]
  PROVE  \A u \in Slugs : PostInv(u)'
<1>1. /\ counted \in [Slugs -> Seq([visitor : Visitors, at : Times])]
      /\ viewed \in [Keys -> Times \cup {Never}] /\ total \in [Slugs -> Nat]
      /\ \A u \in Slugs : PostInv(u)
      /\ TypeOK
  BY DEF ViewsInv, TypeOK
<1>0. Times \subseteq Nat /\ at \in Nat /\ at # Never /\ Window \in Nat
  <2>1. Times \subseteq Nat /\ Window \in Nat
    BY WindowAssumption DEF Times
  <2> QED BY <2>1, NullAssumption
<1>2. ASSUME NEW u \in Slugs, u # s PROVE PostInv(u)'
  <2>1. /\ counted'[u] = counted[u] /\ total'[u] = total[u]
        /\ \A x \in Visitors : viewed'[<<u, x>>] = viewed[<<u, x>>]
    BY <1>1, <1>2 DEF Keys
  <2>2. \A i \in 1..Len(counted[u]) : counted[u][i].visitor \in Visitors
    BY <1>1, Recorded
  <2>3. PostInv(u)
    BY <1>1
  <2>4. total'[u] = Len(counted'[u]) /\ Apart(counted'[u])
    <3>1. total[u] = Len(counted[u]) /\ Apart(counted[u])
      BY <2>3 DEF PostInv
    <3>2. Apart(counted'[u])
      BY <2>1, <3>1
    <3> QED BY <2>1, <3>1, <3>2
  <2>5. NoneLater(u)'
    BY <2>1, <2>2, <2>3 DEF PostInv, NoneLater
  <2>6. Remembered(u)'
    BY <2>1, <2>2, <2>3 DEF PostInv, Remembered
  <2> QED BY <2>4, <2>5, <2>6 DEF PostInv
<1>3. PostInv(s)'
  <2> DEFINE n == Len(counted[s])
  <2>1. /\ n \in Nat /\ Len(counted'[s]) = n + 1
        /\ counted'[s][n + 1].visitor = v /\ counted'[s][n + 1].at = at
        /\ \A i \in 1..n : /\ counted'[s][i] = counted[s][i]
                           /\ counted[s][i].visitor \in Visitors /\ counted[s][i].at \in Nat
    <3>1. counted'[s] = Append(counted[s], [visitor |-> v, at |-> at])
      BY <1>1
    <3> HIDE DEF n
    <3>2. counted'[s][n + 1] = [visitor |-> v, at |-> at]
      BY <1>1, <3>1, Recorded DEF n
    <3> QED BY <1>1, <3>1, <3>2, Recorded DEF n
  <2>2. /\ viewed'[<<s, v>>] = at
        /\ \A x \in Visitors : x # v => viewed'[<<s, x>>] = viewed[<<s, x>>]
    BY <1>1 DEF Keys
  <2>3. \A i \in 1..n : counted[s][i].visitor = v => counted[s][i].at <= at - Window
    <3> SUFFICES ASSUME NEW i \in 1..n, counted[s][i].visitor = v
                 PROVE  counted[s][i].at <= at - Window
      OBVIOUS
    <3>1. viewed[<<s, v>>] # Never /\ counted[s][i].at <= viewed[<<s, v>>]
      BY <1>1 DEF PostInv, NoneLater
    <3>2. viewed[<<s, v>>] \in Nat /\ viewed[<<s, v>>] <= at - Window
      BY <1>0, <1>1, <3>1 DEF Due, Keys
    <3> QED BY <1>0, <1>1, <2>1, <3>1, <3>2
  <2>4. total[s] = n /\ NoneLater(s) /\ Remembered(s) /\ Apart(counted[s])
    BY <1>1 DEF PostInv
  <2> HIDE DEF n
  <2>5. total'[s] = Len(counted'[s])
    BY <1>1, <2>1, <2>4
  <2>6. NoneLater(s)'
    <3> SUFFICES ASSUME NEW i \in 1..(n + 1)
                 PROVE  /\ viewed'[<<s, counted'[s][i].visitor>>] # Never
                        /\ counted'[s][i].at <= viewed'[<<s, counted'[s][i].visitor>>]
      BY <2>1 DEF NoneLater
    <3>1. CASE i = n + 1
      <4>1. counted'[s][i].visitor = v /\ counted'[s][i].at = at
        BY <2>1, <3>1
      <4>2. viewed'[<<s, counted'[s][i].visitor>>] = at
        BY <2>2, <4>1
      <4>3. at # Never /\ at <= at
        BY <1>0
      <4> QED BY <4>1, <4>2, <4>3, Zenon
    <3>2. CASE i \in 1..n
      <4>1. counted'[s][i] = counted[s][i] /\ counted[s][i].visitor \in Visitors
            /\ counted[s][i].at \in Nat
        BY <2>1, <3>2
      <4>2. CASE counted[s][i].visitor = v
        <5>1. counted[s][i].at <= at
          BY <1>0, <2>3, <3>2, <4>1, <4>2
        <5> QED BY <1>0, <2>2, <4>1, <4>2, <5>1
      <4>3. CASE counted[s][i].visitor # v
        BY <2>2, <2>4, <3>2, <4>1, <4>3 DEF NoneLater, n
      <4> QED BY <4>2, <4>3
    <3>3. n \in Nat
      BY <2>1
    <3>4. i = n + 1 \/ i \in 1..n
      BY <3>3
    <3> QED BY <3>1, <3>2, <3>4
  <2>7. Remembered(s)'
    <3> SUFFICES ASSUME NEW x \in Visitors, viewed'[<<s, x>>] # Never
                 PROVE  \E i \in 1..(n + 1) : /\ counted'[s][i].visitor = x
                                              /\ counted'[s][i].at = viewed'[<<s, x>>]
      BY <2>1 DEF Remembered
    <3>1. CASE x = v
      <4>1. n + 1 \in 1..(n + 1)
        BY <2>1
      <4> QED BY <2>1, <2>2, <3>1, <4>1
    <3>2. CASE x # v
      <4>1. PICK i \in 1..n : counted[s][i].visitor = x /\ counted[s][i].at = viewed[<<s, x>>]
        BY <2>2, <2>4, <3>2 DEF Remembered, n
      <4>2. i \in 1..(n + 1) /\ counted'[s][i] = counted[s][i]
        BY <2>1
      <4> QED BY <2>2, <3>2, <4>1, <4>2
    <3> QED BY <3>1, <3>2
  <2>8. Apart(counted'[s])
    <3> SUFFICES ASSUME NEW i \in 1..(n + 1), NEW j \in 1..(n + 1), i < j,
                        counted'[s][i].visitor = counted'[s][j].visitor
                 PROVE  counted'[s][j].at >= counted'[s][i].at + Window
      BY <2>1 DEF Apart
    <3>1. i \in 1..n /\ counted'[s][i] = counted[s][i] /\ counted[s][i].at \in Nat
      BY <2>1
    <3>2. CASE j = n + 1
      BY <1>0, <2>1, <2>3, <3>1, <3>2
    <3>3. CASE j \in 1..n
      BY <2>1, <2>4, <3>1, <3>3 DEF Apart, n
    <3> QED BY <2>1, <3>2, <3>3
  <2> QED BY <2>5, <2>6, <2>7, <2>8 DEF PostInv
<1> QED BY <1>2, <1>3

(* A counted view and its total appear together, and nobody else was       *)
(* about to write either.                                                  *)
LEMMA Commits ==
  ASSUME ViewsInv, NEW p \in Requests, Commit(p)
  PROVE  ViewsInv'
<1>1. /\ pc[p] = "commit" /\ tx[p] \in Tx /\ tx[p].key \in Keys /\ RequestInv(p)
      /\ tx[p].countedAt \in Times /\ tx[p].views \in Nat
  BY Asking DEF Commit, ViewsInv
<1>2. PICK s \in Slugs, v \in Visitors, at \in Times :
        /\ tx[p].key = <<s, v>> /\ Slug(p) = s /\ tx[p].key[2] = v /\ at = tx[p].countedAt
  BY <1>1, Asking DEF ViewsInv
<1>3. /\ visitorLock[<<s, v>>] = p /\ totalLock[s] = p /\ Due(viewed[<<s, v>>], at)
      /\ tx[p].views = total[s] + 1
  BY <1>1, <1>2 DEF RequestInv, VisitorInv, TotalInv
<1>4. /\ viewed' = [viewed EXCEPT ![<<s, v>>] = at]
      /\ total' = [total EXCEPT ![s] = total[s] + 1]
      /\ counted' = [counted EXCEPT ![s] = Append(@, [visitor |-> v, at |-> at])]
  BY <1>2, <1>3 DEF Commit
<1>5. PICK code \in Outcomes : Finish(p, code)
  BY DEF Commit, Outcomes
<1>6. /\ pc' = [pc EXCEPT ![p] = "idle"] /\ tx' = [tx EXCEPT ![p] = NullTx] /\ NullTx \in Tx
      /\ outcome' \in [Requests -> Outcomes]
      /\ visitorLock' \in [Keys -> Requests \cup {NoRequest}]
      /\ totalLock' \in [Slugs -> Requests \cup {NoRequest}]
      /\ UNCHANGED registryVars
  BY <1>5, WindowAssumption
     DEF Finish, Goto, ReleaseLocks, NullTx, Tx, Times, Outcomes, ViewsInv, TypeOK
<1>7. TypeOK'
  <2>1. /\ viewed' \in [Keys -> Times \cup {Never}] /\ total' \in [Slugs -> Nat]
        /\ counted' \in [Slugs -> Seq([visitor : Visitors, at : Times])]
    <3>1. <<s, v>> \in Keys /\ TypeOK
      BY DEF Keys, ViewsInv
    <3>2. viewed' \in [Keys -> Times \cup {Never}]
      BY <1>4, <3>1 DEF TypeOK
    <3>3. total' \in [Slugs -> Nat]
      BY <1>4, <3>1 DEF TypeOK
    <3>4. Append(counted[s], [visitor |-> v, at |-> at]) \in Seq([visitor : Visitors, at : Times])
      BY <3>1, Recorded
    <3>5. counted' \in [Slugs -> Seq([visitor : Visitors, at : Times])]
      BY <1>4, <3>1, <3>4 DEF TypeOK
    <3> QED BY <3>2, <3>3, <3>5
  <2> QED BY <1>6, <2>1 DEF ViewsInv, TypeOK, Tx, Outcomes, RegistryTypeOK, registryVars
<1>8. RequestInv(p)'
  BY <1>6 DEF RequestInv, VisitorInv, TotalInv, ViewsInv, TypeOK
<1>9. ASSUME NEW q \in Requests, q # p PROVE RequestInv(q)'
  <2>1. pc'[q] = pc[q] /\ tx'[q] = tx[q] /\ RequestInv(q)
    BY <1>6, <1>9 DEF ViewsInv, TypeOK
  <2>2. VisitorInv(q)'
    <3> SUFFICES ASSUME pc[q] \in {"total", "commit"}
                 PROVE  /\ visitorLock'[tx[q].key] = q
                        /\ Due(viewed'[tx[q].key], tx[q].countedAt)
      BY <2>1 DEF VisitorInv, Due
    <3>1. tx[q].key \in Keys /\ visitorLock[tx[q].key] = q
          /\ Due(viewed[tx[q].key], tx[q].countedAt)
      BY <2>1, Asking DEF RequestInv, VisitorInv, ViewsInv
    <3>2. tx[q].key # <<s, v>>
      BY <1>3, <1>9, <3>1
    <3>3. viewed'[tx[q].key] = viewed[tx[q].key]
      BY <1>2, <1>4, <3>1, <3>2 DEF ViewsInv, TypeOK
    <3>4. visitorLock'[tx[q].key] = q
      BY <1>5, <1>9, <3>1 DEF Finish, ReleaseLocks
    <3> QED BY <3>1, <3>3, <3>4
  <2>3. TotalInv(q)'
    <3> SUFFICES ASSUME pc[q] = "commit"
                 PROVE  totalLock'[Slug(q)] = q /\ tx[q].views = total'[Slug(q)] + 1
      BY <2>1 DEF TotalInv, Slug
    <3>1. Slug(q) \in Slugs /\ totalLock[Slug(q)] = q /\ tx[q].views = total[Slug(q)] + 1
      BY <2>1, Asking DEF RequestInv, TotalInv, ViewsInv
    <3>2. Slug(q) # s
      BY <1>3, <1>9, <3>1
    <3>3. total'[Slug(q)] = total[Slug(q)]
      BY <1>4, <3>1, <3>2 DEF ViewsInv, TypeOK
    <3>4. totalLock'[Slug(q)] = q
      BY <1>5, <1>9, <3>1 DEF Finish, ReleaseLocks
    <3> QED BY <3>1, <3>3, <3>4
  <2> QED BY <2>2, <2>3 DEF RequestInv
<1>10. \A u \in Slugs : PostInv(u)'
  BY <1>3, <1>4, Counting
<1> QED BY <1>7, <1>8, <1>9, <1>10 DEF ViewsInv

(* Every step keeps the invariant. *)
LEMMA ViewsStepKeeps ==
  ASSUME ViewsInv, [Next]_vars
  PROVE  ViewsInv'
<1>1. CASE \E p \in Requests : RequestStep(p)
  BY <1>1, Proceeds, TakesVisitor, TakesTotal, Commits, Leaves DEF RequestStep, Serve
<1>2. CASE UNCHANGED viewVars /\ (RegistryStep(EnvRows) \/ UNCHANGED registryVars)
  <2>1. RegistryTypeOK'
    BY <1>2, RegistryStepTyped, EnvRowsAssumption DEF ViewsInv, TypeOK, RegistryTypeOK, registryVars
  <2>2. UNCHANGED <<viewed, total, visitorLock, totalLock, pc, tx, outcome, counted>>
    BY <1>2 DEF viewVars, lockVars, requestVars
  <2>3. TypeOK'
    BY <2>1, <2>2 DEF ViewsInv, TypeOK
  <2>4. \A p \in Requests : RequestInv(p)'
    BY <2>2 DEF ViewsInv, RequestInv, VisitorInv, TotalInv, Slug, Due
  <2> QED BY <2>2, <2>3, <2>4, PostsKeep DEF ViewsInv
<1> QED BY <1>1, <1>2 DEF Next, vars

(* No views and no requests satisfy the invariant. *)
LEMMA ViewsStart ==
  ASSUME Init
  PROVE  ViewsInv
<1>1. TypeOK
  BY EnvRowsAssumption, WindowAssumption DEF Init, TypeOK, RegistryTypeOK, NullTx, Times
<1>2. \A p \in Requests : RequestInv(p)
  BY DEF Init, RequestInv, VisitorInv, TotalInv
<1>3. \A s \in Slugs : PostInv(s)
  <2> SUFFICES ASSUME NEW s \in Slugs PROVE PostInv(s)
    OBVIOUS
  <2>1. total[s] = 0 /\ counted[s] = <<>> /\ \A v \in Visitors : viewed[<<s, v>>] = Never
    BY DEF Init, Keys
  <2>2. Len(counted[s]) = 0
    BY <2>1
  <2> QED BY <2>1, <2>2 DEF PostInv, NoneLater, Remembered, Apart
<1> QED BY <1>1, <1>2, <1>3 DEF ViewsInv

(* A view that is found not to count meets the row of one that did. *)
LEMMA KnownHasReason ==
  ASSUME ViewsInv, Next, NEW p \in Requests, outcome[p] = "none", outcome'[p] = "known"
  PROVE  \E i \in 1..Len(counted[Slug(p)]) :
           /\ counted[Slug(p)][i].visitor = tx[p].key[2]
           /\ counted[Slug(p)][i].at > tx[p].countedAt - Window
<1>1. outcome \in [Requests -> Outcomes]
  BY DEF ViewsInv, TypeOK, Outcomes
<1>2. RequestStep(p)
  <2>1. PICK q \in Requests : RequestStep(q)
    BY DEF Next, viewVars, requestVars
  <2>2. \A r \in Requests \ {q} : outcome'[r] = outcome[r]
    BY <1>1, <2>1 DEF RequestStep, Serve, Record, Check, Begin, TakeVisitor, TakeTotal, Commit,
                     Abandon, Rollback, Drop, Finish
  <2> QED BY <2>1, <2>2
<1>3. TakeVisitor(p) /\ ~Due(viewed[tx[p].key], tx[p].countedAt)
  BY <1>1, <1>2 DEF RequestStep, Serve, Record, Check, Begin, TakeVisitor, TakeTotal, Commit,
                    Abandon, Rollback, Drop, Finish
<1>4. /\ tx[p].key \in Keys /\ Slug(p) \in Slugs /\ tx[p].key[2] \in Visitors
      /\ tx[p].key = <<Slug(p), tx[p].key[2]>> /\ tx[p].countedAt \in Times
  BY <1>3, Asking DEF TakeVisitor, ViewsInv
<1>5. viewed[tx[p].key] # Never /\ ~(viewed[tx[p].key] <= tx[p].countedAt - Window)
  BY <1>3 DEF Due
<1>6. viewed[tx[p].key] \in Nat /\ tx[p].countedAt \in Nat /\ Window \in Nat
  BY <1>4, <1>5, WindowAssumption DEF ViewsInv, TypeOK, Times
<1>7. PICK i \in 1..Len(counted[Slug(p)]) :
        counted[Slug(p)][i].visitor = tx[p].key[2] /\ counted[Slug(p)][i].at = viewed[tx[p].key]
  <2>1. PICK s \in Slugs, v \in Visitors : s = Slug(p) /\ v = tx[p].key[2] /\ tx[p].key = <<s, v>>
    BY <1>4
  <2>2. viewed[<<s, v>>] # Never /\ Remembered(s)
    BY <1>5, <2>1 DEF ViewsInv, PostInv
  <2>3. \E i \in 1..Len(counted[s]) : counted[s][i].visitor = v /\ counted[s][i].at = viewed[<<s, v>>]
    BY <2>2 DEF Remembered
  <2> QED BY <2>1, <2>3
<1> QED BY <1>5, <1>6, <1>7
-----------------------------------------------------------------------------
(* The inductive invariant holds in every reachable state. *)
THEOREM ViewsInvariant == Spec => []ViewsInv
BY ViewsStart, ViewsStepKeeps, PTL DEF Spec

(* Rows, locks and requests keep their types. *)
THEOREM ViewsTypeCorrect == Spec => []TypeOK
<1>1. ViewsInv => TypeOK
  BY DEF ViewsInv
<1> QED BY <1>1, ViewsInvariant, PTL

(* The total of every post is the number of views counted for it. *)
THEOREM TotalsAddUp == Spec => []ViewsAddUp
<1>1. ViewsInv => ViewsAddUp
  BY DEF ViewsInv, PostInv, ViewsAddUp
<1> QED BY <1>1, ViewsInvariant, PTL

(* Views of one visitor that count are a window apart, whatever times the  *)
(* requests carry and in whatever order they get to the visitor's row.     *)
THEOREM WindowRolls == Spec => []RollingWindow
<1>1. ViewsInv => RollingWindow
  BY DEF ViewsInv, PostInv, Apart, RollingWindow
<1> QED BY <1>1, ViewsInvariant, PTL

(* No view is dropped on account of one that failed. *)
THEOREM KnownJustified == Spec => KnownForAReason
<1>1. ASSUME ViewsInv, [Next]_vars
      PROVE  [\A p \in Requests :
                outcome[p] = "none" /\ outcome'[p] = "known" =>
                  \E i \in 1..Len(counted[Slug(p)]) :
                    /\ counted[Slug(p)][i].visitor = tx[p].key[2]
                    /\ counted[Slug(p)][i].at > tx[p].countedAt - Window]_vars
  BY <1>1, KnownHasReason
<1> QED BY <1>1, ViewsInvariant, PTL DEF Spec, KnownForAReason
=============================================================================
