--------------------------- MODULE ProcessProofs ---------------------------
(***************************************************************************)
(* What the API process is apart from its database: its limiters, the edge *)
(* public writes come through, and its life from start to exit.  For every *)
(* allowance, window and table size, every number of visitors, handlers,   *)
(* proxies and connections, every header and every setting.                *)
(***************************************************************************)
EXTENDS RateLimiter, PublicEdge, Lifecycle, FiniteSetTheorems, TLAPS

(* What an entry says of the past: its window has begun, and its visitor   *)
(* was let in count times since, most recently at the end of its history.  *)
EntryTrue(v) ==
  v \in Held =>
    /\ user[v].windowStart <= clock
    /\ Len(admitted[v]) >= user[v].count
    /\ \A n \in (Len(admitted[v]) - user[v].count + 1)..Len(admitted[v]) :
         admitted[v][n] >= user[v].windowStart

(* Times read before the mutex are never ahead of the clock. *)
CallsInThePast == \A r \in Requests : waiting[r] # Absent => waiting[r].now <= clock

RInv == TypeOK /\ Bounded /\ CallsInThePast /\ \A v \in Visitors : EntryTrue(v)

(* A place in the table more is one visitor more. *)
LEMMA OneMore ==
  ASSUME NEW S, IsFiniteSet(S), NEW x, NEW n \in Nat, Cardinality(S) < n
  PROVE  Cardinality(S \cup {x}) <= n
<1>1. Cardinality(S) \in Nat
  BY FS_CardinalityType
<1>2. Cardinality(S \cup {x}) = Cardinality(S) \/ Cardinality(S \cup {x}) = Cardinality(S) + 1
  BY FS_AddElement
<1> QED BY <1>1, <1>2

(* The table is finite, and the sweep only takes from it. *)
LEMMA Sweeping ==
  ASSUME NEW now
  PROVE  /\ IsFiniteSet(Held) /\ Cardinality(Held) \in Nat
         /\ Swept(now) \subseteq Held /\ IsFiniteSet(Swept(now))
         /\ Cardinality(Swept(now)) <= Cardinality(Held)
<1>1. Held \subseteq Visitors /\ Swept(now) \subseteq Held
  BY DEF Held, Swept
<1>2. IsFiniteSet(Held)
  BY <1>1, VisitorsAssumption, FS_Subset
<1>3. IsFiniteSet(Swept(now)) /\ Cardinality(Swept(now)) <= Cardinality(Held)
  BY <1>1, <1>2, FS_Subset
<1> QED BY <1>1, <1>2, <1>3, FS_CardinalityType

(* Letting v in at the present extends its history by one.                 *)
LEMMA History ==
  ASSUME RInv, NEW v \in Visitors, Admitted(v)
  PROVE  /\ admitted' \in [Visitors -> Seq(0..MaxTime)]
         /\ Len(admitted[v]) \in Nat /\ Len(admitted'[v]) = Len(admitted[v]) + 1
         /\ admitted'[v][Len(admitted[v]) + 1] = clock
         /\ \A n \in 1..Len(admitted[v]) : admitted'[v][n] = admitted[v][n]
         /\ \A u \in Visitors : u # v => admitted'[u] = admitted[u]
<1>1. admitted \in [Visitors -> Seq(0..MaxTime)] /\ clock \in 0..MaxTime
  BY DEF RInv, TypeOK
<1>2. admitted[v] \in Seq(0..MaxTime) /\ admitted'[v] = Append(admitted[v], clock)
  BY <1>1 DEF Admitted
<1>3. Append(admitted[v], clock) \in Seq(0..MaxTime)
  BY <1>1, <1>2
<1> QED BY <1>1, <1>2, <1>3 DEF Admitted

(* What every way of letting a visitor in has in common: the others keep   *)
(* their entries or lose them to the sweep, and v's entry gets window w    *)
(* and count c, one more than before if it continues that window.          *)
LEMMA LettingIn ==
  ASSUME RInv, NEW v \in Visitors, Admitted(v), clock' = clock,
         NEW w \in 0..MaxTime, w <= clock, NEW c \in 1..Limit,
         c = 1 \/ (v \in Held /\ user[v] = [windowStart |-> w, count |-> c - 1]),
         NEW S \in SUBSET Held, Cardinality(S \cup {v}) <= MaxKeys,
         user' = [u \in Visitors |-> IF u = v THEN [windowStart |-> w, count |-> c]
                                     ELSE IF u \in S THEN user[u] ELSE Absent]
  PROVE  /\ user' \in [Visitors -> {Absent} \cup [windowStart : 0..MaxTime, count : 1..Limit]]
         /\ admitted' \in [Visitors -> Seq(0..MaxTime)]
         /\ Bounded'
         /\ \A u \in Visitors : EntryTrue(u)'
<1>1. /\ clock \in Nat /\ w \in Nat /\ c \in Nat \ {0} /\ Limit \in Nat
      /\ user \in [Visitors -> {Absent} \cup [windowStart : 0..MaxTime, count : 1..Limit]]
  BY LimitsAssumption, TimeAssumption DEF RInv, TypeOK
<1>2. [windowStart |-> w, count |-> c] # Absent
  BY <1>1, AbsentAssumption
<1>3. user' \in [Visitors -> {Absent} \cup [windowStart : 0..MaxTime, count : 1..Limit]]
  BY <1>1
<1>4. Held' = S \cup {v}
  BY <1>1, <1>2 DEF Held
<1>5. Bounded'
  BY <1>4 DEF Bounded
<1>6. EntryTrue(v)'
  <2>1. /\ user'[v].windowStart = w /\ user'[v].count = c /\ Len(admitted[v]) \in Nat
        /\ Len(admitted'[v]) = Len(admitted[v]) + 1
        /\ admitted'[v][Len(admitted[v]) + 1] = clock
        /\ \A n \in 1..Len(admitted[v]) : admitted'[v][n] = admitted[v][n]
    BY History
  <2>2. c - 1 <= Len(admitted[v])
        /\ \A n \in (Len(admitted[v]) - (c - 1) + 1)..Len(admitted[v]) : admitted[v][n] >= w
    <3>1. CASE c = 1
      BY <2>1, <3>1
    <3>2. CASE v \in Held /\ user[v] = [windowStart |-> w, count |-> c - 1]
      <4>1. user[v].windowStart = w /\ user[v].count = c - 1 /\ EntryTrue(v)
        BY <3>2 DEF RInv
      <4> QED BY <1>1, <2>1, <3>2, <4>1 DEF EntryTrue
    <3> QED BY <3>1, <3>2
  <2>3. ASSUME NEW n \in (Len(admitted'[v]) - c + 1)..Len(admitted'[v])
        PROVE  admitted'[v][n] >= w
    <3>1. CASE n = Len(admitted[v]) + 1
      BY <1>1, <2>1, <3>1
    <3>2. CASE n # Len(admitted[v]) + 1
      <4>1. n \in (Len(admitted[v]) - (c - 1) + 1)..Len(admitted[v]) /\ n \in 1..Len(admitted[v])
        BY <1>1, <2>1, <2>2, <3>2
      <4> QED BY <2>1, <2>2, <4>1
    <3> QED BY <3>1, <3>2
  <2>4. Len(admitted'[v]) >= c
    BY <1>1, <2>1, <2>2
  <2> QED BY <2>1, <2>3, <2>4 DEF EntryTrue
<1>7. ASSUME NEW u \in Visitors, u # v PROVE EntryTrue(u)'
  <2>1. u \in Held' => u \in Held /\ user'[u] = user[u]
    BY <1>4, <1>7
  <2>2. admitted'[u] = admitted[u] /\ EntryTrue(u)
    BY <1>7, History DEF RInv
  <2> QED BY <2>1, <2>2 DEF EntryTrue
<1> QED BY <1>3, <1>5, <1>6, <1>7, History

(* The invariant survives the critical section. *)
LEMMA AllowKeeps ==
  ASSUME RInv, NEW r \in Requests, Allow(r)
  PROVE  RInv'
<1>1. /\ waiting[r].visitor \in Visitors /\ waiting[r].now \in 0..MaxTime
      /\ waiting[r].now <= clock /\ clock' = clock
  BY DEF RInv, TypeOK, CallsInThePast, Allow
<1>2. PICK v \in Visitors, now \in 0..MaxTime : v = waiting[r].visitor /\ now = waiting[r].now
  BY <1>1
<1>3. /\ waiting' \in [Requests -> {Absent} \cup [visitor : Visitors, now : 0..MaxTime]]
      /\ CallsInThePast' /\ clock' \in 0..MaxTime
  BY <1>1 DEF RInv, TypeOK, CallsInThePast, Allow
<1>4. user \in [Visitors -> {Absent} \cup [windowStart : 0..MaxTime, count : 1..Limit]]
  BY DEF RInv, TypeOK
<1>5. Held \in SUBSET Held /\ Cardinality(Held) <= MaxKeys /\ Held \subseteq Visitors
  BY DEF RInv, Bounded, Held
<1>6. SUFFICES /\ user' \in [Visitors -> {Absent} \cup [windowStart : 0..MaxTime, count : 1..Limit]]
               /\ admitted' \in [Visitors -> Seq(0..MaxTime)]
               /\ Bounded'
               /\ \A u \in Visitors : EntryTrue(u)'
  BY <1>3 DEF RInv, TypeOK
<1>7. CASE /\ v \in Held /\ Admitted(v)
           /\ user' = [user EXCEPT ![v] = [windowStart |-> now, count |-> 1]]
  <2>1. user' = [u \in Visitors |-> IF u = v THEN [windowStart |-> now, count |-> 1]
                                    ELSE IF u \in Held THEN user[u] ELSE Absent]
    BY <1>4, <1>7 DEF Held
  <2>2. 1 \in 1..Limit /\ now <= clock
    BY <1>1, <1>2, LimitsAssumption
  <2>3. Cardinality(Held \cup {v}) <= MaxKeys
    <3>1. Held \cup {v} = Held
      BY <1>7
    <3> QED BY <1>5, <3>1
  <2>4. Admitted(v) /\ clock' = clock /\ Held \in SUBSET Held
    BY <1>1, <1>7
  <2> HIDE DEF Admitted
  <2> QED BY <2>1, <2>2, <2>3, <2>4, LettingIn
<1>8. CASE /\ v \in Held /\ user[v].count < Limit /\ Admitted(v)
           /\ user' = [user EXCEPT ![v].count = @ + 1]
  <2>1. user[v] \in [windowStart : 0..MaxTime, count : 1..Limit]
    BY <1>4, <1>8 DEF Held
  <2>2. PICK w \in 0..MaxTime, k \in 1..Limit : user[v] = [windowStart |-> w, count |-> k]
    BY <2>1
  <2>3. PICK c \in 1..Limit : c = k + 1 /\ k = c - 1
    <3>1. k < Limit
      BY <1>8, <2>2
    <3> QED BY <3>1, LimitsAssumption
  <2>4. [user[v] EXCEPT !.count = @ + 1] = [windowStart |-> w, count |-> c]
    BY <2>2, <2>3
  <2>5. user' = [u \in Visitors |-> IF u = v THEN [windowStart |-> w, count |-> c]
                                    ELSE IF u \in Held THEN user[u] ELSE Absent]
    BY <1>4, <1>8, <2>4 DEF Held
  <2>6. Cardinality(Held \cup {v}) <= MaxKeys
    <3>1. Held \cup {v} = Held
      BY <1>8
    <3> QED BY <1>5, <3>1
  <2>7. w <= clock
    BY <1>8, <2>2 DEF RInv, EntryTrue
  <2>8. /\ Admitted(v) /\ clock' = clock /\ Held \in SUBSET Held
        /\ v \in Held /\ user[v] = [windowStart |-> w, count |-> c - 1]
    BY <1>1, <1>8, <2>2, <2>3
  <2> QED BY <2>5, <2>6, <2>7, <2>8, LettingIn
<1>9. CASE /\ v \notin Held /\ Cardinality(Swept(now)) < MaxKeys /\ Admitted(v)
           /\ user' = [u \in Visitors |-> IF u = v THEN [windowStart |-> now, count |-> 1]
                                          ELSE IF u \in Swept(now) THEN user[u] ELSE Absent]
  <2>1. Swept(now) \in SUBSET Held /\ Cardinality(Swept(now) \cup {v}) <= MaxKeys
    BY <1>9, Sweeping, OneMore, LimitsAssumption
  <2>2. 1 \in 1..Limit
    BY LimitsAssumption
  <2> QED BY <1>1, <1>2, <1>9, <2>1, <2>2, LettingIn
<1>10. CASE UNCHANGED <<user, admitted>>
  BY <1>1, <1>10 DEF RInv, TypeOK, Bounded, Held, EntryTrue
<1>11. CASE /\ user' = [u \in Visitors |-> IF u \in Swept(now) THEN user[u] ELSE Absent]
            /\ UNCHANGED admitted
  <2>1. user' \in [Visitors -> {Absent} \cup [windowStart : 0..MaxTime, count : 1..Limit]]
    BY <1>4, <1>11
  <2>2. Held' = Swept(now)
    BY <1>11, Sweeping DEF Held
  <2>3. Cardinality(Swept(now)) <= MaxKeys
    BY Sweeping, FS_CardinalityType, LimitsAssumption DEF RInv, Bounded
  <2>4. ASSUME NEW u \in Visitors PROVE EntryTrue(u)'
    <3>1. u \in Held' => u \in Held /\ user'[u] = user[u]
      BY <1>11, <2>2, Sweeping
    <3> QED BY <1>1, <1>11, <3>1 DEF EntryTrue, RInv
  <2> QED BY <1>11, <2>1, <2>2, <2>3, <2>4 DEF RInv, TypeOK, Bounded
<1> QED BY <1>2, <1>7, <1>8, <1>9, <1>10, <1>11 DEF Allow, AllowKnown, AllowNew

(* Every step keeps the invariant. *)
LEMMA RStepKeeps ==
  ASSUME RInv, [Next]_vars
  PROVE  RInv'
<1>1. CASE Tick
  <2>1. clock' \in 0..MaxTime /\ clock <= clock' /\ UNCHANGED <<user, waiting, admitted>>
    BY <1>1, TimeAssumption DEF Tick, RInv, TypeOK
  <2>2. TypeOK' /\ Bounded' /\ \A v \in Visitors : EntryTrue(v)'
    BY <2>1 DEF RInv, TypeOK, Bounded, Held, EntryTrue
  <2>3. CallsInThePast'
    BY <2>1, TimeAssumption, AbsentAssumption DEF RInv, TypeOK, CallsInThePast
  <2> QED BY <2>2, <2>3 DEF RInv
<1>2. ASSUME NEW r \in Requests, NEW v \in Visitors, Call(r, v) PROVE RInv'
  <2>1. TypeOK'
    BY <1>2 DEF Call, RInv, TypeOK
  <2>2. Bounded' /\ \A u \in Visitors : EntryTrue(u)'
    BY <1>2 DEF Call, RInv, Bounded, Held, EntryTrue
  <2>3. CallsInThePast'
    BY <1>2, TimeAssumption DEF Call, RInv, TypeOK, CallsInThePast
  <2> QED BY <2>1, <2>2, <2>3 DEF RInv
<1>3. CASE UNCHANGED vars
  BY <1>3 DEF vars, RInv, TypeOK, Bounded, Held, CallsInThePast, EntryTrue
<1> QED BY <1>1, <1>2, <1>3, AllowKeeps DEF Next

(* The limiter starts empty. *)
LEMMA RStarts ==
  ASSUME Init
  PROVE  RInv
<1>1. Held = {}
  BY DEF Init, Held
<1>2. Bounded
  BY <1>1, FS_EmptySet, LimitsAssumption DEF Bounded
<1>3. TypeOK /\ CallsInThePast /\ \A v \in Visitors : EntryTrue(v)
  BY <1>1, TimeAssumption DEF Init, TypeOK, CallsInThePast, EntryTrue
<1> QED BY <1>2, <1>3 DEF RInv

(* An entry whose window is still open vouches for what it counted. *)
LEMMA EntryVouches ==
  ASSUME RInv, NEW v \in Held, NEW before \in Int, user[v].windowStart > before,
         NEW k \in 1..user[v].count
  PROVE  LetInSince(v, k, before)
<1>1. /\ v \in Visitors /\ EntryTrue(v)
      /\ user[v] \in [windowStart : 0..MaxTime, count : 1..Limit]
      /\ admitted[v] \in Seq(0..MaxTime)
  BY DEF Held, RInv, TypeOK
<1>2. /\ user[v].windowStart \in Nat /\ user[v].count \in Nat /\ Len(admitted[v]) \in Nat
      /\ \A n \in 1..Len(admitted[v]) : admitted[v][n] \in Nat
  BY <1>1, LimitsAssumption, TimeAssumption
<1> DEFINE n == Len(admitted[v]) - k + 1
<1>3. n \in Int /\ n = Len(admitted[v]) - k + 1
  BY <1>2
<1> HIDE DEF n
<1>4. Len(admitted[v]) >= user[v].count
      /\ \A i \in (Len(admitted[v]) - user[v].count + 1)..Len(admitted[v]) :
           admitted[v][i] >= user[v].windowStart
  BY <1>1 DEF EntryTrue
<1>5. n \in (Len(admitted[v]) - user[v].count + 1)..Len(admitted[v]) /\ n \in 1..Len(admitted[v])
  BY <1>2, <1>3, <1>4
<1>6. admitted[v][n] > before
  BY <1>2, <1>4, <1>5
<1> QED BY <1>2, <1>3, <1>4, <1>6 DEF LetInSince

(* A denial has its reason in the history. *)
LEMMA DenialHasReason ==
  ASSUME RInv, NEW r \in Requests, Allow(r), admitted' = admitted,
         NEW v, v = waiting[r].visitor, NEW before, before = waiting[r].now - Window
  PROVE  \/ LetInSince(v, Limit, before)
         \/ Cardinality({u \in Visitors \ {v} : LetInSince(u, 1, before)}) >= MaxKeys
<1> DEFINE now == waiting[r].now
           Others == {u \in Visitors \ {v} : LetInSince(u, 1, before)}
<1>1. v \in Visitors /\ now \in 0..MaxTime /\ before \in Int
  BY LimitsAssumption, TimeAssumption DEF RInv, TypeOK, Allow
<1>2. ~Admitted(v)
  BY <1>1, History
<1>3. \A u \in Held : ~Expired(u, now) =>
        user[u] \in [windowStart : 0..MaxTime, count : 1..Limit] /\ user[u].windowStart > before
  BY <1>1, TimeAssumption, LimitsAssumption DEF RInv, TypeOK, Held, Expired
<1>4. CASE v \in Held /\ ~Expired(v, now) /\ user[v].count >= Limit
  <2>1. Limit \in 1..user[v].count
    BY <1>3, <1>4, LimitsAssumption
  <2> QED BY <1>1, <1>3, <1>4, <2>1, EntryVouches
<1>5. CASE v \notin Held /\ Cardinality(Swept(now)) >= MaxKeys
  <2>1. \A u \in Swept(now) : u \in Held /\ ~Expired(u, now)
    BY <1>5, Sweeping, LimitsAssumption DEF Swept
  <2>2. ASSUME NEW u \in Swept(now) PROVE LetInSince(u, 1, before)
    <3>1. 1 \in 1..user[u].count /\ user[u].windowStart > before /\ u \in Held
      BY <1>3, <2>1, LimitsAssumption
    <3> QED BY <1>1, <3>1, EntryVouches
  <2>3. Swept(now) \subseteq Others
    BY <1>5, <2>1, <2>2 DEF Held
  <2>4. IsFiniteSet(Others)
    BY VisitorsAssumption, FS_Subset
  <2>5. Cardinality(Swept(now)) <= Cardinality(Others)
    <3> HIDE DEF Others
    <3> QED BY <2>3, <2>4, FS_Subset
  <2>6. Cardinality(Swept(now)) \in Nat /\ Cardinality(Others) \in Nat
    BY <2>4, Sweeping, FS_CardinalityType
  <2> QED BY <1>5, <2>5, <2>6, LimitsAssumption
<1> QED BY <1>2, <1>4, <1>5 DEF Allow, AllowKnown, AllowNew
-----------------------------------------------------------------------------
(* The inductive invariant holds in every reachable state. *)
THEOREM LimiterInvariant == Spec => []RInv
BY RStarts, RStepKeeps, PTL DEF Spec

(* Entries, calls and counts keep their types; in particular no entry ever *)
(* counts more than the allowance.                                         *)
THEOREM LimiterTypeCorrect == Spec => []TypeOK
<1>1. RInv => TypeOK
  BY DEF RInv
<1> QED BY <1>1, LimiterInvariant, PTL

(* The table of every limiter is bounded by RATE_LIMIT_MAX_KEYS. *)
THEOREM TableBounded == Spec => []Bounded
<1>1. RInv => Bounded
  BY DEF RInv
<1> QED BY <1>1, LimiterInvariant, PTL

(* Allow denies only visitors that have used their allowance in a window   *)
(* still open, or newcomers to a table full of visitors with open windows. *)
THEOREM DenialsJustified == Spec => DenialJustified
<1>1. ASSUME RInv, [Next]_vars
      PROVE [\A r \in Requests :
               waiting[r] # Absent /\ waiting'[r] = Absent /\ admitted' = admitted =>
                 LET v == waiting[r].visitor
                     before == waiting[r].now - Window
                 IN \/ LetInSince(v, Limit, before)
                    \/ Cardinality({u \in Visitors \ {v} : LetInSince(u, 1, before)})
                         >= MaxKeys]_vars
  <2> SUFFICES ASSUME NEW r \in Requests,
                      waiting[r] # Absent, waiting'[r] = Absent, admitted' = admitted, Next
               PROVE  \/ LetInSince(waiting[r].visitor, Limit, waiting[r].now - Window)
                      \/ Cardinality({u \in Visitors \ {waiting[r].visitor} :
                                        LetInSince(u, 1, waiting[r].now - Window)}) >= MaxKeys
    BY <1>1
  <2>1. Allow(r)
    BY <1>1, AbsentAssumption DEF Next, Tick, Call, Allow, RInv, TypeOK
  <2> QED BY <1>1, <2>1, DenialHasReason
<1> QED BY <1>1, LimiterInvariant, PTL DEF Spec, DenialJustified
-----------------------------------------------------------------------------
(* The allowance over windows of a visitor.  Times are those of the clock, *)
(* in order.  The open window is no older than its first entrant less the  *)
(* delay, and began so late after the last but Limit entries before it; if *)
(* there is none, so much time has passed already.                         *)
Spread == Window - MaxDelay
First(v) == Len(admitted[v]) - user[v].count + 1

InOrder(v) ==
  \A m \in 1..Len(admitted[v]) :
    /\ admitted[v][m] <= clock
    /\ \A n \in 1..m : admitted[v][n] <= admitted[v][m]
OpenWindow(v) ==
  v \in Held =>
    /\ user[v].windowStart >= admitted[v][First(v)] - MaxDelay
    /\ \A n \in 1..(First(v) - 1 - Limit) : admitted[v][First(v)] - admitted[v][n] >= Spread
LongAgo(v) == \A n \in 1..(Len(admitted[v]) - Limit) : clock - admitted[v][n] >= Spread
Twice(v) ==
  \A n \in 1..(Len(admitted[v]) - 2 * Limit) : admitted[v][n + 2 * Limit] - admitted[v][n] >= Spread

SpanInv(v) == InOrder(v) /\ OpenWindow(v) /\ (v \notin Held => LongAgo(v)) /\ Twice(v)

(* No call is older than the delay. *)
CallsFresh == \A r \in Requests : waiting[r] # Absent => clock - waiting[r].now <= MaxDelay

SInv == RInv /\ CallsFresh /\ \A v \in Visitors : SpanInv(v)

(* What the invariant says of the types of a visitor's history and entry. *)
LEMMA HistoryTyped ==
  ASSUME RInv, NEW v \in Visitors
  PROVE  /\ clock \in Nat /\ Len(admitted[v]) \in Nat
         /\ \A n \in 1..Len(admitted[v]) : admitted[v][n] \in Nat
         /\ v \in Held => /\ user[v].windowStart \in Nat /\ user[v].count \in 1..Limit
                          /\ First(v) \in 1..Len(admitted[v]) /\ user[v].count \in Nat
         /\ Limit \in Nat \ {0} /\ Window \in Nat /\ MaxDelay \in Nat /\ Spread \in Int
<1>1. /\ admitted[v] \in Seq(0..MaxTime) /\ clock \in 0..MaxTime
      /\ user \in [Visitors -> {Absent} \cup [windowStart : 0..MaxTime, count : 1..Limit]]
  BY DEF RInv, TypeOK
<1>2. clock \in Nat /\ Len(admitted[v]) \in Nat
      /\ \A n \in 1..Len(admitted[v]) : admitted[v][n] \in Nat
  BY <1>1, TimeAssumption
<1>3. ASSUME v \in Held
      PROVE  /\ user[v].windowStart \in Nat /\ user[v].count \in 1..Limit
             /\ First(v) \in 1..Len(admitted[v]) /\ user[v].count \in Nat
  <2>1. user[v] \in [windowStart : 0..MaxTime, count : 1..Limit]
    BY <1>1, <1>3 DEF Held
  <2>2. Len(admitted[v]) >= user[v].count
    BY <1>3 DEF RInv, EntryTrue
  <2> QED BY <1>2, <2>1, <2>2, TimeAssumption, LimitsAssumption DEF First
<1> QED BY <1>2, <1>3, LimitsAssumption, TimeAssumption DEF Spread

(* A request of the next window is a window less a delay after the first   *)
(* of this one.                                                            *)
LEMMA Apart ==
  ASSUME NEW a \in Int, NEW b \in Int, NEW start \in Int, NEW now \in Int, NEW late \in Int,
         a <= b, start >= b - MaxDelay, now - start >= Window, now <= late
  PROVE  late - a >= Spread
<1>1. Window \in Int /\ MaxDelay \in Int
  BY LimitsAssumption, TimeAssumption
<1> QED BY <1>1 DEF Spread

(* When a window ends, all but the last Limit entries are long ago. *)
LEMMA WindowEnds ==
  ASSUME RInv, NEW v \in Visitors, SpanInv(v), NEW now \in Nat, now <= clock,
         v \in Held => Expired(v, now)
  PROVE  LongAgo(v)
<1>1. CASE v \in Held
  <2>1. /\ clock \in Nat /\ Len(admitted[v]) \in Nat /\ user[v].windowStart \in Nat
        /\ First(v) \in 1..Len(admitted[v]) /\ user[v].count \in 1..Limit
        /\ Limit \in Nat /\ Window \in Nat /\ MaxDelay \in Nat
        /\ \A n \in 1..Len(admitted[v]) : admitted[v][n] \in Nat
    BY <1>1, HistoryTyped
  <2>2. /\ now - user[v].windowStart >= Window
        /\ user[v].windowStart >= admitted[v][First(v)] - MaxDelay
    BY <1>1 DEF SpanInv, OpenWindow, Expired
  <2>3. ASSUME NEW n \in 1..(Len(admitted[v]) - Limit)
        PROVE  clock - admitted[v][n] >= Spread
    <3>1. n \in 1..First(v) /\ n \in 1..Len(admitted[v])
      BY <2>1 DEF First
    <3>2. admitted[v][n] <= admitted[v][First(v)]
      BY <2>1, <3>1 DEF SpanInv, InOrder
    <3>3. admitted[v][n] \in Nat /\ admitted[v][First(v)] \in Nat
      BY <2>1, <3>1
    <3>4. PICK a \in Int, b \in Int, start \in Int, late \in Int :
            a = admitted[v][n] /\ b = admitted[v][First(v)] /\ start = user[v].windowStart /\ late = clock
      BY <2>1, <3>3
    <3>5. a <= b /\ start >= b - MaxDelay /\ now - start >= Window /\ now <= late /\ now \in Int
      BY <2>2, <3>2, <3>4
    <3>6. late - a >= Spread
      BY <3>5, Apart
    <3> QED BY <3>4, <3>6
  <2> QED BY <2>3 DEF LongAgo
<1> QED BY <1>1 DEF SpanInv

(* A visitor that is not let in keeps its span, entry or not. *)
LEMMA SpanStays ==
  ASSUME RInv, NEW v \in Visitors, SpanInv(v), admitted'[v] = admitted[v],
         clock' \in Nat, clock' >= clock,
         v \in Held' => v \in Held /\ user'[v] = user[v],
         v \notin Held' => LongAgo(v)
  PROVE  SpanInv(v)'
<1>1. /\ clock \in Nat /\ Len(admitted[v]) \in Nat /\ Limit \in Nat /\ Spread \in Int
      /\ \A n \in 1..Len(admitted[v]) : admitted[v][n] \in Nat
  BY HistoryTyped
<1>2. InOrder(v)' /\ Twice(v)'
  BY <1>1 DEF SpanInv, InOrder, Twice, Spread
<1>3. OpenWindow(v)'
  BY DEF SpanInv, OpenWindow, First, Spread
<1>4. v \notin Held' => LongAgo(v)'
  BY <1>1 DEF LongAgo, Spread
<1> QED BY <1>2, <1>3, <1>4 DEF SpanInv

(* A history whose last window began at first keeps any 2 * limit + 1      *)
(* requests apart when it grows by one.                                    *)
LEMMA TwiceGrows ==
  ASSUME NEW len \in Nat, NEW h, NEW g, NEW time \in Nat, NEW limit \in Nat \ {0}, NEW spread \in Int,
         NEW first \in 1..(len + 1), first >= len + 2 - limit,
         \A m \in 1..(len + 1) : g[m] \in Nat /\ g[m] <= time,
         g[len + 1] = time, \A n \in 1..len : g[n] = h[n],
         \A n \in 1..(first - 1 - limit) : g[first] - g[n] >= spread,
         \A n \in 1..(len - 2 * limit) : h[n + 2 * limit] - h[n] >= spread,
         NEW total, total = len + 1, NEW n \in 1..(total - 2 * limit)
  PROVE  g[n + 2 * limit] - g[n] >= spread
<1>1. CASE n + 2 * limit <= len
  <2>1. n \in 1..len /\ n + 2 * limit \in 1..len /\ n \in 1..(len - 2 * limit)
    BY <1>1
  <2> QED BY <2>1
<1>2. CASE n + 2 * limit > len
  <2>1. n + 2 * limit = len + 1 /\ n \in 1..(first - 1 - limit) /\ n \in 1..(len + 1)
    BY <1>2
  <2>2. g[first] - g[n] >= spread /\ g[first] <= time /\ g[first] \in Nat /\ g[n] \in Nat
    BY <2>1
  <2> QED BY <2>1, <2>2
<1> QED BY <1>1, <1>2

(* One that is let in opens a window or goes on with the one it has. *)
LEMMA SpanGrows ==
  ASSUME RInv, NEW v \in Visitors, SpanInv(v), Admitted(v), clock' = clock, v \in Held',
         NEW w \in Nat, NEW c \in 1..Limit, user'[v] = [windowStart |-> w, count |-> c],
         \/ c = 1 /\ w >= clock - MaxDelay /\ LongAgo(v)
         \/ v \in Held /\ user[v] = [windowStart |-> w, count |-> c - 1]
  PROVE  SpanInv(v)'
<1> DEFINE h == admitted[v]
           g == admitted'[v]
           len == Len(admitted[v])
<1>1. /\ clock \in Nat /\ len \in Nat /\ \A n \in 1..len : h[n] \in Nat
      /\ Limit \in Nat \ {0} /\ Window \in Nat /\ MaxDelay \in Nat /\ Spread \in Int
      /\ Len(g) = len + 1 /\ g[len + 1] = clock /\ \A n \in 1..len : g[n] = h[n]
  BY HistoryTyped, History
<1>2. /\ \A m \in 1..len : h[m] <= clock /\ \A n \in 1..m : h[n] <= h[m]
      /\ \A n \in 1..(len - 2 * Limit) : h[n + 2 * Limit] - h[n] >= Spread
  BY DEF SpanInv, InOrder, Twice
<1>3. InOrder(v)'
  <2> SUFFICES ASSUME NEW m \in 1..(len + 1)
               PROVE  g[m] <= clock /\ \A n \in 1..m : g[n] <= g[m]
    BY <1>1 DEF InOrder
  <2>1. CASE m = len + 1
    <3>1. g[m] = clock
      BY <1>1, <2>1
    <3>2. ASSUME NEW n \in 1..m, n # m
          PROVE  g[n] <= clock
      <4>1. n \in 1..len
        BY <1>1, <2>1, <3>2
      <4> QED BY <1>1, <1>2, <4>1
    <3>3. clock <= clock
      BY <1>1
    <3> QED BY <3>1, <3>2, <3>3
  <2>2. CASE m # len + 1
    <3>1. m \in 1..len /\ \A n \in 1..m : n \in 1..len
      BY <1>1, <2>2
    <3> QED BY <1>1, <1>2, <3>1
  <2> QED BY <2>1, <2>2
<1>4. /\ First(v)' = len + 2 - c /\ First(v)' \in 1..(len + 1)
      /\ w >= g[First(v)'] - MaxDelay
      /\ \A n \in 1..(First(v)' - 1 - Limit) : g[First(v)'] - g[n] >= Spread
  <2>1. First(v)' = len + 2 - c
    <3>1. user'[v].count = c
      OBVIOUS
    <3>2. First(v)' = Len(g) - c + 1
      BY <3>1 DEF First
    <3>3. PICK n \in Nat : n = len /\ Len(g) = n + 1
      BY <1>1
    <3> QED BY <3>2, <3>3
  <2>2. CASE c = 1 /\ w >= clock - MaxDelay /\ LongAgo(v)
    <3>1. \A n \in 1..(len - Limit) : n \in 1..len /\ clock - h[n] >= Spread
      BY <1>1, <2>2 DEF LongAgo
    <3>2. c = 1 /\ w >= clock - MaxDelay /\ g[len + 1] = clock
      BY <1>1, <2>2
    <3>3. PICK first \in 1..(len + 1) : first = First(v)' /\ first = len + 1
      <4>1. PICK n \in Nat : n = len
        BY <1>1
      <4>2. First(v)' = n + 1 /\ n + 1 \in 1..(n + 1)
        BY <2>1, <3>2, <4>1
      <4> QED BY <4>1, <4>2
    <3>4. \A n \in 1..(first - 1 - Limit) : n \in 1..(len - Limit)
      BY <1>1, <3>3
    <3>5. \A n \in 1..(len - Limit) : clock - g[n] >= Spread
      BY <1>1, <3>1
    <3>6. /\ w >= g[first] - MaxDelay
          /\ \A n \in 1..(first - 1 - Limit) : g[first] - g[n] >= Spread
      BY <3>2, <3>3, <3>4, <3>5
    <3> QED BY <2>1, <3>2, <3>3, <3>6
  <2>3. CASE v \in Held /\ user[v] = [windowStart |-> w, count |-> c - 1]
    <3>1. /\ First(v) = len + 2 - c /\ First(v) \in 1..len
          /\ w >= h[First(v)] - MaxDelay
          /\ \A n \in 1..(First(v) - 1 - Limit) : h[First(v)] - h[n] >= Spread
      <4>1. First(v) = len + 2 - c
        <5>1. user[v].count = c - 1
          BY <2>3
        <5>2. First(v) = len - (c - 1) + 1
          BY <5>1 DEF First
        <5> QED BY <1>1, <5>2
      <4> QED BY <2>3, <4>1, HistoryTyped DEF SpanInv, OpenWindow
    <3>2. PICK f \in 1..len : f = First(v)
      BY <3>1
    <3>3. First(v)' = f /\ f \in 1..(len + 1) /\ f = len + 2 - c
      BY <1>1, <2>1, <3>1, <3>2
    <3>4. g[f] = h[f] /\ w >= h[f] - MaxDelay /\ \A n \in 1..(f - 1 - Limit) : h[f] - h[n] >= Spread
      BY <1>1, <3>1, <3>2
    <3>5. \A n \in 1..(f - 1 - Limit) : n \in 1..len
      BY <1>1
    <3>6. \A n \in 1..(f - 1 - Limit) : g[f] - g[n] >= Spread
      BY <1>1, <3>4, <3>5
    <3> QED BY <3>3, <3>4, <3>6
  <2> QED BY <2>2, <2>3
<1>5. OpenWindow(v)'
  BY <1>4 DEF OpenWindow, Spread
<1>6. \A n \in 1..(Len(g) - 2 * Limit) : g[n + 2 * Limit] - g[n] >= Spread
  <2>1. PICK first \in 1..(len + 1) : first = First(v)' /\ first = len + 2 - c
    BY <1>4
  <2>2. first >= len + 2 - Limit
    BY <1>1, <2>1
  <2>3. \A m \in 1..(len + 1) : g[m] \in Nat /\ g[m] <= clock
    <3>1. \A m \in 1..(len + 1) : m \in 1..len \/ m = len + 1
      BY <1>1
    <3>2. clock <= clock
      BY <1>1
    <3> QED BY <1>1, <1>2, <3>1, <3>2
  <2>4. \A n \in 1..(first - 1 - Limit) : g[first] - g[n] >= Spread
    BY <1>4, <2>1
  <2> HIDE DEF h, g, len
  <2> QED BY <1>1, <1>2, <2>2, <2>3, <2>4, TwiceGrows
<1>7. Twice(v)'
  BY <1>6, Zenon DEF Twice, Spread
<1> QED BY <1>3, <1>5, <1>7 DEF SpanInv

(* The critical section keeps the span of every visitor: of the one it     *)
(* lets in, of those the sweep forgets, and of the others.                 *)
LEMMA AllowSpans ==
  ASSUME SInv, NEW r \in Requests, Allow(r), NEW u \in Visitors
  PROVE  SpanInv(u)'
<1> DEFINE v == waiting[r].visitor
           now == waiting[r].now
<1>1. /\ v \in Visitors /\ now \in Nat /\ now <= clock /\ clock - now <= MaxDelay
      /\ clock' = clock /\ clock \in Nat /\ MaxDelay \in Nat
  BY TimeAssumption DEF SInv, RInv, TypeOK, CallsInThePast, CallsFresh, Allow
<1>2. /\ user \in [Visitors -> {Absent} \cup [windowStart : 0..MaxTime, count : 1..Limit]]
      /\ RInv /\ SpanInv(u) /\ Limit \in Nat \ {0}
  BY LimitsAssumption DEF SInv, RInv, TypeOK
<1>3. now >= clock - MaxDelay /\ 1 \in 1..Limit
  BY <1>1, <1>2
<1>4. \A x \in Held \ Swept(now) : Expired(x, now)
  BY DEF Swept
<1>5. Swept(now) \subseteq Held
  BY DEF Swept
<1>6. RInv'
  BY <1>2, AllowKeeps
<1>7. \A x \in Visitors : x \in Held' <=> user'[x] # Absent
  BY DEF Held
<1>8. \A n \in Nat, k \in Nat : [windowStart |-> n, count |-> k] # Absent
  BY AbsentAssumption
<1>9. CASE UNCHANGED <<user, admitted>>
  BY <1>1, <1>2, <1>9, SpanStays DEF Held, SpanInv
<1>10. CASE v \in Held /\ Expired(v, now) /\ Admitted(v)
            /\ user' = [user EXCEPT ![v] = [windowStart |-> now, count |-> 1]]
  <2>1. CASE u = v
    <3>1. user'[u] = [windowStart |-> now, count |-> 1] /\ u \in Held'
      BY <1>1, <1>2, <1>8, <1>10, <2>1 DEF Held
    <3>2. LongAgo(u)
      BY <1>1, <1>2, <1>10, <2>1, WindowEnds
    <3> QED BY <1>1, <1>2, <1>3, <1>10, <2>1, <3>1, <3>2, SpanGrows
  <2>2. CASE u # v
    <3>1. admitted'[u] = admitted[u] /\ user'[u] = user[u]
      BY <1>1, <1>2, <1>10, <2>2, History
    <3> QED BY <1>1, <1>2, <3>1, SpanStays DEF Held, SpanInv
  <2> QED BY <2>1, <2>2
<1>11. CASE v \in Held /\ user[v].count < Limit /\ Admitted(v)
            /\ user' = [user EXCEPT ![v].count = @ + 1]
  <2>1. CASE u = v
    <3>1. user[u] \in [windowStart : 0..MaxTime, count : 1..Limit]
      BY <1>2, <1>11, <2>1 DEF Held
    <3>2. PICK w \in Nat, k \in Nat : user[u] = [windowStart |-> w, count |-> k] /\ w \in 0..MaxTime /\ k >= 1
      BY <3>1, TimeAssumption, <1>2
    <3>3. user'[u] = [windowStart |-> w, count |-> k + 1]
      BY <1>1, <1>2, <1>11, <2>1, <3>2
    <3>4. k + 1 \in 1..Limit /\ (k + 1) - 1 = k
      BY <1>2, <1>11, <2>1, <3>2
    <3>5. u \in Held' /\ u \in Held
      BY <1>8, <1>11, <2>1, <3>3, <3>4 DEF Held
    <3>6. PICK c \in 1..Limit : c = k + 1 /\ c - 1 = k
      BY <3>4
    <3> QED BY <1>1, <1>2, <1>11, <2>1, <3>2, <3>3, <3>5, <3>6, SpanGrows
  <2>2. CASE u # v
    <3>1. admitted'[u] = admitted[u] /\ user'[u] = user[u]
      BY <1>1, <1>2, <1>11, <2>2, History
    <3> QED BY <1>1, <1>2, <3>1, SpanStays DEF Held, SpanInv
  <2> QED BY <2>1, <2>2
<1>12. CASE v \notin Held /\ Admitted(v)
            /\ user' = [x \in Visitors |-> IF x = v THEN [windowStart |-> now, count |-> 1]
                                           ELSE IF x \in Swept(now) THEN user[x] ELSE Absent]
  <2>1. CASE u = v
    <3>1. user'[u] = [windowStart |-> now, count |-> 1] /\ u \in Held'
      BY <1>1, <1>8, <1>12, <2>1 DEF Held
    <3>2. LongAgo(u)
      BY <1>12, <2>1, <1>2 DEF SpanInv
    <3> QED BY <1>1, <1>2, <1>3, <1>12, <2>1, <3>1, <3>2, SpanGrows
  <2>2. CASE u # v
    <3>1. admitted'[u] = admitted[u]
      BY <1>1, <1>2, <1>12, <2>2, History
    <3>2. user'[u] = IF u \in Swept(now) THEN user[u] ELSE Absent
      BY <1>12, <2>2
    <3>3. u \in Held' => u \in Held /\ user'[u] = user[u]
      BY <1>5, <1>7, <3>2
    <3>4. u \notin Held' => (u \in Held => Expired(u, now))
      BY <1>4, <1>7, <3>2 DEF Held
    <3>5. u \notin Held' => LongAgo(u)
      BY <1>1, <1>2, <3>4, WindowEnds
    <3> QED BY <1>1, <1>2, <3>1, <3>3, <3>5, SpanStays
  <2> QED BY <2>1, <2>2
<1>13. CASE admitted' = admitted
            /\ user' = [x \in Visitors |-> IF x \in Swept(now) THEN user[x] ELSE Absent]
  <2>1. u \in Held' => u \in Held /\ user'[u] = user[u]
    BY <1>5, <1>7, <1>13
  <2>2. u \notin Held' => (u \in Held => Expired(u, now))
    BY <1>4, <1>7, <1>13 DEF Held
  <2>3. u \notin Held' => LongAgo(u)
    BY <1>1, <1>2, <2>2, WindowEnds
  <2> QED BY <1>1, <1>2, <1>13, <2>1, <2>3, SpanStays
<1> QED BY <1>9, <1>10, <1>11, <1>12, <1>13 DEF Allow, AllowKnown, AllowNew

(* Whatever the order in which late requests reach the mutex, and however  *)
(* the sweep forgets, nobody is let in more than twice its allowance       *)
(* within a window less the delay (AssignmentLimiter.Allow).               *)
THEOREM AllowanceHolds == Spec => []TwiceTheAllowance
<1>1. Init => SInv
  <2> SUFFICES ASSUME Init PROVE SInv
    OBVIOUS
  <2>1. Held = {} /\ \A v \in Visitors : admitted[v] = <<>> /\ Len(admitted[v]) = 0
    BY DEF Init, Held
  <2>2. \A v \in Visitors : SpanInv(v)
    BY <2>1, LimitsAssumption DEF SpanInv, InOrder, OpenWindow, LongAgo, Twice
  <2> QED BY <2>2, RStarts DEF SInv, CallsFresh, Init
<1>2. ASSUME SInv, [Next]_vars
      PROVE  SInv'
  <2>1. RInv /\ RInv'
    BY <1>2, RStepKeeps DEF SInv
  <2>2. ASSUME NEW v \in Visitors, clock' \in Nat, clock' >= clock, UNCHANGED <<user, admitted>>
        PROVE  SpanInv(v)'
    BY <1>2, <2>1, <2>2, SpanStays DEF SInv, Held, SpanInv
  <2>3. CASE Tick
    <3>1. clock' \in Nat /\ clock' >= clock /\ UNCHANGED <<user, admitted>>
      BY <2>1, <2>3, TimeAssumption DEF Tick, RInv, TypeOK
    <3>2. CallsFresh'
      BY <1>2, <2>1, <2>3, TimeAssumption DEF Tick, RInv, TypeOK, SInv, CallsFresh
    <3> QED BY <2>1, <2>2, <3>1, <3>2 DEF SInv
  <2>4. ASSUME NEW r \in Requests, NEW v \in Visitors, Call(r, v)
        PROVE  SInv'
    <3>1. clock' \in Nat /\ clock' >= clock /\ UNCHANGED <<user, admitted>>
      BY <2>1, <2>4, TimeAssumption DEF Call, RInv, TypeOK
    <3>2. CallsFresh'
      BY <1>2, <2>1, <2>4, TimeAssumption DEF Call, RInv, TypeOK, SInv, CallsFresh
    <3> QED BY <2>1, <2>2, <3>1, <3>2 DEF SInv
  <2>5. ASSUME NEW r \in Requests, Allow(r)
        PROVE  SInv'
    <3>1. CallsFresh'
      BY <1>2, <2>1, <2>5 DEF Allow, RInv, TypeOK, SInv, CallsFresh
    <3> QED BY <1>2, <2>1, <2>5, <3>1, AllowSpans DEF SInv
  <2>6. CASE UNCHANGED vars
    <3>1. clock' \in Nat /\ clock' >= clock /\ UNCHANGED <<user, admitted>>
      BY <2>1, <2>6, TimeAssumption DEF vars, RInv, TypeOK
    <3>2. CallsFresh'
      BY <1>2, <2>6 DEF vars, SInv, CallsFresh
    <3> QED BY <2>1, <2>2, <3>1, <3>2 DEF SInv
  <2> QED BY <1>2, <2>3, <2>4, <2>5, <2>6 DEF Next
<1>3. SInv => TwiceTheAllowance
  BY DEF SInv, SpanInv, Twice, TwiceTheAllowance, Spread
<1> QED BY <1>1, <1>2, <1>3, PTL DEF Spec
-----------------------------------------------------------------------------
(* A set of places in a list has a last one. *)
LEMMA Last ==
  ASSUME NEW n \in Nat, NEW S \in SUBSET (1..n), S # {}
  PROVE  Max(S) \in S /\ \A k \in S : k <= Max(S)
<1> DEFINE Less == OpToRel(<, Nat)
           FromEnd == {k \in Nat : \E i \in S : k = n - i}
<1>1. FromEnd \subseteq Nat /\ FromEnd # {}
  <2>1. PICK i \in S : TRUE
    OBVIOUS
  <2>2. n - i \in FromEnd
    BY <2>1
  <2> QED BY <2>2
<1>2. PICK m \in FromEnd : \A k \in FromEnd : <<k, m>> \notin Less
  <2> HIDE DEF FromEnd, Less
  <2>1. \E m \in FromEnd : \A k \in FromEnd : <<k, m>> \notin Less
    <3> USE DEF Less
    <3> QED BY <1>1, NatLessThanWellFounded, WFMin
  <2> QED BY <2>1
<1>3. \A i, k \in Nat : k < i => <<k, i>> \in Less
  BY DEF OpToRel
<1> HIDE DEF Less
<1>4. \A k \in FromEnd : m <= k
  <2> HIDE DEF FromEnd
  <2>1. m \in Nat /\ \A k \in FromEnd : k \in Nat
    BY <1>1
  <2>2. \A k \in FromEnd : ~(k < m)
    BY <1>2, <1>3, <2>1
  <2> QED BY <2>1, <2>2
<1>5. PICK i \in S : m = n - i
  BY <1>2
<1>6. \A k \in S : i >= k
  <2> TAKE k \in S
  <2>1. n - k \in FromEnd /\ k \in 1..n /\ i \in 1..n
    OBVIOUS
  <2> QED BY <1>4, <1>5, <2>1
<1>7. \E x \in S : \A y \in S : x >= y
  BY <1>6
<1>8. Max(S) \in S /\ \A k \in S : Max(S) >= k
  BY <1>7 DEF Max
<1>9. Max(S) \in 1..n /\ \A k \in S : k \in 1..n
  BY <1>8
<1> QED BY <1>8, <1>9

(* The last place of a set is the one no other comes after. *)
LEMMA LastIs ==
  ASSUME NEW n \in Nat, NEW S \in SUBSET (1..n), NEW m \in S, \A k \in S : k <= m
  PROVE  Max(S) = m
<1>1. Max(S) \in S /\ \A k \in S : k <= Max(S)
  BY Last
<1>2. Max(S) \in 1..n /\ m \in 1..n /\ Max(S) <= m /\ m <= Max(S)
  BY <1>1
<1> QED BY <1>2

(* What the header and the peer are, entry by entry. *)
LEMMA Chain ==
  ASSUME NEW caller \in Hosts, NEW route \in Routes, NEW sent \in Headers, NEW mapped \in BOOLEAN
  PROVE  LET hops == Hops(caller, route)
             forwarded == Forwarded(caller, route, sent, mapped)
         IN /\ Len(route) \in Nat /\ Len(sent) \in Nat
            /\ hops \in Seq(Hosts) /\ Len(hops) = Len(route) + 1 /\ hops[1] = caller
            /\ DOMAIN hops = 1..(Len(route) + 1)
            /\ DOMAIN forwarded = 1..(Len(sent) + Len(route))
            /\ Len(forwarded) = Len(sent) + Len(route)
            /\ \A n \in 1..Len(sent) : forwarded[n] = sent[n]
            /\ \A n \in 1..Len(route) :
                 forwarded[Len(sent) + n] = [host |-> hops[n], mapped |-> mapped]
            /\ Range(sent) = {sent[n] : n \in 1..Len(sent)}
            /\ \A n \in 1..Len(sent) : sent[n] \in Addresses \cup {Garbage}
<1> DEFINE hops == Hops(caller, route)
           added == [n \in 1..Len(route) |-> [host |-> hops[n], mapped |-> mapped]]
           forwarded == Forwarded(caller, route, sent, mapped)
<1>1. route \in Seq(Hosts) /\ sent \in Seq(Addresses \cup {Garbage}) /\ <<caller>> \in Seq(Hosts)
  BY HeadersAssumption DEF Hosts
<1>2. /\ Len(route) \in Nat /\ Len(sent) \in Nat
      /\ \A n \in 1..Len(sent) : sent[n] \in Addresses \cup {Garbage}
      /\ Range(sent) = {sent[n] : n \in 1..Len(sent)}
  BY <1>1 DEF Range
<1>3. hops \in Seq(Hosts) /\ Len(hops) = Len(route) + 1 /\ hops[1] = caller
      /\ DOMAIN hops = 1..(Len(route) + 1)
  BY <1>1 DEF Hops
<1>4. added \in Seq(Addresses) /\ Len(added) = Len(route)
  <2>1. \A n \in 1..Len(route) : hops[n] \in Hosts
    BY <1>2, <1>3
  <2> HIDE DEF hops
  <2>2. added \in [1..Len(route) -> Addresses]
    BY <2>1 DEF Addresses
  <2> QED BY <1>2, <2>2
<1>5. forwarded = sent \o added
  BY DEF Forwarded
<1> HIDE DEF forwarded, hops
<1>6. /\ Len(forwarded) = Len(sent) + Len(route)
      /\ DOMAIN forwarded = 1..(Len(sent) + Len(route))
      /\ \A n \in 1..Len(sent) : forwarded[n] = sent[n]
      /\ \A n \in 1..Len(route) : forwarded[Len(sent) + n] = added[n]
  BY <1>1, <1>2, <1>4, <1>5
<1> QED BY <1>2, <1>3, <1>6 DEF hops, forwarded

(* Whatever the client has written, the address that is found is that of   *)
(* the machine the request is to be charged to, in its plain form.         *)
LEMMA Resolved ==
  ASSUME trusted \subseteq Proxies, NEW caller \in Hosts, NEW route \in Routes,
         NEW sent \in Headers, NEW mapped \in BOOLEAN, caller \in Proxies => sent = <<>>
  PROVE  /\ Resolve(Peer(caller, route, mapped), Forwarded(caller, route, sent, mapped))
              = [host |-> Origin(caller, route, sent), mapped |-> FALSE]
         /\ Origin(caller, route, sent) \in Hosts
<1> DEFINE hops == Hops(caller, route)
           forwarded == Forwarded(caller, route, sent, mapped)
           peer == Peer(caller, route, mapped)
           last == hops[Len(route) + 1]
           L == Len(route)
           M == Len(sent)
           beyondHops == {n \in DOMAIN hops : hops[n] \notin trusted}
           beyond == {n \in DOMAIN forwarded : ~IsTrusted(forwarded[n])}
<1>1. /\ L \in Nat /\ M \in Nat /\ hops \in Seq(Hosts)
      /\ Len(hops) = L + 1 /\ hops[1] = caller /\ DOMAIN hops = 1..(L + 1)
      /\ Len(forwarded) = M + L /\ DOMAIN forwarded = 1..(M + L)
      /\ \A n \in 1..M : forwarded[n] = sent[n]
      /\ \A n \in 1..L : forwarded[M + n] = [host |-> hops[n], mapped |-> mapped]
      /\ Range(sent) = {sent[n] : n \in 1..M}
      /\ \A n \in 1..M : sent[n] \in Addresses \cup {Garbage}
  BY Chain
<1>2. peer = [host |-> last, mapped |-> mapped]
  BY DEF Peer
<1>3. \A h \in Hosts, b \in BOOLEAN :
        /\ [host |-> h, mapped |-> b] \in Addresses
        /\ Unmap([host |-> h, mapped |-> b]) = [host |-> h, mapped |-> FALSE]
        /\ IsTrusted([host |-> h, mapped |-> b]) <=> h \in trusted
  <2> TAKE h \in Hosts, b \in BOOLEAN
  <2> DEFINE a == [host |-> h, mapped |-> b]
  <2>1. a \in Addresses
    BY DEF Addresses
  <2>2. Unmap(a) = [host |-> h, mapped |-> FALSE]
    <3>1. PICK plain \in BOOLEAN : plain = FALSE
      OBVIOUS
    <3>2. [a EXCEPT !.mapped = plain] = [host |-> h, mapped |-> plain]
      OBVIOUS
    <3> QED BY <3>1, <3>2 DEF Unmap
  <2>3. IsTrusted(a) <=> h \in trusted
    BY <2>2 DEF IsTrusted, Contains
  <2> QED BY <2>1, <2>2, <2>3
<1>4. \A n \in 1..(L + 1) : hops[n] \in Hosts
  BY <1>1
<1>5. Origin(caller, route, sent) =
        IF last \in trusted /\ Garbage \in Range(sent) THEN last
        ELSE IF beyondHops = {} THEN caller ELSE hops[Max(beyondHops)]
  BY <1>1 DEF Origin
<1>6. Resolve(peer, forwarded) =
        IF ~IsTrusted(peer) \/ forwarded = <<>> \/ Garbage \in Range(forwarded) THEN Unmap(peer)
        ELSE Unmap(forwarded[IF beyond = {} THEN 1 ELSE Max(beyond)])
  BY DEF Resolve
<1>7. Range(forwarded) = {forwarded[n] : n \in 1..(M + L)}
  BY <1>1 DEF Range
<1>8. last \in Hosts /\ (IsTrusted(peer) <=> last \in trusted)
  <2>1. PICK h \in Hosts : h = last
    <3>1. L + 1 \in 1..(L + 1)
      BY <1>1
    <3> QED BY <1>4, <3>1
  <2>2. peer = [host |-> h, mapped |-> mapped]
    BY <1>2, <2>1
  <2> HIDE DEF peer, last
  <2> QED BY <1>3, <2>1, <2>2
<1>9. Unmap(peer) = [host |-> last, mapped |-> FALSE]
  <2>1. PICK h \in Hosts : h = last
    BY <1>8
  <2>2. peer = [host |-> h, mapped |-> mapped]
    BY <1>2, <2>1
  <2> HIDE DEF peer, last
  <2> QED BY <1>3, <2>1, <2>2
<1>10. beyondHops = {n \in 1..(L + 1) : hops[n] \notin trusted}
  BY <1>1
<1>11. beyond = {n \in 1..(M + L) : ~IsTrusted(forwarded[n])}
  BY <1>1
<1> SUFFICES /\ Resolve(peer, forwarded) = [host |-> Origin(caller, route, sent), mapped |-> FALSE]
             /\ Origin(caller, route, sent) \in Hosts
  OBVIOUS
<1> HIDE DEF hops, forwarded, peer, last, L, M, beyondHops, beyond
<1>12. CASE last \notin trusted
  <2>1. L + 1 \in beyondHops /\ beyondHops \in SUBSET (1..(L + 1)) /\ L + 1 \in Nat
        /\ \A k \in beyondHops : k <= L + 1
    BY <1>1, <1>10, <1>12 DEF last, L
  <2>2. Max(beyondHops) = L + 1
    BY <2>1, LastIs
  <2>3. Origin(caller, route, sent) = last
    BY <1>5, <1>12, <2>1, <2>2 DEF last, L
  <2> QED BY <1>1, <1>3, <1>4, <1>6, <1>8, <1>9, <1>12, <2>3
<1>13. CASE last \in trusted /\ Garbage \in Range(sent)
  <2>1. Garbage \in Range(forwarded)
    <3>1. PICK n \in 1..M : sent[n] = Garbage
      BY <1>1, <1>13
    <3>2. n \in 1..(M + L) /\ forwarded[n] = Garbage
      BY <1>1, <3>1
    <3> QED BY <1>7, <3>2
  <2> QED BY <1>1, <1>4, <1>5, <1>6, <1>8, <1>9, <1>13, <2>1
<1>14. CASE last \in trusted /\ Garbage \notin Range(sent)
  <2>1. \A n \in 1..M : forwarded[n] \in Addresses
    BY <1>1, <1>14
  <2>2. \A n \in 1..(M + L) : n \in 1..M \/ n - M \in 1..L
    BY <1>1
  <2>3. \A n \in 1..(M + L) : n \notin 1..M =>
          forwarded[n] = [host |-> hops[n - M], mapped |-> mapped] /\ hops[n - M] \in Hosts
    <3> SUFFICES ASSUME NEW n \in 1..(M + L), n \notin 1..M
                 PROVE  forwarded[n] = [host |-> hops[n - M], mapped |-> mapped] /\ hops[n - M] \in Hosts
      OBVIOUS
    <3>1. n - M \in 1..L /\ n = M + (n - M) /\ n - M \in 1..(L + 1)
      BY <1>1, <2>2
    <3> QED BY <1>1, <1>4, <3>1
  <2>4. Garbage \notin Range(forwarded)
    <3>1. ASSUME NEW n \in 1..(M + L)
          PROVE  forwarded[n] \in Addresses
      BY <1>3, <2>1, <2>3
    <3> QED BY <1>7, <3>1, HeadersAssumption
  <2>5. CASE beyondHops # {}
    <3>1. PICK k \in beyondHops : k = Max(beyondHops) /\ \A n \in beyondHops : n <= k
      <4>1. beyondHops \in SUBSET (1..(L + 1)) /\ L + 1 \in Nat
        BY <1>1, <1>10
      <4> QED BY <2>5, <4>1, Last
    <3>2. k \in 1..L /\ hops[k] \notin trusted /\ hops[k] \in Hosts
      <4>1. k \in 1..(L + 1) /\ hops[k] \notin trusted
        BY <1>10
      <4>2. k # L + 1
        BY <1>14, <4>1 DEF last, L
      <4> QED BY <1>1, <1>4, <4>1, <4>2
    <3>3. forwarded[M + k] = [host |-> hops[k], mapped |-> mapped] /\ M + k \in 1..(M + L)
      BY <1>1, <3>2
    <3>4. M + k \in beyond
      BY <1>3, <1>11, <3>2, <3>3
    <3>5. ASSUME NEW n \in beyond
          PROVE  n <= M + k
      <4>1. n \in 1..(M + L) /\ ~IsTrusted(forwarded[n])
        BY <1>11
      <4>2. CASE n \in 1..M
        BY <1>1, <3>2, <4>2
      <4>3. CASE n \notin 1..M
        <5>1. hops[n - M] \notin trusted /\ n - M \in 1..(L + 1)
          <6>1. forwarded[n] = [host |-> hops[n - M], mapped |-> mapped] /\ hops[n - M] \in Hosts
            BY <2>3, <4>1, <4>3
          <6>2. n - M \in 1..L
            BY <2>2, <4>1, <4>3
          <6>3. PICK h \in Hosts : h = hops[n - M]
            BY <6>1
          <6>4. h \notin trusted
            BY <1>3, <4>1, <6>1, <6>3
          <6> QED BY <1>1, <6>2, <6>3, <6>4
        <5>2. n - M <= k
          BY <1>10, <3>1, <5>1
        <5> QED BY <1>1, <3>2, <4>1, <5>2
      <4> QED BY <4>2, <4>3
    <3>6. Max(beyond) = M + k
      <4>1. beyond \in SUBSET (1..(M + L)) /\ M + L \in Nat
        BY <1>1, <1>11
      <4> QED BY <3>4, <3>5, <4>1, LastIs
    <3>7. forwarded # <<>>
      BY <1>1, <3>2
    <3>8. Resolve(peer, forwarded) = Unmap(forwarded[M + k])
      BY <1>6, <1>8, <1>14, <2>4, <3>4, <3>6, <3>7
    <3>9. Origin(caller, route, sent) = hops[k]
      BY <1>5, <1>14, <2>5, <3>1
    <3> QED BY <1>3, <3>2, <3>3, <3>8, <3>9
  <2>6. CASE beyondHops = {}
    <3>1. Origin(caller, route, sent) = caller
      BY <1>5, <1>14, <2>6
    <3>2. \A n \in 1..(L + 1) : hops[n] \in trusted
      BY <1>10, <2>6
    <3>3. caller \in trusted
      BY <1>1, <3>2
    <3>4. M = 0
      BY <3>3 DEF M
    <3>5. \A n \in 1..L : forwarded[n] = [host |-> hops[n], mapped |-> mapped]
                           /\ hops[n] \in Hosts /\ hops[n] \in trusted
      BY <1>1, <1>4, <3>2, <3>4
    <3>6. beyond = {}
      <4>1. ASSUME NEW n \in 1..L
            PROVE  IsTrusted(forwarded[n])
        BY <1>3, <3>5
      <4>2. 1..(M + L) = 1..L
        BY <1>1, <3>4
      <4> QED BY <1>11, <4>1, <4>2
    <3>7. CASE forwarded = <<>>
      <4>1. L = 0
        BY <1>1, <3>7
      <4>2. last = caller
        BY <1>1, <4>1 DEF last, L
      <4> QED BY <1>6, <1>9, <3>1, <3>7, <4>2
    <3>8. CASE forwarded # <<>>
      <4>1. 1 \in 1..L
        BY <1>1, <3>4, <3>8
      <4>2. forwarded[1] = [host |-> caller, mapped |-> mapped]
        BY <1>1, <3>5, <4>1
      <4>3. Resolve(peer, forwarded) = Unmap(forwarded[1])
        BY <1>6, <1>8, <1>14, <2>4, <3>6, <3>8
      <4> QED BY <1>3, <3>1, <4>2, <4>3
    <3> QED BY <3>7, <3>8
  <2> QED BY <2>5, <2>6
<1> QED BY <1>12, <1>13, <1>14

-----------------------------------------------------------------------------
(* What a visitor looks like to the limiters. *)
Seen(v) == <<[host |-> v[1], mapped |-> FALSE], [name |-> v[2], padded |-> FALSE]>>

(* A request beyond its address is charged to the sender it comes from, as *)
(* the limiters see it.                                                    *)
CallTrue(r) ==
  pc[r] # "idle" =>
    /\ call[r] \in [feature : Features, visitor : Hashes, from : Senders]
    /\ call[r].visitor = Seen(call[r].from)

(* Senders and hashes are counted apart in the model; that the counts      *)
(* agree is why nobody sheds or loses an allowance.                        *)
EInv ==
  /\ EdgeTypeOK
  /\ \A r \in Handlers : CallTrue(r)
  /\ \A f \in Features, v \in Senders : used[f][v] = spent[f][Seen(v)]
  /\ SpentOnService

(* Senders that differ in host or agent have different hashes. *)
LEMMA SeenApart ==
  /\ \A v \in Senders : Seen(v) \in Hashes
  /\ \A v, u \in Senders : Seen(v) = Seen(u) => v = u
<1>1. ASSUME NEW v \in Senders
      PROVE  Seen(v) \in Hashes
  <2>1. v[1] \in Hosts /\ v[2] \in Agents
    BY DEF Senders
  <2>2. [host |-> v[1], mapped |-> FALSE] \in Addresses /\ [name |-> v[2], padded |-> FALSE] \in AgentStrings
    BY <2>1 DEF Addresses, AgentStrings
  <2> QED BY <2>2 DEF Seen, Hashes
<1>2. ASSUME NEW v \in Senders, NEW u \in Senders, Seen(v) = Seen(u)
      PROVE  v = u
  <2>1. v = <<v[1], v[2]>> /\ u = <<u[1], u[2]>>
    BY DEF Senders
  <2>2. [host |-> v[1], mapped |-> FALSE] = [host |-> u[1], mapped |-> FALSE]
        /\ [name |-> v[2], padded |-> FALSE] = [name |-> u[2], padded |-> FALSE]
    BY <1>2 DEF Seen
  <2>3. v[1] = u[1] /\ v[2] = u[2]
    BY <2>2
  <2> QED BY <2>1, <2>3
<1> QED BY <1>1, <1>2

(* As many requests are in the service as there are handlers at most. *)
LEMMA Counting ==
  ASSUME NEW f, NEW h
  PROVE  IsFiniteSet(InService(f, h)) /\ Cardinality(InService(f, h)) \in Nat
<1>1. InService(f, h) \subseteq Handlers
  BY DEF InService
<1> QED BY <1>1, FiniteAssumption, FS_Subset, FS_CardinalityType

(* Nothing is spent at the start. *)
LEMMA EdgeStarts == ASSUME EdgeInit PROVE EInv
<1>1. EdgeTypeOK
  BY AllowanceAssumption DEF EdgeInit, EdgeTypeOK
<1>2. \A f \in Features, h \in Hashes : InService(f, h) = {}
  BY DEF EdgeInit, InService
<1>3. SpentOnService
  <2> SUFFICES ASSUME NEW f \in Features, NEW h \in Hashes
               PROVE  spent[f][h] = LetIn(f, h)
    BY DEF SpentOnService
  <2>1. spent[f][h] = 0 /\ served[f][h] = 0
    BY DEF EdgeInit
  <2>2. Cardinality(InService(f, h)) = 0
    BY <1>2, FS_EmptySet
  <2> QED BY <2>1, <2>2 DEF LetIn
<1>4. \A f \in Features, v \in Senders : used[f][v] = spent[f][Seen(v)]
  BY SeenApart DEF EdgeInit
<1>5. \A r \in Handlers : CallTrue(r)
  BY DEF EdgeInit, CallTrue
<1> QED BY <1>1, <1>3, <1>4, <1>5 DEF EInv

(* Whatever the header and the form of the addresses, a request is hashed  *)
(* as the sender it is to be charged to.                                   *)
LEMMA ReceiveSees ==
  ASSUME EInv, NEW r \in Handlers, NEW f \in Features, NEW caller \in Hosts, NEW route \in Routes,
         NEW sent \in Headers, NEW mapped \in BOOLEAN, NEW agent \in AgentStrings,
         Receive(r, f, caller, route, sent, mapped, agent)
  PROVE  \E v \in Senders :
           call' = [call EXCEPT ![r] = [feature |-> f, visitor |-> Seen(v), from |-> v]]
<1>1. trusted \subseteq Proxies
  BY DEF EInv, EdgeTypeOK
<1> DEFINE origin == Origin(caller, route, sent)
           v == <<origin, agent.name>>
<1>2. /\ Resolve(Peer(caller, route, mapped), Forwarded(caller, route, sent, mapped))
           = [host |-> origin, mapped |-> FALSE]
      /\ origin \in Hosts
  BY <1>1, Resolved DEF Receive
<1>3. agent.name \in Agents /\ [agent EXCEPT !.padded = FALSE] = [name |-> agent.name, padded |-> FALSE]
  <2>1. PICK plain \in BOOLEAN : plain = FALSE
    OBVIOUS
  <2>2. [agent EXCEPT !.padded = plain] = [name |-> agent.name, padded |-> plain]
    BY DEF AgentStrings
  <2> QED BY <2>1, <2>2 DEF AgentStrings
<1>4. v \in Senders
  BY <1>2, <1>3 DEF Senders
<1>5. Unmap([host |-> origin, mapped |-> FALSE]) = [host |-> origin, mapped |-> FALSE]
  <2>1. PICK plain \in BOOLEAN : plain = FALSE
    OBVIOUS
  <2>2. [[host |-> origin, mapped |-> plain] EXCEPT !.mapped = plain] = [host |-> origin, mapped |-> plain]
    BY <1>2
  <2> QED BY <2>1, <2>2 DEF Unmap
<1>6. Hash(Resolve(Peer(caller, route, mapped), Forwarded(caller, route, sent, mapped)), agent) = Seen(v)
  BY <1>2, <1>3, <1>5 DEF Hash, Seen
<1>7. call' = [call EXCEPT ![r] = [feature |-> f, visitor |-> Seen(v), from |-> v]]
  BY <1>6 DEF Receive
<1> QED BY <1>4, <1>7

(* Receive sets up a true call; the limiter counts for hash and sender at  *)
(* once; what leaves the service has been counted as served.               *)
LEMMA EdgeStepKeeps == ASSUME EInv, [EdgeNext]_edgeVars PROVE EInv'
<1> USE DEF EInv
<1>1. EdgeTypeOK
  OBVIOUS
<1>2. ASSUME NEW r \in Handlers, NEW f \in Features, NEW caller \in Hosts, NEW route \in Routes,
             NEW sent \in Headers, NEW mapped \in BOOLEAN, NEW agent \in AgentStrings,
             Receive(r, f, caller, route, sent, mapped, agent)
      PROVE  EInv'
  <2>1. PICK v \in Senders :
          call' = [call EXCEPT ![r] = [feature |-> f, visitor |-> Seen(v), from |-> v]]
    BY <1>2, ReceiveSees
  <2>2. /\ pc[r] = "idle" /\ pc' \in [Handlers -> {"idle", "body", "limiter", "service"}]
        /\ pc'[r] \in {"body", "limiter"}
        /\ \A q \in Handlers : q # r => pc'[q] = pc[q] /\ call'[q] = call[q]
        /\ UNCHANGED <<trusted, spent, used, served>>
    BY <1>1, <1>2, <2>1 DEF Receive, EdgeTypeOK
  <2>3. call'[r] = [feature |-> f, visitor |-> Seen(v), from |-> v]
        /\ call'[r] \in [feature : Features, visitor : Hashes, from : Senders]
    BY <1>1, <2>1, SeenApart DEF EdgeTypeOK
  <2>4. EdgeTypeOK'
    BY <1>1, <2>1, <2>2, <2>3 DEF EdgeTypeOK
  <2>5. \A q \in Handlers : CallTrue(q)'
    BY <2>2, <2>3 DEF CallTrue
  <2>6. \A g \in Features, h \in Hashes : InService(g, h)' = InService(g, h)
    BY <2>2 DEF InService
  <2>7. SpentOnService'
    BY <2>2, <2>6 DEF SpentOnService, LetIn
  <2> QED BY <2>2, <2>4, <2>5, <2>7
<1>3. ASSUME NEW r \in Handlers, Decode(r)
      PROVE  EInv'
  <2>1. /\ pc[r] = "body" /\ pc' \in [Handlers -> {"idle", "body", "limiter", "service"}]
        /\ \/ pc'[r] = "limiter" /\ call'[r] = call[r]
           \/ pc'[r] = "idle" /\ call'[r] = NoCall
        /\ \A q \in Handlers : q # r => pc'[q] = pc[q] /\ call'[q] = call[q]
        /\ call' \in [Handlers -> {NoCall} \cup [feature : Features, visitor : Hashes, from : Senders]]
        /\ UNCHANGED <<trusted, spent, used, served>>
    BY <1>1, <1>3 DEF Decode, EdgeTypeOK
  <2>2. EdgeTypeOK'
    BY <1>1, <2>1 DEF EdgeTypeOK
  <2>3. \A q \in Handlers : CallTrue(q)'
    BY <2>1 DEF CallTrue
  <2>4. \A g \in Features, h \in Hashes : InService(g, h)' = InService(g, h)
    BY <2>1 DEF InService
  <2>5. SpentOnService'
    BY <2>1, <2>4 DEF SpentOnService, LetIn
  <2> QED BY <2>1, <2>2, <2>3, <2>5
<1>4. ASSUME NEW r \in Handlers, AskLimiter(r), UNCHANGED <<spent, used>>
      PROVE  EInv'
  <2>1. pc[r] = "limiter" /\ CallTrue(r) /\ UNCHANGED <<trusted, served>>
    BY <1>4 DEF AskLimiter
  <2>2. call[r].feature \in Features /\ call[r].visitor \in Hashes
    BY <2>1 DEF CallTrue
  <2>3. ~(spent' = [spent EXCEPT ![call[r].feature][call[r].visitor] = @ + 1])
    <3>1. spent[call[r].feature][call[r].visitor] \in Nat
      BY <1>1, <2>2 DEF EdgeTypeOK
    <3>2. spent' = [spent EXCEPT ![call[r].feature][call[r].visitor] = @ + 1] =>
            spent'[call[r].feature][call[r].visitor] = spent[call[r].feature][call[r].visitor] + 1
      BY <1>1, <2>2 DEF EdgeTypeOK
    <3> QED BY <1>4, <3>1, <3>2
  <2>4. pc' = [pc EXCEPT ![r] = "idle"] /\ call' = [call EXCEPT ![r] = NoCall]
    BY <1>4, <2>3 DEF AskLimiter
  <2>5. /\ pc' \in [Handlers -> {"idle", "body", "limiter", "service"}] /\ pc'[r] = "idle"
        /\ \A q \in Handlers : q # r => pc'[q] = pc[q] /\ call'[q] = call[q]
        /\ call' \in [Handlers -> {NoCall} \cup [feature : Features, visitor : Hashes, from : Senders]]
    BY <1>1, <2>4 DEF EdgeTypeOK
  <2>6. EdgeTypeOK' /\ \A q \in Handlers : CallTrue(q)'
    BY <1>1, <1>4, <2>1, <2>5 DEF EdgeTypeOK, CallTrue
  <2>7. \A g \in Features, h \in Hashes : InService(g, h)' = InService(g, h)
    BY <2>1, <2>5 DEF InService
  <2>8. SpentOnService'
    BY <1>4, <2>1, <2>7 DEF SpentOnService, LetIn
  <2> QED BY <1>4, <2>6, <2>8
<1>5. ASSUME NEW r \in Handlers, AskLimiter(r), ~UNCHANGED <<spent, used>>
      PROVE  EInv'
  <2>1. pc[r] = "limiter" /\ CallTrue(r) /\ UNCHANGED <<trusted, call, served>>
    BY <1>5 DEF AskLimiter
  <2>2. PICK f \in Features, h \in Hashes, v \in Senders :
          /\ f = call[r].feature /\ h = call[r].visitor /\ v = call[r].from
          /\ h = Seen(v)
    BY <2>1 DEF CallTrue
  <2>3. /\ spent[f][h] < PerMinute[f]
        /\ spent' = [spent EXCEPT ![f][h] = @ + 1]
        /\ used' = [used EXCEPT ![f][v] = @ + 1]
        /\ pc' = [pc EXCEPT ![r] = "service"]
    BY <1>5, <2>2 DEF AskLimiter
  <2>4. /\ spent[f][h] \in Nat /\ used[f][v] \in Nat /\ PerMinute[f] \in Nat
        /\ spent'[f][h] = spent[f][h] + 1 /\ used'[f][v] = used[f][v] + 1
        /\ \A g \in Features, k \in Hashes : g # f \/ k # h => spent'[g][k] = spent[g][k]
        /\ \A g \in Features, u \in Senders : g # f \/ u # v => used'[g][u] = used[g][u]
        /\ spent' \in [Features -> [Hashes -> Nat]] /\ used' \in [Features -> [Senders -> Nat]]
        /\ \A g \in Features, k \in Hashes : spent'[g][k] \in Nat
    <3>1. spent \in [Features -> [Hashes -> Nat]] /\ used \in [Features -> [Senders -> Nat]]
      BY <1>1 DEF EdgeTypeOK
    <3>2. spent[f][h] \in Nat /\ used[f][v] \in Nat /\ PerMinute[f] \in Nat
      BY <3>1, AllowanceAssumption
    <3>3. /\ spent'[f][h] = spent[f][h] + 1 /\ used'[f][v] = used[f][v] + 1
          /\ \A g \in Features, k \in Hashes : g # f \/ k # h => spent'[g][k] = spent[g][k]
          /\ \A g \in Features, u \in Senders : g # f \/ u # v => used'[g][u] = used[g][u]
      BY <2>3, <3>1
    <3>4. spent' \in [Features -> [Hashes -> Nat]] /\ used' \in [Features -> [Senders -> Nat]]
      BY <2>3, <3>1, <3>2
    <3>5. \A g \in Features, k \in Hashes : spent'[g][k] \in Nat
      BY <3>4
    <3> QED BY <3>2, <3>3, <3>4, <3>5
  <2>5. /\ pc' \in [Handlers -> {"idle", "body", "limiter", "service"}] /\ pc'[r] = "service"
        /\ \A q \in Handlers : q # r => pc'[q] = pc[q]
    BY <1>1, <2>3 DEF EdgeTypeOK
  <2>6. \A g \in Features, k \in Hashes : spent'[g][k] <= PerMinute[g]
    <3> TAKE g \in Features, k \in Hashes
    <3>1. CASE g = f /\ k = h
      BY <2>3, <2>4, <3>1
    <3>2. CASE g # f \/ k # h
      BY <1>1, <2>4, <3>2 DEF EdgeTypeOK
    <3> QED BY <3>1, <3>2
  <2>7. EdgeTypeOK'
    BY <1>1, <2>1, <2>4, <2>5, <2>6 DEF EdgeTypeOK
  <2>8. \A q \in Handlers : CallTrue(q)'
    BY <2>1, <2>5 DEF CallTrue
  <2>9. \A g \in Features, u \in Senders : used'[g][u] = spent'[g][Seen(u)]
    <3> TAKE g \in Features, u \in Senders
    <3>1. Seen(u) \in Hashes /\ used[g][u] = spent[g][Seen(u)]
      BY SeenApart
    <3>2. CASE g = f /\ u = v
      BY <2>2, <2>4, <3>1, <3>2
    <3>3. CASE g # f \/ u # v
      <4>1. g # f \/ Seen(u) # h
        BY <2>2, <3>3, SeenApart
      <4> QED BY <2>4, <3>1, <3>3, <4>1
    <3> QED BY <3>2, <3>3
  <2>10. SpentOnService'
    <3> SUFFICES ASSUME NEW g \in Features, NEW k \in Hashes
                 PROVE  spent'[g][k] = LetIn(g, k)'
      BY DEF SpentOnService
    <3>1. spent[g][k] = LetIn(g, k) /\ served' = served /\ served[g][k] \in Nat
      BY <1>1, <2>1 DEF SpentOnService, EdgeTypeOK
    <3>2. CASE g = f /\ k = h
      <4>1. InService(g, k)' = InService(g, k) \cup {r} /\ r \notin InService(g, k)
        BY <2>1, <2>2, <2>5, <3>2 DEF InService
      <4>2. Cardinality(InService(g, k))' = Cardinality(InService(g, k)) + 1
        BY <4>1, Counting, FS_AddElement
      <4>3. PICK n \in Nat, m \in Nat : n = served[g][k] /\ m = Cardinality(InService(g, k))
        BY <3>1, Counting
      <4>4. spent[g][k] = n + m /\ LetIn(g, k)' = n + (m + 1)
        BY <3>1, <4>2, <4>3 DEF LetIn
      <4>5. spent'[g][k] = (n + m) + 1
        BY <2>4, <3>2, <4>4
      <4> QED BY <4>4, <4>5
    <3>3. CASE g # f \/ k # h
      <4>1. InService(g, k)' = InService(g, k)
        BY <2>1, <2>2, <2>5, <3>3 DEF InService
      <4> QED BY <2>4, <3>1, <3>3, <4>1 DEF LetIn
    <3> QED BY <3>2, <3>3
  <2> QED BY <2>7, <2>8, <2>9, <2>10
<1>6. ASSUME NEW r \in Handlers, Serve(r)
      PROVE  EInv'
  <2>1. pc[r] = "service" /\ CallTrue(r) /\ UNCHANGED <<trusted, spent, used>>
    BY <1>6 DEF Serve
  <2>2. PICK f \in Features, h \in Hashes : f = call[r].feature /\ h = call[r].visitor
    BY <2>1 DEF CallTrue
  <2>3. /\ pc' \in [Handlers -> {"idle", "body", "limiter", "service"}] /\ pc'[r] = "idle"
        /\ \A q \in Handlers : q # r => pc'[q] = pc[q] /\ call'[q] = call[q]
        /\ call' \in [Handlers -> {NoCall} \cup [feature : Features, visitor : Hashes, from : Senders]]
    BY <1>1, <1>6 DEF Serve, EdgeTypeOK
  <2>4. served' = [served EXCEPT ![f][h] = @ + 1]
    BY <1>6, <2>2 DEF Serve
  <2>5. /\ served[f][h] \in Nat /\ served'[f][h] = served[f][h] + 1
        /\ \A g \in Features, k \in Hashes : g # f \/ k # h => served'[g][k] = served[g][k]
        /\ served' \in [Features -> [Hashes -> Nat]]
    BY <1>1, <2>4 DEF EdgeTypeOK
  <2>6. EdgeTypeOK' /\ \A q \in Handlers : CallTrue(q)'
    BY <1>1, <2>1, <2>3, <2>5 DEF EdgeTypeOK, CallTrue
  <2>7. SpentOnService'
    <3> SUFFICES ASSUME NEW g \in Features, NEW k \in Hashes
                 PROVE  spent'[g][k] = LetIn(g, k)'
      BY DEF SpentOnService
    <3>1. spent'[g][k] = LetIn(g, k)
      BY <2>1 DEF SpentOnService
    <3>2. CASE g = f /\ k = h
      <4>1. InService(g, k)' = InService(g, k) \ {r} /\ r \in InService(g, k)
        BY <2>1, <2>2, <2>3, <3>2 DEF InService
      <4>2. Cardinality(InService(g, k))' = Cardinality(InService(g, k)) - 1
        BY <4>1, Counting, FS_RemoveElement
      <4>3. PICK n \in Nat, m \in Nat : n = served[g][k] /\ m = Cardinality(InService(g, k))
        BY <2>5, <3>2, Counting
      <4>4. spent'[g][k] = n + m
        BY <3>1, <4>3 DEF LetIn
      <4>5. LetIn(g, k)' = (n + 1) + (m - 1)
        BY <2>5, <3>2, <4>2, <4>3 DEF LetIn
      <4> QED BY <4>4, <4>5
    <3>3. CASE g # f \/ k # h
      <4>1. InService(g, k)' = InService(g, k)
        BY <2>1, <2>2, <2>3, <3>3 DEF InService
      <4> QED BY <2>5, <3>1, <3>3, <4>1 DEF LetIn
    <3> QED BY <3>2, <3>3
  <2> QED BY <2>1, <2>6, <2>7
<1>7. CASE UNCHANGED edgeVars
  BY <1>7 DEF edgeVars, handlerVars, EdgeTypeOK, CallTrue, SpentOnService, LetIn, InService
<1> QED BY <1>2, <1>3, <1>4, <1>5, <1>6, <1>7 DEF EdgeNext

(* The variables of PublicEdge keep their types, and no hash spends more   *)
(* than the allowance of its feature.                                      *)
THEOREM EdgeTypeCorrect == EdgeSpec => []EdgeTypeOK
<1>1. EInv => EdgeTypeOK
  BY DEF EInv
<1> QED BY EdgeStarts, EdgeStepKeeps, <1>1, PTL DEF EdgeSpec

(* The allowance is spent on what its service gets to see and on nothing   *)
(* else (CommentHandler.Create).                                           *)
THEOREM ChargedOnce == EdgeSpec => []SpentOnService
<1>1. EInv => SpentOnService
  BY DEF EInv
<1> QED BY EdgeStarts, EdgeStepKeeps, <1>1, PTL DEF EdgeSpec

(* Nobody is let in more often than its allowance, whatever it writes into *)
(* the header (ClientIPResolver.Resolve).                                  *)
THEOREM AllowanceOfOne == EdgeSpec => []OneAllowance
<1>1. ASSUME EInv, NEW f \in Features, NEW v \in Senders
      PROVE  used[f][v] <= PerMinute[f]
  BY <1>1, SeenApart DEF EInv, EdgeTypeOK
<1>2. EInv => OneAllowance
  BY <1>1 DEF OneAllowance
<1> QED BY EdgeStarts, EdgeStepKeeps, <1>2, PTL DEF EdgeSpec

(* Whoever is denied has used its own allowance or finds the table full    *)
(* (ClientIPResolver.Resolve, AssignmentLimiter.Allow).                    *)
THEOREM DenialsDeserved == EdgeSpec => DenialDeserved
<1>1. ASSUME EInv, [EdgeNext]_edgeVars, NEW r \in Handlers, pc[r] = "limiter", pc'[r] = "idle"
      PROVE  \/ used[call[r].feature][call[r].from] = PerMinute[call[r].feature]
             \/ Full(call[r].feature)
  <2>1. EdgeTypeOK /\ CallTrue(r)
    BY <1>1 DEF EInv
  <2>2. AskLimiter(r)
      <3>1. pc \in [Handlers -> {"idle", "body", "limiter", "service"}]
      BY <2>1 DEF EdgeTypeOK
    <3>2. PICK q \in Handlers :
            \/ \E f \in Features, caller \in Hosts, route \in Routes, sent \in Headers,
                  mapped \in BOOLEAN, agent \in AgentStrings :
                 Receive(q, f, caller, route, sent, mapped, agent)
            \/ Decode(q) \/ AskLimiter(q) \/ Serve(q)
      BY <1>1 DEF EdgeNext, edgeVars, handlerVars
    <3>3. ~UNCHANGED <<pc>> /\ (q # r => pc'[r] = pc[r])
      BY <1>1, <3>1, <3>2 DEF Receive, Decode, AskLimiter, Serve
    <3>4. q = r
      BY <1>1, <3>3
    <3>5. ~Decode(q) /\ ~Serve(q)
      BY <1>1, <3>4 DEF Decode, Serve
    <3>6. ASSUME NEW f \in Features, NEW caller \in Hosts, NEW route \in Routes, NEW sent \in Headers,
                 NEW mapped \in BOOLEAN, NEW agent \in AgentStrings
          PROVE  ~Receive(q, f, caller, route, sent, mapped, agent)
      BY <1>1, <3>4 DEF Receive
    <3> QED BY <3>2, <3>4, <3>5, <3>6
  <2>3. PICK f \in Features, h \in Hashes, v \in Senders :
          f = call[r].feature /\ h = call[r].visitor /\ v = call[r].from /\ h = Seen(v)
    BY <1>1, <2>1 DEF CallTrue
  <2>4. spent[f][h] = PerMinute[f] \/ Full(f)
    BY <1>1, <2>1, <2>2, <2>3 DEF AskLimiter, EdgeTypeOK
  <2>5. used[f][v] = spent[f][h]
    BY <1>1, <2>3 DEF EInv
  <2> QED BY <2>3, <2>4, <2>5
<1>2. EInv /\ [EdgeNext]_edgeVars =>
        \A r \in Handlers : pc[r] = "limiter" /\ pc'[r] = "idle" =>
          \/ used[call[r].feature][call[r].from] = PerMinute[call[r].feature]
          \/ Full(call[r].feature)
  BY <1>1
<1> QED BY EdgeStarts, EdgeStepKeeps, <1>2, PTL DEF EdgeSpec, DenialDeserved
-----------------------------------------------------------------------------
(* The history of a limiter is as long as its count. *)
LEMMA AdmissionsAre ==
  ASSUME SpentOnService, NEW f \in Features
  PROVE  Admissions(f) = [h \in Hashes |-> [n \in 1..spent[f][h] |-> 0]]
BY DEF Admissions, SpentOnService

(* One more entry in a history of a clock that stands still. *)
LEMMA Zeros ==
  ASSUME NEW k \in Nat
  PROVE  Append([n \in 1..k |-> 0], 0) = [n \in 1..(k + 1) |-> 0]
<1> DEFINE a == [n \in 1..k |-> 0]
           b == [n \in 1..(k + 1) |-> 0]
<1>1. a \in Seq({0}) /\ b \in Seq({0}) /\ Len(a) = k /\ Len(b) = k + 1
  OBVIOUS
<1>2. Append(a, 0) \in [1..(k + 1) -> {0}] /\ b \in [1..(k + 1) -> {0}]
  <2> HIDE DEF a
  <2>1. Append(a, 0) \in Seq({0}) /\ Len(Append(a, 0)) = k + 1
    BY <1>1
  <2>2. PICK s \in Seq({0}) : s = Append(a, 0)
    BY <2>1
  <2>3. s \in [1..Len(s) -> {0}]
    OBVIOUS
  <2>4. s \in [1..(k + 1) -> {0}]
    BY <2>1, <2>2, <2>3
  <2> QED BY <2>2, <2>4
<1>3. \A n \in 1..(k + 1) : Append(a, 0)[n] = 0 /\ b[n] = 0
  BY <1>1
<1> HIDE DEF a, b
<1>4. Append(a, 0) = b
  BY <1>2, <1>3
<1> QED BY <1>4 DEF a, b

(* Its table is the visitors that have spent something. *)
LEMMA EntriesAre ==
  ASSUME EInv, NEW f \in Features, NEW h \in Hashes
  PROVE  /\ spent[f][h] \in Nat
         /\ spent[f][h] = 0 => Entries(f)[h] = NoCall
         /\ spent[f][h] > 0 =>
              /\ Entries(f)[h] = [windowStart |-> 0, count |-> spent[f][h]]
              /\ Entries(f)[h].windowStart = 0 /\ Entries(f)[h].count = spent[f][h]
              /\ Entries(f)[h] # NoCall
<1>1. PICK n \in Nat : n = spent[f][h]
  BY DEF EInv, EdgeTypeOK
<1>2. CASE n = 0
  <2>1. Entries(f)[h] = NoCall
    BY <1>1, <1>2 DEF Entries
  <2> QED BY <1>1, <1>2, <2>1
<1>3. CASE n > 0
  <2>1. Entries(f)[h] = [windowStart |-> 0, count |-> n]
    BY <1>1, <1>3 DEF Entries
  <2>2. [windowStart |-> 0, count |-> n] \in [windowStart : Int, count : Int]
    OBVIOUS
  <2>3. [windowStart |-> 0, count |-> n] # NoCall
    BY <2>2, NoCallAssumption
  <2> QED BY <1>1, <1>3, <2>1, <2>3
<1> QED BY <1>1, <1>2, <1>3

(* As no entry expires, the sweep takes nothing from the table. *)
LEMMA HeldAre ==
  ASSUME EInv, NEW f \in Features
  PROVE  /\ Limiter(f)!Held = {h \in Hashes : spent[f][h] > 0}
         /\ Limiter(f)!Swept(0) = Limiter(f)!Held
         /\ \A h \in Limiter(f)!Held : ~Limiter(f)!Expired(h, 0)
         /\ Full(f) <=> Cardinality(Limiter(f)!Held) >= TableSize
         /\ Cardinality(Limiter(f)!Held) \in Nat
<1>1. ASSUME NEW h \in Hashes
      PROVE  h \in Limiter(f)!Held <=> spent[f][h] > 0
  <2>1. h \in Limiter(f)!Held <=> Entries(f)[h] # NoCall
    BY DEF Limiter!Held
  <2>2. spent[f][h] \in Nat /\ (spent[f][h] = 0 => Entries(f)[h] = NoCall)
        /\ (spent[f][h] > 0 => Entries(f)[h] # NoCall)
    BY EntriesAre
  <2>3. PICK n \in Nat : n = spent[f][h]
    BY <2>2
  <2>4. CASE n = 0
    BY <2>1, <2>2, <2>3, <2>4
  <2>5. CASE n > 0
    BY <2>1, <2>2, <2>3, <2>5
  <2> QED BY <2>4, <2>5
<1>2. Limiter(f)!Held \subseteq Hashes
  BY DEF Limiter!Held
<1>3. Limiter(f)!Held = {h \in Hashes : spent[f][h] > 0}
  BY <1>1, <1>2
<1>4. \A h \in Limiter(f)!Held : ~Limiter(f)!Expired(h, 0)
  <2> TAKE h \in Limiter(f)!Held
  <2>1. Entries(f)[h].windowStart = 0
    BY <1>1, <1>2, EntriesAre
  <2> QED BY <2>1 DEF Limiter!Expired
<1>5. Limiter(f)!Swept(0) = Limiter(f)!Held
  BY <1>4 DEF Limiter!Swept
<1>6. Cardinality(Limiter(f)!Held) \in Nat
  BY <1>2, FiniteAssumption, FS_Subset, FS_CardinalityType
<1> QED BY <1>3, <1>4, <1>5, <1>6 DEF Full

(* The limiter the edge asks is that of RateLimiter, one for each feature: *)
(* every step of a handler is a call, a decision or nothing to it          *)
(* (ratelimit.AssignmentLimiter as httpapi uses it).                       *)
THEOREM LimitersImplemented == EdgeSpec => ImplementsLimiters
<1>1. ASSUME EInv, EInv', [EdgeNext]_edgeVars, NEW f \in Features
      PROVE  UNCHANGED Limiter(f)!vars \/ Limiter(f)!Next
  <2>1. Admissions(f) = [h \in Hashes |-> [n \in 1..spent[f][h] |-> 0]]
        /\ Admissions(f)' = [h \in Hashes |-> [n \in 1..spent'[f][h] |-> 0]]
    BY <1>1, AdmissionsAre DEF EInv, Admissions, SpentOnService
  <2>2. EdgeTypeOK /\ EdgeTypeOK' /\ \A r \in Handlers : CallTrue(r) /\ CallTrue(r)'
    BY <1>1 DEF EInv
  <2>3. \A r \in Handlers, h \in Hashes : [visitor |-> h, now |-> 0] # NoCall
    BY NoCallAssumption
  <2>4. ASSUME UNCHANGED spent
        PROVE  Entries(f)' = Entries(f) /\ Admissions(f)' = Admissions(f)
    BY <2>1, <2>4 DEF Entries
  <2>5. ASSUME NEW r \in Handlers, UNCHANGED spent, pc[r] # "limiter",
               \A q \in Handlers : q # r => pc'[q] = pc[q] /\ call'[q] = call[q]
        PROVE  UNCHANGED Limiter(f)!vars \/ Limiter(f)!Next
    <3>1. CASE pc'[r] = "limiter" /\ call'[r].feature = f
      <4>1. PICK h \in Hashes : h = call'[r].visitor
        BY <2>2, <3>1 DEF CallTrue
      <4>2. Asking(f)[r] = NoCall
        BY <2>5 DEF Asking
      <4>3. Asking(f)' = [Asking(f) EXCEPT ![r] = [visitor |-> h, now |-> 0]]
        BY <2>5, <3>1, <4>1 DEF Asking
      <4>4. Limiter(f)!Call(r, h)
        BY <2>4, <2>5, <4>2, <4>3 DEF Limiter!Call
      <4> QED BY <4>4 DEF Limiter!Next
    <3>2. CASE ~(pc'[r] = "limiter" /\ call'[r].feature = f)
      <4>1. Asking(f)' = Asking(f)
        BY <2>5, <3>2 DEF Asking
      <4> QED BY <2>4, <2>5, <4>1 DEF Limiter!vars
    <3> QED BY <3>1, <3>2
  <2>6. ASSUME NEW r \in Handlers, AskLimiter(r), call[r].feature # f
        PROVE  UNCHANGED Limiter(f)!vars
    <3>1. call[r].feature \in Features
      BY <2>2, <2>6 DEF AskLimiter, CallTrue
    <3>2. \A h \in Hashes : spent'[f][h] = spent[f][h]
      BY <2>2, <2>6, <3>1 DEF AskLimiter, EdgeTypeOK
    <3>3. Entries(f)' = Entries(f) /\ Admissions(f)' = Admissions(f)
      BY <2>1, <3>2 DEF Entries
    <3>4. Asking(f)' = Asking(f)
      BY <2>2, <2>6 DEF Asking, AskLimiter, EdgeTypeOK
    <3> QED BY <3>3, <3>4 DEF Limiter!vars
  <2>7. ASSUME NEW r \in Handlers, AskLimiter(r), call[r].feature = f
        PROVE  Limiter(f)!Next
    <3>1. PICK h \in Hashes : h = call[r].visitor
      BY <2>2, <2>7 DEF AskLimiter, CallTrue
    <3>2. Asking(f)[r] = [visitor |-> h, now |-> 0]
      BY <2>7, <3>1 DEF Asking, AskLimiter
    <3>3. Asking(f)' = [Asking(f) EXCEPT ![r] = NoCall]
      BY <2>2, <2>7 DEF Asking, AskLimiter, EdgeTypeOK
    <3>4. /\ spent \in [Features -> [Hashes -> Nat]] /\ \A k \in Hashes : spent[f][k] \in Nat
          /\ spent[f][h] <= PerMinute[f] /\ PerMinute[f] \in Nat \ {0}
      BY <2>2, AllowanceAssumption DEF EdgeTypeOK
    <3>5. /\ \A k \in Hashes : k \in Limiter(f)!Held <=> spent[f][k] > 0
          /\ Limiter(f)!Held \subseteq Hashes
          /\ Limiter(f)!Swept(0) = Limiter(f)!Held
          /\ \A k \in Limiter(f)!Held : ~Limiter(f)!Expired(k, 0)
          /\ Full(f) => Cardinality(Limiter(f)!Swept(0)) >= TableSize
          /\ ~Full(f) => Cardinality(Limiter(f)!Swept(0)) < TableSize
      BY <1>1, HeldAre, AllowanceAssumption
    <3>6. \A S : Limiter(f)!Cardinality(S) = Cardinality(S)
      BY DEF Limiter!Cardinality, Cardinality
    <3>7. CASE spent' = [spent EXCEPT ![f][h] = @ + 1] /\ spent[f][h] < PerMinute[f]
                 /\ (spent[f][h] > 0 \/ ~Full(f))
      <4>1. /\ spent'[f][h] = spent[f][h] + 1
            /\ \A k \in Hashes : k # h => spent'[f][k] = spent[f][k] /\ Entries(f)'[k] = Entries(f)[k]
            /\ Entries(f)'[h] = [windowStart |-> 0, count |-> spent[f][h] + 1]
        <5>1. spent'[f][h] = spent[f][h] + 1 /\ \A k \in Hashes : k # h => spent'[f][k] = spent[f][k]
          BY <3>4, <3>7
        <5>2. Entries(f)'[h] = [windowStart |-> 0, count |-> spent'[f][h]]
          BY <3>4, <5>1 DEF Entries
        <5> QED BY <5>1, <5>2 DEF Entries
      <4>2. Limiter(f)!Admitted(h)
        <5>1. Append(Admissions(f)[h], 0) = Admissions(f)'[h]
          <6>1. PICK n \in Nat : n = spent[f][h] /\ spent'[f][h] = n + 1
            BY <3>4, <4>1
          <6>2. Admissions(f)[h] = [i \in 1..n |-> 0] /\ Admissions(f)'[h] = [i \in 1..(n + 1) |-> 0]
            BY <2>1, <6>1
          <6> QED BY <6>2, Zeros
        <5>2. \A k \in Hashes : k # h => Admissions(f)'[k] = Admissions(f)[k]
          BY <2>1, <4>1
        <5>3. Admissions(f)' = [Admissions(f) EXCEPT ![h] = Append(@, 0)]
          BY <2>1, <5>1, <5>2
        <5> QED BY <5>3 DEF Limiter!Admitted
      <4>3. CASE spent[f][h] > 0
        <5>1. /\ h \in Limiter(f)!Held /\ ~Limiter(f)!Expired(h, 0)
              /\ Entries(f)[h] = [windowStart |-> 0, count |-> spent[f][h]]
              /\ Entries(f)[h].count = spent[f][h]
          BY <1>1, <3>5, <4>3, EntriesAre
        <5>2. [Entries(f)[h] EXCEPT !.count = @ + 1] = Entries(f)'[h]
          BY <3>4, <4>1, <5>1
        <5>3. Entries(f)' = [Entries(f) EXCEPT ![h].count = @ + 1]
          BY <4>1, <5>2 DEF Entries
        <5>4. Limiter(f)!AllowKnown(h, 0)
          BY <3>7, <4>2, <5>1, <5>3 DEF Limiter!AllowKnown
        <5>5. Limiter(f)!Allow(r)
          BY <2>3, <3>2, <3>3, <5>4 DEF Limiter!Allow
        <5> QED BY <5>5 DEF Limiter!Next
      <4>4. CASE spent[f][h] = 0
        <5>1. h \notin Limiter(f)!Held /\ Cardinality(Limiter(f)!Swept(0)) < TableSize
          BY <3>4, <3>5, <3>7, <4>4
        <5>2. ASSUME NEW k \in Hashes
              PROVE  Entries(f)'[k] = IF k = h THEN [windowStart |-> 0, count |-> 1]
                                      ELSE IF k \in Limiter(f)!Swept(0) THEN Entries(f)[k] ELSE NoCall
          <6>1. CASE k = h
            BY <4>1, <4>4, <6>1
          <6>2. CASE k # h /\ spent[f][k] > 0
            BY <3>5, <4>1, <6>2
          <6>3. CASE k # h /\ spent[f][k] = 0
            <7>1. Entries(f)[k] = NoCall /\ k \notin Limiter(f)!Swept(0)
              <8>1. ~(spent[f][k] > 0)
                BY <6>3
              <8> QED BY <1>1, <3>5, <6>3, <8>1, EntriesAre
            <7> QED BY <4>1, <6>3, <7>1
          <6> QED BY <3>4, <6>1, <6>2, <6>3
        <5>3. Entries(f)' = [k \in Hashes |-> IF k = h THEN [windowStart |-> 0, count |-> 1]
                                              ELSE IF k \in Limiter(f)!Swept(0) THEN Entries(f)[k] ELSE NoCall]
          BY <5>2 DEF Entries
        <5>4. Limiter(f)!AllowNew(h, 0)
          BY <3>6, <4>2, <5>1, <5>3 DEF Limiter!AllowNew
        <5>5. Limiter(f)!Allow(r)
          BY <2>3, <3>2, <3>3, <5>4 DEF Limiter!Allow
        <5> QED BY <5>5 DEF Limiter!Next
      <4> QED BY <3>4, <4>3, <4>4
    <3>8. CASE UNCHANGED spent /\ (spent[f][h] = PerMinute[f] \/ (spent[f][h] = 0 /\ Full(f)))
      <4>1. Entries(f)' = Entries(f) /\ Admissions(f)' = Admissions(f)
        BY <2>4, <3>8
      <4>2. CASE spent[f][h] = PerMinute[f]
        <5>1. spent[f][h] > 0
          BY <3>4, <4>2
        <5>2. /\ h \in Limiter(f)!Held /\ ~Limiter(f)!Expired(h, 0)
              /\ Entries(f)[h].count = PerMinute[f] /\ PerMinute[f] >= PerMinute[f]
          BY <1>1, <3>4, <3>5, <4>2, <5>1, EntriesAre
        <5>3. Limiter(f)!AllowKnown(h, 0)
          BY <4>1, <5>2 DEF Limiter!AllowKnown
        <5>4. Limiter(f)!Allow(r)
          BY <2>3, <3>2, <3>3, <5>3 DEF Limiter!Allow
        <5> QED BY <5>4 DEF Limiter!Next
      <4>3. CASE spent[f][h] = 0 /\ Full(f)
        <5>1. h \notin Limiter(f)!Held /\ Cardinality(Limiter(f)!Swept(0)) >= TableSize
          BY <3>4, <3>5, <4>3
        <5>2. ASSUME NEW k \in Hashes
              PROVE  Entries(f)[k] = IF k \in Limiter(f)!Swept(0) THEN Entries(f)[k] ELSE NoCall
          <6>1. CASE spent[f][k] > 0
            BY <3>5, <6>1
          <6>2. CASE spent[f][k] = 0
            BY <1>1, <6>2, EntriesAre
          <6> QED BY <3>4, <6>1, <6>2
        <5>3. Entries(f)' = [k \in Hashes |-> IF k \in Limiter(f)!Swept(0) THEN Entries(f)[k] ELSE NoCall]
          BY <4>1, <5>2 DEF Entries
        <5>4. Limiter(f)!AllowNew(h, 0)
          BY <3>6, <4>1, <5>1, <5>3 DEF Limiter!AllowNew
        <5>5. Limiter(f)!Allow(r)
          BY <2>3, <3>2, <3>3, <5>4 DEF Limiter!Allow
        <5> QED BY <5>5 DEF Limiter!Next
      <4> QED BY <3>8, <4>2, <4>3
    <3> QED BY <2>7, <3>1, <3>7, <3>8 DEF AskLimiter
  <2>8. CASE UNCHANGED edgeVars
    <3>1. Asking(f)' = Asking(f)
      BY <2>8 DEF edgeVars, handlerVars, Asking
    <3> QED BY <2>4, <2>8, <3>1 DEF Limiter!vars, edgeVars
  <2>9. ASSUME NEW r \in Handlers, Decode(r) \/ Serve(r)
        PROVE  UNCHANGED Limiter(f)!vars \/ Limiter(f)!Next
    <3>1. UNCHANGED spent /\ pc[r] # "limiter" /\ \A q \in Handlers : q # r => pc'[q] = pc[q] /\ call'[q] = call[q]
      BY <2>2, <2>9 DEF Decode, Serve, EdgeTypeOK
    <3> QED BY <2>5, <3>1
  <2>10. ASSUME NEW r \in Handlers, NEW g \in Features, NEW caller \in Hosts, NEW route \in Routes,
                NEW sent \in Headers, NEW mapped \in BOOLEAN, NEW agent \in AgentStrings,
                Receive(r, g, caller, route, sent, mapped, agent)
         PROVE  UNCHANGED Limiter(f)!vars \/ Limiter(f)!Next
    <3>1. UNCHANGED spent /\ pc[r] # "limiter" /\ \A q \in Handlers : q # r => pc'[q] = pc[q] /\ call'[q] = call[q]
      BY <2>2, <2>10 DEF Receive, EdgeTypeOK
    <3> QED BY <2>5, <3>1
  <2> QED BY <1>1, <2>6, <2>7, <2>8, <2>9, <2>10 DEF EdgeNext
<1>2. ASSUME EdgeInit, NEW f \in Features
      PROVE  Limiter(f)!Init
  <2>1. Entries(f) = [h \in Hashes |-> NoCall] /\ Asking(f) = [r \in Handlers |-> NoCall]
    BY <1>2 DEF EdgeInit, Entries, Asking
  <2>2. Admissions(f) = [h \in Hashes |-> <<>>]
    <3>1. SpentOnService
      BY <1>2, EdgeStarts DEF EInv
    <3>2. \A h \in Hashes : spent[f][h] = 0
      BY <1>2 DEF EdgeInit
    <3>3. [n \in 1..0 |-> 0] = <<>>
      OBVIOUS
    <3> QED BY <3>1, <3>2, <3>3, AdmissionsAre
  <2> QED BY <2>1, <2>2 DEF Limiter!Init
<1>3. EdgeInit => \A f \in Features : Limiter(f)!Init
  BY <1>2
<1>4. EInv /\ EInv' /\ [EdgeNext]_edgeVars =>
        \A f \in Features : UNCHANGED Limiter(f)!vars \/ Limiter(f)!Next
  BY <1>1
<1> QED BY EdgeStarts, EdgeStepKeeps, <1>3, <1>4, PTL DEF EdgeSpec, ImplementsLimiters
-----------------------------------------------------------------------------
(* A number Load accepts is one, within its bounds. *)
LEMMA NumberLoaded ==
  ASSUME NEW env \in Environs, LoadAPI(env), NEW name \in Timeouts \cup Counts \cup PoolSizes
  PROVE  /\ Value(env, name) \in Int
         /\ name \notin PoolSizes => Value(env, name) > 0
         /\ name \in DOMAIN Ceiling => Value(env, name) <= Ceiling[name]
<1>1. ~BadNumber(env, name)
  BY DEF LoadAPI, Load
<1>2. name \in Settings /\ env[name] \in Int \cup {Unset, Blank, Malformed, Text} /\ env[name] # Text
  BY DEF Environs, Settings
<1>3. env[name] # Malformed
  BY <1>1 DEF BadNumber
<1>4. CASE Missing(env, name)
  <2>1. Value(env, name) = Fallback[name] /\ Fallback[name] \in Int
    BY <1>4 DEF Value, Fallback, Timeouts, Counts, PoolSizes
  <2>2. name \in DOMAIN Ceiling => Ceiling[name] \in Int
    BY DEF Ceiling
  <2> QED BY <1>1, <2>1, <2>2 DEF BadNumber
<1>5. CASE ~Missing(env, name)
  <2>1. Value(env, name) = env[name] /\ env[name] \in Int
    BY <1>2, <1>3, <1>5 DEF Value, Missing
  <2>2. name \in DOMAIN Ceiling => Ceiling[name] \in Int
    BY DEF Ceiling
  <2> QED BY <1>1, <2>1, <2>2 DEF BadNumber
<1> QED BY <1>4, <1>5

(* What the environment and the file are together is what an environment   *)
(* can be.                                                                 *)
LEMMA MergedSound ==
  ASSUME NEW e \in Environments, NEW f \in Files, f # Malformed
  PROVE  Merged(e, f) \in Environs
<1>1. e \in Environs /\ f \in Environs
  BY SettingsAssumption
<1> DEFINE m == Merged(e, f)
<1>2. m \in [Settings -> Int \cup {Unset, Blank, Malformed, Text}]
  BY <1>1 DEF Merged, Environs
<1>3. ASSUME NEW name \in Settings
      PROVE  m[name] = e[name] \/ m[name] = f[name]
  BY DEF Merged
<1>4. "VISITOR_HMAC_KEY" \in Settings /\ Timeouts \cup Counts \cup PoolSizes \subseteq Settings
  BY DEF Settings
<1> HIDE DEF m
<1>5. \A name \in Timeouts \cup Counts \cup PoolSizes \cup {"VISITOR_HMAC_KEY"} : m[name] # Text
  BY <1>1, <1>3, <1>4 DEF Environs
<1>6. m["VISITOR_HMAC_KEY"] # Malformed
  BY <1>1, <1>3, <1>4 DEF Environs
<1>7. m \in Environs
  BY <1>2, <1>5, <1>6 DEF Environs
<1> QED BY <1>7 DEF m

(* What LoadAPI accepts suits the columns, the pool, the limiters and the  *)
(* durations.                                                              *)
LEMMA LoadedSuits ==
  ASSUME NEW env \in Environs, LoadAPI(env)
  PROVE  /\ \A column \in DOMAIN Columns : Value(env, column) \in 1..Columns[column]
         /\ Value(env, "DB_MIN_CONNS") \in 0..Value(env, "DB_MAX_CONNS")
         /\ Value(env, "DB_MAX_CONNS") \in Int /\ Value(env, "DB_MAX_CONNS") > 0
         /\ Value(env, "VIEW_DEDUP_WINDOW_HOURS") < 2562047
         /\ \A name \in Timeouts \cup Counts : Value(env, name) > 0
         /\ \A name \in Required : Value(env, name) \notin {Unset, Blank}
<1>1. ASSUME NEW column \in DOMAIN Columns
      PROVE  Value(env, column) \in 1..Columns[column]
  <2>1. /\ column \in Timeouts \cup Counts \cup PoolSizes /\ column \notin PoolSizes
        /\ column \in DOMAIN Ceiling /\ Ceiling[column] = Columns[column]
        /\ Columns[column] \in Int
    BY DEF Columns, Counts, PoolSizes, Ceiling
  <2> QED BY <2>1, NumberLoaded
<1>2. /\ Value(env, "DB_MIN_CONNS") \in Int /\ Value(env, "DB_MAX_CONNS") \in Int
      /\ ~BadPool(env)
  <2>1. {"DB_MIN_CONNS", "DB_MAX_CONNS"} \subseteq Timeouts \cup Counts \cup PoolSizes
    BY DEF PoolSizes
  <2> QED BY <2>1, NumberLoaded DEF LoadAPI, Load
<1>3. Value(env, "VIEW_DEDUP_WINDOW_HOURS") < 2562047
  <2>1. /\ "VIEW_DEDUP_WINDOW_HOURS" \in Timeouts \cup Counts \cup PoolSizes
        /\ "VIEW_DEDUP_WINDOW_HOURS" \in DOMAIN Ceiling
        /\ Ceiling["VIEW_DEDUP_WINDOW_HOURS"] = 24 * 365
    BY DEF Counts, Ceiling
  <2>2. Value(env, "VIEW_DEDUP_WINDOW_HOURS") \in Int /\ Value(env, "VIEW_DEDUP_WINDOW_HOURS") <= 24 * 365
    BY <2>1, NumberLoaded
  <2> QED BY <2>2
<1>4. ASSUME NEW name \in Timeouts \cup Counts
      PROVE  Value(env, name) > 0
  <2>1. name \notin PoolSizes
    BY DEF Timeouts, Counts, PoolSizes
  <2> QED BY <2>1, NumberLoaded
<1>5. ASSUME NEW name \in Required
      PROVE  Value(env, name) \notin {Unset, Blank}
  <2>1. ~Missing(env, name)
    BY DEF LoadAPI
  <2> QED BY <2>1 DEF Value, Missing
<1>6. Value(env, "DB_MIN_CONNS") \in 0..Value(env, "DB_MAX_CONNS") /\ Value(env, "DB_MAX_CONNS") > 0
  BY <1>2 DEF BadPool
<1> QED BY <1>1, <1>2, <1>3, <1>4, <1>5, <1>6

(* Past its start the process has read a sound configuration. *)
Loaded == main \notin {"load", "exited"} => file # Malformed /\ LoadAPI(Merged(environ, file))

(* What the stage of the main goroutine says of the goroutine in Serve, of *)
(* the pool, and of what Run will return.                                  *)
Stages ==
  /\ main \in {"load", "open", "listen"} => serving = "no"
  /\ serving = "running" => main = "serve"
  /\ main \in {"listen", "serve", "drain", "await", "close"} => pool = "open"
  /\ main \in {"close", "closing"} => outcome \in {"ok", "error", "failed", "timeout"}
  /\ main = "exited" => outcome # "none"
  /\ outcome # "none" => main \in {"close", "closing", "exited"}
  /\ outcome = "error" => serving = "no"

(* What it says of a connection: who waits has a handler, nobody is        *)
(* connected before Serve, draining ends with nobody left, and the rest is *)
(* cut.                                                                    *)
ConnectionTrue(p) ==
  /\ client[p] = "waiting" => handler[p] # "none"
  /\ serving \in {"no", "starting"} => handler[p] = "none" /\ client[p] = "none"
  /\ main = "drain" => client[p] \in {"none", "connected", "waiting"}
  /\ main = "await" \/ outcome = "ok" => handler[p] = "none" /\ client[p] = "none"
  /\ outcome = "timeout" => client[p] \in {"none", "cut"}
  /\ client[p] = "cut" => outcome # "none"
  /\ main = "exited" => handler[p] = "none" /\ client[p] \in {"none", "cut"}

PInv == ProcessTypeOK /\ Loaded /\ Stages /\ \A p \in Connections : ConnectionTrue(p)

(* The users of the pool can be counted. *)
LEMMA UsersFit ==
  ASSUME PInv
  PROVE  IsFiniteSet(Users) /\ Cardinality(Users) \in Nat
<1>1. Users \subseteq Connections
  BY DEF Users
<1> QED BY <1>1, ConnectionsAssumption, FS_Subset, FS_CardinalityType

(* Where handlers can be at work the settings have been loaded. *)
LEMMA PoolSized ==
  ASSUME PInv, main \notin {"load", "exited"}
  PROVE  /\ Merged(environ, file) \in Environs /\ LoadAPI(Merged(environ, file))
         /\ Setting("DB_MAX_CONNS") \in Nat \ {0}
<1>1. file # Malformed /\ environ \in Environments /\ file \in Files /\ LoadAPI(Merged(environ, file))
  BY DEF PInv, Loaded, ProcessTypeOK
<1>2. Merged(environ, file) \in Environs
  BY <1>1, MergedSound
<1>3. Setting("DB_MAX_CONNS") \in Int /\ Setting("DB_MAX_CONNS") > 0
  BY <1>1, <1>2, LoadedSuits DEF Setting
<1> QED BY <1>1, <1>2, <1>3

(* Nothing runs at the start. *)
LEMMA PStarts == ASSUME ProcessInit PROVE PInv
<1>1. Users = {}
  BY DEF ProcessInit, Users
<1>2. ProcessTypeOK
  BY <1>1 DEF ProcessInit, ProcessTypeOK
<1> QED BY <1>2 DEF PInv, ProcessInit, Loaded, Stages, ConnectionTrue

(* The bound of the pool where no handler gets a connection. *)
LEMMA UsersShrink ==
  ASSUME PInv, Users' \subseteq Users, UNCHANGED configVars
  PROVE  (Users # {} => Cardinality(Users) <= Setting("DB_MAX_CONNS"))'
<1>1. IsFiniteSet(Users) /\ Cardinality(Users') <= Cardinality(Users)
  BY UsersFit, FS_Subset
<1>2. Cardinality(Users') \in Nat /\ Cardinality(Users) \in Nat
  BY <1>1, FS_Subset, FS_CardinalityType
<1>3. Setting("DB_MAX_CONNS")' = Setting("DB_MAX_CONNS")
  BY DEF Setting, configVars
<1> SUFFICES ASSUME Users' # {}
             PROVE  Cardinality(Users') <= Setting("DB_MAX_CONNS")
  BY <1>3
<1>4. Users # {}
  OBVIOUS
<1>5. main \notin {"load", "exited"}
  BY <1>4 DEF PInv, Stages, ConnectionTrue, Users
<1>6. Setting("DB_MAX_CONNS") \in Nat
  BY <1>5, PoolSized
<1> QED BY <1>1, <1>2, <1>4, <1>6 DEF PInv, ProcessTypeOK

(* The main goroutine leaves a stage only when what the next one relies on *)
(* is there.                                                               *)
LEMMA MainKeeps ==
  ASSUME PInv, Main
  PROVE  PInv'
<1> USE DEF PInv
<1>1. Users' \subseteq Users /\ UNCHANGED configVars
  BY DEF Main, LoadConfiguration, Open, Listen, ReturnServeError, Shutdown, ShutdownReturns,
         ShutdownTimesOut, AwaitServe, ClosePool, Exit, requestVars, Users
<1>2. (Users # {} => Cardinality(Users) <= Setting("DB_MAX_CONNS"))'
  BY <1>1, UsersShrink
<1>3. ProcessTypeOK /\ Loaded /\ Stages
  OBVIOUS
<1>4. CASE LoadConfiguration
  BY <1>2, <1>3, <1>4 DEF LoadConfiguration, ProcessTypeOK, Loaded, Stages, ConnectionTrue, configVars, requestVars
<1>5. CASE Open
  BY <1>2, <1>3, <1>5 DEF Open, ProcessTypeOK, Loaded, Stages, ConnectionTrue, configVars, requestVars
<1>6. CASE Listen
  BY <1>2, <1>3, <1>6 DEF Listen, ProcessTypeOK, Loaded, Stages, ConnectionTrue, configVars, requestVars
<1>7. CASE ReturnServeError
  BY <1>2, <1>3, <1>7 DEF ReturnServeError, ProcessTypeOK, Loaded, Stages, ConnectionTrue, configVars, requestVars
<1>8. CASE Shutdown
  BY <1>2, <1>3, <1>8 DEF Shutdown, ProcessTypeOK, Loaded, Stages, ConnectionTrue, configVars, CloseKept
<1>9. CASE ShutdownReturns
  BY <1>2, <1>3, <1>9 DEF ShutdownReturns, ProcessTypeOK, Loaded, Stages, ConnectionTrue, configVars, requestVars, Drained
<1>10. CASE ShutdownTimesOut
  BY <1>2, <1>3, <1>10 DEF ShutdownTimesOut, ProcessTypeOK, Loaded, Stages, ConnectionTrue, configVars, Cut
<1>11. CASE AwaitServe
  BY <1>2, <1>3, <1>11 DEF AwaitServe, ProcessTypeOK, Loaded, Stages, ConnectionTrue, configVars, requestVars
<1>12. CASE ClosePool
  BY <1>2, <1>3, <1>12 DEF ClosePool, ProcessTypeOK, Loaded, Stages, ConnectionTrue, configVars, requestVars
<1>13. CASE Exit
  BY <1>2, <1>3, <1>13 DEF Exit, ProcessTypeOK, Loaded, Stages, ConnectionTrue, configVars, Cut
<1> QED BY <1>4, <1>5, <1>6, <1>7, <1>8, <1>9, <1>10, <1>11, <1>12, <1>13 DEF Main

(* So do the signal, the goroutine in Serve, the clients and the handlers. *)
LEMMA OthersKeep ==
  ASSUME PInv, [ProcessNext]_processVars, ~Main
  PROVE  PInv'
<1> USE DEF PInv
<1>1. ProcessTypeOK /\ Loaded /\ Stages
  OBVIOUS
<1>2. CASE Signal
  <2>1. Users' \subseteq Users /\ UNCHANGED configVars
    BY <1>2 DEF Signal, requestVars, Users
  <2>2. (Users # {} => Cardinality(Users) <= Setting("DB_MAX_CONNS"))'
    BY <2>1, UsersShrink
  <2> QED BY <1>1, <1>2, <2>2 DEF Signal, ProcessTypeOK, Loaded, Stages, ConnectionTrue, configVars, mainVars, requestVars
<1>3. CASE ServeStarts \/ ServeFails \/ UNCHANGED processVars
  <2>1. Users' \subseteq Users /\ UNCHANGED configVars
    BY <1>3 DEF ServeStarts, ServeFails, processVars, requestVars, Users
  <2>2. (Users # {} => Cardinality(Users) <= Setting("DB_MAX_CONNS"))'
    BY <2>1, UsersShrink
  <2> QED BY <1>1, <1>3, <2>2 DEF ServeStarts, ServeFails, processVars, ProcessTypeOK, Loaded, Stages, ConnectionTrue, configVars, mainVars, requestVars
<1>4. ASSUME NEW p \in Connections, Connect(p) \/ Arrive(p) \/ Disconnect(p) \/ Release(p) \/ Answer(p)
      PROVE  PInv'
  <2>1. Users' \subseteq Users /\ UNCHANGED configVars
    BY <1>1, <1>4 DEF Connect, Arrive, Disconnect, Release, Answer, Users, ProcessTypeOK
  <2>2. (Users # {} => Cardinality(Users) <= Setting("DB_MAX_CONNS"))'
    BY <2>1, UsersShrink
  <2>3. ConnectionTrue(p)
    OBVIOUS
  <2> QED BY <1>1, <1>4, <2>2, <2>3 DEF Connect, Arrive, Disconnect, Release, Answer, ProcessTypeOK, Loaded, Stages, ConnectionTrue, configVars, mainVars
<1>5. ASSUME NEW p \in Connections, Acquire(p)
      PROVE  PInv'
  <2>1. Users' = Users \cup {p} /\ UNCHANGED <<configVars, mainVars, pool>>
    BY <1>1, <1>5 DEF Acquire, Users, ProcessTypeOK
  <2>2. main \notin {"load", "exited"}
    BY <1>5 DEF Acquire, Stages, ConnectionTrue
  <2>3. Setting("DB_MAX_CONNS") \in Nat /\ Setting("DB_MAX_CONNS")' = Setting("DB_MAX_CONNS")
    BY <2>1, <2>2, PoolSized DEF Setting, configVars
  <2>4. /\ Cardinality(Users) \in Nat
        /\ Cardinality(Users \cup {p}) = Cardinality(Users)
             \/ Cardinality(Users \cup {p}) = Cardinality(Users) + 1
    BY UsersFit, FS_AddElement
  <2>5. Cardinality(Users)' <= Setting("DB_MAX_CONNS")'
    BY <1>5, <2>1, <2>3, <2>4 DEF Acquire
  <2>6. ConnectionTrue(p)
    OBVIOUS
  <2> QED BY <1>1, <1>5, <2>5, <2>6 DEF Acquire, ProcessTypeOK, Loaded, Stages, ConnectionTrue, configVars, mainVars
<1> QED BY <1>2, <1>3, <1>4, <1>5 DEF ProcessNext

(* The variables of Lifecycle keep their types, and no more connections    *)
(* are in use than DB_MAX_CONNS (postgres.Open).                           *)
THEOREM ProcessTypeCorrect == ProcessSpec => []ProcessTypeOK
<1>1. PInv => ProcessTypeOK
  BY DEF PInv
<1> QED BY PStarts, MainKeeps, OthersKeep, <1>1, PTL DEF ProcessSpec

(* Whatever the environment and the file say, a process that gets past     *)
(* main's checks has settings that suit all its parts (config.LoadAPI).    *)
THEOREM SettingsHold == ProcessSpec => []SettingsSuit
<1>1. ASSUME PInv PROVE SettingsSuit
  <2> SUFFICES ASSUME main \notin {"load", "exited"}
               PROVE  /\ \A column \in DOMAIN Columns : Setting(column) \in 1..Columns[column]
                      /\ Setting("DB_MIN_CONNS") \in 0..Setting("DB_MAX_CONNS")
                      /\ Setting("DB_MAX_CONNS") > 0
                      /\ Setting("VIEW_DEDUP_WINDOW_HOURS") < 2562047
                      /\ \A name \in Timeouts \cup Counts : Setting(name) > 0
                      /\ \A name \in Required : Setting(name) \notin {Unset, Blank}
    BY DEF SettingsSuit
  <2> QED BY <1>1, PoolSized, LoadedSuits DEF Setting
<1> QED BY PStarts, MainKeeps, OthersKeep, <1>1, PTL DEF ProcessSpec

(* When Run returns nil nobody is left without an answer (app.serve). *)
THEOREM CleanExitAnswered == ProcessSpec => []NilMeansAnswered
<1>1. PInv => NilMeansAnswered
  BY DEF PInv, ConnectionTrue, NilMeansAnswered
<1> QED BY PStarts, MainKeeps, OthersKeep, <1>1, PTL DEF ProcessSpec

(* The pool is there for every handler whose client waits, unless Serve    *)
(* has failed (app.Run, app.serve).                                        *)
THEOREM PoolHolds == ProcessSpec => []PoolOutlivesClients
<1>1. PInv => PoolOutlivesClients
  BY DEF PInv, ProcessTypeOK, Stages, ConnectionTrue, PoolOutlivesClients
<1> QED BY PStarts, MainKeeps, OthersKeep, <1>1, PTL DEF ProcessSpec

(* Only the end of the time for draining and a failure of Serve close the  *)
(* pool beside running handlers: the run pool_after_draining shows that    *)
(* the second does.                                                        *)
PoolClosedBesideHandlers ==
  [][ClosePool => \/ outcome \in {"timeout", "failed"}
                  \/ \A p \in Connections : handler[p] = "none"]_processVars

(* So the promise of docs/security.md that PoolClosedAfterDraining states  *)
(* is broken by a failure of Serve and in no other way (app.Run).          *)
THEOREM ClosedEarly == ProcessSpec => PoolClosedBesideHandlers
<1>1. ASSUME PInv, ClosePool, outcome \notin {"timeout", "failed"}, NEW p \in Connections
      PROVE  handler[p] = "none"
  BY <1>1 DEF PInv, Stages, ConnectionTrue, ClosePool
<1>2. PInv => (ClosePool => \/ outcome \in {"timeout", "failed"}
                            \/ \A p \in Connections : handler[p] = "none")
  BY <1>1
<1> QED BY PStarts, MainKeeps, OthersKeep, <1>2, PTL DEF ProcessSpec, PoolClosedBesideHandlers
=============================================================================
