----------------------------- MODULE RateLimiter -----------------------------
(***************************************************************************)
(* AssignmentLimiter: a fixed-window allowance per pseudonymous visitor in *)
(* a bounded table behind a mutex.  A handler reads time.Now() before it   *)
(* calls Allow, so requests enter the mutex in an order that need not be   *)
(* the order of their times.                                               *)
(***************************************************************************)
EXTENDS Integers, Sequences, FiniteSets

CONSTANTS
  Visitors,   \* visitor hashes
  Requests,   \* handlers that may be waiting for the mutex at a time
  Limit,      \* RATE_..._PER_MIN, a positive integer (envPositiveInt)
  Window,     \* the minute, in ticks
  MaxKeys,    \* RATE_LIMIT_MAX_KEYS
  MaxDelay,   \* ticks between a handler's time.Now() and its turn
  MaxTime,    \* bound: the last tick
  Absent      \* no entry; not waiting

ASSUME LimitsAssumption == Limit \in Nat \ {0} /\ Window \in Nat \ {0} /\ MaxKeys \in Nat \ {0}
ASSUME TimeAssumption == MaxDelay \in Nat /\ MaxTime \in Nat
ASSUME VisitorsAssumption == IsFiniteSet(Visitors)
ASSUME AbsentAssumption ==
  Absent \notin [windowStart : Int, count : Int] \cup [visitor : Visitors, now : Int]

VARIABLES
  clock,     \* what time.Now() reads
  user,      \* the table: visitor -> visitorState
  waiting,   \* request -> the arguments of its call of Allow
  admitted   \* history: the ticks at which each visitor was let in

vars == <<clock, user, waiting, admitted>>

Held == {v \in Visitors : user[v] # Absent}

TypeOK ==
  /\ clock \in 0..MaxTime
  /\ user \in [Visitors -> {Absent} \cup [windowStart : 0..MaxTime, count : 1..Limit]]
  /\ waiting \in [Requests -> {Absent} \cup [visitor : Visitors, now : 0..MaxTime]]
  /\ admitted \in [Visitors -> Seq(0..MaxTime)]

Init ==
  /\ clock = 0
  /\ user = [v \in Visitors |-> Absent]
  /\ waiting = [r \in Requests |-> Absent]
  /\ admitted = [v \in Visitors |-> <<>>]
-----------------------------------------------------------------------------
(* Mutant: the window lasts one tick longer for those it denies. *)
ExpiredLate(v, now) == now - user[v].windowStart > Window
Expired(v, now) == now - user[v].windowStart >= Window

(* Mutant: the sweep makes room by evicting whom it meets. *)
SweptOfAll(now) == {}
(* What removeExpiredLocked leaves, called when the table is full. *)
Swept(now) ==
  IF Cardinality(Held) < MaxKeys THEN Held ELSE {v \in Held : ~Expired(v, now)}

Tick ==
  /\ clock < MaxTime
  /\ \A r \in Requests : waiting[r] # Absent => clock - waiting[r].now < MaxDelay
  /\ clock' = clock + 1
  /\ UNCHANGED <<user, waiting, admitted>>

(* A handler reads the clock and calls Allow. *)
Call(r, v) ==
  /\ waiting[r] = Absent
  /\ waiting' = [waiting EXCEPT ![r] = [visitor |-> v, now |-> clock]]
  /\ UNCHANGED <<clock, user, admitted>>

Admitted(v) == admitted' = [admitted EXCEPT ![v] = Append(@, clock)]

(* A visitor with an entry: a new window, one more in this one, or denied. *)
AllowKnown(v, now) ==
  /\ v \in Held
  /\ \/ /\ Expired(v, now)
        /\ user' = [user EXCEPT ![v] = [windowStart |-> now, count |-> 1]]
        /\ Admitted(v)
     \/ /\ ~Expired(v, now)
        /\ user[v].count < Limit
        /\ user' = [user EXCEPT ![v].count = @ + 1]
        /\ Admitted(v)
     \/ /\ ~Expired(v, now)
        /\ user[v].count >= Limit
        /\ UNCHANGED <<user, admitted>>

(* Mutant: the table is not looked at again after the sweep. *)
AllowNewUnchecked(v, now) ==
  /\ v \notin Held
  /\ user' = [u \in Visitors |-> IF u = v THEN [windowStart |-> now, count |-> 1]
                                 ELSE IF u \in Swept(now) THEN user[u] ELSE Absent]
  /\ Admitted(v)

(* An unseen visitor needs room, which only expired entries make. *)
AllowNew(v, now) ==
  /\ v \notin Held
  /\ \/ /\ Cardinality(Swept(now)) < MaxKeys
        /\ user' = [u \in Visitors |-> IF u = v THEN [windowStart |-> now, count |-> 1]
                                       ELSE IF u \in Swept(now) THEN user[u] ELSE Absent]
        /\ Admitted(v)
     \/ /\ Cardinality(Swept(now)) >= MaxKeys
        /\ user' = [u \in Visitors |-> IF u \in Swept(now) THEN user[u] ELSE Absent]
        /\ UNCHANGED admitted

(* The critical section of Allow. *)
Allow(r) ==
  /\ waiting[r] # Absent
  /\ LET v == waiting[r].visitor
         now == waiting[r].now
     IN AllowKnown(v, now) \/ AllowNew(v, now)
  /\ waiting' = [waiting EXCEPT ![r] = Absent]
  /\ UNCHANGED clock

Next ==
  \/ Tick
  \/ \E r \in Requests, v \in Visitors : Call(r, v)
  \/ \E r \in Requests : Allow(r)

Spec == Init /\ [][Next]_vars
-----------------------------------------------------------------------------
(* The table never holds more than MaxKeys visitors, whoever comes         *)
(* ("bounded state", AssignmentLimiter).                                   *)
Bounded == Cardinality(Held) <= MaxKeys

(* The last n times v was let in were all later than t. *)
LetInSince(v, n, t) ==
  /\ Len(admitted[v]) >= n
  /\ admitted[v][Len(admitted[v]) - n + 1] > t

(* Nobody is denied without a reason: within the window that ends with the *)
(* request, its visitor has used the whole allowance, or MaxKeys others    *)
(* have been let in.  Late requests and sweeps do not take that from it.   *)
DenialJustified ==
  [][\A r \in Requests :
       waiting[r] # Absent /\ waiting'[r] = Absent /\ admitted' = admitted =>
         LET v == waiting[r].visitor
             before == waiting[r].now - Window
         IN \/ LetInSince(v, Limit, before)
            \/ Cardinality({u \in Visitors \ {v} : LetInSince(u, 1, before)}) >= MaxKeys]_vars

(* A visitor is never let in more than twice its allowance within a        *)
(* window, the price of fixed windows, and a late entrant shortens that by *)
(* no more than its delay, even when the visitor's entry was swept.        *)
TwiceTheAllowance ==
  \A v \in Visitors : \A n \in 1..(Len(admitted[v]) - 2 * Limit) :
    admitted[v][n + 2 * Limit] - admitted[v][n] >= Window - MaxDelay
=============================================================================
