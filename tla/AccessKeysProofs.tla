-------------------------- MODULE AccessKeysProofs --------------------------
(***************************************************************************)
(* AccessKeys for every number of requests, keys and documents, and every  *)
(* TTL and timeout.                                                        *)
(***************************************************************************)
EXTENDS AccessKeys, SequenceTheorems, TLAPS

(* Document d was the provider's at time t, or later. *)
InForce(d, t) == d = Current \/ documents[d + 1].since >= t

AskInv(p) == ask[p].since <= Current

(* The mutex is held for a fetch, and for nothing else. *)
MutexInv(p) == pc[p] = "fetch" <=> mu = p

(* A fetch is not older than the timeout, and its answer not older than    *)
(* the fetch, the request and the cache.                                   *)
FetchInv(p) ==
  pc[p] = "fetch" =>
    /\ fetch[p].started <= clock
    /\ clock - fetch[p].started <= Timeout
    /\ fetch[p].document # 0 =>
         /\ fetch[p].document \in ask[p].since..Current
         /\ fetch[p].document >= cached
         /\ InForce(fetch[p].document, fetch[p].started)

CacheInv == cached # 0 => InForce(cached, fetchedAt - Timeout)

AInv ==
  /\ TypeOK
  /\ CacheInv
  /\ \A p \in Requests : AskInv(p) /\ MutexInv(p) /\ FetchInv(p)
-----------------------------------------------------------------------------
LEMMA DocumentTimes ==
  ASSUME TypeOK, NEW n \in 1..Current
  PROVE  documents[n].since \in Nat
<1>1. documents[n] \in [keys : SUBSET KeyIDs, since : Times]
  BY ElementOfSeq DEF TypeOK, Current
<1> QED BY <1>1 DEF Times

LEMMA InitAInv == Init => AInv
<1> SUFFICES ASSUME Init PROVE AInv
  OBVIOUS
<1> USE TimeAssumption, NullAssumption
<1>1. PICK keys \in SUBSET KeyIDs : documents = <<[keys |-> keys, since |-> 0]>>
  BY DEF Init
<1>2. documents \in Seq([keys : SUBSET KeyIDs, since : Times]) /\ Current = 1
  BY <1>1 DEF Times, Current
<1>3. TypeOK
  BY <1>2 DEF Init, TypeOK, Times, NoAsk, NoFetch, Ended
<1>4. CacheInv /\ \A p \in Requests : AskInv(p) /\ MutexInv(p) /\ FetchInv(p)
  BY <1>2 DEF Init, CacheInv, AskInv, MutexInv, FetchInv, NoAsk
<1> QED BY <1>3, <1>4 DEF AInv

(* What a request that does not move needs of a step of another. *)
LEMMA Others ==
  ASSUME AInv, NEW p \in Requests, NEW q \in Requests, q # p,
         pc'[q] = pc[q], ask'[q] = ask[q], fetch'[q] = fetch[q],
         documents' = documents, clock' = clock,
         (mu' = q) <=> (mu = q),
         cached' = cached \/ mu = p
  PROVE  AskInv(q)' /\ MutexInv(q)' /\ FetchInv(q)'
<1>1. AskInv(q) /\ MutexInv(q) /\ FetchInv(q)
  BY DEF AInv
<1>2. Current' = Current
  BY DEF Current
<1>3. AskInv(q)' /\ MutexInv(q)'
  BY <1>1, <1>2 DEF AskInv, MutexInv
<1>4. CASE pc[q] # "fetch"
  BY <1>3, <1>4 DEF FetchInv
<1>5. CASE pc[q] = "fetch"
  <2>1. cached' = cached
    BY <1>1, <1>5 DEF MutexInv
  <2> QED BY <1>1, <1>2, <1>3, <2>1 DEF FetchInv, InForce
<1> QED BY <1>4, <1>5

(* What finding the key keeps of the type invariant. *)
LEMMA FoundType ==
  ASSUME TypeOK, NEW p \in Requests, Found(p)
  PROVE  /\ pc' \in [Requests -> {"wait", "fetch", "verify"} \cup Ended]
         /\ fetch' \in [Requests -> [started : Times, document : Nat]]
         /\ pc'[p] = "verify" /\ ask' = ask /\ fetch'[p] = NoFetch
         /\ \A q \in Requests \ {p} : pc'[q] = pc[q] /\ fetch'[q] = fetch[q]
<1> USE TimeAssumption
<1>1. NoFetch \in [started : Times, document : Nat]
  BY DEF NoFetch, Times
<1> QED BY <1>1 DEF TypeOK, Found, Goto

(* What the end of a request keeps of it. *)
LEMMA LeaveType ==
  ASSUME TypeOK, NEW p \in Requests, NEW step \in Ended, Leave(p, step)
  PROVE  /\ pc' \in [Requests -> {"wait", "fetch", "verify"} \cup Ended]
         /\ ask' \in [Requests -> [assertion : Assertions \cup {NoAssertion}, since : Nat \ {0}]]
         /\ fetch' \in [Requests -> [started : Times, document : Nat]]
         /\ pc'[p] = step /\ ask'[p] = NoAsk /\ fetch'[p] = NoFetch
         /\ \A q \in Requests \ {p} : pc'[q] = pc[q] /\ ask'[q] = ask[q] /\ fetch'[q] = fetch[q]
<1> USE TimeAssumption
<1>1. NoAsk \in [assertion : Assertions \cup {NoAssertion}, since : Nat \ {0}]
  BY DEF NoAsk
<1>2. NoFetch \in [started : Times, document : Nat]
  BY DEF NoFetch, Times
<1> QED BY <1>1, <1>2 DEF TypeOK, Leave, Goto

LEMMA TickAInv == ASSUME AInv, Tick PROVE AInv'
<1> USE TimeAssumption DEF cacheVars, requestVars
<1>1. TypeOK /\ Current' = Current
  BY DEF AInv, Tick, Current
<1>2. TypeOK'
  BY <1>1 DEF Tick, TypeOK, Times, Current
<1>3. CacheInv'
  BY <1>1 DEF AInv, CacheInv, InForce, Tick
<1>4. ASSUME NEW p \in Requests
      PROVE  AskInv(p)' /\ MutexInv(p)' /\ FetchInv(p)'
  <2>1. AskInv(p) /\ MutexInv(p) /\ FetchInv(p)
    BY DEF AInv
  <2>2. AskInv(p)' /\ MutexInv(p)'
    BY <1>1, <2>1 DEF Tick, AskInv, MutexInv
  <2>3. clock \in Nat /\ fetch[p].started \in Nat
    BY <1>1 DEF TypeOK, Times
  <2>4. FetchInv(p)'
    BY <1>1, <2>1, <2>3 DEF Tick, FetchInv, InForce
  <2> QED BY <2>2, <2>4
<1> QED BY <1>2, <1>3, <1>4 DEF AInv

LEMMA RotateAInv == ASSUME AInv, NEW keys \in SUBSET KeyIDs, Rotate(keys) PROVE AInv'
<1> USE TimeAssumption DEF cacheVars, requestVars
<1> DEFINE doc == [keys |-> keys, since |-> clock]
<1>1. TypeOK
  BY DEF AInv
<1>2. documents \in Seq([keys : SUBSET KeyIDs, since : Times]) /\ Current \in Nat \ {0} /\ clock \in Nat
  BY <1>1 DEF TypeOK, Times
<1>3. doc \in [keys : SUBSET KeyIDs, since : Times]
  BY <1>1 DEF TypeOK
<1>4. /\ documents' \in Seq([keys : SUBSET KeyIDs, since : Times])
      /\ Current' = Current + 1
      /\ documents'[Current + 1] = doc
      /\ \A n \in 1..Current : documents'[n] = documents[n]
  BY <1>2, <1>3 DEF Rotate, Current
<1>5. TypeOK'
  BY <1>1, <1>2, <1>4 DEF Rotate, TypeOK, Times
<1>6. ASSUME NEW d \in 1..Current, NEW t \in Int, t <= clock, InForce(d, t)
      PROVE  documents'[d + 1].since >= t
  <2>1. CASE d = Current
    BY <1>4, <1>6, <2>1
  <2>2. CASE d # Current
    <3>1. d + 1 \in 1..Current
      BY <1>2, <2>2
    <3> QED BY <1>4, <1>6, <2>2, <3>1 DEF InForce
  <2> QED BY <2>1, <2>2
<1>7. CacheInv'
  <2>1. SUFFICES ASSUME cached # 0 PROVE InForce(cached, fetchedAt - Timeout)'
    BY DEF Rotate, CacheInv
  <2>2. cached \in 1..Current /\ fetchedAt \in Nat /\ fetchedAt <= clock
    BY <1>1, <1>2, <2>1 DEF TypeOK
  <2>3. InForce(cached, fetchedAt - Timeout)
    BY <2>1 DEF AInv, CacheInv
  <2>4. fetchedAt - Timeout \in Int /\ fetchedAt - Timeout <= clock
    BY <1>2, <2>2
  <2>5. documents'[cached + 1].since >= fetchedAt - Timeout
    BY <1>6, <2>2, <2>3, <2>4
  <2> QED BY <2>5 DEF InForce, Rotate
<1>8. ASSUME NEW p \in Requests
      PROVE  AskInv(p)' /\ MutexInv(p)' /\ FetchInv(p)'
  <2>1. AskInv(p) /\ MutexInv(p) /\ FetchInv(p)
    BY DEF AInv
  <2>2. /\ ask[p].since \in Nat \ {0} /\ fetch[p].started \in Nat
        /\ fetch[p].document \in Nat
    BY <1>1 DEF TypeOK, Times
  <2>3. AskInv(p)' /\ MutexInv(p)'
    BY <1>2, <1>4, <2>1, <2>2 DEF AskInv, MutexInv, Rotate
  <2>4. ASSUME pc[p] = "fetch", fetch[p].document # 0
        PROVE  /\ fetch[p].document \in ask[p].since..Current'
               /\ InForce(fetch[p].document, fetch[p].started)'
    <3>1. fetch[p].document \in 1..Current /\ fetch[p].document \in ask[p].since..Current
      BY <1>2, <2>1, <2>2, <2>4 DEF FetchInv
    <3>2. documents'[fetch[p].document + 1].since >= fetch[p].started
      BY <1>6, <2>1, <2>2, <2>4, <3>1 DEF FetchInv
    <3>3. fetch' = fetch
      BY DEF Rotate
    <3>4. InForce(fetch[p].document, fetch[p].started)'
      BY <3>2, <3>3 DEF InForce
    <3> QED BY <1>2, <1>4, <2>2, <3>1, <3>4
  <2>5. FetchInv(p)'
    BY <2>1, <2>4 DEF FetchInv, Rotate
  <2> QED BY <2>3, <2>5
<1> QED BY <1>5, <1>7, <1>8 DEF AInv

LEMMA AnswerAInv == ASSUME AInv, NEW p \in Requests, Answer(p) PROVE AInv'
<1> USE TimeAssumption DEF cacheVars
<1>1. TypeOK /\ Current' = Current
  BY DEF AInv, Answer, Current
<1>2. /\ fetch'[p] = [fetch[p] EXCEPT !.document = Current]
      /\ \A q \in Requests \ {p} : fetch'[q] = fetch[q]
      /\ fetch' \in [Requests -> [started : Times, document : Nat]]
  BY <1>1 DEF Answer, TypeOK
<1>3. TypeOK' /\ CacheInv'
  BY <1>1, <1>2 DEF Answer, TypeOK, AInv, CacheInv, InForce, Current
<1>4. AskInv(p)' /\ MutexInv(p)' /\ FetchInv(p)'
  <2>1. AskInv(p) /\ MutexInv(p) /\ FetchInv(p)
    BY DEF AInv
  <2>2. /\ fetch[p] \in [started : Times, document : Nat]
        /\ ask[p].since \in Nat /\ Current \in Nat /\ cached \in Nat /\ cached <= Current
    BY <1>1 DEF TypeOK
  <2>3. fetch'[p].started = fetch[p].started /\ fetch'[p].document = Current
    BY <1>2, <2>2
  <2>4. AskInv(p)' /\ MutexInv(p)'
    BY <1>1, <2>1 DEF Answer, AskInv, MutexInv
  <2>5. FetchInv(p)'
    BY <1>1, <2>1, <2>2, <2>3 DEF Answer, AskInv, FetchInv, InForce
  <2> QED BY <2>4, <2>5
<1>5. ASSUME NEW q \in Requests, q # p
      PROVE  AskInv(q)' /\ MutexInv(q)' /\ FetchInv(q)'
  BY <1>2, <1>5, Others DEF Answer
<1> QED BY <1>3, <1>4, <1>5 DEF AInv

LEMMA AuthenticateAInv ==
  ASSUME AInv, NEW p \in Requests, NEW assertion \in Assertions, Authenticate(p, assertion)
  PROVE  AInv'
<1> USE TimeAssumption DEF cacheVars
<1>1. TypeOK /\ Current' = Current /\ Current \in Nat \ {0}
  BY DEF AInv, Authenticate, TypeOK, Current
<1>2. /\ pc'[p] = "wait" /\ ask'[p].since = Current
      /\ \A q \in Requests \ {p} : pc'[q] = pc[q] /\ ask'[q] = ask[q]
      /\ pc' \in [Requests -> {"wait", "fetch", "verify"} \cup Ended]
      /\ ask' \in [Requests -> [assertion : Assertions \cup {NoAssertion}, since : Nat \ {0}]]
  BY <1>1 DEF Authenticate, Goto, TypeOK
<1>3. TypeOK' /\ CacheInv'
  BY <1>1, <1>2 DEF Authenticate, TypeOK, AInv, CacheInv, InForce
<1>4. AskInv(p)' /\ MutexInv(p)' /\ FetchInv(p)'
  <2>1. pc[p] # "fetch" /\ MutexInv(p)
    BY DEF AInv, Authenticate, Ended
  <2> QED BY <1>1, <1>2, <2>1 DEF Authenticate, AskInv, MutexInv, FetchInv
<1>5. ASSUME NEW q \in Requests, q # p
      PROVE  AskInv(q)' /\ MutexInv(q)' /\ FetchInv(q)'
  BY <1>2, <1>5, Others DEF Authenticate
<1> QED BY <1>3, <1>4, <1>5 DEF AInv

LEMMA KeyAInv == ASSUME AInv, NEW p \in Requests, Key(p) PROVE AInv'
<1> USE TimeAssumption, NullAssumption
<1>1. /\ TypeOK /\ Current' = Current /\ Current \in Nat \ {0}
      /\ clock \in Times /\ clock' = clock /\ documents' = documents
      /\ cached' = cached /\ fetchedAt' = fetchedAt
  BY DEF AInv, Key, TypeOK, Current
<1>2. CacheInv'
  BY <1>1 DEF AInv, CacheInv, InForce
<1>3. AskInv(p) /\ MutexInv(p) /\ mu = NoRequest /\ pc[p] = "wait"
  BY DEF AInv, Key
<1>4. CASE Found(p) /\ UNCHANGED mu
  <2>1. TypeOK'
    BY <1>1, <1>4, FoundType DEF TypeOK
  <2>2. AskInv(p)' /\ MutexInv(p)' /\ FetchInv(p)'
    BY <1>1, <1>3, <1>4, FoundType DEF AskInv, MutexInv, FetchInv
  <2>3. ASSUME NEW q \in Requests, q # p
        PROVE  AskInv(q)' /\ MutexInv(q)' /\ FetchInv(q)'
    BY <1>1, <1>4, <2>3, FoundType, Others
  <2> QED BY <1>2, <2>1, <2>2, <2>3 DEF AInv
<1>5. CASE StartFetch(p) /\ mu' = p
  <2>1. /\ pc'[p] = "fetch" /\ ask' = ask
        /\ fetch'[p] = [started |-> clock, document |-> 0]
        /\ \A q \in Requests \ {p} : pc'[q] = pc[q] /\ fetch'[q] = fetch[q]
        /\ pc' \in [Requests -> {"wait", "fetch", "verify"} \cup Ended]
        /\ fetch' \in [Requests -> [started : Times, document : Nat]]
    BY <1>1, <1>5 DEF StartFetch, Goto, TypeOK
  <2>2. TypeOK'
    BY <1>1, <1>5, <2>1 DEF TypeOK
  <2>3. AskInv(p)' /\ MutexInv(p)' /\ FetchInv(p)'
    <3>1. fetch'[p].started = clock /\ fetch'[p].document = 0 /\ clock \in Nat
      BY <1>1, <2>1 DEF Times
    <3>2. FetchInv(p)'
      BY <1>1, <3>1 DEF FetchInv
    <3> QED BY <1>1, <1>3, <1>5, <2>1, <3>2 DEF AskInv, MutexInv
  <2>4. ASSUME NEW q \in Requests, q # p
        PROVE  AskInv(q)' /\ MutexInv(q)' /\ FetchInv(q)'
    BY <1>1, <1>3, <1>5, <2>1, <2>4, Others
  <2> QED BY <1>2, <2>2, <2>3, <2>4 DEF AInv
<1> QED BY <1>4, <1>5 DEF Key

(* Store and FetchFails give the mutex back. *)
LEMMA UnlockOthers ==
  ASSUME AInv, NEW p \in Requests, pc[p] = "fetch", Unlock(p)
  PROVE  mu = p /\ mu' = NoRequest
BY DEF AInv, MutexInv, Unlock

LEMMA StoreAInv == ASSUME AInv, NEW p \in Requests, Store(p) PROVE AInv'
<1> USE TimeAssumption, NullAssumption
<1>1. /\ TypeOK /\ Current' = Current /\ Current \in Nat \ {0} /\ clock \in Nat
      /\ clock' = clock /\ documents' = documents
      /\ cached' = fetch[p].document /\ fetchedAt' = clock
  BY DEF AInv, Store, TypeOK, Current, Times
<1>2. mu = p /\ mu' = NoRequest
  BY UnlockOthers DEF Store
<1>3. Found(p) \/ Leave(p, "unknown")
  BY DEF Store, Resolve
<1>4. /\ fetch[p].document \in ask[p].since..Current
      /\ ask[p].since \in Nat \ {0} /\ fetch[p].started \in Nat
      /\ clock - fetch[p].started <= Timeout
      /\ InForce(fetch[p].document, fetch[p].started)
  BY <1>1 DEF AInv, FetchInv, Store, TypeOK, Times
<1>5. TypeOK'
  <2>1. fetch[p].document \in 0..Current /\ clock \in 0..clock
    BY <1>1, <1>4
  <2> QED BY <1>1, <1>2, <1>3, <2>1, LeaveType, FoundType DEF TypeOK, Ended
<1>6. CacheInv'
  <2>1. CASE fetch[p].document = Current
    BY <1>1, <2>1 DEF CacheInv, InForce
  <2>2. CASE fetch[p].document # Current
    <3>1. fetch[p].document + 1 \in 1..Current
      BY <1>1, <1>4, <2>2
    <3>2. documents[fetch[p].document + 1].since \in Nat
      BY <1>1, <3>1, DocumentTimes
    <3>3. documents[fetch[p].document + 1].since >= clock - Timeout
      BY <1>1, <1>4, <2>2, <3>2 DEF InForce
    <3> QED BY <1>1, <3>3 DEF CacheInv, InForce
  <2> QED BY <2>1, <2>2
<1>7. AskInv(p)' /\ MutexInv(p)' /\ FetchInv(p)'
  <2>1. CASE Found(p)
    BY <1>1, <1>2, <2>1, FoundType DEF AInv, AskInv, MutexInv, FetchInv
  <2>2. CASE Leave(p, "unknown")
    BY <1>1, <1>2, <2>2, LeaveType DEF AskInv, MutexInv, FetchInv, NoAsk, Ended
  <2> QED BY <1>3, <2>1, <2>2
<1>8. ASSUME NEW q \in Requests, q # p
      PROVE  AskInv(q)' /\ MutexInv(q)' /\ FetchInv(q)'
  BY <1>1, <1>2, <1>3, <1>8, LeaveType, FoundType, Others DEF Ended
<1> QED BY <1>5, <1>6, <1>7, <1>8 DEF AInv

LEMMA FetchFailsAInv == ASSUME AInv, NEW p \in Requests, FetchFails(p) PROVE AInv'
<1> USE TimeAssumption, NullAssumption
<1>1. /\ TypeOK /\ Current' = Current /\ Current \in Nat \ {0}
      /\ clock' = clock /\ documents' = documents /\ cached' = cached /\ fetchedAt' = fetchedAt
  BY DEF AInv, FetchFails, TypeOK, Current
<1>2. mu = p /\ mu' = NoRequest /\ Leave(p, "idle")
  BY UnlockOthers DEF FetchFails
<1>3. TypeOK' /\ CacheInv'
  BY <1>1, <1>2, LeaveType DEF TypeOK, AInv, CacheInv, InForce, Ended
<1>4. AskInv(p)' /\ MutexInv(p)' /\ FetchInv(p)'
  BY <1>1, <1>2, LeaveType DEF AskInv, MutexInv, FetchInv, NoAsk, Ended
<1>5. ASSUME NEW q \in Requests, q # p
      PROVE  AskInv(q)' /\ MutexInv(q)' /\ FetchInv(q)'
  BY <1>1, <1>2, <1>5, LeaveType, Others DEF Ended
<1> QED BY <1>3, <1>4, <1>5 DEF AInv

LEMMA VerifyAInv == ASSUME AInv, NEW p \in Requests, Verify(p) PROVE AInv'
<1> USE TimeAssumption, NullAssumption DEF cacheVars
<1>1. /\ TypeOK /\ Current' = Current /\ Current \in Nat \ {0}
      /\ UNCHANGED <<clock, documents, cached, fetchedAt, mu>>
  BY DEF AInv, Verify, TypeOK, Current
<1> PICK step \in {"accepted", "idle"} : Leave(p, step)
  BY DEF Verify
<1>2. pc[p] # "fetch" /\ MutexInv(p)
  BY DEF AInv, Verify
<1>3. TypeOK' /\ CacheInv'
  BY <1>1, LeaveType DEF TypeOK, AInv, CacheInv, InForce, Ended
<1>4. AskInv(p)' /\ MutexInv(p)' /\ FetchInv(p)'
  BY <1>1, <1>2, LeaveType DEF AskInv, MutexInv, FetchInv, NoAsk, Ended
<1>5. ASSUME NEW q \in Requests, q # p
      PROVE  AskInv(q)' /\ MutexInv(q)' /\ FetchInv(q)'
  BY <1>1, <1>5, LeaveType, Others DEF Ended
<1> QED BY <1>3, <1>4, <1>5 DEF AInv

LEMMA StutterAInv == ASSUME AInv, UNCHANGED vars PROVE AInv'
BY DEF AInv, TypeOK, CacheInv, AskInv, MutexInv, FetchInv, InForce, Current, Times,
       vars, cacheVars, requestVars

LEMMA NextAInv == AInv /\ [Next]_vars => AInv'
<1> SUFFICES ASSUME AInv, [Next]_vars PROVE AInv'
  OBVIOUS
<1>1. CASE Tick
  BY <1>1, TickAInv
<1>2. ASSUME NEW keys \in SUBSET KeyIDs, Rotate(keys) PROVE AInv'
  BY <1>2, RotateAInv
<1>3. ASSUME NEW p \in Requests, NEW assertion \in Assertions, Authenticate(p, assertion) PROVE AInv'
  BY <1>3, AuthenticateAInv
<1>4. ASSUME NEW p \in Requests, Answer(p) \/ Serve(p) PROVE AInv'
  BY <1>4, AnswerAInv, KeyAInv, StoreAInv, FetchFailsAInv, VerifyAInv DEF Serve
<1>5. CASE UNCHANGED vars
  BY <1>5, StutterAInv
<1> QED BY <1>1, <1>2, <1>3, <1>4, <1>5 DEF Next

(* The inductive invariant: what a fetch in progress brings back is recent *)
(* and not older than anything that depends on it.                         *)
THEOREM AccessKeysInvariant == Spec => []AInv
<1>1. Init => AInv
  BY InitAInv
<1>2. AInv /\ [Next]_vars => AInv'
  BY NextAInv
<1> QED BY <1>1, <1>2, PTL DEF Spec

(* The cache, the mutex and the requests keep their types. *)
THEOREM AccessKeysTypeCorrect == Spec => []TypeOK
<1>1. AInv => TypeOK
  BY DEF AInv
<1> QED BY <1>1, AccessKeysInvariant, PTL
-----------------------------------------------------------------------------
(* Only Key and Store bring a request to Verify, only Store tells it that  *)
(* its key is unknown, and only Verify accepts it.                         *)
LEMMA Movers ==
  ASSUME AInv, [Next]_vars, NEW p \in Requests, pc'[p] # pc[p],
         pc'[p] \in {"verify", "unknown", "accepted"}
  PROVE  \/ Key(p) /\ pc'[p] = "verify" /\ Cached(KeyID(p)) /\ Fresh
         \/ Store(p) /\ pc'[p] # "accepted"
         \/ Verify(p) /\ pc'[p] = "accepted"
<1> USE DEF cacheVars, requestVars
<1>1. TypeOK
  BY DEF AInv
<1>2. ASSUME NEW q \in Requests, NEW step \in Ended, Leave(q, step)
      PROVE  p = q /\ pc'[p] = step
  BY <1>1, <1>2 DEF Leave, Goto, TypeOK
<1>3. ASSUME NEW q \in Requests, Found(q)
      PROVE  p = q /\ pc'[p] = "verify"
  BY <1>1, <1>3 DEF Found, Goto, TypeOK
<1>4. CASE Tick \/ UNCHANGED vars \/ \E keys \in SUBSET KeyIDs : Rotate(keys)
  BY <1>4 DEF Tick, Rotate, vars
<1>5. ASSUME NEW q \in Requests, NEW assertion \in Assertions, Authenticate(q, assertion)
      PROVE  FALSE
  BY <1>1, <1>5 DEF Authenticate, Goto, TypeOK
<1>6. ASSUME NEW q \in Requests, Answer(q) PROVE FALSE
  BY <1>6 DEF Answer
<1>7. ASSUME NEW q \in Requests, Key(q)
      PROVE  Key(p) /\ pc'[p] = "verify" /\ Cached(KeyID(p)) /\ Fresh
  <2>1. ~StartFetch(q)
    BY <1>1 DEF StartFetch, Goto, TypeOK
  <2>2. Found(q) /\ Cached(KeyID(q)) /\ Fresh
    BY <1>7, <2>1 DEF Key
  <2> QED BY <1>3, <1>7, <2>2
<1>8. ASSUME NEW q \in Requests, Store(q) PROVE Store(p) /\ pc'[p] # "accepted"
  <2>1. Found(q) \/ Leave(q, "unknown")
    BY <1>8 DEF Store, Resolve
  <2>2. p = q /\ pc'[p] \in {"verify", "unknown"}
    BY <1>2, <1>3, <2>1 DEF Ended
  <2> QED BY <1>8, <2>2
<1>9. ASSUME NEW q \in Requests, FetchFails(q) PROVE FALSE
  BY <1>2, <1>9 DEF FetchFails, Ended
<1>10. ASSUME NEW q \in Requests, Verify(q) PROVE Verify(p) /\ pc'[p] = "accepted"
  <2>1. PICK step \in {"accepted", "idle"} : Leave(q, step)
    BY <1>10 DEF Verify
  <2>2. p = q /\ pc'[p] = step
    BY <1>2, <2>1 DEF Ended
  <2> QED BY <1>10, <2>2
<1> QED BY <1>4, <1>5, <1>6, <1>7, <1>8, <1>9, <1>10 DEF Next, Serve

(* What Store knows of the answer. *)
LEMMA StoreFacts ==
  ASSUME AInv, NEW p \in Requests, Store(p)
  PROVE  /\ cached' = fetch[p].document /\ documents' = documents
         /\ cached' \in ask[p].since..Current /\ cached' >= cached
         /\ cached' = Current \/ documents[cached' + 1].since >= fetch[p].started
         /\ fetch[p].started \in Nat /\ clock - fetch[p].started <= Timeout
         /\ Resolve(p, documents[cached'].keys)
         /\ TypeOK /\ ask[p].since \in Nat \ {0}
BY DEF AInv, FetchInv, InForce, Store, TypeOK, Times

(* The key of an assertion is recent when it is found ... *)
LEMMA KeyFoundRecent ==
  ASSUME AInv, [Next]_vars, NEW p \in Requests, pc[p] # "verify", pc'[p] = "verify"
  PROVE  /\ KeyID(p) \in documents[cached'].keys
         /\ \/ cached' = Current
            \/ clock - documents[cached' + 1].since < Ttl + Timeout
<1> USE TimeAssumption
<1>1. TypeOK
  BY DEF AInv
<1>2. /\ clock \in Nat /\ fetchedAt \in Nat
      /\ \A n \in 1..Current : documents[n].since \in Nat
  BY <1>1, DocumentTimes DEF TypeOK, Times
<1>3. \/ Store(p)
      \/ Key(p) /\ Cached(KeyID(p)) /\ Fresh
  BY Movers
<1>4. CASE Store(p)
  <2>1. KeyID(p) \in documents[cached'].keys
    BY <1>1, <1>4, StoreFacts DEF Resolve, Leave, Goto, TypeOK
  <2>2. CASE cached' # Current
    <3>1. cached' + 1 \in 1..Current
      BY <1>1, <1>4, <2>2, StoreFacts DEF TypeOK
    <3> QED BY <1>2, <1>4, <2>1, <2>2, <3>1, StoreFacts
  <2> QED BY <2>1, <2>2
<1>5. CASE Key(p) /\ Cached(KeyID(p)) /\ Fresh
  <2>1. cached' = cached /\ cached # 0 /\ KeyID(p) \in documents[cached].keys
    BY <1>5 DEF Key, Cached
  <2>2. InForce(cached, fetchedAt - Timeout)
    BY <2>1 DEF AInv, CacheInv
  <2>3. CASE cached # Current
    <3>1. cached + 1 \in 1..Current
      BY <1>1, <2>1, <2>3 DEF TypeOK
    <3>2. clock - fetchedAt < Ttl
      BY <1>5 DEF Fresh
    <3> QED BY <1>2, <2>1, <2>2, <2>3, <3>1, <3>2 DEF InForce
  <2> QED BY <2>1, <2>3
<1> QED BY <1>3, <1>4, <1>5

(* ... and the assertion is in force when it is accepted. *)
LEMMA AcceptedInForce ==
  ASSUME AInv, [Next]_vars, NEW p \in Requests, pc[p] # "accepted", pc'[p] = "accepted"
  PROVE  /\ clock + ClockSkew >= ask[p].assertion.from
         /\ clock - ClockSkew < ask[p].assertion.expires
<1> USE TimeAssumption, AssertionsAssumption
<1> DEFINE assertion == ask[p].assertion
           inForce == /\ assertion.sound
                      /\ assertion.expires > clock - ClockSkew
                      /\ assertion.from <= clock + ClockSkew
<1>1. TypeOK /\ Verify(p)
  BY Movers DEF AInv
<1>2. Leave(p, IF inForce THEN "accepted" ELSE "idle")
  BY <1>1 DEF Verify
<1>3. inForce
  BY <1>1, <1>2 DEF Leave, Goto, TypeOK
<1> QED BY <1>3

(* Withdrawn keys and expired assertions die out: the cache fails closed   *)
(* when the provider cannot be reached, and however long requests wait for *)
(* each other's fetches, for every TTL, timeout and skew.                  *)
THEOREM GroundsHold == Spec => GroundsAreRecent
<1>1. ASSUME AInv, [Next]_vars
      PROVE  [\A p \in Requests :
               /\ pc[p] # "verify" /\ pc'[p] = "verify" =>
                    /\ KeyID(p) \in documents[cached'].keys
                    /\ cached' = Current \/ clock - documents[cached' + 1].since < Ttl + Timeout
               /\ pc[p] # "accepted" /\ pc'[p] = "accepted" =>
                    /\ clock + ClockSkew >= ask[p].assertion.from
                    /\ clock - ClockSkew < ask[p].assertion.expires]_vars
  BY <1>1, KeyFoundRecent, AcceptedInForce
<1> QED BY <1>1, AccessKeysInvariant, PTL DEF Spec, GroundsAreRecent

(* Nobody is told that a key is unknown which the provider has had all     *)
(* along.                                                                  *)
THEOREM UnknownHolds == Spec => UnknownIsTrue
<1>1. ASSUME AInv, [Next]_vars
      PROVE  [\A p \in Requests :
                pc[p] # "unknown" /\ pc'[p] = "unknown" =>
                  \E n \in ask[p].since..Current : KeyID(p) \notin documents[n].keys]_vars
  <2> SUFFICES ASSUME NEW p \in Requests, pc[p] # "unknown", pc'[p] = "unknown"
               PROVE  \E n \in ask[p].since..Current : KeyID(p) \notin documents[n].keys
    OBVIOUS
  <2>1. Store(p)
    BY <1>1, Movers
  <2>2. KeyID(p) \notin documents[cached'].keys
    BY <1>1, <2>1, StoreFacts DEF Resolve, Found, Goto, TypeOK
  <2> QED BY <1>1, <2>1, <2>2, StoreFacts
<1> QED BY <1>1, AccessKeysInvariant, PTL DEF Spec, UnknownIsTrue

(* Answers that overtake each other never bring an older document back.    *)
THEOREM NeverStepsBack == Spec => NoStepBack
<1>1. ASSUME AInv, [Next]_vars PROVE [cached' >= cached]_cached
  <2> USE DEF cacheVars, requestVars
  <2>1. ASSUME NEW p \in Requests, Store(p) PROVE cached' >= cached
    BY <1>1, <2>1, StoreFacts
  <2>2. ASSUME ~(\E p \in Requests : Store(p)) PROVE cached' = cached
    BY <1>1, <2>2 DEF Next, Serve, Tick, Rotate, Authenticate, Answer, Key, FetchFails, Verify, vars
  <2> QED BY <2>1, <2>2
<1> QED BY <1>1, AccessKeysInvariant, PTL DEF Spec, NoStepBack
=============================================================================
