----------------------------- MODULE AccessKeys -----------------------------
(***************************************************************************)
(* The signing keys of Cloudflare Access: the cache an administrator's     *)
(* request resolves its key in, which fetches the provider's document      *)
(* under its mutex, beside a provider that rotates its keys, answers late  *)
(* or not at all, and the verification of the assertion with that key.  A  *)
(* document is the set of its key ids.                                     *)
(***************************************************************************)
EXTENDS Integers, Sequences

CONSTANTS
  Requests,       \* administrators' requests at a time
  KeyIDs,         \* key ids of assertions and documents
  Assertions,     \* the assertions requests may bring, decoded
  Ttl,            \* ticks a document is fresh
  Timeout,        \* ticks of http.Client.Timeout
  ClockSkew,      \* ticks of clockSkew
  MaxTime,        \* bound: the last tick
  MaxDocuments,   \* bound: documents the provider publishes
  NoRequest,      \* the mutex is free
  NoAssertion

ASSUME TimeAssumption ==
  /\ Ttl \in Nat \ {0} /\ Timeout \in Nat /\ ClockSkew \in Nat
  /\ MaxTime \in Nat /\ MaxDocuments \in Nat
ASSUME AssertionsAssumption ==
  Assertions \subseteq [keyID : KeyIDs, sound : BOOLEAN, from : Int, expires : Int]
ASSUME NullAssumption == NoRequest \notin Requests /\ NoAssertion \notin Assertions

VARIABLES
  clock,
  documents,   \* history: what the provider has published, and since when
  cached,      \* the document whose keys are cached, 0 before the first
  fetchedAt,   \* when it was stored
  mu,          \* the request holding the mutex
  pc,          \* what each request does next, or how it ended
  ask,         \* the assertion it brings; history: the document at its arrival
  fetch        \* when its fetch has started, and the document in the answer

cacheVars == <<cached, fetchedAt, mu>>
requestVars == <<pc, ask, fetch>>
vars == <<clock, documents, cacheVars, requestVars>>

Times == 0..MaxTime
Current == Len(documents)
NoAsk == [assertion |-> NoAssertion, since |-> 1]
NoFetch == [started |-> 0, document |-> 0]
Ended == {"idle", "unknown", "accepted"}
KeyID(p) == ask[p].assertion.keyID

TypeOK ==
  /\ clock \in Times
  /\ documents \in Seq([keys : SUBSET KeyIDs, since : Times])
  /\ Current \in Nat \ {0}
  /\ cached \in 0..Current
  /\ fetchedAt \in 0..clock
  /\ mu \in Requests \cup {NoRequest}
  /\ pc \in [Requests -> {"wait", "fetch", "verify"} \cup Ended]
  /\ ask \in [Requests -> [assertion : Assertions \cup {NoAssertion}, since : Nat \ {0}]]
  /\ fetch \in [Requests -> [started : Times, document : Nat]]

Init ==
  /\ clock = 0
  /\ \E keys \in SUBSET KeyIDs : documents = <<[keys |-> keys, since |-> 0]>>
  /\ cached = 0
  /\ fetchedAt = 0
  /\ mu = NoRequest
  /\ pc = [p \in Requests |-> "idle"]
  /\ ask = [p \in Requests |-> NoAsk]
  /\ fetch = [p \in Requests |-> NoFetch]
-----------------------------------------------------------------------------
(* No fetch outlives the timeout of the HTTP client. *)
Tick ==
  /\ clock < MaxTime
  /\ \A p \in Requests : pc[p] = "fetch" => clock - fetch[p].started < Timeout
  /\ clock' = clock + 1
  /\ UNCHANGED <<documents, cacheVars, requestVars>>

Rotate(keys) ==
  /\ Current < MaxDocuments
  /\ documents' = Append(documents, [keys |-> keys, since |-> clock])
  /\ UNCHANGED <<clock, cacheVars, requestVars>>

(* The provider answers a fetch with what it publishes now. *)
Answer(p) ==
  /\ pc[p] = "fetch"
  /\ fetch[p].document = 0
  /\ fetch' = [fetch EXCEPT ![p].document = Current]
  /\ UNCHANGED <<clock, documents, cacheVars, pc, ask>>
-----------------------------------------------------------------------------
Goto(p, step) == pc' = [pc EXCEPT ![p] = step]

(* Key returns the key. *)
Found(p) ==
  /\ Goto(p, "verify")
  /\ fetch' = [fetch EXCEPT ![p] = NoFetch]
  /\ UNCHANGED ask

(* Verify returns. *)
Leave(p, step) ==
  /\ Goto(p, step)
  /\ ask' = [ask EXCEPT ![p] = NoAsk]
  /\ fetch' = [fetch EXCEPT ![p] = NoFetch]

(* A request with an assertion that is well formed up to its key id. *)
Authenticate(p, assertion) ==
  /\ pc[p] \in Ended
  /\ Goto(p, "wait")
  /\ ask' = [ask EXCEPT ![p] = [assertion |-> assertion, since |-> Current]]
  /\ UNCHANGED <<clock, documents, cacheVars, fetch>>

Cached(keyID) == cached # 0 /\ keyID \in documents[cached].keys
Fresh == clock - fetchedAt < Ttl

StartFetch(p) ==
  /\ Goto(p, "fetch")
  /\ fetch' = [fetch EXCEPT ![p] = [started |-> clock, document |-> 0]]
  /\ UNCHANGED ask

(* Mutant: fresh keys are taken for all there are. *)
KeyNegative(p) ==
  /\ pc[p] = "wait"
  /\ mu = NoRequest
  /\ \/ Fresh /\ Cached(KeyID(p)) /\ Found(p) /\ UNCHANGED mu
     \/ Fresh /\ cached # 0 /\ ~Cached(KeyID(p)) /\ Leave(p, "unknown") /\ UNCHANGED mu
     \/ ~(Fresh /\ cached # 0) /\ StartFetch(p) /\ mu' = p
  /\ UNCHANGED <<clock, documents, cached, fetchedAt>>

(* Mutant: the mutex is given up for the time of the fetch. *)
KeyUnlocked(p) ==
  /\ pc[p] = "wait"
  /\ mu = NoRequest
  /\ \/ Cached(KeyID(p)) /\ Fresh /\ Found(p)
     \/ ~(Cached(KeyID(p)) /\ Fresh) /\ StartFetch(p)
  /\ UNCHANGED <<clock, documents, cacheVars>>

(* Key, with the mutex: a known key of a fresh document is returned; for   *)
(* anything else the document is fetched, the mutex held.                  *)
Key(p) ==
  /\ pc[p] = "wait"
  /\ mu = NoRequest
  /\ \/ Cached(KeyID(p)) /\ Fresh /\ Found(p) /\ UNCHANGED mu
     \/ ~(Cached(KeyID(p)) /\ Fresh) /\ StartFetch(p) /\ mu' = p
  /\ UNCHANGED <<clock, documents, cached, fetchedAt>>

Unlock(p) == mu' = IF mu = p THEN NoRequest ELSE mu

(* Key returns what the document says of the key id. *)
Resolve(p, keys) ==
  \/ KeyID(p) \in keys /\ Found(p)
  \/ KeyID(p) \notin keys /\ Leave(p, "unknown")

(* The document replaces the cached one, as of now. *)
Store(p) ==
  /\ pc[p] = "fetch"
  /\ fetch[p].document # 0
  /\ documents[fetch[p].document].keys # {}
  /\ cached' = fetch[p].document
  /\ fetchedAt' = clock
  /\ Resolve(p, documents[fetch[p].document].keys)
  /\ Unlock(p)
  /\ UNCHANGED <<clock, documents>>

(* Mutant: after a failure the cached keys get another term. *)
FetchFailsOpen(p) ==
  /\ pc[p] = "fetch"
  /\ Leave(p, "idle")
  /\ Unlock(p)
  /\ fetchedAt' = clock
  /\ UNCHANGED <<clock, documents, cached>>

(* Mutant: no deferred Unlock. *)
FetchFailsLocked(p) ==
  /\ pc[p] = "fetch"
  /\ Leave(p, "idle")
  /\ UNCHANGED <<clock, documents, cacheVars>>

(* The timeout, the end of the request's context, a status other than 200, *)
(* or a document that does not decode, has unusable keys or none at all:   *)
(* the request is turned away.                                             *)
FetchFails(p) ==
  /\ pc[p] = "fetch"
  /\ Leave(p, "idle")
  /\ Unlock(p)
  /\ UNCHANGED <<clock, documents, cached, fetchedAt>>

(* Verify, once it has the key: signature, type, issuer, audience, subject *)
(* and email are as they should be or not, and the times are compared with *)
(* the clock now.                                                          *)
Verify(p) ==
  /\ pc[p] = "verify"
  /\ LET assertion == ask[p].assertion IN
       Leave(p, IF /\ assertion.sound
                   /\ assertion.expires > clock - ClockSkew
                   /\ assertion.from <= clock + ClockSkew THEN "accepted" ELSE "idle")
  /\ UNCHANGED <<clock, documents, cacheVars>>
-----------------------------------------------------------------------------
Serve(p) == Key(p) \/ Store(p) \/ FetchFails(p) \/ Verify(p)

Next ==
  \/ Tick
  \/ \E keys \in SUBSET KeyIDs : Rotate(keys)
  \/ \E p \in Requests :
       \/ \E assertion \in Assertions : Authenticate(p, assertion)
       \/ Answer(p)
       \/ Serve(p)

Spec == Init /\ [][Next]_vars

(* A fetch ends, with its timeout if not before, and a waiting goroutine   *)
(* gets the mutex in the end.  The provider need not answer.               *)
FairSpec == Spec /\ \A p \in Requests : SF_vars(Serve(p))
-----------------------------------------------------------------------------
(* What a request is accepted on is recent when it is used, however long   *)
(* it has waited: its key is in a document that was the provider's less    *)
(* than a TTL and a fetch ago, so that a withdrawn key dies out, also when *)
(* the provider cannot be reached any more ("Refresh errors fail closed",  *)
(* docs/security.md); its assertion is in force, give or take the skew.    *)
GroundsAreRecent ==
  [][\A p \in Requests :
       /\ pc[p] # "verify" /\ pc'[p] = "verify" =>
            /\ KeyID(p) \in documents[cached'].keys
            /\ cached' = Current \/ clock - documents[cached' + 1].since < Ttl + Timeout
       /\ pc[p] # "accepted" /\ pc'[p] = "accepted" =>
            /\ clock + ClockSkew >= ask[p].assertion.from
            /\ clock - ClockSkew < ask[p].assertion.expires]_vars

(* A request is told that its key is unknown only if the provider did not  *)
(* have it at some moment of the request: rotation needs no restart, and   *)
(* no request is turned away for what another one has fetched before.      *)
UnknownIsTrue ==
  [][\A p \in Requests :
       pc[p] # "unknown" /\ pc'[p] = "unknown" =>
         \E n \in ask[p].since..Current : KeyID(p) \notin documents[n].keys]_vars

(* The cache never goes back to an older document, in whatever order the   *)
(* provider's answers arrive.                                              *)
NoStepBack == [][cached' >= cached]_cached

(* Every request is answered, also while the provider hangs. *)
AccessCompletes ==
  \A p \in Requests : pc[p] \notin Ended ~> pc[p] \in Ended
=============================================================================
