----------------------------- MODULE PublicEdge -----------------------------
(***************************************************************************)
(* What happens to a public write before its service sees it: the          *)
(* middleware finds the address of the client behind the proxies, the      *)
(* comment handler decodes the body, the visitor hash is made, and the     *)
(* limiter of the feature is asked.  Clients write what they like into     *)
(* X-Forwarded-For; a proxy appends the address it was called from.  The   *)
(* limiter is that of RateLimiter within one window.                       *)
(***************************************************************************)
EXTENDS Integers, Sequences, FiniteSetsExt, Functions

CONSTANTS
  Clients,    \* hosts that are no proxies
  Proxies,
  Agents,     \* user agents
  Features,   \* what has a limiter of its own; "comments" have a body
  Routes,     \* the proxies a request may come through, outermost first
  Headers,    \* what clients put into the header themselves
  Garbage,    \* an entry that is no address
  Handlers,   \* handlers that may run at a time
  PerMinute,  \* the allowance of each feature, RATE_..._PER_MIN
  TableSize,  \* RATE_LIMIT_MAX_KEYS
  NoCall

VARIABLES
  trusted,    \* the hosts in TRUSTED_PROXY_CIDRS
  pc,         \* what each handler does next
  call,       \* its feature, the hash it has computed, and, as history, whose request it is
  spent,      \* the limiters: feature -> visitor hash -> count
  used,       \* history: feature -> visitor -> how often it was let in
  served      \* history: the requests of each visitor its service has seen

handlerVars == <<pc, call>>
edgeVars == <<trusted, handlerVars, spent, used, served>>

Hosts == Clients \cup Proxies
Senders == Hosts \X Agents
(* As they come: IPv6 has a form for IPv4 addresses, agents have blanks. *)
Addresses == [host : Hosts, mapped : BOOLEAN]
AgentStrings == [name : Agents, padded : BOOLEAN]
Hashes == Addresses \X AgentStrings

ASSUME HostsAssumption == Clients \cap Proxies = {}
ASSUME HeadersAssumption ==
  /\ Garbage \notin Addresses
  /\ Routes \subseteq Seq(Proxies)
  /\ Headers \subseteq Seq(Addresses \cup {Garbage})
ASSUME AllowanceAssumption ==
  PerMinute \in [Features -> Nat \ {0}] /\ TableSize \in Nat \ {0}
ASSUME FiniteAssumption == IsFiniteSet(Handlers) /\ IsFiniteSet(Hashes)
ASSUME NoCallAssumption ==
  NoCall \notin [windowStart : Int, count : Int] \cup [visitor : Hashes, now : Int]
              \cup [feature : Features, visitor : Hashes, from : Senders]

EdgeTypeOK ==
  /\ trusted \subseteq Proxies
  /\ pc \in [Handlers -> {"idle", "body", "limiter", "service"}]
  /\ call \in [Handlers -> {NoCall} \cup [feature : Features, visitor : Hashes, from : Senders]]
  /\ spent \in [Features -> [Hashes -> Nat]]
  /\ \A f \in Features, h \in Hashes : spent[f][h] <= PerMinute[f]
  /\ used \in [Features -> [Senders -> Nat]]
  /\ served \in [Features -> [Hashes -> Nat]]

EdgeInit ==
  /\ trusted \in SUBSET Proxies
  /\ pc = [r \in Handlers |-> "idle"]
  /\ call = [r \in Handlers |-> NoCall]
  /\ spent = [f \in Features |-> [h \in Hashes |-> 0]]
  /\ used = [f \in Features |-> [v \in Senders |-> 0]]
  /\ served = spent
-----------------------------------------------------------------------------
Unmap(address) == [address EXCEPT !.mapped = FALSE]
(* No prefix contains a mapped address. *)
Contains(address) == ~address.mapped /\ address.host \in trusted
IsTrusted(address) == Contains(Unmap(address))

(* Mutant: the chain is read from the left. *)
ResolveLeft(peer, forwarded) ==
  IF ~IsTrusted(peer) \/ forwarded = <<>> \/ Garbage \in Range(forwarded) THEN Unmap(peer)
  ELSE LET beyond == {n \in DOMAIN forwarded : ~IsTrusted(forwarded[n])}
       IN Unmap(forwarded[IF beyond = {} THEN 1 ELSE Min(beyond)])

(* The header counts if a trusted proxy sends it and every entry is an     *)
(* address: the last one that is not a trusted proxy's.                    *)
Resolve(peer, forwarded) ==
  IF ~IsTrusted(peer) \/ forwarded = <<>> \/ Garbage \in Range(forwarded) THEN Unmap(peer)
  ELSE LET beyond == {n \in DOMAIN forwarded : ~IsTrusted(forwarded[n])}
       IN Unmap(forwarded[IF beyond = {} THEN 1 ELSE Max(beyond)])

(* Mutant: the agent goes into the hash as it came. *)
HashAsSent(address, agent) == <<Unmap(address), agent>>

(* An HMAC of the address and the agent without superfluous blanks. *)
Hash(address, agent) == <<Unmap(address), [agent EXCEPT !.padded = FALSE]>>

(* How a request gets here: each proxy appends whom it was called by. *)
Hops(caller, route) == <<caller>> \o route
Forwarded(caller, route, sent, mapped) ==
  sent \o [n \in 1..Len(route) |-> [host |-> Hops(caller, route)[n], mapped |-> mapped]]
Peer(caller, route, mapped) ==
  [host |-> Hops(caller, route)[Len(route) + 1], mapped |-> mapped]

(* Whom a request is to be charged to: the machine nearest to the API that *)
(* is not a trusted proxy, or the proxy that has called it when the header *)
(* cannot be read.                                                         *)
Origin(caller, route, sent) ==
  LET hops == Hops(caller, route)
      last == hops[Len(hops)]
      beyond == {n \in DOMAIN hops : hops[n] \notin trusted}
  IN IF last \in trusted /\ Garbage \in Range(sent) THEN last
     ELSE IF beyond = {} THEN caller ELSE hops[Max(beyond)]

Receive(r, f, caller, route, sent, mapped, agent) ==
  /\ pc[r] = "idle"
  /\ caller \in Proxies => sent = <<>>
  /\ pc' = [pc EXCEPT ![r] = IF f = "comments" THEN "body" ELSE "limiter"]
  /\ call' = [call EXCEPT ![r] =
       [feature |-> f,
        visitor |-> Hash(Resolve(Peer(caller, route, mapped),
                                 Forwarded(caller, route, sent, mapped)), agent),
        from |-> <<Origin(caller, route, sent), agent.name>>]]
  /\ UNCHANGED <<trusted, spent, used, served>>

(* Mutant: the limiter is asked before the body is read. *)
DecodeCharged(r) ==
  /\ pc[r] = "body"
  /\ \/ pc' = [pc EXCEPT ![r] = "limiter"] /\ UNCHANGED <<call, spent>>
     \/ /\ pc' = [pc EXCEPT ![r] = "idle"]
        /\ call' = [call EXCEPT ![r] = NoCall]
        /\ spent' = [spent EXCEPT ![call[r].feature][call[r].visitor] =
                        IF @ < PerMinute[call[r].feature] THEN @ + 1 ELSE @]
  /\ UNCHANGED <<trusted, used, served>>

(* A comment goes on to the limiter, or ends with 415, 413 or 400, or, for *)
(* a bot that has filled in the honeypot, with 204.                        *)
Decode(r) ==
  /\ pc[r] = "body"
  /\ \/ pc' = [pc EXCEPT ![r] = "limiter"] /\ UNCHANGED call
     \/ pc' = [pc EXCEPT ![r] = "idle"] /\ call' = [call EXCEPT ![r] = NoCall]
  /\ UNCHANGED <<trusted, spent, used, served>>

Full(f) == Cardinality({h \in Hashes : spent[f][h] > 0}) >= TableSize

(* Mutant: a newcomer to a full table is let in uncounted. *)
AskLimiterOpen(r) ==
  /\ pc[r] = "limiter"
  /\ LET f == call[r].feature
         v == call[r].visitor
         from == call[r].from
     IN \/ /\ spent[f][v] < PerMinute[f]
           /\ spent' = IF spent[f][v] > 0 \/ ~Full(f) THEN [spent EXCEPT ![f][v] = @ + 1] ELSE spent
           /\ used' = [used EXCEPT ![f][from] = @ + 1]
           /\ pc' = [pc EXCEPT ![r] = "service"]
           /\ UNCHANGED call
        \/ /\ spent[f][v] = PerMinute[f]
           /\ pc' = [pc EXCEPT ![r] = "idle"]
           /\ call' = [call EXCEPT ![r] = NoCall]
           /\ UNCHANGED <<spent, used>>
  /\ UNCHANGED <<trusted, served>>

(* The limiter has room for the visitor, or the answer is 429. *)
AskLimiter(r) ==
  /\ pc[r] = "limiter"
  /\ LET f == call[r].feature
         v == call[r].visitor
         from == call[r].from
     IN \/ /\ spent[f][v] < PerMinute[f]
           /\ spent[f][v] > 0 \/ ~Full(f)
           /\ spent' = [spent EXCEPT ![f][v] = @ + 1]
           /\ used' = [used EXCEPT ![f][from] = @ + 1]
           /\ pc' = [pc EXCEPT ![r] = "service"]
           /\ UNCHANGED call
        \/ /\ spent[f][v] = PerMinute[f] \/ (spent[f][v] = 0 /\ Full(f))
           /\ pc' = [pc EXCEPT ![r] = "idle"]
           /\ call' = [call EXCEPT ![r] = NoCall]
           /\ UNCHANGED <<spent, used>>
  /\ UNCHANGED <<trusted, served>>

Serve(r) ==
  /\ pc[r] = "service"
  /\ pc' = [pc EXCEPT ![r] = "idle"]
  /\ call' = [call EXCEPT ![r] = NoCall]
  /\ served' = [served EXCEPT ![call[r].feature][call[r].visitor] = @ + 1]
  /\ UNCHANGED <<trusted, spent, used>>

EdgeNext ==
  \E r \in Handlers :
    \/ \E f \in Features, caller \in Hosts, route \in Routes, sent \in Headers,
          mapped \in BOOLEAN, agent \in AgentStrings :
         Receive(r, f, caller, route, sent, mapped, agent)
    \/ Decode(r) \/ AskLimiter(r) \/ Serve(r)

EdgeSpec == EdgeInit /\ [][EdgeNext]_edgeVars
-----------------------------------------------------------------------------
(* A client is let in no more often than its allowance, whatever it writes *)
(* into the header, through whichever proxies it comes and however         *)
(* addresses are written; if it writes what is no address, it shares the   *)
(* allowance of the proxy ("The application never trusts X-Forwarded-For   *)
(* from an arbitrary client", README.md).                                  *)
OneAllowance == \A f \in Features, v \in Senders : used[f][v] <= PerMinute[f]

(* Nobody loses its allowance to a header another client has written: who  *)
(* is denied has used it up, or finds the table full, and for this feature *)
(* ("independent fixed-window allowances", docs/security.md).              *)
DenialDeserved ==
  [][\A r \in Handlers : pc[r] = "limiter" /\ pc'[r] = "idle" =>
       \/ used[call[r].feature][call[r].from] = PerMinute[call[r].feature]
       \/ Full(call[r].feature)]_edgeVars

(* What has got to the service, or is about to. *)
InService(f, h) ==
  {r \in Handlers : pc[r] = "service" /\ call[r].feature = f /\ call[r].visitor = h}
LetIn(f, h) == served[f][h] + Cardinality(InService(f, h))

(* The allowance is spent on what the service gets to see: bots and        *)
(* requests that cannot be read cost their sender nothing, and nothing     *)
(* gets past the limiter.                                                  *)
SpentOnService == \A f \in Features, h \in Hashes : spent[f][h] = LetIn(f, h)

(* A limiter as RateLimiter has it. *)
Entries(f) ==
  [h \in Hashes |->
     IF spent[f][h] = 0 THEN NoCall ELSE [windowStart |-> 0, count |-> spent[f][h]]]
Asking(f) ==
  [r \in Handlers |->
     IF pc[r] = "limiter" /\ call[r].feature = f THEN [visitor |-> call[r].visitor, now |-> 0]
     ELSE NoCall]
Admissions(f) == [h \in Hashes |-> [n \in 1..LetIn(f, h) |-> 0]]
Limiter(f) ==
  INSTANCE RateLimiter WITH
    Visitors <- Hashes, Requests <- Handlers, Limit <- PerMinute[f], MaxKeys <- TableSize,
    Window <- 1, MaxDelay <- 0, MaxTime <- 0, Absent <- NoCall, clock <- 0,
    user <- Entries(f), waiting <- Asking(f), admitted <- Admissions(f)

(* The limiter of each feature is the one of RateLimiter while its clock   *)
(* stands still: it denies whom that one denies, and what it lets in is    *)
(* what gets to the service.                                               *)
ImplementsLimiters ==
  /\ \A f \in Features : Limiter(f)!Init
  /\ [][\A f \in Features : UNCHANGED Limiter(f)!vars \/ Limiter(f)!Next]_edgeVars
=============================================================================
