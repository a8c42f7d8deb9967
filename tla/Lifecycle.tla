----------------------------- MODULE Lifecycle -----------------------------
(***************************************************************************)
(* The API process from its start to its exit: main, Run and serve on the  *)
(* main goroutine, the goroutine in server.Serve, the handlers of          *)
(* requests, and the pool they share, which Run closes when it returns.    *)
(* net/http and pgxpool are modelled by what this code relies on: Shutdown *)
(* closes the listener and waits for handlers, Close cuts connections and  *)
(* leaves handlers running, and the Close of the pool waits for its        *)
(* connections.                                                            *)
(***************************************************************************)
EXTENDS Configuration, FiniteSets

CONSTANTS
  Connections,    \* connections of clients, each with a request at a time
  Environments,   \* what the process may find in its environment
  Files           \* what .env may say

ASSUME SettingsAssumption ==
  Environments \subseteq Environs /\ Files \subseteq Environs \cup {Malformed}
ASSUME ConnectionsAssumption == IsFiniteSet(Connections)

VARIABLES
  environ,    \* the environment the process is started in
  file,       \* the .env file, Malformed if it cannot be read
  main,       \* what the main goroutine does next
  signalled,  \* the context is cancelled: SIGINT or SIGTERM
  serving,    \* the goroutine in Serve, and what it has put into serverErrors
  pool,
  handler,    \* each handler: not running, running, using a connection of the pool
  client,     \* the client's connection: no request yet, one to answer, answered and kept, cut
  outcome     \* what Run is about to return

configVars == <<environ, file>>
mainVars == <<main, outcome>>
requestVars == <<handler, client>>
processVars == <<configVars, mainVars, signalled, serving, pool, requestVars>>

Setting(name) == Value(Merged(environ, file), name)

Users == {p \in Connections : handler[p] = "query"}

ProcessTypeOK ==
  /\ environ \in Environments /\ file \in Files
  /\ main \in {"load", "open", "listen", "serve", "drain", "await", "close", "closing", "exited"}
  /\ signalled \in BOOLEAN
  /\ serving \in {"no", "starting", "running", "closed", "failed"}
  /\ pool \in {"none", "open", "closing", "closed"}
  /\ handler \in [Connections -> {"none", "run", "query"}]
  /\ client \in [Connections -> {"none", "connected", "waiting", "kept", "cut"}]
  /\ outcome \in {"none", "ok", "error", "failed", "timeout", "refused", "killed"}
  /\ Users # {} => Cardinality(Users) <= Setting("DB_MAX_CONNS")

ProcessInit ==
  /\ environ \in Environments
  /\ file \in Files
  /\ main = "load"
  /\ signalled = FALSE
  /\ serving = "no"
  /\ pool = "none"
  /\ handler = [p \in Connections |-> "none"]
  /\ client = [p \in Connections |-> "none"]
  /\ outcome = "none"

(* The lengths the CHECK constraints of comments allow. *)
Columns == [MAX_AUTHOR_CHARS |-> 80, MAX_COMMENT_CHARS |-> 2000]

Drained == \A p \in Connections : handler[p] = "none" /\ client[p] # "connected"

(* All connections of clients are closed, under those that wait. *)
Cut ==
  client' = [p \in Connections |-> IF client[p] \in {"waiting", "cut"} THEN "cut" ELSE "none"]

(* Those without a request are closed. *)
CloseKept ==
  client' = [p \in Connections |-> IF client[p] = "kept" THEN "none" ELSE client[p]]
-----------------------------------------------------------------------------
(* The main goroutine.  It exits on an unreadable file or a bad setting. *)
LoadConfiguration ==
  /\ main = "load"
  /\ IF file # Malformed /\ LoadAPI(Merged(environ, file))
     THEN main' = "open" /\ UNCHANGED outcome
     ELSE main' = "exited" /\ outcome' = "refused"
  /\ UNCHANGED <<configVars, signalled, serving, pool, requestVars>>

(* postgres.Open connects to nothing: pgx rejects a URL or a pool size. *)
Open ==
  /\ main = "open"
  /\ IF Setting("DATABASE_URL") = Malformed \/ Setting("DB_MAX_CONNS") < 1
     THEN main' = "exited" /\ outcome' = "error" /\ UNCHANGED pool
     ELSE main' = "listen" /\ pool' = "open" /\ UNCHANGED outcome
  /\ UNCHANGED <<configVars, signalled, serving, requestVars>>

Listen ==
  /\ main = "listen"
  /\ \/ main' = "serve" /\ serving' = "starting" /\ UNCHANGED outcome
     \/ main' = "close" /\ outcome' = "error" /\ UNCHANGED serving
  /\ UNCHANGED <<configVars, signalled, pool, requestVars>>

(* serverErrors is ready first. *)
ReturnServeError ==
  /\ main = "serve"
  /\ serving = "failed"
  /\ main' = "close"
  /\ outcome' = "failed"
  /\ UNCHANGED <<configVars, signalled, serving, pool, requestVars>>

(* Mutant: the pool is closed with the listener. *)
ShutdownWithPool ==
  /\ main = "serve"
  /\ signalled
  /\ main' = "drain"
  /\ serving' = IF serving = "running" THEN "closed" ELSE serving
  /\ pool' = "closing"
  /\ CloseKept
  /\ UNCHANGED <<configVars, outcome, signalled, handler>>

Shutdown ==
  /\ main = "serve"
  /\ signalled
  /\ main' = "drain"
  /\ serving' = IF serving = "running" THEN "closed" ELSE serving
  /\ CloseKept
  /\ UNCHANGED <<configVars, outcome, signalled, pool, handler>>

(* Mutant: the listener is closed and nobody waited for. *)
ShutdownReturnsAtOnce ==
  /\ main = "drain"
  /\ main' = "await"
  /\ UNCHANGED <<configVars, outcome, signalled, serving, pool, requestVars>>

(* Shutdown has seen every handler end, and no new connection without one. *)
ShutdownReturns ==
  /\ main = "drain"
  /\ Drained
  /\ main' = "await"
  /\ UNCHANGED <<configVars, outcome, signalled, serving, pool, requestVars>>

(* Mutant: Shutdown under a context without a deadline. *)
ShutdownNeverTimesOut ==
  /\ main = "drain"
  /\ Drained
  /\ main' = "close"
  /\ outcome' = "timeout"
  /\ UNCHANGED <<configVars, signalled, serving, pool, requestVars>>

(* Its time is up before: server.Close. *)
ShutdownTimesOut ==
  /\ main = "drain"
  /\ main' = "close"
  /\ outcome' = "timeout"
  /\ Cut
  /\ UNCHANGED <<configVars, signalled, serving, pool, handler>>

AwaitServe ==
  /\ main = "await"
  /\ serving \in {"closed", "failed"}
  /\ main' = "close"
  /\ outcome' = IF serving = "closed" THEN "ok" ELSE "failed"
  /\ UNCHANGED <<configVars, signalled, serving, pool, requestVars>>

(* The deferred pool.Close: from now on there are no connections to get. *)
ClosePool ==
  /\ main = "close"
  /\ main' = "closing"
  /\ pool' = "closing"
  /\ UNCHANGED <<configVars, outcome, signalled, serving, requestVars>>

(* The last connection is back, and Run and the process end. *)
Exit ==
  /\ main = "closing"
  /\ Users = {}
  /\ main' = "exited"
  /\ pool' = "closed"
  /\ handler' = [p \in Connections |-> "none"]
  /\ Cut
  /\ UNCHANGED <<configVars, outcome, signalled, serving>>

Main ==
  \/ LoadConfiguration \/ Open \/ Listen \/ ReturnServeError \/ Shutdown \/ ShutdownReturns
  \/ ShutdownTimesOut \/ AwaitServe \/ ClosePool \/ Exit
-----------------------------------------------------------------------------
(* Before NotifyContext a signal kills the process. *)
Signal ==
  /\ ~signalled
  /\ main # "exited"
  /\ signalled' = TRUE
  /\ IF main = "load" THEN main' = "exited" /\ outcome' = "killed" ELSE UNCHANGED mainVars
  /\ UNCHANGED <<configVars, serving, pool, requestVars>>

(* The goroutine gets to Serve, which a Shutdown may have overtaken. *)
ServeStarts ==
  /\ serving = "starting"
  /\ main # "exited"
  /\ serving' = IF main = "serve" THEN "running" ELSE "closed"
  /\ UNCHANGED <<configVars, mainVars, signalled, pool, requestVars>>

(* Accept fails for good. *)
ServeFails ==
  /\ serving = "running"
  /\ serving' = "failed"
  /\ UNCHANGED <<configVars, mainVars, signalled, pool, requestVars>>

Connect(p) ==
  /\ serving = "running"
  /\ client[p] = "none"
  /\ handler[p] = "none"
  /\ client' = [client EXCEPT ![p] = "connected"]
  /\ UNCHANGED <<configVars, mainVars, signalled, serving, pool, handler>>

(* A request on an open connection, also while the server drains. *)
Arrive(p) ==
  /\ client[p] \in {"connected", "kept"}
  /\ client' = [client EXCEPT ![p] = "waiting"]
  /\ handler' = [handler EXCEPT ![p] = "run"]
  /\ UNCHANGED <<configVars, mainVars, signalled, serving, pool>>

(* The client goes away, or the server has waited too long for a request. *)
(* A handler finds out when it asks its context.                           *)
Disconnect(p) ==
  /\ client[p] \in {"connected", "kept", "waiting"}
  /\ client' = [client EXCEPT ![p] = "none"]
  /\ UNCHANGED <<configVars, mainVars, signalled, serving, pool, handler>>

Acquire(p) ==
  /\ handler[p] = "run"
  /\ client[p] = "waiting"
  /\ pool = "open"
  /\ Cardinality(Users) < Setting("DB_MAX_CONNS")
  /\ handler' = [handler EXCEPT ![p] = "query"]
  /\ UNCHANGED <<configVars, mainVars, signalled, serving, pool, client>>

(* A statement or transaction is over, with its deadline if not before. *)
Release(p) ==
  /\ handler[p] = "query"
  /\ handler' = [handler EXCEPT ![p] = "run"]
  /\ UNCHANGED <<configVars, mainVars, signalled, serving, pool, client>>

Answer(p) ==
  /\ handler[p] = "run"
  /\ handler' = [handler EXCEPT ![p] = "none"]
  /\ client' = [client EXCEPT ![p] =
                  IF @ = "waiting" THEN IF main = "drain" THEN "none" ELSE "kept" ELSE @]
  /\ UNCHANGED <<configVars, mainVars, signalled, serving, pool>>

ProcessNext ==
  \/ Main \/ Signal \/ ServeStarts \/ ServeFails
  \/ \E p \in Connections :
       Connect(p) \/ Arrive(p) \/ Disconnect(p) \/ Acquire(p) \/ Release(p) \/ Answer(p)

ProcessSpec == ProcessInit /\ [][ProcessNext]_processVars

(* Goroutines run, and every use of a connection has a deadline.  Handlers *)
(* need not come to an end.                                                *)
ProcessFairSpec ==
  /\ ProcessSpec
  /\ WF_processVars(Main)
  /\ WF_processVars(ServeStarts)
  /\ \A p \in Connections : WF_processVars(Release(p))
-----------------------------------------------------------------------------
(* A process that opens its pool has settings all its parts can work with: *)
(* every text the comment service accepts fits the columns of migration 3, *)
(* the pool can be made and filled, the visitor window is short of the     *)
(* 2562047 hours that overflow a time.Duration, no limiter refuses         *)
(* everybody, and "every server has explicit ... timeouts"                 *)
(* (docs/security.md).                                                     *)
SettingsSuit ==
  main \notin {"load", "exited"} =>
    /\ \A column \in DOMAIN Columns : Setting(column) \in 1..Columns[column]
    /\ Setting("DB_MIN_CONNS") \in 0..Setting("DB_MAX_CONNS") /\ Setting("DB_MAX_CONNS") > 0
    /\ Setting("VIEW_DEDUP_WINDOW_HOURS") < 2562047
    /\ \A name \in Timeouts \cup Counts : Setting(name) > 0
    /\ \A name \in Required : Setting(name) \notin {Unset, Blank}

(* If Run returns nil, every request that was accepted has been answered,  *)
(* whenever the signal came.                                               *)
NilMeansAnswered ==
  main = "exited" /\ outcome = "ok" =>
    \A p \in Connections : client[p] \notin {"waiting", "cut"}

(* As long as a client waits for its answer the pool is there for its      *)
(* handler, unless Serve failed.                                           *)
PoolOutlivesClients ==
  (\E p \in Connections : client[p] = "waiting") => pool = "open" \/ outcome = "failed"

(* "One shared bounded pool is closed only after HTTP draining."           *)
(* (docs/security.md): the pool is closed when no handler runs, or when    *)
(* the time for draining is over.                                          *)
PoolClosedAfterDraining ==
  [][ClosePool => outcome = "timeout" \/ \A p \in Connections : handler[p] = "none"]_processVars

(* A signal ends the process, with handlers that never end and at any      *)
(* point of the start.                                                     *)
SignalStops == signalled ~> main = "exited"
=============================================================================
