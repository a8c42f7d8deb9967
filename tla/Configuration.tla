--------------------------- MODULE Configuration ---------------------------
(***************************************************************************)
(* The settings of the API process: what godotenv.Load and config.LoadAPI  *)
(* make of the environment and the .env file.  A setting is absent, blank, *)
(* text that does not parse as what it should be, or its value: a number   *)
(* (milliseconds for timeouts, bytes for the key) or sound text.           *)
(***************************************************************************)
EXTENDS Integers

CONSTANTS Unset, Blank, Malformed, Text

Timeouts ==
  {"HTTP_READ_HEADER_TIMEOUT", "HTTP_READ_TIMEOUT", "HTTP_WRITE_TIMEOUT", "HTTP_IDLE_TIMEOUT",
   "HTTP_SHUTDOWN_TIMEOUT", "DB_CONNECT_TIMEOUT", "DB_READINESS_TIMEOUT", "DB_QUERY_TIMEOUT"}
Counts ==
  {"MAX_AUTHOR_CHARS", "MAX_COMMENT_CHARS", "MAX_COMMENTS_PER_POST", "VIEW_DEDUP_WINDOW_HOURS",
   "RATE_COMMENTS_PER_MIN", "RATE_LIKES_PER_MIN", "RATE_READS_PER_MIN", "RATE_LIMIT_MAX_KEYS"}
PoolSizes == {"DB_MAX_CONNS", "DB_MIN_CONNS"}
Required == {"DATABASE_URL", "CF_ACCESS_TEAM_DOMAIN", "CF_ACCESS_AUD", "ADMIN_EMAIL"}
Settings ==
  Timeouts \cup Counts \cup PoolSizes \cup Required \cup {"TRUSTED_PROXY_CIDRS", "VISITOR_HMAC_KEY"}

(* What a variable can be: only settings that are no numbers are sound     *)
(* text, and any text is a key.                                            *)
Environs ==
  {env \in [Settings -> Int \cup {Unset, Blank, Malformed, Text}] :
     /\ \A name \in Timeouts \cup Counts \cup PoolSizes \cup {"VISITOR_HMAC_KEY"} : env[name] # Text
     /\ env["VISITOR_HMAC_KEY"] # Malformed}

Fallback ==
  [DB_MAX_CONNS |-> 5, DB_MIN_CONNS |-> 0,
   HTTP_READ_HEADER_TIMEOUT |-> 5000, HTTP_READ_TIMEOUT |-> 10000,
   HTTP_WRITE_TIMEOUT |-> 10000, HTTP_IDLE_TIMEOUT |-> 60000, HTTP_SHUTDOWN_TIMEOUT |-> 15000,
   DB_CONNECT_TIMEOUT |-> 5000, DB_READINESS_TIMEOUT |-> 750, DB_QUERY_TIMEOUT |-> 3000,
   MAX_AUTHOR_CHARS |-> 80, MAX_COMMENT_CHARS |-> 2000, MAX_COMMENTS_PER_POST |-> 1000,
   VIEW_DEDUP_WINDOW_HOURS |-> 24, RATE_COMMENTS_PER_MIN |-> 5, RATE_LIKES_PER_MIN |-> 30,
   RATE_READS_PER_MIN |-> 60, RATE_LIMIT_MAX_KEYS |-> 10000]
Ceiling ==
  [MAX_AUTHOR_CHARS |-> 80, MAX_COMMENT_CHARS |-> 2000, VIEW_DEDUP_WINDOW_HOURS |-> 24 * 365]

(* A variable of the environment, be it blank, hides that of the file. *)
Merged(environ, file) ==
  [name \in Settings |-> IF environ[name] = Unset THEN file[name] ELSE environ[name]]

Missing(env, name) == env[name] \in {Unset, Blank}
Value(env, name) ==
  IF Missing(env, name) /\ name \in DOMAIN Fallback THEN Fallback[name] ELSE env[name]

(* envInt32, envDuration and envPositiveInt, and the comparison after it. *)
BadNumber(env, name) ==
  \/ env[name] = Malformed
  \/ name \notin PoolSizes /\ Value(env, name) <= 0
  \/ name \in DOMAIN Ceiling /\ Value(env, name) > Ceiling[name]

BadPool(env) ==
  LET minConns == Value(env, "DB_MIN_CONNS")
      maxConns == Value(env, "DB_MAX_CONNS")
  IN minConns < 0 \/ maxConns < 1 \/ minConns > maxConns

(* Mutant: the pool sizes are read and not compared. *)
LoadAnyPool(env) ==
  /\ ~Missing(env, "DATABASE_URL")
  /\ \A name \in Timeouts \cup Counts \cup PoolSizes : ~BadNumber(env, name)
  /\ \A name \in {"TRUSTED_PROXY_CIDRS", "CF_ACCESS_TEAM_DOMAIN"} : env[name] # Malformed

(* Whether Load finds nothing to refuse.  pgx will read the URL. *)
Load(env) ==
  /\ ~Missing(env, "DATABASE_URL")
  /\ \A name \in Timeouts \cup Counts \cup PoolSizes : ~BadNumber(env, name)
  /\ ~BadPool(env)
  /\ \A name \in {"TRUSTED_PROXY_CIDRS", "CF_ACCESS_TEAM_DOMAIN"} : env[name] # Malformed

LoadAPI(env) ==
  /\ Load(env)
  /\ ~Missing(env, "VISITOR_HMAC_KEY") /\ env["VISITOR_HMAC_KEY"] >= 32
  /\ \A name \in Required : ~Missing(env, name)
=============================================================================
