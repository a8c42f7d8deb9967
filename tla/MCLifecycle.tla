---------------------------- MODULE MCLifecycle ----------------------------
(* Three requests and pools of one, two or five connections: settings at   *)
(* their limits, the defaults, or one of them changed, most often for bad. *)
EXTENDS Lifecycle

CONSTANTS p1, p2, p3

Given == [name \in Settings |->
  CASE name = "VISITOR_HMAC_KEY" -> 32
    [] name \in Required -> Text
    [] OTHER -> Unset]
AtLimits == [name \in Settings |->
  IF name \in DOMAIN Ceiling THEN Ceiling[name]
  ELSE IF name \in Timeouts \cup Counts \cup PoolSizes THEN 1 ELSE Given[name]]
OffValues(name) ==
  IF name = "VISITOR_HMAC_KEY" THEN {31}
  ELSE IF name \in Required \cup {"TRUSTED_PROXY_CIDRS"} THEN {Malformed, Blank}
  ELSE {Malformed, -1, 0} \cup (IF name \in DOMAIN Ceiling THEN {Ceiling[name] + 1} ELSE {})
                         \cup (IF name \in PoolSizes THEN {2} ELSE {})
Nothing == [name \in Settings |-> Unset]
Started ==
  {AtLimits, Nothing}
  \cup UNION {{[AtLimits EXCEPT ![name] = off] : off \in OffValues(name)} : name \in Settings}
Dotenv == {Malformed, Nothing, Given}
Defaults == {Given}
NoDotenv == {Nothing}
=============================================================================
