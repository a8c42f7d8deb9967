---------------------------- MODULE Interactions ----------------------------
(***************************************************************************)
(* The API process and the sync-content jobs on one database: the requests *)
(* of CommentStore against the jobs of ContentSync, which meet in the      *)
(* content_items rows and their locks.                                     *)
(***************************************************************************)
EXTENDS ContentSync, FiniteSets

CONSTANTS LockKeys, Hash, MaxVisible, MaxConns, NoRequest, NoSlug, NoComment,
          MaxComments, MaxEvents

ASSUME StoreAssumption ==
  /\ MaxVisible \in Nat \ {0} /\ MaxConns \in Nat \ {0}
  /\ MaxComments \in Nat /\ MaxEvents \in Nat
  /\ Hash \in [Slugs -> LockKeys]
  /\ NoRequest \notin Requests /\ NoSlug \notin Slugs
  /\ NoComment \notin [slug : Slugs, status : {"visible", "hidden"}]

VARIABLES comments, audit, seq, advisory, rowLock, pc, tx, outcome

Store == INSTANCE CommentStore WITH EnvRows <- Row

commentVars == <<comments, audit, seq, advisory, rowLock, pc, tx, outcome>>
systemVars == <<vars, commentVars>>

SystemInit == Init /\ Store!Init

Serve(p) == Store!Serve(p) /\ UNCHANGED syncVars
Request(p) == Store!RequestStep(p) /\ UNCHANGED syncVars
Work(j) == Advance(j) /\ UNCHANGED commentVars
Job(j) == JobStep(j) /\ UNCHANGED commentVars

SystemNext == (\E p \in Requests : Request(p)) \/ (\E j \in Jobs : Job(j))

SystemSpec == SystemInit /\ [][SystemNext]_systemVars

(* Whoever waits for a connection, an advisory lock or a row is woken      *)
(* whenever it becomes free, and does not lose the race for it for ever.   *)
(* The pool and advisory locks are first come, first served; readers of a  *)
(* row may overtake the job that waits to write it, so for jobs this is an *)
(* assumption about the load: comments on one post pause now and then.     *)
(* Nothing makes clients arrive, fail or give up, or jobs start.           *)
FairSpec ==
  /\ SystemSpec
  /\ \A p \in Requests : SF_systemVars(Serve(p))
  /\ \A j \in Jobs : SF_systemVars(Work(j))
-----------------------------------------------------------------------------
(* The jobs do to the registry only what CommentStore assumes of them, so  *)
(* what holds of CommentStore holds here.                                  *)
ImplementsStore == Store!Spec

(* The requests do to the registry only what ContentSync assumes of them:  *)
(* they take and give up shared locks of rows nobody is writing, and its   *)
(* syncs are atomic beside real requests, too.                             *)
ImplementsSync == Spec

(* Every request is answered and its transaction ends, with one connection *)
(* for all of them: no request waits for a second one while it holds one,  *)
(* and no job and request wait for each other.                             *)
RequestsComplete == \A p \in Requests : pc[p] # "idle" ~> pc[p] = "idle"

(* Every sync ends, although each of its rows may be held by comments.     *)
SyncsComplete == \A j \in Jobs : jpc[j] # "idle" ~> jpc[j] = "idle"
=============================================================================
