# portfolio-backend in TLA+

TLA+ models of the API and the jobs of this repository, checked with TLC on
small instances and proved with TLAPS where that is marked. Line references are
to the repository at the commit this directory sits beside; `PROJECT.json` maps
every definition to its lines.

## The system

| component | state | operations | interacts with |
|---|---|---|---|
| content registry (`internal/content`) | `content_items` in PostgreSQL | `ContentState`, `SyncSnapshot` | read by every public feature, written by sync jobs only |
| comments (`internal/comments`) | `comments`, `admin_audit_events` | create, list, hide, unhide, list for moderation | registry policy; advisory lock per post; shared pool |
| reactions (`internal/reactions`) | `post_likes`, `post_view_visitors`, `post_stats` | like, unlike, record view, stats | registry policy, no transaction around it |
| rate limiters (`internal/platform/ratelimit`) | table of visitor windows behind a mutex, one per feature | `Allow` | called by the HTTP handlers before the service |
| admin access (`internal/adminauth`, `middleware/access.go`) | cached signing keys behind a mutex | `Key`, `Verify` | identity provider over HTTP |
| migrations (`internal/platform/migrate`) | `schema_migrations` | `Up` | advisory lock between runners |
| sync-content (`cmd/synccontent`) | none of its own | read manifest, sync | registry, beside the running API |
| API process (`internal/app`) | server, pool | serve, drain, stop | everything |
| configuration (`internal/config`) | none | `LoadAPI`, `godotenv.Load` | read once, by `main` |
| edges (`internal/httpapi`, `middleware`, `visitor`) | none | client address, decoding, visitor hash, error mapping | limiter, then service |

What is hard here: handlers run concurrently on one bounded connection pool;
PostgreSQL runs their statements at READ COMMITTED; deadlines and vanished
clients cut a transaction anywhere, a lost reply to COMMIT leaves its outcome
open; sync jobs change the policy under running requests; slugs can share an
advisory lock key, since the key is `hashtext(slug)`.

What makes each part correct:

* comments: the cap per post is never exceeded; a comment appears only under a
  policy that allows it; status and audit trail never part; a request takes
  effect once or not at all, and the answer is true; nobody blocks for ever;
* lists: a reader that follows the cursor sees no comment twice and misses none,
  whatever is written meanwhile, and nothing of a post that is closed;
* registry: a manifest that says everything is applied as a whole by its owner,
  jobs serialize;
* reactions: a visitor likes a post at most once, a view counts at most once per
  window, totals equal the rows they stand for;
* limiter: bounded table, bounded allowance, active visitors never evicted, no
  denial without a reason;
* edge: a client has one allowance, its own, whatever it writes into headers, and
  spends it on what reaches the service only;
* access: only a token signed by a key the provider has published recently, and
  in force when it is accepted, gets through; a broken provider fails closed;
* migrations: each version once, in order, as a whole, also with two runners;
* process: it runs with settings that fit together or not at all; what was
  accepted is drained before the pool closes.

## The modules

`Registry` is the `content_items` table with the row locks both sides use. It
holds the one thing the API relies on about the jobs, `RegistryStep`.

`CommentStore` extends it with comment creation and moderation. A request is a
process with a program counter: `Check` is the policy query of
`Service.Create`; `Begin`, `Lock`, `Policy`, `Count`, `Insert`, `Commit` are the
statements of `CreateVisibleIfUnderLimit`; `Begin`, `Find`, `Lock`, `Reread`,
`Count`, `Update`, `Audit`, `Commit` those of `SetVisibility`. A row written by
an open transaction is invisible until the commit, so the writes take effect in
`Apply`. `Abandon` is the deadline, the vanished client or a failed statement at
any point; it leaves an orphaned backend transaction that still holds its locks
until `OrphanEnds`, where a COMMIT that had been sent may still win. The pool is
counted in `PoolFree`. Which body or author is valid is a choice of `Check`.

`CommentBoard` is what the clients are promised: every request is one atomic
operation, and `CommentStore` implements it (`ImplementsBoard`).

`CommentLists` is a reader that walks one of the two lists by its cursor, beside
the steps of that board. `Check` is the checks of parameters and policy, a
statement of their own; `Answer` is the query of one page together with
`next_before_id` and the reader's next request. A page is a set of ids, since
the query orders it. `steady`, `known` and `barred` are history variables: what has
been in the list all the time, what there was when the first page was made, and
whether the post has been closed ever since the request was sent. There is one
reader and one walk, because readers write nothing and never meet.

`ContentSync` extends `Registry` with the sync jobs: `ReadManifest` is what is
refused before the transaction, from files that do not decode over items that
leave `comments_enabled` out to empty and contradictory snapshots; then the
statements of `SyncSnapshot`. `AtomicRegistry` is their abstract specification
(`ImplementsRegistry`). What comment transactions do to the rows' locks is
`ShareStep`.

`Interactions` puts the requests and the jobs on one database. It extends
`ContentSync` and takes an instance of `CommentStore`, each with its assumption
about the other: `CommentStore` lets rows change by `RegistryStep`, `ContentSync`
lets shared locks come and go by `ShareStep`. That neither does more is
`ImplementsStore` and `ImplementsSync`, so that what holds of each module holds of
both together.

`RateLimiter` is `AssignmentLimiter`. The mutex makes `Allow` one action, but a
handler reads the clock before it calls (`Call`), so `waiting` holds calls whose
time is up to `MaxDelay` ticks old when they get the mutex, in any order.
`AllowKnown` are the branches for a visitor in the table, `AllowNew` those for a
new one with the sweep of expired entries. `admitted` is a history variable.

`PublicEdge` is the way of a public write to its limiter: `Resolve` finds the
client in the chain of proxies, `Hash` makes a visitor of address and user agent,
`Decode` reads the body of a comment, `AskLimiter` is the limiter of the feature
within one window, `Serve` the service. Clients write into the header what they
like, proxies append whom they were called by, and IPv4 addresses come in two
forms. `Origin` says, from the way the request has really taken, whom it is to be
charged to; `used` and `served` are history variables that count by sender and by
hash. `ImplementsLimiters` joins it to `RateLimiter`: each feature has one, whose
clock stands still (`Entries`, `Asking` and `Admissions` are its table, its calls and
its history).

`Likes` and `Views` extend `Registry` with the reactions. Their statements are
transactions of their own, so a request has `Check` on one connection, `Begin`
on another, and then parts of one statement: the row it has to wait for, what
it finds there, its commit. `Insert` is `ON CONFLICT DO NOTHING`, which waits
for an uncommitted row of the same key; `Scan` and `Delete` are the snapshot
lookup of a DELETE and its wait for the row it found. `TakeVisitor` and
`TakeTotal` are the two writes of the CTE of `RecordView`. Here `Abandon` frees
the connection of the client and lets the statement run on in the server, until
it commits, or `Rollback` ends it. `seen` and `counted` are history variables.
Times in `Views` are any time: API replicas have clocks of their own.

`Migrations` are the runs of `cmd/migrate`. `Start` is `Load` on the directory of
one image; `Lock`, `Read`, `Run`, `Record`, `SendCommit` and `Commit` are the
statements of `Up`, in one transaction that every way out ends (`End`). A file
is its version, name and SQL, for which its checksum stands. Runners of
different images work on one database, fail, and are killed; `Abandon` leaves
the server process with its lock, or with a COMMIT on its way, until
`OrphanEnds`. `schema` is a history variable: what has been done to the schema
and committed. `SchemaHistory` is the promise: the schema is always one whole
release, and only a release that continues it replaces it.

`AccessKeys` is the verification of an administrator's assertion. `Key` takes the
mutex of the key cache and finds a fresh key, or starts a fetch with the mutex
held; `Store` and `FetchFails` are the two ends of `refresh`, and `Answer` is the
moment at which the provider read its keys, so that an answer can be old when it
arrives. `Verify` comes after that: an assertion is sound or not (signature,
type, issuer, audience, subject, email), and its times are compared with the
clock as it is then. `documents` is the provider's history, the reference for
what a request was told. An idle request and one that was told its key is
unknown are both answered 401; they are kept apart for `UnknownIsTrue`.

`Configuration` is what `LoadAPI` makes of the environment and the .env file, one
setting at a time, with the fallbacks, limits and comparisons of `config.go`; `Environs`
is what an environment can hold.
`Lifecycle` extends it: `main`, `Run` and `serve` on the main goroutine (`Main`), the
goroutine in `server.Serve`, connections with their handlers, and the pool, whose
size is a setting. A handler acquires and releases connections as often as it
likes. What `Shutdown` and `Close` of `net/http` do to connections is external.

The definitions that a comment calls "Mutant" are variants of the one below them
with a plausible bug. No specification uses them; `PROJECT.json` names the run and
the property that notices each.

## The runs

| run | specification | bounds | checks |
|---|---|---|---|
| `comment_store` | `CommentStore` | 2 requests, 2 posts on one lock key, cap 1, 2 ids, 2 events per comment, 2 connections, any policy change between two rows | `VisibleCap`, `AuditExplainsStatus`, `PolicyAtCommit`, `ImplementsBoard` |
| `content_sync` | `ContentSync` | 3 jobs of 2 sources that both claim one of 3 slugs, 4 valid manifests, 4 files to refuse, 1 comment transaction | `SnapshotInForce`, `ImplementsRegistry` |
| `interactions` | `Interactions`, fair | 2 requests on 1 connection, 1 job with 1 manifest that closes a post, 2 posts, 1 id | `ImplementsStore`, `ImplementsSync`, `RequestsComplete`, `SyncsComplete` |
| `comment_lists` | `CommentLists`, fair | 3 ids, 2 posts, default and maximum page size 2, limits 0 (none) to 3 | `PagesDescend`, `NoneMissed`, `NothingNewer`, `PagesNeedPolicy`, `WalkEnds` |
| `likes` | `Likes`, fair | 3 requests of one visitor on one post, 2 connections | `DesiredStateReached`, `LikesComplete` |
| `views` | `Views`, fair | 2 requests, 2 visitors, times 0..2, window 2, 2 connections | `ViewsAddUp`, `RollingWindow`, `KnownForAReason`, `ViewsComplete` |
| `rate_limiter` | `RateLimiter` | 3 visitors for 2 places, 2 handlers, allowance 2, window 3, delay 1, 6 ticks | `Bounded`, `TwiceTheAllowance`, `DenialJustified` |
| `public_edge` | `PublicEdge` | 2 clients, 2 proxies of which any are trusted, 3 routes, 5 headers, 2 features, allowance 1, 2 places, 2 handlers | `OneAllowance`, `SpentOnService`, `DenialDeserved`, `ImplementsLimiters` |
| `migrations` | `Migrations`, fair | 3 runners, an older image, a newer one, one with two files rewritten, one with a gap | `RecordTrue`, `CurrentIsTrue`, `ImplementsHistory`, `UpCompletes` |
| `access_keys` | `AccessKeys`, fair | 2 requests, 2 key ids, 3 assertions, 2 documents, 5 ticks, TTL 2, timeout 1, skew 1 | `GroundsAreRecent`, `UnknownIsTrue`, `NoStepBack`, `AccessCompletes` |
| `lifecycle` | `Lifecycle`, fair | 3 connections of clients, pools of 1, 2 and 5, an environment at all limits, an empty one and each setting moved off its limit, 3 .env files | `SettingsSuit`, `NilMeansAnswered`, `PoolOutlivesClients`, `SignalStops` |
| `pool_after_draining` | `Lifecycle` | 1 connection, default settings | that `PoolClosedAfterDraining` does not hold |

What each shows is the comment of the property; in short:

* `comment_store`: however two requests overlap, fail or lose the reply to their
  COMMIT while the policy changes, the cap holds, status and audit trail agree,
  a comment appears only under an open policy, and each request is one atomic
  operation that happens once or not at all.
* `content_sync`: a change of the committed rows is always one valid manifest,
  applied as a whole to the rows before it by the source that owns them.
* `interactions`: the two modules may be read separately, and with a single
  connection neither a request nor a job waits for ever.
* `comment_lists`: following `next_before_id` is sound while the list changes.
  Ids of one post commit in their order, because they are drawn under its
  advisory lock; without that `NothingNewer` fails.
* `likes`, `views`: what is answered was true at some moment of the request, and
  totals and windows survive statements that outlive their clients.
* `rate_limiter`, `public_edge`: how often one visitor gets in, and who the
  visitor is. `Full` admits a denial when the table has no room, as the code does.
  What the edge asks is the limiter of the other run.
* `migrations`, `access_keys`, `lifecycle`: each of them stays safe when a step fails
  and comes to its end.

`pool_after_draining` is the one run that is expected to fail. `docs/security.md`
line 8 says that the pool is closed only after HTTP draining. After a signal it
is: `serve` calls `Shutdown`, which waits for handlers until its timeout. When
`server.Serve` itself fails, `serve` returns without `Shutdown` (`app.go` 157-162)
and the deferred `pool.Close` of `Run` goes ahead while handlers run. The property
already excuses a drain that timed out. `PoolOutlivesClients` says what is left:
nothing but a failure of Serve takes the pool away from a waiting client; and the
theorem `ClosedEarly` that there is no third way to close it beside handlers.

Why these bounds are enough for the cases that matter: two requests are the
smallest number that can overfill a post, queue on a lock and lose a race; with
a cap of 1 the second one is already too many; two ids let a hidden comment come
back while another has taken its room; two events are a hide and the unhide
after it. A third like is needed for the row that is deleted and put back while
a delete waits for it; the third sync job for an overlap in which two sources
and two manifests of one source meet. The window of 3 ticks with 6 ticks of
time holds a window, the one after it and a late call. Three ids are two pages of
one and of two, with a full last page and one that is not, and a comment that
comes between them. Two key documents with their times are enough for a key that is withdrawn, one
that is new, and answers that overtake each other, and one assertion each that
is too old, too young, and unsound for what may be wrong with it; three runners
for one that commits, one that has waited and one of another release. With three
connections of clients one can be idle, one be answered and one hold the pool.
Two proxies are one that is trusted behind one that is not, and the reverse; a
header of two entries can name a client behind a proxy that never saw it. In
`interactions` one id and one event suffice, since the question is about locks
and rows: both posts of the manifest are shared and written, in opposite order.
The proofs remove these bounds for all of the safety properties, so an allowance of 1
at the edge, where TLC has many headers to try, costs nothing.

Bounded by guards: `MaxEvents` (moderations of one comment), `MaxTime` and
`MaxDocuments` (what the provider publishes). The identity sequence ends at
`MaxComments` as the real one ends at 2^63 - 1: the insert fails; in
`CommentLists` it bounds the comments there are. Symmetry is used for requests,
visitors and posts, and only in runs without liveness.

The type invariants are theorems, and no run spends its time on them. Three say
more than types: no entry of a limiter and no visitor of the edge counts past the
allowance (`LimiterTypeCorrect`, `EdgeTypeCorrect`), and no more connections are in use
than the pool has (`ProcessTypeCorrect`).

No run but those of `Lifecycle`, where the process ends, stops: each checks for
deadlock, so no reachable state leaves everyone waiting for someone else. In the
models with clients it holds trivially while a client may still go away, which
is why completion is checked under fairness that does not count on it.

## Fairness

The liveness runs assume strong fairness of what the server does for a request
(`Serve`) and of a job's statements (`Work`), and nothing of arrivals,
clients that leave, failures or orphaned transactions. Strong, because a
statement waiting for a connection or a lock is enabled again and again, not
always: pgxpool hands connections out first come first served and PostgreSQL
queues for advisory locks and exclusive row locks. Share locks of
`content_items` rows may overtake a waiting UPDATE, so that a sync job gets its
row in the end is an assumption about the load, and `SyncsComplete` says what
holds under it. The deadlines of handlers would end most waits anyway; the
runs do not need them.

`CommentLists`: weak fairness of the server's answer and the reader's next
request (`Walk`), no more; writers may be as fast as they like.
`Migrations`: strong fairness of each runner's statements, lock included;
PostgreSQL queues for advisory locks, and a runner that was killed gives its
lock up when its server process ends (`OrphanEnds` belongs to `Advance`).
Nothing makes a runner start or fail. `AccessKeys`: strong fairness of `Serve`, in
which `FetchFails` is the end of a fetch the provider never answers: the
HTTP client has a timeout of 3 s. The provider owes nothing (`Answer`, `Rotate`).
Go's mutex hands over to a goroutine that has waited for a millisecond.
`Lifecycle`: weak fairness of the main goroutine, of the one in Serve, and of
`Release`, since every use of a connection has a deadline. Handlers need not
end.

## What is proved

The theorems hold for every value of the constants that satisfies the named
assumptions next to them: limits and windows are positive (`config.go`
refuses anything else), null values differ from the values they stand beside,
`Hash` is any function of the posts.

* `CommentStoreProofs`: `TypeCorrect`, `CapHolds`, `AuditHolds`, `PolicyHolds`,
  `BoardImplemented`. Neither the cap
  nor the audit trail is inductive: a request that is about to commit would
  break them from a state that cannot occur. `IInv` adds what each request
  knows at its statement: which operation can be there (`OpInv`); from `Lock` on
  it holds the lock key of its post (`LockInv`); the post a moderation locked is
  still that of its comment (`TargetInv`), and the state it decided on is still
  the committed one (`DecidedInv`); the room it counted is still there
  (`RoomInv`); the id it drew is unused (`FreshInv`, `IdsDrawn`, `IdsDistinct`).
  The argument is that of the advisory lock: two requests with knowledge about
  one post would hold the same key, and only the holder of the key commits
  anything there. An orphaned transaction with a COMMIT on its way keeps its
  locks, so it counts as one of them. `CommitInv` goes on to what a commit may
  count on: from `Policy` on a creation shares the row, which nobody may write,
  so the post is still open (`PolicyInv`); what a moderation read is still so
  (`ReadInv`); the id is newer than all of the post (`NewestInv`). From it
  `PolicyHolds` follows, and `BoardImplemented`: the commit is the atomic
  operation, the statements before it stutter.
* `CommentListsProofs`: `ListsTypeCorrect`, `PagesGoDown`, `ReaderMissesNone`,
  `NothingNewListed`, `ClosedPostsListNothing`. The invariant says where the cursor
  is: not above anything listed (`CursorInv`); what has been in the list all the
  time is listed or still below it (`SteadyInv`); below it a public list has nothing
  that was not there at the first page (`KnownInv`). `BoardIsBoard` joins it to the
  rest: what `CommentBoard` does to posts and comments is a step of the board
  beside the reader, so with `BoardImplemented` the lists are walked beside all
  that `CommentStore` does.
* `InteractionsProofs`: of `ContentSync` alone `SyncTypeCorrect`,
  `RegistryImplemented` and `SnapshotHolds`. `SyncInv` says of each job that its
  transaction sees the items it has done as the manifest has them, and of other
  rows only the archived ones changed (`StageInv`), and that it holds what it has
  written and, past its lock, the lock (`JobInv`); so its commit is one `Apply` of
  `AtomicRegistry`. Then of both together `StoreImplemented` and `SyncImplemented`:
  a step of a job is one that `CommentStore` allows, a step of a request one that
  `ContentSync` allows. For the latter the requests' types are needed (`AskInv`).
  The two refinements are put to use: `CommentsSafe` says of requests and jobs
  together that the cap, the audit trail, the policy at the commit and the atomic
  requests hold, `SyncsSafe` that syncs are atomic and in force. `CommentsSafe` instantiates
  `CommentStoreProofs` with the rows a sync may write, and with it the assumptions
  of that module (`StoreAssumption`); the `Same...` lemmas say that its instance
  of `CommentStore` and the one in `Interactions` are the same specification.
* `ProcessProofs`, what the process is apart from its database.
  Of `RateLimiter`: `LimiterTypeCorrect`, `TableBounded`,
  `DenialsJustified`, `AllowanceHolds`. The invariant relates each entry to the
  history: an entry of a visitor with `count` n means that its last n admissions
  are not older than the entry's window (`EntryTrue`), and calls carry times of
  the past (`CallsInThePast`). With it a denial can be traced to admissions. For
  the allowance `SpanInv` adds the other direction: the admissions before those of
  the entry are a window, less the delay of a handler, before the ones that are
  an allowance later, also when the entry was swept and made anew.
  Of `PublicEdge`: `EdgeTypeCorrect`, `AllowanceOfOne`, `ChargedOnce`, `DenialsDeserved`,
  `LimitersImplemented`. The heart is the lemma `Resolved`, about `Resolve` alone: for
  every route and header the address found is that of `Origin`, in its plain form.
  Its cases are a peer that is not trusted, a header with garbage, a chain that
  ends beyond the trusted proxies in the part the proxies appended, and one that
  does not, which a client cannot write: it would have to be a trusted proxy.
  So a call carries the hash of its sender (`CallTrue`), hashes of senders differ
  (`SeenApart`), and the limiter's count of the hash is the history's count of the
  sender (`EInv`), which `OneAllowance` and `DenialDeserved` need.
  Of `Lifecycle`: `ProcessTypeCorrect`, `SettingsHold`, `CleanExitAnswered`, `PoolHolds`,
  `ClosedEarly`. `Stages` says for each stage of the main goroutine where the
  goroutine in Serve, the pool and the outcome are; `ConnectionTrue` what is left of a
  connection there: nobody is connected before Serve runs, who waits has a
  handler, a drain that came to its end leaves nobody, any other ending cuts.
  `SettingsHold` is about the configuration only (`NumberLoaded`, `LoadedSuits`) once
  `Loaded` says that nobody gets past `load` without it.
* `LikesProofs`: `LikesTypeCorrect`, `LikesTruthful`. The invariant says that the
  committed state of the row is among the states a request has seen since it
  arrived (`SeenInv`) and that only a request at its commit holds a row, whose
  state is still the opposite of what it wants (`TakenInv`).
* `ViewsProofs`: `ViewsTypeCorrect`, `TotalsAddUp`, `WindowRolls`,
  `KnownJustified`. A request that waits for the total holds its visitor's row
  and its view is still due (`VisitorInv`); at its commit it also holds the
  total and has read the current one (`TotalInv`). For the history: the row of a
  visitor is the last of its counted views and no other is later (`NoneLater`,
  `Remembered`), from which two of them are a window apart (`Apart`).
* `MigrationsProofs`: `MigrationsTypeCorrect`, `RecordHolds`, `CurrentHolds`,
  `HistoryImplemented`. The invariant `MInv` says that the record is true
  (`RecordTrue`), that the schema is a whole release (`WholeRelease`), and of each
  runner: what it loaded is a release; with a transaction open past the lock it
  holds the lock, and the rows it read are still the recorded ones; what
  it has run is the next part of its release, and what it has inserted are the
  rows of that. So a commit appends to the schema exactly what its release has
  after it. `HistoryImplemented` is the refinement: `Apply` is one `Migrate`,
  everything else stutters.
* `AccessKeysProofs`: `AccessKeysTypeCorrect`, `GroundsHold`, `UnknownHolds`,
  `NeverStepsBack`. `AInv` says that the mutex is held exactly for a fetch
  (`MutexInv`), that a fetch is not older than the timeout, and that the document
  in its answer was in force when it started or later, and is not older than the
  request and the cache (`FetchInv`); the cached one was in force a timeout
  before it was stored (`CacheInv`). A document in force at a time stays so
  when the provider publishes another (`InForce`). That an assertion is in
  force needs no more than that `Verify` looks at the clock itself, after the wait.

Every safety property the runs check is a theorem. Only model-checked are the
liveness properties: liveness under fairness, ENABLED and
induction over data are beyond the prover as it is set up here.

## What is not modelled

* Bodies, author names, times and ids as data: validation of a comment is a
  choice of `Check`, decoding one of `Decode`. Malformed slugs are turned away before
  anything is read or written. A honeypot comment is answered 204 and a real one
  201, although the comment at `comments.go` line 113 speaks of an
  indistinguishable success response; both are just "not the service" here.
* The early return of `Allow` for limits that are not positive:
  `envPositiveInt` (`config.go`) makes it unreachable. The manifest's `revision`, which
  is logged and never compared, so a late job of an older manifest wins; the
  grammar of JSON, URLs, prefixes and durations: a text parses or does not.
* `Stats` reads one snapshot and keeps nothing.
* Likes and views in `Interactions`: they share the pool with comments and nothing
  else, and their runs have pools of their own. `PublicEdge` stops where the services
  begin and has no time: it is a window of `RateLimiter`.
* The decoding of an assertion and the cryptography: `sound` stands for both.
  Malformed assertions never reach the cache. Nothing bounds how often unknown key
  ids make the cache fetch, and no property says so.
* Migration SQL: a migration either has its effect or fails its transaction.
* A second API process: comment requests of two processes differ from those of
  one only in that they have two pools; the locks are the same. For `Views` the
  clocks are already independent; limiters are per process in the code, too.
* Recovery middleware, request log, routing, the health check, the smoke client
  and the test utilities: they keep no state.

## Plan

Done, in this order: comments and the policy they depend on, where several actors
share state; the sync jobs and both on one database; limiter, reactions,
migrations, key cache and lifecycle; then the lists, the edge, the settings,
assertions and manifest files, and the refinements in both directions.

Left, if the code grows towards it:

1. Likes and views beside comments on one pool, should a handler ever hold one
   connection while it waits for another.
2. Time at the edge, so that `PublicEdge` implements `RateLimiter` over many windows.
