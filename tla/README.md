# Blueprint Audio backend: specifications, model checking and proofs

TLA+ modules for the parts of this backend whose correctness depends on the
order of things: concurrent requests, workers that crash and are replaced,
clients that re-send, transactions that commit without telling anyone. Pure
request decoding, reporting SQL and presentation are left out.

## 1. The system

A Go service with two processes: `cmd/server` (HTTP API and, when configured,
an in-process worker) and `cmd/worker` (media worker only). They share one
PostgreSQL database and one S3-compatible bucket; Redis holds only a response
cache. Payment providers (Razorpay, Dodo) and the mail provider are external.
There is no message broker: every interaction between components is a row, an
object in the bucket, or a call to a provider.

| Component | State | Operations that change it | Talks to | What is hard |
|---|---|---|---|---|
| Upload service `catalog/application/upload_service.go` | none of its own: rows read at the start of a request and used until its end | Initiate, SaveMetadata, PrepareFile, ConfirmFile, Complete, Status | upload repository, bucket | stale reads across several calls, concurrent Completes, deadline passing in the middle of a request or of a transaction, late responses |
| Upload repository `upload_repo.go`, migration 36 | sessions, assets, specs, jobs | one statement or transaction per method | PostgreSQL | row locks, a check and a commit apart, fencing, sweeps that meet requests |
| Media worker `worker.go`, `processor.go` | what a worker holds in memory; leases on job rows | claim, heartbeat, process, settle, cleanup, notify, two sweeps | repository, bucket, notifications | lost leases, ambiguous commits, crash at any point, overwriting clients |
| Object storage `filestorage` | staged and final objects | presigned PUT, stat, conditional copy, delete | bucket (external) | PUT at any time while a URL is valid |
| Payments `payment` | orders, payments, licenses | CreateOrder, VerifyPayment, HandleDodoWebhook, downloads | Razorpay, Dodo, catalog, mail | three writes without a transaction, webhooks delivered more than once |
| Authentication `auth` | users, sessions, mailed codes | Register, VerifyEmail, Resend, Login, Refresh, Logout, ForgotPassword, ResetPassword | mail | codes racing each other, revocation against login |
| Administration `admin` | system roles and status of users, moderation of specs, audit log | role and status updates, spec moderation | auth (the role is in the token) | check-then-act on the last super admin, a role that outlives its row in a token, an audit row written apart from the change |
| Catalog specs `catalog/application/service.go`, `spec_repo.go`, `handler.go` | specs, files, response cache | get, update, delete, listings | Redis, bucket, payments | invalidation against a cache fill started earlier, delete against purchase, whole-row writes from an earlier read |
| License options `spec_repo.go` | license_options | the upsert-and-drop part of an update | payments | a sale between two statements, matching by id or by type, soft-deleted rows |
| Home page rankings `service.go`, `spec_repo.go` | ranking rows, an advisory lock | recalculation by whoever finds a section stale | - | a lock that must end with its transaction, readers at any time |
| WAV check `processor.go`, waveform `waveform.go` | counts and a summary in memory | one per file | media worker | sizes at a boundary, reads that end inside a frame, repeated merging |
| Analytics `analytics` | counters, events, favorites | TrackPlay, TrackFreeDownload, ToggleFavorite, keyset paging | catalog | read-then-write toggles, pages of a list that changes |
| Notifications `notification` | notification rows, websocket clients | create, mark read; hub register, unregister, unicast, stop | - | channels closed by two parties, full buffers, senders that meet a hub that has stopped |
| Rate limiter `gateway/middleware/rate_limit.go` | windows by address | Allow, cleanup loop | - | window boundaries, cleanup racing requests |
| Users, the rest of the gateway, shared, migrations, tools | profile rows | single-row updates | - | little |

What makes each correct, beyond types:

- uploads: an acknowledged upload is durable; what is accepted was verified;
  what is published is exactly what was verified and stays so; every accepted
  upload is settled, once, by the worker holding it; the producer hears at most
  once and the right thing; an upload reported expired stays expired, unless a
  transaction that checked in time is about to commit (section 6);
- payments: no license without a captured payment, one license per provider
  payment, no paid order without a payment, money taken leads to a license;
- authentication: one usable code per user and purpose, each used at most once,
  no session that exists when a reset ends goes on under an old password;
- administration: a super admin remains; every change is in the log; who is
  demoted loses access;
- catalog: what was bought stays; the row names files that exist; a stale
  cached response dies out; a sold option stays and what is listed is offered;
  a ranking section is one calculation; a client that follows the pages sees
  the listing;
- media checks: the WAV check accepts exactly the well-formed files; the bars
  show every frame, in order, and merging never skews them;
- favorites: counters equal rows; a walk through the pages misses nothing;
- hub: a channel is closed once and never written after; what is pushed is
  stored; what is stored is pushed; no connection outlives its client;
- rate limiter: no burst above two windows' worth, nobody refused early.

## 2. Modules

| Module | Models | Notes |
|---|---|---|
| `UploadLifecycle` | what the pipeline promises, without mechanism | abstract specification |
| `UploadState` | the rows and objects an upload shares, and what must hold of them | variables and properties only |
| `UploadContract` | what a client of the upload API may rely on | adds the request slots to `UploadState` |
| `UploadStore` | the four tables of migration 36, `upload_repo.go`, the bucket | one operator per repository method: its WHERE clause is the guard, its SET list the update |
| `UploadService` | `upload_service.go` | a request is a slot (`req[r]`) holding what the handler has read; one action between two database or bucket calls |
| `UploadWorker` | `worker.go`, `processor.go` | `pc[w]` walks through ProcessNext and process; the heartbeat goroutine is `beat[w]` and interleaves with it |
| `UploadPipeline` | service and workers over the same rows | composition |
| `Waveform` | `waveform.go` | one action per read, per frame and for the end |
| `WavWalk` | validateWAV in `processor.go` | one action for the header, per chunk, and for the end |
| `Payments` | `payment/application/service.go`, its repositories, migration 6 | a request is a slot; each SQL statement and provider call is a step of its own |
| `Accounts` | `auth/application/auth_service.go`, its repositories, migrations 23 and 26 | a request is a slot; one action per SQL statement or mail |
| `Administration` | `admin/interfaces/http/handler.go`, `auth.go`, `rbac.go` | a request is a slot; the token is separate from the row |
| `RateLimiter` | `gateway/middleware/rate_limit.go` | one action per critical section |
| `Catalog` | Get, Update and Delete of `catalog/interfaces/http/handler.go` with the statements of `spec_repo.go` | a request, or the goroutine it leaves behind, is a slot |
| `LicenseOptions` | the option part of `PgSpecRepository.Update` | the open transaction is `tx`; its statements are steps |
| `Rankings` | GetHome and the ranking statements | one section; a request is a slot |
| `CatalogListing` | the two listings and the page sizes of handler and service | a client's walk is the state |
| `Favorites` | `analytics/application/service.go`, `pg_analytics_repo.go` | toggles are slots; a client's walk through the pages |
| `NotificationHub` | `notification_service.go`, `hub.go`, `client.go` | one action per select branch and per pump step |
| `Catalogue` | `Catalog` and, as instances beside it, `LicenseOptions`, `Rankings`, `Waveform`, `WavWalk` | the properties of all five under one name each, for the run and for the proofs |
| `People` | `Accounts` and, as instances beside it, `Administration`, `RateLimiter` | likewise |
| `Shop` | `Payments` and, as instances beside it, `CatalogListing`, `Favorites`, `NotificationHub` | likewise |
| `UploadWorkerProofs`, `UploadPipelineProofs`, `PaymentsProofs`, `AccountsProofs`, `CatalogProofs` | theorems about the module each is named after | checked by TLAPS |
| `CatalogueProofs`, `PeopleProofs`, `ShopProofs` | theorems about the instances of `Catalogue`, `People` and `Shop` | checked by TLAPS |
| `MCUploadWorker`, `MCUploadPipeline`, `MCUploadStale`, `MCPeople`, `MCShop`, `MCCatalog`, `MCEventually` | instances for TLC | constants, symmetry, the choice of a part |

### State and code

- `session[u]`, `assets[u][k]`, `spec[u]`, `job[u]` are the rows of
  `spec_upload_sessions`, `spec_upload_assets`, `specs` (its
  `processing_status`) and `spec_processing_jobs`. Asset kinds are the numbers
  `1..NumKinds` in the order process() handles them, `Image` the cover. A
  re-selected file is the next *attempt*, which is how the code gives each its
  own staging key.
- `overdue[u]` stands for `expires_at <= NOW()`; `job[u].lease` is `fresh` or
  `stale` for `locked_at` against the lease. Time is otherwise absent: anything
  that depends on a clock may happen at any moment.
- A content is a model value and its ETag is the content itself.
  `Acceptable` contents pass verifyUploadedObject (declared size and type),
  `Playable` ones pass the worker's decoding. `staged`, `final` and `cover` are
  the objects at the staging keys, at the final keys and at `images/<spec>.jpg`;
  `issued` the PUT URLs a client has been given, which stay usable.
- A statement is one step, a bucket call is one step, and everything else may
  happen in between. The transactions of ReplaceAsset and FinalizeUpload are two
  steps: the check of status and deadline once the session's row is locked
  (`PrepareFile`, `CompleteLock`), and what is committed (`PrepareCommit`,
  `CompleteFinalize`) or rolled back (`CompleteRollback`). In between a request
  holds the row (`Locked`): other writers of it wait, the expiry sweep too
  (`LocksKept`), but neither the clock nor readers such as Status do. A request
  that dies gives the lock back. The other transactions find with one
  conditional statement what they then write, and are one step.
- `VerifyAsset` is two steps: it joins the session without locking it, so its
  snapshot and its update of the asset are separate. GetSession is two SELECTs
  without a transaction, and two steps in Complete.
- A worker or request can die between any two steps (`Crash`, `RequestDies`),
  forgetting everything in memory. A commit may be reported as an error
  (`SettleAmbiguous`). Deletes and notifications may fail silently, as the
  code ignores their errors.

Payments:

- `order[o]`, `payment[p]`, `licenses[p]` are rows; payments are keyed by the
  provider's id, whose column is UNIQUE. `charge[p]` is the truth at the
  provider: which order a payment is for and whether it was captured. Each
  order has a license option of its own, `option[o]`.
- VerifyPayment and HandleDodoWebhook judge the order they read and then write
  payment, status and license one after the other; `req[r].at` is the next
  write. Other requests, and `RequestDies`, may come between. `UpdateStatus`
  has no condition, so a status can be overwritten by a request that read an
  older one: paid can become failed.
- A caller may send any order, any payment id and a signature that is its own
  or made up. A signature that checks out was made by Razorpay for that pair;
  webhooks come from Dodo. `late[o]` stands for `expires_at`.

Accounts:

- `account[u]`, `token[t]`, `session[s]` are rows. `expired` is the set of
  codes whose `expires_at` has passed; `mailed` the codes that reached the user.
  Several rows may hold the same digits: redeeming looks a row up by address,
  purpose and digits, as Consume does.
- Asking for a code is three steps (`Invalidate`, `CreateToken`, `Mail`);
  CreateToken fails on the unique index if an unconsumed row is there.
  Redeeming is one UPDATE; verifying the address, revoking the sessions and
  writing the password follow one by one. Login reads and compares first and
  opens the session later.
- `redeemed`, `chosen`, `made`, `first`, `under` and a reset's `seen` are
  history: how often a code was accepted and the password sent with it, how
  the account was made, the password a session was opened under, the sessions
  a reset found. No action is guarded by them (`made` also says whether the
  row exists).
- `UpdateStatus` is the administrator's: it may come at any time.

Administration: `user[u]` is the users row (role and status), `token[u]` the
access token a user holds. Login looks at the status, GoogleLogin does not.
Permissions are read from the token, as rbac.go does, and the role in it is
that of the moment it was made. Counting super admins, writing and the audit
row are separate steps of `req[r]`; `changed` and `logged` count what was
changed and what the log holds. Nothing checks the caller's status between a
token's making and its end, so `TokenAges` and `TokenEnds` are what takes
access away.

Catalog: `row` is the specs row, reduced to whether it is present, soft-deleted
and completed, to its cover and to a version that every update raises.
`ordered` and `licensed` say that some row refers to the spec by a RESTRICT
foreign key. `cache[c]` is the version a cached response in currency c shows.
`Publish` and `FailProcessing` stand for the upload pipeline. CreateOrder looks
at the spec and inserts the order later: `PlaceOrder` is the INSERT, which
needs the row only, because a row that was once completed stays so. A call of
the database, the bucket or Redis is a step and may fail at the price of a
fault; a commit may be reported as an error.

License options: `option[i]` are the rows as committed and `tx.rows` as the
open transaction sees them. The UPDATE of the specs row comes first and locks
it, so one transaction is open at a time. `Sell` inserts a license, whose
foreign key check waits for the transaction if that has deleted the option.
The module speaks of beats, the only specs with options.

Rankings: `table[s]` is the row of a spec in one (section, period), with the
number of the calculation that wrote it; `fresh` stands for the window of 15
minutes or an hour; `lock` is the advisory lock of a transaction. Scores are
arbitrary numbers that change at any time.

Listing: a spec's number is its creation time. `walk` is a client that asks for
page 1, follows the page count it is told and remembers what it was shown.

Favorites: `fav[u][s]` is the creation time of a row. A toggle reads, opens a
transaction, which fixes NOW(), and then writes. `clock` moves by readings, so
several rows may have one time. `walk` follows the cursors.

Hub: `clients`, `stop` and `running` are the hub's, `reader[c]` and `writer[c]`
the pumps of a connection, `send[c]` its buffered channel and `hand[c]` the
message the writer has taken from it. A send on an unbuffered channel is one
step with its receiver. `panicked` records a close of a closed channel or a
send on one; `pushed` and `since` are history, what the hub has taken and how
much of it when a connection was registered, which gives the messages due to it
(`Due`).

Waveform: bytes arrive in any number and possibly together with EOF or an
error. `pending` are the bytes of an incomplete frame, `chunk` the open and
`chunks` the closed chunks with count and sum of their frames.

WAV: `file` is fixed at the start: its length, the RIFF size in its header and
its chunks. `offset` counts the bytes taken from the reader, `remaining` is the
code's variable; `WellFormed` says what a file should be without either.

Rate limiter: `ipRequests` and `ipResets` are the maps behind the mutex;
`admitted` is history, the instants at which an address was let in.

The mutants (`PastLastKey`, `AnySnapshot`, ...) defined before some
operators are plausible mistakes in that code. They are not part of any
specification; they show that each property can fail.

## 3. What TLC checks

Components that share no state are checked side by side in one run: the MC
module holds the variables of all of them, chooses at the start which one moves
(`part`), and leaves the others in an initial state. The states of such a run
are the sum of those of its parts, every part is explored to the end, and a
property of a part that does not move says nothing in that branch. `MCPeople`,
`MCShop` and `MCCatalog` extend the modules the proofs are about (`People`,
`Shop`, `Catalogue`), so the runs evaluate the assumptions of the proofs too.

| Run | Instance | Shows |
|---|---|---|
| `upload_worker` | 1 upload, 2 kinds, 2 workers, 2 faults | what is published is whole; only the lease holder settles; refinement of `UploadLifecycle`; the inductive invariant, which contains that rows agree, final keys hold verified content and the notification tells the outcome; under fairness, every accepted upload is settled |
| `upload_pipeline`, part *race* | 1 upload, 1 kind, 2 attempts, 2 requests, 2 workers | acknowledged uploads are durable; a published spec serves an object of every kind, of the declared size and type, and a decoded cover; an expiry report is final once nobody holds the row |
| parts *assets* and *sweep* | 2 kinds, 2 attempts, 2 requests, without and with a worker | only verified, current assets are accepted; a late confirmation cannot confirm a replacement |
| `shop`, payments | 2 orders, 2 payments, 2 requests, both providers, 2 faults | only money captured for an order is booked on it; one license and receipt per payment; paid or acknowledged means a payment is there |
| listing | specs 1 to 3, 2 producers, prices 0 and 1, page sizes 1 and 2, every sort, 1 change during the walk | a client that follows the pages misses nothing unless a spec was removed meanwhile, and sees nothing twice unless one was published or repriced; equal sort keys are exempt |
| counters | 2 users, 1 spec, 2 toggles at a time | counters equal the rows they count |
| pages | 1 user, 3 specs, 2 per page, 2 instants | a walk returns no row twice and every row that stayed |
| hub | 2 users, 2 connections, 2 notes, buffers of 1, Stop, 1 failed insert | no channel is used after it was closed; what is pushed is stored; a stream has no gap |
| `catalog`, catalog | 3 requests of which 1 may update, 3 covers, 1 currency, 2 updates | what was bought stays; the row's cover exists |
| options | 4 ids, 3 types, lists of any order | a sold option stays; what was listed is offered |
| home | 3 specs, 2 requests, scores 0 and 1, 2 calculations, 1 fault | a section is one calculation; the lock is released |
| wav | files of up to 3 chunks of 0, 1, 16 or 17 bytes, one byte short to seven too long, right and wrong headers | the check accepts exactly the well-formed files, and never reads past the end |
| wave | 1, 2, 3, 5 or 7 bars, chunks of 2 frames, at most 4 chunks, streams of up to 13 frames in reads of 0, 3, 5 or 14 bytes | nothing is lost; windows stay equal; the bars keep the order |
| `people`, accounts | 2 accounts, 2 passwords, 2 codes with the same digits, 1 session, 2 requests, 1 fault, 1 expiry | one usable code per user and purpose, accepted once; a code serves its own account and purpose; a reset ends the sessions it found |
| limiter | 2 addresses, 2 requests per window of 2, 6 instants, 5 requests each | no burst above two windows' worth; whoever is refused had a full window |
| admin | 3 users, 1 request at a time, 4 changes, 1 fault | a super admin remains; every change is logged; a deleted spec has its date |
| `eventually` | one instance per component, fairness | captured money leads to a license; a code that is asked for is mailed; a stale response dies out; an empty ranking is filled; who is demoted loses access; a dropped client is disconnected; a stored note is pushed |
| `upload_stale` | 1 upload, 2 kinds, 2 requests, 2 workers, 1 lapsed lease | violation, see section 6 |
| `upload_expired` | 1 upload, 1 kind, 1 request, no worker | violation, see section 6 |
| `account_expired` | 1 account, 2 codes, 1 expiry, 1 request, fairness | violation, see section 6 |
| `account_reset` | 1 account, 2 passwords, 1 session, 2 requests | violation, see section 6 |
| `catalog_tabs` | 2 updates at a time | violation, see section 6 |
| `admin_race` | 2 users, 2 requests | violation, see section 6 |

### Bounds

Two workers are the smallest pool with a stale worker and its successor; since
a dead worker has no effect, a third adds no new pair. Two kinds separate the
cover from the other assets and give a loop that can fail half way. Two
attempts give one replaced file with a live old URL. Two requests are a racing
pair. `MaxFaults` bounds the adverse events that cost nothing to repeat (lapse
of a live lease, failed heartbeat, context error, failed settle): two are
enough for a lost lease together with an ambiguous commit. Crashes are not
counted. In *assets* and *sweep* deletes are reliable and one worker suffices,
because their properties are about rows.

Two payments and two orders let a payment of one order be reported for another
and one order be paid twice; two requests overlap on the same or on different
payments. `MaxFaults` in the payments part bounds deaths, passed deadlines and
withdrawn options together.

All codes share their digits, the worst draw: only address and purpose tell
them apart. Two rows let two be of one user and purpose or of different ones;
a request for a code starts only while an id is left for it (`RowsLeft`), so
the bound on rows never shows as a failed insert. Sessions also expire in the
code; a model session stays live until revoked, which only makes the
properties harder.

Three specs and two per page give a full page, a last page and an empty one.
In the counters part everybody toggles one spec; in the pages part one reader
adds each of three specs once, one toggle at a time, while they are hidden and
deleted.
The listing runs against every catalogue, and one change falls anywhere in a
walk; a second one adds no exemption that the first does not. Prices 0 and 1 let
sort keys be equal. Two instants let favorites be made at one time and at
different ones.

A buffer of one message is full after one, so slow and dropped clients happen
with two notes. Two connections may belong to one user or to two.

Three requests of a spec are two deletes and an update, or an update and two
reads whose fills come late. Only one of them may update, because two violate
`CoverPresent` (section 6); a failed discard or an ambiguous commit violates it
as well, so that part has no faults. `CatalogInv` is proved with both. Four
ids are three types and one new row. Two calculations let an old section be
replaced, and one fault kills the request that holds the lock.

The waveform's chunk bound of four, instead of 16384, makes thirteen frames
merge twice; the read sizes include nothing, less than a frame, a frame and a
byte, and three and a half frames, so every remainder occurs. More bars than
chunks, as many and fewer are all there.

The sizes in a WAV are empty, odd, the least a format needs, and an odd one
above; one byte short cuts the last body, and eight bytes behind the last chunk
would be another header.

The limiter's six instants are two windows and a half. One admin request at a
time, because two violate `SuperAdminRemains` (section 6).

`CHECK_DEADLOCK FALSE` where the bounds end a behaviour: attempts, contents,
orders, payment ids, codes, updates, notes and instants are finite, so these
systems stop when all is done.

### Fairness

Uploads (`WorkerFairness`): a live worker's loop keeps running (the ticker
and the job loop of StartUploadWorker); its requeue sweep comes round between
two jobs (each iteration runs it); the clock passes the lease of a job nobody
renews. Nothing is assumed about requests, clients, or the workers that
crash. Crash leaves one worker alive, since the platform restarts the process
under a new worker id; with no worker "uploads remain queued"
(`docs/direct-beat-upload.md`). Attempts that end by their context deadline
are bounded by `MaxFaults`: the code has no attempt limit of its own, so
without the bound the property would not hold.

Payments: a request that is being served goes on, and Dodo re-sends a webhook
until it has a 2xx, so that it eventually meets a free request slot (strong
fairness, since slots fill and empty). This part has no faults because the code
does not survive them: a request that dies after the payment row, or an option
withdrawn before the license, leaves a payment without a license which no later
request repairs (VerifyPayment and the webhook both stop at the paid status or
the UNIQUE payment id).

Accounts: a request that is being served goes on. No faults, since a failed
statement or mail ends a request for good, and no expiries, because of the
first account finding in section 6.

Catalog: a request goes on and Redis expires entries, here each at any time
after it was stored; `CacheCatchesUp` says that once updates cease the
responses show the row. One fault, which may be a lost DEL. Rankings: a request
goes on; nobody is obliged to ask, so the property is about sections that are
asked for. Administration: tokens age and then end, by refresh or expiry; one
fault.

Hub: its goroutines run, and a ready select branch is not passed over for ever,
because Go picks among ready ones at random and serves the senders of a channel
in turn. Clients may vanish at any time and the hub may be stopped.

## 4. What is proved

TLC checks the instances above; the theorems hold for every value of the
constants that the named assumptions allow.

`UploadWorkerProofs` (`StoreAssumption`, `WorkerAssumption`: the counts are
naturals, NULL is no content) proves `TypeCorrect`, `RowsAlwaysAgree`,
`FinalsAlwaysVerified`, `PublishedStaysIntact`, `NoticesTellTheOutcome`, the
action property `OnlyTheHolderSettles` and the refinement `Implements`.

None of these is inductive by itself. That a published spec is whole follows
from what the worker had done when it settled it, which follows from nobody
having deleted in the meantime, which follows from deleting only after
settling, behind the fence. `IInv` says so:

- `OnTask`: a busy worker works from the rows as accepted;
- `CopiesStay`, `LoopDone`: until the job is settled, what a worker has copied
  is there and verified, even if its lease was taken away;
- `VerdictKnown`, `ClosesItsOutcome`: a worker that cleans up or notifies has
  committed the outcome it acts on;
- `OneCloser`: only one worker ever does for an upload, and nothing was
  announced before.

A worker that lost its lease without noticing may go on copying: it copies the
same verified contents (the copy is conditional on the ETag), which is why
`FinalsVerified` holds and is itself part of `IInv`. There is one lemma per
action; `Invariant` combines them, and run `upload_worker` checks `IInv`.

`Implements` says that the pool is an `UploadLifecycle` in which an upload is
rejected or goes live with the bundle it was accepted with. The mapping reads
the phase from the rows and the shown bundle from the bucket. With
`PublishedIntact`, before and after a step, the shown bundle is the accepted one
or nothing (`BundleShown`), so it changes only when the status does; most steps
leave both alone (`Stutters`), the expiry sweep is the abstract lapse
(`ExpiryLapses`), and settling publishes decodable content because of
`LoopDone` (`SettlingPublishes`).

`UploadPipelineProofs` (the same two assumptions) is about the composition:
requests, client PUTs, the deadline and any number of workers at once.
`PipelineInvariant` needs nothing else, and from it follow `PipelineRowsAgree`,
`AcceptedStaysVerified`, `AcknowledgedStaysDurable`, `PublishedStaysComplete`
and the action properties `LapsedStaysLapsed`, `ConfirmationsAreOwn` and
`PipelineFenced`. `PipelineInv` adds to those properties

- `RequestsSound`: a request between two calls carries an attempt that was
  issued and an ETag that passed HEAD, though the rows may have moved since;
- `ObjectsSound`: final objects and covers come from verified contents, and
  there is none before the upload is accepted;
- `WorkersSound`: a busy worker has an accepted upload and verified rows of it,
  not necessarily the present ones; until the job is settled what it saw at a
  final key is there or was replaced (`HasCopies`); once it cleans up, the
  outcome is its own (`ClosesOwn`).

`LocksSound` goes with it, and `LocksHold` proves both at once: a row that is
held has one holder and stays `uploading`, and its assets change by the holder
only, so that what the holder checked is still true when it writes - but for the
deadline. Each of the two needs the other: the lock is what keeps a commit from
meeting a session that has moved (`RowsAgree`), and the rows' invariant is what
keeps workers away from a session that is still open (`WorkersKeepAssets`,
`WorkerLocks`). `LapsedStaysLapsed` follows from two facts about a step. A
session leaves `uploading` after its deadline only for `expired` or by its
holder (`Ages`), and a lock is taken only by a step that finds the session open
(`LocksWhenOpen`). Hence an upload that Status reports as expired while nobody
holds its row is lost for every Complete, whatever that has read before.
Without "while nobody holds its row" it is false, as run `upload_expired` shows.

`IInv` of the pool is not inductive here, for a reason: a VerifyAsset whose
snapshot was taken before FinalizeUpload committed can change an ETag after
acceptance, and run `upload_stale` shows what follows. `NoLateConfirmation`
excludes just that: no row of an accepted upload's assets changes. Every step
but that one VerifyAsset satisfies it. Under
`[][NoLateConfirmation]_pipelineVars` the pool's invariant holds beside the API
(`PoolBesideAPI`: `ServiceKeepsPool` for the steps of requests, the lemmas of
`UploadWorkerProofs` for the others), and with it `PublishedIntactBesideAPI`,
`PublishedPlayableBesideAPI` and `PipelineImplements`: the whole pipeline, from
Initiate to the notification, is an `UploadLifecycle`. The acceptance of the
abstract specification is FinalizeUpload; all other steps of requests stutter.

`PaymentsProofs` (`PaymentAssumption`) proves `TypeCorrect`,
`PaymentsStayGenuine`, `OneLicense` and `PaidAlwaysBacked`, for every number of
orders, payments, requests and faults. Its `IInv` adds what a request knows at
each stage: `KnowsItsCharge` (past the signature or webhook the payment is for
its order, past the fetch it is captured), and `OwnsItsPayment` (past the
insert the payment row is this request's alone, and its license not yet
issued), which is what the UNIQUE column buys; `AckedIsCharged` and
`ChargesNameOrders` tie acknowledgements to the provider's truth.

`AccountsProofs` (`AccountsAssumption`: the bounds are naturals, NULL is no
user, password, row or code) proves `TypeCorrect`, `CodesAreSingle`,
`VerifiedOnlyByCode`, `PasswordOnlyByReset`, `CodesServe` and
`FoundSessionsEnd`. Its `IInv` adds `OneUnconsumed` (the unique index: one
unconsumed row per user and purpose, expired or not), `RedeemedIsConsumed` (an
accepted row is consumed, so never accepted again), `HoldsItsCode` (between two
statements a request holds a row that was accepted for its user, purpose and
password) and `SeenAreOwn` (the sessions a reset found are its user's). Rows
only ever gain: `RowsPersist`, `SessionsPersist` and `AccountsPersist` say what
a step leaves as it was, each action is shown to do that, and three lemmas
derive the invariant from it.

`CatalogProofs` (`CatalogAssumption`) proves `BoughtFilesStay`, for every number
of requests, updates, covers and faults. The count of a delete and the DELETE
are separate statements, so what protects a buyer is the foreign key alone. The
invariant says that a license follows an order (`LicensedIsOrdered`), that only
a completed spec was ever ordered (`OrderedIsCompleted`), that a completed spec
has its audio (`CompletedHasAudio`), and that a request removes files only when
the row is gone (`FilesGoLast`), after which no order can come.

It also proves `CoverStays`, under two hypotheses: `OneEditor` (one request at
a time updates the spec) and `CommitsAreReported` (an update that failed did
not commit). Both are needed: run `catalog_tabs` violates the property with two
editors, and an update whose commit is reported as an error discards the cover
it has just stored. Calls may fail and requests die anywhere else.

`CatalogueProofs` has the components that `Catalogue` places beside `Catalog`.

License options (`OptionsAssumption`): `SoldOptionsAlwaysStay` needs
`SoldStaysInTx`, that the open transaction has not deleted a sold option
either, because the sale and the delete each check what the other has done.
`ListIsOffered` holds as long as an entry that has an id names the type of its
row (`~FreeForm`); section 7 has what happens otherwise. It rests on
`ListFollowed`: within the transaction the rows it kept are offered under the
types of the entries handled so far, and any other row still offered was
offered before.

Rankings (`SectionAssumption`: the bounds are naturals, the specs finitely
many, NULL no request): `SectionHolds`, of which `SectionIsOneCalculation` and
`LockIsReleased` are parts. A calculation writes ranks that are a bijection
onto the scored specs (`OutcomeIsOne`), and rows that vanish with their specs
leave an order in order (`FewerRows`).

Waveform (`WaveformAssumption`: the chunk bound is even and at least two, as
16384 is): `WaveformHolds`. Merging happens exactly when the even bound is
reached, so every chunk has a partner (`MergedIsHalf`) and the doubled window is
full (`FlushKeepsWindows`); an odd bound would leave a short chunk in the
middle. That nothing is lost (`FramesKept`: counts and loudness of all chunks
add up to what was read) is a statement about sums over sequences of any
length; `BarsHold` bounds the quotients with which getBars spreads the chunks
over the bars (`Within`, `Middle`).

WAV (`WalkAssumption`): `WavHolds`. The walk accepts what is well-formed and
only that because the offset is always the end of the chunks passed
(`FileEnds`), a format or data chunk counts as found exactly if it was passed
(`FoundIsPassed`), and a header is read only where the file has one
(`WalkHasHeader`).

Sums are recursive functions, and what they add up to needs an induction. It is
done without the library's induction theorem: a set of naturals has a least
element, because < is well-founded on Nat (`LeastNatural`), so a set that has 0
and the successor of each of its members is Nat (`Induction`).

`PeopleProofs` has the components that `People` places beside `Accounts`.

Rate limiter (`RateLimiterAssumption`): `NoBurstEver` and `RefusedOnlyWhenFull`,
for any limit, window and number of addresses, whenever cleanup runs. The table
remembers one window, the properties are about any stretch of time; `TableInv`
ties the table to the log of who was let in. The last `LetIn(n)` entries of the
log belong to the open window and the first of these opened it; an entry as many
places before that as a window admits is out of its reach (`Covered`). Hence an
entry and the one two windows' worth after it are more than a window apart
(`Spaced`), which is the absence of bursts.

Administration (`DeskAssumption`: as the module's, and finitely many requests
at a time): `LogHolds` without a hypothesis, however requests overlap. A change
is in the log, or its request is at the audit statement, or the statement
failed and is counted (`ChangesAreLogged`); how many changes are under way is a
cardinality. `AdminHolds` under `OneDemotion`: one request at a time is about
to take the role away or to count for it. Run `people` has one request at a
time and so satisfies it; run `admin_race` shows that it is needed.
`OthersRemain` is what a demotion that has counted relies on: a super admin
besides its own.

`ShopProofs` has the components that `Shop` places beside `Payments`
(`ShopAssumption`: the assumptions of the three, and finitely many specs).

Hub: `HubStaysSound` and `StreamsHaveNoGap`, for every number of users,
connections and notes and every buffer. A client of the hub has an open channel,
and a connection on its way to the hub was never closed (`ClientsAreOpen`):
whoever closes a channel takes the client out of the map in the same step, and
that is also what Unregister looks at. A call about to push has written its row
(`SendersStored`). For the streams, a message is pushed once and nobody was
registered in the future (`PushedOnce`), a connection not handed over has
nothing in its channel (`QuietBefore`), and what a peer got, what its writer
holds and what its channel holds, in this order, is what is due to it
(`Orderly`): the i-th message has exactly i - 1 due before it. A unicast adds
the last message due to each client of its user (`DueGrows`) and to the end of
its stream, or the client is dropped and owed nothing more.

Favorites: `CountersHold` and `WalksAreExact`. The counter of a spec moves in
the transaction that adds or removes a row, and only if there was a row to add
or remove, so it never meets the zero at which it would stop. A walk is exact
because everything returned lies at or before the cursor and everything that
stayed and was not returned lies beyond it (`PagesMeet`). A page is the first
rows beyond the cursor in an order that is total though times are equal, and it
has a last row as a finite set has a least element (`LeastNatural` again).

Listing: `NoSpecTwice` for any page size, and `ListingHolds` under
`LimitsWithinCap`: no page size above the service's cap is asked for. Above it
the handler's page count and the service's pages differ (section 7), so the
hypothesis is needed; run `shop` satisfies it. The argument follows a spec's
place, the number of matching specs before it. Where no keys tie, the row at
position i of any answer has place i - 1 (`PlaceIs`). A spec that must still be
shown has a place on a page to come (`Onward`), where publishing others can only
push it; a spec that was shown has a place on a page passed (`Behind`), where
removing others can only pull it.

Only model-checked: liveness, which is out of the prover's reach
(`AcceptedIsSettled` and all of run `eventually`). Every invariant and every
action property of a passing run is stated by a theorem, some under the
hypotheses named here.

## 5. What is not modelled

Listed with reasons in `PROJECT.json`. In short:

- payments: the download counter of licenses;
- accounts: RefreshSession in `Accounts` (it writes nothing; `Administration`
  has what it reads); the expiry of sessions; two accounts whose addresses
  differ only by case (the lookup of a code ignores case, the one of a user
  does not);
- license options: one spec at a time, so that the UPDATE by id alone, given an
  id of another spec's option, has nothing to hit;
- catalog: genres, tags, currencies and text search are payload or one more
  filter; the arithmetic of ranking scores; `is_favorited` in a cached
  response, which is that of the first viewer;
- hub: BroadcastMessage, which nothing calls. A client that joins after the
  hub has stopped keeps its connection until it goes away; Shutdown is called
  by tests only;
- parsing of MP3, ZIP, RAR and image headers (a predicate on contents here),
  HTTP decoding, reporting queries, start-up, generated code, tools;
- `MarkSessionFailed`, which is never called;
- PostgreSQL row locks other than that of an upload session and the advisory
  lock of a ranking: two transactions that deadlock end as a failed request,
  which `RequestDies` covers. Statements are taken to be atomic, as READ
  COMMITTED makes them towards the rows they lock.

## 6. Findings

`upload_expired`: an upload that was reported expired may still be accepted.
FinalizeUpload tests the deadline when it has locked the session's row
(`upload_repo.go:354`) and commits at line 421, after the asset updates and the
inserts of spec and job; its last UPDATE asks for the status again, not for the
deadline. Status reads without waiting for the lock and calls any row expired
that is still `uploading` past its deadline (`upload_service.go:495`). If the
deadline passes between test and commit, a client is told "expired" and sees
`queued` a moment later, though `domain/errors.go:17` has "upload session
expired" as an end: Complete refuses such a session (lines 396 and 405), and
`direct-beat-upload.md:11` calls the draft "expiring". The window is that one
transaction: `LapsedIsFinal`, which the runs check and TLAPS proves, says that
nothing else brings an expired upload back. Nothing is lost by it, the rows
agree throughout; what is wrong is the answer.

`upload_stale`: a published spec may serve content that nobody decoded. A
confirmation whose VerifyAsset took its snapshot before FinalizeUpload
committed waits for the row lock and then re-checks the asset row, but not the
session, so the verified ETag changes after the upload was accepted. Two
attempts at the job then hold different ETags. If the first loses its lease
while the second validates and publishes, nothing stops its next copy: the copy
is conditional on the ETag this attempt knows, and a client that PUTs the
matching object through a URL it still has makes it succeed, over the published
final key. The comment at `processor.go:83` says of such a worker "do not mutate
its state or delete any objects", and `direct-beat-upload.md` that what is
published was validated. What
does hold without exception is `PublishedIsComplete`: the object is there and
has the declared size and type.

`account_expired`: asking for a code consumes the codes that are still valid,
but the unique index counts every unconsumed one. Once a code has expired
unused, each later insert for that user and purpose is refused and no mail goes
out, where the documentation says that a code is generated and sent.

`account_reset`: a reset revokes the sessions and then writes the password; the
documentation has it the other way round. A login with the old password that
overlaps the reset can insert its session after the revocation and before the
new password, and keep it; in the documented order that session would be
revoked. (A login that inserts its session after both statements survives
either way; the property leaves it out, and it holds if the two statements are
swapped.)

`catalog_tabs`: an update writes the whole row from what it loaded and deletes
the cover it loaded. Of two that overlap, one replaces cover A by B and deletes
A; the other, without an image, writes A back. The row then names a cover that
is gone, though the comment at `handler.go:615` reads "Delete old image only
after successful database update".

`admin_race`: the count of super admins and the UPDATE are two statements. Two
requests that demote the last two both count two, and none is left; the handler
answers "cannot remove the last super admin" to one after the other only.

## 7. Divergences

Further places where the code and what is said of it differ. The property is in
the module; no run checks it. The constants with which TLC finds the
counterexample are given (those not named are as in the run of the module).

| Property | Constants | The code, and what is said |
|---|---|---|
| `UploadWorker!FailureCleansEveryKey` | `WorkerSpec`, 2 kinds, 2 workers, 1 attempt, 1 content, no faults | process() collects the keys to clean one kind at a time (`processor.go:178`), so an attempt that fails on an early kind leaves the copies that an earlier, crashed attempt had made of later ones. `processor.go:175-177`: "A fenced failure cleans the complete known key set, even when this attempt fails before its first copy." |
| `Catalog!DeletesWhatNobodyBought` | 2 requests, no faults | A delete counts licenses, then hard-deletes; an order without a license refuses that too, and there is no soft delete then. `docs/cult-beats-api-roadmap.md:387`: "Hard delete if no licenses exist." |
| `LicenseOptions!ListedIsOffered` | `FreeForm = TRUE`, 2 types | An entry with an id is matched by the id only, known or not, so two entries can settle on one row or a row take another's type. `spec_repo.go:1215`: "This license was NOT in the update payload -> DELETE it." |
| `LicenseOptions!NewTypesAccepted` | `FreeForm = FALSE`, 2 types | A sold option that was taken off the list is soft-deleted; the UNIQUE key of migration 4 still counts it, so listing its type again is refused. `spec_repo.go:1157`: "New License (and no match found) -> INSERT". |
| `Rankings!LockedRefreshes` | 2 specs, 2 requests, `MaxScore = 2` | DELETE and INSERT are parts of one statement with one snapshot and no order; a spec that stays in a stale section can make the insert meet its own old row. `docs/homepage-ranking-algorithms.md:100`: "If the lock is acquired, the section is recalculated." |
| `Administration!ActiveSuperAdminRemains` | 2 users, 1 request | Suspended super admins are counted, so the last one who can sign in may be suspended. `handler.go:170`: "cannot suspend the last super admin". |
| `NotificationHub!StoredIsPushed` | `Embedded = FALSE`, `MayStop = FALSE` | `cmd/worker` writes the row and has no hub. `README.md:406`: "pushes a real-time notification to the user over WebSockets". |
| `CatalogListing!NothingMissed` | `Asked = {2}`, `MaxSpecLimit = 1` | GetUserSpecs computes the page count from the limit asked for, while the service caps it (`service.go:352`); what is beyond the cap is never reached. `docs/cult-beats-api-roadmap.md:1528`: per_page is the "Page size". |
| `CatalogListing!TotalIsCount` | 1 producer, 1 change | The total comes from COUNT(*) OVER() on the rows of the page; an empty page reports 0. `docs/PUBLIC_PRODUCER_CATALOG_FLOW.md:996`: "`total` is the count across all pages". |

## 8. What is left

- models: the archive and image checks; currency rounding; the lock of an
  asset's row beside that of its session, which transactions take in opposite
  orders (section 5);
- proofs: a payment's way to its license, and a code's way from request to use,
  as refinements of abstract specifications.
