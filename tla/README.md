# TLA+ models of the EduLearn API gateway

The repository is an Express 5 gateway in TypeScript. It authenticates HTTP
requests, guards routes by role, permission and block list, forwards each
request to one of several gRPC services (user, auth, course, enrollment, order,
payment, notification, chat) and keeps in Redis what all its instances share:
block keys, revoked tokens, cached responses, tag sets, rate-limit counters and
Bloom filters. It is written to run as several instances
(`src/README.md:581`), so every piece of Redis state has several writers, and
every `await` is a point where another request or another instance may act.

All paths below are relative to `src/src/` of the repository snapshot.

## 1. Inventory

| Component | State | Operations | Hard part |
|---|---|---|---|
| **Account access**: `services/account-access.service.ts`, `middlewares/auth.middleware.ts`, `middlewares/blocklist.middleware.ts`, `services/auth-token/token.service.ts`, block handlers of `domains/admin/v1/controllers/index.ts` | the user service's verdict; Redis keys `user:blocked:[role:]<id>` (30 days); `revoked_token:<jti>` | block/unblock account and instructor; `authGuard`; `blocklistMiddleware` | two stores written in sequence without a transaction; lost replies, retries and late execution; expiry of one store only; a guard that reads key after key |
| **Response cache**: `middlewares/cache.middleware.ts`, `middlewares/cache.invalidation.middleware.ts`, `services/redis/cache.service.ts` | entries with a lifetime; `tag:<tag>` sets | hit, miss and fill after the answer; `invalidateTag` after the answer | fill and invalidation interleave; SET/SADD and SMEMBERS/DEL/DEL are not atomic; errors are cached; some writes invalidate nothing |
| **Email availability**: `services/bloom-filter/*`, `domains/auth/v1/controllers/index.ts` | one Bloom filter per process; its JSON in Redis | `initialize` (load or seed), `add` + persist, `isAvailable` | listening before it is loaded; writes nobody awaits; whole-filter overwrites by several instances; swallowed failures |
| **gRPC client**: `shared/utils/grpc/*`, `services/security/retry/retryable.ts` | circuit breaker, channel | `unaryCall`, streams, `withRetry` | deadline, breaker timeout and channel retries are independent; retries of what was already executed |
| **Lifecycle**: `app.ts`, `index.ts` | HTTP server, clients, `isShuttingDown` | `initialize`, `listen`, `shutdown`, signal handlers | order of closing; two SIGTERM handlers; waiting without a bound |
| **Sessions and CSRF**: `domains/auth/v1/controllers/index.ts`, `manage-cookies.ts`, `errorHandler.ts`, `csrf.middleware.ts` | cookies of the browser; refresh tokens of the auth service | login, refresh, logout, verify, CSRF token, the routes without cookies, clearing on any 401 | tabs share the cookies and race; answers are lost; tokens rotate; a logout branch that never ends its response |
| **Rate limiting**: `middlewares/rate-limiter.middleware.ts`, `services/security/ratelimiter/*` | counters in Redis | `consume` | any failure counts as a refusal; defaults lost to `undefined` |
| **Media storage**: `services/media/*`, `domains/media/v1/*` | S3 objects | presigned URLs; the multipart handlers of the controller are stubs | object keys that collide |
| **Controllers and routers**: `domains/*/v1` | none | 166 handlers: validate, call in stages, map the reply | several writes without compensation; lookups beside a write; timeouts; handlers that never answer |
| **Service clients, generated code, schemas, mappers** | none | forwarding, encoding, validation | which method changes something; otherwise none |
| **Course-name filter, `withLock`/`getWithSWR`/`getOrSet`/`incr`, Kafka producer, `token.service.1.ts`, `cache.middlewares.ts`, `decorators/cache.ts`** | - | - | have no caller in the repository |
| **Observability, health, dependency injection** | - | - | no state the properties depend on |

How they interact: a request passes the global rate limiter and CSRF check,
then `authGuard` (reads of Redis, written by the admin handlers), perhaps
`blocklistMiddleware`, perhaps `cacheMiddleware` or
`invalidateCacheMiddleware` (which hook the response's `finish` event and so act
after the client has its answer), then the handler, which calls a service
through `GrpcClient` and may touch the Bloom filter or a cache tag. Errors go
to `errorHandler`, which answers through the same (possibly wrapped) response.

What makes each correct:

* account access: a block that was completed keeps its user out, an unblock that
  was completed lets the user in, the two stores agree when nothing went wrong,
  every request is answered;
* response cache: what is served is a listing the service had, outdated ones
  vanish and do not come back, an invalidation reaches every entry;
* email availability: a registered address is not offered as free, a free one
  is not refused, what is stored covers what is registered;
* handlers and gRPC: every request is answered, in bounded time; stages take
  effect in order; "ok" means that everything mandatory was done, and an error
  is not reported for a write that was acknowledged;
* lifecycle: Redis outlives the clients that wait for an answer, a shutdown runs
  once, releases everything, lets nobody new in, and ends;
* sessions: a logout is final until the next login, the refresh cookie is one
  the service accepts, a session ends only by an answer that means it; the CSRF
  header of a tab and the cookie agree, or come to;
* rate limiting: no more than the limit gets through and an outage is not a
  refusal; media: one object per upload (neither is modelled).

## 2. Modules

| Module | Role |
|---|---|
| `AccountAccess` | block/unblock operations against both stores, and the guard |
| `AccountAccessProofs` | its theorems |
| `MCAccountAccess` | its instance for TLC (users, token role sets, routes, symmetry) |
| `ListingPromise` | abstract: what a reader of a cached listing is promised |
| `ResponseCache` | the cached listing, Redis command by Redis command; refines `ListingPromise` |
| `ResponseCacheProofs`, `MCResponseCache` | theorems; TLC instance |
| `EmailAvailability` | the Bloom filters of several gateway instances |
| `EmailAvailabilityProofs`, `MCEmailAvailability` | theorems; TLC instance |
| `Lifecycle` | one process: start, connections, signals, shutdown |
| `LifecycleProofs`, `MCLifecycle` | theorems; TLC instance |
| `Session` | the cookies and tokens of one browser with several tabs |
| `SessionProofs`, `MCSession` | theorems; TLC instance |
| `HandlerPromise` | abstract: what a client can conclude from the answer to a request |
| `RequestPath` | a handler, its stages of calls, breaker, deadline, channel; refines `HandlerPromise` |
| `Handlers` | the catalogue of all handlers and client methods, the parameters of `RequestPath` |
| `RequestPathProofs`, `MCRequestPath` | theorems; `RequestPath` composed with `Handlers` for TLC |

Conventions shared by all: one Redis command, one gRPC execution at a service,
or the code between two awaits of one request is one atomic step; requests of
all instances interleave. A timeout, a lost reply, a rejected Redis command and
a vanished client are separate actions. Variables or fields commented as
*history* (`taint`, `under`, `free`, `alone`; `floor`, `lost`, `calm`;
`early`; `alone`, `sure`, `out`, `agreed`) are read by no guard: they only record, for the properties, what happened.
Operators commented as *Mutant* are plausible bugs, used by nothing: substituted
for the definition that follows them they show that a property can fail.

### AccountAccess

`service[k]` is the verdict the user service records for the key `k` (a user and
either the account or the instructor role), `ttl[k]` the ticks its Redis key has
left, `revoked` the users whose token is in `revoked_token:`. `op[a]` is a
block/unblock request: `StartOp` (the handler sends the call), `ServiceApplies`,
`CallRetried` (the channel's retry policy, `client.ts:95`), `CallLost` and
`AbandonedCallEnds` (deadline; the service may still execute the call later),
`ReplyLost`, then `SyncRedis` (`SET .. EX` or `DEL`) or `SyncFails` (the command
rejects, executed or not). `req[r]` is a guarded request: `Arrive` (token
verified, route and roles as inputs), `CheckRevocation`, `CheckAccount`,
`CheckRole` once per role **of the route** in any order (`Promise.all`,
`every`), `Granted` (permissions, `next()`), `CheckBlocklist` on the routes that
add `blocklistMiddleware`, `GuardFails` (the catch: 401; or `next(err)`),
`Depart`. All four block/unblock handlers have the same shape and differ in key
and kind.

A key is *known* to be blocked or open when the last operation on it overlapped
no other, completed, has not expired, and no operation on it is under way
(`Undisturbed`); `under` and `free` keep what was known when a request arrived,
less what has begun or expired since.

### ResponseCache and ListingPromise

A listing is identified by the number of changes the user service had applied
when it was read. A reader that misses (`Miss`) runs the handler: `Fetch` gives
the listing or the error that `errorHandler` writes through the same wrapped
response, in an outage or when `validateSchema` refuses the query inside
`getUsers` (`valid` is an input, chosen anew by every request: the key is made
from the raw query, so `?page=1&page=2` shares that of the listing without
parameters). After the answer the reader stores (`Fill`) and tags (`Tag`) the
entry; `FillDropped` and `TagFails` are a client that has gone, a failing
command, a stopped process. A writer changes the users (`Apply`) and after its
answer runs `Members`, `Delete`, `DropTag` of `invalidateTag`, any of which may
fail (`WriteFails`); `SilentWrite` is every change that invalidates nothing
(block, unblock, registration). `Tick` ages entries. Keys are opaque; all carry
the one tag `users:list`. `updateUserData` also invalidates `user:<id>` before
it answers; no route in use caches under that tag, so it only adds a way to
fail, which `WriteFails` covers.

`ListingPromise` has no cache: a version, and the set of answers that can still
be served. Answers enter it only as the current listing or, when something
begins to fail (`Break`, guarded by `failing`), as an error; afterwards they can
only disappear, the error not before nothing fails any more. `ResponseCache`
implements it with `failing` = the service is down or a malformed query is under
way, and `servable` = the current listing, the error while `failing`, the live
entries, and the responses on their way to becoming entries.

### EmailAvailability

`inst[i]` is a gateway process: `Start`, then `LoadRead`/`Loaded` (`GET` and
`fromJSON`, which replaces the filter object), or `SeedRead`/`Seeded`
(`getUserEmails`, add all, persist), or `InitFails` (swallowed by `initialize`,
so `withRetry` has nothing to retry). `initializeUtils` does not await any of
this, so `StartVerify`, `VerifyApplies`, `Add` and `Ask` are enabled meanwhile.
`Add` changes the filter and queues a snapshot; `Save` and `SaveFails` are its
un-awaited `SET`. `Stop` may come at any time. `RegisterPast` is a registration
that never touches the filter (OAuth sign-in, a call given up by the gateway).
`Ask` answers a miss at once and sends a hit to the user service, whose reply is
taken as "exists" whatever it holds (`Confirmed`). A filter is the set of its
bits and `BitsOf` the hash functions, so false positives exist: in the TLC
instance one address's bits are covered by the union of two others'.

### Lifecycle

`proc`, `server`, `cache`, `metrics`, `userClient` are the process, its HTTP
server, the Redis connection of the container, the metrics engine and the gRPC
client of `UserService.instance`. `Boot` is everything of `initialize()` after
`cache.connect()`: no `await` separates it from `listen()`. A port that is taken
leaves `server = "failed"`, since the error listener only logs (`app.ts:224`).
`conn[c]` is a connection: with a request, kept alive, or with a request that
is never answered (`Hang`). `work[c]` is what runs for its requests, connected
or not: the handler, which does not hear of it when its client goes
(`ClientGone`), and the `finish` hooks of `cacheMiddleware` and
`invalidateCacheMiddleware`, which nobody awaits (`Answer`, `HookEnds`).
`httpServer.close()` waits for connections and not for work, so both can find
Redis quit. One bound: a connection is used again when its last handler has
ended; another connection can be used meanwhile. `Stop` is the part of `shutdown()` before its first
`await`, `Drained`, `Disconnect`, `StopMetrics`, `StopFails` the parts after it;
`TermAgain` the second `SIGTERM` handler, which closes the server by itself.
`early` records a signal that came while `initialize()` waited for Redis.

### Session

`jar` holds the cookies the tabs share, `valid` the refresh tokens the auth
service accepts, `tab[t]` the CSRF header of a tab and whether its access token
verifies, `req[t]` its request: sent with the cookies of that moment, served
(`ServeCsrf`, `ServeLogin`, `ServeRefresh`, `ServeLogout`, `ServeAccount` for
the auth routes that set no cookie - register, OAuth, email check, OTP, forgotten
and reset password - or refused by `Unauthenticated`, `LogoutHangs`, `Fails`),
and answered with its status (any error but 401 is 500), with what the
`Set-Cookie` headers will do when the browser applies them (`Deliver`) or the
answer is lost (`Lose`). `ServeRefresh` leaves open whether the service rotates
the token and whether it revokes the old one. The access cookie is set and
cleared with the refresh cookie and never read, so it is left out.

`alone` are the requests that overlapped no other; `sure` says that nothing was
lost or overlapped since the session was attached; `out` that a logout (or a
refusal) was applied by itself and no login was sent since; `agreed` are the
tabs that fetched their CSRF token alone.

### RequestPath, Handlers and HandlerPromise

A handler is a sequence of *stages*, each a set of calls fired together and
awaited with `Promise.all`. `caller[c]` is what the handler knows of a call and
`wire[c]` whether the channel still works on it. Two clocks run over a call: the
timeout of the breaker of its client (`BreakerTimeout`; the default of 30 s, and
60 s that the payment client sets for itself,
`service-clients/payment/index.ts:39`) and the deadline of the call
(`DeadlinePasses`). They are set in different files; `ClocksAssumption` says that
no deadline exceeds the breaker of its client, and TLC evaluates it on the
catalogue. `done` are the calls a service has carried out: `Run` may come at any
time after the call was sent, even when everybody has given it up. `Reply` and
`Reject` are the callback of `makeUnaryCall`, `Chunk` the first write of a
stream, `Refuse` any middleware that ends the request. `Fail`, `CheckFails`,
`Finish` and `NextStage` are the handler.

`Handlers` lists the 166 handlers of all controllers with their calls, and every
method of the eleven service clients, told apart by whether it changes
something. It also lists what differs beside the calls: calls whose failure is
swallowed (`OptionalCalls`), handlers that skip the last stage, handlers that
refuse by what the first stage brought, the streamed call, other deadlines, the
breaker of each client (`BreakerTicks`), and
the ten handlers that do something after a write (`WritesThenMore`).
`Catalogued` ties the two lists together: a call of a handler is a method of a
client, and none is both a read and a write. Redis commands and the signing of
URLs have neither breaker nor deadline (`Untimeds`).

`HandlerPromise` has no clocks and no channel: stages take effect in order, a
stage is reached only while the request is unanswered, "ok" means that all that
is mandatory was done, and after an error the stage reached last may still take
effect. `RequestPath` implements it with `reached` = `stage`.

## 3. Runs

| Run | Checks | Instance | States |
|---|---|---|---|
| `account_sync` | `UndisturbedOpAgrees` | 1 user (2 keys), 2 administrators, lifetime 2 ticks | 0.5 M |
| `account_guard` | `TypeOK`, `NoEntryUnderBlock`, `NoRefusalWithoutBlock`, `VerdictFits`, `GuardAnswers` under `FairSpec` | 1 user, 1 administrator, 1 guarded request, 4 kinds of route, 3 token role sets, lifetime 1 | 1.0 M |
| `account_overlap` | violation of `SyncedAfterOps` | as `account_sync` | - |
| `account_role_refusal` | violation of `RefusedRolesWereBlocked` | as `account_guard` | - |
| `cache_invalidation` | `TypeOK`, `TaggedUnlessLost`, `InvalidatedIsGone`, `KeepsPromise` | 2 readers, 2 writers, 2 keys, 2 changes, lifetime 1 | 1.3 M |
| `cache_freshness` | `StaleOnlyAges`; `EventuallyFresh`, `ErrorsFade` under `FairSpec` | 2 readers, 1 writer, 1 key, 2 changes, lifetime 2 | 66 k |
| `email_availability` | `TypeOK`, `CalmNeverForgets`, `StoredCatchesUp`, `TakenIsCovered` | 2 instances, 1 check, 2 addresses, 2 writes under way per instance | 0.8 M |
| `email_taken` | violation of `TakenIsRegistered` | 1 instance, 3 addresses, 1 check | - |
| `lifecycle` | `TypeOK`, `CacheOutlivesClients`, `DoneReleasesAll`, `RunsOnce`, `AcceptsNobodyNew`, `ShutdownEnds` under `FairSpec` | 3 connections | 15 k |
| `session` | `TypeOK`, `LogoutSticks`, `SessionUsable`, `CsrfAgrees`, `AgreedTabPasses`, `SessionKept`, `SettledStays` | 2 tabs, 2 refresh tokens, 3 CSRF tokens, tokens symmetric | 0.2 M |
| `session_converges` | `CsrfConverges` | 2 tabs, 1 refresh token, 3 CSRF tokens | 0.7 M |
| `request_path` | `TypeOK`, `AcknowledgedWriteIsReported`, `GivenUpInTime`, `AnswerIsFounded`, `EveryRequestAnswered`, `KeepsPromise` under `FairSpec` | all 166 handlers, ticks of 10 s | 61 k |

Why these bounds are enough to be interesting:

* *Account.* Keys are independent but for the role/account pair of one user, so
  one user with its two keys has every interaction. Two operations are what an
  overlap needs; one guarded request with one administrator already has every
  interleaving of the guard's reads with the two writes, retries and expiry.
  Operations and requests are reused after they end, so sequences of any length
  occur. The routes are the kinds the routers declare: any signed-in user with
  the blocklist, one role, two roles, a role with the blocklist.
* *Cache.* Two readers and two writers give fill against fill, fill against
  invalidation and invalidation against invalidation; two keys distinguish
  deleting all members of a tag from deleting some. `MaxVersion` bounds the
  changes, `CacheTTL` the ticks of a lifetime (30 s in the code).
* *Email.* Two instances overwrite each other's filter; two writes under way
  make their order matter (`MaxSaves`). Two further bounds are in the guard of
  `StartVerify`: one verification per instance at a time, of an address that is
  not registered yet.

* *Lifecycle.* The state is small and nothing in it is bounded but the number
  of connections; one in each of the states a drain waits for (open, hung, idle)
  needs three. `CHECK_DEADLOCK FALSE`: the process ends.
* *Session.* Two tabs give every overlap of two requests; a third CSRF token is
  what two racing fetches need to draw different ones while a third is held.
  Tokens that nobody holds are drawn again, so sequences of any length occur.
  The tokens are interchangeable, and the safety properties and the one about
  single steps do not tell them apart, so their run is symmetric in them;
  `CsrfConverges` is a liveness property, which TLC cannot check under symmetry:
  it has a run of its own, with one refresh token, since it speaks of none.
* *Requests.* The catalogue is complete, so no handler is left out; requests do
  not share state, so one at a time is all there is. A tick is
  10 s: the breakers have 3, that of the payment client 6; the deadlines are 3, 6
  (two payment calls) and 1 (`deleteProgress`), and
  `MaxAge` = 6 is the longest of them: it never cuts a behaviour short.
  `CHECK_DEADLOCK FALSE`: a request ends.

The three violations are disagreements between the code and what it says of
itself:

* `SyncedAfterOps`: "Sync Redis for immediate role-specific revocation"
  (`domains/admin/v1/controllers/index.ts:157`). A block and an unblock of one
  instructor overlap; the service executes one last, Redis the other; both
  administrators get 200 and nothing reconciles the stores.
* `RefusedRolesWereBlocked`: `hasActiveMatchedRole` and "Matching role(s) have
  been blocked" (`middlewares/auth.middleware.ts:104`, `:114`). The check is
  over the route's roles, so an administrator whose instructor role is blocked
  is refused on the routes open to instructors and administrators.
* `TakenIsRegistered`: "The provided email address is already in use"
  (`domains/auth/v1/utils/resposne-messages.ts:30`). `checkInDatabase` tests
  that the reply has a `response`, which every reply has, so a false positive of
  the filter is reported as taken.

### Fairness

`AccountAccess` assumes weak fairness of the steps of a guarded request only:
every Redis command is answered or rejected (`maxRetriesPerRequest`), and each
answer leads to the next step. Nothing is assumed of administrators, of the
service or of time. `ResponseCache` assumes weak fairness of a reader's steps
(a gRPC call ends by its deadline, a Redis command is answered or fails) and of
`Tick` (time passes); nothing is assumed of writers or of outages ending:
the premise of `ErrorsFade` is that in the end neither the service is down nor a
malformed query under way (`<>[]~failing`): with the service up for ever such
queries alone can bring the error back again and again. `EmailAvailability` has no liveness
property: nothing in the code makes an instance start, a check come or a write
succeed.

`Lifecycle` assumes that the connection attempt to Redis ends, that a handler
ends (its calls do, by the breaker), that the keep-alive timer of an idle
connection runs, that the HTTP server reports that it has drained, and that
`disconnect()` and `metricEngine.shutdown()` settle. It assumes nothing of
clients; `ShutdownEnds` therefore names the two things `close()` waits for
without a bound, a client of an unanswered request that stays and a connection
that keeps bringing requests, as its premises. Nothing in the code bounds them.

`Session` has no fairness of its own: tabs need not do anything. The premises of
`CsrfConverges` say what it needs: tabs that go on fetching tokens, nothing that
clears cookies any more, and moments without a request under way. Without the
last TLC shows two tabs whose fetches overlap for ever and pass two tokens
round.

`RequestPath` assumes weak fairness of `Progress`: the event loop runs the
handler on, timers fire, time passes, and a Redis command or a signature
settles. Nothing is assumed of the services: none need ever reply.

### Assumptions on code outside the repository

* `CacheClient.get` and `.set` (`@edulearn/core`, the base class of
  `RedisService`) reject when the command fails, as every method `RedisService`
  defines itself does; `set` with a lifetime is one `SET .. EX`; a value read
  back is the value written. If `set` swallowed its error, a failed `SET` would
  be followed by `SADD` of a key without an entry, which no property mentions.
* `bloom-filters` is a plain Bloom filter: `add` sets bits, `has` tests them.
* ioredis sends the commands of one connection in order.
* Express 5 passes a rejected handler promise to `errorHandler`.
* `opossum` rejects `fire()` when its timeout passes and ignores what comes
  later; with `volumeThreshold` at `MAX_SAFE_INTEGER` it never opens.
* grpc-js ends a call at its deadline; a server may go on executing it.
* `http.Server.close()` closes idle connections and calls back when none is
  left (Node 19 and later); a browser applies the cookies of an answer at once.

## 4. Proofs

TLC checks small instances; the proof modules prove the same invariants for
every value of the constants, from the assumptions `AccessAssumption`,
`CacheAssumption`, `EmailAssumption`, `SessionAssumption`, `PlanAssumption`,
`ClocksAssumption` and `CompensationAssumption` (which TLC evaluates on every run that uses them).
Each follows the same plan: an inductive invariant holds initially, every action
preserves it (one step per action, one sub-step per conjunct it can disturb),
and it implies the property.

* `AccountAccessProofs`. `TypeCorrect`. `UndisturbedCorrect` uses `SyncInv`:
  an operation marked `alone` is the only one on its key (`AloneOnKey`), once
  applied it stands in the service (`AppliedStands`), and undisturbed keys
  agree. Without the first two the agreement is not inductive: the step
  `SyncRedis` would set Redis to a verdict somebody else had overwritten.
  `NoEntryCorrect` and `NoRefusalCorrect` use `GuardInv`: for what a request
  knows (`under`, `free`) both stores say so as long as it is known
  (`StoresAgree`), and the position of the request in the guard tells which keys
  it has read since (`Progress`).
  `VerdictCorrect` uses `VerdictInv`: how far a request has come tells what it
  has shown (`Entitled`); a request that waits for the role keys has matched the
  route and has a command under way, one that waits for the second look at the
  account has passed everything else. The same lemma about a step of the guard
  (`GuardStepFits`) gives `GuardNeverStuck`.
* `ResponseCacheProofs`. `TypeCorrect`. `TaggedCorrect` uses `TagInv`: a calm
  fill has no writer beside it (`CalmAlone`), and a writer's gathered keys are
  all the live tagged ones (`Gathered`). `InvalidationCorrect` uses `CacheInv`:
  the floor is a version the service has reached (`FloorKnown`), and a calm fill
  in progress carries nothing older (`FillsFresh`). `PromiseKept` maps initial
  states to initial states and each action to a step or a stutter of
  `ListingPromise`; its core, `ServableStep`, says which action lets an answer
  into what can be served (a change, an outage, a malformed query) and that every
  other action can only take one out (`BringsNothing`). From the refinement and the abstract
  specification alone follows `GoneForGood`, for every version; from
  `ServableStep`, `ErrorsStayAway`. `StaleAges` goes action by action over the
  fills and the entries.
* `EmailAvailabilityProofs`. `TypeCorrect`. `CalmCorrect` and `StoredCorrect`
  use `EmailInv`: while the history is calm at most one instance runs
  (`Alone`), nothing is registered or registering while none does (`Quiet`),
  what an instance has loaded, listed, holds or is about to write covers every
  registered address whose add is done (`StageInv`, `Latest`), and so does what
  is stored once no write is on its way (`StoredComplete`). The last write of
  the queue must be the present filter, or a later `Save` could undo an add.
  `TakenCorrect` is about every history, calm or not: `NoForeignBits` says that
  no filter, no copy on its way and no queued write, nor what Redis holds, has a
  bit that a registered address did not set, so a failed registration, a crash
  or a late write leaves nothing behind that could block an address.

* `LifecycleProofs`, for any set of connections. `IInv` says how far
  `shutdown()` has come from what is closed (`Orderly`, `Finished`), and that a
  shutdown that began before `Boot` is an early one (`EarlyOnly`), without which
  `Boot` would reopen what an orderly shutdown had closed. From it
  `CacheLast` (of clients, not of handlers and hooks: `work` appears in no other
  part of the invariant than its type), `NothingLeftOpen`, `OneShutdown`, `NobodyNew`, and, with the
  further fact that a server closes only in a shutdown, `ShutdownGetsOn`.
* `SessionProofs`, for any number of tabs and tokens. `IInv` follows the
  requests in flight, since a cookie changes only when an answer arrives: after
  a logout none of them can attach a session (`LoggedOut`), once a tab agrees
  each CSRF request carries that token (`Agreed`), a refresh by itself carries
  the cookie of the jar (`Refreshing`), and a sure session is good unless the
  answer that replaces it is on its way (`Usable`). `LiveSessionKept` goes over
  the answers that clear: what each status can clear is part of the invariant. `AgreedLoginPasses` adds to
  it that a login keeps the token it was sent with; `SettledStaysSo` shows from
  the requests in flight that only a clearing can unsettle a browser.
* `RequestPathProofs`, for every catalogue of handlers and any timers that
  satisfy the three assumptions. `IInv` places every call by its stage: earlier
  ones are known to have succeeded, later ones are untouched (`EarlierDone`,
  `LaterUntouched`), what is known to have succeeded was done (`OkIsDone`), and
  a handler that was told of an error had no acknowledged write
  (`ErrorBeforeWrite`): by `CompensationAssumption` the write is all its last
  stage waits for. `InTime` uses
  `ClocksAssumption` where the breaker gives a call up (`CallOnTime`: its deadline
  has passed), and the plan's assumption on optional calls where the next stage
  sets the clocks back to zero (nothing of the stage before is still on the
  channel). `Implements` is the refinement of `HandlerPromise`.
  `AnswersStayTrue` follows from `FoundedStep`: what a handler knows of a call
  changes once (`KnownStays`), whatever replies come late. With `StageFired` (the
  calls of the present stage have been sent) the invariant gives
  `NothingWaitsForNothing`. `OkIsReliable`, `OrderedEffects` and `AnswerIsFinal`
  are proved of `HandlerPromise` (`PromiseInv`) and carried over by the
  refinement. That the real controllers satisfy the assumptions is checked by
  TLC on the catalogue, so the theorems hold for the gateway as far as the catalogue is right.

**The safety half of liveness.** The prover does not handle fairness and
`ENABLED`, so the six liveness properties are only model-checked. What they rest
on is proved nevertheless, for every value of the constants: that what waits
has something under way that ends its wait, and that no step undoes the
progress of another. What remains to TLC is that fair steps are then taken.

| Liveness (TLC) | Proved safety half | What it says |
|---|---|---|
| `GuardAnswers` | `GuardNeverStuck` | a waiting guard has a command under way (`CommandUnderWay`); every change of it is a step further on (`GuardOnward`) |
| `EveryRequestAnswered` | `NothingWaitsForNothing` | an unanswered request has a step, a timer or a call that is due (`NoDeadEnd`) |
| `EventuallyFresh` | `StaleAges` | while the users do not change, no fill starts to carry an outdated listing, and an outdated entry loses lifetime at every tick |
| `ErrorsFade` | `ErrorsStayAway` | while the service is up and no malformed query is under way, an error that is gone does not return |
| `ShutdownEnds` | `ShutdownGetsOn` | a wait for the server is for one that is closing (`WaitHasCause`); nobody connects to it meanwhile (`DrainOnlyShrinks`) |
| `CsrfConverges` | `SettledStaysSo` | once there is one cookie and nothing else on its way, only a clearing sets the tabs apart |

`CommandUnderWay`, `GuardOnward`, `NoDeadEnd`, `WaitHasCause`, `DrainOnlyShrinks`
and the three properties of `HandlerPromise` are stated in their modules and
listed in no configuration: they held in TLC on the instances of the runs
before they were proved.

**The refuted claims, with their cause excluded.** The three violations are
counterexamples to what the code says of itself. A theorem for each shows that
the run has found the cause and not one of several: `DisjointOpsSync` (the
stores agree on every behaviour in which no two operations on one key overlap),
`OneRoleRefusedRightly` (the refusal is right on every route that asks for one
role), `OnlyFalsePositivesMislead` (an address called taken is registered, if no
address's bits are covered by those of others).

### What the models show of the code

Behaviour that a reader of the code may not expect; the properties state what
holds in spite of it.

* A signal that arrives while `initialize()` waits for Redis runs `shutdown()`
  to its end, and `initialize()` then opens the server, the client and the
  metrics again (`early`).
* A 401 of any auth route - a refused login, but also of register, OAuth, an
  OTP or a reset password when the service answers UNAUTHENTICATED - clears the
  cookies of a session that is still valid, although the comment of
  `errorHandler` speaks of a failed refresh (`errorHandler.ts:115`). Of two tabs
  that refresh at once, the one that loses clears the cookie the other was just
  given. `SessionKept` lists every way a live session can end: these two, any
  other answer that raced a request, and a logout that succeeded.
* A malformed query is validated behind the cache: its 400 is stored like a
  listing, under the key of the request without parameters, with the service up
  (`cache.middleware.ts:59`, `admin/v1/controllers/index.ts:214`). `ErrorsFade`
  promises an end only once such queries end.
* Shutdown waits for connections and for nothing else: a handler whose client
  has gone, and the fill or invalidation after an answer, may find Redis quit;
  the rejection is only logged. `CacheOutlivesClients` says that no client is
  affected, not that no work is.
* A logout that ends in a 401 gets no response at all; neither does a
  certificate download whose stream breaks after its first chunk. Such requests
  hold a shutdown up for as long as their clients stay.
* A breaker gives up no call that has time left by its deadline
  (`GivenUpInTime`), but only because the payment client sets its own timeout;
  the deadlines are written in the controllers and nothing compares the two.
* Ten handlers can answer an error after a write was acknowledged, because a
  further call failed and nothing is undone (`WritesThenMore`).
* What undisturbed histories guarantee is all that some properties can say:
  fills that overlapped an invalidation (`lost` and the `calm` of readers and
  writers), operations that overlapped or failed (`taint`), and Bloom filters
  that were restarted while writing, overwritten or failed to load (`calm`) are
  exempt, because the code does go wrong there. The properties bound how far (`EventuallyFresh`,
  `StaleOnlyAges`, `TakenIsCovered`) or when not.
* The retry policy of the channel names the service without its package
  (`client.ts:94`), so grpc-js may not apply it at all; `Run` and `CallRetried`
  allow retries, and nothing relies on them.

## 5. Not modelled

* Generated protocol code: about 63,000 of the 88,000 lines. It is never
  executed (`protoLoader.loadSync` reads the `.proto` files at run time, and the
  code imports only types and enums), so there is no behaviour to model, and the
  share of lines the map covers stays small for that reason.
* Signatures, token expiry times, schemas, response mapping, headers, logging,
  metrics: data that no property tells apart.
* The counting of the rate limiter: it is in `rate-limiter-flexible` and Redis;
  a refusal is a step of `Session` and `RequestPath`. Recorded as a hazard: the
  options passed as `undefined` that overwrite the defaults.
* Object keys of uploads: the uploads go from the browser to S3, past the
  gateway. Recorded as a hazard: two uploads that share a key.
* Which queries share a cache key, and the second envelope around a cached
  answer: contents are abstract in `ResponseCache`. Recorded as hazards.
* The course-name filter: the base class is that of the email filter, its facade
  has no caller, so no answer depends on it. Its page limit is a hazard.
* Code without a caller (last rows of the inventory), the health controller,
  observability and dependency injection.
* What the services do with the calls they get, except for the effects the
  gateway relies on (marked external in the map).

## 6. Plan

Done: the shared state of account access, the response cache and the email
filter; the machinery under every request (`RequestPath` over the whole
catalogue), start and stop (`Lifecycle`), and the cookies (`Session`).

What is left, each of it small:

1. A rate limiter (window, block duration, a Redis that fails), once its
   options are settled.
2. `withLock`, `getWithSWR` and `getOrSet` of `RedisService`, when something
   calls them; abstract specification: a mutual exclusion with expiry.
3. Course names as a second instance of `EmailAvailability` with the page
   limit, when the facade has a caller.
4. An abstract specification of account access (the verdict administrators know,
   and what a request may be answered under it), implemented by `AccountAccess`,
   from which `NoEntryUnderBlock` and `NoRefusalWithoutBlock` follow.
5. Proofs: a bound on the length of a guard and of a drain, as a number; today
   `GuardOnward` and `DrainOnlyShrinks` give the order that such a bound counts.
