# LLM gateway: TLA+ verification project

The gateway takes one chat request, tries a chain of free-tier models until one
answers, streams the answer to a browser, and keeps the books: which provider is
down, how much of each quota is spent, which answer and which reading of a
document was stored. These modules model that as it is written in `app/` and
`frontend/lib/`, check it with TLC on small instances, and prove the central
invariants with TLAPS for every value of the constants.

## The system and what is hard about it

| Part | State it keeps | Operations | What is hard |
|---|---|---|---|
| Circuit breaker (`app/routing/circuit_breaker.py`) | one Redis hash per (provider, model), shared by all processes | `allows`, `_claim_probe`, `record_success`, `record_failure` | several Redis commands per operation, no transaction; callers that die holding the probe; expiry |
| Quota tracker (`app/quota/`) | counters per window, one hash per reservation | `reserve`, `commit`, `release`, `apply_hint` | windows that end between reserve and settle; three lanes on the same counters; hints applied by read and write |
| Router (`app/routing/router.py`) | one request's loop: chain, attempts, trail | `route`, `route_stream` | one budget shared by retries, re-fits and failovers; cancellation anywhere |
| Provider adapters (`app/providers/`) | one call's buffers and deadlines, a context variable | `complete`, `stream`, `validate_key` | keepalives without progress, frames cut in half, refusals that look like successes, hints that outlive their call |
| Streaming (`app/streaming/`) | `_Turn`, pending frames | `stream_completion`, `_apply`, `Collector.persist` | restarts deferred to the next token; the reader leaving at any point |
| Browser (`frontend/lib/hooks.ts`, `sse.ts`) | the pending turn, the pages of a thread | event handlers, stop, load older | what is shown must be what is stored |
| Chat endpoint, idempotency, exact cache (`app/api/v1/chat.py`, `app/cache/`) | claim record, cached answers | claim, complete, release; get, put | a claim that outlives its request; writes ahead of the commit |
| Conversation store (`app/db/repo/messages.py`, `conversations.py`) | one row per thread, its messages by `seq` | `append`, `load`, `page`, `delete` | overlapping turns; a thread deleted under a turn; transactions that die holding the row |
| Memory (`app/memory/`) | none of its own | `validate_append`, `fit`, `render` | what may be dropped to fit a window, and what must be said about it |
| Perception and upload (`app/perception/`, `app/api/v1/files.py`) | object, owner rows, a row and a Redis copy per reading, a lock | `upload_file`, the tier chain, `extract_with_llm`, `persist` | one reading for everybody, tiers failing one by one, a lock that expires under its holder |
| Credentials (`app/keys_resolution/`, `app/api/keys.py`, `app/db/repo/provider_keys.py`) | the rows of a user's provider keys | add, remove, re-check; `_load_once`, `record_auth_failure` | two statements that must be one, verdicts that arrive after the key has changed |
| Authentication (`app/auth/`) | the JWKS cache of a process | `get_principal`, `JwksCache.get` | requests queueing on one lock, rotation, outages |
| Rate limiter (`app/deps.py`) | two buckets per window in Redis | `enforce`, `_refund`, `_retry_after` | refunds that cross a boundary, pipelines cut or sent twice |
| Selection, latency table (`app/routing/selection.py`, `app/usage/metrics.py`) | an average per model | `candidates`, `record` | not modelled; see below |

They meet in one request. It passes the gate (authentication, rate limiter); the
endpoint claims its idempotency key, appends the question to the thread, looks
in the cache, and calls the router. For each candidate the router renders the
history (documents through perception, then fitting), asks the breaker, reserves
quota, calls the provider through its adapter, settles and reports. A stream hands its events
to the orchestrator, which writes frames to the browser and the turn to the
collector, which appends the answer to the thread.

## Modules

| Module | Models | Composes |
|---|---|---|
| `CircuitBreaker` | the breaker hash and its callers | |
| `QuotaTracker` | the counters of one model, its lanes and personal cap | |
| `Router` | `route` and `route_stream` | |
| `StreamContract` | abstract: what a reader of the stream is promised | |
| `StreamOrchestrator` | `stream_completion`, the priming endpoint, the browser and the collector's row | `Router`; implements `StreamContract` |
| `ChatEndpoint` | the requests of one idempotency key: claim, exact cache, turn, rows, replay | |
| `Perception` | one document: upload, tier chain, single flight, row, Redis copy | |
| `ProviderReply` | operators: what each adapter makes of a reply | |
| `ProviderAdapter` | one call after another over an unreliable connection | `ProviderReply` |
| `Conversation` | one thread, its turns, its deletion, a browser paging through it | |
| `Fitting` | operators: rendering, estimating, dropping, cutting, payloads | |
| `Render` | the renders of a turn's candidates, re-fits included | `Fitting` |
| `JwksCache` | the key set, its lock and its floor | |
| `Gate` | `get_principal` and the rate limiter | `JwksCache` |
| `Credentials` | one user's key for one provider | |
| `*Proofs` | theorems | the component; `SharedStateProofs`: the breaker and the quota; `RequestProofs`: the key and the prompt |
| `MC*` | TLC instances | the component; `MCRouting`: the breaker and the router; `MCProvider`: the prompt and the reply |

A definition named `(* Slip: ... *)` stands before the definition it is a
faulty variant of. No specification uses it; each is the seeded bug that one
property must catch.

### CircuitBreaker

`hash`, `elapsed` (time since `opened_at`) and `ttl` are the Redis key;
`command[r]` says which command request `r` sends next and `dec[r]` holds its
`BreakerDecision`. Every action is one Redis command, because that is where
callers interleave: `allows` (`AllowClosed`, `Refuse`, `CooldownElapsed`),
`_claim_probe` (`Claim`, `Mark`, `LeaseAlive`, `LeaseStale`, `Steal`),
`record_success` (`Succeed`, `CloseProbe`, `ResetStreak`, `Unclaim`) and
`record_failure` (`FailEligible`, `FailIneligible`, `ReadCooldown`, `Count`,
`Open`). `_write` is HSET and EXPIRE; `TornWrite` is the command that took
effect while its answer was lost, `RedisError` the one that did not, and `Lose`
the caller that never reports, all within `MaxFaults`. `Tick` is time, which
ends the key when its TTL does. Counts saturate at the threshold: no guard
tells larger ones apart. An `open` step that belongs to a probe also clears
the holder in the next command (`Unclaim`).

### QuotaTracker

`counter[k]` and `hasTtl[k]` are the Redis keys of one model: `rpm`, `tpm`,
`rpd`, the perception lane's own daily key and a user's personal cap. The Lua
scripts are atomic in Redis and so are `Reserve`, `Commit`, `Release`;
`_apply_one` is three commands and so three actions (`HintGet`, `HintTtl`,
`HintSet`). `Refused` is a reservation that is turned down and writes nothing.
`inWindow`, `spend` and `drift` are history: which windows a reservation was
charged in, what each window really cost, and which of six causes made a
counter wrong: a settlement taken from the window after its own (`straddle`),
come after the 120 seconds (`late`) or lost on the way (`lost`), an attempt
cancelled before or after its answer began, which nobody settles (`cancelled`),
a settlement told less than the provider charged (`untold`), and a hint set over
newer reservations (`hint`). `Commit` takes both what the router is told and
what was charged: it commits no input tokens for a stream that failed
(`router.py:880`), nothing at all for a call that did, and an estimate for a reply
without usage. `WindowEnds` is expiry, `ReservationExpires` the 120 seconds.

### Router

One request: `chain` is the number of candidates, `pos` the present one, and
`pc` the place in the loop. Whether the breaker and the quota admit a candidate
is left open here, since any answer is possible. `route` and `route_stream` are the
same loop; `mode` tells them apart where they differ (events, deltas, the rule
that an attempt that spoke is not retried). `Close` is the generator closed or
cancelled at any await. The error classes are the three sets of flags.

### StreamContract and StreamOrchestrator

`StreamOrchestrator` runs `Router` step by step: `Drive` while the
orchestrator waits, `Apply` for `_apply`, `SendFrame` for each frame and what
the browser makes of it, `Heartbeat`, and the ends of a turn: `Raise`,
`FailInBand`, `Persist`, `PersistFails`, `BodyEnds`, `Stop`, `ConnectionDies`,
`NoticeGone`. Text is one record of attempt and candidate per delta, so every
property about text is about who wrote it. `StreamContract` knows only what a
reader can see; the mapping is the browser's own fields. `Init` fixes the
router's `mode`: an orchestrator drives `route_stream`, never `route`.

### ChatEndpoint

Requests that carry one `Idempotency-Key`, or none (`NoKey`). `env` is the
Redis envelope, `cache` the exact cache by question, `ticket[r]` a
`ClaimTicket`, `got[r]` the answer in hand (named by the request whose provider
call wrote it, so a hit or a replay is visible as such) and `row[r]` the
assistant row committed. `pc[r]` follows `create_chat_completion`: the SET NX
(`Claim`, `Taken`), the GET after a collision (`Vanished`, `Conflict`,
`FindsDone`), `_serve_replay` (`Replay`, `Unreplayable`), then
`_serve_completion` (`Resolve`, `ReadHit`, `ReadMiss`, `Answered`) or its
streaming twin (`FirstFrame`, `StreamDone`, `StreamFails`, `Played`). The order
of the writes is the code's: the endpoint, and a cache hit, commit the row
(`StoreRow`), put the cache (`Put`) and complete the claim (`Complete`); the
collector of a live stream does the last two inside its transaction (`Append`,
`Put`, `Complete`, `Commit`). What goes wrong: `FailsOpen`, `Resent` (the
Redis client of `uv.lock` resends a command whose answer was lost),
`SettleFails`, `StoreFails` and `Dies`, at most `MaxFaults` times together;
and `ReaderLeaves`, which is no fault. `orphans`, `dropped` and `turns` are
history. A question stands for everything `request_hash` folds in; each request
opens its own conversation, so that the same question is the same history.

### Perception

One document by its hash: `object` is the bytes in storage, `owners` the rows of
`files`, `row` the reading in Postgres, `cached` the one in Redis and `lock`
whose token the Redis lock holds. `turn[u]` is what `u`'s request does: an
upload (`Upload`, `CheckObject`, `PutObject`, `ClaimFile`, `UploadFails`), or a
turn that renders the document once per candidate (`Ask`, `Render`, `Finish`).
A render walks the tiers: `load_cached` (`GetCached`, `SelectRow`, `WriteBack`),
native bytes (`Tier1`), the model (`Tier2`, then `Acquire`, or `Poll` and
`WaitExpires`, the re-check `LookUnderLock`, the candidates `SkipCandidate`,
`Call`, `CallReads`, `CallFails`, the stores `Upsert` and `Publish`, and
`Unlock`, `DeleteLock`), a held-back local reading (`Fallback`) or OCR
(`Tier3`). Every store has its failing twin and `Dies` kills a worker, within `MaxFaults`.
`Redeploy` switches `PERCEPTION_LOCAL_ONLY`. A reading is its tier and the grade
`sections` and `grade` give it (`Grade`); OCR's yield decides `LocalReading`. `excused` is
history: the lock expired under its holder, was never taken, or was no longer
waited for, or a store failed, so that a second reading is nobody's mistake.

### ProviderReply and ProviderAdapter

`ProviderReply` has the reply as far as the adapters read it and the operators
`Read*`, `Classify*`, `RetryAfter*`, `Usage*` and `Key*`, one per provider where
the code has one per provider. `ProviderAdapter` runs them: `NewRequest`, `NextAttempt`
(the router's), `RespondError`, `Complete`, `CheckKey`, `TransportFails`, and a
stream of SSE lines that the provider writes (`WriteFrame`, `WriteRest`,
`KeepAlive`, `Hangs`) and `_stream_events` reads (`ReadData`, `ReadBlank`,
`ReadNoise`, `ReadEnd`, `ReadFault`) under two clocks (`IdleStall`,
`FirstTokenStall`), while the consumer asks for more or leaves (`AskNext`,
`Abandon`). A data line may be half an event. `hint` is the context variable
the router drains after the call; a stream's publication is lost to it, as in
the code, where each step of the generator runs in a task of its own.

### Conversation

Transactions on one thread: `Begin`, `Lock` (SELECT ... FOR UPDATE),
`LockMisses`, `Insert`, `Commit`, the read of the history that is routed
(`ReadHistory`), and the answer's own transaction (`InsertAnswer`,
`RefuseAnswer`, `CommitAnswer`); `GiveUp` is a turn without an answer, `Dies` a
process or connection lost anywhere, `Delete` the user's. `ValidAppend` and
`Valid` are `canonical.py`'s. `view` is the browser's `useConversation`: the
newest page in SWR's cache (`LoadHead`, on showing the thread and after every
turn) and the older ones in the component's state, fetched by cursor (`AskOlder`,
`OlderArrives`, `OlderFails`). Showing another thread (`Leave`) drops neither
the pages nor a fetch under way: they are kept against this thread's id until
the other's first page takes their place (`AskElsewhere`, `ElsewhereArrives`,
`ElsewhereFails`), the component goes (`Unmount`) or the tab is loaded again
(`Reload`). `slid` is history: the head was read again, and begins later, while
there were older pages or one was asked for. The two rows that
`applyOptimisticTurn` puts under the head until the revalidation are left out.
The log keeps its rows as they were committed, and the reads order them as the
queries do: `Sorted` gives each row the place of its rank (`ORDER BY seq`),
`GetLast` takes the row with the largest `seq`, `Under` the rows below a cursor.
That rows are also committed in that order is a theorem, not an assumption.

### Fitting and Render

`Fitting` has the arithmetic of `render.py` and `fitting.py` as operators: what
a document costs as bytes or as text (`NativeTokenCost`, `Materialize`), the
input budget, which messages are pinned and which go together (`Pinned`,
`TakesItsAnswer`), what is dropped (`DropOldestTurns`, `Marked`), one round of
`_truncate_documents` (`CutOnce`) and the payload each adapter builds. Text is
its length. Sums (`SumOf`) and selections (`Pick`) are recursive functions, so
that they can be reasoned about. `Render` is a thread that grows (`Ask`, `Answered`,
`OtherTurnAnswers`) and is rendered for each candidate (`Try`, `Shorten`,
`Truncate` round by round, `RenderSends`, `RenderOverflows`, `NoRoom`), and
once more when the provider says its window is smaller (`Rejected`, `Refit`).

### JwksCache and Gate

`JwksCache` keeps `keys`, their age, the age of the last attempt and the queue
of the `asyncio.Lock`; a request that must fetch goes through `Enter`, `Send`,
`FetchArrives` or `FetchFails`. Supabase rotates (`Rotate`) and fails (`Flip`).
`Gate` adds the two ways to a principal and the limiter: `CountWindow` is the
pipeline of `_count` for all windows at once, `Grant` and `Refuse` what
`_raise_if_over` decides, `GiveBack` the refund. `CountFails`, `CountResent`,
`RefundFails`, `RefundResent` are the pipelines that fail or that the client sends again.
`RetryAfter` inverts `SlidingCount`, in ticks. `GrantsSlide` weighs the last
bucket as it is when the request is let through, which may be a tick after it
read the clock; with the older reading the bound is false (limit 5, width 2, two
requests at the boundary).

### Credentials

`rows` is the committed table for one user and provider. An endpoint is a
READ COMMITTED transaction: `Deactivate` is the UPDATE, which waits for rows
another transaction has written (`DeactivateAfterWait`) and does not see those
inserted meanwhile; `Insert` waits for, and `InsertRefused` is refused by, the partial unique
index. `CommitAdd`, `CommitRemove`, `Record` (re-check) and `MarkInvalid` (a
turn whose call was rejected) change the table; `Flip` is the provider changing
its mind, `Lose` a lost connection.

## Runs

| Run | Checks | Bounds |
|---|---|---|
| `routing` | the breaker: `StateIsSound` (types, the cap, the TTL outlives the cooldown), `TripIsPending`, `ComesBack` (probed again; let back after recovery); the loop: `FailoverIsNotStarved` (the last attempt is an untried candidate's; only the last candidate's retry goes over), `RetriesAreEarned` (flags; a broken stream moves on), `BooksAgree` (attempts, breaker, reservations, error) | the breaker: 2 requests, threshold 2, cooldown 1, TTL 2, a hint above the cap, one fault; the loop: chains of 1..3, 3 attempts, every error class, one delta |
| `quota` | `CountersAreSound` (never negative; expire), `CountsWhatIsSpent`, `GrantsWithinLimit`, `LanesShareTheDay` | 2 callers in any lane, 3 requests a day, 3 tokens a minute, up to 2 a call, cap 1, hints |
| `stream` | `StreamIsConsistent` (envelope or bytes; row, screen and attempt agree), `KeepsTheContract`, `SalvageCoversTheScreen`, `TurnEnds` | chains of 1..3, 3 attempts, 2 deltas, 3 error classes |
| `chat` | `OneTurnPerKey`, `OnlyDroppedTicketsLock`, `ServesTheRightAnswer` (its question's; cached whole), `ReplayableIsStored` | 3 requests, a cacheable question plain or streamed and another plain, one fault |
| `perception` | `StoresAgree` (owned is stored; the cache never leads the row), `ReadOnce`, `ReadingsAreKept` (no downgrade, no trace of the demo, one rendering a turn), `TurnsEnd` | 2 users, one turn each after their uploads, 2 renders, 2 kinds of document, 4 upload bodies, 2 reading models, one fault |
| `provider` | the reply: `ReadsTheReply` (what a provider declines, waits, usage, hints, key verdicts), `WholeOrError`, `SilenceIsBounded`, `CallsEnd`; the prompt: `FitsOrIsHopeless`, `OmissionIsHonest` (whole turns, told, documents last), `CuttingEnds` | the reply: 3 providers, streams of up to 3 frames whole or halved, idle timeout 2, first token 1, 5 to 10 errors and 6 to 10 bodies each; the prompt: 5 messages, 3 documents, 4 models, 2 surprise windows |
| `history` | `HistoryIsValid` (order, alternation, deleted is gone), `ReadersSeeTheStored` (prompt; pages join, and join the head until it slides), `TurnsEnd` | 2 turns at once, up to 5 rows, pages of 2, three shapes of request |
| `gate` | `BucketsAreExact`, `RetryFits`, `GrantsSlide`, `KeySetIsCurrent` (floor; trust), `GateOpens` (requests end; rotation is seen; no lock-out) | 2 requests, 2 keys and a made-up one, key TTL 3, floor 2, windows of 2 and 4 ticks, limits 2, one fault |
| `credentials` | `TableIsSound` (one live key; rejected means rejected), `KeysChangeWhole`, `VerdictsArrive` | 2 requests, 2 keys, 2 rows, one fault |

`MCRouting` and `MCProvider` put two components that share no variable into one
instance, as `Gate` does with its two kinds of deployment: which of them moves is
chosen at the start, so the states are those of the one and those of the other.
`ReadsTheReply` excludes OpenRouter's moderation inside a 200 (`Moderates`),
`SettledAfterTheCall` a stream closed by its reader (`gone`), and
`OnlyDroppedTicketsLock` the tickets nobody settles (`dropped`).

Why these are enough: two requests are what a race on a hash, a lock or a row
needs, and a third only repeats one of them; a threshold of two tells "counted"
from "tripped", a TTL of two outlives the longest cooldown by one as the real hour
outlives five minutes. Two callers come again after each settlement, so they
fill a window of three and race for its last place; three a day makes the
rounding of headroom and share visible. Three candidates let a failover follow a
failover, with a budget that runs out before the chain, with it and after it.
Two deltas tell a whole answer from a part of one. The error classes of the
stream run are one that is retried, one that is only failed over, and one that
ends the turn. Three requests on a key are one that holds it, one that collides
with it and one that comes after. Two users are a reader that holds the lock
and one that waits for it, and either may have the other's reading to find. An
idle timeout of two ticks is longer than the first-token budget, as in the code,
and three frames are a first delta, another and a terminator. A request may
begin while the thread has room for four rows, so that five are two full turns
and a question, a page of two leaves two pages behind, and the head slides. The lengths
of `MCProvider` put a prompt just below and just above each limit. The nested
windows share boundaries as minute and day do, and every interleaving with
them happens within two ticks; the deployments with and without sessions share
no variable, so `Gate` chooses one at the start. A request stays in the limiter
for less than a tick and so crosses at most one boundary, as the Redis timeouts (5 s)
are shorter than the shortest window. With two rows a key is added and replaced
once, with the other request anywhere in between.

Deadlock is checked in every run but `history`, where a deleted thread with no
turn left is the end.

### Runs that end in a violation

Each states what a comment or a document of the repository says, on the module
of its component's run, and TLC finds a trace of the code against it.

| Run | Property | What the trace shows |
|---|---|---|
| `router_cap` | `AttemptsAreCapped` | the last candidate fails on attempt three, nobody is left to yield to, and its retry is a fourth request (`router.py:1108`). `router.py:195` says "At most `MAX_ATTEMPTS`", ADR-015 "One budget of three upstream calls per message" |
| `perception_label` | `LabelIsTheReader` | a turn that waited for the lock finds, in its re-check, a local reading and serves it as the model's, without asking the model (`extractors.py:322`). `lane.py:25` says such a row is "held back as a *fallback*" |
| `history_pages` | `TranscriptIsWhole` | an older page is loaded or on its way, a turn is stored, the head is read again and begins later; paging goes on from the old cursor (`hooks.ts:117`), and the messages between are not on the screen. `hooks.ts:161` says "The whole transcript on screen: every older page loaded, then the head" |

### Smaller disagreements

Met while modelling, contained in the modules and excluded by name from the
properties they would break. No run singles them out.

*Breaker and quota.* A second caller that asks between the probe holder's HSETNX
and its lease judges it by the old `opened_at` and takes the probe over
(`LeaseStale`). A success that read a count of zero resets nothing, so failures
on both sides of it add up (`Succeed`). A probe decided on before another
caller closed the breaker takes it from closed to half_open (`Claim`, `Mark`).
A refund may be taken from the window that replaced its own, and a hint's SET
may undo a reservation made since its GET (the `"straddle"` and `"hint"` of
`drift`). A hint's SET KEEPTTL on a counter that has just expired makes one
that never expires (`tracker.py:584`). A commit after the reservation's 120
seconds drops the answer's tokens, which the estimate never held
(`commit.lua:25`), and so does a call cancelled in mid-answer
(`orchestrator.py:388`). A stream that fails is committed with no input tokens
(`router.py:880`).

*Router and stream.* A stream closed by its reader keeps its reservation: only
a `ProviderError` settles it (`router.py:872`), although `sse.py:256` says of a
disconnect "commit tokens". A reader who leaves a stream leaves its idempotency
key locked for a day: the orchestrator returns without the collector
(`orchestrator.py:348`), and `idempotency.py:453` says that whoever holds a
ticket "must call exactly one of `complete` or `release`". A reader who stops
after `done` is told "not saved" of an answer that is (`Stop`). A live stream's
claim is completed before its row is committed, so one cut in between leaves
the replay of a message that is not there (`collector.py:190`).

*Adapters.* OpenRouter's refusal of a prompt in the body of a 200 is
`Unavailable`, since `_classify` looks for moderation only behind status 403,
and the prompt goes to the next provider; `openrouter.py:451` calls that to
"launder the refusal onto the next provider". A streamed call's quota hint is
lost: `orchestrator.py:340` makes a task of every `__anext__`, and the context
variable stays in it (`base.py:91`). Perception's calls never drain theirs. An
idle stall is blamed on the provider when the consumer was slow and data waits
unread (`base.py:444`). A blank line does not reset the deadline, although
`_stream_events` says so. A stream of white space counts as an answer. Gemini
leaves out native files of a system message.

*History and fitting.* Overlapping turns make a history the validator refuses
on the next append (500), and one turn's answer may survive fitting
without its question. A thread deleted between commit and read routes an
empty history.
`_truncate_documents` also cuts documents that no surviving message refers to;
a file attached twice is sent twice and reserved once (`render.py:299`); native
files of dropped messages are still counted by the estimate. The gateway's own
`ContextTooLong` carries the budget as the limit, so a re-fit after it cannot
succeed.

*Perception.* `_Lock.release` is GET and DELETE, and may delete the next
holder's lock. `persist` publishes what it meant to store, not the row
`upsert` returns. A reading whose storing fails at the last tier is a 422
though it was read. A cancelled reading leaves its reservation.

*Gate and credentials.* During a cold outage a throttled unknown `kid` is a 401
although the comment says 503 (`jwt.py:176`). `Retry-After` reports only the
first window that is over, so its expiry can meet the second one; the docstring
says such a header "is worse than no header at all". Requests that are
refused together count against each other until they are refunded. Two
replacements of one key at once end in a unique violation (500). A re-check of
a key removed meanwhile still answers `pool="private"`, and a re-check under
way can put "valid" over a fresher rejection until the key is next used.
`touch_last_used` locks rows in no fixed order; Postgres aborts one side.

## Fairness

* `routing`: a request of the breaker that has begun an operation finishes it (weak
  fairness on each request's own steps: every Redis command returns or times
  out after `SOCKET_TIMEOUT_S`), time passes, and requests keep coming. Faults
  and provider outages are not fair. Recovery assumes only that the
  provider is up from some point on. The failover loop is checked for safety only.
* `stream`: the orchestrator goes on while it can (a provider call ends
  in an answer or in one of `timeout_s`, `first_token_timeout_s`,
  `idle_timeout_s`) and the browser reads to the end. Heartbeats, stops and
  dead connections are not fair, and no candidate is assumed to succeed.
* `perception`: each request's own next step; every await of it has a timeout.
* `provider`: the reader of a reply, its deadlines, httpx's timeout on an unanswered
  request and the consumer's next request are weakly fair, time strongly,
  because keepalives interrupt its waiting again and again. The
  provider owes nothing. The loop over a prompt's documents awaits nothing.
* `history`, `credentials`: strong fairness per request, because Postgres
  queues those who wait for a row and grants it in turn.
* `gate`: a request that is under way goes on (`asyncio.Lock` is first come,
  first served). `RotationIsSeen` and `NotLockedOut` assume that time passes and
  that such requests keep coming; the latter holds with no more of them at once
  than the limit, and a pipeline that fails lets its request through.
* `chat`, `quota`: safety only.

## Theorems

All proofs are checked to the last leaf; the constants are only assumed to be
what the named `ASSUME`s of each module say. Every safety property of the
passing runs is proved, and with `stream`'s the refinement of `StreamContract`.

What is assumed of the constants, beyond their being numbers: thresholds and
caps are positive and in the order the settings have them (breaker); an upload
that is accepted has the size of its document, and no user has the name of the
lock's other owners (`UploadAssumption`, `PerceptionAssumption`); a request has
at least one message, and ends with the user's (`ConversationAssumption`);
requests are finitely many, the minute, hour and day divide one another, each
is counted once, and one is the widest (`JwksAssumption`, `GateAssumption`);
frames, bodies and errors have the fields the adapters read, and a provider
asks for waits short enough that a date and a number of seconds cannot be
confused (`AdapterAssumption`, `Plausible`); sizes are numbers, and uploads and
models have the fields that `ResolvedAttachment` and `ModelSpec` have
(`FittingAssumption`, `RenderAssumption`).
Two facts about names are assumed as well: `Nobody` is no turn, and `NoRequest`
no request.

* `SharedStateProofs`, the breaker: `BreakerTypeCorrect`, `TtlCorrect`,
  `TripCorrect`, and `StateCorrect`, which is the first two. The TTL argument
  needs, beside the types, that no request holds a cooldown that is
  longer than the cap, and that a tripped hash was written by a `_write`; the trip
  argument follows the request whose HINCRBY reached the threshold (`TripInv`).
* `SharedStateProofs`, the quota: `TypeCorrect`, `CountsCorrect`,
  `GrantsCorrect`, `CountersCorrect`, `LanesCorrect`. The strengthening relates
  what a slot's live reservation was charged to what its windows count
  (`RequestBound`), so that a refund in the same window takes back only what
  was put there. What every ending of a call does to the real cost of its
  windows goes through one lemma (`ReckonFacts`), which names the cause
  wherever more was spent than the counter will show (`SettleCauses`,
  `UncorrectedCauses`, `HintCauses`); a cancelled stream is one of them.
  `LanesCorrect` rests on lemmas about the rounding of the share.
* `StreamOrchestratorProofs`, the router: `RouterTypeCorrect`, `CapCorrect`,
  `YieldCorrect`, `SettledCorrect`, `BudgetCorrect`, `EarnedCorrect`,
  `BooksCorrect`, of module `Router` by itself and in both modes. `CapCorrect` says
  what the code does keep, that nothing but the last candidate's retry goes over
  the budget; that this one does is `router_cap`. It is inductive
  only with the budget each place in the loop still has (`WithinBudget`): an
  attempt is under way only if the loop's guard, a re-fit's guard or the retry
  rule allowed it. The books need the trail read step by step: it only grows
  (`TrailGrows`), each retry in it was earned when it was made (`Earned`), what
  was sent is finite and counted (`SentCounted`), and every candidate asked has
  been reported or is about to be (`Asked`, `Told`).
* `StreamOrchestratorProofs`, the turn: `RouterInside` says that every step of
  the composition is one of the router or leaves it alone, so
  `RouterHoldsInside` carries the theorems above into it. `StreamConsistent`,
  `SalvageCorrect` and `ContractKept` share one invariant. Nothing about the
  screen is inductive alone: it needs the events on their way (`EventFollows`),
  the buffer as exactly the deltas of the present attempt (`TurnFollows`,
  `TextOf`), the frames not yet sent (`FramesFollow`), the screen as the buffer
  less those frames (`ScreenFollows`), and a restart owed to a candidate that
  will not be asked again (`LeftBehind`). The contract's bound on restarts
  follows from the router's on attempts, each restart having one behind it
  (`RestartsFollow`). `StepRefines` then takes each step to one of
  `StreamContract` or to a stutter.
* `ChatEndpointProofs`: `TypeCorrect`, `OneTurnCorrect`, `LockCorrect`,
  `AnswerCorrect`, `CacheCorrect`, `RightAnswerCorrect`, `ReplayCorrect`. The
  inductive invariant adds where a request can be with what in hand
  (`Places`), that the envelope names whoever is served or was stored (`Owned`),
  that a locked key has a holder still to settle it or a dropped ticket
  (`Locked`), that a cached answer's request is past the place where it could be
  found degraded (`Cached`), that an envelope's answer is to its fingerprint's
  question (`Asked`) and is its owner's (`Rows`). `OneTurnPerKey` alone is not
  inductive: nothing in it says that the holder's envelope is still there.
* `ProviderAdapterProofs`: `SilenceEnds`, `StreamsAreWhole`,
  `RepliesAreUnderstood`. Silence is bounded because a data line on the wire was
  written just now (`SilenceInv`). That a stream which ends well lost nothing
  needs to know, at every line, which part of which event is on the wire, in the
  buffer and still to be written (`EventInv`), and that the events read are a
  beginning of those written (`FramesInv`); half an event in the buffer is then
  the only way to be short of one, and it is no JSON. What a reply is taken for
  needs each outcome tied to the reply it came from (`ReplyInv`), what the
  frames of a stream have reported so far (`StreamInv`), and that a hint is put
  down only while its attempt is under way (`HintInv`). What counts as declined
  is stated apart from the adapters (`Declines`), and OpenRouter's moderation
  inside a 200 is left out of the theorem by name (`Moderates`), since the code
  moves it on.
* `RequestProofs`, the key: `TableCorrect`, `WholeCorrect`. "One live key" is
  inductive only with what the unique index gives: at most one transaction has
  its row in the index, and it holds every live row (`Storing`); "rejected means
  rejected" needs the key each request has in hand to be the one of the row it
  will write (`InHand`).
* `RequestProofs`, the prompt: `PromptsFit`, `OmissionsAreHonest`, for any
  thread, files, models and windows. The inductive invariant (`RenderInv`) is
  short: the thread is a stored history (`Stored`, `ThreadInv`); what was fitted
  is that history shortened for this candidate's budget, with documents cut
  from the resolved ones, never under the floor, and cut only if shortening was
  not enough (`FittedTo`, `CutFrom`, `FitInv`); the payload is built from it
  (`SentInv`). The rest is about the operators. Sums and selections over a
  sequence are recursive functions, and what they do is shown with induction in
  set form (`ByInduction`): a sum is additive, monotone and split by a selection
  (`SumPlus`, `SumLeq`, `SumSplits`), a selection keeps the order
  (`PlacesInPlace`). From these follow that a payload never costs more than its
  messages were weighed at, in either shape (`OpenAIFits`, `GeminiFits`), since
  joining texts rounds down; that marking counts what is gone (`MarkedIs`); that
  dropping stops at the first turn that is enough, and a turn less would not
  have been (`DropsThrough`, `TurnBefore`, `TurnsDropped`); that shorter
  documents never cost more (`TotalMonotone`), which makes a refusal hopeless
  (`RefusalIsHopeless`). `CuttingGoesDown` is the safety core of `CuttingEnds`:
  each turn of the loop over the documents lowers a natural number (`ToCut`: the
  characters left and the documents not yet refused), whatever the documents
  and the budget.
* `PerceptionProofs`: `StoresStayInAgreement`, `OneReadingPerHash`,
  `ReadingsStay`. That Redis never leads Postgres needs what each worker is
  about to copy to be in the row already (`ReadingHeld`). One reading needs the
  lock's holder to be the only one past it (`LockHolds`), whoever is about to
  ask a model to have the first reading before it (there too), and a reading
  made to be in the row or in the hands of its writer (`ReadIsKept`); all three
  only while nothing is `excused`.
* `GateProofs`: `KeySetCorrect`, `BucketsCorrect`, `RetryCorrect`,
  `SlideCorrect`. The key set needs the lock as a queue without repetitions
  whose head alone fetches, those for whom a fetch succeeded being a prefix of
  it (`QueueHolds`, `RenewedHolds`), and what the last attempt left
  (`AttemptHolds`). A bucket's limit is inductive as room rather than as a
  count: the granted and those who have read that they fit are together within
  the limit (`RoomIsKept`), because a counter covers all who are under way
  (`CounterCovers`). The sliding bound adds the bucket before and whoever
  is still to be counted into it (`RoomSlides`), and the clock's step needs the
  weight to fall as time passes. `RetryCorrect` is arithmetic: the wait, rounded up to a
  tick, is long enough.
* `ConversationProofs`: `HistoryStaysValid`, `ReadersAreRight`. The order of
  the rows is inductive with the lock's exclusion (`LockHolds`) and what its
  holder has inserted following a tail nobody moves (`MineHolds`); sorting and
  `GetLast` are then what they should be by lemmas (`SortedIs`, `TailIs`). A
  prompt holds its question because the question stays where it was committed
  (`AskHolds`) and the history read is a prefix of the log from then on
  (`HistHolds`). Pages join because a cursor is the `seq` of a row that others
  precede (`Inside`) and the older page ends where the next begins
  (`OlderHolds`). That they end before the head, and right before it until the
  head slides (`SeamHolds`), needs the head's cursor never to go back: a
  full page of rows follows it (`HeadHolds`), so a later head begins no earlier.

Only model-checked: everything under fairness (`ComesBack`, `TurnEnds`,
`TurnsEnd`, `CallsEnd`, `CuttingEnds`, `GateOpens`, `VerdictsArrive`), since
liveness needs ENABLED, which the prover does not have. For `CuttingEnds` the
measure it rests on is proved.

## Not modelled

PROJECT.json lists every component with the reason.

* Selection and the latency table: a sort of a short list; the router takes
  its result as given. The registry is a table read from YAML.
* The shape of payloads, headers and SQL; signature checks, encryption and
  hashing; schemas, logging and page layout: single calls of libraries, or data
  nothing decides on.
* Single statements on single rows: titles and pins, the gateway's API keys,
  allocations, the request log.
* Time zones and midnight in the quota windows: "the window ends".
* The scripts, the migrations and the demonstrations.

## Plan

1. Commands that the Redis client resends, in the breaker (`HINCRBY` counted
   twice) and the quota scripts (reserved or settled twice).
2. The breaker and the quota inside the router, in place of a free choice.
3. Selection as an operator, checked against a reference definition.
