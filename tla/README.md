# TLA+ specifications of world-infra

Models, model-checking configurations and proofs for the stateful parts of the
`world-infra` Rust workspace. `PROJECT.json` is the machine-readable index: the
components, the runs, the mutants that each property is known to catch, the
lines of code behind every definition, the hazards, the findings and the
theorems. Source paths below are relative to `src/`.

Tools: `tlc -config X.cfg M` checks a model, `tlapm M.tla` checks the proofs of
a module.

## 1. The system

`world-infra` is a workspace of thirty-odd small library crates. It has no
process of its own: products link the crates and bring the callers (tokio tasks
or threads), the workers, the database, the Redis server and the browser. What
can go wrong is what happens between callers that share a store, between a store
and a server it reaches over a network, between workers that follow the crates'
decisions on shared tables, and in the loops and parsers that a single call runs.

| Component (crate) | State it keeps | Operations | What is hard | What makes it correct |
|---|---|---|---|---|
| In-memory idempotency store (`idempotency-runtime-core`) | map of entries with deadlines, cached cleanup deadline, one `Mutex` | `set_once`, `claim_pending`, `mark_completed`, `delete`, `exists` | the clock is read before the lock; cleanup is lazy; TTLs saturate | one claimant per key; nothing live is lost; nothing dead survives a cleanup |
| Redis idempotency store (same) | one cached multiplexed connection; keys on the server | the same, and `ping` | timeouts that do not recall a command, reconnecting, two connections at once | one claimant per key whatever executes late; every call ends |
| In-memory refresh store (`auth-refresh-core`) | map from token hash to session | `set`, `get`, `rotate`, `delete` | racing rotations, replays, stale clock readings | a session is reachable through one token; no user is logged out by a refusal |
| Redis refresh store (same) | cached connection behind an `RwLock`; hashes on the server | the same, and `ping` | as above, over the network | as above |
| In-process limiter (`rate-limit-core`) | one bucket per key, one `Mutex` | `check`, `cleanup` | `now` is the caller's, and may be of another window | no window allows more than its count; no early rejection |
| Redis limiter (same) | counters on the server, with a time to live | `check`, `check_with_timeout` | late and lost commands against expiring counters | as above |
| Limit specs and catalog (same) | the catalog | parsing, defaults, overrides, subject keys | suffixes, overflow, JSON in many forms, separators in parts | limits mean what was written; overrides apply together; one key per subject |
| Cycles and follow-ups (`world-cycle-core`, `world-clock-core`) | lease, phase and follow-up rows that products store | acquire, renew, phases, finalize, prune; claim, retry, exhaust | worker death, old clock readings, takeovers, the ends of `i64` | one effect per cycle; an active lease stays; no retry early; all of it ends |
| Notifications (`notification-core`, `notification-lifecycle-core`), `event-fanout`, `delivery-core`, `operator-deadletter-core` | an item with flags and a version; outbox rows, broadcast claim, dead letters that products store | recur, mark, reopen, broadcast, deliver, exhaust, repair | ambiguous outcomes, reopening in the middle of a delivery, expired claims | a version reaches its recipient once unless an operator says otherwise |
| Client addresses (`http-primitives`) | none | `client_ip` from peer and headers | forged headers, lines that are no text, chains of proxies | no source passes for a third party |
| Tokens and sessions (`auth-primitives`) | claims in tokens | shapes, freshness of versions | claims left out, actors, exchanges | logging out ends every token |
| WebSocket sessions (`auth-ws-core`) | the nonce issued, accepted control frames | first frame, nonce, `allow_at` | sliding window bounds, tokens that are no header, control frames of another session | never more than `max_frames` in any window, and no fewer; control frames echo the nonce; a session goes on with the token it presented |
| Refresh cookies and origins (`auth-http-core`) | configuration | set, clear, check origins | attributes that must agree, `null` and missing origins | cookie and session live together; only listed pages count |
| Scoped transactions (`tenant-scope-sqlx`) | settings local to a transaction | begin, set, commit, roll back | failure or drop between any two statements, pooled connections | queries run in exactly the scope asked for |
| Uploads (`upload-core`) | upload records | validate, complete, delete, reject | prefixes, path segments | an account's object stays in its folder |
| Breach files (`auth-password-core`) | a file of hashes | validation, binary search, linear scan | byte offsets in the middle of lines | finds exactly what a scan finds |
| Telemetry (`world-telemetry`) | `Empty / Active / Shutdown`, one `Mutex` | `init`, `shutdown`, drop | order of init and shutdown, failing init | one subscriber, each exporter stopped once |
| Test helpers (`world-test-lite`) | saved environment variables | set, remove, restore | nested guards, panics | the environment is as before |
| Device ids, idempotency keys, validated texts (`auth-device-core`, `idempotency-core`, and the identifiers of eight other crates) | none | hashing, building and parsing keys, validation | separators inside parts, trimming | one key per thing; what was accepted stays accepted |

How they interact: the stores do not call each other. Each of the two Redis
stores shares one cached connection between its clones (`get_connection`,
`clear_connection`; the same design twice). Products compose the crates: a
request handler checks a limit, claims an idempotency key, works, and marks the
key completed or deletes it; a worker acquires a world's lease, runs phases and
leaves follow-ups; a recurrence of a notification is published by one broadcaster
and delivered through an outbox whose dead letters an operator repairs.

## 2. Modules

| Module | Models | Main definitions and their code |
|---|---|---|
| `InstantMath` | `ttl_duration`, `instant_saturating_add`, `ttl_secs_ceil` | closed forms |
| `SaturatingAdd` | the loop of `instant_saturating_add`, step by step | `CheckedAdd`, `Halve` |
| `IdempotencyClaims` | abstract: what either idempotency store promises | `GrantKey`, `CompleteKey`, `ReleaseKey`, `Expire` |
| `InMemoryIdempotency` | `InMemoryIdempotencyStore` | `Call` (the clock reading), then one action per operation (the critical section) |
| `RedisLink` | the shared connection, its timeouts, the pipes | `get_connection` = `GetCached`, `StartDial`, `Dialled`, `DialFails`; `clear_connection` |
| `RedisIdempotency` | `RedisIdempotencyStore` over `RedisLink` | `Exec...`: one per command or script |
| `RefreshRotation` | abstract: single-use rotation | `Open`, `Rotate`, `Drop` |
| `InMemoryRefresh` | `InMemoryRefreshStore` | as in the idempotency store; `RotateRefused` is every `Ok(false)` of `rotate` |
| `RedisRefresh` | `RedisRefreshStore` over `RedisLink` | `Exec...`; `BackendError` = `clear_conn_on_backend_error` |
| `WindowRequests` | what both limiters share: windows, callers, clock | `Ask` (the caller's `now`), `Answer` |
| `InProcessWindow` | `InProcessFixedWindow` | `Check`, `cleanup` |
| `RedisWindow` | `RedisFixedWindow` | `Check` (the script), `Lost` |
| `LimitSpecs` | `parse_limit_spec` and its JSON forms, the catalog, overrides, subject keys | `parse_limit_spec`, `limit_spec_from_json_value`, `parse_limit_overrides_json`, `merge`, `subject_key` |
| `WorldTime` | pure functions of times, leases, cadences, attempts | named as in `world-clock-core`, `world-cycle-core`, `delivery-core` |
| `Backoff` | the loop behind both backoff policies, step by step | `NewPolicy`, `Multiply`, `Settle`, `Return` |
| `CycleLeases` | workers that run a world's cycles | one action per transaction of a worker, `Heartbeat`, faults, the clock |
| `FollowupRetries` | workers that run and retry follow-ups | `ClaimFollowup`, `Succeed`, `FailRun`, `RunFenced` |
| `NotificationDelivery` | an item, its versions, broadcast, outbox, dead letters | recurrence and marks, `BroadcasterStep`, `SenderStep`, the operator's pass |
| `ClientAddress` | `client_ip_from_header_map` behind proxies | `joined_header_values`, `last_untrusted`; one hop per proxy |
| `AuthSessions` | tokens, session versions, actors | `Login`, `Exchange`, `LogoutEverywhere`; `is_consistent_with_actor` |
| `WsSession` | the first frame, the nonce and the control-frame limit | `parse_initial_auth`, `valid_ws_token`, `AuthNonce`, `require_auth_nonce`, `allow_at` (`retain`, then `allow`) |
| `RefreshCookies` | cookie lines, the browser's jar, origins | `build_set_cookie`, `build_clear_cookie`, `is_trusted` |
| `ScopedTransactions` | `begin_scoped_tx` and its kin on pooled connections | one action per statement, each may fail or be the last |
| `Uploads` | upload requests and records | `has_prefix_boundary`, validation, status changes |
| `TelemetryOnce` | `TelemetryOnce` and owned guards | `after_shutdown`, building, installing, dropping |
| `EnvVarGuards` | `EnvVarGuard` and its collection | `set_optional`, `DropGuard`, `next_dropped`; the guards of a `set_many` are made and dropped one by one, so they are guards among the others |
| `StoreKeys` | the keys of all stores | `namespaced_key`, counters, worlds |
| `DeviceHashes` | device hashes under every policy | `tagged`, domains, keys |
| `StoredFields` | the validated identifiers, labels and texts | one rule per type, `accepted` |
| `BreachFileSearch` | `validate_breached_password_file`, `breached_password_file_contains` | `ValidateLine`, `ScanLine`; `Probe`, `WalkBack` (`seek_probe_line_start`), `Compare`, `Last` |

`MC...` modules give the constants values for TLC; `...Proofs` modules hold
theorems. `CycleLeases`, `FollowupRetries` and `NotificationDelivery` EXTEND
`WorldTime`; `RedisIdempotency` and `RedisRefresh` compose with `RedisLink`; both
window modules with `WindowRequests`.

*Where the steps are.* The in-memory stores take `Instant::now()` before
`lock()`, so each operation is two steps with other callers and the clock in
between; the critical section awaits nothing and is one step. In the Redis
stores every `await` is a boundary: dialling, sending, execution on the server
and the arrival of the answer are separate steps. A script, a command and a
`MULTI` transaction are each one step of the server. A worker's transaction is
one step as well, as `docs/rfcs/world-cycle-sqlx-phase-7.md` and
`docs/rfcs/world-followup-sqlx-phase-7.md` describe it; its clock reading was
made before. The statements of a scoped transaction are a step each.

*What a timeout does.* `tokio::time::timeout` drops the caller's future. It does
not remove the command from the multiplexed connection's queue, and certainly
not from the server's. `RedisLink` keeps the command in its pipe, no longer
awaited, and it may execute at any later time; the caller's next operation dials
another connection, which may overtake the first. When a link breaks, the server
has received some prefix of the pipe and still executes that.

*What the time is.* The stores and limiters have a clock that counts up to a
bound. `CycleLeases`, `FollowupRetries` and `WsSession` run without end: the
present is always 0, and when a second passes all times move one into the past,
down to where they make no more difference. Liveness needs that.

*What a text is.* A sequence of characters, or of longer pieces, of a small
alphabet that has what parsers look for: separators, case, blanks, control
characters, letters beyond ASCII. Hashes are injective.

External, and modelled from how `src/` uses it: the Redis server (atomic
scripts, keys that vanish at their deadline, error replies), the multiplexed
connection (a pipe in order), clocks that do not go back, PostgreSQL and its
pool, the products' tables and workers, proxies, browsers, object storage,
subscriber and exporter libraries.

History variables, which no code reads, carry the properties: `grants` (who was
given a key, until when), `told`, `used` (tokens a session was stored under),
`suspect` (connections a caller saw fail), `admitted` (requests allowed per
window), `effects` (of a cycle), `rested` (since a follow-up failed), `reached`
and `excused` (publications, and those that lost claims or an operator allow),
`revoked`, `meant` (limits as the deployment wrote them), `misjudged`, `spoilt` (the
source's address was added to a line that is no text), `presented` (the token of the
first frame), `echoes` and `passed` (nonces and ages of control frames).

The type invariants of the idempotency stores, the refresh stores, the Redis
window, the breach-file search, the cycles, the follow-ups, the deliveries
and the sessions are proved. So are those of scopes, telemetry and guards, which
`EdgeProofs` states. The others tell the reader what the state looks like; the
properties of the runs are what is checked of it.

## 3. Runs

Modules that share no state share a run: in each behaviour one of them (its
`part`, or the initial state that is not at rest) takes steps while the others
stay in one state. The states of such a run are the sum of theirs, not the
product.

| Run | Question | Bounds, and why they are enough |
|---|---|---|
| `algorithms` | What one call computes, against reference definitions: the saturating loop, lookups in breach files, backoffs, limits, keys, device hashes, texts; does every loop end? | durations to twice the clock: two halvings and the give-up case; every file of up to three lines of one to three bytes, so that probes meet first bytes, middles and newlines, with blank, malformed and misordered lines; policies that stand still or reach the cap at once, exactly or past it, and the counter's maximum; two subjects, keys or devices at a time, with parts made of the separators |
| `in_memory_idempotency` | Are claims exclusive, live entries kept, dead ones swept, under stale clocks? Does the store implement `IdempotencyClaims`? | two keys (a cleanup on one key's behalf touches the other), two callers (a race), TTLs zero, short and overflowing, a clock of three instants (a reading two ticks old) |
| `redis_idempotency` | The same over two connections that break, refuse, delay and overtake | two callers, one key, one command per pipe: a late command, its successor on another connection, and a rival |
| `redis_idempotency_retry` | All operations, retried by one caller; does every call return? | two commands per pipe: an abandoned command and its retry in the same pipe |
| `in_memory_refresh` | Is rotation single-use, are live tokens kept, is `RefreshRotation` implemented? | two sessions and three tokens: a chain of rotations with replays, and a successor in use for the other session; two callers |
| `redis_refresh` | The same over the network, and do spent tokens stay spent? | a login, two rival rotations, a lookup and a logout, by two callers over two connections |
| `windows` | Exact limits, in Redis although requests arrive late, in process through cleanups and window changes | Redis: one key, three requests, up to as late as the counter's grace (one tick later the limit is exceeded). In process: `MaxLag` 0, so the clock stands still between reading it and taking the lock; three requests, windows of whole and of broken milliseconds |
| `world_work` | Do cycles, follow-ups and deliveries have their effects once, in time, and come to an end? | two workers, two cycles and two faults (a crash after applying, then an overrun); readings one second old; a lease and a grace that are no whole seconds, so that both round up, and a lease that outlasts the grace; a retry policy that reaches its cap before its attempts; two senders, two versions, one fault: a reopening in the middle of a delivery |
| `edge` | What a service decides at its edge | two proxies and a source that forges headers, with lines that are no text among them; two users, two tokens, two logouts of each; two tokens and two nonces, a limit of two frames in a window of three instants, without end; two clients on two connections; cookies of valid and invalid configurations, under the three kinds of names that browsers treat apart; keys of up to five characters of an alphabet with `.` and `/`; two threads; two variables under up to four guards, so that a variable is guarded twice around another |

`PROJECT.json` names, for every property of every run, a mutant of the code's
model that the property refutes: a plausible bug such as a dropped guard or a
forgotten `DEL`. Each stands in its module before the definition it changes,
marked "Mutant of".

Three more runs are expected to find a violation, and record disagreements
between the code and its documentation:

- `redis_pending`: the doc of `WorkClaim::Pending` says "Another caller already
  has a pending claim". A claim script that executes after its caller timed out
  leaves the key pending for nobody; the caller's own retry is answered
  `Pending` until the TTL ends (`idempotency-runtime-core/src/lib.rs:541-582`).
- `redis_refresh_retry`: rotation is "single-use" by the crate's doc. With a
  product that sends `set` again after a timeout, the first, unconditional
  `HSET` may execute after the token was rotated away, and revives it
  (`auth-refresh-core/src/lib.rs:706-737`). Without such retries the property
  holds (`redis_refresh`).
- `in_process_window_late`: "Maximum allowed requests per window". A request
  whose `now` is of the previous window restarts the new window's bucket, and
  the next request of the new window restarts it again, from zero
  (`rate-limit-core/src/lib.rs:600-606`). Without such lag the limit is exact
  (`windows`).

### Fairness

`redis_idempotency_retry`: a caller that can go on is polled (`GoOn`), and the
timers of its dial and of its command fire (`TimeOut`). Both are tokio's promise
to a task that is not dropped. Nothing is assumed of the server or of the links,
which may stay silent for ever; `EveryCallReturns` then says exactly that the
timeouts cover every wait.

`algorithms`: a loop takes its next step, which a synchronous call always does.

`world_work`: seconds pass (strongly fair, because a fault may be needed for the
clock to overtake a working lease holder), an operator resumes a paused world,
and a worker polls with a fresh clock reading (weakly fair `Transaction(w, 0)`,
`RunnerStep(r, 0)`, `SenderStep(s)`, `BroadcasterStep`): the products' worker
loops. The lease's heartbeat is a task of its own and fair, too; without it
`CyclesSettled` fails, since a holder may lose its lease again and again. Leases
of dead claims end. Nothing is assumed of what a worker's run comes to: runs may
fail, providers may answer ambiguously. Crashes, overruns and pauses are bounded.
`WorkSettles` would be wrong if they went on for ever.

## 4. Proofs

The proofs hold for every value of the constants, under the named assumptions of
the modules (that TTLs are natural numbers, that the clock stays within the
representable instants, and the like), which TLC evaluates in the runs.

The properties that are stated of a run in which modules take turns
(`GlobalsGivenBack`, `InProcessCountsItsWindow`) are proved of the run's
specification, because the steps of the other modules leave theirs alone; every
other theorem is about the specification of its own module (`CycleSpec`,
`DeliverySpec`, `WsSpec` and so on).

| Module | Proved | Argument |
|---|---|---|
| `InstantMathProofs` | `DeadlineBounds`, `SecondsCoverTTL` | the ends `now + (d \div 2^k)` that fit are bounded, so the latest exists |
| `AlgorithmProofs` | `SaturatingAddKeepsLongTTLs` | invariant: while the loop runs, twice the duration plus one exceeds what is left, or nothing was halved yet |
| | Redis window: `WindowTypeCorrect`, `RedisKeepsTheLimit`, `RedisRejectsOnlyWhenFull`, `RetryAfterEndsTheWindow` | below |
| | in-process window: `InProcessIsExact` | below |
| | breach files: `SearchTypeCorrect`, `LookupFindsWhatIsListed`, `LookupIsJustified`, `SearchReadsWholeLines` | below |
| | validated texts: `TextsComeBack` | below |
| | limits: `CatalogsAreAsWritten` | below |
| `InMemoryIdempotencyProofs` | `TypeCorrect`, `ExclusiveWork`, `CleanupNeverLate`, `LiveEntriesAreKept`, `NoExpiredEntrySurvives`, `StoreImplementsClaims` | below |
| `RedisIdempotencyProofs` | `RedisTypeCorrect`, `AnswersAreForTheirCall`, `FailedConnectionsStayOut`, `RedisImplementsClaims`, `RedisWorkIsExclusive` | below |
| `InMemoryRefreshProofs` | `RefreshTypeCorrect`, `SingleToken`, `LiveTokensAreKept`, `StoreImplementsRotation` | below |
| `RedisRefreshProofs` | `RedisRefreshTypeCorrect`, `RedisImplementsRotation`, `RedisSpentTokensStaySpent`, `RedisOneTokenPerSession` | below |
| `WorldWorkProofs` | cycles: `CycleTypeCorrect`, `CyclesAppliedOnce`, `LeaseStaysWithItsOwner`, `NewestCyclesAreKept`, `StatusIsHonest` | below |
| | follow-ups: `FollowupTypeCorrect`, `RetriesWait` | below |
| | deliveries: `DeliveryTypeCorrect`, `DeliveredOnce`, `QuietReportsAreTrue` | below |
| `EdgeProofs` | `LogoutEndsEveryToken`, `SocketsStayGuarded`, `ScopesAreSeen`, `CookiesStayGuarded`, `NoSourcePosesAsAnother`, `ExportersStopOnce`, `VariablesAreGivenBack`, `GlobalsAreGivenBack` | below |

*In-memory idempotency.* `AtMostOneLiveGrant` is not inductive alone: a caller
with an old reading could see an entry as expired that is not. `IInv` adds
`TimesPast` (no reading under way is ahead of the clock) and `GrantsStand` (a
standing grant ends after the clock). What is live at the clock was therefore live
at the older reading too, so what such a caller sweeps or replaces carries no
standing grant. `CleanupBound` is inductive with typing: only `note_expiry` and
`maybe_cleanup` move the deadline, and `delete` only removes entries. The
refinement maps the map to its live entries; each critical section is a grant, a
completion, a release or a stutter.

*Redis idempotency.* The invariant `RedisInv` has a part for the link and a part for
the server. The link's says where an answer may come from (`AnswersFindTheirCall`):
a queued command either is nobody's any more, or its caller waits, over this very
connection, for this very command, which stands in the pipe only once. A timeout
hands the command over to nobody in the same step, so a late answer cannot be taken
for a later command's. The server's part says what a grant stands for
(`GrantsAreBacked`): there is one per key, its entry is still there with the same
deadline, and is a marker or a pending claim. It needs nothing of the link but that
what is executed is one of the commands: whichever abandoned claim, completion or
delete executes late, it is a grant, a completion or a release of the abstract
specification. That is what `RedisImplementsClaims` shows.

*In-memory refresh.* `OneTokenPerSession` needs to know where tokens come from:
the invariant says that every stored token is in `used`, that what calls under
way will store is in no other call and not in `used`, and that readings are not
ahead of the clock. A rotation therefore moves a session to a token that never
had it, and removes the old one in the same step.

*Redis refresh.* The theorems assume a product that stores a token once
(`~Retries`); without that, `redis_refresh_retry` shows how they fail. `set` is
unconditional, so what an abandoned one finds when it executes late decides
everything. `OncePending` says that the command which stores a token is in one
place at most: a caller that has yet to send it, or one place of one pipe. A
timeout only moves it, a lost link only drops it. `LoginFresh` says that such a
command finds a token without a past: a rotation could only have given it one if
it had made the token, and no successor is a login's token. `HoldsTheLatest` says
that of a session's tokens only the most recently minted one opens it. A rotation
keeps that because its successor is minted after its predecessor, and
`OpenedByLogin` because there is one login per session. So a late rotation, with
its predecessor gone, is refused, and a session's earlier tokens stay spent.

*Redis window.* The invariant's core, `CounterHolds`, ties the server's counter to
what each window has admitted. Never more than the limit was admitted. While the
counter exists, the number admitted is the smaller of the counter and the limit,
and the counter's deadline lies at least `Grace` after the end of the window. Once
it is gone, either nothing was admitted or that deadline has passed. Beside it
stands the promptness of every request under way: `now <= clock <= now + MaxLag`.
The assumption `MaxLag <= Grace` is what the code leaves to its products: the
counter outlives its window by one second, and the product's timeouts have to be
shorter.

*In-process window.* A bucket is all that is left of its key's past, so
`BucketHolds` ties it to the history of admissions: the bucket's window admitted
the smaller of its count and the limit, and no later window has seen anything.
Without a bucket, no window that is not over has seen anything, which is what
the cleanup must not spoil. Windows start no earlier as time passes
(`StartBounds`), so a restart never meets a window that admitted something
already. The theorem's hypothesis is `ProcessLag = 0`: a request is counted in the
millisecond in which it read the clock (`Prompt`). `in_process_window_late` shows
that a single tick of lag is too much.

*Breach files.* Validation compares neighbours only; `ReadIsValid` says that the
lines read so far are in order pairwise. For the search, `ListedIsWithin` says that
a listed target starts between the bounds, and `ProbeAtLineStart` that a probe is
the start of a line, or reaches `high` only when a single line is left. The latter
is where the width of a hash matters: two lines of one byte each would hide the
second, and a line that holds a hash is longer. The theorems hold for files of any
size, which no test or run can show.

*Validated texts.* A text is accepted with the space around it dropped. For it to
come back, validation must leave its own result alone: `TrimmedOnce` shows that
what is left of a text begins and ends with characters that are no space (the
first and the last one exist because a set of positions has a least and a largest
member), and every other condition is about that rest already. The control
characters are excluded by the check before trimming, or, where space is refused
rather than dropped, by the rule's characters (`RulesRefuseControl`). A status
label names a label that names itself.

*Limits.* `LimitAssumption` says that numerals are not the words and letters of
units, and that the largest duration is a day or more. `LongestUnit` is
what `strip_suffix` tried in order amounts to, for a text of any length: "ms"
only where an "m" stands before the "s". A number with a unit behind it is
therefore read as written (`NumberWithUnit`), its product is refused exactly if
it overflows (`ProductFits`), and a unit alone is one of it. `LimitIsMeant` and
`JsonIsMeant` then equate the parser with `Meaning` and `JsonMeaning`; the catalog
follows.

*Cycles.* That effects happen once (`EachCycleAppliedOnce`) does not follow from
itself: a worker that claimed a phase must still be the only one to apply it.
`CycleInv` adds `EffectsMatch` (the phase row of the cycle at hand tells whether
its effects have happened, later cycles have neither) and `OwnerKnows` (while a
worker owns the lease, what it has read is still so: it works on the cycle after
the last settled one, and its place agrees with the row). Every transaction
checks the lease, so only the owner writes; whoever lost the lease is not bound
by `OwnerKnows` until it acquires it again. `PhaseStepKeeps` proves the four
transactions that write a row at once. Pruning is exact because the cutoff's two
saturations cannot meet a cycle number that an `i64` holds (`Cutoff`). That an
active lease stays (`LeaseHandover`) holds for readings however old, since a
reading is never ahead of the present.

`StatusIsHonest` needs no invariant: that an open world can be claimed by every
worker, and one shown as running by its owner only, follows from the conditions of
`derive_cycle_runtime_status` and of `can_acquire`, for any lease whatever.

*Follow-ups.* `NoRetryEarly` compares a delay in the clock's ticks with what the
table stores: whole seconds, from a clock reading that may be old. `RowRests`
relates, for a row that waits, the second it is due to the time it has rested
since it failed: both move with the clock, and no claim, crash or takeover changes
one without the other. The theorem's hypothesis is that the policy's longest delay
fits the table's `i64` seconds, some 292 billion years; a longer one is shortened
to that.

*Deliveries.* `ReachedOnce` counts what has happened; the invariant counts what is
under way as if it had. `FanoutRoom` and `DeliveryRoom` give each version room for
one more effect wherever the code may start one without an excuse: the publish of a
version that is ready or still to come, the attempt at a row that is pending, or
whose own sender is about to report a retryable failure. Such a failure is the one
outcome that says nothing reached the recipient. Senders that lost their claim are
still counted (`InFlight`), because they may yet get through; the excuse that the
lost claim gave pays for them. `LeftIsReported` ties the letters that a repair pass left behind
to the difference between what its report calls eligible and what it changed.

*Sessions.* `RevokedTokensStayOut` needs a reason for each revoked token:
`CaughtBy` says that the subject's version has moved on, or that the token's type
requires an actor and the actor's version has moved on or is missing. Versions
only grow, so a reason lasts; a revoked token cannot be exchanged, because it is
not fresh; and a logout gives a reason to every token it revokes, because a token
without an actor's claims is its subject's own (`TrueActor`).

*Sockets.* The frame's check of a token and the bearer parser run one after the other
on different texts. `ValidTokensAreCredentials` shows that what the first accepts, the
second takes for the same token, named with a scheme or not. The nonce is issued with
the authentication and never changes, so each echo that was accepted is still the
session's (`EchoInv`); the first frame has none. The limiter forgets frames that have
left the window only when the next frame comes, so its list differs from the frames of
the last window. `EndsWith` says that it is those frames after some older ones, oldest
first; both grow older in step, so `retain` finds exactly them (`KeptArePassed`).

*Scopes.* `Runs` says, of a transaction halfway through its statements, that each
setting has the value of the last statement so far that names it, or is unset, and
that what is left to do is the rest of what was asked. A connection that nobody has
is clean, which every way a transaction ends must restore, a failure or a drop
between two statements included. Two clients never have the same connection.

*Cookies.* A configuration uses one key for the browser's jar, both to set and to
clear. The jar is therefore empty, or holds one cookie, the last token's, which
outlives the session by at most the second that rounding adds (`JarHolds`). Where a
name begins with `__Secure-` and the configuration is not secure, which `validate`
accepts, browsers drop every line and the jar stays empty; the property promises such
sessions no cookie. Pages
are judged without state: `AllowedAreListed` reads the deployment's list as the code
does, and `JudgedAsListed` goes through the headers that a browser may send.

*Client addresses.* A line that is no text is replaced as a whole by one invalid entry,
with every address a proxy has appended to it (`joined_header_values`). A source that
starts such a line, and whose proxy appends to the same line, is therefore taken for
the last proxy: the reading from the right finds no address and falls back to the peer,
as the crate's test `header_map_invalid_repeated_header_value_falls_back_to_peer` wants
of such headers. The property says exactly this, through `spoilt`, so no source passes
for a third party, but one can hide among the proxies. `AddressInv` is about the headers
with which a request reaches a proxy or the server. Once it has passed one, the managed
list says its `Mark`: the source's own entry or the invalid one, with nothing but
entries of trusted proxies to its right, whatever the source wrote to its left
(`Says`); the managed `X-Real-IP` holds the source alone, and the other headers are
empty. Reading a list from the right skips the proxies and stops at the mark. Places in
a list are pairs of line and position, so it does not matter whether a proxy appends to
the last line (`EntryReads`) or adds one (`LineReads`).

*Telemetry and variables.* `HeldOnce` says that an exporter runs exactly while one
holder has it: a thread that initializes, a thread's own guard, or the one-time
initializer, which only a thread under the lock may fill. For variables, nested
guards save values that other guards have set; only the first guard of each
variable matters (`FirstOf`), and it holds what the test found.

Model-checked only, and why:

- Liveness (`EveryCallReturns`, `EveryComputationEnds`, `WorkSettles`): beyond the
  prover, together with ENABLED.
- What recursion computes: `ClosedForm` and `BackoffAsConfigured` (powers, which the
  provers know nothing of), `KeysStayApart` (the decimal lengths in a key, and a
  digest) and `UploadsStayInScope` (folds over the characters of a path, and over its
  folders). The induction theorems cannot be applied, and TLC's own operators
  for powers and decimals have no definition that a proof could expand.

## 5. Assumptions worth knowing

- Refresh tokens are 32 random bytes, so a token is never minted twice. The calls
  of `InMemoryRefresh` and `RedisRefresh` are constrained to that. `RedisRefresh`
  says the rest of it, too (`RefreshAssumption`): a rotation's successor is minted
  after its predecessor (`Minted`) and is nobody's login token, and one login
  names a session, because session ids are random.
- A key has one limit. Checking one key under two windows makes its buckets
  restart each other; this is listed as a hazard.
- The limiter's callers pass the real time as `now`.
- A limit of `u32::MAX` requests, where the counters saturate, is left out.
- Poisoned locks (a panic inside a critical section) are not modelled: no
  critical section panics.
- `set` stores a session whole, because tokens are not reused; `HSET` over an
  older hash with other fields does not arise.
- A worker's clock is behind the others' by a bounded lag and never ahead of
  them. `CycleLeases` and `FollowupRetries` say what holds however large it is.
- The side effects of a phase and the mark that they are applied commit in one
  transaction. The crate's statuses exist for products that can do that.
- `EnvVarGuards`: a previous value that is no Unicode is not given back, because
  the guard saves `env::var(..).ok()` (`world-test-lite/src/lib.rs`); the property
  excepts it.
- `DeviceHashes`: policies that keep control characters in a raw id and use no
  domain for it can give two devices one hash; the property excepts exactly these.
- The browser of `RefreshCookies` knows what a cookie's name, `Domain`, `Path`, `Secure`
  and `SameSite` say when it is set. A page's origin has no port that is the scheme's
  own: a deployment that lists `https://app:443` lists no page, and its requests are
  refused. The product's tokens are valid cookie values.
- A counter of an operator's pass stays far from where it saturates.
- Uploads are declared under policies that allow the `image/jpg` alias.
- Proxies append the peer to the header that the deployment configured and
  remove the others, as the crate's documentation asks.

## 6. What is not modelled

- Reading configuration (`world-env` but for namespaces, `world-telemetry`'s
  settings, trusted proxies from text): each reads a variable, parses it and
  returns a value.
- `static-web-hardening`: validators of headers and file names, without state.
- `auth-password-core` beyond breach files: length checks, and a hashing library.
- `scoped-sql-lint`, `contract-test-support`, `world-test-containers`,
  `assert_eventually` and fixtures: tools for tests and builds.
- Formats of envelopes and wire structures (`event-fanout`, `world-event-core`,
  `billing-risk-core`): they hold values that `StoredFields` validates.
- Metrics and hooks of the limiter, which only observe.
- How the fields of a stored session are parsed (`auth-refresh-core`), and
  reading errors of breach files.

Still worth doing: the parsing of stored sessions with its classification of
errors, as a model.
