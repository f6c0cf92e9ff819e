# oh-my-api in TLA+

oh-my-api is a gateway for LLM APIs. A client asks for a *model group*; the
gateway resolves the name, makes a plan of the group's leaves under its rules,
schedules the request over them in the group's mode (failover, load-balance,
adaptive, concurrent), converts between the OpenAI Chat, Responses, Anthropic and
Ollama protocols, and hands the answer, often an event stream, back to the
client. A provider may be another gateway behind a NAT: such a *spoke* dials the
*hub*'s `/cascade` websocket and executes the jobs the hub sends it. The
configuration can be edited at run time and applied. A second program, the
*bridge*, gives the gateway a local provider whose credentials it keeps fresh.

This directory models the parts where order matters: what one request does over
several attempts, what many requests do to the shared health checker, buckets and
session bindings, what happens to a stream between the upstream and the client,
what a cascade hub and its spokes do while connections come and go, what the
administrator's edits do to a running process, which leaves a request may be sent
to, and how the bridge rotates its token. TLC checks the models on small
instances, TLAPS proves the theorems named below for all instances.

`PROJECT.json` maps every definition to its lines in the source, lists the runs
with their properties, and for each property mutations of the modelled code
that break it.

## 1. Inventory

| component (source) | state it keeps | operations | talks to |
|---|---|---|---|
| health checker (`internal/health`) | per (provider, protocol): failures in a row, mark with its time, override of the cooldown | `ReportSuccess`, `ReportFailure`, `MarkUnhealthyFor`, `MarkUnhealthyEscalating`, `IsHealthy` | every scheduler, the cascade hub |
| leaf attempt (`scheduler/retry.go`, `attempt.go`, `soft_failure.go`, `context_abort.go`) | attempt number, result in hand | permit, request, classification of what arrives, retry, health report | rate limiter, provider client, checker |
| failover (`scheduler/failover.go`, `execute_node.go`) | position, deferred leaves, fallback results | two passes over the children | leaf attempt |
| load-balance (`loadbalance.go`, `selector.go`) | children left in the selector | pick, remove with siblings | leaf attempt, sticky store |
| sticky store (`sticky.go`) | bindings with their expiry, success counts | look up, prune, deficit pick, record | load-balance |
| adaptive (`adaptive.go`, `adaptive_score.go`, `adaptive_tracker.go`) | ordered candidates and an index, latency windows | walk, shrink | leaf attempt |
| concurrent (`concurrent.go`) | goroutine per child, result channel, stop functions | race, cancel the losers | leaf attempt |
| stream probe (`stream_probe.go`) | prefix, channels, pipe, timers | pump goroutine, prober, body for the client | leaf attempt, handlers |
| stream codecs (`codec/stream_*.go`) | open blocks and items, calls seen, what was said of the end | one event at a time through Chat chunks, flush, report an error | probe's body, client |
| rate limiter (`internal/ratelimit`) | buckets per provider and per upstream identity | `Allow`, `Wait`, replaced by Apply | the modes |
| cascade jobs (`cascade/job.go`, `session.go`, `spoke_jobs.go`) | jobs of a session, waiter and pipe per job | execute, read loop, cancel, close | provider client, spoke's handler |
| cascade hub (`cascade/hub.go`, `health.go`, `hub_registry.go`, `cmd/oh-my-api/cascade_runtime.go`) | one session per hub, current hub | register, replace, clear, close, swap on Apply | checker, jobs |
| spoke (`cascade/spoke*.go`) | connection, publisher, retry state | connect with back-off, publish metadata, run jobs | hub |
| runtime configuration (`internal/runtimeconfig`, `handler/admin_runtime_config.go`) | draft, active, file | edits with validation and propagation, discard, Apply | handlers, hub |
| validation and resolver (`config/*validate.go`, `internal/model`) | groups, redirects, callable names | checks of references and cycles, look-up, plan | runtime configuration, handlers |
| handlers (`handler/chat.go`, `messages.go`, `responses.go`, `cascade_job.go`, `materialize.go`, `smart_route.go`, `internal/rules`) | three globals read without a lock | smart route, resolution, materialisation under the rules, answer | scheduler |
| provider client (`internal/provider`) | learned fallbacks of the Responses API | send, cascade branch | upstream, hub |
| xAI bridge (`internal/bridge`, `cmd/oh-my-api-bridge`) | OAuth state file, its lock | refresh under the lock, proxy with one forced refresh, device-code login | upstream, authorization server |
| request and object conversion (`internal/codec`, `internal/adaptor`) | none | encode a request for another format, with what DeepSeek models want; whole answers as objects | handlers |
| catalog, models.dev | cached index | periodic refresh | metadata |
| statistics, metrics, tokens, admin pages, log sink | counters, signed cookies | record, show | nobody depends on them |

What makes the parts hard, and what would be correct:

* **One request, many outcomes.** Soft failures (an empty or refusing answer),
  hard ones, errors, aborts and refused permits arrive in any order; each ends
  in one answer with a fixed precedence, at most one turn per child, one permit
  per upstream request, and no stream left open that nobody will read.
* **Whose fault it was.** The client's departure, the request's deadline, the
  attempt's own budget and the provider's failure all look like context errors.
  Only the last may be held against the provider, only the first two may end
  the schedule.
* **Shared state.** Between any two steps of a request, others may open or close
  the breakers it looks at, spend the permits, bind its session elsewhere, and
  count their successes only when they are over.
* **Goroutines that outlive their reader.** Racers, stream pumps, the session's
  read loop and the cancel functions must come to an end whatever their
  counterpart does, and must not mistake an abort for a regular end.
* **Streams in another protocol.** Two protocols cut one answer into events
  differently. Blocks must be opened and closed once, every fragment of a call's
  arguments must arrive, in order, with the right call, and a broken stream must
  not look finished.
* **Replaced connections.** A spoke that reconnects, a hub that is swapped by
  Apply and jobs begun on the old session interleave with the late end of what
  they replace.
* **A configuration in four copies.** Draft, file, committed configuration and
  what the handlers read change at different moments; the process may die between
  any two, and handlers read while Apply writes.
* **Two gateways that are each other's provider.** A request must reach an answer
  and not go round.
* **Conversations in another protocol.** The protocols put texts, calls, results and
  thinking into different messages. A request may be converted more than once on its
  way through several gateways, each time over Chat, by code that reads only some of
  the forms the step before leaves. What the upstream gets must still be the
  conversation the client sent, in a form it accepts.
* **A credential good for one use.** Concurrent refreshes, a login and lost
  answers act on one refresh token.

The hazards, each at its line, are in `PROJECT.json`.

## 2. Modules

| module | models | composed of |
|---|---|---|
| `Breaker` | what the others may rely on of the checker: a breaker per key without clocks | |
| `HealthChecker` | `internal/health/checker.go`, with clock, cooldowns, overrides and quota back-off | implements `Breaker` (refinement mapping) |
| `HealthChecker_proofs` | theorems about it | |
| `ScheduleContract` | abstract specification: what any mode promises about one request | |
| `AttemptOutcome` | the request, what an attempt can come back with, what the checker is told | extends `Breaker` |
| `LeafAttempt` | one turn of a child: permit, send, response, retries; the fallback bookkeeping the sequential modes share; the request's environment | extends `AttemptOutcome` |
| `Failover`, `LoadBalance`, `Adaptive` | the loops of the three sequential modes, flat and node form | extend `LeafAttempt` |
| `Scheduler` | the dispatch by mode over the three | extends them; implements `ScheduleContract` |
| `Scheduler_proofs` | lemmas about the steps the sequential modes share; theorems about a request in the three modes | |
| `Race` | the concurrent mode: goroutines, channel, cancellation | extends `AttemptOutcome`; implements `ScheduleContract` |
| `Race_proofs` | theorems about it | |
| `RateLimit` | the two layers of buckets, as functions | |
| `StickyPool` | concurrent requests over a sticky group, the store, the buckets, Apply | extends `RateLimit` |
| `StickyPool_proofs` | theorems about it | |
| `StreamProbe` | the probe of an event stream, its pump and the body handed on | |
| `StreamCodec` | decoders, mappers and writers of the stream converters, as functions on their state | |
| `StreamPeers` | what an upstream of each format sends, what a client of each accepts (no code of the repository) | extends `StreamCodec` |
| `StreamDelivery` | a stream on its whole way to the client | `StreamProbe` with `StreamPeers` |
| `CascadeJob` | jobs over one session, from `ExecuteJob` to the spoke's handler | |
| `HubSession` | which connection a hub serves; the hub swap of Apply; health keys | extends `Breaker` |
| `HubSession_proofs` | theorems about it | |
| `SpokeMetadata` | metadata snapshots from a spoke to its hub | |
| `Cascade_proofs` | theorems about `CascadeJob` and `SpokeMetadata` | |
| `Configuration` | a configuration, its validation, the resolver, as functions | |
| `RuntimeConfig` | draft, file, committed and running configuration; every edit; Apply, crash, restart | extends `Configuration` |
| `RuntimeConfig_proofs` | theorems about it, its look-ups and the cycle check | |
| `Rules` | the rule table: validation, matching, merging, what it does to a request; formats and their costs | |
| `RequestCodec` | the request converters of every pair of formats, as functions: messages, settings, DeepSeek's variants | |
| `SmartRoute` | what the smart route sees of a conversation and where it sends it | extends `RequestCodec` |
| `Routing` | a request from its handler to the leaves, on several nodes, while Apply changes them | extends `Configuration`, `Rules`, `SmartRoute` |
| `OAuthState` | the state file: directories, modes, contents; when a token needs a refresh | |
| `DeviceLogin` | the device-code login up to the grant | |
| `Bridge` | requests, their refreshes, a login, the authorization server | extends `OAuthState`, `DeviceLogin` |
| `Bridge_proofs` | theorems about it and the login | |

`MC*` modules give TLC its instances.

### How state and actions correspond to the code

*HealthChecker.* Every method of `Checker` holds its mutex, so each is one
action. The three maps are variables; `age` is `time.Since(unhealthySince)`,
saturated beyond every cooldown. `quotaLevel` is history. `IsHealthy` deletes an
expired mark while reading; whether the dead entry is still in the map cannot be
observed, so it stays in the model until it is overwritten.

*LeafAttempt.* A request is at a `phase` of its one goroutine. `Send`,
`ResponseArrives` and `Retry` are `executeTask`; `EnterNode` is `executeNode`;
`RecordOutcome` with `RecordHard`, `RecordSoft`, `Final`, `StopScheduling` is
`sequentialFallback` and the tail every loop body has. The outcome of an upstream
request is any kind the classification knows; "abort" is whatever `IsContextAbort` takes
for the end of the request's context, the limits of the transport included that are none
(`provider/client.go:34`). The schedule of a child group is one step that answers
anything `ScheduleContract` allows. `open` is the set of
streams somebody has to close; `tried`, `passed` are history.

*Failover, LoadBalance, Adaptive, Scheduler.* Each mode's `Start` is the entry with its
filters; the rest one action per branch of the loop (`FailoverOutcome`,
`BalanceOutcome`, ...). The flat strategies and the node forms in `execute_node.go`
are the same actions; where they differ (the second look at a leaf, the permit before
it) the group being `Mixed` decides. The limiter's `Allow` may answer either way at
any time. Adaptive's slice is `ordered`, as it was made, with the `places` still in it:
the element the loop's index means is the one of that `Rank`. `Scheduler` has the lists
of all three, of which a request uses those of its mode; it chooses the request
(children, stream or not) and the mode in `Init`.

*Race.* One action per channel operation of a racer and of the aggregation loop;
`attemptCtx` is the set of contexts not yet cancelled, `open` the bodies nobody
closed. The breakers never decide anything in this mode.

*StreamProbe.* The pump's reads, sends and writes and the prober's `select`
branches are actions of their own; the channels keep their capacities. Bytes are
items, of which one in `EventCap`/`PrefixLimit` stands for many. The verdict and
`Release` are two steps: the pump may read and offer more in between.

*StreamCodec.* A decoder (upstream event to Chat chunks) and an encoder (chunk to
client events) per format, each a function of the few fields the Go mapper keeps;
`NewWriter`, `WriteFrame`, `WriteEnd`, `WriteFails` are the writer: pass-through,
conversion, or aggregation of a Responses stream to an object. Texts are reduced
to being there; a call is its id, its arguments the sequence of their fragments,
so that a fragment lost, doubled, misplaced or given to another call shows. Four
facts of the code are visible in it: writers of converted pairs do not report a
truncated stream and end one for a chat client with `[DONE]`, pass-through ones
report it; a bad frame is skipped or ends the stream
depending on the writer; Claude's `Flush` ends a cleanly closed message with
`end_turn`, as documented there; `readResponsesStreamToObject` answers "completed"
for a truncated stream. Calls of a Responses stream come to their end in the order
of their index (the code iterates a Go map; the order is not observable call by
call).

*StreamDelivery.* What an event says is chosen when the writer reads it. Behaviours
with `pair = NoPair` examine the probe with a plain reader; with a pair they begin
in a state StreamProbe reaches, the release after the first event, and go on with
pump, writer and client.

*CascadeJob.* `pc[j]` is the hub's `ExecuteJob` of job j and then the response
body; `loop` is `runSession`; `closer` is `closeWithReason`; `cancelFn[j]` is the
goroutine of `context.AfterFunc`; `spoke[j]` the handler at the other end.
`io.Pipe` is the rendezvous `ReadChunk`.

*HubSession.* `Register` is `handleRegister` up to `replaceSession`, which holds
the hub's lock; `Clear` is `clearSession`; `Build`, `SetRegistry`, `CloseTakes`,
`CloseTears`, `ClosePins` are the steps of `swapHub` and `Hub.Close` between which
other goroutines run. A pin is an override of 365 days: it does not run out.

*SpokeMetadata.* `pub[c]` holds the locals of `runMetadataPublisher` of
connection c; the notification and rejection channels hold one token each and
belong to the spoke, not to a connection. `Receive` decodes and looks at a snapshot,
`ReplaceMetadata` stores what the read loop has in `hand`; between the two another
goroutine may close the session (`EndSession`), which clears its metadata.

*RateLimit, StickyPool.* A bucket is its rate and its tokens. `rate.Limiter` fills
continuously: a tick is a part of a second (`TicksPerSecond`), and tokens are counted in
parts of a permit, so that a tick brings exactly what the rate makes in it.
`Allow` spends the provider's permit first and does not give it back. `Materialize`
and `Execute` are two steps because a handler reads the rules and the scheduler at
different times; `Pick`, `Admit` and the outcome are those of
`executeStickyLoop`, whose store operations each hold the store's mutex. The time
of the look-up is the start of the schedule, that of the binding the success.
`served`, `last`, `given` and `swayed` are history.

*Configuration, RuntimeConfig.* `Configuration` holds everything that is a function
of a configuration: `ValidateForServe`, `ValidateCascade`, `MakeResolver` with its
checks, the callable names. Every method of `Manager` holds its mutex and is an
action, an edit with its validation, its write and its propagation into the other
tables. Apply is `pc`: validation, the rename that makes the file, then the
assignments to the handlers' globals and the commit, which requests and a crash see
one by one. From the first Apply on the handlers hold the draft object itself:
`live` and `shared` say how much of it.

*Rules, SmartRoute, Routing.* A frame of `stack` is one execution of a handler, on a
node: `route`, `resolve`, `plan`, `execute`, with the version of each global it read.
`InitCfg` and `InitResolver` are the two assignments of an Apply. A leaf whose
address is another node pushes a frame, as a job (with origin and hop) or by HTTP
(without); the answer pops it. Which leaf is tried and how an attempt ends is any
choice: the schedulers are modelled apart. A frame's request is its settings, which
`EncodeSettings` converts at every hop; its body is a function of the conversation and
of the frame's `way`, the formats it was converted to so far. `Merged`, `Tables`,
`Decisions`, `Bodies` and `TakenByOllama` tabulate functions of the constants.

*RequestCodec.* `EncodeBody` is what `EncodeRequest` does to the messages,
`EncodeSettings` what it does to effort, thinking, token limits and the tool choice;
neither reads the other's part. The words for thinking of a Chat request
(`thinking.type`, `enable_thinking`) are one, taken to agree.
A text is a sequence of tokens, so that a merge keeps
its order visible; a content has the `form` (Go type) its producer leaves it in, because
consumers read only some of them: `structs` and `media` become maps once they are
marshalled, which is why two conversions in one process and over two differ.
`Converted` goes through Chat as the code does, `PadChat` and `PadClaude` are the
blanks put in for a DeepSeek's missing thinking. Left out: ids made up for calls without
one, the `function_call` of old, tool declarations, files, audio and video (an image
stands for all media).

*OAuthState, DeviceLogin, Bridge.* The state file is what `Lstat` shows of its path
and the credentials in it. `lock` is the provider's mutex, held over the refresh as
in the code; `reload` is the second read under it, `post` the call that rotates the
token, `answer` the write. A token's life is counted in the stretches the refresh
windows cut it into. The server's side keeps the refresh tokens it accepts (`live`)
and those it rotated (`spent`). A login's clock counts from the issue of the device code;
`BeginPolling` comes later, when the code has been shown, and counts its deadline from
there. A login's polls touch nothing of the service until
one is granted, so they are taken before the service's steps (`Polling`): the two
commute.

## 3. Runs

| run | instance | what it shows |
|---|---|---|
| `health_checker` | 2 keys, threshold 3, cooldown 1, quota 2 capped at 5, pin 7 | the maps stay in step (`OverrideOrThreshold`), cooldowns escalate once per window, the checker implements `Breaker` |
| `scheduler` | three modes; children {a, b, c}, or {a, b} and a group; a and b on one key; a has one retry; stream or not | the contract (`KeepsContract`), the permits, the streams, what stops a schedule (`AbortIsExplained`) and who is blamed for it, nobody passed over, the answer |
| `race` | three leaves, or a leaf and a group | one stream is left and it is the winner's (`OneStreamLeft`), the contract holds, everybody's wait ends but that of an attempt which never comes back (`AllEnd`) |
| `sticky_pool` | 2 slots, 4 requests, 2 leaves of weights 2 and 1 on one provider, 2 rulesets, 2 ticks a second | successes are shared by weight up to the requests in flight, an identity gets no more permits in any time than one rate allows, a session goes back to where it was served |
| `stream_delivery` | every pair of 4 upstream and 3 client formats, and Responses to an object; 7 items, 2 calls of 2 fragments; the probe alone with 4 items | what the client gets is its own protocol, whole, call by call (`ClientStreamSound`); no finish is made up for a broken stream (`TruncationShows`); the upstream is given back |
| `cascade_job` | a streaming job of 2 chunks and a plain one | chunks in order, aborted streams never look complete, jobs are settled (`JobsSettled`) |
| `hub_session` | 3 connections, 1 Apply, 1 attempt | session, connections and health keys agree (`SessionAgrees`); a lost session whose read loop returns is cleared |
| `spoke_metadata` | 1 connection, 3 changes, 2 of them rejected | never an older snapshot, and none only at the session's end (`NeverOlder`); no more sent than changes and retries pay for; hub and spoke come to rest on the content (`ComesToRest`) |
| `runtime_config` | 3 starting configurations, 6 names, 3 providers, 2 edits, 1 Apply, 1 crash | names and look-ups stay sound and circles of groups are refused exactly (`LookupsEnd`), a restart brings back what ran, an edit breaks its own object only, the names nobody follows excepted (`EditsKeepDraft`) |
| `routing` | a hub and a spoke with 2 configurations each, 31 requests | the upstream gets the conversation the node was sent, in a form it accepts (`ConversationIntact`); a spoke gets no job back; plan and settings are those configuration and rules call for, thinking that is off where the next format hears it (`PlanAsConfigured`); the endpoints agree on the smart route; a 404 is explained; requests end |
| `bridge` | 2 requests, 3 grants, 1 failure, a login; 4 states of the disk, 3 kinds of tokens | no rotated token is presented, a 401 is passed on only after two tokens, polls are paced as the server told (`PollsPaced`), a login is usable until a refresh is refused (`LoginUsable`), all ends |
| `draft_cycle` | a chain of three groups, 2 edits, 1 Apply | violation: an edit closes a cycle in the running resolver |

The violation is a disagreement between the code and its comments, quoted under
"findings". Properties that pass are stated so as not to hide others: where the code
does not keep a promise in one case, the comment of the property says which case is
left out. The cases met so far, and how to see them:

* an error that only looks like the end of the request's context stops the whole
  schedule: of a dial that times out (`provider/client.go:34`, returned as it is by
  `scheduler/attempt.go:108`, taken for an abort at `context_abort.go:37`), and of the body
  of a non-streamed attempt, which cancels its own context before its body is read
  (`attempt.go:52`): `AbortOnlyWhenGone` of `LeafAttempt` as an invariant of `MCScheduler`,
  with the constants of `Scheduler.cfg`;
* the probe waits for a second end of the pump when the stream ends at the prefix
  limit without an event (`stream_probe.go:150`): `ProbeReturns` of `StreamProbe`,
  with MaxItems = PrefixLimit = 2, EventCap = 1;
* a chat client is sent `[DONE]` although the stream was broken off
  (`codec/response_anthropic_to_openai.go:243`, `response_response_to_chat.go:357`,
  `stream_map_ollama_to_chat.go:208`): `DoneMeansComplete` of `StreamDelivery`, as an
  invariant with the constants of `StreamDelivery.cfg`;
* closing a session does not reach a waiter taken out of the map
  (`cascade/job.go:206`): `TornDown` of `CascadeJob`, with one streaming job of one chunk;
* after a hub swap the old hub may get a spoke (`cascade_runtime.go:53`):
  `OldHubEmpty` of `HubSession`, with two connections, MaxApplies = 1, MaxJobs = 0;
* two connections of a spoke share its notification channel, and a change can be
  lost (`cascade/spoke.go:73`): `ComesToRest` of `SpokeMetadata`, with MaxConns = 2,
  MaxChanges = 1, Bad = {}, Retries = 1;
* a session closed while its read loop has a snapshot in hand keeps that snapshot
  (`cascade/session.go:164`): `ClosedHoldsNothing` of `SpokeMetadata`, as an invariant
  with the constants of `SpokeMetadata.cfg`;
* the rate of an identity after an Apply may be the one before it
  (`ratelimit/manager.go:78`): `OwnRate` of `StickyPool`, as an invariant with the
  constants of `StickyPool.cfg`;
* `slow_down` cuts an interval above the maximum down to it (`bridge/xai_login.go:320`),
  and a device code is polled with after it has expired, because its time is counted from
  the first poll (`xai_login.go:234`): `SlowDownSlows` and `CodeStillGood` of
  `DeviceLogin`, as invariants of `MCBridge` with the constants of `Bridge.cfg`;
* a login written while an older token's refresh is refused is wiped by that refusal
  (`bridge/xaioauth.go:364`): `LoginKept` of `Bridge`, as a property with the constants
  of `Bridge.cfg`;
* an alias of an internal group as the entry of a smart route is announced as
  callable and answered with 404 (`handler/chat.go:122`): `CallableIsServed` of
  `Routing`, with `AliasConfigs` and `AliasRequests` of `MCRouting`.

### Bounds

* `scheduler`: two leaves on one key are the least for siblings to matter, a third
  on another key the least for something to be left after them; the group between
  them makes the group *mixed*. One retry reaches every edge of the retry loop,
  Threshold 1 makes every failure open the breaker, so that a breaker opened by
  this request and one opened by others both occur (Threshold 3 only postpones it;
  the counting itself is `HealthChecker`'s). `Contended` bounds the keys others
  report on, `Unsteady` the leaves whose schedulability changes.
* `race`: three racers, so that two losers can meet the winner in either order.
* `sticky_pool`: two requests at a time, so that one succeeds while the other looks
  up; four in all and weights 2 and 1, so that the share of a whole round is seen;
  the clock reaches one idle timeout, after which a binding has expired, and half a second
  before it a bucket of the higher rate has filled by one permit, so that more than a burst
  is given within a second; the rulesets give one leaf different rates, the other one
  none. The slots are interchangeable and no liveness is checked: the symmetry is
  sound.
* `stream_delivery`: more items than the prefix limit and than the event slots, so
  that both fill up and the pipe is used. Seven events are two calls, each named and
  given two fragments in any order the format has, or fewer with a text before and an end
  after; two calls so that fragments can be given to the wrong one. A probed stream
  of four items fills prefix, channel and pipe.
* `cascade_job`: two chunks so that order matters, two jobs so that one blocks the
  other's read loop.
* `hub_session`: three connections so that a replaced one can end after its
  successor was replaced too.
* `spoke_metadata`: two consecutive rejected versions, and a later good one.
  `MaxConns` is 1 because with two connections the spoke may forget a change.
* `runtime_config`: two edits, so that a second one meets what the first left, before,
  between and after the steps of an Apply that may fail or be cut by a crash. The
  starting configurations hold what the edits are about: a group that refers to a
  redirect, a hub that a group uses, a spoke with a chain of references.
* `routing`: two versions of each node's configuration, so that a request may see both;
  four frames, which are more than the longest chain: one that needed a fifth would stay
  unanswered, and `Answered` would be violated (five give the same states). A key of the
  rules forces each format, so that every pair is converted, with DeepSeek upstreams and
  others. The conversations that are hard to convert hold two calls at once behind a
  text, several texts, media, an assistant that speaks twice, and a text beside results.
  Thinking is turned off by a rule, by the client's effort and by its word, with an effort
  and without, for leaves of every format.
* `bridge`: three grants are a first one, its successor and a login's; two requests are
  enough to refresh at the same time and for one to be forced while the other refreshes.
  ExpiresIn is more than the longest interval and less than two of them, so that a wait
  is cut; `SlowDownMaxInterval` is below an interval the server may ask for.

`CHECK_DEADLOCK FALSE` is given where a request, a job, a login or a connection comes to
its end and nothing is left to do, or where a bound of the model is used up;
`HealthChecker` never stops and is checked for it.

### Fairness

Weak fairness on the steps of goroutines: the Go scheduler runs a goroutine that
can run. `Wait` ends by a token or by the request's deadline. A response body is closed
in the end (`net/http` and the handlers' `defer`). The bridge's calls have timeouts
(`http.Client.Timeout`), so its handlers and its login go on, the showing of its code
included. What was sent over a spoke's connection is read and stored. Nothing is assumed
of clients, upstreams, other requests, spokes, connections, users, Applies, failures or
the clock.

Three things the code does not see to are not assumed but written into the properties as
premises: that an attempt of a schedule comes back (`Answered`), that a racer's does
(`Answered` and `AllEnd` of `Race`), as the probe may wait for ever
(`stream_probe.go:150`); and that the read loop of a connection that is down returns
(`LostSessionCleared`), as it may be stuck in the pipe of a job nobody reads
(`cascade/job.go:206`).

## 4. Proofs

`HealthChecker_proofs` (all constants: any keys, threshold, cooldowns):

* `TypeCorrect`, `MarksExclusive` (the run's invariant) and `Capped` (no cooldown is
  above the cap). They are proved together as `IInv`: the cap on the cooldowns and the
  exclusion of the two kinds of mark are both needed for the types of the maps after a
  quota error doubles the previous cooldown.
* `Refinement`: the checker implements `Breaker`. The mapping reads `healthy[k]` off
  the mark, its age and the window; the argument is that a report on one key leaves
  the view of the others alone (`ViewLocal`, `OthersUntouched`), that a key just
  marked is in its cooldown, and that a tick can only make keys healthy.
* `OneEscalationPerWindow`: a quota error on a key whose quota cooldown still runs leaves
  the cooldown as it is, whoever reports it. It follows from `IInv` step by step; the
  level a cooldown was raised to is only compared while the mark is the one it made.

The first half of `Scheduler_proofs` holds what every sequential mode keeps whatever its
loop does, for any children, groups, keys, retry budgets and reports of other requests.
Its invariant `LeafInv` has six parts: the types; who can be executed at which phase and
with which outcome in hand (`TurnInv`); the permit (`PaidInv`, where the permit a leaf
brings to executeNode is needed to know that `Send` finds one); which streams are open
(`StreamsInv`: a stream worth reading is the soft result in hand, the outcome not yet
recorded, or the answer); what an abort is explained by (`AbortInv`, which needs that
no abort is ever kept as a failure); and that a child that had its turn left its failure
in hand (`MemoryInv`, needed for "rate limited" to be said only when nothing was tried). One
lemma per step shows it kept: the steps of a turn (`EnterNodeKeeps`, `SendKeeps`,
`ResponseArrivesKeeps`, `RetryKeeps`, over `TurnEndsWell`), those of a loop
(`BeginsWell`, `LoopStays`, `RecordsWell`, `FinalWell`, `StopsWell`, over
`FinishesWell`) and the environment's. A last section relates the same steps to
`ScheduleContract`: the end of a first turn is a `Try`, recording an outcome is nothing
or a return, an abort is a `GiveUp`.

The second half adds what the loops need, and proves for `Scheduler`, in all three
modes, flat and mixed: `TypeCorrect`, `Paid`, `StreamsReleased`, `AbortsAreExplained`,
`NobodyIsPassedOver`, `AbortsUnreported` and the refinement `Contract`. Its invariant is
`LeafInv` with the part of the mode:

* failover: the two lists only hold children of the group (`ListsInv`), every child had
  its turn, was passed over, has its turn or is in a list (`FailoverAccount`), and it is
  in one list at most, once, before its turn only (`OnceInv`, which needs that the order
  of a group has no duplicates);
* load-balance: a child in the selector has not had its turn, the one being recorded
  excepted, and who is taken out with another was unhealthy (`BalanceAccount`,
  `RemovedAccounted`);
* adaptive: the slice holds leaves of the group, each once (`SliceInv`), and nobody from
  the index on had a turn, though the slice shrinks on both sides of the index
  (`WalkInv`, `AtIndex`). The lemmas `Ranks`, `BehindIndex`, `RankBehind` and
  `ShrinkWalks` count places and say what the index means after siblings were removed.
  Adaptive may skip a healthy leaf (section 5), so `NobodyPassedOver` leaves this mode
  out.

`Race_proofs` proves `OneStream` and, as `Contract`, that the concurrent mode implements
the contract, for any number of children. Next to `OneStreamLeft` its invariant says how
a racer's state, its result, the channel and the set of those heard go together
(`RacersInv`, `ResultsInv`, `ChannelInv`), that what the loop holds was heard and that it
holds something once anybody was (`HeldInv`), and that no racer runs on under a context
that is still good when the answer is given (`DoneInv`).

`HubSession_proofs` proves `SessionsAgree`, for any connections, keys and Applies.
`SwapInv` says which hubs there are at each step of `swapHub`; `HubsBuilt` that no
connection is of a hub to come; `PinsOnly` that before the first attempt a key is
unhealthy by a pin only, because a cooldown could run out while there is no session.

`Cascade_proofs` proves `StreamsIntact` and `JobsAreSettled`, for any jobs and chunks.
The two halves of the invariant are kept apart. `ControlInv` is about the session: who is
in its map, who waits, whether it is closed. `DataInv` follows the chunks: what is on the
wire is the tail of what the spoke emitted (`WireInv`); nothing comes before the job was
sent (`SentInv`); what was read, what the loop has in hand and what is on the wire add up
to what was emitted (`CountInv`, `LoopInv`); and a waiter ends well only when the last
frame was read (`OkInv`). `HeadChunk`, `AppendChunk`, `HeadEnd` and
`AppendEnd` are the lemmas about the two ends of the wire.

Its second half proves `PublishersBounded` and `MetadataNeverOlder` of `SpokeMetadata`,
for any number of connections, changes and retries, two connections at once included.

* `OrderInv` lines up all places a version can be in: the hub's, the one its read loop has
  in hand, those on the wire in their order, the last one sent, the one being sent,
  the content; none is newer than the next. A snapshot that is accepted is then no older than what it
  replaces, also when it is stored after the session was closed.
* `BudgetInv`: what was sent, what is about to be, what the timer is set for and the
  retries left are together no more than a round of retries for the first snapshot and
  for every change the publisher was told of. A rejection that sets the timer uses up a
  retry, which leaves the sum as it was; that is why the timer is in it.

`Bridge_proofs` proves `PresentedOnce`, `RetriedFreshly`, `Paced` and `Usable`. `Rotated`
are the refresh tokens the server rotated whose successor is in the file or on its way
there, `Awaited` the grant a login has yet to write. The file holds a rotated token only
while the request that rotated it, under the lock (`LockInv`), has yet to write
(`StoreInv`); no request presents or writes a rotated or an awaited one (`HoldsSound`),
and the tokens it tried are of different grants (`TriedSound`). `LoginInv` has the clock
of the device login: who is about to poll again has waited as long as the server `Told`,
which is the interval kept, whatever the clock read when polling began. `Usable` needs no
more of a refresh than which of its steps write the file.

`StickyPool_proofs` proves `SharedFairly`, `SessionsStay` and `RateKept`, for any number
of requests, leaves, weights, rates and Applies.

* `ShareInv` counts what is in flight as if it were served. `PickDeficit` takes the least
  of an order by quotient, weight and place; that it exists is `Minimal` (a strict order
  on a finite set has a minimal element, by `Least`) with `CrossTransitive`, that
  quotients can be compared by cross-multiplying. A success then moves one from the
  requests in flight to those served and changes nothing.
* `SessionInv`: the store holds the binding of every session that is still good, with
  its expiry. The time of a look-up is never after the clock, so pruning and the deletion
  in `Lookup` only meet what has expired.
* `RateInv`: since each of its permits, an identity was given no more than what its bucket
  could hold and was filled with, less what the bucket still holds (`BucketOK`); that is
  kept by a tick (`BucketFills`) and by a permit (`BucketPays`), and two permits are the
  case of the time in which the later one was given. Nothing was given before there was a
  bucket, and the bucket has the rate of the rules that its first permit came with.

`RuntimeConfig_proofs` proves four results, for any names, starting files and inputs and
any number of edits, Applies, crashes and restarts.

* `RestartKept`. `FileInv` says that draft and committed configuration are well-formed,
  that the committed one can be applied, the draft too once an Apply has checked it, and
  that the file is what is written for the committed configuration up to the rename and
  for the draft from then to the commit, whether the process runs or not. `FileKeeps` is
  the conversion: what `ToYaml` writes, `Load` reads back, weights of 1 that are not
  written included; `EditKeeps` that every edit leaves a well-formed draft.
* `CycleCheckIsExact`: the coloured depth-first walk of `detectCycles` refuses exactly
  the configurations in which a group reaches itself. The walk is a function of the
  number of groups not yet visited, so its facts go by that number (`VisitWorks`,
  `DfsWorks`): a group that is done leads only to groups that are done, and never back
  to itself (`Founded`), and a walk that fails has found a path back to a group on its
  way (`DetectsCircles`). Go ranges over a map: only that every group comes up is used
  of the order. `RoundsReachAll` shows that `Acyclic`, which grows the sets of groups
  reached round by round, reaches all of them, so that the two mean the same.
* `LookupsAlwaysEnd`: names stay distinct, and no chain of redirects runs in a circle.
  An edit may bend one redirect; `wouldCreateCycle` looks from its source alone. A set
  of sources nobody leaves would hold the bent one, and the walk from there would not
  have ended (`ChainsIndexed`, `WalkStays`, `ClosedSetFound`).
* `EditsAreLocal`. `OnlyLoosens` says of one edit, pointwise, that nothing comes loose
  but what its object refers to; the lemmas `Group...`, `Redirect...` and `Provider...`
  show it edit by edit (`EditLoosens`), and `LoosensAreNamed` makes the property of it.
  The names nobody follows, those of smart_route and of the spoke's peer, come loose when
  a table loses a name (`OutsideKept`), which only renames and deletes make it do
  (`EditLosesUnfollowed`).
  For the cascade role, clearing the hubs changes no group and no redirect, so the
  resolver finds the same circles (`SameWalk`, `SameCircles`, `SameResolver`); and since
  the groups have no circle, one of them sends to providers only (`SomeLeaf`), so that a
  node that gives up its role is left with a provider.

The last two say of the starting file what the loader does not check: `LookupsAlwaysEnd`
that it gives no name twice (`Distinct`), `EditsAreLocal` that its groups have entries
(`Filled`). Edits refuse to break either. `EditsAreLocal` also says that no provider's
name has a "/", as an entry is cut at its first one. The starting configurations of the
run have these properties.

The theorems rest on the assumptions of the modules and, where said, on their
hypotheses. `BreakerAssumption`, `OutcomeAssumption` and `LeafAssumption`: every leaf
has a key and a retry budget, groups of children are finite and have an order without
duplicates. `JobAssumption`, `HubAssumption`, `HealthAssumption`: bounds and durations
are naturals, a quota cooldown is not above its cap. `BridgeAssumption`,
`DeviceLoginAssumption`: the value for "nobody" is not a request, the directories and
tokens begun with are well-formed, intervals are positive. `MetadataAssumption`: bounds
are naturals, what the hub rejects are versions. `NamesAssumption`, `RuntimeAssumption`:
the empty string is no name, the starting files are ones the process starts with, inputs
are well-formed. `PoolAssumption`: finitely many slots, a group is not empty
(`executeGroup` refuses one that is), weights are positive, every ruleset has a rate for
every leaf. TLC evaluates all of them in the runs.

What stays with TLC:

* liveness (`Answered`, `AllEnd`, `UpstreamReleased`, `LostSessionCleared`, `ComesToRest`)
  and anything under fairness or `ENABLED`, which the prover does not handle;
* what the converters compute (`ClientStreamSound` and `TruncationShows` of
  `StreamDelivery`; `ConversationIntact` of `Routing`): folds over events and messages,
  whose invariants are inductions over data, out of its reach;
* the rest of `Routing` (`NoEcho`, `PlanAsConfigured`, `SmartRouteAgrees`,
  `NotFoundExplained`), which is not proved: what they compare are plans, merged rules and
  searches, recursive functions again, each of which would need its induction written out
  as the cycle check's was. `NoEcho` moreover holds of one hub with one spoke only, because
  a request that comes by HTTP loses the mark of its first spoke when it becomes a job
  again (section 5).

Every other property of the runs that pass is stated by a theorem.

## 5. Not modelled

* The payloads: which body is which kind of failure, the fields of a whole answer as an
  object, metadata entries. They are inputs of the models. Of requests, the fields no
  control depends on (tool declarations, sampling, metadata).
  `readAnthropicStreamToObject`, `writeClaudeObjectAsStream` and
  `writeResponsesObjectAsStream` are used by tests only.
* Of the rate limiter, the reservation `Wait` makes: the models of the modes take its
  answer. The scores of adaptive: every order they could give is possible there.
* Reconnect back-off and heartbeats of a spoke: a connection is lost at any time and
  made again at any time. Stopping a spoke while it registers.
* The attempts of the smart route's judge: it answers anything. Embeddings repeat the chat
  handler's path; model lists read the resolver.
* The cache of learned fallbacks of the Responses API; an unrelated failure may evict
  an entry (`provider/responses_compat.go:107`).
* Parsing of configuration values and their defaults, migration of old files, Apply's check
  for deprecated fields; the limit on the length of metadata names.
* Catalog, admin sessions, statistics, metrics, log sink, shutdown of the servers: no
  control another part depends on.

Things the models contain, or their authors met, and no property forbids, because the
code does them:

* Ordinary failures delete a quota back-off level (`health/checker.go:77`). Adaptive may
  skip a healthy leaf when siblings before its index are removed
  (`scheduler/adaptive.go:248`). The outcome of an attempt begun before a cascade session
  ended lifts the pin of the missing session (`health/checker.go:57`). The limiter refusing
  to wait is counted against the provider (`scheduler/concurrent.go:40`).
* The provider's permit is spent when the identity's bucket refuses
  (`ratelimit/manager.go:42`). A candidate that Apply adds starts at count 0 and gets every
  keyless request until it has caught up (`scheduler/sticky.go:131`). A request materialized
  before an Apply pays the old manager or brings the old rate to the new one.
* The names smart_route and the spoke's `peer` give are not followed by renames and deletes,
  and Apply refuses the draft until they are repaired (`EditsKeepDraft` names the edits).
  A draft edited to
  something the resolver refuses can no longer be shown (`GetDraft`). A rule may name a
  protocol with a blank around it: it is valid, and its leaf cannot be materialized. One leaf that
  cannot be encoded fails the whole request.
* Handlers read the live configuration without a lock, while the draft is edited; a cascade
  block removed by an edit is dereferenced after its nil check.
* Two pairs of hub and spoke, or a plain proxy between a hub and its spoke, lose the mark
  that breaks the circle: it travels with jobs only.
* One client that does not read its answer stops the session's read loop (`cascade/hub.go:277`).
* A client that leaves while the token is rotated loses the successor
  (`bridge/xaioauth.go:280`); a login written while a refresh is refused is wiped by it
  (`xaioauth.go:364`); `slow_down` shortens an interval above 30 seconds to 30
  (`xai_login.go:320`).
* Conversion of requests. From Claude to Chat, what a user says beside results is put
  between the calls and the results, and null stands there when they said nothing
  (`request_anthropic_to_openai.go:286`). From Claude to Responses, texts beside results,
  media or other texts are dropped, because `appendUserItems` does not read the parts the
  first half leaves; to Ollama such a request fails. Media of a Responses request become
  "..." for Claude and an error for Ollama. To Claude, an assistant's message that
  follows another one of the assistant's is merged with it and loses its calls, whose
  results stay (`request_openai_to_anthropic.go:313`). A Claude `tool_choice` of "none"
  is passed to Chat upstreams as an object, which no format knows; thinking
  that is off in a Claude or Responses request is not said to upstreams of other formats,
  nor is an effort of "none" in a Chat request to Ollama
  (`request_openai_to_ollama.go:57`), nor a Chat request's word for it to Responses
  (`request_chat_to_response.go:27`);
  Claude requests are not padded for a DeepSeek that speaks Responses. Results without a
  call are appended in the order of a Go map. `LosesTexts`, `LostCalls` and the
  exceptions written out in `ConversationIntact` and `SettingsKept` are these cases.
* A Chat stream that ends for length is "completed" to a Responses client; parts of reasoning
  are not passed on to it.

## 6. Plan

1. *done* `Breaker`, `HealthChecker` and its proofs.
2. *done* the schedule contract, the attempt, the four modes, the stream probe.
3. *done* cascade: jobs, hub sessions, spoke metadata.
4. *done* runtime configuration, resolver, rules, routing over hub and spoke.
5. *done* stream converters, composed with the probe.
6. *done* bridge; sticky store and buckets; request conversion, composed with routing.
7. Left to model: the spoke's life cycle (back-off, stop while registering);
   `HubSession` with `CascadeJob` (a session that is cleared without being closed); `Wait`'s
   reservation; the cache of learned fallbacks; whole answers as objects.
8. Proofs: *done* `HealthChecker`, `Scheduler` in its three modes, `Race`, `CascadeJob`,
   `SpokeMetadata`, `HubSession`, `Bridge`, `StickyPool`, `RuntimeConfig`. Left:
   `StreamProbe` (what the probe forwards), and of `Routing` what does not need the
   converters.

Runs are kept few: further modes of a component become further initial choices of the
run that has it, as in `Scheduler`.
