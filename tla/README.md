# model-mapper-plus: TLA+ models, checks and proofs

model-mapper-plus is a plugin for the CPA proxy, loaded in-process as a C shared
library. It rewrites model names by ordered rules, attaches extra rules and
switches to client API keys, offers a management API that persists the rules in a
state file and audits every change, reads names from a Usage Keeper, and dispatches
usage notifications to chat platforms. This directory models the parts of it that
keep state and act concurrently, checks them with TLC, and proves the central
results with TLAPS for every value of the constants.

`PROJECT.json` is the index: components, runs, mutants, the map from definitions to
source lines, hazards, findings, theorems.

## 1. Inventory

| Component (source) | State | Operations | What is hard | What makes it correct |
|---|---|---|---|---|
| Run-state store (`notification_store.go`) | bbolt buckets: jobs by merge dimension, clocks by target, delivery records, revision | upsert (merge into a pending row or overwrite any other), claim, finish, boot recovery, clock, revision, supersede | one transaction each, so the harm is between transactions; identifiers survive merges but not overwrites | no outcome of a call is lost; a row is claimed at most once |
| Service loops (`notification_service.go`) | one active instance, its two loops, the schedule tick and the send tick (15 s each unless set otherwise) | schedule tick, send tick, start, stop, restart | two loops, management calls and a manual retry share the store without a common lock; calls to Keeper and platform in the middle; cancellation; crash | due targets are served, at most one call per job, clocks follow recorded acceptances |
| Notification management (`notification_management.go`) | none of its own | settings save (state, revision, restart), test send, manual retry, reads | the save is four steps; retry runs outside the mutex; test send shares the dimension of regular jobs | new settings fire no old message; a test settles its own row |
| Schedules, settings, templates, platforms, statistics (`notification_schedule.go`, `_types.go`, `_template.go`, `_platform*.go`, `_keeper.go`, `cpa_quota_client.go`) | none | pure functions and HTTP calls | calendar edges, validation, part splitting, lost answers | next trigger and period agree; normalisation is idempotent |
| Member picker (`notification_members*.go`) | registry of services by credentials; per service a cached list, a cool-down, a flight | a list request; the walk through a directory (token, departments, users, names), listing by listing, page by page | requests share a flight, the registry is cleared under it; departments nested, listed twice or in a circle; workers side by side; a platform that pages for ever or stops early; the cut at 20000 | one leader per flight; the whole directory, a full list, or none; everyone is answered |
| Audit journal (`audit.go`, `audit_query.go`) | one JSONL file per directory and day; tables of running and unconfirmed operations | begin, finish, read a day | torn, unended and unsynced appends; midnight; restart | every effect is reported and every report is true |
| Management gate (`audit_management.go`, `management.go`) | the management mutex | audited state edits and renames | start record before, finish record after; crash in between | recorded answer and journal agree |
| State file and live state (`state.go`, `main.go`) | the file, the live state, the loaded configuration | resolve, save, migrate, swap | file written before the live state is swapped; configuration and state swapped under two locks; operator edits the file | live state and file agree; acknowledged edits stay |
| Keeper names and aliases (`keeper_*.go`, `management_keeper_names.go`) | cached lists, single flight, generation, cool-down | list, forced refresh, rename | late results after a rename or a reconfigure; a rename with no answer | no older name after an acknowledged rename |
| Rule engine (`main.go`) | none | parse, match, replace | quoting next to separators and wildcards; a backtracking matcher with a memo | the matcher finds the fit the rules define |
| Routing, key access, scheduling (`main.go`, `state.go`) | round-robin positions per key | access check, route, executor, pick a channel, put the name back | every handler reads configuration and live state anew; the route is decided twice; an effort takes part as a suffix | a bound key stays on its channels; the answer has the name that was asked for; turns are even |
| Executor and streams (`main.go`) | one goroutine per stream, the rewriter's buffers | forward, rewrite, close | chunk boundaries anywhere; errors at any call; panics | what arrives does not depend on the cuts; both streams end once |
| ABI glue, embedded page, web UI, release scripts | - | - | - | - |

Interactions: the host calls the plugin from many threads. Management requests and
`plugin.reconfigure` serialise on `managementMutationMu`; the live state and the
loaded configuration have their own read-write locks, taken for single reads and
swaps. A settings save and a reconfigure stop the running notification instance and
start the next one while they hold the mutex. The loops, a test send and a manual
retry meet only in the bbolt store.

## 2. Modules

| Module | Models | Built on |
|---|---|---|
| `NotificationStore` | the store: one operator per transaction | - |
| `NotificationService` | both loops, the life cycle of an instance, settings save, reconfigure, test send, manual retry, crash | `NotificationStore` |
| `JobLedger` | what store and send loop promise: the abstract life of a job | - |
| `AuditJournal` | appending and reading the journal | - |
| `PluginState` | state file, quarantine file, live state | - |
| `ManagementGate` | audited operations, reconfiguration, operator, midnight, crash | `AuditJournal`, `PluginState` |
| `KeeperNames` | the cached lists of Keeper names, the rename, the replacement of their service | - |
| `RuleEngine` | parser, matcher, replacement of rules, as operators | - |
| `Routing` | segments, bindings, the two layers, effort suffix, dry run, as operators | `RuleEngine` |
| `RuleDesk` | a rule text and a model name typed piece by piece | `Routing` |
| `RouteGate` | requests through the handlers, edits in between, the round robin | `Routing` |
| `StreamRewriter` | the SSE rewriter: what a write and a flush do | - |
| `StreamForward` | the goroutine between the host's stream and the plugin's | `StreamRewriter` |
| `MemberPicker` | registry, services and directory walks | - |
| `NotificationProofs`, `ManagementProofs`, `KeeperProofs`, `RouteProofs`, `RuleProofs`, `StreamProofs`, `MemberProofs` | theorems | the modules they are about, `TLAPS` |
| `Inductions` | lemmas every proof module may use: induction and recursion over the naturals, folds, flattened sequences, codings of texts | `TLAPS` |
| `MCNotification`, `MCManagement`, `MCKeeper`, `MCRules`, `MCRoute`, `MCStream`, `MCMembers` | constants of the runs | the modules above |

### Notifications

The variables `jobs`, `clock`, `deliveries`, `revision` are the four buckets. A key
of `jobs` is the merge dimension of `jobKey`: notification (with its scope), channel,
platform, period. A payload is left out, an identifier reduced to its rank in the
order `newJobID` hands them out. `UpsertJob`, `ClaimDueJobs`, `FinishJob`, `RecoverOnBoot`, `SetClock`,
`BumpRevision`, `SupersedeStaleJobs` are the transactions.

In the service a step ends where another goroutine, or a crash, could see the
state: at a store transaction, a Keeper or platform call, a look at the context.

- Schedule loop: `ScheduleTick`, then per target `ReadClock`, `Gate`, `Collect`, and
  per platform `Recheck` and `Enqueue`. What is read at one step and used at a later
  one is kept in the loop's local record (`snap`, `at`, `rev`).
- Send loop: `SendTick` (supersede), `Claim`, then per job `Call` or `SkipCall`,
  `Answer`, `Finish`, `Advance` or `RequeueForRetry`; `DropLateResult` and `SendDone`
  under a canceled context.
- Manager, under the mutex: `SettingsPut`, `Bump`, `Cancel`, `StopDone`, `Start`,
  `Register`; `Reconfigure`, which installs any live state without a bump; `TestSend`,
  `TestEnqueue`, `TestPick`, `TestFinish`;
  `KeyBindingsWrite`, which neither bumps nor restarts.
- `RetryRead`, `RetryWrite` run outside the mutex. `Crash` keeps the store and the
  saved state.

Every fault, every answer other than "accepted" and every operator call is a
*disturbance*: it needs its kind in `Disturbances` and uses one unit of
`MaxDisturbances`; one whose kind is in `Final` is the last. A run thus states exactly
which faults it allows, and how many.

Assumptions of the model: identifiers are unique and increasing (the code uses the
nanosecond clock); the wall clock does not run back; the channels "" and "-" are one
(`NoChannel`), as no row uses both for the same target; the order inside a claimed
batch and between targets is free; the revision read and the superseding of one send
tick are one step (a bump in between is indistinguishable from one before or after,
as the manager stops the loop before it can claim again); a calendar plan is reduced
to equidistant occurrences. A notification that inherits its plan is served by it
(`IntervalNotes`) but keyed by what it has of its own (`TickKeyed`).

### Management

A state is the set of edits it contains; 0 stands for what the operator wrote by
hand, the empty set for the YAML seed. A file is absent, good, "invalid" (parses,
fails validation) or "garbled" (does not parse, or has an unknown version): the code
treats the two unusable kinds differently. `Begin`, `Locate`, `Persist`, `Swap`,
`Finish` are the points of an audited edit where another thread or a crash can come
in between; `Rename` is the Keeper rename, whose effect is outside and whose answer
may be lost. `Reconfigure`, `Migrate`, `SwapConfig`, `SwapHolder` are the host's call.
A journal file is the set of events on its complete lines, the event, if any, on an
unended last line, and whether it ends with a newline; an append ends in one of five
ways, from "refused" to "unsynced". `Reported` is the reader.

Assumptions of the model: a crash is the death of the process, not of the machine
(the file system keeps what was written); operation identifiers are unique (16 random
bytes); handlers do not panic.

### Keeper lists

A list is a count: how many of the plugin's renames it shows; what others rename is
told by its age. `Request`, `Select`, `Install`, `Get`, `Fetch`, `Land`, `Check` are the
points of a list request where another thread can come in between: the choice of the
service under the two locks, the look at cool-down, cache and flight, the HTTP call,
its landing, the question whether the service is still installed. `Rename*` is the
rename under the management mutex, `Reconfigure` and `Reset` the host's change of
configuration, under whose lock the services go. Ages and waits are counted in ticks
instead of absolute instants, so time is not bounded. `acked` is a history variable:
the renames whose answer the operator has seen. The aliases are served by the same
steps without the rename.

A request and its context end together: `Tick` is not enabled beyond the deadline of
an open request. A waiting request whose deadline passes gives up; one that is handed
a list in that same instant takes the list, where Go would choose either.

### Rules and routing

A model name and a rule text are sequences of letters, kept letter by letter because
quoting, matching and the suffix `(effort)` are about letters. `ParseRules` follows
`parseRules`: `SplitEscaped` and `RuleSeparator` find the entries and their arrow,
`ParseSide` cuts a side into literals and captures; the number of a reference is
computed in an `int` of `IntSpan` values and wraps as it does in Go. `MatchTokens` is
the matcher: its memo (`failed`) and its order of trying are those of
`tokenMatcher.match`, written as a recursive function of what is still to be tried. `Routing` puts `selectRulesFrom`,
`findKeyBinding*`, `routeModel`, `routeModelForRequest`, `upstreamModelForRequest` and
`previewRoute` on top.

`RuleDesk` has one state per rule text and model name that can be typed, so that TLC
compares the operators with their reference definitions on every one of them.
`NumbersFit` keeps numerals too long for an `int` out of the typed rule texts; what
happens there is in section 5.

In `RouteGate` a request is the chain of calls the host makes for it: access check
(`Access`), route (`Route`), executor (`Execute`), scheduler (`Pick`), answer
(`Answer`). Each handler reads the configuration (`ReadConfig`) and then the live
state, under two locks one after the other; `Edit` switches the plugin or installs
another live state between any two steps, and `OtherPick` takes turns for requests
that are not followed. A request that met no edit is *calm*; the properties about
agreement speak of calm requests, `AnswerNamesRequest` and `EvenShare` of all.

Assumptions of the model: letters are ASCII and there is no white space around
entries and no comment line; the host asks the scheduler for every request it
executes, offers any set of credentials, and the answer comes in one piece.

### Streams

A stream is a sequence of symbols, a symbol per piece of text the rewriter tells
apart: the halves of a field name (a chunk may end in the middle of one), the parts of
a JSON document with the upstream's model name (`M`) or the client's (`O`), blanks and
both kinds of line break. `Write` and `Flush` are those of `streamChunkRewriter`;
`SSEWrite` is `sseRewriter.Write` with its cap `MaxBuffer`. `StreamForward` is
`runStreamForward` in the goroutine of `startExecutorStream`: `Open`, `ReadChunk` (a
chunk of any length), `ReadEnd`, `Emit`, `CloseHost`, `ClosePlugin`, and the failure
of each, before or after it took effect; `Panic` at any of them; `Fail` is the close
the goroutine makes after an error or a panic.

Assumptions of the model: an answer of the host that carries an error status opened no
stream; the last answer of a stream ("done") carries no payload, as the code drops
one; a JSON document is one symbol group, valid only as a whole.

### Member picker

`Register` chooses or makes the service of some credentials and clears the registry
when it has grown too large; a service lives on in the requests that hold it, hence
`Keys` counts the clearings. `Get` is `memberFetchService.get` with its three ways;
`Land` the end of a flight, in one critical section. A walk is the sequence of calls
of one platform: `Token`, `Scope`, `Tree`, `StartWorker`, `Page`, `UsersDone`, `Names`;
all but the token spend from the budget. Feishu's workers are the entries of `cursor`,
advanced in any order. `Fails` and `PageFails` are the failing calls.

Every listing comes in pages: `Replies` are the answers to a call for one of them. The
code takes a success without data, and at Feishu a page that announces more without a
token, for the end of the listing; the ghost `short` says that a walk met one. The cut
of `collectMembers.add` is `MaxMembers`: `Kept` leaves open which users of a directory
too large are kept, as the order of the rows is not modelled. Names are asked for in
batches; a user whose first row was blank and whom a later row named is asked for
again, or not (`Unnamed`), which again is the order of the rows.

Assumptions of the model: the directory does not change during a walk; a user has one
name, shown or left blank; a repeated "more" sends the last page again.

## 3. Runs

| Run | Expect | Shows |
|---|---|---|
| `delivery_safety` | pass | `SendingIsOwned`, `OutcomeAccounted`, `ClaimsAreCurrent`, `AtMostOneCall`, `ClockFollowsLedger` and the refinement `ImplementsJobLedger`, with every kind of disturbance, two per behaviour |
| `delivery_liveness` | pass | `PendingDrains`, `DueIsDelivered`, `ManagementReturns` under `FairSpec`, with every kind of disturbance (0.4 million states) |
| `management_safety` | pass | `TypeOK`, `AckedEditsKept`, `LiveIsOnDisk`, `EffectIsReported`, `ReportIsTrue`, `AnswerMatchesJournal`, `KeyLayerKept` (5.5 million states up to symmetry) |
| `keeper_names` | pass | `ReadYourRename`, `Freshness`, `ServiceIsCurrent`, `NoForeignAnswer` (5.8 million states up to symmetry) |
| `keeper_answers` | pass | `EveryRequestIsAnswered` under `FairSpec` |
| `request_path` | pass | `TargetHolds`, `AnswerNamesRequest`, `ExecutorFollowsRoute`, `AccessHolds`, `EvenShare` (0.9 million states up to symmetry) |
| `stream` | pass | `Conserved`, `CleanCloseIsComplete`, `ChunkingIndependent`, `NamesRestored`, `HostClosedOnce`, `PluginTold`, and `EveryStreamEnds` under `FairStreamSpec` |
| `rules` | pass | `MatcherIsReference`, `QuotedRuleIsExact`, `PreviewAgrees`, `EffortKeepsMappings` |
| `members` | pass | `WholeDirectory`, `FlightsAreLed`, and `EveryRequestIsAnswered` under `FairMemberSpec` |
| `stream_leak` | violation | the upstream's model name reaches the client |
| `backoff` | violation | a rate-limited dimension is called again before its Retry-After |
| `calm_duplicate` | violation | the two loops alone deliver twice |

The findings in `PROJECT.json` explain the three violations with the lines of the code
and of the documents they disagree with. `NamesRestored` is the other side of
`stream_leak`: where the code does restore the model's name.

**Bounds.** One notification on one platform already has every pair of actors on one
row, which is what the safety properties are about. `MaxTime` 1 gives a target that becomes due again; two
disturbances give a fault followed by a fault during its recovery (a crash during
the restart after a refused write, a test send after a manual retry). `delivery_liveness`
allows all the kinds as well. Its behaviours have one disturbance, or a save, a slow stop
or a failed start and any second one (`Final`): what stops an instance under the mutex,
with anything in between. A reconfiguration stops it by the steps a save goes through
after its bump. `DueIsDelivered` excepts a row whose outcome the store refused
to write, which silences its target until the next start. In the
management run two operations let a second save build on, or lose, the first; two
files in one directory let path changes share journals; `MaxDay` 1 puts a midnight
anywhere. In the Keeper run two requests are a reader and a joiner of one fetch, two
disturbances give a rename during a fetch followed by a second one or by a change of
connection and back, and `CacheFor` 3 separates the age a cached list may have from
that of a forced one. `keeper_answers` has `Deadline` 0: time passes only between
requests, so that none is answered by a timeout.

In `request_path` one key is mapped by a rule of its own and one has a channel target,
a third request has no key; the Codex rules map a model and the model with the effort
low differently, so that it matters which is tried first, and leave the model with the
effort high alone, so that its plain name is mapped; the three live states differ in a
blocked and disabled binding, a switched-off target and rules that do not parse; one edit anywhere separates
any two readings, and a choice for another request may change the pool under a
rotation over three credentials. `MaxBuffer` 9 is shorter than one event of one of the
texts and longer than the events of the others; each text is cut in every way, and two
faults give a failing call followed by a failing close. `rules` types up to four pieces
(literals, a wildcard, a reference, an arrow, a separator, an escape) and names of up
to three letters: a literal that repeats, two captures, a backtrack past a first
occurrence all fit in. The live states of the dry run switch a binding and its channel
on and off in three ways (`Switched`; with the channel on, the binding's own
switch has no part in the mapping). In `members` the DingTalk departments form a circle,
have one user more than `MaxMembers` 2 and one of them announces page after page; the
WeCom directory has a second top; the Feishu scope is nested, it and the departments
below come in two pages, and two names are asked for one by one. `MaxServices` 1 makes
the third service clear the registry, and `MaxRequests` 9 is enough for each walk unless
it is made to page for ever. `MaxFaults` 1 is a failing call anywhere, a listing that
stops early, or a wait that is given up.

Symmetry is used for the interchangeable requests, in runs without liveness properties.

**Fairness.** Weak fairness of the ticking clock, of each loop's next step, of the
manager's and the handlers' next steps: each is a goroutine that the Go scheduler
keeps running, each Keeper or platform call ends by its timeout and each store
transaction returns. Strong fairness of the two exits only: a canceled loop chooses
at random between a ready tick and the canceled context (`select`), so it may tick
again but not for ever. In `KeeperNames` the steps that take a mutex are strongly
fair: `sync.Mutex` hands itself over to a starved waiter. In `StreamForward` the
forwarding goroutine runs on: every call to the host returns, and the text is finite.
In `MemberPicker` each handler runs on, with the workers of the walk it leads; a
deadline that would end a wait is not needed. Nothing is assumed about disturbances:
none has to happen and each may happen at any time within its budget.

**Mutants.** Each property of a passing run has a mutated definition, next to the
original in the module, under which TLC finds it violated.

## 4. Proofs

All proofs hold for arbitrary constants (notifications, channels, platforms, requests,
rules, directories, texts, bounds, disturbances), under the named assumptions
`StoreAssumption`, `ServiceAssumption`, `NoneAssumption`, `JournalAssumption`,
`StateAssumption`, `GateAssumption`, `KeeperAssumption`, `AuthsAssumption`,
`SourcesAssumption`, `IntAssumption`, `TextsAssumption`, `MaxBufferAssumption`,
`StreamsAssumption`, `KindAssumption`, `BoundAssumption`, `PlatformAssumption`. Most say
that a bound is a number and a text is a sequence. `PlatformAssumption` is what the code
relies the platforms for: departments list departments, at Feishu all that is below them,
every listing has a first page, a user has one name, WeCom's departments hang together.

Every safety invariant of every passing run is stated by a theorem.

- `LedgerSafe` (`NotificationProofs`): in the abstract ledger waiting, in-flight and
  armed jobs are issued ones, an armed job has not been called, and each call is in
  flight, recorded or lost by overwriting.
- `TypeCorrect` (`NotificationProofs`): `[]TypeOK`. `TypeOK` alone is not inductive:
  `TypeInv` adds what the local variables of the loops hold at each program counter
  (a current target while one is being served, a job while one is being called, a
  key while a test or a retry is under way), since the next step applies functions
  to them.
- `LedgerMap` (`NotificationProofs`): row identifiers are unique among live rows and
  below `nextID`; the batch and the current job of the send loop are rows it claimed
  itself. These are the facts under which the rows can be read as sets of
  identifiers.
- `LedgerImplemented`: under `LedgerMap` every action maps to a step of the ledger or
  to a stutter, hence `Spec => ImplementsJobLedger`. One step per action.
- `CalledAtMostOnce`, `OutcomesAccounted`: `AtMostOneCall` and `OutcomeAccounted`
  carried back from the ledger through the mapping.
- `ClocksFollow` (`NotificationProofs`), from `Clocked`: while a tick serves
  its jobs no clock is ahead of the instant it took, and that instant is not ahead of the
  wall clock; at the step before the clock the acceptance is in the ledger. Everyone but
  the send loop only appends to the store (`ElsewhereAppends`).
- `SendingOwned`, from `Owned`: what is in flight is on hand or stuck while an instance is
  up. The loop lets go of a job only when its outcome is written, it is not found any
  more, or the write was refused; `clock` and `requeue` hold a job that is not in flight.
- `ClaimedAreCurrent`, from `Current`. `ClaimsAreCurrent` depends on everyone who writes
  rows: `RevisionsRead` says that no revision held by a loop or a handler is older than
  the instance, `Phases` that none of them is at work when the next instance starts, and
  `RowsCurrent` that between superseding and claiming no older row is pending. The
  revision 0 of a requeue does no harm only because the send loop itself writes it, after
  its claim.

- `TypeCorrect` (`ManagementProofs`): `TypeInv` adds that an operation at work has an
  identifier and the file of its start line, and a path once it has read one.
- `SavesAreKept`, `StateIsOnDisk`, `KeysAreKept` (`ManagementProofs`), from `GateInv`.
  `LiveIsOnDisk` speaks of the time between two calls only. Inside a call the holder of
  the mutex (`Exclusive`) carries what stands in for the live state: a request between
  write and swap the edited state (`EditInv`), a reconfiguration the state it resolved or
  wrote (`HostInv`). That an edit does not drop earlier saves rests on `LiveInv`: with
  saves in the loaded file, the live state it clones was read from that file.
- `EffectsAreReported`, `ReportsAreTrue`, `AnswersMatch` (`ManagementProofs`), from
  `AuditInv`. An operation at work has its start on a complete line and no finish
  anywhere, tails included (`OpInv`), so a finish that a later append completes is still
  the only one; identifiers are not given out twice, so it stays true
  (`FinishesAreTrue`); `Shown` says where the journal shows what a request was told.

- `TypeCorrect` (`KeeperProofs`): `TypeInv` adds that a request being served has the
  connection of its service, since a fetch applies `names` to it.
- `RenamesAreRead`, `ServicesAreCurrent`, `AnswersAreCurrent` (`KeeperProofs`), from one
  inductive invariant. `ReadYourRename` speaks of answered requests only; `Inv` follows
  the list there: the cache of the installed service shows every acknowledged rename
  (`ServiceInv`), a reading of its present generation does too, and an outdated one is
  recognised by its generation (`ReaderInv`); no reconfiguration comes between the
  steps of a rename, so it publishes to the installed service (`RenameInv`). Requests
  at services that were replaced are left out: they are answered without a list.
- `ReadsAreSingle` (`KeeperProofs`): `OneFlight`, inductive together with `TypeInv`. Most
  steps neither mark a service nor move a request into or out of a fetch
  (`FlightsKept`); a new service is one nobody can have read (`FlightsPlaced`); `Get` and
  `Land` are proved on their own.
- `ListsAreFresh` (`KeeperProofs`), from `AgeInv`. What a fetch brings is no older than its
  request (`ReaderAge`); what the cache holds ages against the time it is still valid
  (`ServiceAge`); a list outdated during a fetch was replaced by what the rename read
  within its own deadline. That only one request reads a service (`FlightInv`) keeps the
  last of these from being overwritten. The bound needs that requests end before the
  cache does, `Deadline < CacheFor` (5 s and 60 s in the code).
- `AnswersNameRequests`, `ExecutorsFollow` (`RouteProofs`). Of the rules nothing is used
  but that they are functions: `RouteForRequestMaps` says what a decision to map
  contains, one effect lemma per handler says what it leaves in the request. `Named`
  (an executed request holds its own name) is inductive in every environment. For a calm
  request `Settled` adds that what it reads is what it met on arrival, that between route
  and executor the model is mapped there, and that the executor's upstream is what it is
  mapped to: by the rules for the suffixed name wherever these change it, else by those for
  the plain one (`MapsTo`; `RouteModelLeaves` is the converse the first half needs);
  an edit takes the calm away from every request in flight.
- `TurnsAreEven` (`RouteProofs`). `Pooled` says what a rotation holds: each member of the
  pool was chosen as often as the quotient of the counter by the size of the pool says,
  once more if its rank is below the remainder; the equality of counts that
  `EvenShare` speaks of is not inductive without it. The turn exists because every
  number below the size is the rank of a member (`RankExists`): the least member above
  the lower ones exists by the well-founded order of the naturals, no induction over data.
- `TargetsHold`, `AccessIsHeld` (`RouteProofs`), from `Guarded`: what a calm request has
  got, at each point of its way, from the binding and the target it met on arrival.
  `GrantedIsOpen` says that a key with access has no blocked first binding,
  `TargetIsNotMapped` that a channel target wins over the rules.
- `HostStreamClosed`, `PluginStreamTold` (`StreamProofs`): `HostSide` counts the closes of
  the host's stream at each point of the goroutine, `PluginSide` those of the plugin's
  and what they said. The rewriter plays no part.
- `TextIsConserved`, `CleanClosesAreComplete` (`StreamProofs`), from `TextSide`. A coding
  is *blind* if it drops white space (and the added frame) and takes both model names for
  one; `Essence` is such a coding. One lemma per function of the rewriter says that what it
  returns is coded like what it was given: a line (`LineKept`), an event (`EventKept`),
  the events taken off a buffer (`TakeKept`), `Write` (`WriteKept`), `Flush`
  (`FlushKept`). `TextSide` adds that after the end nothing is held, so that what was read
  is what was handed over.
- `ChunksDoNotMatter` (`StreamProofs`), from `ChunkSide`: until the end the rewriter is in
  the state one chunk with all that was read would have put it in. The first blank line of
  a text stays the first one whatever follows (`DelimiterStays`), hence the events of a
  text that comes in two parts are those of the first part, then those of what it left
  with the second (`TakeJoins`); what is left ends like the text (`RestEndsAlike`), so a
  straight chunk gets no line break; and of a text that begins with a field every
  beginning is empty, half a field name, or classified as an event stream (`FieldParts`).
- `NamesAreRestored` (`StreamProofs`), from `ChunkSide`: what was emitted is the beginning
  of what one chunk would have given, so it is enough to follow the name through one call.
  A data line that shows the upstream's name leaves without it (`LineRestored`); the lines
  of an event are lines of the text (`EventRuns`), hence an event (`EventRestored`), the
  events taken off a text (`PieceRestored`, `OutRestored`, `AllRestored`) and what `Flush`
  makes of the rest (`HeldRestored`). `InDocuments` asks that each line with the name is a
  data line with a whole document. An error of the upstream is excluded because it flushes
  half a line.
- `PreviewsAgree` (`RuleProofs`): an error of either of the two implementations is one of
  the other, for every layer (`ShownIsRouted`). Of the rules nothing is used.
- `MatcherAgrees` (`RuleProofs`): `MatchTokens` finds a fit exactly when there is one and
  captures what the nearest fit captures. A *path* is a choice of ends the search could
  try. `MatchIsRight`, by the size of what is left to try: what is answered is the nearest
  path, and what the memo holds has none. Fits and paths are the same unless two captures
  stand side by side (`FitIsPath`); then a fit still has a path (`FitHasPath`).
- `QuotedRulesAreExact` (`RuleProofs`). Where an escape begins in a quoted text is known
  place by place (`PlacesClimb`, `PlacesCover`), so no separator, arrow or line break of it
  stands free (`NotEscapedOn`, `NoneInOrder`); reading it back gives one literal
  (`ReadsOne`, `QuoteIsRead`), the text has one entry (`WrittenIsOne`), the entry one rule
  (`OneRule`), and only the name itself matches it (`OnlyItself`).
- `EffortsAreKept` (`RuleProofs`): every rule text that can be typed parses to rules whose
  references have a capture (`TypedMatches`, `PutIsTokens`); an error of a layer depends
  on its rules alone (`LayerFails`), so the two attempts of a request with an effort fail
  together. `NumbersFit` is needed for the references.
- `ListsAreWhole` (`MemberProofs`), from `WholeInv`: phase by phase what a walk has (`Walked`).
  While it lists (`Listing`), what is visited, queued and below covers what is wanted; while
  it fetches (`Fetching`), each department's read pages are in, or its failure is noted.
  A walk that met a listing cut short is only sound: what it has is in the directory. The
  cut at `MaxMembers` keeps some users with all their rows (`KeptIsWhole`).
  `Below` is the least set closed under children (`ReachFacts`). `Counted` bounds how often
  the registry was cleared by the requests it took, so that no service is missing.
- `FlightsLed` (`MemberProofs`): `Led` says of one service, without counting, that its
  flight has exactly one leader. `WalkEffect` reduces all steps of all walks to two: the
  walk goes on, or it lands (`Landed`), which ends the flight and wakes everyone in it.
- `FlightsStayFew` (`MemberProofs`), from `RegistryInv`: a request at a service of the
  registry in force finds its credentials there. With `FlightsLed` a flight of that
  registry is one of a registered service, so there are at most `MaxServices` + 1. The run
  has too few requests to exceed the bound, so no run checks it.

Only model-checked: the liveness properties (liveness under fairness and ENABLED are
beyond the prover).

*How recursion and data are reasoned about.* The library's induction theorems take an
operator and cannot be used. `Inductions` states them for sets instead: a subset of the
naturals that has 0 and successors is all of them, from the well-founded order
(`Induction`, `StrongInduction`, `LeastElement`); a recursive definition whose argument
shrinks by a measure has a function that satisfies it, so that what `CHOOSE` picks for the
recursive function of a model is one (`MeasureRecursion`, `TailRecursion`,
`CountRecursion`). Lemmas about functions given as sets of pairs follow from there, folds
of the community modules included (`FlattenConcat`, `CodedTwice`, `SetToSeqFacts`).
The provers know nothing of the characters of a string: texts are sequences of one-letter
strings, and the proofs use that the letters they name are different. They do not know
`SelectSeq`, `@@`, `:>` and `SetToSortSeq` either; the modules proved about write these as
functions.

## 5. Known disagreements

Three are findings, with runs of their own. Others were seen while modelling; the
modules have what the code does.

- `notification_service.go:369`: the revision of a job is read at the upsert, its
  message rendered before. A save in between gives the old message the new revision,
  and the next instance sends it; the comment at lines 589-591 says it must not.
- `notification_management.go:570`: `pendingJobIDFor` leaves the channel out of its
  comparison, so a test send for one channel may settle the pending row of another.
- `main.go:542`: a state file that does not parse stays where it is and is overwritten
  by the next save; line 41 of the repository's `README.md` says it is set aside. A
  later quarantine also replaces an earlier `.corrupt` file (line 533).
- `main.go:637`: a state file that was deleted on purpose is written again from memory
  by the next reconfigure with the same path; line 39 of the repository's `README.md`
  says that deleting it falls back to YAML.
- `main.go:1820`: of two captures side by side the first ends where the next literal
  occurs, and need not be as short as a match allows.
- `main.go:1752`: the number of a reference is computed without a look at its size. One
  too long for an `int` wraps around, and may come out as a valid or a negative number; a
  negative one passes the check at line 1756 and is an index out of range when the rule
  is applied (line 1894).
- `notification_members_client.go:96`: what exceeds 20000 members is dropped, and the list
  is answered as ready. A listing that announces more without a token (line 397) or
  answers without data is taken for complete as well. `WholeDirectory` names both.
- `main.go:1076`: a panic while forwarding closes the plugin's stream only; the host's
  stays open. `HostClosedOnce` says so.

## 6. Not modelled

- Contents: message texts, validation details, redaction, JSON shapes, comments and
  white space of rule texts.
- Notification settings (defaults, normalisation, validation) and templates: pure
  functions of what is saved or sent; the exact calendar of schedules.
- Statistics from the Keeper, quota fallback, platform payloads and their parts: below
  "answered, refused, no answer". Channel credentials: a read without state.
- The status snapshot of the notification service: nothing decides by it.
- ABI glue, embedded page, web UI, release scripts.
- Panics outside the stream goroutine, power loss, two processes on one state file.

## 7. Plan

1. Done: the notification store and service, the management gate, the Keeper lists,
   the rule engine and routing, the streams, the member picker; a theorem for each safety
   invariant of their runs.
2. `NotificationSchedule`: triggers and periods against a reference definition, and the
   parts of a notification with their outcomes.
3. Settings normalisation and validation as operators.
4. Proofs: that a rewritten event stream, rewritten again, stays what it is.
