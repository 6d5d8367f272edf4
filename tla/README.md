# Keelage in TLA+

Keelage keeps an append-only ledger of who decided what about a code base: the
constraints in force, the Changes that touch them, the gates that agents wait at
and the level of autonomy each scope has earned. This directory models the parts
of it whose correctness depends on interleavings, failures and retries, checks
them with TLC on small instances, and proves the central results with TLAPS.
Paths are relative to `src/`.

    tlc -config MCPipeline.cfg MCPipeline            one model-checking run
    tlapm PipelineProofs.tla                         one proof module

`PROJECT.json` lists every run with its properties, a mutation of the code that
each property detects, the source lines behind every definition, the findings,
the hazards and the theorems.

## 1. The system

Every write goes through one path. A command names an aggregate (its *stream*),
the **pipeline** loads the stream, lets the aggregate `Decide`, and appends the
events at the version it loaded. Everything read is a **projection** folded from
the ledger. A laptop has a daemon and a CLI that share one SQLite ledger in
separate processes; a team server has one ledger per organisation; `sync push`
and `sync pull` move records between them; a GitHub App turns pull request
reviews into judgments on the server. Around the ledger lie files that keelage
reads and writes: rule files, ADRs, the rendered context, the tool's settings.

| Component | State | Operations | Talks to | What is hard | What makes it correct |
|---|---|---|---|---|---|
| Command pipeline (`internal/app/pipeline.go`) | none of its own | `Handle`: authenticate, authorize, lookup, load, decide, append, publish; record a refusal | ledger, projectors | two handlers on one stream, retries, unacknowledged commits, crashes | a command takes effect once, on the history it was decided on, and callers are told the truth |
| Ledger (`internal/adapter/{sqlite,postgres,memory}`) | records with seq, version, key, origin, hash chain | `Append` at an expected version, `Read`, `ReadAll`, `Lookup`, `Head`, `FindOrigin` | database | version and key checks in one transaction | append only, one record per key |
| Scope (`internal/core/harness/scope.go`) | level, cap, last demotion | set autonomy, set cap, regress | pipeline | times of commands that overlap | level under its cap, raises on evidence after the last demotion |
| Gate (`internal/core/accountability/gate.go`) | open or terminal | request, resolve, expire | pipeline | two people and an expiry | answered once |
| Change (`internal/core/accountability/change.go`) | lifecycle, impact, proposals, judgments | open, propose, judge, deploy, record outcome, settle | pipeline | long sequences by several people | what is deployed was judged; what is settled was observed |
| Constraint, Decision (`internal/core/harness/{constraint,decision}.go`) | lifecycle, scope, successor | draft, verify, rebind, promote, demote, supersede, retire, revise | pipeline | caps and indexes that change under a decision | legal transitions, autonomy never above a cap |
| Scope lattice (`internal/core/scope.go`) | pure | `Contains`, `Width`, `Resolve`, `Effective` | | globs | agrees with what a glob denotes |
| Daemon runtime (`cmd/keelage/runtime.go`, `main.go`) | indexes and a cursor | `catchUp` before each request, publish after each command | ledger shared with the CLI | the publish does not take the lock of `catchUp` | each record applied once, none skipped |
| Projections (`internal/app/projection.go`, `sessions.go`) | the indexes | one `Project` per record | runtimes | repeated and skipped records | what an index says, the records say |
| Tenant of the team server (`internal/app/team.go`) | indexes, cursor, `org.mu` | push, pull, gates, lists, `catchUp` | its ledger | a push that breaks off half-way | projections are a prefix of the ledger, answers are given on all of it |
| Sync (`internal/app/sync.go`, `cmd/keelage/sync.go`) | two cursors in `sync.json`, the team cache | push pages, pull pages | team server over HTTP | lost answers, requests processed late, two processes and one file | at most once, in order, nothing private leaves, nothing is lost |
| Hooks and sessions (`internal/app/hooks.go`, `core/accountability/session.go`) | open turns, sessions | events of the coding tool | pipeline, indexes | hooks that overlap, state changed before a write that may fail | no edit in two turns, none lost from an orderly session |
| Anchors (`internal/app/anchors.go`, `core/realization`) | baselines and states | record, verify, detect moves | parser, git | files that change while a verification runs, keys that name an observation | a state follows the newest observation, a baseline only a recording |
| Change derivation (`internal/app/derive.go`) | none of its own | open a Change for a commit, settle it | pipeline, git, anchors | hook and command on one commit, a crash in the middle | a Change for each commit, judged where a constraint is touched |
| PR bridge (`internal/app/prbridge.go`, `internal/adapter/githubapp`) | none of its own | comment and check on an opening, judgment on a review | tenant, GitHub | posts outside the lock, redeliveries | a review is one judgment, the comment shows it |
| Sidecar (`internal/app/sidecar.go`, `core/supply`, `cmd/keelage/init.go`) | manifest, managed block, `.gitignore` line | absorb, render, apply, uninit | files, pipeline | edits by people and deaths in between | one live constraint per file; what was put there is taken away |
| CLI setup (`cmd/keelage/setup.go`, `adapter/claudecode`) | hook handlers, `setup.json`, a backup | setup, uninstall | settings of the tool | edits between setup and uninstall | the user's entries survive |
| Hash chain, Merkle log (`internal/merkle`, `core/envelope.go`) | frontier | append, inclusion and consistency proofs | ledger | sizes that are no power of two | proofs verify exactly for what was appended |
| Inbox and history, login and tokens, transports, parsers | | listings, OAuth, HTTP, unix socket, MCP, tree-sitter, git | | | |

## 2. Modules

| Module | Builds on | Models |
|---|---|---|
| `CommandLog` | | abstract specification of the pipeline |
| `Pipeline` | refines `CommandLog` | `Pipeline.Handle`, step by step |
| `ScopeRules`, `GateRules` | | two aggregates as operators |
| `LedgerAggregates` | `Pipeline`, `ScopeRules`, `GateRules` | the pipeline with these aggregates behind it (`wire.go`) |
| `ScopeAutonomy` | `ScopeRules` | one scope under overlapping commands |
| `ChangeLifecycle` | | the Change aggregate |
| `ScopeLattice`, `ConstraintRules`, `DecisionRules` | `ScopeRules` | scope keys, Constraint and Decision aggregates and the constraint index |
| `Harness` | `ConstraintRules` | constraints and caps from their commands to the edit they stop |
| `DaemonRuntime`, `OrgRuntime` | | catch-up and publication on a laptop and on the server |
| `TeamSync` | | push and pull with the server |
| `PRBridge` | | deliveries of one pull request |
| `Hooks` | | sessions as the hooks report them |
| `AnchorVerify` | | anchors, verification, moves, derivation of Changes |
| `Sidecar` | `ConstraintRules`, `DecisionRules` | init, uninit, setup, uninstall |
| `MC...` | one of the above | instances for TLC |
| `...Proofs` | one to three of the above | theorems |

The specification of a module is `Spec`; where one proof module extends several,
the names say which (`ChangeSpec`, `HarnessSpec`, `BridgeSpec`).

`Pipeline` justifies what every other module takes as one step: load, decide and
append. `OrgRuntime` justifies what `TeamSync` and `PRBridge` take as one step:
the work of a request under `org.mu`.

**CommandLog.** One variable, the ledger as a function from streams to sequences
of records. A command is either executed, all its events appended at once as
decided on exactly the history they extend, or refused, which adds one record to
the stream of refusals and is justified by some version the stream went through.

**Pipeline** (`pipeline.go`, `rejected.go`, `Append` and `Lookup` of the
adapters). One action per step of `handle`: `Submit` (with the authentication
and authorization checks), `Lookup`, `Load`, `DecideStep`, `AppendBatch`,
`ReplayLookup` after `ErrDuplicate`, `RecordRejection`, `Publish`. Between any
two of them other handlers run. `Fail` is a call that fails and `Crash` a process
that dies; an append may also commit and return an error, that of a refusal's record
included (`RecordRejectionFails`), and a crash may leave either. `answers` holds what
the caller of each submission was told. The aggregate is the constant operator
`Decide`, so what is proved of `Pipeline` holds for every aggregate. `Abs` instantiates `CommandLog`.

**ScopeRules, GateRules.** `Decide` and `Apply` of the aggregates as operators,
with the transition table of `core/level.go` and the gate policy.

**LedgerAggregates** (`wire.go`, steps 2 to 4 of `handle`). `Replay` folds `Apply` over
the records of a stream, `AggregateDecide` is `Decide` on what that gives. With it the
promises of an aggregate become statements about the ledger, where commands that were
decided side by side race for a version: a gate is answered once, and whoever replays a
scope finds its level within its cap.

**ScopeAutonomy.** The scope under all its commands. A command reads its clock
when it begins and is decided and appended later, so commands that overlap may
append in another order than their times.

**ChangeLifecycle.** All six commands of a Change, with passing time, people,
an agent, and owners whose judgment is required. The production context leaves
`Judges` empty until an ownership map exists; the run gives it one owner, since
`judgmentsAllow` is there and must be right when the map arrives.

**ScopeLattice, ConstraintRules.** A scope key is a record of five axes and a path
glob, a path the sequence of its segments. `Contains`, `Width`, `Resolve` and
`Effective` are the code's loops as operators; `CapsBindNarrower` compares them with
what a glob denotes, the set of files it matches. `ConstraintRules` has a `Decide`
operator per command, `ConstraintApply`, and the index fold `ConstraintIndex`, which
the code keeps apart from the aggregate and which is modelled apart. An anchor is a file
or a symbol in one; `AppliesTo` is `factsFor`, which finds a constraint by its scope, by
the anchor of the file, and by the anchors of the file **that are recorded**.

**Harness.** CLI processes that draft, verify, promote, demote, supersede, rebind
and retire constraints and declare scopes with caps, each deciding on the
projections it built when it started (`known`); anchors that are recorded sooner, later
or never; the daemon, which catches up, restarts, and answers a `pre_edit` hook from its
two indexes through `Compose`, one hook at a time. `Projected` is
`ConstraintIndex.Handle` of one record and `Replayed` the loop over the records
behind a cursor, in catch-up and in a restart alike.

**DaemonRuntime.** Concurrent requests of one daemon and a CLI that appends to
the same ledger. `catchUp` is `Lock`, `Compare`, `StartReplay`, `ReadPage`,
`Project`, `Mark`, `Unlock`; a command is `HandleCommand`, `Reread`, `Publish`,
`PublishMark`, and takes no lock. The state of the indexes is how often each
record was applied. The second catch-up, on the team cache, has the same code and
its own cursor and is left out.

**OrgRuntime.** One tenant: a push examines its records (answered as duplicate
or conflict, accepted, refused), other requests catch up and run a command or
only read. Every ledger call fails before or after its commit; the server
restarts. One server process per organisation is assumed, as `Orgs` does: its
lock and cursor are in memory.

**TeamSync.** Daemons with a ledger, a `sync.json` and a team cache; push and
pull as processes that load both cursors, move one and save both; the server's
ledger with the origin of each record. Requests get lost, are processed late,
half, or after their client gave up. A record is its stream, its version, whether
the server has a reason of its own to refuse it, and whether it makes its stream
travel. Saving `sync.json` is one step. Scopes on the person axis are decided by
the name of the stream and never change side, so they are left out; so is the
demotion of a constraint back to the person axis.

**PRBridge.** One pull request with one head commit. What a delivery does under
`org.mu` is one step; listing the comments, writing one, and posting the check
are steps of their own. The head commit may have several Changes, of which `ByRef`
finds any. GitHub's side is the list of comments, with those of other people, and the
newest check. Three history variables say which deliveries overlapped (`orderly`), whose
last answer is an error (`failing`) and who was ever answered with one (`refused`).

**Hooks.** The events of one session of the coding tool: start, prompt, edit,
command, stop, end, resume and share. The daemon keeps open turns in memory,
changes them before the record is written, and a hook may fail at the ledger,
overlap another, be cut off by a restart, or be dropped because the catch-up before it
failed (`Drop`). The Session aggregate decides what is
recorded, and `SessionIndex` is a fold of its own.

**AnchorVerify.** A working tree that the user edits, renames and commits; processes
that record anchors, verify them, and derive the Change of a commit. A file is its
symbols, each a signature and a body, and the rest of its text, so that a hash is
what it is taken of. `Resolve`, `Snapshot`, `DetectMoves`, `Cmp`, `changedAnchors`
are operators; the steps of `Verifier.Verify` and of `Deriver.Derive` are actions. A
run keeps the set of anchors it has still to look at (`todo`) and takes them in the
order of the index; when it is empty `Detect` proposes moves. The key of a
verification names commit and observation, and replays as in the pipeline.

**Sidecar.** `init`, `uninit`, `setup` and `uninstall`, one action per write, each of
them dying between any two, while the user edits the rule file, the managed block,
the ADR, which may also be empty, and the settings. The manifest is in memory until it
is saved. `setup` reads `settings.json` (`MergeHooks`), asks (`Decline` or
`BackupSettings`) and writes what it read with its handlers (`WriteHooks`); `uninstall`
reads and writes in two steps as well. `held` is what was read, `late` that the file was
edited since, and `overran` that such an edit was written over. Constraints
and Decisions are decided by the same operators as in `Harness`.

## 3. Runs

| Run | Properties | Shows |
|---|---|---|
| `pipeline` | `KeyOnce` `AcknowledgedIsDurable` `PublishesOwnBatch` `OneFreshSuccessPerKey` `RefusalsAreRecorded` `GateAnsweredOnce` `ScopesWithinCap` `ImplementsCommandLog` | retries of a key, a two-event batch, refusals, an unauthenticated call, two answers to one gate and its expiry, a raise and a cap on two racing handlers: success is durable, fresh once and names the caller's own batch; a gate is answered once and a scope stays within its cap; the whole refines `CommandLog` |
| `daemon_runtime` | `CatchUpAppliesOnce` `LostOnlyByJump` `EveryRequestEnds` | catch-up on its own applies nothing twice and loses nothing; a lost record is always one that a publish moved the cursor past |
| `org_runtime` | `ExactProjection` `AnswersAreCurrent` `EveryRequestReturns` | the projections are a prefix of the ledger, answers are given on all of it, the lock is always given back |
| `sync` | `OriginOnce` `SignedVersionKept` `CursorMeansAnswered` `CacheIsTeamLayer` `UnsharedSessionStaysLocal` | each record at most once on the server, at the version its daemon signed; no cursor passes an unanswered record; the cache is the foreign team records behind the cursor |
| `change` | `LiveImpactWasAccepted` `SettledAfterObservation` | what is live was accepted by the judgments that `judgmentsAllow` counts; what is settled was observed for the window |
| `scope_autonomy` | `SerialEvidenceIsFresh` | with commands one after the other, the evidence of a raise follows the last demotion |
| `pr_bridge` | `OrderlyCommentIsCurrent` | after deliveries that did not overlap there is one comment, and it and the check lack only judgments of reviews that were answered with an error, although a redelivery posts nothing and the commit may have two Changes |
| `harness` | `AnswerIsCurrent` `CapsBindNarrower` `DraftsWithinCap` | an edit is blocked exactly when a deny constraint verified by the catch-up speaks of its file: by scope, of the file, or of a symbol in it that is recorded; a cap binds all that lies below; a process drafts no autonomy above a cap, but one that changed after it started |
| `hooks` | `EditInOneTurn` `OrderlyEditsKept` `IndexIsExact` | no edit in two turns; an orderly session whose hooks are not dropped loses none; the index counts each once unless publications raced |
| `anchors` | `BaselineIsAccepted` `CalmVerifyIsExact` `MovesLeadToTheCode` `ChangesOfCommits` `BoundChangeIsJudged` `RerunWritesNothing` | baselines move only by recording; an undisturbed verification is exact; moves lead to the code; commits get their Changes, and one that changes what a constraint is bound to does not settle unjudged |
| `sidecar` | `OneLiveRule` `ImportsAreCurrent` `UserSettingsKept` `UninstallUndoes` | imports follow their files, the user's entries survive but for an edit between a command's read and its write, uninstall takes away what was put there |
| `sidecar_adr` | `DecisionFollowsFile` (refuted) | the finding below |

### Finding

`sidecar_adr` is a run that TLC refutes. The comment on `Importer`
(`internal/app/sidecar.go:70`) says that "a changed ADR revises its decision".
`absorbADR` revises with a key made of the file and its hash on the stream of the
decision, so an ADR that goes back to an earlier text is answered as a replay:
nothing is written, the decision keeps the text in between, and the manifest takes
the new hash, so that no later `init` repairs it. `ImportsAreCurrent` states what
holds.

### What the texts say and the code does not do

The modules state more of what comments, help texts and ADRs say. TLC refutes
each of these when it is added to the cfg of the module's run; the properties of the
passing runs state what remains true.

| Property | The text says | The code does |
|---|---|---|
| `Pipeline!ReplayReturnsEarlierResult` | "Version is the earlier result" (`pipeline.go:33`) | a replayed two-event command is told the version of its first record |
| `DaemonRuntime!NeverAppliedTwice` | "never applies a record twice" (`cursor.go:10`) | a catch-up between append and publish applies the record, then the publish does; `CatchUpAppliesOnce` holds |
| `DaemonRuntime!ServedAfterCatchUp` | "after catching up on ledger writes made by other processes" (`main.go:23`) | a publish moves the cursor past a CLI record nobody applied; `LostOnlyByJump` holds |
| `TeamSync!SharedSessionTravelsWhole` | the whole session stream goes up once shared (ADR 0015) | records passed over before are never offered, later ones are refused |
| `TeamSync!PersonalConstraintStaysLocal` | constraints on the person axis stay local (`sync.go:64`) | one drafted during a push is unknown to the push's projections and goes up |
| `TeamSync!LaterWriterIsRefused` | the later of two side-by-side writers is refused (ADR 0015) | its first record is refused, its second accepted; `SignedVersionKept` holds |
| `ChangeLifecycle!HarnessJudgedByHuman` | "harness changes are always judged by a human" (`change.go:361`) | one with an empty impact is deployed unjudged; `LiveImpactWasAccepted` holds |
| `ChangeLifecycle!NoStandingReject` | "no standing reject" (`change.go:500`) | only the latest judgment of all is looked at: somebody who accepted and then rejected, an owner too, counts as having accepted once another accepts |
| `ScopeAutonomy!EvidenceFollowsLastDemotion` | evidence must not precede the last demotion (`scope.go:33`) | overlapping regressions can move the last demotion back; `SerialEvidenceIsFresh` holds |
| `PRBridge!ReviewJudgedOnce` | a redelivery is idempotent (ADR 0016) | with two Changes of the commit a redelivery may find the other one, and the review is a judgment on both; with one Change it holds (`BridgeReviewJudgedOnce`) |
| `PRBridge!OneComment` | "the one PR comment" (`prbridge.go:15`) | two deliveries that overlap, or a full first page, give two; `OrderlyCommentIsCurrent` holds |
| `PRBridge!CommentUpToDate` | "keeps up to date" (`prbridge.go:15`) | overlapping deliveries may leave the older text; a failure after the judgment is never made good, since the redelivery is a replay; `OrderlyCommentIsCurrent` holds |
| `Harness!AnswerIsAlwaysCurrent` | requests are served after catching up (`main.go:23`) | after a publish that jumped, an edit is answered without a record of the CLI; `AnswerIsCurrent` holds |
| `Harness!DemotionNarrows` | a demotion "narrows a constraint's scope" (`constraint.go`) | `Contains` takes a glob that ends in `**` to lie below one that ends in `*`, although it matches more files |
| `Harness!PromotionsWithinCap` | a level may not exceed the "cap at the target scope" (`constraint.go`) | a promotion names no target to the context, so the cap is the one of the global scope |
| `Hooks!EveryEditRecorded` | "one TurnRecorded per prompt-and-edits turn" (`hooks.go:66`) | a turn cleared before a write that failed is gone; `OrderlyEditsKept` holds |
| `Hooks!IndexIsAlwaysExact` | "never applies a record twice" (`cursor.go:12`) | a turn published beside a catch-up is counted twice; `IndexIsExact` holds |
| `AnchorVerify!SignatureChangeIsStale` | "a signature change is always stale" (`anchor.go:9`) | code that goes back to a signature seen at the commit replays; `CalmVerifyIsExact` holds |
| `AnchorVerify!MovedToNew` | moves go to "exactly one new anchor" (`syntax.go`) | an anchor without a record counts as new; `MovesLeadToTheCode` holds |
| `AnchorVerify!BoundChangeIsAlwaysJudged`, `UnimpactedIsSettled` | "A change that touches no constraint settles at once; one that does waits" (`change derive`) | a renamed file escapes; a derivation stopped before `Settle` is never made good; `BoundChangeIsJudged` holds |
| `Sidecar!SettingsSurvive` | "existing entries kept, original backed up" (`setup.go:147`) | what the user saves while the prompt waits is written over, and the copy is of another text than the one written; `UserSettingsKept` holds |
| `Sidecar!UninstallRemovesHandlers` | "remove hook entries" (`keelage uninstall`) | a setup that repaired half of its handlers copied the others; `UninstallUndoes` holds |
| `Sidecar!OneLiveRuleEver`, `InitGoesThrough` | "Re-running is idempotent" (`keelage init`) | not after an init that died or an uninit; `init --verify` of an ADR verified before fails; `OneLiveRule` holds |
| `Sidecar!UninitRemovesAll` | "removes everything keelage put in the repository" (`Uninit`) | not what an init put there that died before the manifest was saved |

### Bounds

Every bound is a constant named `Max...` (or a page size) in the module that
declares it.

* `pipeline`: two handlers and three submissions, all from five scope commands or
  all from four gate commands. Two handlers give every race for a version or a key;
  the third submission is the retry after both ended. Handlers are symmetric.
* `daemon_runtime`: two requests, three records, pages and batches of two, so that a
  catch-up has a full and a short page, and a batch straddles a catch-up; one
  restart. `org_runtime`: two requests, five records, pushes of three, one restart.
* `sync`: three corners of one instance (`MCTeamSync`): two daemons on one stream
  that only push; two daemons of which one also pulls; one daemon with three records
  for the sharing rules, refusals and a server that writes too. Two requests per
  daemon, the original and its retry; pages of two and one, so that a run has several.
* `change`: two people and an agent, three judgments, so that one may accept, reject and
  be outvoted, two proposals, a window of two.
  `scope_autonomy`: two commands, four instants, three regressions.
* `pr_bridge`: two deliveries in flight, two Changes of the commit, one opening and two
  reviews (with and without a reason), four deliveries in all; a page of two comments and one
  comment by somebody else, so that the page can be full.
* `harness`: one constraint and its successor, six scope keys of several depths of
  which two may get a cap, two files, of one the file and a symbol as anchors, two
  processes, four records. Two processes suffice for a decision on an index that another one outdated; symmetric.
* `hooks`: two hooks in flight, two files, six events, one share: a start, a turn
  with edits, a stop, an end and a resumption fit.
* `anchors`: two files that are parsed and one that is not, one symbol, two
  processes, two edits, one commit, three runs: a rename of a file is one edit, a
  move and a change back are two.
* `sidecar`: two texts of the rule file and of the ADR, two hook events, five
  commands or edits, three objects: init, edit, init, edit, init is the sequence that
  goes back to an earlier text.

Runs whose system may stop (a bounded number of submissions or deliveries, a
settled Change) say `CHECK_DEADLOCK FALSE`.

### Fairness

Only the two runtimes state any. A goroutine that can run does run: weak fairness of
the steps of a request (`DaemonRuntime`, `OrgRuntime`). Go's mutex hands itself over
to a waiter after a millisecond, so a waiter that finds it free again and again gets
it: strong fairness of the lock steps. No fairness is assumed of failures, restarts
or of the arrival of requests. Nothing in the code issues an expiry of a gate or runs
a sync again, so there is no fairness from which the end of either would follow.

## 4. Proofs

Each theorem holds for every value of the constants that the named assumptions of
its module allow; the bounds of the runs are constants too, so it holds for all of
them. The proof of an invariant has one lemma or step per action.

**PipelineProofs** (any handlers, streams, keys, commands, contexts and **any**
`Decide`): `PipelineTypeOK`, `PipelineKeyOnce`, `PipelineAppendOnly` (no step rewrites
a record) and `PipelineRefinement` (the pipeline implements `CommandLog`). With

    IInv == TypeOK /\ KeyOnce /\ HistIsPrefix /\ PastAuthorize /\ DecidedOnHist

`KeyOnce` alone is inductive given types, since `Append` checks the key in its
transaction. The refinement needs the rest: what a handler loaded is a prefix of
its stream for as long as it works with it, so that an append at the loaded version
extends exactly that history; a handler past authorization serves a valid command;
and its decision is `Decide` of what it loaded. Then an append is one `Execute` of
the abstract log, a recorded refusal one `Refuse`, and everything else a stutter.
Assumed: the stream of refusals is none of the others, `NoKey` is no key, commands
name a stream and a key.

What callers may rely on, `PipelineAcknowledged`, `PipelinePublishesOwn` and
`PipelineOneFreshSuccess`, is proved on top of it with

    AInv == IInv /\ BatchWritten /\ Tickets /\ Positions /\ AcknowledgedIsDurable

A handler about to publish has its batch on its stream right behind what it read
(`BatchWritten`), each submission is served by one handler (`Tickets`), and two
batches of a stream start at different versions (`Positions`); with `KeyOnce`, two
fresh successes of one key are one submission. `PipelineRefusalsRecorded` counts: the
step that tells a caller of a refusal is the one that adds the record, and a record whose
acknowledgement was lost only adds to them, so the submissions told never outnumber the
records.

**PipelineProofs**, the aggregates on the ledger: `PipelineGateAnsweredOnce` and
`PipelineScopesWithinCap`, for any scopes, gates and commands on them, when `Decide` of
their streams is `AggregateDecide` (`DecidesAggregates`, which `RegisterAll` does; other
streams may hold any aggregate). Assumed: a stream is not both a scope and a gate
(`AggregateStreams`), and a command of a kind goes to a stream of its type
(`CommandsNameTheirAggregate`), as `Stream()` of each command type makes it. The
argument has three parts:

* `StreamStep`: a set of histories that no decision leaves (`Closed`) is not left by any
  number of racing handlers either. This is where the refinement pays: every append is an
  `Execute`, decided on the whole history it extends.
* `ReplayAppend`: the replay of a stream with one record more is `Apply` of that record
  to the replay before. That the recursion has a value for **every** sequence is
  shown by a least length for which it has none (`LeastOf`), since the induction theorems
  of the library cannot be instantiated.
* `GateClosed` and `ScopeClosed`: the sets of histories. A gate that is open has no
  answer on its stream and an answer is the last record (`GateTold`); the replay of a
  scope is a scope with its level within its cap (`ScopeTold`). A cap below the level
  takes two records, and between them the level is above the cap: that they are one
  batch is what the proof rests on.

**ServerProofs**, the tenant: `OrgTypeOK`, `OrgExactProjection`, `OrgAnswersAreCurrent`,
with `LoopsFollowCursor`: the two loops that apply records (replay and publish) stand at
the cursor. Without it a step of a loop could not be shown to apply the next record.

**ServerProofs**, the bridge: `BridgeJudgments`, `BridgeTypes` and
`BridgeOrderlyComment` for any Changes of the commit, `BridgeReviewJudgedOnce` for a
head commit with one Change (`OneChange`): with two, the Change that `ByRef` finds may be
another one at a redelivery, and the same review is then a judgment of each. Judgments of
one Change are distinct because looking up and recording a review is one transaction
(`Judgments`), and a comment that was found keeps its marker (`Finds`). The comment needs

    Orderly == orderly and the comments fit on a page => Showing

`Showing` says of each step of a delivery that is alone (`Alone`): what it rendered is of
a Change as it is (`Fresh`), and the comment and the check lack only judgments of reviews
that are about to be posted (`Owed`) or were answered with an error. A delivery that
fails moves its review from the one set to the other.

**DaemonProofs**: `DaemonTypeOK`, `DaemonLostOnlyByJump`, `DaemonCatchUpAppliesOnce`.
The invariant says where each request stands on the ledger (`Place`), that batches in
flight do not overlap (`Apart`), and who may have applied a record
(`Bounded`): a catch-up only behind its own position or the cursor, the pipeline only
once the batch is no longer in flight.

**SyncProofs**: `SyncTypeOK`, `SyncOriginOnce`, `SyncSignedVersion`,
`SyncUnsharedStaysLocal`, `SyncCursorMeansAnswered`, `SyncCacheIsTeamLayer`, with

    IInv == TypeOK /\ Offered /\ Origins /\ OriginOnce /\ SignedVersionKept
            /\ PushCursors /\ DoneIsAll /\ InService /\ Waiting
            /\ CacheIsForeign /\ PullCursors

A step is first reduced to what it does to ledgers, requests and cursors. The cursor
moves when the answer to a page arrives, perhaps to a process that has since been
overtaken; so every record a waiting page covers is answered or still in its request
(`Waiting`), and a request is done only when nothing is left of it (`DoneIsAll`).

**AggregateProofs**, the scope: `ScopeTypeOK`, `ScopeLevelWithinCap` (the level under the
cap whatever the order of the times), `ScopeSerialEvidence` (an action property). While commands follow one another at most
one is running and the time it read is not before the last demotion (`Serial`).

**AggregateProofs**, the Change: `ChangeTypeOK`, `ChangeLiveImpactWasAccepted`,
`ChangeSettledAfterObservation`. The one strengthening is that an observed Change has
its outcome recorded.

**AggregateProofs**, constraints and declared scopes: `HarnessTypes`,
`HarnessAnswerIsCurrent`, `HarnessCapsBindNarrower`, `HarnessDraftsWithinCap` (an action
property), with two invariants that are inductive each on its own:

* `Caught`: replaying the records behind the cursor on the index, and all records on
  an empty one, is defined, unique and ends with what the aggregates say, but for the
  origin (`Replaying`). A step appends a record, so the replay grows by one and
  `AppliedAlike` compares `IndexHandle` with `ConstraintApply`; a publish moves the
  cursor over records that name no constraint, or it jumped. The induction over the
  ledger that the value of a fold would need is thus the one over the behaviour.
* `Projections`: the declared scopes, and what each process knows of them, have levels
  and caps that are levels, and every set of scopes has a narrowest (`Topped`, from
  `KeysAreOrdered`). A draft is then checked against a cap that lies at or below every
  cap around it that the process knows.

`Caught` carries the anchors along: those in the daemon's index and those behind its
cursor are together all that are recorded.

The rest is about globs. `ContainsAFile`: for a file, `Contains` is what the glob
denotes. `CoveredMatches`: a glob that is written for every file of another one matches
it, shown on the two files that put one name or another for its wildcards. Both are
under `PlainGlobs`, no wildcard in the directory of a `dir/**`: the code compares that
directory literally, so `*/**` contains no file at all. The caps are also under
`EveryPath`: `Path` holds every path of at least two names, so that "all its files" means
all and not those of an instance. Other assumptions: `HarnessConstants` (what a draft
is, which keys are in use) and `NamesAreLiteral` (no name is a wildcard).

**SidecarProofs**: `SidecarTypeOK`, `SidecarUserSettings`, `SidecarOneLiveRule`,
`SidecarUninstallUndoes`, `SidecarImportsAreCurrent`, with

    IInv == TypeOK /\ Steps /\ Kept /\ Known /\ Named    (and Keyed)

The properties are about commands at rest or at their end; the invariant says what a
command has done at every step before: how its manifest in memory relates to the one
on disk (`Steps`), that a copy of the settings has what the user typed when it was
made, also the one that becomes valid only with the write that follows it, and that what
a command read is what the file holds unless an edit came since (`Kept`, `HeldIs`), that
what is in the repository is in the manifest that comes next (`Known`), that a live constraint is the one that manifest names (`Named`), and that a
new decision meets no used key (`Keyed`).

For the imports, `Imports == Manifests /\ Replayed /\ Voice /\ Read` says what the hashes
of a manifest, on disk or in memory, tell of the objects it names, which keys of
revisions are used, and what an undisturbed init has read. `SidecarConstants` assumes
that "no text" is no text of a file.

**HooksProofs**: `HooksEditInOneTurn`, `HooksOrderlyEditsKept`, `HooksIndexIsExact`, with

    IInv == Typed /\ Folding /\ Counted /\ Orderly /\ IndexIsExact

The Session and its index are folds of the stream. As in `Caught` the behaviour is the
induction: the fold of every prefix exists, is the only one and is a session, and
`Handle` replayed from there agrees with `Apply` (`Folding`). `Counted` bounds the turns
that hold a file plus the hooks that carry it to a record plus the open turn by its
edits. A dropped hook moves at most the index, and a dropped edit is lost. `Orderly` says
of each step of a hook that is alone that the session is open when a turn is closed and
the turn empty when a prompt replaces it.

**AnchorProofs**: `AnchorTypeOK`, `AnchorBaseline`, `AnchorChanges`, `AnchorBoundJudged`,
`AnchorCalmIsExact`, `AnchorMoves`, `AnchorRerun` (an action property). Each action is
first reduced to what it writes (`RecordEffect`, `VerifyEffect`, `MoveEffect`,
`DetectEffect`). The baseline: the signature and the body of an anchor are
those accepted (`Baseline`). The Changes need that a record knows its number and that a derivation
between its lookup and its opening saw no Change of its commit (`Numbered`,
`SecondChange`, `Derivations`), and for the impact that what a derivation was told is
that of HEAD while HEAD stays (`ImpactOfHead`). For calm runs, whoever writes, edits or
commits takes calm from the others, so that the tree and the ledger a calm run has looked
at are still there (`Calm`), a verification that is replayed was observed
(`KeysObserved`), and what a run
leaves behind is what a run of the same mode finds (`SettledRuns`, `Again`). Assumed:
`AnchorConstants`, and `HashesAreTold`: what exists has a hash, and the hash of a file
without a parser is no signature of a symbol.

Only model-checked: liveness (`EveryRequestEnds`, `EveryRequestReturns`), out of
the prover's reach. Of the folds, `Replay` has its value for every sequence
(`ReplayAppend`); that those of `Harness` and `Hooks` have one is an invariant of the
behaviours in the proofs above, so no theorem speaks of their streams that no behaviour
reaches.

## 5. Not modelled

* **Hash chain and Merkle log**: recursive functions of hashes. What they compute for
  every tree is an induction over data, and over bounded trees the tests of the
  repository enumerate the same cases.
* **Inbox and history**: listings of the indexes; nothing depends on them.
* **Login and tokens**: stateless between steps; the state is GitHub's and a table's.
* **Transports**: routes, encodings and status codes around calls that are modelled.
* **Parsing, git**: third-party grammars and external commands; `AnchorVerify` takes
  their results.

Left out of parts that are modelled: signatures and SQL of the ledger; the team cache
of the daemon; registration of a daemon and person-axis scopes in sync; a torn
`sync.json`; the installation map and tokens of the GitHub App; sessions attached to a
Change; the cache of the resolver; MCP registration and the import of global rules in
setup, its `--dry-run`, and backups of one second, which share a directory; a user who
removes `settings.json`; layout of rendered text; the refusal of a pushed record with a
bad hash or signature, which leaves no record behind (`team.go:236-253`), so that a
record of the model is one that passes these checks; `pre_edit` hooks that are answered
side by side, which read the indexes and write none; renames that git infers from similar
and not identical content (`AnchorVerify` has the latter); superseding and retiring a
Decision, which no code issues (`DecisionRules` has both).

What would come next: the other aggregates behind the pipeline, as scopes and gates are in
`LedgerAggregates`; several server processes per organisation; a `sync.json` that is
written in two steps.
