# A TLA+ model of hugen

hugen (`pkg/`) runs a language-model agent as a tree of *sessions*. A root session talks to a
user; it spawns missions and workers as child sessions, waits for them, is resumed after a
restart, and fires scheduled tasks. This directory holds TLA+ modules of the parts of that
program whose correctness lies in the interleaving of goroutines and in what survives a crash,
the TLC runs that check them, and TLAPS proofs of their main invariants.

    tlc -workers 2 -config SessionTree_close.cfg MCSessionTree     # one run
    tlapm SessionTree_proofs.tla                                   # one module of proofs

`PROJECT.json` has the machine-readable side: which definition stands for which lines, what each
run checks, the mutant that breaks each property, the hazards and the findings.

## 1. Inventory

Sizes are non-test lines of Go. *State* is what the part keeps, *hard* what a test hardly reaches.

| part | lines | state | hard |
|---|---|---|---|
| `pkg/session` (session, turn, spawn, pump, wait, cancel, status) | 9500 | per session: inbox, outbox, `turnState`, `pendingInbound`, `children`, `activeToolFeed`, status, `closing`/`closeReason` | four kinds of goroutine per session and parents that wait for children that submit to parents; frames have no order (`Submit` uses a goroutine per frame) |
| `pkg/session/manager` | 1100 | `live` roots, root context, wait group | `Resume` from several clients, `Terminate` and `Stop` beside it |
| `pkg/session/recover.go`, `reap.go`, `extension/mission/reap.go` | 350 | none of their own: rows | crash between any two writes, sweeps beside live sessions |
| `pkg/session/store` | 1100 | sessions, events, notes in an embedded database | `NextSeq` and insert are two queries |
| inquiry (HITL): `inquiry.go`, `tools_inquire.go`, `inquire_request.go` | in session | pending answers, response routes | bubbling through ancestors that close, timeout against a late answer |
| turn internals: `turn.go`, `turn_ceiling.go`, `close_turn*.go` | in session | iteration counters, budgets, retries | limits that must stop a turn and not lose its result |
| `pkg/extension/scheduler` | 2400 | bootstrapped sessions, fire contexts; rows `tasks`, `task_log` | fires beside calls, restart in the middle of a fire, the end condition |
| `pkg/scheduler/runner`, `pkg/scheduler/store` | 2000 | registrations with `nextFireAt`, `inFlight`, `fireCount` | a tick fires from a copy of the registrations |
| `pkg/extension/mission` | 9200 | plan, waves, handoffs, approval gate | a driver goroutine that spawns, polls and cancels workers |
| `pkg/extension/task` | 1400 | none | synchronous run of a recipe with a context |
| `pkg/extension/compactor`, `recap` | 5200 | checkpoints, hidden ranges | background summaries of a log that grows |
| `pkg/skill`, `pkg/extension/skill` | 8800 | catalogue, loaded skills | reload beside use |
| other extensions (plan, notepad, whiteboard, workspace, artifact, liveview, stuckdetector, policies, mcp) | 6500 | folded from the log of the session | whiteboard routing between sessions |
| `pkg/adapter/httpapi`, `pkg/adapter/tui`, `pkg/a2a` | 8500 | connections, views | the environment of the above |
| `pkg/runtime`, `pkg/config`, `pkg/store`, `cmd/` | 6300 | assembly | order of binding at start |
| `pkg/models`, `pkg/tool`, `pkg/auth`, `pkg/protocol` | 9000 | provider registries, tokens | token refresh, hot reload of providers |
| `mcp/` servers | 3300 | separate processes | isolation of tools, I/O |

**How they interact.** A frame reaches a session through `Submit`; its Run loop (`routeInbound`)
routes it by kind. A turn is a set of goroutines (model stream, tool dispatcher) that report to the
Run loop; a tool may spawn a child (`Spawn`), for which the parent starts a pump
(`consumeChildOutbox`) that turns the child's final message, error or termination into one
`SubagentResult` in the parent's inbox. The result makes the parent close the child
(`handleSubagentResult`), and wakes `wait_subagents` through the session's tool feed. Every
consumed frame is a row of the session's log; a restart has nothing but the rows.
`Manager.Resume` rebuilds a root from them and settles its dead children. The Runner ticks over
registrations; the scheduler extension registers one per task, and a fire delivers a message to the
owner root or runs a recipe as its child. Two of the Runner's internal jobs are the reapers.

**What makes each part correct.** *Tree*: a session never ends before what it started; closing and
shutting down always terminate; each child has at most one result, which comes after its end.
*Wait*: no frame is logged twice and no message is lost, whatever the tool is doing (results left in
the channel of a feed are lost, a hazard no property covers); the status row is true; the wait ends.
*Restore*: any number of crashes leaves one truthful result per child; nobody alive is declared
dead. *Scheduler*: fire numbers are used once and in order, the plan in memory is the plan on disk,
end conditions hold, a task neither stalls nor comes back from cancellation. *Inquiry*: a question
gets one answer or its timeout. *Turn*: budgets stop it, with its work reported. *Transcript*: what
the model is shown is what was logged, in whole groups of a call and its results. *Missions*: an
outcome is the worker's own, nobody works after his wave, the user signs every change of the
contract, the mission ends.

## 2. Plan

Done: the modules of section 3. The order was: the tree (everything else assumes it), the wait on
top of it, what a restart makes of both, the scheduler as the other persistent state machine; then
the inquiry cascade, which crosses the tree both ways, the transcript a turn writes and the cache
of it that the model sees, the mission as the largest state machine over sessions, and the turn
with its budgets.

Next, most important first:

1. `RunnerService`: several registrations, Stop with fires in flight, the run log; abstract
   specification of a timer that `ScheduledTask` would use through INSTANCE.
2. The research stage and inline waves of the mission; `ProviderReload` (tool manager),
   `TaskStoreErrors` (lost log rows).
3. Theorems: every invariant of a run has one (section 6); what is left is liveness, which stays
   with TLC, and what the next modules bring.

## 3. Modules

| module | models | with |
|---|---|---|
| `TaskScope` | what the tree promises: structured concurrency | `SessionTree_proofs` |
| `SessionTree` | lifecycle of a tree of sessions | `MCSessionTree`, `SessionTree_proofs` |
| `WaitSubagents` | Run loop and tool dispatcher of one session | `MCWaitSubagents`, `WaitSubagents_proofs` |
| `SessionRestore` | rows, crashes, Resume, reapers | `MCSessionRestore`, `SessionRestore_proofs` |
| `ScheduledTask` | a recurring task, the Runner, its fires | `ScheduledTask_proofs` |
| `InquiryPromise` | what an asker is promised: one answer or another outcome | |
| `Inquiry` | the cascade of questions and answers in a tree of sessions | `MCInquiry`, `Inquiry_proofs` |
| `Transcript` | the log of a session, the compactor's cache of it, the prompt | `Transcript_proofs` |
| `Mission` | planner loop, waves, handoffs, approval of one mission | `MCMission`, `Mission_proofs` |
| `Turn` | the turns of one session: budgets, ends, the close turn | `Turn_proofs` |

### SessionTree

`phase` is where the Run goroutine of each session is: `made` between registration in
`parent.children` and `Start`, `run` at the select, `join` in `handleSubagentResult`, then the
stages of `teardown`. `ctl`, `results` are the frames submitted and not routed (sets: `Submit` has
no order), `pending` is `pendingInbound`. `outbox`, `pump`, `projected` are the child's outbox and
the parent's pump. `driver` is the goroutine of a mission driver (or cron fire), which spawns
beside the Run loop and is in no wait group of the session; children it spawns are `Driven`.
An action is a step of one goroutine between two points where another can act: `SpawnRegister` and
`SpawnStart` are two, so are `RouteSubagentResult` (submit the close) and `HandleSubagentResult`
(after `<-child.Done()`). A turn is `busy` or not; whether it yields a final message is open.

The state function `ScopeStatus` maps the tree to `TaskScope`: a session is open from its
registration until it leaves `drainOnTeardown`. `ImplementsScope` is checked and, without a mission
driver, proved.

### WaitSubagents

Two goroutines: the Run loop (`RouteMessage`, `LaunchTurn`, `JoinChild`/`DeliverResult`,
`FinishTurn`/`KickSummary`, `AbandonTurn`, `CancelTurn`) and the dispatcher (`Spawn`,
`ListChildren`, `ScanLog`, `RegisterFeed`, `TakeFrame`, `AbortWait`, `ReleaseFeed`). `feedCh` has
the capacity the code gives it, and takes the results of all children, wanted or not. `journal`
counts the rows of each frame. Children and users are the environment (`Answer`, `Say`); so is a
scheduled task whose recipe is spawned on the session by a goroutine of its own (`SpawnBeside`, the
children `Beside`).

`state` is `lifecycleState`, `status` the newest row. `markStatus` is a store under a lock (`Mark`,
skipped when nothing changes) and an emit after it (`EmitStatus`), with other goroutines in between;
`asked` and `owed` are the mark and the row each of the three markers is about to write. The
dispatcher's emits go through the context of its turn: once that is cancelled the store may refuse
the row (and the row of a consumed result, `PersistResult`), while the memory is changed. The exits
of `startTurn` that give up (no model, a refused row) are in `Turn`, not here.

### SessionRestore

Four variables are the database, the rest is memory and lost by `Crash`, which is enabled
everywhere. Each database call of `newSessionRestore` and `settleDanglingSubagents` is an action of
its own, so a crash or another goroutine may come between any two. `reaper` is the sweep of
process orphans: list, check, flip are three steps.

### ScheduledTask

`status`, `plan`, `started`, `terminal` are the rows. A registration is an object with an identity
(`RegId`): `Register` puts a new one under the name, the old one's fire goes on, and pauses and
re-arms go to whatever has the name (`cur`), as the code's do. `snapshot` is the copy tickOnce
fires from. `op` holds calls in progress: row first, registration second. Spawn and wake fires have
the same steps; a refused fire (owner gone, skill drift) parks without a run, one whose inputs do
not render parks after `started`. The branch `drift_check_failed` is dead code (`detectSkillDrift`
returns no error) and `spawn_unavailable` cannot occur after `pkg/runtime/runner.go` has bound
everything before `Start`; both are left out.

### Inquiry

A question is a request with a `call`: the stages of `callInquire` (or of `RequestInquiry`, which
registers no tool feed) between `recordPending` and its return, with `slot` for the channel of
capacity 1. Upwards: `wire` is the request in the outbox of a session, `held` the moment between
`recordResponseRoute` and `outboxOnly` in the parent's pump (`RecordRoute`, `Bubble`). Downwards:
`Answer` is a client at any tier that has shown the request, `Dispatch` is `dispatchInquiryResponse`
with its three ways (`Deliver`, `Forward`, `Drop`). `Feed` and `Release` mark the status
(`MarkStatus`): nothing is emitted when it is unchanged, and under a done context the emit may fail.
A spawn that is not of the turn marks the session active meanwhile, in three steps (`SpawnMarks`,
`SpawnLooks`, `SpawnEmits`); the marks of turn boundaries are left out, a tool call being inside a
turn. `life` is what closing does to all this: `Stop` cancels the tool calls, `Drain` waits for
them, `Exit` for children and pumps; `Join`/`Joined` is `handleSubagentResult`, which sweeps the
routes of the child. `view` is what observers of `session_status` and inquiry frames show.
`InquiryPromise` is the abstract specification (one answer per call, the first accepted, none after
the caller gave up), and `PromiseKept` the refinement: checked and proved.

### Transcript

`log` is the rows of one session, `hist` the entries of the compactor's cache: an entry is the
number of its row, because `Session.emit` numbers, appends and observes one frame at a time. So
the strategies are operators on sets of row numbers: `Observe` and `PruneWindow`
(`snapToPairSafeHead`, the pinned brief), `NewCutoff`/`AboveCutoff` of a digest, `KeptTo` of an
abort, `CallRollback`, `Recover` over `Page`, the rows `ListEvents` returns. Actions are the frames
a turn emits (`StartTurn`, `ModelCalls`, `CallWork`, ..., `Advance`, `Abort`), what comes beside it
(`Note`, the commands), and `Restart`. `/compactor reset` is two steps, since it reads the log
before it replaces the cache. `Prompt` is what `ProvideHistory` returns, as a set of places: an
entry with number q has place 2q, the note of a hidden segment the place before the entry it stands
in front of, and the filler of a hidden segment none. `PromptFloor` is the other half of
`ProvideHistory`: with a segment hidden, the prompt of a model call fixes the preamble. An emit is
one step; two emits are two.

### Mission

The driver goroutine (`pc`), the sessions it has spawned (`kid`), the pumps that hand their last
frames to `OnChildFrame` (`Close`, then `Record` or `DropFrame`), and the user. They meet in
`MissionState`: `label`, `workers`, `store`, `hitl`, `sub`, `rows`, `staged`, `signed`, `pending`.
A wave is `BeginWave`, per worker `Spawn` and `RegisterWorker` (two steps: a worker may be done
before it is registered), `Expire` for a worker out of time, and `WaveEnds`, on which each stage
has its own continuation (`PlanWaveEnds`, `DoWaveEnds`, `CheckWaveEnds`, `SynthWaveEnds`).

`validate_and_approve` goes lock by lock: `Call`, `Validate` (with `StagePlannerDiff`, or the silent
`Apply`), `MarkHITLWaiting`, `ModalCloses` (with `ClearHITLWaiting`), `CommitStagedDiff` and
`MarkPlanApproved`, or `Discard`, then `StageAndEmit`. Only the modal looks at the context, so the
call of a planner that was cancelled goes on through all of these, beside its successors; only after
it can the last frame of that session come. The flag for approved tools is left out: no other
decision depends on it. A wave ends and the turns of its sessions are told in one step.

A handoff is found by `Ref`, name and label. `Races` names three behaviours the code has that break
`OutcomeIsOwn` or `NoneUnwatched` (findings 10, 11 and 23): the label of a wave used again, all
workers of a wave under one name (`Named`), the observer's two reads. The run leaves them out, so
that it shows all others are harmless.

### Turn

One session, root or sub-agent (`role`), and the one goroutine that drives it. `stage` says whether
a turn is there and who runs in it, the model or the tools; `starting` lies between the first emit
of `startTurn` and the model's call, since the log may be read there (`Materialise`). An action is
one pass through the select of the Run loop, with the whole `advanceOrFinish` or
`foldAssistantAndMaybeDispatch` if the turn is complete: `GateBlocks`, `EmptyRetry`, `CallTools` and
`Finish` are the ways a model's reply is folded, `HardCeilingHit` and `Advance` what follows the
tools, `Abort` and `StreamError` the ends without a reply. A Final frame, the drain, the retirement
and what follows them (close, or summary turn) are one action, as they are one call. `RequestClose`
puts a SessionClose among `closes`, beside those of the parent (`ParentCloses`); which one is routed
first decides, by its reason, whether the close turn runs (`WrapUp`), while the turn in flight goes
on. History is the set of inbound frames the model is shown; `fresh` are those that a rollback takes
back. A tool with no time limit (`wait_subagents`) puts the turn in stage `waits` instead of
`tools`. The log is longer than the page a restart reads once `FillPage` has happened: `paged` are
the frames and `noted` the soft warning whose rows are in the page, and `Materialise` sees no
others. `told` is what the parent's pump projects; a turn that ends without a word sends it nothing,
and sets `muted`. `answered`, `credited` and `excused` exist for the properties: what a reply had
seen, what it was attributed to, and what a turn that failed had.

## 4. Runs

| run | module, bounds | fairness | result |
|---|---|---|---|
| `cancel` | SessionTree: chain of 3, the last spawned by a driver; cancel, terminate | none | types; one result row per child, after its end; live children are registered |
| `close` | SessionTree: chain of 3; hard ceiling, terminate | goroutines | a close ends its subtree; nothing outlives its parent |
| `stop` | SessionTree: chain of 3; shutdown | goroutines | refines TaskScope; a shutdown ends all |
| `rows` | WaitSubagents: 3 children, 1 of them asynchronous and 1 spawned by a task, 1 message | goroutines | log exact, status true; cancels and messages end a wait whose channel has room |
| `lost` | WaitSubagents: 2 children, 1 message | goroutines | **violation** of WaitEnds |
| `settle` | SessionRestore: chain of 3, 1 resumer, 2 crashes | orphan reaper | one truthful row per child, resumed roots are settled, orphans retire |
| `calls` | ScheduledTask: count 2, 2 registrations, 2 calls of any kind, reaper | none | types; plan and starts are never ahead of the log |
| `restart` | ScheduledTask: count 2, 2 crashes, 1 pause or cancel | goroutines, time | order, number, plan, end condition; no stall |
| `inquiry` | Inquiry: chain of 3, the last asks 1 question, 2 answers, root and asker may close, spawns beside the asker | goroutines | an answer is kept and arrives, closing does not wait for it; refines InquiryPromise |
| `transcript` | Transcript: log of 8 rows, window 3 or summarize, 2 calls per message, all context tools, notes while a tool runs, 1 restart | none | whole groups, the brief stays, the cache is the log |
| `mission` | Mission: 1 worker per wave, 2 iterations, 2 manifests (approval and checker; no approval and synthesizer), at most 1 criterion, seeded or added | driver, deadlines, ends of modals | outcomes are their worker's, nobody unwatched, contract signed, the mission ends |
| `turn` | Turn: root or sub-agent, 2 results, 1 message, soft cap 1, hard ceiling 2, 1 veto, 1 empty retry, close turn of 2, 1 crash, the log past its page or not | Run loop, model, tools but one | budgets bound a turn; results are answered or excused; the parent hears of the end; turns and closes end |

**Bounds.** A chain of three is the least tree with a session that is both child and parent, where a
close comes from above while results come from below; the proofs lift the invariants to every tree.
Three children are the least that can fill the channel of a wait (for one, with room for two) with
results it is not for, before the message comes; two of them are the turn's own, so one may be
waited for while the other answers. Two crashes cut off the pass that repairs the first. Count 2 has
a fire that plans a successor and one that ends the task; two registrations are the least for a
resume in the middle of a fire. `MaxTime`, `MaxRegs`, `MaxCalls` and `MaxCrashes` bound the searches
in the guards of `Advance`, `Register`, `Called` and `Crash` and mean nothing in the code. Deadlock
is not checked: a tree whose root has ended, a task that has been cancelled, a full log or a
finished mission really stops. In `Transcript`, eight rows hold a turn with two calls, their
results, a note and the start of the next turn after a restart; window 3 is smaller than such a
group, so every cut falls into one. In `Mission`, two iterations are the least for a frame of one to
arrive in the next, and two consecutive errors the least cap that is not reached by the first; a
wave of one worker leaves out partial waves, which count as successes. The two manifests have every
stage and both policies between them; the criteria may begin empty, so that one is added and
dropped, or with one. In `Inquiry` the asker is two levels below the root, so an answer is forwarded
once before it is delivered, and the second answer may take another tier. In `Turn`, one iteration
goes on after the soft cap and the next meets the hard ceiling; one result may be in the prompt
while the other is buffered; a crash after the soft warning tests that it is not given again, if its
row is in the page. The code's caps (6 vetoes, 5 retries) are larger; the proofs are for all.

**Fairness.** Weak fairness stands for the Go scheduler: a goroutine that can move does. In
`WaitSubagents` the Run loop and the dispatcher are one weakly fair goroutine each; which ready
frame the select takes is open. No fairness for users, models, children that think, or crashes. A
fire ends because its context has a timeout (`DefaultFireTimeout`); sweeps recur because the Runner
ticks. In `Mission` the driver is weakly fair, `Expire` strongly: a deadline stands still only while
its worker waits for the user, so time that passes in between adds up. That each such wait ends
(weak fairness of `ModalEnds`) is the timeout of the inquiry. Sessions owe nothing: they may run for
ever. In `Turn` a call of the model ends, and a tool's, since both have time limits of their own
layer; how they end is open. `wait_subagents` has none (nor has the dispatcher), so nothing is
assumed of stage `waits` but that the tool lets go when the turn is cancelled: `TurnEnds` says that
turns end one after the other, or one waits for ever and nobody cancels it.

**Why some properties have a narrower run.** `FiresOneByOne`, `ArmedFromPlan` and `TaskEnds` hold
without resume calls, also across crashes; a resume in the middle of a fire breaks each of them
(finding 4). `LiveNotBuried` holds for one caller of Resume (finding 3). The close properties hold
without a mission driver (finding 1). `TaskEnds` is about a task whose owner session is opened again
after a restart. `HistoryIsLog` needs a log that is read whole and no command in the middle of a
turn (findings 6 and 8); `WholeOrGone` is silent about what `context:rollback` cut (finding 7),
`BriefKept` about a hidden segment where the preamble was computed from a cache without one
(`PreambleKnown`, finding 16). `OutcomeIsOwn` and `NoneUnwatched` need `Races = {}` (findings 10, 11
and 23), and so do the theorems about them. `ContractSigned` leaves out planners that were at the
pending diff at the same time (`mixed`, finding 22). `StatusTruthful` speaks of rows as long as no
task has spawned on the session (`Undisturbed`, finding 18), and of a wait on record in a turn that
is not cancelled (finding 19). `WaitLetsGo` excuses a channel full of foreign results (`Crowded`,
finding 20), `NotShownAfter` a call in whose time a spawn was there (`overtaken`, finding 21),
`ChildReports` a turn that ended in silence (`muted`, finding 17), `BudgetsKept` a soft warning
whose row lies past the page (finding 6). `NobodyHangs` is an `<>[]` over all calls and sessions,
which suffices as nothing that has ended begins again. `ResultsAccounted` excuses the results of a
turn that failed (finding 13) or of rows past the page, and says nothing of user messages (finding
14).

## 5. Findings

Finding 2 has a run, `lost`. The others were met in the models too: the configuration named with
each, or the action, shows it, but it is no run of its own.

1. A worker spawned by the mission driver while its mission closes is never told to close, and the
   mission's teardown waits for ever. The forwarding of SessionClose is done once
   (`Session.teardown`); only turns are joined before it. (`SessionTree`, `Driven` not empty,
   `Inputs = {"terminate"}`: `CloseCompletes`.)
2. `lost`: `callWaitSubagents` reads the log before it registers its feed; a result routed in
   between is in neither place, and the wait blocks on a child that is gone.
3. Two clients that resume one dormant root: the loser's settling pass runs before the double-check
   on `Manager.live` and writes `restart_died` into the log of a live child. (`SessionRestore`, two
   resumers: `LiveNotBuried`.)
4. `callResume` during a fire leads to a run with number count+1. (`ScheduledTask` with calls of
   resume: `FiresOneByOne`.)
5. Pausing a cancelled task makes it resumable.
6. `materialise` reads the oldest 1000 rows only; a longer session comes back without the rest.
   (`Transcript`, `PageLimit` below `MaxLog`: `HistoryIsLog`.) The soft warning is then given again,
   and the message that starts the first turn after the restart is not in its own prompt. (`Turn`,
   `FillPage`: `BudgetsKept` without `~noted`.)
7. `rollbackFrom` drops the result of the checkpoint's own call and keeps the call.
8. `/compactor reset` beside a running tool loses the result emitted in between; the rows of an
   aborted turn, dropped from the cache, come back with a restart or a reset.
   (`"command" \in Midway`: `HistoryIsLog`.)
9. `wait_subagents` and the stuck detector emit entries between a call and its result, where they
   stay in every later prompt. (`CallWork` and `Note` of `Transcript`.)
10. A planner may reuse the label of an earlier wave: the wave ends at once with the old outcomes
    while its workers run. (`Races = {"reuse"}`: `OutcomeIsOwn`, `NoneUnwatched`.)
11. `OnChildFrame` reads worker and wave under two locks: a late frame is filed under the next wave.
    (`Races = {"torn"}`: `OutcomeIsOwn`.)
12. A dropped criterion comes back by a status-only update; `plan_complete` ends a mission as done
    with open criteria; the driver reads the planner's submission without asking whose it is.
13. A result buffered when a turn is cancelled or fails is credited to the next turn, whose prompt
    may not show it, and no summary turn follows. (`Abort`, then `RouteMessage`, `StartTurn` and
    `Finish` of `Turn`.)
14. A user message that arrives in the last iteration of a turn, or between /cancel and the end of
    its goroutines, starts no turn of its own. (`Finish` and `Abort` of `Turn`.)
15. A sub-agent out of budget sends its final frame before it asks to be closed, so the parent's
    close may come first, and the close turn that the budget's reason is to skip is run.
16. The preamble is not always spared by a hide. After `/compactor compact` the oldest entry of a
    window cache may be a call; the floor computed then is 0 and is kept, so that a segment hidden
    before `/compactor reset` covers the task brief which the reset brings back. (`Transcript`,
    window 6, 24 rows: `BriefKept` without `PreambleKnown`.)
17. A sub-agent whose model stays empty through all retries ends its turn without a frame: the pump
    projects nothing, the child is idle for ever, and so is the wait of its parent. (`Turn`:
    `ChildReports` without `muted`.)
18. `Spawn` by a task marks the status beside the Run loop; the rows of the two may come in the
    other order, or not at all: "idle" is the newest row over a live child or a running turn, or
    "active" at rest. (`WaitSubagents`: `StatusTruthful` without `Undisturbed`.)
19. The row "active" of a wait that was cancelled may be refused; the next turn finds the status
    active in memory and emits none, so the newest row goes on to say `wait_subagents`.
    (`EmitStatus` of `WaitSubagents`.)
20. Results that nobody waits for take the room of the feed's channel: a message is dropped from it
    and the wait goes on. (`WaitSubagents`, three children: `WaitLetsGo` without `Crowded`.)
21. When a spawn has marked the session active during an inquiry, its release emits no status, and
    observers may go on showing the inquiry. (`Inquiry`: `NotShownAfter` without `overtaken`.)
22. A planner that was cancelled in its call goes on to stage, commit or discard the one pending
    diff of the mission, beside its successor, who then commits what his modal has not shown.
    (`Mission`: `ContractSigned` without `mixed`.)
23. Workers of one wave may have the same name: the first handoff is the outcome of both, and the
    other worker is left running when the wave ends. (`Mission`, two workers, `Races =
    {"namesake"}`: `OutcomeIsOwn`, `NoneUnwatched`.)
24. The comment of `consumeChildOutbox` says the pump has no wait group; it is in the parent's
    `childWG`, and teardown waits for it. (`SessionTree` follows the code.)

`PROJECT.json` quotes the line each of them contradicts.

## 6. Proofs

`SessionTree_proofs` proves for every set of sessions, every `ParentOf`, every set of driven
children and every choice of inputs, from `TreeAssumption`:

- `TypeCorrect`: `[]TypeOK`. Inductive with `JoinsAChild` (a session in `join` has a child to join).
- `ChildrenRegistered`: `[]RegisteredUntilDone`, by how `phase` (lemma `PhaseMoves`) and `children`
  (`ChildrenMoves`) can change: only `HandleSubagentResult` removes a child, after `Joined`.
- `OneRowPerChild`: `[]ResultOnce`. The strengthening `OneResultInv` says where the one result of
  a child is: in the pump's hands (not projected), in `results`, in `joining`, in `pending`, or
  logged, and that these are mutually exclusive.
- `RowAfterEnd`: `[]ResultAfterTerminal`, from `EndInv`: a result that is pending or logged belongs
  to a child whose Run goroutine has ended with an explicit close, which wrote the terminal row.

With the assumption `Driven = {}` (no mission driver; finding 1 is what one can do to a teardown):

- `TeardownJoins`: `[]JoinBeforeExit`, from `SpawnsSettled` (after the turn is stopped no spawn of
  it is in progress).
- `TreeIsScope`: `Spec => ImplementsScope`: `InitScope` and `NextScope` map the initial states and
  every step, most of them to a stutter.

`ScopesNest` is about the abstract specification: open tasks are nested. `LiveUnderLive` carries it
over to the tree through `TreeIsScope`.

`SessionRestore_proofs` proves, for every tree of sub-agents and any number of crashes, from
`TreeAssumption`:

- `TypeCorrect`: `[]TypeOK`, also for several callers of Resume at a time.
- `SettlesOnce`: `[]SettledOnce`, and `NoLiveBurial`: `[]LiveNotBuried`, assuming `OneResumer` (two
  are finding 3).

The invariant of both, `RestoreInv`, says what a settling pass knows at each of its steps and that
it stays true to the end of the step (`PassExact`): its list of children is exactly the direct
children that have a row and no result; at the step that buries a child, the child has no end yet;
at the step that writes the result, the reason in hand is the one of the end. Nobody else disturbs
that, because a root that is being resumed is not live (`ResumesDormant`), has then no goroutine
(`LiveIsUp`), and so has nothing below it (`Nested`); the reaper only changes status columns. The
remaining parts are the two halves of the property as they hold in between: a sub-agent has at most
one end and no result while it has a goroutine (`OneEnd`, `OneResult`), and a root that is up has
the result of each direct child that is not (`EndsKnown`). How each variable can change in any step
is a lemma each (`RowMoves`, `EndMoves`, `ResultMoves`, `PhaseMoves`, `ReaperMoves`).

`ScheduledTask_proofs` proves `PlanNeverAhead`: `[]PlanFollowsLog` from `BoundAssumption`, for
every count, every set of callers and every bound, all three kinds of calls, crashes and the reaper
included. `PlanFollowsLog` alone is not inductive: what a call or a fire holds in memory becomes
the plan or a start later. The invariant `LogInv` adds that every such number is *reached* (all
numbers below it have a terminal row of their own): the plan that a call has read (`OpReached`), the
number of each fire, and its successor once the fire has its row (`FireReached`), and the number an
idle registration gives next (`RegReached`). The steps that move no number are one lemma
(`QuietActions`); the ten that do are a step each of `NextLogInv`. `TypeCorrect` (`[]TypeOK`, with
the plan within the end condition) has no assumption besides either.

Two more theorems assume `"resume" \notin Calls` (finding 4 is what a resume in the middle of a fire
does): `ArmedIsPlan`: `[]ArmedFromPlan`, and `OneFireAtATime`: `[]FiresOneByOne`. Then only
`InitState` registers, once in each process (`LoaderOnly`), so there is one registration and one
fire at most (`OneReg`); the fire goes through the stages with the number of the plan until it has
moved it on (`Follows`), and the plan moves past a number only when that number has *run*: it has a
terminal row that only a run writes (`RanBefore`). Across a crash the last two say that what is
armed anew is what was armed.

`Inquiry_proofs`, from `InquiryAssumption` (a finite depth for every session), for every tree, every
set of requests and every number of answers:

- `InquiryTypes`: `[]TypeOK`, of which "a request has an entry exactly while its call is under way"
  is the part that carries weight.
- `InquiryKeepsPromise`: `Spec => PromiseKept`, from `OrderInv`: what is in a channel or an inbox
  was given, and an outcome is `answered` only with an answer in the channel.
- `ReturnedNotShown`: `[]NotShownAfter`, from `ShownInv`: who is shown has asked, a session waits in
  memory from `registerToolFeed` to `release` unless a spawn has come (`Waits`), so that `release`
  does emit, and a spawn's row carries only calls it has overtaken (`Carried`).
- `AnswerIsKept`: `[]AnswerKept`. The invariant `RouteInv` says how a request rises: it has one
  front (`OneFront`: whoever carries it up is above all that have seen it), routes lead to children
  that have seen it (`RouteDown`), and until the first answer no session behind the front lacks one
  (`Unbroken`); `StillChild` is what keeps the sweep from cutting a live route.

`Transcript_proofs` proves `TypeCorrect`: `[]TypeOK`, for every configuration: each operator on the
log and the cache returns row numbers of the log, and no digest row cuts above itself (`LogOK`), so
whatever prefix of the log a rebuild reads, the cutoff it finds lies in it.

The other three assume `PageLimit >= MaxLog` and `"command" \notin Midway` (findings 6 and 8 are
what happens without), and nothing of the strategies, the window, the numbers of calls, the set of
tools, the length of the log or the number of restarts:

- `CacheIsLog`: `[]HistoryIsLog`. `CacheInv` adds that every entry has its row, that a reset
  excludes a running turn, and, where the cache is in use, the equation itself for every strategy
  but the window. The lemmas reduce each action to one of three effects on the cache: a row shown
  (`ShowRow`, `ShownRows`), a digest (`CutRow`), a rebuild (`RecoverExact`).
- `CallsStayWhole`: `[]WholeOrGone`. `GroupInv` is the property of the cache instead of the prompt:
  the cache has a call with all its results or nothing of them (`Whole`), where the log has them
  together and nothing was dropped by a rollback, and the call whose results are still to come is in
  it with those that came (`OwnerWhole`), except under a window of 1, whose only entry is the
  pinned message (`AloneUser`). The window keeps that since `SnapToPairSafeHead` never begins with a
  result; a cutoff and an abort since they cut before a user message, which is never in a group
  (`Rows`, and that boundaries are user messages); a rebuild since it is one of these cuts of the
  log. From the cache to the prompt: hidden calls and results keep stubs, and no note stands between
  them.
- `BriefStaysKept`: `[]BriefKept`. `BriefInv` says that a cache in use begins with the brief, or the
  digest covers it (`Led`, `Carries`), since the window pins the oldest entry of the user role, an
  abort keeps what the turn began with, and a rollback keeps what its checkpoint has; and that
  checkpoints and floor are of rows that were shown (`Marked`). `OpenInv` is for hidden segments:
  but for the window strategy a cache begins with an entry of the user role until a floor is
  computed, so the floor is no less than the brief.

`Mission_proofs` proves, for any number of workers, iterations, retries and criteria, every policy
and every choice of stages, assuming `Races = {}` (findings 10, 11 and 23 are what happens without;
no code rules them out):

- `TypeCorrect`: `[]TypeOK`; the caps on iterations and consecutive errors are what carries weight.
- `OutcomesAreOwn`: `[]OutcomeIsOwn`; `EveryoneIsWatched`: `[]NoneUnwatched`.
- `TheUserSigns`: `Spec => ContractSigned`, which leaves out planners that met at the pending diff
  (`mixed`, finding 22).

All four rest on one invariant, `IInv`, because the key of a handoff has neither session nor
iteration in it: that it means one session follows from the order of the waves. `StoreInv` says that
every label in the store is of a wave before the next of its stage. For the workers of a plan that
is not immediate: a planner of an earlier iteration may still stage its verdict, and the driver
takes it for its successor's (finding 12). It stays sound since a planner whose wave has run submits
no more (`Spent`), which in turn needs that a planner leaves its wave before its plan runs
(`WaveInv`) and that a late submission is the last of its planner (`SubInv`). `WaveOver` is the
lemma that ends a wave: nobody of it runs then, but the call of a cancelled planner may go on.
`SlotInv` says of the one pending diff that it is the one of the planner that is alone at it, that
it is empty when nobody is, and that whoever is not alone is in `mixed`. Preservation is a lemma per
action for this core, and one per part of the state for the types.

`WaitSubagents_proofs` proves, for every set of children and messages, from `WaitAssumption` alone
(children are no messages and finitely many, the asynchronous ones are children, `None` is none):

- `TypeCorrect`: `[]TypeOK`.
- `StatusIsTrue`: `[]StatusTruthful`. `MarkInv` says who may be about to mark what, and that the Run
  loop marks idle only what is at rest but for the children of tasks; `RowInv` that without a task
  the rows follow the memory, what is owed being the difference.
- `EveryFrameLogged`: `[]LogExact`. `PlaceInv` says that a frame on its way to the log is in one
  place (inbox, hand of the Run loop, buffer) and not in the log yet; a child's result is in the
  channel of the feed only if it is in none of them and once, a message may be in the channel
  besides, and from there it goes nowhere. That results are not lost is not part of `LogExact`.
  `ToolInv` ties the dispatcher to the turn, so that a feed is registered only while the call is
  blocked or releases it: nobody else reads the channel.

`Turn_proofs` proves, for every set of messages and results, all caps and any number of crashes,
from `TurnAssumption`:

- `TypeCorrect`: `[]TypeOK`, with `WrapLeft` (a close turn that runs has an iteration left).
- `TurnsAreBounded`: `[]BudgetsKept`. `Counters` says that the calls of a turn add up: one, and one
  for each iteration, veto and empty reply, each counter below its bound; `Warnings` that a session
  which has read its log knows whether it was warned in its page, and that a second warning means
  that the row of the first lies past it.
- `ResultsAreAccounted`: `[]ResultsAccounted`. `Owed` follows a result without an answer through a
  turn (buffer, history, prompt): a turn that ends well has it in its prompt or has a summary turn
  asked for (`armed`) that will; `Shown` orders log, history and prompt; `Kept` is the log's part.
- `ChildrenReport`: `[]ChildReports`, from `Reports`: a sub-agent is cancelled only together with
  its close, and a teardown marks it closing; the turn that ends without a word is the excuse
  (`muted`).

Every invariant and action property of a passing run, and both refinements, are stated by one of
these theorems, some with an assumption that is named above with the finding that calls for it. Only
model-checked is what depends on fairness, which the prover does not handle: `CloseCompletes`,
`ShutdownCompletes`, `WaitLetsGo`, `OrphansRetire`, `TaskEnds`, `NobodyHangs`, `MissionEnds` and
`TurnEnds`.

## 7. Not modelled

Wording, rendering and storage queries; model answers (a choice); store errors (best-effort writes
are assumed to succeed, except for crashes and for what a cancelled context refuses in
`WaitSubagents` and `Inquiry`); permissions; the parts listed `not_modelled` in `PROJECT.json` with
the reason for each. Sequence numbers of rows are not told apart. Of the turn: streamed chunks,
context checkpoints, the choice of a model, permissions and hints of a tool call, a failed emit. Of
the inquiry: HITL policies, the markers replay reads, and the stale view `RequestInquiry` leaves. Of
the transcript: token estimates (a compaction may trip at any turn), the text of digests, a failed
or retried `materialise`. Of the mission: research, inline waves, roadmap, spec.md, the flag for
approved tools, a plan with more than one change of the contract. Of restore: `RestoreActive`, which
has no caller outside tests. Of the scheduler: cron expressions, `until`, delete, ownership checks.
