------------------------------ MODULE Mission ------------------------------
(***************************************************************************)
(* One mission of the mission extension (pkg/extension/mission): the       *)
(* goroutine that drives it, iteration by iteration (a planner, the wave   *)
(* of workers it planned, a checker), the executor that spawns and awaits  *)
(* the sessions of a wave, the observer that records their last frames,    *)
(* and the approval of a plan and of its changes to the acceptance         *)
(* criteria.                                                               *)
(*                                                                         *)
(* The driver, every session of the mission (a kid), the pump that brings  *)
(* its last frame to the observer and the user run concurrently and meet   *)
(* in MissionState.  A wave is named by its stage and a number: the label  *)
(* _plan-2 is <<"plan", 2>>; a handoff is found by the name of its author  *)
(* and the label of the wave that was current when it came.                *)
(*                                                                         *)
(* A session is named by its place in the wave, its stage and its          *)
(* iteration.  Texts, roles, the roadmap, the research stage and the       *)
(* auto-approve flag are left out; a plan changes at most one criterion, a *)
(* worker claims at most one.                                              *)
(***************************************************************************)
EXTENDS Naturals, Sequences, FiniteSets, Functions

CONSTANTS Name,       \* the workers of a planned wave
          Manifests,  \* manifests: approval of the first plan, and the optional stages
          Races,      \* "reuse": a planner may use the label of an earlier wave again;
                      \* "namesake": the workers of a planned wave all bear one name;
                      \* "torn": the observer's two reads of MissionState are two steps
          MaxWaves,   \* manifest.Plan.MaxWaves
          MaxErrors,  \* maxConsecutiveErrors
          MaxRows     \* bound on the acceptance criteria

ASSUME ManifestAssumption ==
  Manifests \subseteq [initial : {"skip", "required"}, stages : SUBSET {"check", "synth"}]
ASSUME RacesAssumption == Races \subseteq {"reuse", "namesake", "torn"}
ASSUME BoundsAssumption ==
  /\ {MaxWaves, MaxErrors, MaxRows} \subseteq Nat
  /\ MaxErrors > 0
  /\ IsFiniteSet(Name)
  /\ Name # {} /\ Name \cap {"planner", "checker", "synthesizer"} = {}

VARIABLES
  manifest,  \* of the mission; .initial is PlannerApproval().Initial
  pc,        \* the driver: "iterate", "wave" (in RunWave), "run", "check", "synth", "ended"
  iter,      \* MissionState.IterationCounter
  errs,      \* consecutiveErrors
  next,      \* the label of the planned wave the driver is about to run
  label,     \* MissionState.currentWave, or None
  todo,      \* names of the wave that are still to be spawned and registered
  spawned,   \* names of the wave whose session RunWave has spawned
  workers,   \* MissionState.workersInWave
  overdue,   \* timedOut: the names (of references) that waitForWorkers has given up
  store,     \* Handoffs: who wrote the handoff of a reference, and whether its status is ok
  kid,       \* the sessions whose last frame has not been dealt with
  hitl,      \* MissionState.hitlWaiting
  sub,       \* MissionState.submission
  rows,      \* MissionState.ac: the statuses
  staged,    \* MissionState.pendingDiff
  signed,    \* firstPlanApproved
  pending,   \* pendingReapproval
  mixed,     \* planners that found or let another one at pendingDiff: for ContractSigned
  budget,    \* an orchestration role ran out of its budget
  how        \* how the loop ended: "", "done", "aborted", "cancelled"

driver == <<pc, iter, errs, next>>
wave == <<label, todo, spawned, overdue>>
contract == <<rows, staged, signed, pending, mixed>>
vars == <<manifest, pc, iter, errs, next, label, todo, spawned, workers, overdue, store, kid,
          hitl, sub, rows, staged, signed, pending, mixed, budget, how>>

None == <<"none", 0>>
Stage == {"plan", "do", "check", "synth"}
Label == Stage \X (0 .. MaxWaves)
Author == Name \cup {"planner", "checker", "synthesizer"}
Session == Author \X Stage \X (0 .. MaxWaves)
Nobody == <<"nobody", "none", 0>>
Verdict == {"none", "refused", "approved", "aborted"}
Status == {"unsatisfied", "satisfied", "dropped"}

NoDiff == [op |-> "none", row |-> 0]
Diff == [op : {"none", "add", "drop", "satisfied", "unsatisfied"}, row : Nat]

\* Where callValidateAndApprove is:
\*   called  it has begun                       mark     its diff is staged
\*   modal   the inquiry is out                 commit, approve, discard   the next to be done
\*   stage   about to submit its verdict
Step == {"none", "called", "mark", "modal", "commit", "approve", "discard", "stage"}

\* Of a plan the number in the label of its wave is kept, 0 for next_wave = null, and its
\* diff.
NoSubmission == [by |-> Nobody, verdict |-> "none", wave |-> 0]

Init ==
  /\ manifest \in Manifests
  /\ pc = "iterate" /\ iter = 0 /\ errs = 0 /\ next = 0
  /\ label = None /\ todo = {} /\ spawned = {} /\ workers = {} /\ overdue = {}
  /\ store = <<>> /\ kid = <<>> /\ hitl = {}
  /\ sub = NoSubmission
  /\ rows \in {<<>>, <<"unsatisfied">>}  \* seedManifestAC
  /\ staged = NoDiff /\ signed = FALSE /\ pending = FALSE /\ mixed = {}
  /\ budget = FALSE /\ how = ""

-----------------------------------------------------------------------------
(* The acceptance criteria.                                                *)

\* IsContractChange; a status is none, the user does not sign it.
ContractChange(d) == d.op \in {"add", "drop"}

\* The changes of applyUpdateLocked and of the adds of CommitStagedDiff.
Apply(r, d) ==
  CASE d.op = "none" -> r
    [] d.op = "add"  -> Append(r, "unsatisfied")
    [] d.op = "drop" -> [r EXCEPT ![d.row] = "dropped"]
    [] OTHER         -> [r EXCEPT ![d.row] = d.op]

\* ApplyWorkerSatisfies: a hint, which does not touch a dropped row.
Claim(r, i) == IF r[i] = "unsatisfied" THEN [r EXCEPT ![i] = "satisfied"] ELSE r

\* The diffs that pass validation: checkIDsLocked knows the row.
ValidDiff ==
  {NoDiff} \cup [op : {"drop", "satisfied", "unsatisfied"}, row : DOMAIN rows]
    \cup [op : {"add"}, row : IF Len(rows) < MaxRows THEN {0} ELSE {}]

-----------------------------------------------------------------------------
(* Executor.RunWave.                                                       *)

\* SubagentSpec.Name; nothing asks for distinct names.
Named(n) == IF "namesake" \in Races /\ n \in Name THEN CHOOSE m \in Name : TRUE ELSE n

Ref(n) == <<Named(n), label>>

KeptWorkers(w) == w \* a new wave that leaves the workers of the old one registered
ForgetWorkers(w) == {}

\* BeginWave, once every depends_on is resolved.
BeginWave(l, names) ==
  /\ pc' = "wave"
  /\ label' = l /\ todo' = names /\ spawned' = {} /\ overdue' = {}
  /\ workers' = ForgetWorkers(workers)

\* The session the current wave has under a name.
Sid(n) == <<n, label[1], iter>>

\* The spawner opens the session and submits its first message ...
Spawn(n) ==
  /\ pc = "wave" /\ n \in todo \ spawned /\ todo \cap spawned = {}
  /\ spawned' = spawned \cup {n}
  /\ kid' = [s \in DOMAIN kid \cup {Sid(n)} |->
               IF s # Sid(n) THEN kid[s]
               ELSE [label |-> label, state |-> "runs", looked |-> FALSE, step |-> "none",
                     verdict |-> "none", wave |-> 0, diff |-> NoDiff]]
  /\ UNCHANGED <<driver, label, todo, workers, overdue, store, hitl, sub, contract, budget,
                 how>>

\* ... and RunWave registers it when the spawner has returned.
RegisterWorker(n) ==
  /\ pc = "wave" /\ n \in todo \cap spawned
  /\ workers' = workers \cup {Sid(n)}
  /\ todo' = todo \ {n}
  /\ UNCHANGED <<driver, label, spawned, overdue, store, kid, hitl, sub, contract,
                 budget, how>>

SpawnFails(n) ==
  /\ pc = "wave" /\ n \in todo /\ todo \cap spawned = {}
  /\ todo' = todo \ {n}
  /\ UNCHANGED <<driver, label, spawned, workers, overdue, store, kid, hitl, sub,
                 contract, budget, how>>

Uncancelled(k) == k \* a worker out of time that is left running
Cancelled(k) == [k EXCEPT !.state = IF @ = "runs" THEN "cancelled" ELSE @]

\* waitForWorkers: a worker that is past its deadline, which stands still while it waits
\* for the user, is cancelled.
Expire(n) ==
  /\ pc = "wave" /\ todo = {}
  /\ n \in spawned /\ Named(n) \notin overdue /\ Ref(n) \notin DOMAIN store
  /\ Sid(n) \notin hitl
  /\ overdue' = overdue \cup {Named(n)}
  /\ kid' = [s \in DOMAIN kid |-> IF s = Sid(n) THEN Cancelled(kid[s]) ELSE kid[s]]
  /\ UNCHANGED <<driver, label, todo, spawned, workers, store, hitl, sub, contract,
                 budget, how>>

\* collectOutcomes: a handoff wins over a timeout; `for' is the session the outcome is
\* about, `by' the one that wrote it.
Outcomes ==
  {[for |-> Sid(n), by |-> IF Ref(n) \in DOMAIN store THEN store[Ref(n)].by ELSE Nobody,
    ok |-> Ref(n) \in DOMAIN store /\ store[Ref(n)].ok] : n \in spawned}

\* aggregateStatus
Failed == \A o \in Outcomes : ~o.ok

\* The wave ends when every worker has a handoff or is out of time.
WaveEnds(stage) ==
  /\ pc = "wave" /\ todo = {} /\ label[1] = stage
  /\ \A n \in spawned : Named(n) \in overdue \/ Ref(n) \in DOMAIN store
  /\ label' = None /\ spawned' = {} /\ overdue' = {}
  /\ UNCHANGED <<todo, workers, store, kid, hitl, budget>>

-----------------------------------------------------------------------------
(* The driver: runPlannerLoop, spawnAndAwaitPlanner, spawnAndAwaitChecker. *)

\* The loop is over; driveMissionPlanner goes on to maybeSynthesize.
Leave(h) == pc' = "synth" /\ how' = h

OneTooMany == iter <= MaxWaves \* one iteration too many
MoreIterations == iter < MaxWaves

\* The next iteration: a planner is spawned.
Iterate ==
  /\ pc = "iterate" /\ ~budget /\ MoreIterations
  /\ iter' = iter + 1
  /\ sub' = NoSubmission
  /\ BeginWave(<<"plan", iter'>>, {"planner"})
  /\ UNCHANGED <<errs, next, store, kid, hitl, contract, budget, how>>

\* No more iterations: the cap is no failure, a role out of budget is.
IterateNoMore ==
  /\ pc = "iterate" /\ (budget \/ ~MoreIterations)
  /\ Leave(IF budget /\ MoreIterations THEN "aborted" ELSE "done")
  /\ UNCHANGED <<iter, errs, next, wave, workers, store, kid, hitl, sub, contract,
                 budget>>

\* A stage failed: an amend verdict for the next planner, or the end.
Retry ==
  /\ errs' = errs + 1
  /\ IF errs' >= MaxErrors THEN Leave("aborted") ELSE pc' = "iterate" /\ how' = how
  /\ UNCHANGED <<iter, next>>

\* spawnAndAwaitPlanner reads the submission when the wave of the planner is over; it
\* does not ask whose it is.
PlanWaveEnds ==
  /\ WaveEnds("plan")
  /\ CASE sub.verdict = "aborted" -> Leave("cancelled") /\ UNCHANGED <<iter, errs, next>>
       [] sub.verdict # "aborted" /\ (Failed \/ sub.verdict # "approved") -> Retry
       [] OTHER ->
            IF sub.wave = 0
            THEN Leave("done") /\ UNCHANGED <<iter, errs, next>>
            ELSE /\ pc' = "run" /\ next' = sub.wave
                 /\ UNCHANGED <<iter, errs, how>>
  /\ UNCHANGED <<sub, contract>>

RunPlan ==
  /\ pc = "run"
  /\ BeginWave(<<"do", next>>, Name)
  /\ UNCHANGED <<iter, errs, next, store, kid, hitl, sub, contract, budget, how>>

\* ResolveDependsOn fails: nobody is spawned.
DependsOnUnknown ==
  /\ pc = "run"
  /\ Retry
  /\ UNCHANGED <<wave, workers, store, kid, hitl, sub, contract, budget>>

DoWaveEnds ==
  /\ WaveEnds("do")
  /\ IF Failed THEN Retry
     ELSE /\ \/ \* no control role, or the plan has skip_check
                pc' = "iterate" /\ errs' = 0
             \/ "check" \in manifest.stages /\ pc' = "check" /\ errs' = errs
          /\ UNCHANGED <<iter, next, how>>
  /\ UNCHANGED <<sub, contract>>

StartChecker ==
  /\ pc = "check"
  /\ BeginWave(<<"check", iter>>, {"checker"})
  /\ UNCHANGED <<iter, errs, next, store, kid, hitl, sub, contract, budget, how>>

\* The statuses the verdict may set, a dropped row included.
Checked == {rows} \cup {Apply(rows, [op |-> s, row |-> i]) :
                          s \in {"satisfied", "unsatisfied"}, i \in DOMAIN rows}

\* The verdict is applied to the criteria, then routed.  A verdict that does not decode,
\* or says "inquire" without having inquired, is a failed check.
CheckWaveEnds ==
  /\ WaveEnds("check")
  /\ \/ Retry /\ UNCHANGED rows
     \/ /\ ~Failed
        /\ rows' \in Checked
        /\ \/ Retry
           \/ \* continue, amend, inquire
              pc' = "iterate" /\ errs' = 0 /\ UNCHANGED <<iter, next, how>>
           \/ \* finish, refused as long as a criterion is open
              /\ IF \E i \in DOMAIN rows : rows'[i] = "unsatisfied"
                 THEN pc' = "iterate" /\ how' = how
                 ELSE Leave("done")
              /\ UNCHANGED <<iter, errs, next>>
  /\ UNCHANGED <<staged, signed, pending, mixed, sub>>

\* maybeSynthesize
Synthesize ==
  /\ pc = "synth" /\ "synth" \in manifest.stages /\ how # "cancelled"
  /\ how = "aborted" \/ store # <<>>
  /\ BeginWave(<<"synth", 0>>, {"synthesizer"})
  /\ UNCHANGED <<iter, errs, next, store, kid, hitl, sub, contract, budget, how>>

SynthWaveEnds ==
  /\ WaveEnds("synth")
  /\ pc' = "ended"
  /\ UNCHANGED <<iter, errs, next, sub, contract, how>>

\* finishMission without a synthesis.
FinishMission ==
  /\ pc = "synth"
  /\ "synth" \notin manifest.stages \/ how = "cancelled" \/ (how = "done" /\ store = <<>>)
  /\ pc' = "ended"
  /\ UNCHANGED <<iter, errs, next, wave, workers, store, kid, hitl, sub, contract,
                 budget, how>>

Driver ==
  \/ Iterate \/ IterateNoMore \/ PlanWaveEnds \/ RunPlan \/ DependsOnUnknown \/ DoWaveEnds
  \/ StartChecker \/ CheckWaveEnds \/ Synthesize \/ SynthWaveEnds \/ FinishMission
  \/ \E n \in Author : Spawn(n) \/ RegisterWorker(n) \/ SpawnFails(n)

-----------------------------------------------------------------------------
(* A planner: the tool validate_and_approve.  Its handler asks for the     *)
(* context in the inquiry only: the call of a cancelled planner goes on,   *)
(* lock by lock, beside the planners of later iterations.                  *)

\* The waves a planner may plan, the complete plan included.
Planned(s) ==
  LET now == kid[s].label[2]
  IN IF "reuse" \in Races THEN 0 .. now ELSE {0, now}

\* The model calls the tool.
Call(s) ==
  /\ kid[s].state = "runs" /\ kid[s].label[1] = "plan" /\ kid[s].step = "none"
  /\ kid' = [kid EXCEPT ![s].step = "called"]
  /\ UNCHANGED <<driver, wave, workers, store, hitl, sub, contract, budget, how>>

\* The handler of s goes on to stageAndEmit with this verdict.
ToStage(s, v, w) ==
  kid' = [kid EXCEPT ![s] = [@ EXCEPT !.step = "stage", !.verdict = v, !.wave = w,
                                      !.diff = NoDiff]]

\* Planners between StagePlannerDiff and the end of their diff.
AtDiff == {s \in DOMAIN kid : kid[s].step \in {"mark", "modal", "commit", "discard"}}

\* StagePlannerDiff, if there is a diff.
StagePlannerDiff(s, w, d, then) ==
  LET others == AtDiff \ {s}
  IN /\ staged' = IF d = NoDiff THEN staged ELSE d
     /\ mixed' = IF others = {} THEN mixed ELSE mixed \cup others \cup {s}
     /\ kid' = [kid EXCEPT ![s].step = then, ![s].wave = w, ![s].diff = d]

\* shouldOpenApprovalModal, for a plan that does not ask for the modal.
WantModal(d) == ~signed \/ pending \/ ContractChange(d)

\* The plan does not validate.
Refuse(s) ==
  /\ kid[s].step = "called"
  /\ ToStage(s, "refused", 0)
  /\ UNCHANGED <<driver, wave, workers, store, hitl, sub, contract, budget, how>>

\* callValidateAndApprove up to the first lock that changes MissionState, for a plan that
\* leads to the wave w (0: it is complete, and has no diff) with the diff d.
Validate(s, w, d) ==
  /\ kid[s].step = "called"
  /\ w = 0 => d = NoDiff
  /\ \/ \* policy_skip: applyPlanACForPolicySkip, if there is a diff
        /\ manifest.initial = "skip"
        /\ \/ d # NoDiff /\ StagePlannerDiff(s, w, d, "commit")
           \/ /\ d = NoDiff
              /\ kid' = [kid EXCEPT ![s].step = "approve", ![s].wave = w]
              /\ UNCHANGED <<staged, mixed>>
        /\ UNCHANGED <<rows, signed, pending>>
     \/ \* plan_complete, or applyPlanACSilent
        /\ manifest.initial # "skip" /\ (w = 0 \/ ~WantModal(d))
        /\ rows' = Apply(rows, d)
        /\ ToStage(s, "approved", w)
        /\ UNCHANGED <<staged, signed, pending, mixed>>
     \/ \* a modal is wanted; the plan may ask for one
        /\ manifest.initial # "skip" /\ w # 0
        /\ StagePlannerDiff(s, w, d, "mark")
        /\ UNCHANGED <<rows, signed, pending>>
  /\ UNCHANGED <<driver, wave, workers, store, hitl, sub, budget, how>>

\* RequestInquiry follows.
MarkHITLWaiting(s) ==
  /\ kid[s].step = "mark"
  /\ hitl' = hitl \cup {s}
  /\ kid' = [kid EXCEPT ![s].step = "modal"]
  /\ UNCHANGED <<driver, wave, workers, store, sub, contract, budget, how>>

StillWaiting(h, s) == h \* an inquiry that leaves its mark
ClearHITLWaiting(h, s) == h \ {s}

\* The diff of s is to be discarded.
ToDiscard(s) ==
  kid' = [kid EXCEPT ![s] = [@ EXCEPT !.step = "discard", !.wave = 0, !.diff = NoDiff]]

\* RequestInquiry returns: the plan is approved, or not.
ModalCloses(s) ==
  /\ kid[s].step = "modal"
  /\ hitl' = ClearHITLWaiting(hitl, s)
  /\ kid' = [kid EXCEPT ![s].step = "commit"] \/ ToDiscard(s)
  /\ UNCHANGED <<driver, wave, workers, store, sub, contract, budget, how>>

\* The question of the modal cannot be rendered.
RenderFails(s) ==
  /\ kid[s].step = "mark"
  /\ ToDiscard(s)
  /\ UNCHANGED <<driver, wave, workers, store, hitl, sub, contract, budget, how>>

\* What is staged by now, whoever has staged it.
CommitStagedDiff(s) ==
  /\ kid[s].step = "commit"
  /\ rows' = Apply(rows, staged)
  /\ staged' = NoDiff /\ mixed' = mixed \ {s}
  /\ kid' = [kid EXCEPT ![s].step = "approve", ![s].diff = NoDiff]
  /\ UNCHANGED <<driver, wave, workers, store, hitl, sub, signed, pending, budget, how>>

MarkPlanApproved(s) ==
  /\ kid[s].step = "approve"
  /\ signed' = TRUE /\ pending' = FALSE
  /\ ToStage(s, "approved", kid[s].wave)
  /\ UNCHANGED <<driver, wave, workers, store, hitl, sub, rows, staged, mixed, budget, how>>

KeptDiff(d) == d \* a refused diff that stays staged
DiscardStagedDiff(d) == NoDiff

\* The inquiry failed, because the planner was cancelled or it could not be sent: a tool
\* error.  Or the user wants another plan or the end, or did not answer in time (refused).
Discard(s) ==
  /\ kid[s].step = "discard"
  /\ staged' = DiscardStagedDiff(staged) /\ mixed' = mixed \ {s}
  /\ \/ kid' = [kid EXCEPT ![s].step = "none"]
     \/ \E v \in {"refused", "aborted"} : ToStage(s, v, 0)
  /\ UNCHANGED <<driver, wave, workers, store, hitl, sub, rows, signed, pending, budget, how>>

\* stageAndEmit; a cancelled planner gets there too.
StageAndEmit(s) ==
  /\ kid[s].step = "stage"
  /\ sub' = [by |-> s, verdict |-> kid[s].verdict, wave |-> kid[s].wave]
  /\ kid' = [kid EXCEPT ![s].step = "none", ![s].verdict = "none", ![s].wave = 0]
  /\ UNCHANGED <<driver, wave, workers, store, hitl, contract, budget, how>>

-----------------------------------------------------------------------------
(* Any kid.                                                                *)

\* The user cancels a sub-agent.
UserCancels(s) ==
  /\ kid[s].state = "runs"
  /\ kid' = [kid EXCEPT ![s].state = "cancelled"]
  /\ UNCHANGED <<driver, wave, workers, store, hitl, sub, contract, budget, how>>

\* The last frame of a session: its final message, its termination or an error (what it
\* sends when it is reaped after that finds its handoff there, or its wave over).  The
\* finalize gate gives up after some vetoes: a planner may end without a plan.  The pump
\* gives the frame to OnChildFrame, which looks the worker up under one lock and reads
\* the current wave under another.
Close(s) ==
  /\ kid[s].state # "closed" /\ kid[s].step = "none"
  /\ \E looked \in {FALSE} \cup {"torn" \in Races /\ s \in workers} :
       kid' = [kid EXCEPT ![s].state = "closed", ![s].looked = looked]
  /\ UNCHANGED <<driver, wave, workers, store, hitl, sub, contract, budget, how>>

\* LookupWorker and CurrentWave
Heard(s) == (kid[s].looked \/ s \in workers) /\ label # None

\* A frame that OnChildFrame drops.
DropFrame(s) ==
  /\ kid[s].state = "closed" /\ ~Heard(s)
  /\ kid' = Restrict(kid, DOMAIN kid \ {s})
  /\ UNCHANGED <<driver, wave, workers, store, hitl, sub, contract, budget, how>>

\* ingestPlannerCompletion
Submitted(s) == sub.by = s /\ sub.verdict \in {"approved", "aborted"}

\* What the last frame of a session is: a handoff with status ok or another, or what the
\* session had when its context budget was used up, or nothing that parses.
Reports == {"ok", "partial", "budget", "error"}

\* ingestHandoff, ingestPlannerCompletion and recordError: the first handoff of a reference
\* stays; one that parses counts for the criteria whatever its status.
Record(s, report) ==
  LET ref == Ref(s[1])
      new == ref \notin DOMAIN store
      ok == report = "ok" /\ (label[1] = "plan" => Submitted(s))
      parsed == new /\ report # "error" /\ (label[1] = "plan" => report = "budget")
  IN /\ kid[s].state = "closed" /\ Heard(s)
     /\ kid' = Restrict(kid, DOMAIN kid \ {s})
     /\ store' = [r \in DOMAIN store \cup {ref} |->
                    IF r \in DOMAIN store THEN store[r] ELSE [by |-> s, ok |-> ok]]
     /\ budget' = (budget \/ (report = "budget" /\ label[1] # "do"))
     /\ rows' \in IF parsed THEN {rows} \cup {Claim(rows, i) : i \in DOMAIN rows} ELSE {rows}
     /\ pending' \in IF parsed THEN {pending, TRUE} ELSE {pending}
     /\ UNCHANGED <<driver, wave, workers, hitl, sub, staged, signed, mixed, how>>

ValidateStep(s) ==
  \/ Call(s) \/ Refuse(s) \/ (\E w \in Planned(s), d \in ValidDiff : Validate(s, w, d))
  \/ MarkHITLWaiting(s) \/ RenderFails(s) \/ ModalCloses(s)
  \/ CommitStagedDiff(s) \/ MarkPlanApproved(s) \/ Discard(s) \/ StageAndEmit(s)

Kid(s) ==
  \/ ValidateStep(s) \/ UserCancels(s) \/ Close(s)
  \/ DropFrame(s) \/ (\E r \in Reports : Record(s, r))

Next ==
  /\ \/ Driver
     \/ \E n \in Author : Expire(n)
     \/ \E s \in DOMAIN kid : Kid(s)
  /\ UNCHANGED manifest

Spec == Init /\ [][Next]_vars

\* An inquiry has a timeout of its own; time that is not spent in one adds up, so a
\* deadline that keeps being open passes in the end.
ModalEnds(s) == s \in DOMAIN kid /\ ModalCloses(s)

FairSpec ==
  /\ Spec
  /\ WF_vars(Driver /\ UNCHANGED manifest)
  /\ SF_vars((\E n \in Author : Expire(n)) /\ UNCHANGED manifest)
  /\ \A s \in Session : WF_vars(ModalEnds(s) /\ UNCHANGED manifest)

-----------------------------------------------------------------------------
(* Properties.                                                             *)

TypeOK ==
  /\ manifest \in Manifests
  /\ pc \in {"iterate", "wave", "run", "check", "synth", "ended"}
  /\ {iter, next} \subseteq 0 .. MaxWaves /\ errs \in 0 .. MaxErrors
  /\ label \in Label \cup {None}
  /\ todo \subseteq Author /\ spawned \subseteq Author /\ overdue \subseteq Author
  /\ workers \subseteq Session /\ hitl \subseteq Session
  /\ DOMAIN store \subseteq Author \X Label
  /\ \A r \in DOMAIN store : store[r] \in [by : Session, ok : BOOLEAN]
  /\ DOMAIN kid \subseteq Session
  /\ \A s \in DOMAIN kid :
       kid[s] \in [label : Label, state : {"runs", "cancelled", "closed"}, looked : BOOLEAN,
                   step : Step, verdict : Verdict,
                   wave : 0 .. MaxWaves, diff : Diff]
  /\ sub \in [by : Session \cup {Nobody}, verdict : Verdict, wave : 0 .. MaxWaves]
  /\ rows \in Seq(Status) /\ staged \in Diff
  /\ {signed, pending, budget} \subseteq BOOLEAN /\ mixed \subseteq Session
  /\ how \in {"", "done", "aborted", "cancelled"}

\* What the log of a mission says of a worker is the worker's own: the outcome of a wave
\* never comes from the handoff of another session, such as the late frame of a planner
\* that was cancelled an iteration ago.
OutcomeIsOwn == \A o \in Outcomes : o.by \in {o.for, Nobody}

\* Nobody works on unwatched: a session that runs and was not cancelled is one that the
\* executor is waiting for.
NoneUnwatched ==
  \A s \in DOMAIN kid :
    kid[s].state = "runs" => label = kid[s].label /\ s \in {Sid(n) : n \in spawned}

\* A step of s that ends its being at "commit".
Commits(s) ==
  /\ s \in DOMAIN kid \cap DOMAIN kid'
  /\ kid[s].step = "commit" /\ kid'[s].step # "commit"

SignedStep ==
  /\ \A s \in Session \ mixed : Commits(s) => rows' = Apply(rows, kid[s].diff)
  /\ \/ Len(rows') = Len(rows)
        /\ \A i \in DOMAIN rows : rows'[i] = "dropped" => rows[i] = "dropped"
     \/ \E s \in Session : Commits(s)

\* The user signs what the modal shows: an approval applies the diff of that planner, and
\* no other, a refused diff does not come back; and a criterion is added or dropped by the
\* commit after an approval alone (or, with policy skip, by the commit that needs none).
\* The first part is not claimed where two planners are at the one pendingDiff of the mission
\* at a time: one that ran out of time in its call may discard, commit or overwrite what the
\* modal of its successor shows.
ContractSigned == [][SignedStep]_vars

\* Every mission ends, whatever its sessions do or fail to do and however often the user
\* asks for changes.
MissionEnds == <>(pc = "ended")

=============================================================================
