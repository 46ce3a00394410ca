--------------------------- MODULE ScheduledTask ---------------------------
(***************************************************************************)
(* One recurring task of the scheduler extension: its row and its task_log *)
(* in the store, its registration with the Runner, the fires the Runner    *)
(* starts, the schedule:pause / resume / cancel calls that run beside them *)
(* and the restarts that rebuild the registration from the log             *)
(* (pkg/extension/scheduler, pkg/scheduler/runner).                        *)
(*                                                                         *)
(* The schedule is an interval of one tick of `now' with the end condition *)
(* count=Count; a one-shot task is the case Count = 1.  A registration is  *)
(* an object with an identity: Register replaces the one under the name,   *)
(* and the fires of the old one go on.                                     *)
(***************************************************************************)
EXTENDS Naturals, Sequences, FiniteSets, SequencesExt

CONSTANTS
  Caller,      \* goroutines that call pause / resume / cancel (tool dispatcher, HTTP)
  Loader,      \* the goroutine that runs InitState of the owner session
  Calls,       \* the operations the callers use
  Count,       \* end condition: number of fires
  StuckCutoff, \* ticks after which ReapStuckTaskRuns closes a started fire
  MaxTime,     \* bound on the clock
  MaxRegs,     \* bound on registrations in one process
  MaxCalls,    \* bound on calls
  MaxCrashes   \* bound on process deaths

ASSUME BoundAssumption ==
  /\ {Count, MaxTime, MaxRegs} \subseteq Nat \ {0}
  /\ {StuckCutoff, MaxCalls, MaxCrashes} \subseteq Nat
ASSUME CallAssumption == /\ Calls \subseteq {"pause", "resume", "cancel"}
                         /\ Loader \notin Caller

Goroutine == Caller \cup {Loader}
RegId == 1 .. MaxRegs
FireSeq == 1 .. Count + 1 + MaxCalls
None == 0  \* no registration; the zero time

VARIABLES
  status,   \* tasks.status
  plan,     \* the newest `planned' row of task_log: its fire_seq and planned_at
  started,  \* number of `started' rows of each fire_seq
  terminal, \* terminal rows of each fire_seq, oldest first
  now,
  regs,     \* the registrations made by this process
  cur,      \* the one in Service.regs, or None
  snapshot, \* the one tickOnce has copied out of Service.regs, or None
  fire,     \* the fire of each registration (there is at most one)
  op,       \* what each goroutine is doing
  loaded,   \* bootstrappedSessions has the owner session
  reaping,  \* fires listed by ReapStuckTaskRuns and not closed yet
  calls, crashes

store == <<status, plan, started, terminal>>
memory == <<regs, cur, snapshot, fire, op, loaded, reaping>>
vars == <<status, plan, started, terminal, now, regs, cur, snapshot, fire, op, loaded,
          reaping, calls, crashes>>

NoReg == [paused |-> FALSE, next |-> None, inFlight |-> FALSE, fireCount |-> 0]
NoFire == [pc |-> "none", seq |-> 1, planned |-> 0, verdict |-> "skipped"]
NoOp == [pc |-> "idle", paused |-> FALSE, plan |-> [seq |-> 1, at |-> 1]]

\* callCreate has written the row and its first planned row (OpenTask) and
\* registered the task.
Init ==
  /\ status = "active"
  /\ plan = [seq |-> 1, at |-> 1]
  /\ started = [n \in FireSeq |-> 0]
  /\ terminal = [n \in FireSeq |-> <<>>]
  /\ now = 0
  /\ regs = [i \in RegId |-> IF i = 1 THEN [NoReg EXCEPT !.next = 1] ELSE NoReg]
  /\ cur = 1
  /\ snapshot = None
  /\ fire = [i \in RegId |-> NoFire]
  /\ op = [g \in Goroutine |-> NoOp]
  /\ loaded = TRUE
  /\ reaping = {}
  /\ calls = 0
  /\ crashes = 0

-----------------------------------------------------------------------------
(* registerTask and the calls of the user.                                 *)

At(g, pc) == op[g].pc = pc
Goto(g, pc) == op' = [op EXCEPT ![g].pc = pc]

\* LatestPlannedFire.
ReadPlan(g) ==
  /\ At(g, "plan")
  /\ op' = [op EXCEPT ![g].pc = "register", ![g].plan = plan]
  /\ UNCHANGED <<store, now, regs, cur, snapshot, fire, loaded, reaping, calls, crashes>>

(* Plausible bugs: the counter is seeded with the sequence number itself,  *)
(* or steps back once too often.                                           *)
SeedPlanned(n) == n
SeedBefore(n) == n - 2

\* WithInitialFireSeq(n): prepareFire increments before it uses the counter.
Seed(n) == n - 1

\* Runner.Register: the new registration replaces the one under the name.
Register(g) ==
  /\ At(g, "register")
  /\ \E i \in RegId :
       /\ regs[i] = NoReg /\ \A j \in 1 .. i - 1 : regs[j] # NoReg
       /\ regs' = [regs EXCEPT ![i] =
            [paused |-> op[g].paused, next |-> op[g].plan.at, inFlight |-> FALSE,
             fireCount |-> Seed(op[g].plan.seq)]]
       /\ cur' = i
  /\ Goto(g, "idle")
  /\ UNCHANGED <<store, now, snapshot, fire, loaded, reaping, calls, crashes>>

Called(g, what) ==
  /\ what \in Calls /\ g \in Caller /\ At(g, "idle")
  /\ calls < MaxCalls /\ calls' = calls + 1

Paused(i) == IF i = None THEN regs ELSE [regs EXCEPT ![i].paused = TRUE]

\* callPause: the row first, the registration second.
PauseCall(g) ==
  /\ Called(g, "pause")
  /\ status' = "paused"
  /\ Goto(g, "pause")
  /\ UNCHANGED <<plan, started, terminal, now, regs, cur, snapshot, fire, loaded, reaping, crashes>>

PauseRunner(g) ==
  /\ At(g, "pause")
  /\ regs' = Paused(cur)
  /\ Goto(g, "idle")
  /\ UNCHANGED <<store, now, cur, snapshot, fire, loaded, reaping, calls, crashes>>

\* callCancel: the row first, the registration second.
CancelCall(g) ==
  /\ Called(g, "cancel")
  /\ status' = "cancelled"
  /\ Goto(g, "unregister")
  /\ UNCHANGED <<plan, started, terminal, now, regs, cur, snapshot, fire, loaded, reaping, crashes>>

Unregister(g) ==
  /\ At(g, "unregister")
  /\ cur' = None
  /\ Goto(g, "idle")
  /\ UNCHANGED <<store, now, regs, snapshot, fire, loaded, reaping, calls, crashes>>

\* callResume: the row is read and must not be cancelled ...
ResumeCall(g) ==
  /\ Called(g, "resume")
  /\ status # "cancelled"
  /\ Goto(g, "resume")
  /\ UNCHANGED <<store, now, regs, cur, snapshot, fire, loaded, reaping, crashes>>

\* ... then it is set active, and the task registered afresh.
ResumeRow(g) ==
  /\ At(g, "resume")
  /\ status' = "active"
  /\ op' = [op EXCEPT ![g].pc = "plan", ![g].paused = FALSE]
  /\ UNCHANGED <<plan, started, terminal, now, regs, cur, snapshot, fire, loaded, reaping, calls,
                 crashes>>

\* The first InitState of the owner session in this process.
LoadOnce == ~loaded

\* InitState: the rows are listed; the ones not cancelled are registered,
\* paused if the row says so.
LoadTasks ==
  /\ At(Loader, "idle")
  /\ LoadOnce
  /\ loaded' = TRUE
  /\ op' = [op EXCEPT ![Loader].pc = IF status = "cancelled" THEN "idle" ELSE "plan",
                      ![Loader].paused = (status = "paused")]
  /\ UNCHANGED <<store, now, regs, cur, snapshot, fire, reaping, calls, crashes>>

-----------------------------------------------------------------------------
(* The Runner: tickOnce.                                                   *)

TickSnapshot ==
  /\ snapshot = None /\ cur # None
  /\ snapshot' = cur
  /\ UNCHANGED <<store, now, regs, cur, fire, op, loaded, reaping, calls, crashes>>

\* shouldFire, rechecked by prepareFire under the lock of the registration.
ShouldFire(r) == ~r.paused /\ ~r.inFlight /\ r.next # None /\ r.next <= now

\* prepareFire advances nextFireAt by the schedule, which is Manual: never.
TickFire ==
  /\ snapshot # None
  /\ LET r == regs[snapshot] IN
       IF ShouldFire(r)
       THEN /\ regs' = [regs EXCEPT ![snapshot].inFlight = TRUE, ![snapshot].next = None,
                                    ![snapshot].fireCount = @ + 1]
            /\ fire' = [fire EXCEPT ![snapshot] =
                 [NoFire EXCEPT !.pc = "check", !.seq = r.fireCount + 1, !.planned = r.next]]
       ELSE UNCHANGED <<regs, fire>>
  /\ snapshot' = None
  /\ UNCHANGED <<store, now, cur, op, loaded, reaping, calls, crashes>>

-----------------------------------------------------------------------------
(* A fire (dispatchSpawnFire; dispatchWakeFire has the same steps).        *)

Step(i, pc) == fire' = [fire EXCEPT ![i].pc = pc]

\* The function has returned: recordOutcome, markIdle.
Return(i) ==
  /\ fire' = [fire EXCEPT ![i] = NoFire]

(* A plausible bug: a refused fire is passed over and the next one planned. *)
PassOver(i) ==
  /\ fire[i].pc = "check"
  /\ Step(i, "next")
  /\ UNCHANGED <<store, now, regs, cur, snapshot, op, loaded, reaping, calls, crashes>>

\* The owner is gone or the skill has drifted: park the task without a run.
RefuseFire(i) ==
  /\ fire[i].pc = "check"
  /\ fire' = [fire EXCEPT ![i].pc = "park", ![i].verdict = "skipped"]
  /\ UNCHANGED <<store, now, regs, cur, snapshot, op, loaded, reaping, calls, crashes>>

StartFire(i) ==
  /\ fire[i].pc = "check"
  /\ started' = [started EXCEPT ![fire[i].seq] = @ + 1]
  /\ Step(i, "run")
  /\ UNCHANGED <<status, plan, terminal, now, regs, cur, snapshot, op, loaded, reaping, calls,
                 crashes>>

\* The inputs do not render, or the skill is gone by now: every later fire
\* would fail too.
ParkFire(i) ==
  /\ fire[i].pc = "run"
  /\ \E verdict \in {"failed", "skipped"} :
       fire' = [fire EXCEPT ![i].pc = "park", ![i].verdict = verdict]
  /\ UNCHANGED <<store, now, regs, cur, snapshot, op, loaded, reaping, calls, crashes>>

\* pauseTaskLogged, whatever the row says by now ...
ParkRow(i) ==
  /\ fire[i].pc = "park"
  /\ status' = "paused"
  /\ Step(i, "parkRunner")
  /\ UNCHANGED <<plan, started, terminal, now, regs, cur, snapshot, op, loaded, reaping, calls,
                 crashes>>

\* ... then pauseFn ...
ParkRunner(i) ==
  /\ fire[i].pc = "parkRunner"
  /\ regs' = Paused(cur)
  /\ Step(i, "parked")
  /\ UNCHANGED <<store, now, cur, snapshot, op, loaded, reaping, calls, crashes>>

TerminalRow(n, event) == terminal' = [terminal EXCEPT ![n] = Append(@, event)]

\* ... then the terminal row.
ParkedRow(i) ==
  /\ fire[i].pc = "parked"
  /\ TerminalRow(fire[i].seq, fire[i].verdict)
  /\ Return(i)
  /\ regs' = [regs EXCEPT ![i].inFlight = FALSE]
  /\ UNCHANGED <<status, plan, started, now, cur, snapshot, op, loaded, reaping, calls, crashes>>

(* A plausible bug: only a completed fire plans the next one.              *)
AfterSuccess(verdict) == IF verdict = "completed" THEN "next" ELSE "stop"

\* A failed or timed-out fire advances the schedule like a completed one.
AfterRun(verdict) == "next"

\* RunRecipe has returned, or its context has ended.
RunEnds(i) ==
  /\ fire[i].pc = "run"
  /\ \E verdict \in {"completed", "failed"} :
       /\ TerminalRow(fire[i].seq, verdict)
       /\ Step(i, AfterRun(verdict))
  /\ UNCHANGED <<status, plan, started, now, regs, cur, snapshot, op, loaded, reaping, calls,
                 crashes>>

\* shouldEndAfter with end condition count.
EndReached(n) == n >= Count

\* maybeScheduleNext: the last fire cancels the task ...
EndTask(i) ==
  /\ fire[i].pc = "next"
  /\ EndReached(fire[i].seq)
  /\ status' = "cancelled"
  /\ Return(i)
  /\ regs' = [regs EXCEPT ![i].inFlight = FALSE]
  /\ UNCHANGED <<plan, started, terminal, now, cur, snapshot, op, loaded, reaping, calls, crashes>>

\* ... another one writes the next planned row, one interval after its own
\* (LatestPlannedFire takes the row with the highest fire_seq, then the newest) ...
PlanNext(i) ==
  /\ fire[i].pc = "next"
  /\ ~EndReached(fire[i].seq)
  /\ plan' = IF fire[i].seq + 1 >= plan.seq
             THEN [seq |-> fire[i].seq + 1, at |-> fire[i].planned + 1] ELSE plan
  /\ Step(i, "arm")
  /\ UNCHANGED <<status, started, terminal, now, regs, cur, snapshot, op, loaded, reaping, calls,
                 crashes>>

\* ... and re-arms whatever registration has the name now.
Reschedule(i) ==
  /\ fire[i].pc = "arm"
  /\ regs' = [j \in RegId |->
       [regs[j] EXCEPT !.next = IF j = cur THEN fire[i].planned + 1 ELSE @,
                       !.inFlight = IF j = i THEN FALSE ELSE @]]
  /\ Return(i)
  /\ UNCHANGED <<store, now, cur, snapshot, op, loaded, reaping, calls, crashes>>

-----------------------------------------------------------------------------
(* The reaper of stuck fires and the environment.                          *)

\* ListInFlightFires: started, no terminal row, planned before the cutoff.
ListStuck ==
  /\ reaping = {}
  /\ reaping' = {n \in FireSeq : started[n] > 0 /\ terminal[n] = <<>> /\ n + StuckCutoff < now}
  /\ reaping' # {}
  /\ UNCHANGED <<store, now, regs, cur, snapshot, fire, op, loaded, calls, crashes>>

ReapStuck(n) ==
  /\ n \in reaping
  /\ TerminalRow(n, "cancelled")
  /\ reaping' = reaping \ {n}
  /\ UNCHANGED <<status, plan, started, now, regs, cur, snapshot, fire, op, loaded, calls, crashes>>

Advance ==
  /\ now < MaxTime
  /\ now' = now + 1
  /\ UNCHANGED <<store, memory, calls, crashes>>

\* The process dies; the next one starts with an empty Runner.
Crash ==
  /\ crashes < MaxCrashes
  /\ crashes' = crashes + 1
  /\ regs' = [i \in RegId |-> NoReg]
  /\ cur' = None
  /\ snapshot' = None
  /\ fire' = [i \in RegId |-> NoFire]
  /\ op' = [g \in Goroutine |-> NoOp]
  /\ loaded' = FALSE
  /\ reaping' = {}
  /\ UNCHANGED <<store, now, calls>>

Call(g) == PauseCall(g) \/ CancelCall(g) \/ ResumeCall(g)

Continue(g) ==
  PauseRunner(g) \/ Unregister(g) \/ ResumeRow(g) \/ ReadPlan(g) \/ Register(g)

FireStep(i) ==
  \/ RefuseFire(i) \/ StartFire(i) \/ ParkFire(i) \/ ParkRow(i) \/ ParkRunner(i)
  \/ ParkedRow(i) \/ RunEnds(i) \/ EndTask(i) \/ PlanNext(i) \/ Reschedule(i)

Next ==
  \/ \E g \in Goroutine : Call(g) \/ Continue(g)
  \/ LoadTasks
  \/ TickSnapshot \/ TickFire
  \/ \E i \in RegId : FireStep(i)
  \/ ListStuck \/ \E n \in FireSeq : ReapStuck(n)
  \/ Advance
  \/ Crash

Spec == Init /\ [][Next]_vars

\* Goroutines run, time passes, a fire ends (its context has a timeout), and
\* the owner session is opened again after a restart.
FairSpec ==
  /\ Spec
  /\ WF_vars(LoadTasks) /\ \A g \in Goroutine : WF_vars(Continue(g))
  /\ WF_vars(TickSnapshot) /\ WF_vars(TickFire)
  /\ \A i \in RegId : WF_vars(FireStep(i))
  /\ WF_vars(Advance)

-----------------------------------------------------------------------------
(* Properties.                                                             *)

\* What is planned, in the log and in the hands of a call, is within the end condition.
TypeOK ==
  /\ status \in {"active", "paused", "cancelled"}
  /\ plan \in [seq : 1 .. Count, at : Nat]
  /\ started \in [FireSeq -> Nat]
  /\ terminal \in [FireSeq -> Seq({"completed", "failed", "skipped", "cancelled"})]
  /\ now \in 0 .. MaxTime
  /\ regs \in [RegId -> [paused : BOOLEAN, next : Nat, inFlight : BOOLEAN, fireCount : Nat]]
  /\ {cur, snapshot} \subseteq RegId \cup {None}
  /\ fire \in [RegId -> [pc : {"none", "check", "run", "next", "arm", "park", "parkRunner",
                               "parked", "stop"},
                         seq : Nat, planned : Nat, verdict : {"completed", "failed", "skipped"}]]
  /\ op \in [Goroutine -> [pc : {"idle", "pause", "unregister", "resume", "plan", "register"},
                           paused : BOOLEAN, plan : [seq : 1 .. Count, at : Nat]]]
  /\ loaded \in BOOLEAN
  /\ reaping \subseteq FireSeq
  /\ calls \in 0 .. MaxCalls
  /\ crashes \in 0 .. MaxCrashes

InFlight == {i \in RegId : fire[i].pc # "none"}

\* The armed registration and the durable plan are the same promise: the next
\* fire gets the instant and the number of the newest planned row, so that a
\* restart at any moment neither skips a number nor moves an instant.
ArmedFromPlan ==
  cur # None /\ regs[cur].next # None =>
    regs[cur].next = plan.at /\ regs[cur].fireCount + 1 = plan.seq

\* A fire has left a terminal row of its own (the reaper writes "cancelled").
Recorded(n) == ToSet(terminal[n]) \ {"cancelled"} # {}

\* Neither the durable plan nor a run is ahead of the log: a number is planned,
\* and a fire with it starts, only when every lower number has a terminal row
\* of its own, whatever calls re-register the task in the middle of a fire.
PlanFollowsLog ==
  \A n \in FireSeq :
    n < plan.seq \/ (\E m \in FireSeq : m > n /\ started[m] > 0) => Recorded(n)

\* Without resume calls, across restarts too: two fires of one task never run at
\* the same time (buildFireFn relies on the Runner for it), a fire starts only
\* when the one before it has run and recorded how it ended (a refused or
\* unfinished one keeps its number for the next attempt), and no fire has a
\* number above the end condition.
FiresOneByOne ==
  /\ Cardinality(InFlight) <= 1
  /\ \A n \in FireSeq :
       started[n] > 0 =>
         /\ n <= Count
         /\ n > 1 => ToSet(terminal[n - 1]) \cap {"completed", "failed"} # {}

\* An active task does not stall: its fires, the failed ones included, lead to
\* the end condition unless it is paused or cancelled before.
TaskEnds == status = "active" ~> status # "active"

=============================================================================
