---------------------------- MODULE SessionTree ----------------------------
(***************************************************************************)
(* The life of a tree of sessions (pkg/session).  Every session is a Run   *)
(* goroutine with an inbox (s.in), an outbox (s.out) and a set of live     *)
(* children; for every child the parent runs a pump goroutine that reads   *)
(* the child's outbox and projects at most one SubagentResult back into    *)
(* the parent's inbox.  The result makes the parent close the child, wait  *)
(* for its goroutine and deregister it; an explicit SessionClose tears a   *)
(* whole subtree down, each session waiting for its children; a process    *)
(* shutdown cancels every context and writes nothing.                      *)
(*                                                                         *)
(* A turn is abstracted to whether it is in flight (module WaitSubagents   *)
(* has the detail of the tool that waits for children).  Submit hands a frame  *)
(* to a goroutine of its own, so frames of one inbox have no order: ctl    *)
(* and results are sets.                                                   *)
(***************************************************************************)
EXTENDS Naturals

CONSTANTS
  Session,    \* every session the tree may ever hold
  Root,       \* the root session
  ParentOf,   \* the session that spawns each other session
  Driven,     \* children spawned by a goroutine of an extension (the mission
              \* driver, a cron fire) instead of a tool call of a turn
  Inputs,     \* what the outside may do: a subset of OutsideInputs
  None

(* /cancel and RequestChildCancel; Manager.Terminate; the cancelled root   *)
(* context; the hard ceiling of a turn.                                    *)
OutsideInputs == {"cancel", "terminate", "shutdown", "ceiling"}

ASSUME TreeAssumption ==
  /\ Root \in Session
  /\ ParentOf \in [Session \ {Root} -> Session]
  /\ Driven \subseteq Session \ {Root}
  /\ Inputs \subseteq OutsideInputs
  /\ None \notin Session

Child == Session \ {Root}
ChildrenOf(s) == {c \in Child : ParentOf[c] = s}

(* Where the Run goroutine of a session is.                                *)
(*   unborn  not constructed          made   registered, not started       *)
(*   run     at the select of Run     join   in handleSubagentResult        *)
(*   stop    teardown, turn stopping  drain  in drainOnTeardown             *)
(*   exit    in handleExit            closed terminal row and frame sent    *)
(*   done    s.out and s.done closed                                       *)
Phase == {"unborn", "made", "run", "join", "stop", "drain", "exit", "closed", "done"}

(* turnState: absent, in flight, or in flight under a cancelled turnCtx.   *)
Turn == {"none", "busy", "cancelled"}

VARIABLES
  phase,      \* Phase of each session
  turn,       \* turnState and turnCtx
  children,   \* s.children
  joining,    \* the child whose Done handleSubagentResult waits for
  ctl,        \* control frames submitted and not yet routed
  results,    \* children whose SubagentResult is submitted and not yet routed
  pending,    \* children whose SubagentResult is in s.pendingInbound
  closing,    \* s.closing
  explicit,   \* s.closeReason # ""
  outbox,     \* s.out of each child holds a frame its pump projects: a final
              \* message, an error, session_terminated (the pump drains the rest)
  pump,       \* the parent's pump goroutine of each child
  projected,  \* childPumpState.projected
  driver,     \* an extension goroutine that spawns on this session is live
  terminated, \* session_terminated rows in the log of each session
  logged,     \* subagent_result rows for each child in its parent's log
  shutdown    \* the root context is cancelled

runVars  == <<phase, turn, joining, closing, explicit>>
mailVars == <<children, ctl, results, pending>>
pumpVars == <<outbox, pump, projected>>
logVars  == <<terminated, logged>>
vars == <<runVars, mailVars, pumpVars, logVars, driver, shutdown>>

Init ==
  /\ phase = [s \in Session |-> IF s = Root THEN "run" ELSE "unborn"]
  /\ turn = [s \in Session |-> "none"]
  /\ children = [s \in Session |-> {}]
  /\ joining = [s \in Session |-> None]
  /\ ctl = [s \in Session |-> {}]
  /\ results = [s \in Session |-> {}]
  /\ pending = [s \in Session |-> {}]
  /\ closing = [s \in Session |-> FALSE]
  /\ explicit = [s \in Session |-> FALSE]
  /\ outbox = [c \in Session |-> FALSE]
  /\ pump = [c \in Session |-> "none"]
  /\ projected = [c \in Session |-> FALSE]
  /\ driver = [s \in Session |-> ChildrenOf(s) \cap Driven # {}]
  /\ terminated = [s \in Session |-> 0]
  /\ logged = [c \in Session |-> 0]
  /\ shutdown = FALSE

-----------------------------------------------------------------------------
(* The goroutine of s has been started and has not returned.               *)
Alive(s) == phase[s] \notin {"unborn", "made", "done"}

(* s.IsClosed(): handleExit sets the flag, a graceful teardown does not.   *)
IsClosed(s) == phase[s] \in {"closed", "done"} /\ explicit[s]

(* What a teardown that waited for less would wait for: the registered     *)
(* children, the Run goroutines, the goroutines still at their select.     *)
RegisteredGoroutines(s) == children[s]
UnpumpedGoroutines(s) == {c \in ChildrenOf(s) : Alive(c)}
LoopGoroutines(s) == {c \in ChildrenOf(s) : phase[c] \in {"made", "run", "join"}}

(* s.childWG: child.Start counts the Run goroutine, Spawn counts the pump. *)
ChildGoroutines(s) == {c \in ChildrenOf(s) : Alive(c) \/ pump[c] = "running"}

(* The dispatcher of s is inside Spawn, so turnWG is not yet released.     *)
SpawnInTurn(s) == \E c \in ChildrenOf(s) \ Driven : phase[c] = "made"

(* A frame submitted to a session that is done is dropped by Submit.       *)
Submitted(box, s, f) ==
  IF phase[s] = "done" THEN box ELSE [box EXCEPT ![s] = @ \cup {f}]

(* A cascade that missed the sessions in the middle of something.          *)
SignalledAtSelect(box, C, f) ==
  [s \in Session |-> IF s \in C /\ phase[s] = "run" THEN box[s] \cup {f} ELSE box[s]]

(* Submit of a control frame to each of C; nothing routes it once the Run  *)
(* loop has left its select for the last time.                             *)
Signalled(box, C, f) ==
  [s \in Session |-> IF s \in C /\ phase[s] \in {"made", "run", "join"}
                     THEN box[s] \cup {f} ELSE box[s]]

(* Send to s.out a frame that the pump of s projects.  The send waits for  *)
(* room, which the pump always makes, unless the context is done.  Nobody  *)
(* in the model reads the outbox of the root.                              *)
EmitOut(s) ==
  \/ outbox' = [outbox EXCEPT ![s] = s # Root /\ phase[s] # "done"]
  \/ shutdown /\ UNCHANGED outbox

(* The subagent_result rows after s has persisted those of set C.  With a  *)
(* cancelled context the store may refuse any of them.                     *)
Persisted(C) ==
  {[c \in Session |-> IF c \in K THEN logged[c] + 1 ELSE logged[c]] :
     K \in IF shutdown THEN SUBSET C ELSE {C}}

-----------------------------------------------------------------------------
(* Spawn up to the registration in parent.children.  Inside a turn it is   *)
(* the dispatcher that runs it; nothing in Spawn looks at s.closing.       *)
SpawnRegister(p, c) ==
  /\ c \in ChildrenOf(p)
  /\ phase[c] = "unborn"
  /\ IF c \in Driven
     THEN driver[p] /\ phase[p] \notin {"unborn", "made"}
     ELSE turn[p] # "none" /\ ~SpawnInTurn(p) /\ phase[p] \in {"run", "join", "stop"}
  /\ phase' = [phase EXCEPT ![c] = "made"]
  /\ children' = [children EXCEPT ![p] = @ \cup {c}]
  /\ UNCHANGED <<turn, joining, closing, explicit, ctl, results, pending,
                 pumpVars, logVars, driver, shutdown>>

(* Spawn from child.Start on: the child's goroutine and its pump run.      *)
SpawnStart(c) ==
  /\ phase[c] = "made"
  /\ phase' = [phase EXCEPT ![c] = "run"]
  /\ pump' = [pump EXCEPT ![c] = "running"]
  /\ UNCHANGED <<turn, joining, closing, explicit, mailVars, outbox, projected,
                 logVars, driver, shutdown>>

-----------------------------------------------------------------------------
(* A UserMessage starts a turn; a closing session refuses it.              *)
StartTurn(s) ==
  /\ phase[s] = "run" /\ turn[s] = "none" /\ ~closing[s]
  /\ turn' = [turn EXCEPT ![s] = "busy"]
  /\ UNCHANGED <<phase, joining, closing, explicit, mailVars, pumpVars, logVars,
                 driver, shutdown>>

(* requestClose: the first call wins; a sub-agent submits SessionClose to  *)
(* itself, the root asks the Manager, which submits it.                    *)
RequestClose(s) ==
  /\ closing' = [closing EXCEPT ![s] = TRUE]
  /\ ctl' = IF closing[s] THEN ctl ELSE Signalled(ctl, {s}, "close")

(* foldAssistantAndMaybeDispatch without tool calls: the consolidated      *)
(* final message (none when the model keeps producing nothing), the drain  *)
(* of pendingInbound, retireTurn, and the termination of a role that is    *)
(* out of its context budget.                                              *)
FinishTurn(s) ==
  /\ phase[s] = "run" /\ turn[s] = "busy" /\ ~SpawnInTurn(s)
  /\ EmitOut(s) \/ UNCHANGED outbox
  /\ logged' \in Persisted(pending[s])
  /\ pending' = [pending EXCEPT ![s] = {}]
  /\ turn' = [turn EXCEPT ![s] = "none"]
  /\ \/ UNCHANGED <<closing, ctl>>
     \/ s # Root /\ RequestClose(s)
  /\ UNCHANGED <<phase, joining, explicit, children, results, pump, projected,
                 terminated, driver, shutdown>>

(* The stream_error branch of advanceOrFinish: pendingInbound stays.       *)
FailTurn(s) ==
  /\ phase[s] = "run" /\ turn[s] = "busy" /\ ~SpawnInTurn(s)
  /\ EmitOut(s)
  /\ turn' = [turn EXCEPT ![s] = "none"]
  /\ UNCHANGED <<phase, joining, closing, explicit, mailVars, pump, projected,
                 logVars, driver, shutdown>>

(* The hard-ceiling branch of advanceOrFinish.                             *)
HardCeiling(s) ==
  /\ "ceiling" \in Inputs
  /\ phase[s] = "run" /\ turn[s] = "busy" /\ ~SpawnInTurn(s)
  /\ RequestClose(s)
  /\ turn' = [turn EXCEPT ![s] = "none"]
  /\ UNCHANGED <<phase, joining, explicit, children, results, pending, pumpVars,
                 logVars, driver, shutdown>>

(* The driver of a mission gives a worker a time budget and cancels the    *)
(* one that overruns it (waitForWorkers, cancelTimedOutWorker).            *)
DriverCancel(c) ==
  /\ c \in Driven /\ driver[ParentOf[c]]
  /\ c \in children[ParentOf[c]] /\ ~projected[c] /\ ~IsClosed(c)
  /\ ctl' = Signalled(ctl, {c}, "cancel")
  /\ UNCHANGED <<runVars, children, results, pending, pumpVars, logVars, driver,
                 shutdown>>

(* finishMission, once every worker has answered or was cancelled: the     *)
(* driver publishes the mission's final message on the mission session and *)
(* returns; emit refuses a closed session.                                 *)
DriverFinish(s) ==
  /\ driver[s] /\ phase[s] # "unborn"
  /\ \A c \in ChildrenOf(s) \cap Driven :
       phase[c] \in {"made", "run", "join"} => projected[c] \/ ctl[c] # {}
  /\ IF IsClosed(s) THEN UNCHANGED outbox ELSE EmitOut(s)
  /\ driver' = [driver EXCEPT ![s] = FALSE]
  /\ UNCHANGED <<runVars, mailVars, pump, projected, logVars, shutdown>>

-----------------------------------------------------------------------------
(* Manager.Terminate of the root.                                          *)
Terminate ==
  /\ "terminate" \in Inputs
  /\ ctl' = Signalled(ctl, {Root}, "close")
  /\ UNCHANGED <<runVars, children, results, pending, pumpVars, logVars, driver,
                 shutdown>>

(* A Cancel frame with Cascade: /cancel all on the root, or                *)
(* RequestChildCancel on a registered child.                               *)
RequestCancel(s) ==
  /\ "cancel" \in Inputs
  /\ ~IsClosed(s)
  /\ s # Root => s \in children[ParentOf[s]]
  /\ ctl' = Signalled(ctl, {s}, "cancel")
  /\ UNCHANGED <<runVars, children, results, pending, pumpVars, logVars, driver,
                 shutdown>>

(* handleCancel: cancel turnCtx and send SessionClose to every child that  *)
(* is not closed.  RequestChildCancel follows its Cancel with a            *)
(* SessionClose as soon as the Cancel has settled.                         *)
RouteCancel(s) ==
  /\ phase[s] = "run" /\ "cancel" \in ctl[s]
  /\ turn' = [turn EXCEPT ![s] = IF @ = "none" THEN @ ELSE "cancelled"]
  /\ ctl' = Signalled([ctl EXCEPT ![s] = @ \ {"cancel"}],
                      children[s] \cup ({s} \ {Root}), "close")
  /\ UNCHANGED <<phase, joining, closing, explicit, children, results, pending,
                 pumpVars, logVars, driver, shutdown>>

(* The cancelled branch of advanceOrFinish, once the goroutines of the     *)
(* turn have gone: pendingInbound stays.                                   *)
RetireCancelled(s) ==
  /\ phase[s] = "run" /\ turn[s] = "cancelled" /\ ~SpawnInTurn(s)
  /\ turn' = [turn EXCEPT ![s] = "none"]
  /\ UNCHANGED <<phase, joining, closing, explicit, mailVars, pumpVars, logVars,
                 driver, shutdown>>

(* routeInbound of a SessionClose: errSessionCloseSignal ends the loop.    *)
RouteSessionClose(s) ==
  /\ phase[s] = "run" /\ "close" \in ctl[s]
  /\ ctl' = [ctl EXCEPT ![s] = {}]
  /\ closing' = [closing EXCEPT ![s] = TRUE]
  /\ explicit' = [explicit EXCEPT ![s] = TRUE]
  /\ phase' = [phase EXCEPT ![s] = "stop"]
  /\ UNCHANGED <<turn, joining, children, results, pending, pumpVars, logVars,
                 driver, shutdown>>

(* routeInbound of a SubagentResult up to the wait on child.Done(); with   *)
(* no such child registered the frame goes straight to RouteBuffered.      *)
RouteSubagentResult(s, c) ==
  /\ phase[s] = "run" /\ c \in results[s]
  /\ results' = [results EXCEPT ![s] = @ \ {c}]
  /\ IF c \in children[s]
     THEN /\ ctl' = Signalled(ctl, {c}, "close")
          /\ phase' = [phase EXCEPT ![s] = "join"]
          /\ joining' = [joining EXCEPT ![s] = c]
          /\ UNCHANGED <<pending, logged>>
     ELSE /\ IF turn[s] # "none"
             THEN pending' = [pending EXCEPT ![s] = @ \cup {c}] /\ UNCHANGED logged
             ELSE logged' \in Persisted({c}) /\ UNCHANGED pending
          /\ UNCHANGED <<ctl, phase, joining>>
  /\ UNCHANGED <<turn, closing, explicit, children, pumpVars, terminated, driver,
                 shutdown>>

(* A parent that did not wait for child.Done().                            *)
NotWaited(c) == phase[c] # "unborn"

(* child.Done() is closed.                                                 *)
Joined(c) == phase[c] = "done"

(* handleSubagentResult past child.Done(), or past the caller's cancelled  *)
(* context, which leaves the child registered; then RouteBuffered.         *)
HandleSubagentResult(s) ==
  LET c == joining[s]
  IN /\ phase[s] = "join"
     /\ \/ Joined(c) /\ children' = [children EXCEPT ![s] = @ \ {c}]
        \/ shutdown /\ UNCHANGED children
     /\ phase' = [phase EXCEPT ![s] = "run"]
     /\ joining' = [joining EXCEPT ![s] = None]
     /\ IF turn[s] # "none"
        THEN pending' = [pending EXCEPT ![s] = @ \cup {c}] /\ UNCHANGED logged
        ELSE logged' \in Persisted({c}) /\ UNCHANGED pending
     /\ UNCHANGED <<turn, closing, explicit, ctl, results, pumpVars, terminated,
                    driver, shutdown>>

(* wait_subagents takes a result from its feed instead, in the dispatcher: *)
(* it logs the row, or loses it when the wait ends first (WaitSubagents).  *)
WaitTakesResult(s, c) ==
  /\ turn[s] # "none" /\ phase[s] \in {"run", "join", "stop"}
  /\ ~SpawnInTurn(s) /\ c \in pending[s]
  /\ pending' = [pending EXCEPT ![s] = @ \ {c}]
  /\ logged' \in Persisted({c}) \cup {logged}
  /\ UNCHANGED <<runVars, children, ctl, results, pumpVars, terminated, driver,
                 shutdown>>

-----------------------------------------------------------------------------
(* A result under the wrong name, and one for every frame of the child.    *)
ProjectionOfParent(c) ==
  IF projected[c] \/ IsClosed(ParentOf[c]) THEN results
  ELSE Submitted(results, ParentOf[c], ParentOf[c])

ProjectionAgain(c) ==
  IF IsClosed(ParentOf[c]) THEN results ELSE Submitted(results, ParentOf[c], c)

(* projectToParent: dropped when the parent is closed, else submitted.     *)
Projection(c) ==
  IF projected[c] \/ IsClosed(ParentOf[c]) THEN results
  ELSE Submitted(results, ParentOf[c], c)

(* consumeChildOutbox: the first of the frames it projects is projected,   *)
(* everything else is drained.                                             *)
PumpFrame(c) ==
  /\ pump[c] = "running" /\ outbox[c]
  /\ outbox' = [outbox EXCEPT ![c] = FALSE]
  /\ results' = Projection(c)
  /\ projected' = [projected EXCEPT ![c] = TRUE]
  /\ UNCHANGED <<runVars, children, ctl, pending, pump, logVars, driver, shutdown>>

(* The outbox is closed and empty: projectAbnormalClose if nothing was     *)
(* projected, and the goroutine returns.                                   *)
PumpEnd(c) ==
  /\ pump[c] = "running" /\ ~outbox[c] /\ phase[c] = "done"
  /\ results' = Projection(c)
  /\ pump' = [pump EXCEPT ![c] = "exited"]
  /\ UNCHANGED <<runVars, children, ctl, pending, outbox, projected, logVars,
                 driver, shutdown>>

-----------------------------------------------------------------------------
(* teardown.  The context is cancelled: a session at its select, or one    *)
(* whose frame it has just routed, goes down without a reason.             *)
GracefulStop(s) ==
  /\ shutdown /\ phase[s] = "run"
  /\ phase' = [phase EXCEPT ![s] = "stop"]
  /\ UNCHANGED <<turn, joining, closing, explicit, mailVars, pumpVars, logVars,
                 driver, shutdown>>

(* Steps 0-1: cancel the turn, turnWG.Wait, and the cascade of an explicit *)
(* close to the children registered now.                                   *)
StopTurn(s) ==
  /\ phase[s] = "stop" /\ ~SpawnInTurn(s)
  /\ turn' = [turn EXCEPT ![s] = "none"]
  /\ ctl' = IF explicit[s] THEN Signalled(ctl, children[s], "close") ELSE [ctl EXCEPT ![s] = {}]
  /\ phase' = [phase EXCEPT ![s] = "drain"]
  /\ UNCHANGED <<joining, closing, explicit, children, results, pending, pumpVars,
                 logVars, driver, shutdown>>

(* drainOnTeardown: take a SubagentResult off the inbox.                   *)
DrainInbox(s, c) ==
  /\ phase[s] = "drain" /\ c \in results[s]
  /\ results' = [results EXCEPT ![s] = @ \ {c}]
  /\ pending' = [pending EXCEPT ![s] = @ \cup {c}]
  /\ UNCHANGED <<runVars, children, ctl, pumpVars, logVars, driver, shutdown>>

(* drainOnTeardown: childWG is released.  Frames whose Submit goroutine    *)
(* has not reached the channel by now are lost.  An explicit close then    *)
(* persists pendingInbound; a graceful one writes nothing.                 *)
DrainDone(s) ==
  /\ phase[s] = "drain" /\ ChildGoroutines(s) = {}
  /\ results' = [results EXCEPT ![s] = {}]
  /\ \E K \in SUBSET results[s] :
       IF explicit[s] THEN logged' \in Persisted(pending[s] \cup K)
                      ELSE UNCHANGED logged
  /\ pending' = [pending EXCEPT ![s] = {}]
  /\ phase' = [phase EXCEPT ![s] = IF explicit[s] THEN "exit" ELSE "closed"]
  /\ UNCHANGED <<turn, joining, closing, explicit, children, ctl, pumpVars,
                 terminated, driver, shutdown>>

(* handleExit: the session_terminated row, the terminal frame onto the     *)
(* outbox, s.closed.                                                       *)
ExitWrite(s) ==
  /\ phase[s] = "exit"
  /\ \/ terminated' = [terminated EXCEPT ![s] = @ + 1]
     \/ shutdown /\ UNCHANGED terminated
  /\ EmitOut(s)
  /\ phase' = [phase EXCEPT ![s] = "closed"]
  /\ UNCHANGED <<turn, joining, closing, explicit, mailVars, pump, projected,
                 logged, driver, shutdown>>

(* Run returns: s.out and s.done are closed.                               *)
RunReturn(s) ==
  /\ phase[s] = "closed"
  /\ phase' = [phase EXCEPT ![s] = "done"]
  /\ UNCHANGED <<turn, joining, closing, explicit, mailVars, pumpVars, logVars,
                 driver, shutdown>>

(* Manager.Stop / SIGTERM: the root context is cancelled.                  *)
Shutdown ==
  /\ "shutdown" \in Inputs /\ ~shutdown
  /\ shutdown' = TRUE
  /\ UNCHANGED <<runVars, mailVars, pumpVars, logVars, driver>>

-----------------------------------------------------------------------------
RunLoop(s) ==
  \/ StartTurn(s) \/ FinishTurn(s) \/ FailTurn(s) \/ HardCeiling(s)
  \/ RouteCancel(s) \/ RetireCancelled(s)
  \/ RouteSessionClose(s)
  \/ \E c \in Session : RouteSubagentResult(s, c)
  \/ HandleSubagentResult(s)
  \/ \E c \in Session : WaitTakesResult(s, c)

Teardown(s) ==
  \/ GracefulStop(s) \/ StopTurn(s) \/ DrainDone(s)
  \/ \E c \in Session : DrainInbox(s, c)
  \/ ExitWrite(s) \/ RunReturn(s)

Next ==
  \/ \E s \in Session : RunLoop(s) \/ Teardown(s)
  \/ \E p, c \in Session : SpawnRegister(p, c)
  \/ \E c \in Child : SpawnStart(c) \/ PumpFrame(c) \/ PumpEnd(c) \/ DriverCancel(c)
  \/ \E s \in Session : DriverFinish(s) \/ RequestCancel(s)
  \/ Terminate
  \/ Shutdown

Spec == Init /\ [][Next]_vars

(* Every goroutine the Go scheduler can run does run: the Run loop when a  *)
(* SessionClose or a result waits for it, its teardown, the spawn in       *)
(* progress, the pumps, the time budget of a driver.  Users and models     *)
(* owe nothing.                                                            *)
Fairness ==
  /\ \A s \in Session :
       /\ WF_vars(RouteCancel(s)) /\ WF_vars(RouteSessionClose(s))
       /\ WF_vars(HandleSubagentResult(s))
       /\ WF_vars(\E c \in Session : RouteSubagentResult(s, c))
       /\ WF_vars(GracefulStop(s)) /\ WF_vars(StopTurn(s)) /\ WF_vars(DrainDone(s))
       /\ WF_vars(ExitWrite(s)) /\ WF_vars(RunReturn(s))
  /\ \A c \in Child :
       /\ WF_vars(SpawnStart(c)) /\ WF_vars(PumpFrame(c)) /\ WF_vars(PumpEnd(c))
       /\ WF_vars(DriverCancel(c))

FairSpec == Spec /\ Fairness

-----------------------------------------------------------------------------
(* The shape of every variable.                                            *)
TypeOK ==
  /\ phase \in [Session -> Phase]
  /\ turn \in [Session -> Turn]
  /\ children \in [Session -> SUBSET Child]
  /\ joining \in [Session -> Child \cup {None}]
  /\ ctl \in [Session -> SUBSET {"close", "cancel"}]
  /\ results \in [Session -> SUBSET Child]
  /\ pending \in [Session -> SUBSET Child]
  /\ closing \in [Session -> BOOLEAN]
  /\ explicit \in [Session -> BOOLEAN]
  /\ outbox \in [Session -> BOOLEAN]
  /\ pump \in [Session -> {"none", "running", "exited"}]
  /\ projected \in [Session -> BOOLEAN]
  /\ driver \in [Session -> BOOLEAN]
  /\ terminated \in [Session -> Nat]
  /\ logged \in [Session -> Nat]
  /\ shutdown \in BOOLEAN

(* A session leaves drainOnTeardown only when no goroutine under it is     *)
(* left: neither a child's Run loop, nor a child constructed and about to  *)
(* start, nor a pump that would still call into the extensions the         *)
(* teardown is closing (Session.teardown steps 2-3).                       *)
JoinBeforeExit ==
  \A s \in Session : phase[s] \in {"exit", "closed", "done"} =>
    \A c \in ChildrenOf(s) : phase[c] \in {"unborn", "done"} /\ pump[c] # "running"

(* However often a child reports (a final message, an error, its own       *)
(* termination, the close of its outbox), its parent's log gets at most    *)
(* one subagent_result for it (childPumpState.projected, pendingInbound    *)
(* drained exactly once).                                                  *)
ResultOnce == \A c \in Child : logged[c] <= 1

(* Unless the process is shutting down, a subagent_result in the parent's  *)
(* log means that the child has written its session_terminated row: the    *)
(* restart pass looks only at children without a result, so a child whose  *)
(* result came first would stay "active" for ever (settleDanglingSubagents *)
(* skips it).                                                              *)
ResultAfterTerminal ==
  ~shutdown => \A c \in Child : logged[c] > 0 => terminated[c] = 1

(* A child that was constructed and has not finished is in the map its     *)
(* parent cascades cancels and closes over, so no live child is out of     *)
(* reach of /cancel all or of the parent's teardown.                       *)
RegisteredUntilDone ==
  \A c \in Child :
    phase[c] \notin {"unborn", "done"} => c \in children[ParentOf[c]]

(* The tree as its users may think of it: TaskScope.  A session is open    *)
(* from its registration in the parent until it has left drainOnTeardown.  *)
ScopeStatus ==
  [s \in Session |-> CASE phase[s] = "unborn" -> "new"
                       [] phase[s] \in {"exit", "closed", "done"} -> "ended"
                       [] OTHER -> "open"]
ScopeJournal == {c \in Child : logged[c] > 0}

Scope == INSTANCE TaskScope WITH Task <- Session, Top <- Root, status <- ScopeStatus,
                                 journaled <- ScopeJournal, interrupted <- shutdown

(* The session tree implements TaskScope.                                  *)
ImplementsScope == Scope!Spec

(* A SessionClose that reaches a running session ends it, with everything  *)
(* below it: nobody in the tree waits for somebody who waits for him.      *)
CloseCompletes ==
  \A s \in Session :
    (phase[s] = "run" /\ "close" \in ctl[s]) ~> phase[s] = "done"

(* A cancelled root context ends every session and every pump, whoever was *)
(* waiting for whom at that moment (Manager.Stop waits for them all).      *)
ShutdownCompletes ==
  shutdown ~> \A s \in Session : phase[s] \in {"unborn", "done"} /\ pump[s] # "running"
=============================================================================
