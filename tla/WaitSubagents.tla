--------------------------- MODULE WaitSubagents ---------------------------
(***************************************************************************)
(* One session that waits for its sub-agents (pkg/session): its Run loop   *)
(* routes inbound frames, and the tool dispatcher of its turn, another     *)
(* goroutine, executes wait_subagents.  The tool looks at the live         *)
(* children, then at the log, then registers a feed; from then on the Run  *)
(* loop gives it the frames it consumes over a bounded channel.  Without a *)
(* feed a frame is buffered while a turn is in flight and logged at once   *)
(* when none is.  A child's result is a frame with the child's name; user  *)
(* messages (and the notes of a parent, routed the same way) interrupt the *)
(* wait and are buffered for the next turn boundary besides.               *)
(*                                                                         *)
(* The lifecycle status is kept in memory and, for a restart, as the       *)
(* newest session_status row.  Three goroutines mark it: the Run loop, the *)
(* dispatcher, and a scheduled task that spawns its worker on the session. *)
(***************************************************************************)
EXTENDS Naturals, Sequences, FiniteSets

CONSTANTS
  Child,    \* sub-agents the session may spawn
  Message,  \* user messages it may receive
  Async,    \* children whose result asks for a summary turn (AsyncNotify)
  Beside,   \* children that a scheduled task spawns, beside the session's turns
  None

Status == {"idle", "active", "wait_subagents"}

ASSUME WaitAssumption ==
  /\ Child \cap Message = {} /\ IsFiniteSet(Child)
  /\ Async \subseteq Child /\ Beside \subseteq Child
  /\ None \notin Child \cup Message \cup Status

Frame == Child \cup Message

(* The goroutines that mark the status: the Run loop, the tool dispatcher, *)
(* a task that spawns.                                                     *)
Marker == {"loop", "call", "task"}

VARIABLES
  turn,       \* turnState: none, the model or the tool dispatcher runs
  cancelled,  \* turnCtx is cancelled
  buffered,   \* s.pendingInbound
  armed,      \* s.pendingAsyncSummary
  state,      \* s.lifecycleState
  status,     \* the newest session_status row
  asked,      \* the status each goroutine has called markStatus with
  owed,       \* the row each has still to append for it
  children,   \* s.children
  loop,       \* the Run loop: at its select, inside a handler
  routing,    \* the frame the Run loop is handling
  inbox,      \* frames submitted and not yet routed, in no order
  sent,       \* frames ever submitted
  journal,    \* rows for each frame in the session's log
  tool,       \* where the dispatcher is in wait_subagents
  listed,     \* the live children the tool saw
  wanted,     \* pending of callWaitSubagents (before the scan: in.IDs)
  collected,  \* collected
  feed,       \* s.activeToolFeed is set
  feedCh,     \* its channel
  room        \* the capacity of the channel

turnVars == <<turn, cancelled>>
boxVars  == <<buffered, journal>>
toolVars == <<listed, wanted, collected>>
feedVars == <<feed, feedCh, room>>
treeVars == <<children, inbox, sent>>
markVars == <<state, status, asked, owed>>
loopVars == <<loop, routing>>
callVars == <<tool, toolVars>>
vars == <<turnVars, boxVars, armed, markVars, loopVars, treeVars, callVars, feedVars>>

(* The session has started the turn of its first message.                  *)
Init ==
  /\ turn = "model" /\ cancelled = FALSE
  /\ buffered = {} /\ armed = FALSE
  /\ state = "active" /\ status = "active"
  /\ asked = [g \in Marker |-> None] /\ owed = [g \in Marker |-> None]
  /\ children = {} /\ loop = "select" /\ routing = None
  /\ inbox = {} /\ sent = {}
  /\ journal = [f \in Frame |-> 0]
  /\ tool = "off" /\ listed = {} /\ wanted = {} /\ collected = {}
  /\ feed = FALSE /\ feedCh = <<>> /\ room = 0

-----------------------------------------------------------------------------
(* Logging that forgets the rows of the other frames.                      *)
LoggedAfresh(F) == [f \in F |-> 1]

(* The log after rows for the frames of F.                                 *)
Logged(F) == [f \in Frame |-> IF f \in F THEN journal[f] + 1 ELSE journal[f]]

(* drainPendingInbound: every buffered frame is logged, once.              *)
Drain == journal' = Logged(buffered) /\ buffered' = {}

(* Quiescence without a look at the buffer.                                *)
QuiescentTree(C, B) == C = {} /\ ~feed

(* isQuiescent, for a session left with no turn, children C and buffer B.  *)
Quiescent(C, B) == C = {} /\ B = {} /\ ~feed

Ask(g, s) == asked' = [asked EXCEPT ![g] = s]

(* The goroutine is in no markStatus.                                      *)
Settled(g) == asked[g] = None /\ owed[g] = None

(* markStatus up to the unlock: a status that is the current one already   *)
(* is not marked again.                                                    *)
Mark(g, s) ==
  IF state = s THEN UNCHANGED <<state, owed>>
  ELSE state' = s /\ owed' = [owed EXCEPT ![g] = s]

(* A goroutine that has called markStatus gets there.                      *)
MarkStatus(g) ==
  /\ asked[g] # None /\ Mark(g, asked[g]) /\ Ask(g, None)
  /\ UNCHANGED <<turnVars, boxVars, armed, status, loopVars, treeVars, callVars, feedVars>>

(* The emit of markStatus.  The dispatcher's goes through the context of   *)
(* its turn: once that is cancelled the store may refuse the row, and what *)
(* is in memory stays.                                                     *)
EmitStatus(g) ==
  /\ owed[g] # None
  /\ owed' = [owed EXCEPT ![g] = None]
  /\ \/ status' = owed[g]
     \/ g = "call" /\ cancelled /\ UNCHANGED status
  /\ UNCHANGED <<turnVars, boxVars, armed, state, asked, loopVars, treeVars, callVars, feedVars>>

(* The Run loop marks idle a session left with nothing in flight.          *)
MarkIdle(C, B) == IF Quiescent(C, B) THEN Ask("loop", "idle") ELSE UNCHANGED asked

(* A feed that passes on results only.                                     *)
FedResult(f) ==
  feedCh' = IF f \in Child /\ Len(feedCh) < room THEN Append(feedCh, f) ELSE feedCh

(* Feed: a non-blocking send, dropped when the channel is full.            *)
Fed(f) == feedCh' = IF Len(feedCh) < room THEN Append(feedCh, f) ELSE feedCh

(* The Run loop is at this point, with no markStatus under way.            *)
LoopAt(p) == loop = p /\ Settled("loop")

(* So is the dispatcher.                                                   *)
CallAt(p) == tool = p /\ Settled("call")

(* startTurn up to its markStatus.                                         *)
BeginTurn == loop' = "start" /\ armed' = FALSE /\ Ask("loop", "active")

-----------------------------------------------------------------------------
(* A message that the feed takes and nobody keeps.                         *)
FedOnly(m) == IF turn = "none" \/ feed THEN buffered ELSE buffered \cup {m}

(* A message of a session in a turn is buffered, fed or not.               *)
DualRouted(m) == IF turn = "none" THEN buffered ELSE buffered \cup {m}

(* routeInbound of a UserMessage, for a session that is not closing.       *)
RouteMessage(m) ==
  /\ LoopAt("select") /\ m \in inbox \cap Message
  /\ inbox' = inbox \ {m}
  /\ IF turn = "none" /\ ~feed
     THEN BeginTurn /\ routing' = m /\ UNCHANGED buffered
     ELSE buffered' = DualRouted(m) /\ UNCHANGED <<armed, asked, loopVars>>
  /\ IF feed THEN Fed(m) ELSE UNCHANGED feedCh
  /\ UNCHANGED <<turnVars, journal, state, status, owed, children, sent, callVars, feed, room>>

(* The rest of startTurn: the message is logged (a synthetic prompt is no  *)
(* message here) and the model runs.                                       *)
LaunchTurn ==
  /\ LoopAt("start")
  /\ turn' = "model" /\ journal' = Logged({routing} \ {None})
  /\ loop' = "select" /\ routing' = None
  /\ UNCHANGED <<cancelled, buffered, armed, markVars, treeVars, callVars, feedVars>>

(* handleSubagentResult: the child is closed, joined and deregistered.     *)
JoinChild(c) ==
  /\ LoopAt("select") /\ c \in inbox \cap Child
  /\ inbox' = inbox \ {c}
  /\ children' = children \ {c}
  /\ loop' = "deliver" /\ routing' = c
  /\ IF turn = "none" THEN MarkIdle(children', buffered) ELSE UNCHANGED asked
  /\ UNCHANGED <<turnVars, boxVars, armed, state, status, owed, sent, callVars, feedVars>>

(* The rest of routeInbound of the result: the feed, or the buffer, or the *)
(* log and the summary turn it asks for.                                   *)
DeliverResult ==
  LET c == routing
      arms == armed \/ c \in Async
  IN /\ LoopAt("deliver")
     /\ routing' = None
     /\ \/ feed /\ Fed(c) /\ loop' = "select" /\ UNCHANGED <<boxVars, armed, asked>>
        \/ /\ ~feed /\ turn # "none"
           /\ buffered' = buffered \cup {c} /\ armed' = arms /\ loop' = "select"
           /\ UNCHANGED <<journal, asked, feedCh>>
        \/ /\ ~feed /\ turn = "none"
           /\ journal' = Logged({c})
           /\ IF arms THEN BeginTurn ELSE loop' = "select" /\ UNCHANGED <<armed, asked>>
           /\ UNCHANGED <<buffered, feedCh>>
     /\ UNCHANGED <<turnVars, state, status, owed, treeVars, callVars, feed, room>>

(* The model asks for tools: foldAssistantAndMaybeDispatch starts the      *)
(* dispatcher.                                                             *)
CallTools ==
  /\ LoopAt("select") /\ turn = "model" /\ ~cancelled
  /\ turn' = "tools" /\ tool' = "ask"
  /\ UNCHANGED <<cancelled, boxVars, armed, markVars, loopVars, treeVars, toolVars, feedVars>>

(* The dispatcher has returned: advanceOrFinish drains pendingInbound and  *)
(* starts the next model iteration.                                        *)
NextIteration ==
  /\ LoopAt("select") /\ turn = "tools" /\ CallAt("exited") /\ ~cancelled
  /\ turn' = "model" /\ tool' = "off"
  /\ Drain
  /\ UNCHANGED <<cancelled, armed, markVars, loopVars, treeVars, toolVars, feedVars>>

(* The model answers without tool calls: drain, retire, idle when nothing  *)
(* is left.                                                                *)
FinishTurn ==
  /\ LoopAt("select") /\ turn = "model" /\ ~cancelled
  /\ Drain
  /\ turn' = "none" /\ loop' = "kick"
  /\ MarkIdle(children, {})
  /\ UNCHANGED <<cancelled, armed, state, status, owed, routing, treeVars, callVars, feedVars>>

(* kickAsyncSummaryTurn, if a result has asked for it.                     *)
KickSummary ==
  /\ LoopAt("kick")
  /\ IF armed THEN BeginTurn ELSE loop' = "select" /\ UNCHANGED <<armed, asked>>
  /\ UNCHANGED <<turnVars, boxVars, state, status, owed, routing, treeVars, callVars, feedVars>>

(* The turn ends without an answer: a stream error, or turnCtx cancelled   *)
(* and the goroutines of the turn gone.  Neither drains pendingInbound.    *)
AbandonTurn ==
  /\ LoopAt("select")
  /\ \/ turn = "model"
     \/ turn = "tools" /\ CallAt("exited") /\ cancelled
  /\ turn' = "none" /\ cancelled' = FALSE /\ tool' = "off"
  /\ MarkIdle(children, buffered)
  /\ UNCHANGED <<boxVars, armed, state, status, owed, loopVars, treeVars, toolVars, feedVars>>

(* handleCancel without cascade.                                           *)
CancelTurn ==
  /\ LoopAt("select") /\ turn # "none" /\ ~cancelled
  /\ cancelled' = TRUE
  /\ UNCHANGED <<turn, boxVars, armed, markVars, loopVars, treeVars, callVars, feedVars>>

-----------------------------------------------------------------------------
(* The dispatcher.  It marks the status in the step that calls for it: the *)
(* Run loop looks at the children and at the feed, a task only at the      *)
(* status.  A spawn tool call.                                             *)
Spawn(c) ==
  /\ CallAt("ask") /\ c \in Child \ (Beside \cup children \cup sent)
  /\ children' = children \cup {c}
  /\ Mark("call", "active")
  /\ UNCHANGED <<turnVars, boxVars, armed, status, asked, loopVars, inbox, sent, callVars, feedVars>>

(* Spawn called by the run of a scheduled task, on a goroutine of its own. *)
SpawnBeside(c) ==
  /\ Settled("task") /\ c \in Beside \ (children \cup sent)
  /\ children' = children \cup {c}
  /\ Ask("task", "active")
  /\ UNCHANGED <<turnVars, boxVars, armed, state, status, owed, loopVars, inbox, sent,
                 callVars, feedVars>>

(* The dispatcher is done and the locals of the call are gone.             *)
Return == tool' = "exited" /\ listed' = {} /\ wanted' = {} /\ collected' = {}

(* No wait_subagents in this batch of calls.                               *)
OtherTools ==
  /\ CallAt("ask") /\ tool' = "exited"
  /\ UNCHANGED <<turnVars, boxVars, armed, markVars, loopVars, treeVars, toolVars, feedVars>>

(* The model names a session that is no child.                             *)
WrongName == TRUE

(* callWaitSubagents up to the snapshot of the live children: the model    *)
(* names ids, live or not, or means all live children, if there are any.   *)
ListChildren ==
  /\ CallAt("ask")
  /\ \/ (children = {} \/ WrongName) /\ Return
     \/ /\ listed' = children /\ collected' = {} /\ tool' = "scan"
        /\ wanted' \in SUBSET (children \cup (sent \cap Child)) \ {{}}
  /\ UNCHANGED <<turnVars, boxVars, armed, markVars, loopVars, treeVars, feedVars>>

(* drainCachedSubagentResults, then the not_a_child validation, the last   *)
(* use of the snapshot.                                                    *)
ScanLog ==
  /\ tool = "scan"
  /\ LET cached == {c \in wanted : journal[c] > 0}
         rest   == wanted \ cached
     IN IF rest = {} \/ ~(rest \subseteq listed)
        THEN Return
        ELSE collected' = cached /\ wanted' = rest /\ tool' = "register" /\ listed' = {}
  /\ UNCHANGED <<turnVars, boxVars, armed, markVars, loopVars, treeVars, feedVars>>

(* registerToolFeed: the feed, then its blocking state.                    *)
RegisterFeed ==
  /\ tool = "register"
  /\ feed' = TRUE /\ feedCh' = <<>> /\ room' = Cardinality(wanted) + 1
  /\ Mark("call", "wait_subagents")
  /\ tool' = "block"
  /\ UNCHANGED <<turnVars, boxVars, armed, status, asked, loopVars, treeVars, toolVars>>

(* emit of a consumed result, which the store may refuse under a cancelled *)
(* turnCtx.                                                                *)
PersistResult(f) ==
  \/ journal' = Logged({f})
  \/ cancelled /\ UNCHANGED journal

(* One frame off the channel.  A result that nobody waits for is skipped,  *)
(* one that is waited for is logged; a message ends the wait.              *)
TakeFrame ==
  LET f == Head(feedCh)
  IN /\ CallAt("block") /\ feedCh # <<>>
     /\ feedCh' = Tail(feedCh)
     /\ IF f \in wanted
        THEN /\ collected' = collected \cup {f} /\ wanted' = wanted \ {f}
             /\ PersistResult(f)
        ELSE UNCHANGED <<collected, wanted, journal>>
     /\ tool' = IF f \in Message \/ wanted' = {} THEN "release" ELSE "block"
     /\ UNCHANGED <<turnVars, buffered, armed, markVars, loopVars, treeVars, listed, feed, room>>

(* ctx.Done() of the call.                                                 *)
AbortWait ==
  /\ CallAt("block") /\ cancelled
  /\ tool' = "release"
  /\ UNCHANGED <<turnVars, boxVars, armed, markVars, loopVars, treeVars, toolVars, feedVars>>

(* The deferred release, when the result is made: the feed goes, and with  *)
(* it what is still in the channel, then the blocking state.               *)
ReleaseFeed ==
  /\ tool = "release"
  /\ feed' = FALSE /\ feedCh' = <<>> /\ room' = 0
  /\ Mark("call", "active")
  /\ Return
  /\ UNCHANGED <<turnVars, boxVars, armed, status, asked, loopVars, treeVars>>

-----------------------------------------------------------------------------
(* A child's pump submits its result; a user says something.               *)
Answer(c) ==
  /\ c \in children \ sent
  /\ inbox' = inbox \cup {c} /\ sent' = sent \cup {c}
  /\ UNCHANGED <<turnVars, boxVars, armed, markVars, loopVars, children, callVars, feedVars>>

Say(m) ==
  /\ m \in Message \ sent
  /\ inbox' = inbox \cup {m} /\ sent' = sent \cup {m}
  /\ UNCHANGED <<turnVars, boxVars, armed, markVars, loopVars, children, callVars, feedVars>>

RunLoop ==
  \/ \E m \in Message : RouteMessage(m)
  \/ \E c \in Child : JoinChild(c)
  \/ LaunchTurn \/ DeliverResult \/ KickSummary
  \/ CallTools \/ NextIteration \/ FinishTurn \/ AbandonTurn \/ CancelTurn

Dispatcher ==
  \/ \E c \in Child : Spawn(c)
  \/ OtherTools \/ ListChildren \/ ScanLog \/ RegisterFeed \/ TakeFrame
  \/ AbortWait \/ ReleaseFeed

Next ==
  \/ RunLoop \/ Dispatcher
  \/ \E g \in Marker : MarkStatus(g) \/ EmitStatus(g)
  \/ \E c \in Child : SpawnBeside(c) \/ Answer(c)
  \/ \E m \in Message : Say(m)

Spec == Init /\ [][Next]_vars

(* What the Run loop does without waiting for a model or a user: it takes  *)
(* what is ready at its select, and goes on inside a handler.              *)
Proceed ==
  \/ \E f \in Frame : RouteMessage(f) \/ JoinChild(f)
  \/ LaunchTurn \/ DeliverResult \/ KickSummary
  \/ NextIteration \/ (AbandonTurn /\ cancelled)

(* The two goroutines of the session run.  Models, children, tasks and     *)
(* users owe nothing.                                                      *)
Fairness ==
  /\ WF_vars(Proceed \/ MarkStatus("loop") \/ EmitStatus("loop"))
  /\ WF_vars(Dispatcher \/ MarkStatus("call") \/ EmitStatus("call"))

FairSpec == Spec /\ Fairness

-----------------------------------------------------------------------------
(* The shape of every variable.                                            *)
TypeOK ==
  /\ turn \in {"none", "model", "tools"} /\ cancelled \in BOOLEAN
  /\ buffered \subseteq Frame /\ armed \in BOOLEAN
  /\ state \in Status /\ status \in Status
  /\ asked \in [Marker -> Status \cup {None}] /\ owed \in [Marker -> Status \cup {None}]
  /\ children \subseteq Child
  /\ loop \in {"select", "deliver", "kick", "start"} /\ routing \in Frame \cup {None}
  /\ inbox \subseteq sent /\ sent \subseteq Frame
  /\ journal \in [Frame -> Nat]
  /\ tool \in {"off", "ask", "scan", "register", "block", "release", "exited"}
  /\ listed \subseteq Child /\ wanted \subseteq Child /\ collected \subseteq Child
  /\ feed \in BOOLEAN /\ feedCh \in Seq(Frame) /\ room \in Nat

(* Two goroutines log inbound frames, the Run loop when it drains the      *)
(* buffer and the dispatcher when the tool consumes a result.  Between     *)
(* them no frame is logged twice, however the dual routing of messages     *)
(* falls; a user message is never lost: interrupting a wait, cancelling a  *)
(* turn or a full feed leave it on its way to the log; and, unless its     *)
(* turn was cancelled, what wait_subagents reports as resolved is in the   *)
(* log, where a second call or a restart finds it without the child.       *)
LogExact ==
  /\ \A f \in Frame : journal[f] <= 1
  /\ \A m \in Message \cap sent : m \in inbox \cup buffered \cup {routing} \/ journal[m] = 1
  /\ ~cancelled => \A c \in collected : journal[c] = 1

(* Nothing is in flight.                                                   *)
AtRest == turn = "none" /\ children = {} /\ buffered = {}

(* No task has spawned a child on this session.                            *)
Undisturbed == Beside \cap (children \cup sent) = {}

(* The newest status row is what RestoreActive decides by.  As long as no  *)
(* task has spawned beside the turns, it says "idle" when nothing is in    *)
(* flight and only then, whatever rows a cancelled turn was refused, and a *)
(* wait is on record while the tool blocks in it, unless its turn was      *)
(* cancelled.  In memory, a task can do no worse than leave "idle" over    *)
(* its own children.                                                       *)
StatusTruthful ==
  /\ Undisturbed =>
       /\ status = "idle" => AtRest
       /\ AtRest /\ LoopAt("select") => status = "idle"
       /\ CallAt("block") /\ ~cancelled => status = "wait_subagents"
  /\ state = "idle" => turn = "none" /\ buffered = {} /\ children \subseteq Beside

(* The channel is full, and not with what the wait is for.                 *)
Crowded == Len(feedCh) = room /\ \E i \in DOMAIN feedCh : feedCh[i] \in Child \ wanted

(* A wait that no child will ever answer still ends when its turn is       *)
(* cancelled; and a message that arrives while the tool is blocked gets    *)
(* through to it, unless results of other children fill the channel.       *)
WaitLetsGo ==
  (tool = "block" /\ (cancelled \/ inbox \cap Message # {}))
    ~> (tool # "block" \/ (Crowded /\ ~cancelled))

(* When every child the tool is blocked on has sent its result, the wait   *)
(* ends.                                                                   *)
WaitEnds == (tool = "block" /\ wanted \subseteq sent) ~> tool # "block"
=============================================================================
