------------------------------ MODULE Inquiry ------------------------------
(***************************************************************************)
(* A question to the operator and the way of its answer (pkg/session).  A  *)
(* tool call (callInquire) or a goroutine of an extension (RequestInquiry) *)
(* registers a channel, emits the request and blocks on the answer, a      *)
(* deadline and its context.  The pump of every ancestor records the child *)
(* the request came from and bubbles it up; a client answers at any tier   *)
(* that has shown the request, perhaps twice or too late, and each Run     *)
(* loop sends the answer down the recorded route.  Meanwhile sessions are  *)
(* closed: their tool calls are cancelled, their parents join them, drop   *)
(* them from s.children and sweep their routes.                            *)
(*                                                                         *)
(* Submit hands a frame to a goroutine of its own, so an inbox is a set.   *)
(* The rest of a session's life is in SessionTree.                         *)
(***************************************************************************)
EXTENDS Naturals

CONSTANTS
  Session,   \* the sessions of one tree
  Root,
  ParentOf,  \* the parent of every other session
  Depth,     \* s.depth
  Request,   \* RequestIDs
  Asker,     \* the session that raises each request
  Copies,    \* bound: answers clients give to each request
  Closable,  \* sessions somebody asks to close
  Beside,    \* sessions on which a mission driver or a task spawns sub-agents
  None

ASSUME InquiryAssumption ==
  /\ Root \in Session
  /\ ParentOf \in [Session \ {Root} -> Session]
  /\ Depth \in [Session -> Nat]
  /\ \A c \in Session \ {Root} : Depth[c] = Depth[ParentOf[c]] + 1
  /\ Asker \in [Request -> Session]
  /\ Closable \subseteq Session /\ Beside \subseteq Session
  /\ Copies \in [Request -> Nat]
  /\ None \notin Session \cup Request

Child == Session \ {Root}
ChildrenOf(s) == {c \in Child : ParentOf[c] = s}

(* Where a call is.                                                        *)
(*   recorded  recordPending done           ready    tool feed registered   *)
(*   asked     in the select                decided  it has its outcome     *)
(*   cleared   clearPending done, the feed still registered                 *)
Stage == {"new", "recorded", "ready", "asked", "decided", "cleared", "done"}
Outcome == {"none", "answered", "timeout", "cancelled", "failed"}

(* Where the Run goroutine of a session is.                                *)
(*   told   a SessionClose is submitted     stop   teardown, turn stopping  *)
(*   drain  waiting for its children        closed  handleExit has run      *)
Life == {"open", "told", "stop", "drain", "closed"}

(* s.lifecycleState in a turn; "wait" stands for the two blocking states   *)
(* of an inquiry.  A turn boundary, whose rows can only bring what is      *)
(* shown up to date, is left out.                                          *)
Status == {"active", "wait"}

VARIABLES
  call,       \* Stage of each request
  tool,       \* the requests raised by callInquire, the others by RequestInquiry
  outcome,    \* what the select chose
  slot,       \* the answer in its channel of capacity 1, 0 when empty
  pending,    \* requests with an entry in s.inquiry.pending of their session
  cancelled,  \* the context of the call is done
  posted,     \* answers given so far
  route,      \* s.inquiry.routing
  wire,       \* requests in the outbox of a session its pump has not read
  held,       \* the request whose route the pump of a child has recorded and
              \* which it has not yet put into the parent's outbox
  seen,       \* sessions whose outbox has carried the request
  inbox,      \* answers submitted to a session and not yet routed
  view,       \* the pending inquiry observers show for the session
  state,      \* s.lifecycleState
  spawner,    \* where a spawn beside the turn is in its markStatus
  row,        \* the pending inquiry its status frame has been filled with
  overtaken,  \* tool calls in whose time a spawn was there: for NotShownAfter
  life, children, joining

callVars == <<call, tool, outcome, slot, pending, cancelled>>
wireVars == <<route, wire, held, seen>>
mailVars == <<posted, inbox>>
lifeVars == <<life, children, joining>>
spawnVars == <<spawner, row, overtaken>>
showVars == <<view, state, spawnVars>>
vars == <<callVars, wireVars, mailVars, showVars, lifeVars>>

Init ==
  /\ call = [r \in Request |-> "new"]
  /\ tool = {}
  /\ outcome = [r \in Request |-> "none"]
  /\ slot = [r \in Request |-> 0]
  /\ pending = {}
  /\ cancelled = [r \in Request |-> FALSE]
  /\ posted = [r \in Request |-> 0]
  /\ route = [s \in Session |-> [r \in Request |-> None]]
  /\ wire = [s \in Session |-> {}]
  /\ held = [s \in Session |-> None]
  /\ seen = [r \in Request |-> {}]
  /\ inbox = [s \in Session |-> [r \in Request |-> {}]]
  /\ view = [s \in Session |-> None]
  /\ state = [s \in Session |-> "active"]
  /\ spawner = [s \in Session |-> "off"]
  /\ row = [s \in Session |-> None]
  /\ overtaken = {}
  /\ life = [s \in Session |-> "open"]
  /\ children = [s \in Session |-> ChildrenOf(s)]
  /\ joining = [s \in Session |-> None]

-----------------------------------------------------------------------------
Running == {"recorded", "ready", "asked", "decided", "cleared"}

(* The tool calls of s that have not returned: turnWG waits for them.      *)
ToolsOf(s) == {r \in tool : Asker[r] = s /\ call[r] \in Running}

(* snapshotPendingInquiry.  The youngest entry wins; which it is of two is *)
(* left open.                                                              *)
Snapshot(s, P) ==
  LET own == {r \in P : Asker[r] = s} IN IF own = {} THEN {None} ELSE own

(* An emitted session_status, as liveview folds it.                        *)
EmitStatus(s, P) == \E ref \in Snapshot(s, P) : view' = [view EXCEPT ![s] = ref]

(* markStatus by a tool call: a status that is the current one is not      *)
(* emitted again, and under a done context the emit may fail.              *)
MarkStatus(r, to, P) ==
  LET s == Asker[r] IN
  /\ state' = [state EXCEPT ![s] = to]
  /\ \/ state[s] # to /\ EmitStatus(s, P)
     \/ (state[s] = to \/ cancelled[r]) /\ UNCHANGED view
  /\ UNCHANGED spawnVars

(* Submit: dropped once the session is done.                               *)
Submitted(box, s, r, k) ==
  IF life[s] = "closed" THEN box ELSE [box EXCEPT ![s][r] = @ \cup {k}]

-----------------------------------------------------------------------------
(* callInquire and RequestInquiry up to recordPending.  A session runs one *)
(* tool call at a time; a teardown has stopped them.                       *)
Record(r) ==
  /\ call[r] = "new"
  /\ \/ life[Asker[r]] \in {"open", "told"} /\ ToolsOf(Asker[r]) = {}
        /\ tool' = tool \cup {r}
     \/ life[Asker[r]] # "closed" /\ UNCHANGED tool
  /\ call' = [call EXCEPT ![r] = "recorded"]
  /\ pending' = pending \cup {r}
  /\ UNCHANGED <<outcome, slot, cancelled, wireVars, mailVars, showVars, lifeVars>>

(* registerToolFeed: the session goes to wait_user_input.                  *)
Feed(r) ==
  /\ call[r] = "recorded" /\ r \in tool
  /\ call' = [call EXCEPT ![r] = "ready"]
  /\ MarkStatus(r, "wait", pending)
  /\ UNCHANGED <<tool, outcome, slot, pending, cancelled, wireVars, mailVars, lifeVars>>

CanAsk(r) == call[r] = (IF r \in tool THEN "ready" ELSE "recorded")

(* emit of the request: observers, then the outbox.                        *)
Ask(r) ==
  LET s == Asker[r] IN
  /\ CanAsk(r) /\ life[s] # "closed"
  /\ call' = [call EXCEPT ![r] = "asked"]
  /\ seen' = [seen EXCEPT ![r] = @ \cup {s}]
  /\ wire' = [wire EXCEPT ![s] = IF s = Root THEN @ ELSE @ \cup {r}]
  /\ view' = [view EXCEPT ![s] = r]
  /\ UNCHANGED <<tool, outcome, slot, pending, cancelled, route, held, mailVars,
                 state, spawnVars, lifeVars>>

Decided(r, o) ==
  /\ call' = [call EXCEPT ![r] = "decided"]
  /\ outcome' = [outcome EXCEPT ![r] = o]
  /\ UNCHANGED <<tool, slot, pending, cancelled, wireVars, mailVars, state, spawnVars, lifeVars>>

(* The emit fails: ErrSessionClosed, or the context is done, before or     *)
(* after the observers have seen the frame.                                *)
AskFails(r) ==
  /\ CanAsk(r)
  /\ \/ life[Asker[r]] = "closed" /\ UNCHANGED view
     \/ cancelled[r] /\ (UNCHANGED view \/ view' = [view EXCEPT ![Asker[r]] = r])
  /\ Decided(r, "failed")

(* The answer is in the channel.                                           *)
Take(r) ==
  /\ call[r] = "asked" /\ slot[r] # 0
  /\ Decided(r, "answered") /\ UNCHANGED view

(* The deadline, after a second look at the channel.                       *)
Expire(r) ==
  /\ call[r] = "asked" /\ slot[r] = 0
  /\ Decided(r, "timeout") /\ UNCHANGED view

(* The context, after a second look at the channel.                        *)
Abort(r) ==
  /\ call[r] = "asked" /\ cancelled[r] /\ slot[r] = 0
  /\ Decided(r, "cancelled") /\ UNCHANGED view

(* A release that comes before clearPending.                               *)
ReleaseFirst(r) ==
  /\ call[r] = "decided" /\ r \in tool
  /\ call' = [call EXCEPT ![r] = "done"]
  /\ pending' = pending \ {r}
  /\ MarkStatus(r, "active", pending)
  /\ UNCHANGED <<tool, outcome, slot, cancelled, wireVars, mailVars, lifeVars>>

(* A return that forgets the entry.                                        *)
ClearNothing(r) ==
  /\ call[r] = "decided"
  /\ call' = [call EXCEPT ![r] = IF r \in tool THEN "cleared" ELSE "done"]
  /\ UNCHANGED <<tool, outcome, slot, pending, cancelled, wireVars, mailVars, showVars, lifeVars>>

(* The deferred calls: clearPending, then for a tool release().            *)
Clear(r) ==
  /\ call[r] = "decided"
  /\ call' = [call EXCEPT ![r] = IF r \in tool THEN "cleared" ELSE "done"]
  /\ pending' = pending \ {r}
  /\ UNCHANGED <<tool, outcome, slot, cancelled, wireVars, mailVars, showVars, lifeVars>>

Release(r) ==
  /\ call[r] = "cleared"
  /\ call' = [call EXCEPT ![r] = "done"]
  /\ MarkStatus(r, "active", pending)
  /\ UNCHANGED <<tool, outcome, slot, pending, cancelled, wireVars, mailVars, lifeVars>>

(* /cancel of the turn, or of whatever called RequestInquiry.              *)
Cancel(r) ==
  /\ call[r] \in Running /\ ~cancelled[r]
  /\ cancelled' = [cancelled EXCEPT ![r] = TRUE]
  /\ UNCHANGED <<call, tool, outcome, slot, pending, wireVars, mailVars, showVars, lifeVars>>

-----------------------------------------------------------------------------
(* The end of Spawn on another goroutine than the turn's: markStatus makes *)
(* a session that waits in a tool call active, ...                         *)
SpawnMarks(s) ==
  /\ s \in Beside /\ life[s] \in {"open", "told"}
  /\ spawner[s] = "off" /\ state[s] # "active"
  /\ spawner' = [spawner EXCEPT ![s] = "marked"]
  /\ state' = [state EXCEPT ![s] = "active"]
  /\ overtaken' = overtaken \cup ToolsOf(s)
  /\ UNCHANGED <<callVars, wireVars, mailVars, view, row, lifeVars>>

(* ... fills the frame (populateStatusSnapshot), ...                       *)
SpawnLooks(s) ==
  /\ spawner[s] = "marked"
  /\ spawner' = [spawner EXCEPT ![s] = "filled"]
  /\ \E ref \in Snapshot(s, pending) : row' = [row EXCEPT ![s] = ref]
  /\ overtaken' = overtaken \cup ToolsOf(s)
  /\ UNCHANGED <<callVars, wireVars, mailVars, view, state, lifeVars>>

(* ... and emits it, if the session is still there.                        *)
SpawnEmits(s) ==
  /\ spawner[s] = "filled"
  /\ spawner' = [spawner EXCEPT ![s] = "off"]
  /\ view' = [view EXCEPT ![s] = IF life[s] = "closed" THEN @ ELSE row[s]]
  /\ row' = [row EXCEPT ![s] = None]
  /\ UNCHANGED <<callVars, wireVars, mailVars, state, overtaken, lifeVars>>

-----------------------------------------------------------------------------
(* A pump that knows only the requests its child raised itself.            *)
RecordOwn(c) ==
  LET p == ParentOf[c] IN
  /\ held[c] = None
  /\ \E r \in wire[c] :
       /\ wire' = [wire EXCEPT ![c] = @ \ {r}]
       /\ held' = [held EXCEPT ![c] = r]
       /\ route' = IF Asker[r] = c THEN [route EXCEPT ![p][r] = c] ELSE route
  /\ UNCHANGED <<callVars, seen, mailVars, showVars, lifeVars>>

(* The pump of c, goroutine of its parent p: the route, then the bubbled   *)
(* copy.  Its teardown waits for the pump, so p is not closed yet.         *)
RecordRoute(c) ==
  LET p == ParentOf[c] IN
  /\ held[c] = None
  /\ \E r \in wire[c] :
       /\ wire' = [wire EXCEPT ![c] = @ \ {r}]
       /\ held' = [held EXCEPT ![c] = r]
       /\ route' = [route EXCEPT ![p][r] = c]
  /\ UNCHANGED <<callVars, seen, mailVars, showVars, lifeVars>>

Bubble(c) ==
  LET p == ParentOf[c]
      r == held[c]
  IN /\ r # None
     /\ held' = [held EXCEPT ![c] = None]
     /\ wire' = [wire EXCEPT ![p] = IF p = Root THEN @ ELSE @ \cup {r}]
     /\ seen' = [seen EXCEPT ![r] = @ \cup {p}]
     /\ UNCHANGED <<callVars, route, mailVars, showVars, lifeVars>>

-----------------------------------------------------------------------------
(* A client that has seen r on the stream of s answers there.              *)
Answer(r, s) ==
  /\ s \in seen[r] /\ posted[r] < Copies[r]
  /\ posted' = [posted EXCEPT ![r] = @ + 1]
  /\ inbox' = Submitted(inbox, s, r, posted'[r])
  /\ UNCHANGED <<callVars, wireVars, showVars, lifeVars>>

(* The Run loop is at its select.                                          *)
AtSelect(s) == life[s] \in {"open", "told"} /\ joining[s] = None

(* sweepResponseRoutesForChild.                                            *)
Swept(s, c) ==
  [route EXCEPT ![s] = [r \in Request |-> IF route[s][r] = c THEN None ELSE route[s][r]]]

(* A channel that keeps the last answer.                                   *)
DeliverLast(s, r, k) ==
  /\ r \in pending /\ Asker[r] = s
  /\ slot' = [slot EXCEPT ![r] = k]
  /\ inbox' = [inbox EXCEPT ![s][r] = @ \ {k}]

(* deliverPending: the first answer stays in the channel.                  *)
Deliver(s, r, k) ==
  /\ r \in pending /\ Asker[r] = s
  /\ slot' = [slot EXCEPT ![r] = IF @ = 0 THEN k ELSE @]
  /\ inbox' = [inbox EXCEPT ![s][r] = @ \ {k}]

(* The forward to the child of the route.                                  *)
Forward(s, r, k) ==
  /\ ~(r \in pending /\ Asker[r] = s)
  /\ route[s][r] \in children[s]
  /\ inbox' = Submitted([inbox EXCEPT ![s][r] = @ \ {k}], route[s][r], r, k)
  /\ UNCHANGED slot

(* No route, or one to a child that is gone.                               *)
Drop(s, r, k) ==
  /\ ~(r \in pending /\ Asker[r] = s)
  /\ route[s][r] \notin children[s]
  /\ inbox' = [inbox EXCEPT ![s][r] = @ \ {k}]
  /\ UNCHANGED slot

(* dispatchInquiryResponse; each of its ways leaves no route behind.       *)
Dispatch(s) ==
  /\ AtSelect(s)
  /\ \E r \in Request : \E k \in inbox[s][r] :
       /\ Deliver(s, r, k) \/ Forward(s, r, k) \/ Drop(s, r, k)
       /\ route' = [route EXCEPT ![s][r] = None]
  /\ UNCHANGED <<call, tool, outcome, pending, cancelled, wire, held, seen, posted, showVars, lifeVars>>

-----------------------------------------------------------------------------
Told(C) == [s \in Session |-> IF s \in C /\ life[s] = "open" THEN "told" ELSE life[s]]

(* Terminate, or a cancel of a sub-agent: SessionClose is submitted.       *)
Tell(s) ==
  /\ s \in Closable /\ life[s] = "open"
  /\ life' = Told({s})
  /\ UNCHANGED <<callVars, wireVars, mailVars, showVars, children, joining>>

(* handleSubagentResult: close the child and wait for its goroutine.       *)
Join(s, c) ==
  /\ AtSelect(s) /\ c \in children[s] \cap Closable
  /\ joining' = [joining EXCEPT ![s] = c]
  /\ life' = Told({c})
  /\ UNCHANGED <<callVars, wireVars, mailVars, showVars, children>>

Joined(s) ==
  LET c == joining[s] IN
  /\ c # None /\ life[c] = "closed"
  /\ children' = [children EXCEPT ![s] = @ \ {c}]
  /\ joining' = [joining EXCEPT ![s] = None]
  /\ route' = Swept(s, c)
  /\ UNCHANGED <<callVars, wire, held, seen, mailVars, showVars, life>>

(* A teardown that leaves the tool call to its deadline.                   *)
StopQuietly(s) ==
  /\ life[s] = "told" /\ joining[s] = None
  /\ life' = [life EXCEPT ![s] = "stop"]
  /\ UNCHANGED <<callVars, wireVars, mailVars, showVars, children, joining>>

(* teardown: the turn is cancelled, ...                                    *)
Stop(s) ==
  /\ life[s] = "told" /\ joining[s] = None
  /\ life' = [life EXCEPT ![s] = "stop"]
  /\ cancelled' = [r \in Request |-> IF r \in ToolsOf(s) THEN TRUE ELSE cancelled[r]]
  /\ UNCHANGED <<call, tool, outcome, slot, pending, wireVars, mailVars, showVars, children, joining>>

(* ... its goroutines awaited, the children told, ...                      *)
Drain(s) ==
  /\ life[s] = "stop" /\ ToolsOf(s) = {}
  /\ life' = [Told(children[s]) EXCEPT ![s] = "drain"]
  /\ UNCHANGED <<callVars, wireVars, mailVars, showVars, children, joining>>

(* ... and, with every child and its pump gone, what is left in the inbox  *)
(* is persisted and the session closed.                                    *)
Exit(s) ==
  /\ life[s] = "drain"
  /\ \A c \in ChildrenOf(s) : life[c] = "closed" /\ wire[c] = {} /\ held[c] = None
  /\ inbox' = [inbox EXCEPT ![s] = [r \in Request |-> {}]]
  /\ life' = [life EXCEPT ![s] = "closed"]
  /\ UNCHANGED <<callVars, wireVars, posted, showVars, children, joining>>

CallStep(r) ==
  \/ Record(r) \/ Feed(r) \/ Ask(r) \/ AskFails(r)
  \/ Take(r) \/ Expire(r) \/ Abort(r) \/ Clear(r) \/ Release(r) \/ Cancel(r)

SpawnStep(s) == SpawnMarks(s) \/ SpawnLooks(s) \/ SpawnEmits(s)

PumpStep(c) == RecordRoute(c) \/ Bubble(c)

LoopStep(s) ==
  \/ Dispatch(s) \/ Joined(s) \/ Stop(s) \/ Drain(s) \/ Exit(s)

Next ==
  \/ \E r \in Request : CallStep(r) \/ \E s \in Session : Answer(r, s)
  \/ \E c \in Child : PumpStep(c)
  \/ \E s \in Session : LoopStep(s) \/ Tell(s) \/ \E c \in Child : Join(s, c)
  \/ \E s \in Session : SpawnStep(s)

Spec == Init /\ [][Next]_vars

(* Goroutines that are scheduled.  No timer is assumed to fire, no client  *)
(* to answer and nobody to ask.                                            *)
Fairness ==
  /\ \A r \in Request : WF_vars(Feed(r) \/ Ask(r) \/ AskFails(r) \/ Take(r)
                                \/ Abort(r) \/ Clear(r) \/ Release(r))
  /\ \A c \in Child : WF_vars(PumpStep(c))
  /\ \A s \in Session : WF_vars(LoopStep(s))

FairSpec == Spec /\ Fairness

-----------------------------------------------------------------------------
TypeOK ==
  /\ call \in [Request -> Stage] /\ outcome \in [Request -> Outcome]
  /\ tool \subseteq Request /\ slot \in [Request -> Nat]
  /\ pending \subseteq Request
  /\ \A r \in Request :
       r \in pending <=> call[r] \in {"recorded", "ready", "asked", "decided"}
  /\ cancelled \in [Request -> BOOLEAN] /\ posted \in [Request -> Nat]
  /\ route \in [Session -> [Request -> Child \cup {None}]]
  /\ wire \in [Session -> SUBSET Request] /\ held \in [Session -> Request \cup {None}]
  /\ seen \in [Request -> SUBSET Session]
  /\ inbox \in [Session -> [Request -> SUBSET Nat]]
  /\ view \in [Session -> Request \cup {None}] /\ row \in [Session -> Request \cup {None}]
  /\ state \in [Session -> Status] /\ spawner \in [Session -> {"off", "marked", "filled"}]
  /\ overtaken \subseteq tool
  /\ life \in [Session -> Life] /\ children \in [Session -> SUBSET Child]
  /\ joining \in [Session -> Child \cup {None}]

(* The recorded routes lead an answer from s to the session that asked.    *)
Leads(r, s) ==
  \E P \in SUBSET seen[r] : s \in P /\ \A t \in P \ {Asker[r]} : route[t][r] \in P

(* An answer a client has given to a waiting call is never lost on the way *)
(* while the sessions that carried the request stay open: it is in the     *)
(* channel, or on its way over routes that are still there.  A second      *)
(* answer at another tier, the sweep for a sibling and the pump racing the *)
(* client must not break this.                                             *)
AnswerKept ==
  \A r \in Request :
    call[r] = "asked" /\ posted[r] > 0 /\ (\A s \in seen[r] : life[s] = "open")
      => \/ slot[r] # 0
         \/ \E s \in Session : inbox[s][r] # {} /\ Leads(r, s)

(* Observers do not go on showing the inquiry of a tool call that has      *)
(* returned, the order of clearPending and release matters for it          *)
(* (tools_inquire.go:261).  Not claimed of a call whose context is done    *)
(* (its last status may be lost), nor of one in whose time a spawn has     *)
(* marked the session active (release then emits nothing, or the row of    *)
(* the spawn comes last), nor of RequestInquiry, which emits no status     *)
(* when it returns.                                                        *)
NotShownAfter ==
  \A r \in tool : \A s \in Session :
    view[s] = r /\ ~cancelled[r] /\ r \notin overtaken => call[r] # "done"

(* An answer has been given to a call that waits, it is not in the channel *)
(* yet, and all sessions that have carried the request are open.           *)
Underway(r) ==
  /\ call[r] = "asked" /\ posted[r] > 0 /\ slot[r] = 0
  /\ \A s \in seen[r] : life[s] = "open"

(* Nobody hangs on a question: an answer given to a waiting call gets      *)
(* there, whatever the Run loops on the way are blocked on, or the call or *)
(* a session on the way has ended; and a session told to close is closed,  *)
(* no teardown waits for an operator.  (What has ended does not begin      *)
(* again, so it is enough that in the end nothing is under way.)           *)
NobodyHangs ==
  <>[](/\ \A r \in Request : ~Underway(r)
       /\ \A s \in Session : life[s] \in {"open", "closed"})

-----------------------------------------------------------------------------
StageOf(r) ==
  IF outcome[r] = "none" THEN "open"
  ELSE IF outcome[r] = "answered" THEN "kept" ELSE "given_up"

Promise == INSTANCE InquiryPromise WITH
  stage <- [r \in Request |-> StageOf(r)], given <- posted, accepted <- slot

(* The machinery keeps InquiryPromise: what a call returns is the first    *)
(* answer delivered to it, and neither the deadline nor the context clips  *)
(* an answer that is already in the channel.                               *)
PromiseKept == Promise!Spec
=============================================================================
