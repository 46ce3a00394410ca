---------------------- MODULE WaitSubagents_proofs ----------------------
(***************************************************************************)
(* Theorems about WaitSubagents, for every set of children and of user     *)
(* messages.                                                               *)
(***************************************************************************)
EXTENDS WaitSubagents, FiniteSetTheorems, TLAPS

-----------------------------------------------------------------------------
(* The inductive invariant.                                                *)

\* The dispatcher runs in the tools phase of a turn, the feed is there from its registration to
\* its release, and the locals of the call live as long as the call.
ToolInv ==
  /\ turn = "tools" <=> tool # "off"
  /\ feed <=> tool \in {"block", "release"}
  /\ ~feed => feedCh = <<>>
  /\ tool \in {"off", "ask", "exited"} => collected = {}

\* What the Run loop has in hand at each of its points.
LoopInv ==
  /\ loop \in {"kick", "start"} => turn = "none"
  /\ loop \in {"select", "kick"} => routing = None
  /\ loop = "deliver" => routing \in Child
  /\ loop = "start" => routing \in Message \cup {None}

\* A frame is in one place on its way to the log, and not yet in the log.  A message may be in
\* the channel besides; from there it goes nowhere.
PlaceInv ==
  /\ inbox \cap buffered = {} /\ buffered \subseteq sent
  /\ routing # None => routing \in sent \ (inbox \cup buffered)
  /\ \A f \in inbox \cup buffered : journal[f] = 0
  /\ routing # None => journal[routing] = 0
  /\ \A i \in 1 .. Len(feedCh) : feedCh[i] \in Child =>
       /\ feedCh[i] \in sent \ (inbox \cup buffered)
       /\ feedCh[i] # routing /\ journal[feedCh[i]] = 0
       /\ \A j \in 1 .. Len(feedCh) : feedCh[j] = feedCh[i] => j = i
  /\ \A f \in Frame \ sent : journal[f] = 0

\* At rest, but for the children of tasks.
LoopAtRest == turn = "none" /\ buffered = {} /\ children \subseteq Beside

\* Who marks what, and when: the Run loop between turns, the dispatcher in them, and "idle" only
\* when the Run loop has nothing left.
MarkInv ==
  /\ asked["call"] = None /\ asked["task"] \in {None, "active"}
  /\ asked["loop"] \in {None, "active", "idle"}
  /\ tool \in {"off", "scan", "register", "release"} => owed["call"] = None
  /\ ~Settled("loop") => turn = "none"
  /\ asked["loop"] = None \/ owed["loop"] = None
  /\ loop = "start" => asked["loop"] # "idle"
  /\ "active" \in {asked["loop"], owed["loop"]} => loop = "start"
  /\ loop = "start" /\ asked["loop"] = None => state # "idle"
  /\ asked["loop"] = "idle" \/ state = "idle" => LoopAtRest

\* Without a task the rows follow the memory: what the Run loop owes is what it has marked, "idle"
\* is on record exactly when it is in memory, and a wait that is in memory is on record, or owed.
RowInv ==
  Undisturbed =>
    /\ asked["task"] = None /\ owed["task"] = None
    /\ "idle" \in {asked["loop"], owed["loop"], status} => AtRest
    /\ owed["loop"] # None => state = owed["loop"]
    /\ owed["loop"] = None => (state = "idle" <=> status = "idle")
    /\ AtRest /\ loop # "start" => "idle" \in {asked["loop"], owed["loop"], status}
    /\ state = "wait_subagents" <=> tool \in {"block", "release"}
    /\ tool = "block" => owed["call"] \in {None, "wait_subagents"}
    /\ tool = "block" /\ ~cancelled => "wait_subagents" \in {owed["call"], status}
    /\ owed["call"] # "idle"

Core == ToolInv /\ LoopInv /\ PlaceInv /\ LogExact /\ MarkInv /\ RowInv

IInv == TypeOK /\ Core

-----------------------------------------------------------------------------
(* Sequences.                                                              *)

LEMMA AppendFacts ==
  ASSUME NEW S, NEW q \in Seq(S), NEW f \in S
  PROVE  /\ Append(q, f) \in Seq(S)
         /\ Len(Append(q, f)) = Len(q) + 1 /\ Len(q) \in Nat
         /\ \A i \in 1 .. Len(q) : Append(q, f)[i] = q[i]
         /\ Append(q, f)[Len(q) + 1] = f
OBVIOUS

LEMMA TailFacts ==
  ASSUME NEW S, NEW q \in Seq(S), q # <<>>
  PROVE  /\ Tail(q) \in Seq(S) /\ Head(q) \in S /\ Head(q) = q[1]
         /\ Len(Tail(q)) = Len(q) - 1 /\ Len(q) \in Nat /\ Len(q) > 0
         /\ \A i \in 1 .. Len(Tail(q)) : Tail(q)[i] = q[i + 1]
OBVIOUS

-----------------------------------------------------------------------------
(* The steps.                                                              *)

LEMMA LoggedFacts ==
  ASSUME journal \in [Frame -> Nat], NEW F
  PROVE  /\ Logged(F) \in [Frame -> Nat]
         /\ \A f \in Frame : Logged(F)[f] = IF f \in F THEN journal[f] + 1 ELSE journal[f]
BY DEF Logged

LEMMA FedFacts ==
  ASSUME feedCh \in Seq(Frame), NEW f \in Frame, Fed(f)
  PROVE  feedCh' = feedCh \/ feedCh' = Append(feedCh, f)
BY DEF Fed

LEMMA MarkFacts ==
  ASSUME owed \in [Marker -> Status \cup {None}], state \in Status,
         NEW g \in Marker, NEW s \in Status, Mark(g, s)
  PROVE  /\ state' = s /\ owed' \in [Marker -> Status \cup {None}]
         /\ \A h \in Marker : h # g => owed'[h] = owed[h]
         /\ IF state = s THEN owed' = owed ELSE owed'[g] = s
BY DEF Mark

LEMMA AskFacts ==
  ASSUME asked \in [Marker -> Status \cup {None}], NEW g \in Marker, NEW s \in Status \cup {None},
         Ask(g, s)
  PROVE  /\ asked' \in [Marker -> Status \cup {None}] /\ asked'[g] = s
         /\ \A h \in Marker : h # g => asked'[h] = asked[h]
BY DEF Ask

LEMMA Markers == Marker = {"loop", "call", "task"} /\ Status = {"idle", "active", "wait_subagents"}
BY DEF Marker, Status

LEMMA RouteMessageStep ==
  ASSUME IInv, NEW m \in Message, RouteMessage(m)
  PROVE  IInv'
<1>1. TypeOK'
  <2>1. /\ turn' \in {"none", "model", "tools"} /\ cancelled' \in BOOLEAN
        /\ buffered' \subseteq Frame /\ armed' \in BOOLEAN
        /\ children' \subseteq Child
        /\ loop' \in {"select", "deliver", "kick", "start"} /\ routing' \in Frame \cup {None}
        /\ inbox' \subseteq sent' /\ sent' \subseteq Frame
    BY DEF IInv, TypeOK, Frame, RouteMessage, BeginTurn, DualRouted, turnVars, loopVars, callVars,
       toolVars
  <2>2. /\ tool' \in {"off", "ask", "scan", "register", "block", "release", "exited"}
        /\ listed' \subseteq Child /\ wanted' \subseteq Child /\ collected' \subseteq Child
        /\ feed' \in BOOLEAN
    BY DEF IInv, TypeOK, Frame, RouteMessage, BeginTurn, DualRouted, turnVars, loopVars, callVars,
       toolVars
  <2>3. /\ state' \in Status /\ status' \in Status
        /\ asked' \in [Marker -> Status \cup {None}] /\ owed' \in [Marker -> Status \cup {None}]
    BY AskFacts, Markers DEF IInv, TypeOK, Frame, RouteMessage, BeginTurn, DualRouted, turnVars,
       loopVars, callVars, toolVars
  <2>4. journal' \in [Frame -> Nat]
    BY LoggedFacts DEF IInv, TypeOK, RouteMessage, BeginTurn, DualRouted, turnVars, loopVars,
       callVars, toolVars
  <2>5. feedCh' \in Seq(Frame) /\ room' \in Nat
    <3>1. m \in Frame
      BY DEF Frame
    <3>2. feedCh' \in {feedCh, Append(feedCh, m)} /\ room' = room
      BY <3>1, FedFacts DEF IInv, TypeOK, RouteMessage
    <3>3. feedCh \in Seq(Frame) /\ room \in Nat
      BY DEF IInv, TypeOK
    <3> QED
      BY <3>1, <3>2, <3>3, AppendFacts
  <2> QED
    BY <2>1, <2>2, <2>3, <2>4, <2>5 DEF TypeOK
<1>2. ToolInv'
  BY WaitAssumption DEF IInv, Core, ToolInv, RouteMessage, BeginTurn, DualRouted, LoopAt,
     callVars, loopVars, toolVars, turnVars
<1>3. LoopInv'
  BY WaitAssumption DEF IInv, Core, TypeOK, LoopInv, RouteMessage, BeginTurn, DualRouted, LoopAt,
     Settled, callVars, loopVars, toolVars, turnVars
<1>4. PlaceInv'
  <2>1. /\ m \in inbox /\ m \in Frame /\ m \notin Child /\ m # None /\ routing = None
        /\ feedCh \in Seq(Frame)
    BY WaitAssumption DEF IInv, Core, LoopInv, TypeOK, RouteMessage, LoopAt, Frame
  <2>2. /\ inbox' = inbox \ {m} /\ sent' = sent /\ journal' = journal
        /\ \/ buffered' = buffered /\ routing' = m
           \/ buffered' \in {buffered, buffered \cup {m}} /\ routing' = routing
    BY DEF RouteMessage, DualRouted, loopVars
  <2>3. feedCh' = feedCh \/ feedCh' = Append(feedCh, m)
    BY <2>1, FedFacts DEF RouteMessage
  <2>4. \A i \in 1 .. Len(feedCh') : feedCh'[i] \in Child =>
          i \in 1 .. Len(feedCh) /\ feedCh'[i] = feedCh[i]
    BY <2>1, <2>3, AppendFacts
  <2>5. inbox \subseteq sent /\ sent \subseteq Frame /\ buffered \subseteq Frame
    BY DEF IInv, TypeOK
  <2> QED
    BY <2>1, <2>2, <2>4, <2>5 DEF IInv, Core, PlaceInv, Frame
<1>5. LogExact'
  BY LoggedFacts, WaitAssumption DEF IInv, Core, TypeOK, ToolInv, PlaceInv, LogExact,
     RouteMessage, BeginTurn, DualRouted, LoopAt, callVars, loopVars, toolVars, turnVars,
     LoopInv, Frame
<1>6. MarkInv'
  BY WaitAssumption, Markers, AskFacts DEF IInv, Core, TypeOK, ToolInv, LoopInv, MarkInv,
     LoopAtRest, RouteMessage, BeginTurn, DualRouted, LoopAt, Settled, callVars, loopVars,
     toolVars, turnVars
<1>7. RowInv'
  BY WaitAssumption, Markers, AskFacts DEF IInv, Core, TypeOK, ToolInv, LoopInv, MarkInv, RowInv,
     LoopAtRest, Undisturbed, AtRest, RouteMessage, BeginTurn, DualRouted, LoopAt, Settled,
     callVars, loopVars, toolVars, turnVars
<1> QED
  BY <1>1, <1>2, <1>3, <1>4, <1>5, <1>6, <1>7 DEF IInv, Core

LEMMA LaunchTurnStep ==
  ASSUME IInv, LaunchTurn
  PROVE  IInv'
<1>1. TypeOK'
  BY LoggedFacts, AskFacts, Markers DEF IInv, TypeOK, LaunchTurn, callVars, feedVars, markVars,
     toolVars, treeVars, Frame
<1>2. ToolInv'
  BY WaitAssumption DEF IInv, Core, ToolInv, LoopInv, LaunchTurn, LoopAt, callVars, feedVars,
     toolVars
<1>3. LoopInv'
  BY WaitAssumption DEF IInv, Core, TypeOK, LoopInv, LaunchTurn, LoopAt, Settled, callVars,
     feedVars, markVars, toolVars, treeVars
<1>4. PlaceInv'
  <2>1. /\ inbox' = inbox /\ sent' = sent /\ buffered' = buffered /\ feedCh' = feedCh
        /\ routing' = None /\ journal' = Logged({routing} \ {None})
    BY DEF LaunchTurn, treeVars, feedVars
  <2>2. feedCh = <<>>
    BY DEF IInv, Core, ToolInv, LoopInv, LaunchTurn, LoopAt
  <2>3. \A f \in Frame : f # routing => journal'[f] = journal[f]
    BY <2>1, LoggedFacts DEF IInv, TypeOK
  <2>4. routing = None \/ routing \in sent \ (inbox \cup buffered)
    BY DEF IInv, Core, PlaceInv
  <2>5. inbox \subseteq Frame /\ buffered \subseteq Frame /\ None \notin Frame
    BY WaitAssumption DEF IInv, TypeOK, Frame
  <2>6. \A f \in (inbox \cup buffered) \cup (Frame \ sent) : journal'[f] = 0
    BY <2>3, <2>4, <2>5 DEF IInv, Core, PlaceInv
  <2>7. inbox \cap buffered = {} /\ buffered \subseteq sent
    BY DEF IInv, Core, PlaceInv
  <2>8. 1 .. Len(feedCh') = {}
    BY <2>1, <2>2
  <2>9. /\ \A f \in inbox' \cup buffered' : journal'[f] = 0
        /\ \A f \in Frame \ sent' : journal'[f] = 0
    BY <2>1, <2>6
  <2> QED
    BY <2>1, <2>7, <2>8, <2>9 DEF PlaceInv
<1>5. LogExact'
  BY LoggedFacts, WaitAssumption DEF IInv, Core, TypeOK, ToolInv, PlaceInv, LogExact, LaunchTurn,
     LoopAt, callVars, feedVars, markVars, toolVars, treeVars, LoopInv, Frame
<1>6. MarkInv'
  BY WaitAssumption, Markers DEF IInv, Core, TypeOK, ToolInv, LoopInv, MarkInv, LoopAtRest,
     LaunchTurn, LoopAt, Settled, callVars, feedVars, markVars, toolVars, treeVars
<1>7. RowInv'
  BY WaitAssumption, Markers DEF IInv, Core, TypeOK, ToolInv, LoopInv, MarkInv, RowInv,
     LoopAtRest, Undisturbed, AtRest, LaunchTurn, LoopAt, Settled, callVars, feedVars, markVars,
     toolVars, treeVars
<1> QED
  BY <1>1, <1>2, <1>3, <1>4, <1>5, <1>6, <1>7 DEF IInv, Core

LEMMA JoinChildStep ==
  ASSUME IInv, NEW c \in Child, JoinChild(c)
  PROVE  IInv'
<1>1. TypeOK'
  BY AskFacts, Markers DEF IInv, TypeOK, JoinChild, MarkIdle, Quiescent, boxVars, callVars,
     feedVars, toolVars, turnVars, Frame
<1>2. ToolInv'
  BY WaitAssumption DEF IInv, Core, ToolInv, JoinChild, MarkIdle, Quiescent, LoopAt, boxVars,
     callVars, feedVars, toolVars, turnVars
<1>3. LoopInv'
  BY WaitAssumption DEF IInv, Core, TypeOK, LoopInv, JoinChild, MarkIdle, Quiescent, LoopAt,
     Settled, boxVars, callVars, feedVars, toolVars, turnVars
<1>4. PlaceInv'
  BY DEF IInv, Core, TypeOK, PlaceInv, JoinChild, MarkIdle, Quiescent, LoopAt, boxVars, callVars,
     feedVars, toolVars, turnVars
<1>5. LogExact'
  BY WaitAssumption DEF IInv, Core, TypeOK, ToolInv, PlaceInv, LogExact, JoinChild, MarkIdle,
     Quiescent, LoopAt, boxVars, callVars, feedVars, toolVars, turnVars, LoopInv
<1>6. MarkInv'
  BY WaitAssumption, Markers, AskFacts DEF IInv, Core, TypeOK, ToolInv, LoopInv, MarkInv,
     LoopAtRest, JoinChild, MarkIdle, Quiescent, LoopAt, Settled, boxVars, callVars, feedVars,
     toolVars, turnVars
<1>7. RowInv'
  BY WaitAssumption, Markers, AskFacts DEF IInv, Core, TypeOK, ToolInv, LoopInv, MarkInv, RowInv,
     LoopAtRest, Undisturbed, AtRest, JoinChild, MarkIdle, Quiescent, LoopAt, Settled, boxVars,
     callVars, feedVars, toolVars, turnVars
<1> QED
  BY <1>1, <1>2, <1>3, <1>4, <1>5, <1>6, <1>7 DEF IInv, Core

LEMMA DeliverResultStep ==
  ASSUME IInv, DeliverResult
  PROVE  IInv'
<1>1. TypeOK'
  <2>1. /\ turn' \in {"none", "model", "tools"} /\ cancelled' \in BOOLEAN
        /\ buffered' \subseteq Frame /\ armed' \in BOOLEAN
        /\ children' \subseteq Child
        /\ loop' \in {"select", "deliver", "kick", "start"} /\ routing' \in Frame \cup {None}
        /\ inbox' \subseteq sent' /\ sent' \subseteq Frame
    BY DEF IInv, Core, LoopInv, TypeOK, Frame, DeliverResult, BeginTurn, LoopAt, turnVars,
       boxVars, treeVars, callVars, toolVars
  <2>2. /\ tool' \in {"off", "ask", "scan", "register", "block", "release", "exited"}
        /\ listed' \subseteq Child /\ wanted' \subseteq Child /\ collected' \subseteq Child
        /\ feed' \in BOOLEAN
    BY DEF IInv, TypeOK, Frame, DeliverResult, BeginTurn, LoopAt, turnVars, boxVars, treeVars,
       callVars, toolVars
  <2>3. /\ state' \in Status /\ status' \in Status
        /\ asked' \in [Marker -> Status \cup {None}] /\ owed' \in [Marker -> Status \cup {None}]
    BY AskFacts, Markers DEF IInv, TypeOK, Frame, DeliverResult, BeginTurn, LoopAt, turnVars,
       boxVars, treeVars, callVars, toolVars
  <2>4. journal' \in [Frame -> Nat]
    BY LoggedFacts DEF IInv, TypeOK, DeliverResult, BeginTurn, LoopAt, turnVars, boxVars,
       treeVars, callVars, toolVars
  <2>5. feedCh' \in Seq(Frame) /\ room' \in Nat
    <3>1. routing \in Frame
      BY DEF IInv, Core, LoopInv, DeliverResult, LoopAt, Frame
    <3>2. feedCh \in Seq(Frame) /\ room \in Nat
      BY DEF IInv, TypeOK
    <3>3. feedCh' \in {feedCh, Append(feedCh, routing)} /\ room' = room
      BY <3>1, <3>2, FedFacts DEF DeliverResult
    <3> QED
      BY <3>1, <3>2, <3>3, AppendFacts
  <2> QED
    BY <2>1, <2>2, <2>3, <2>4, <2>5 DEF TypeOK
<1>2. ToolInv'
  BY WaitAssumption DEF IInv, Core, ToolInv, DeliverResult, BeginTurn, LoopAt, boxVars, callVars,
     toolVars, treeVars, turnVars
<1>3. LoopInv'
  BY WaitAssumption DEF IInv, Core, TypeOK, LoopInv, DeliverResult, BeginTurn, LoopAt, Settled,
     boxVars, callVars, toolVars, treeVars, turnVars
<1>4. PlaceInv'
  <2> DEFINE c == routing
  <2>1. /\ c \in Child /\ c \in Frame /\ c \in sent \ (inbox \cup buffered) /\ journal[c] = 0
        /\ \A i \in 1 .. Len(feedCh) : feedCh[i] # c
    BY WaitAssumption DEF IInv, Core, TypeOK, LoopInv, PlaceInv, DeliverResult, LoopAt, Frame
  <2>2. inbox' = inbox /\ sent' = sent /\ routing' = None /\ feedCh \in Seq(Frame)
    BY DEF IInv, TypeOK, DeliverResult, treeVars
  <2>3. \/ /\ feedCh' \in {feedCh, Append(feedCh, c)}
           /\ buffered' = buffered /\ journal' = journal
        \/ feedCh' = feedCh /\ buffered' = buffered \cup {c} /\ journal' = journal
        \/ feedCh' = feedCh /\ buffered' = buffered /\ journal' = Logged({c})
    BY <2>1, <2>2, FedFacts DEF DeliverResult, BeginTurn, boxVars
  <2>4. \A f \in inbox \cup buffered : f \in Frame
    BY DEF IInv, TypeOK
  <2>5. CASE feedCh' = feedCh /\ buffered' = buffered /\ journal' = journal
    BY <2>1, <2>2, <2>5, WaitAssumption DEF IInv, Core, PlaceInv
  <2>6. CASE feedCh' = Append(feedCh, c) /\ buffered' = buffered /\ journal' = journal
    <3>1. /\ Len(feedCh') = Len(feedCh) + 1 /\ Len(feedCh) \in Nat
          /\ \A i \in 1 .. Len(feedCh) : feedCh'[i] = feedCh[i]
          /\ feedCh'[Len(feedCh) + 1] = c
      BY <2>1, <2>2, <2>6, AppendFacts
    <3> QED
      BY <2>1, <2>2, <2>6, <3>1, WaitAssumption DEF IInv, Core, PlaceInv
  <2>7. CASE feedCh' = feedCh /\ buffered' = buffered \cup {c} /\ journal' = journal
    BY <2>1, <2>2, <2>7, WaitAssumption DEF IInv, Core, PlaceInv
  <2>8. CASE feedCh' = feedCh /\ buffered' = buffered /\ journal' = Logged({c})
    <3>1. \A f \in Frame : f # c => journal'[f] = journal[f]
      BY <2>8, LoggedFacts DEF IInv, TypeOK
    <3>2. \A i \in 1 .. Len(feedCh) : feedCh[i] \in Child => journal'[feedCh[i]] = 0
      BY <2>1, <3>1 DEF IInv, Core, PlaceInv, Frame
    <3>3. (\A f \in inbox \cup buffered : journal'[f] = 0) /\ \A f \in Frame \ sent : journal'[f] = 0
      BY <2>1, <2>4, <3>1 DEF IInv, Core, PlaceInv
    <3>4. \A i \in 1 .. Len(feedCh) : feedCh[i] \in Child => feedCh[i] # None
      BY WaitAssumption
    <3> QED
      BY <2>2, <2>8, <3>2, <3>3, <3>4 DEF IInv, Core, PlaceInv
  <2> QED
    BY <2>3, <2>5, <2>6, <2>7, <2>8
<1>5. LogExact'
  <2>1. routing \in Child /\ routing \in Frame /\ routing \notin Message /\ journal[routing] = 0
    BY WaitAssumption DEF IInv, Core, LoopInv, PlaceInv, DeliverResult, LoopAt, Frame
  <2>2. /\ inbox' = inbox /\ sent' = sent /\ routing' = None
        /\ cancelled' = cancelled /\ collected' = collected
        /\ buffered \subseteq buffered'
        /\ journal' \in {journal, Logged({routing})}
    BY DEF DeliverResult, BeginTurn, boxVars, turnVars, treeVars, callVars, toolVars
  <2>3. \A f \in Frame : journal'[f] = IF journal' # journal /\ f = routing THEN 1 ELSE journal[f]
    BY <2>1, <2>2, LoggedFacts DEF IInv, TypeOK
  <2>4. \A f \in Frame : journal[f] <= 1 /\ journal'[f] <= 1 /\ (journal[f] = 1 => journal'[f] = 1)
    BY <2>1, <2>3 DEF IInv, Core, LogExact
  <2>5. collected \subseteq Frame /\ Message \subseteq Frame
    BY DEF IInv, TypeOK, Frame
  <2> QED
    BY <2>1, <2>2, <2>4, <2>5 DEF IInv, Core, LogExact
<1>6. MarkInv'
  BY WaitAssumption, Markers, AskFacts DEF IInv, Core, TypeOK, ToolInv, LoopInv, MarkInv,
     LoopAtRest, DeliverResult, BeginTurn, LoopAt, Settled, boxVars, callVars, toolVars,
     treeVars, turnVars
<1>7. RowInv'
  BY WaitAssumption, Markers, AskFacts DEF IInv, Core, TypeOK, ToolInv, LoopInv, MarkInv, RowInv,
     LoopAtRest, Undisturbed, AtRest, DeliverResult, BeginTurn, LoopAt, Settled, boxVars,
     callVars, toolVars, treeVars, turnVars
<1> QED
  BY <1>1, <1>2, <1>3, <1>4, <1>5, <1>6, <1>7 DEF IInv, Core

LEMMA CallToolsStep ==
  ASSUME IInv, CallTools
  PROVE  IInv'
<1>1. TypeOK'
  BY DEF IInv, TypeOK, CallTools, boxVars, feedVars, loopVars, markVars, toolVars, treeVars
<1>2. ToolInv'
  BY WaitAssumption DEF IInv, Core, ToolInv, CallTools, LoopAt, boxVars, feedVars, loopVars,
     markVars, toolVars, treeVars
<1>3. LoopInv'
  BY WaitAssumption DEF IInv, Core, TypeOK, LoopInv, CallTools, LoopAt, Settled, boxVars,
     feedVars, loopVars, markVars, toolVars, treeVars
<1>4. PlaceInv'
  BY DEF IInv, Core, TypeOK, PlaceInv, CallTools, LoopAt, boxVars, feedVars, loopVars, markVars,
     toolVars, treeVars
<1>5. LogExact'
  BY DEF IInv, Core, TypeOK, ToolInv, PlaceInv, LogExact, CallTools, LoopAt, boxVars, feedVars,
     loopVars, markVars, toolVars, treeVars
<1>6. MarkInv'
  BY WaitAssumption, Markers DEF IInv, Core, TypeOK, ToolInv, LoopInv, MarkInv, LoopAtRest,
     CallTools, LoopAt, Settled, boxVars, feedVars, loopVars, markVars, toolVars, treeVars
<1>7. RowInv'
  BY WaitAssumption, Markers DEF IInv, Core, TypeOK, ToolInv, LoopInv, MarkInv, RowInv,
     LoopAtRest, Undisturbed, AtRest, CallTools, LoopAt, Settled, boxVars, feedVars, loopVars,
     markVars, toolVars, treeVars
<1> QED
  BY <1>1, <1>2, <1>3, <1>4, <1>5, <1>6, <1>7 DEF IInv, Core

LEMMA NextIterationStep ==
  ASSUME IInv, NextIteration
  PROVE  IInv'
<1>1. TypeOK'
  BY LoggedFacts, AskFacts, Markers DEF IInv, TypeOK, NextIteration, Drain, feedVars, loopVars,
     markVars, toolVars, treeVars, Frame
<1>2. ToolInv'
  BY WaitAssumption DEF IInv, Core, ToolInv, NextIteration, Drain, LoopAt, CallAt, feedVars,
     loopVars, markVars, toolVars, treeVars
<1>3. LoopInv'
  BY WaitAssumption DEF IInv, Core, TypeOK, LoopInv, NextIteration, Drain, LoopAt, CallAt,
     Settled, feedVars, loopVars, markVars, toolVars, treeVars
<1>4. PlaceInv'
  <2>1. /\ buffered' = {} /\ inbox' = inbox /\ sent' = sent /\ routing' = routing
        /\ feedCh' = feedCh
        /\ \A f \in Frame \ buffered : journal'[f] = journal[f]
    BY LoggedFacts DEF IInv, TypeOK, NextIteration, Drain, treeVars, feedVars, loopVars, callVars,
       toolVars
  <2>2. inbox \subseteq Frame /\ (routing # None => routing \in Frame)
    BY DEF IInv, TypeOK, Frame
  <2> QED
    BY <2>1, <2>2 DEF IInv, Core, PlaceInv, Frame
<1>5. LogExact'
  BY LoggedFacts, WaitAssumption DEF IInv, Core, TypeOK, ToolInv, PlaceInv, LogExact,
     NextIteration, Drain, LoopAt, CallAt, feedVars, loopVars, markVars, toolVars, treeVars,
     LoopInv, Frame
<1>6. MarkInv'
  BY WaitAssumption, Markers DEF IInv, Core, TypeOK, ToolInv, LoopInv, MarkInv, LoopAtRest,
     NextIteration, Drain, LoopAt, CallAt, Settled, feedVars, loopVars, markVars, toolVars,
     treeVars
<1>7. RowInv'
  BY WaitAssumption, Markers DEF IInv, Core, TypeOK, ToolInv, LoopInv, MarkInv, RowInv,
     LoopAtRest, Undisturbed, AtRest, NextIteration, Drain, LoopAt, CallAt, Settled, feedVars,
     loopVars, markVars, toolVars, treeVars
<1> QED
  BY <1>1, <1>2, <1>3, <1>4, <1>5, <1>6, <1>7 DEF IInv, Core

LEMMA FinishTurnStep ==
  ASSUME IInv, FinishTurn
  PROVE  IInv'
<1>1. TypeOK'
  BY LoggedFacts, AskFacts, Markers DEF IInv, TypeOK, FinishTurn, MarkIdle, Quiescent, Drain,
     callVars, feedVars, toolVars, treeVars, Frame
<1>2. ToolInv'
  BY WaitAssumption DEF IInv, Core, ToolInv, FinishTurn, MarkIdle, Quiescent, Drain, LoopAt,
     callVars, feedVars, toolVars, treeVars
<1>3. LoopInv'
  BY WaitAssumption DEF IInv, Core, TypeOK, LoopInv, FinishTurn, MarkIdle, Quiescent, Drain,
     LoopAt, Settled, callVars, feedVars, toolVars, treeVars
<1>4. PlaceInv'
  <2>1. /\ buffered' = {} /\ inbox' = inbox /\ sent' = sent /\ routing' = routing
        /\ feedCh' = feedCh
        /\ \A f \in Frame \ buffered : journal'[f] = journal[f]
    BY LoggedFacts DEF IInv, TypeOK, FinishTurn, Drain, treeVars, feedVars, loopVars, callVars,
       toolVars
  <2>2. inbox \subseteq Frame /\ (routing # None => routing \in Frame)
    BY DEF IInv, TypeOK, Frame
  <2> QED
    BY <2>1, <2>2 DEF IInv, Core, PlaceInv, Frame
<1>5. LogExact'
  BY LoggedFacts, WaitAssumption DEF IInv, Core, TypeOK, ToolInv, PlaceInv, LogExact, FinishTurn,
     MarkIdle, Quiescent, Drain, LoopAt, callVars, feedVars, toolVars, treeVars, LoopInv, Frame
<1>6. MarkInv'
  BY WaitAssumption, Markers, AskFacts DEF IInv, Core, TypeOK, ToolInv, LoopInv, MarkInv,
     LoopAtRest, FinishTurn, MarkIdle, Quiescent, Drain, LoopAt, Settled, callVars, feedVars,
     toolVars, treeVars
<1>7. RowInv'
  BY WaitAssumption, Markers, AskFacts DEF IInv, Core, TypeOK, ToolInv, LoopInv, MarkInv, RowInv,
     LoopAtRest, Undisturbed, AtRest, FinishTurn, MarkIdle, Quiescent, Drain, LoopAt, Settled,
     callVars, feedVars, toolVars, treeVars
<1> QED
  BY <1>1, <1>2, <1>3, <1>4, <1>5, <1>6, <1>7 DEF IInv, Core

LEMMA KickSummaryStep ==
  ASSUME IInv, KickSummary
  PROVE  IInv'
<1>1. TypeOK'
  BY AskFacts, Markers DEF IInv, TypeOK, KickSummary, BeginTurn, boxVars, callVars, feedVars,
     toolVars, treeVars, turnVars
<1>2. ToolInv'
  BY WaitAssumption DEF IInv, Core, ToolInv, KickSummary, BeginTurn, LoopAt, boxVars, callVars,
     feedVars, toolVars, treeVars, turnVars
<1>3. LoopInv'
  BY WaitAssumption DEF IInv, Core, TypeOK, LoopInv, KickSummary, BeginTurn, LoopAt, Settled,
     boxVars, callVars, feedVars, toolVars, treeVars, turnVars
<1>4. PlaceInv'
  BY DEF IInv, Core, TypeOK, PlaceInv, KickSummary, BeginTurn, LoopAt, boxVars, callVars,
     feedVars, toolVars, treeVars, turnVars
<1>5. LogExact'
  BY DEF IInv, Core, TypeOK, ToolInv, PlaceInv, LogExact, KickSummary, BeginTurn, LoopAt, boxVars,
     callVars, feedVars, toolVars, treeVars, turnVars
<1>6. MarkInv'
  BY WaitAssumption, Markers, AskFacts DEF IInv, Core, TypeOK, ToolInv, LoopInv, MarkInv,
     LoopAtRest, KickSummary, BeginTurn, LoopAt, Settled, boxVars, callVars, feedVars, toolVars,
     treeVars, turnVars
<1>7. RowInv'
  BY WaitAssumption, Markers, AskFacts DEF IInv, Core, TypeOK, ToolInv, LoopInv, MarkInv, RowInv,
     LoopAtRest, Undisturbed, AtRest, KickSummary, BeginTurn, LoopAt, Settled, boxVars,
     callVars, feedVars, toolVars, treeVars, turnVars
<1> QED
  BY <1>1, <1>2, <1>3, <1>4, <1>5, <1>6, <1>7 DEF IInv, Core

LEMMA AbandonTurnStep ==
  ASSUME IInv, AbandonTurn
  PROVE  IInv'
<1>1. TypeOK'
  BY AskFacts, Markers DEF IInv, TypeOK, AbandonTurn, MarkIdle, Quiescent, boxVars, feedVars,
     loopVars, toolVars, treeVars
<1>2. ToolInv'
  BY WaitAssumption DEF IInv, Core, ToolInv, AbandonTurn, MarkIdle, Quiescent, LoopAt, CallAt,
     boxVars, feedVars, loopVars, toolVars, treeVars
<1>3. LoopInv'
  BY WaitAssumption DEF IInv, Core, TypeOK, LoopInv, AbandonTurn, MarkIdle, Quiescent, LoopAt,
     CallAt, Settled, boxVars, feedVars, loopVars, toolVars, treeVars
<1>4. PlaceInv'
  BY DEF IInv, Core, TypeOK, PlaceInv, AbandonTurn, MarkIdle, Quiescent, LoopAt, CallAt, boxVars,
     feedVars, loopVars, toolVars, treeVars
<1>5. LogExact'
  BY DEF IInv, Core, TypeOK, ToolInv, PlaceInv, LogExact, AbandonTurn, MarkIdle, Quiescent,
     LoopAt, CallAt, boxVars, feedVars, loopVars, toolVars, treeVars
<1>6. MarkInv'
  BY WaitAssumption, Markers, AskFacts DEF IInv, Core, TypeOK, ToolInv, LoopInv, MarkInv,
     LoopAtRest, AbandonTurn, MarkIdle, Quiescent, LoopAt, CallAt, Settled, boxVars, feedVars,
     loopVars, toolVars, treeVars
<1>7. RowInv'
  BY WaitAssumption, Markers, AskFacts DEF IInv, Core, TypeOK, ToolInv, LoopInv, MarkInv, RowInv,
     LoopAtRest, Undisturbed, AtRest, AbandonTurn, MarkIdle, Quiescent, LoopAt, CallAt, Settled,
     boxVars, feedVars, loopVars, toolVars, treeVars
<1> QED
  BY <1>1, <1>2, <1>3, <1>4, <1>5, <1>6, <1>7 DEF IInv, Core

LEMMA CancelTurnStep ==
  ASSUME IInv, CancelTurn
  PROVE  IInv'
<1>1. TypeOK'
  BY DEF IInv, TypeOK, CancelTurn, boxVars, callVars, feedVars, loopVars, markVars, toolVars,
     treeVars
<1>2. ToolInv'
  BY WaitAssumption DEF IInv, Core, ToolInv, CancelTurn, LoopAt, boxVars, callVars, feedVars,
     loopVars, markVars, toolVars, treeVars
<1>3. LoopInv'
  BY WaitAssumption DEF IInv, Core, TypeOK, LoopInv, CancelTurn, LoopAt, Settled, boxVars,
     callVars, feedVars, loopVars, markVars, toolVars, treeVars
<1>4. PlaceInv'
  BY DEF IInv, Core, TypeOK, PlaceInv, CancelTurn, LoopAt, boxVars, callVars, feedVars, loopVars,
     markVars, toolVars, treeVars
<1>5. LogExact'
  BY DEF IInv, Core, TypeOK, ToolInv, PlaceInv, LogExact, CancelTurn, LoopAt, boxVars, callVars,
     feedVars, loopVars, markVars, toolVars, treeVars
<1>6. MarkInv'
  BY WaitAssumption, Markers DEF IInv, Core, TypeOK, ToolInv, LoopInv, MarkInv, LoopAtRest,
     CancelTurn, LoopAt, Settled, boxVars, callVars, feedVars, loopVars, markVars, toolVars,
     treeVars
<1>7. RowInv'
  BY WaitAssumption, Markers DEF IInv, Core, TypeOK, ToolInv, LoopInv, MarkInv, RowInv,
     LoopAtRest, Undisturbed, AtRest, CancelTurn, LoopAt, Settled, boxVars, callVars, feedVars,
     loopVars, markVars, toolVars, treeVars
<1> QED
  BY <1>1, <1>2, <1>3, <1>4, <1>5, <1>6, <1>7 DEF IInv, Core

LEMMA SpawnStep ==
  ASSUME IInv, NEW c \in Child, Spawn(c)
  PROVE  IInv'
<1>1. TypeOK'
  BY MarkFacts, Markers DEF IInv, TypeOK, Spawn, boxVars, callVars, feedVars, loopVars, toolVars,
     turnVars
<1>2. ToolInv'
  BY WaitAssumption DEF IInv, Core, ToolInv, Spawn, CallAt, boxVars, callVars, feedVars, loopVars,
     toolVars, turnVars
<1>3. LoopInv'
  BY WaitAssumption DEF IInv, Core, TypeOK, LoopInv, Spawn, CallAt, Settled, boxVars, callVars,
     feedVars, loopVars, toolVars, turnVars
<1>4. PlaceInv'
  BY DEF IInv, Core, TypeOK, PlaceInv, Spawn, CallAt, boxVars, callVars, feedVars, loopVars,
     toolVars, turnVars
<1>5. LogExact'
  BY DEF IInv, Core, TypeOK, ToolInv, PlaceInv, LogExact, Spawn, CallAt, boxVars, callVars,
     feedVars, loopVars, toolVars, turnVars
<1>6. MarkInv'
  BY WaitAssumption, Markers, MarkFacts DEF IInv, Core, TypeOK, ToolInv, LoopInv, MarkInv,
     LoopAtRest, Spawn, CallAt, Settled, boxVars, callVars, feedVars, loopVars, toolVars,
     turnVars
<1>7. RowInv'
  BY WaitAssumption, Markers, MarkFacts DEF IInv, Core, TypeOK, ToolInv, LoopInv, MarkInv, RowInv,
     LoopAtRest, Undisturbed, AtRest, Spawn, CallAt, Settled, boxVars, callVars, feedVars,
     loopVars, toolVars, turnVars
<1> QED
  BY <1>1, <1>2, <1>3, <1>4, <1>5, <1>6, <1>7 DEF IInv, Core

LEMMA SpawnBesideStep ==
  ASSUME IInv, NEW c \in Child, SpawnBeside(c)
  PROVE  IInv'
<1>1. TypeOK'
  BY AskFacts, Markers DEF IInv, TypeOK, SpawnBeside, boxVars, callVars, feedVars, loopVars,
     toolVars, turnVars
<1>2. ToolInv'
  BY WaitAssumption DEF IInv, Core, ToolInv, SpawnBeside, boxVars, callVars, feedVars, loopVars,
     toolVars, turnVars
<1>3. LoopInv'
  BY WaitAssumption DEF IInv, Core, TypeOK, LoopInv, SpawnBeside, Settled, boxVars, callVars,
     feedVars, loopVars, toolVars, turnVars
<1>4. PlaceInv'
  BY DEF IInv, Core, TypeOK, PlaceInv, SpawnBeside, boxVars, callVars, feedVars, loopVars,
     toolVars, turnVars
<1>5. LogExact'
  BY DEF IInv, Core, TypeOK, ToolInv, PlaceInv, LogExact, SpawnBeside, boxVars, callVars,
     feedVars, loopVars, toolVars, turnVars
<1>6. MarkInv'
  BY WaitAssumption, Markers, AskFacts DEF IInv, Core, TypeOK, ToolInv, LoopInv, MarkInv,
     LoopAtRest, SpawnBeside, Settled, boxVars, callVars, feedVars, loopVars, toolVars, turnVars
<1>7. RowInv'
  BY WaitAssumption, Markers, AskFacts DEF IInv, Core, TypeOK, ToolInv, LoopInv, MarkInv, RowInv,
     LoopAtRest, Undisturbed, AtRest, SpawnBeside, Settled, boxVars, callVars, feedVars,
     loopVars, toolVars, turnVars
<1> QED
  BY <1>1, <1>2, <1>3, <1>4, <1>5, <1>6, <1>7 DEF IInv, Core

LEMMA OtherToolsStep ==
  ASSUME IInv, OtherTools
  PROVE  IInv'
<1>1. TypeOK'
  BY DEF IInv, TypeOK, OtherTools, boxVars, feedVars, loopVars, markVars, toolVars, treeVars,
     turnVars
<1>2. ToolInv'
  BY WaitAssumption DEF IInv, Core, ToolInv, OtherTools, CallAt, boxVars, feedVars, loopVars,
     markVars, toolVars, treeVars, turnVars
<1>3. LoopInv'
  BY WaitAssumption DEF IInv, Core, TypeOK, LoopInv, OtherTools, CallAt, Settled, boxVars,
     feedVars, loopVars, markVars, toolVars, treeVars, turnVars
<1>4. PlaceInv'
  BY DEF IInv, Core, TypeOK, PlaceInv, OtherTools, CallAt, boxVars, feedVars, loopVars, markVars,
     toolVars, treeVars, turnVars
<1>5. LogExact'
  BY DEF IInv, Core, TypeOK, ToolInv, PlaceInv, LogExact, OtherTools, CallAt, boxVars, feedVars,
     loopVars, markVars, toolVars, treeVars, turnVars
<1>6. MarkInv'
  BY WaitAssumption, Markers DEF IInv, Core, TypeOK, ToolInv, LoopInv, MarkInv, LoopAtRest,
     OtherTools, CallAt, Settled, boxVars, feedVars, loopVars, markVars, toolVars, treeVars,
     turnVars
<1>7. RowInv'
  BY WaitAssumption, Markers DEF IInv, Core, TypeOK, ToolInv, LoopInv, MarkInv, RowInv,
     LoopAtRest, Undisturbed, AtRest, OtherTools, CallAt, Settled, boxVars, feedVars, loopVars,
     markVars, toolVars, treeVars, turnVars
<1> QED
  BY <1>1, <1>2, <1>3, <1>4, <1>5, <1>6, <1>7 DEF IInv, Core

LEMMA ListChildrenStep ==
  ASSUME IInv, ListChildren
  PROVE  IInv'
<1>1. TypeOK'
  BY DEF IInv, TypeOK, ListChildren, Return, boxVars, feedVars, loopVars, markVars, treeVars,
     turnVars
<1>2. ToolInv'
  BY WaitAssumption DEF IInv, Core, ToolInv, ListChildren, Return, CallAt, boxVars, feedVars,
     loopVars, markVars, treeVars, turnVars
<1>3. LoopInv'
  BY WaitAssumption DEF IInv, Core, TypeOK, LoopInv, ListChildren, Return, CallAt, Settled,
     boxVars, feedVars, loopVars, markVars, treeVars, turnVars
<1>4. PlaceInv'
  BY DEF IInv, Core, TypeOK, PlaceInv, ListChildren, Return, CallAt, boxVars, feedVars, loopVars,
     markVars, treeVars, turnVars
<1>5. LogExact'
  BY DEF IInv, Core, TypeOK, ToolInv, PlaceInv, LogExact, ListChildren, Return, CallAt, boxVars,
     feedVars, loopVars, markVars, treeVars, turnVars
<1>6. MarkInv'
  BY WaitAssumption, Markers DEF IInv, Core, TypeOK, ToolInv, LoopInv, MarkInv, LoopAtRest,
     ListChildren, Return, CallAt, Settled, boxVars, feedVars, loopVars, markVars, treeVars,
     turnVars
<1>7. RowInv'
  BY WaitAssumption, Markers DEF IInv, Core, TypeOK, ToolInv, LoopInv, MarkInv, RowInv,
     LoopAtRest, Undisturbed, AtRest, ListChildren, Return, CallAt, Settled, boxVars, feedVars,
     loopVars, markVars, treeVars, turnVars
<1> QED
  BY <1>1, <1>2, <1>3, <1>4, <1>5, <1>6, <1>7 DEF IInv, Core

LEMMA ScanLogStep ==
  ASSUME IInv, ScanLog
  PROVE  IInv'
<1>1. TypeOK'
  BY DEF IInv, TypeOK, ScanLog, Return, boxVars, feedVars, loopVars, markVars, treeVars, turnVars
<1>2. ToolInv'
  BY WaitAssumption DEF IInv, Core, ToolInv, ScanLog, Return, boxVars, feedVars, loopVars,
     markVars, treeVars, turnVars
<1>3. LoopInv'
  BY WaitAssumption DEF IInv, Core, TypeOK, LoopInv, ScanLog, Return, boxVars, feedVars, loopVars,
     markVars, treeVars, turnVars
<1>4. PlaceInv'
  BY DEF IInv, Core, TypeOK, PlaceInv, ScanLog, Return, boxVars, feedVars, loopVars, markVars,
     treeVars, turnVars
<1>5. LogExact'
  BY DEF IInv, Core, TypeOK, ToolInv, PlaceInv, LogExact, ScanLog, Return, boxVars, feedVars,
     loopVars, markVars, treeVars, turnVars, Frame
<1>6. MarkInv'
  BY WaitAssumption, Markers DEF IInv, Core, TypeOK, ToolInv, LoopInv, MarkInv, LoopAtRest,
     ScanLog, Return, boxVars, feedVars, loopVars, markVars, treeVars, turnVars, Settled
<1>7. RowInv'
  BY WaitAssumption, Markers DEF IInv, Core, TypeOK, ToolInv, LoopInv, MarkInv, RowInv,
     LoopAtRest, Undisturbed, AtRest, ScanLog, Return, boxVars, feedVars, loopVars, markVars,
     treeVars, turnVars, Settled
<1> QED
  BY <1>1, <1>2, <1>3, <1>4, <1>5, <1>6, <1>7 DEF IInv, Core

LEMMA RegisterFeedStep ==
  ASSUME IInv, RegisterFeed
  PROVE  IInv'
<1>1. TypeOK'
  <2>1. /\ turn' \in {"none", "model", "tools"} /\ cancelled' \in BOOLEAN
        /\ buffered' \subseteq Frame /\ armed' \in BOOLEAN
        /\ children' \subseteq Child
        /\ loop' \in {"select", "deliver", "kick", "start"} /\ routing' \in Frame \cup {None}
        /\ inbox' \subseteq sent' /\ sent' \subseteq Frame
    BY DEF IInv, TypeOK, Frame, RegisterFeed, turnVars, boxVars, loopVars, treeVars, toolVars
  <2>2. /\ tool' \in {"off", "ask", "scan", "register", "block", "release", "exited"}
        /\ listed' \subseteq Child /\ wanted' \subseteq Child /\ collected' \subseteq Child
        /\ feed' \in BOOLEAN
    BY DEF IInv, TypeOK, Frame, RegisterFeed, turnVars, boxVars, loopVars, treeVars, toolVars
  <2>3. /\ state' \in Status /\ status' \in Status
        /\ asked' \in [Marker -> Status \cup {None}] /\ owed' \in [Marker -> Status \cup {None}]
    BY MarkFacts, Markers DEF IInv, TypeOK, Frame, RegisterFeed, turnVars, boxVars, loopVars,
       treeVars, toolVars
  <2>4. journal' \in [Frame -> Nat]
    BY LoggedFacts DEF IInv, TypeOK, RegisterFeed, turnVars, boxVars, loopVars, treeVars, toolVars
  <2>5. feedCh' \in Seq(Frame) /\ room' \in Nat
    <3>1. Cardinality(wanted) \in Nat
      BY WaitAssumption, FS_Subset, FS_CardinalityType DEF IInv, TypeOK
    <3> QED
      BY <3>1 DEF RegisterFeed
  <2> QED
    BY <2>1, <2>2, <2>3, <2>4, <2>5 DEF TypeOK
<1>2. ToolInv'
  BY WaitAssumption DEF IInv, Core, ToolInv, RegisterFeed, boxVars, loopVars, toolVars, treeVars,
     turnVars
<1>3. LoopInv'
  BY WaitAssumption DEF IInv, Core, TypeOK, LoopInv, RegisterFeed, boxVars, loopVars, toolVars,
     treeVars, turnVars
<1>4. PlaceInv'
  BY DEF IInv, Core, TypeOK, PlaceInv, RegisterFeed, boxVars, loopVars, toolVars, treeVars,
     turnVars
<1>5. LogExact'
  BY DEF IInv, Core, TypeOK, ToolInv, PlaceInv, LogExact, RegisterFeed, boxVars, loopVars,
     toolVars, treeVars, turnVars
<1>6. MarkInv'
  BY WaitAssumption, Markers, MarkFacts DEF IInv, Core, TypeOK, ToolInv, LoopInv, MarkInv,
     LoopAtRest, RegisterFeed, boxVars, loopVars, toolVars, treeVars, turnVars, Settled
<1>7. RowInv'
  BY WaitAssumption, Markers, MarkFacts DEF IInv, Core, TypeOK, ToolInv, LoopInv, MarkInv, RowInv,
     LoopAtRest, Undisturbed, AtRest, RegisterFeed, boxVars, loopVars, toolVars, treeVars,
     turnVars, Settled
<1> QED
  BY <1>1, <1>2, <1>3, <1>4, <1>5, <1>6, <1>7 DEF IInv, Core

LEMMA TakeFrameStep ==
  ASSUME IInv, TakeFrame
  PROVE  IInv'
<1>1. TypeOK'
  <2>1. /\ turn' \in {"none", "model", "tools"} /\ cancelled' \in BOOLEAN
        /\ buffered' \subseteq Frame /\ armed' \in BOOLEAN
        /\ children' \subseteq Child
        /\ loop' \in {"select", "deliver", "kick", "start"} /\ routing' \in Frame \cup {None}
        /\ inbox' \subseteq sent' /\ sent' \subseteq Frame
    BY DEF IInv, TypeOK, Frame, TakeFrame, PersistResult, turnVars, markVars, loopVars, treeVars
  <2>2. /\ tool' \in {"off", "ask", "scan", "register", "block", "release", "exited"}
        /\ listed' \subseteq Child /\ wanted' \subseteq Child /\ collected' \subseteq Child
        /\ feed' \in BOOLEAN
    BY DEF IInv, TypeOK, Frame, TakeFrame, PersistResult, turnVars, markVars, loopVars, treeVars
  <2>3. /\ state' \in Status /\ status' \in Status
        /\ asked' \in [Marker -> Status \cup {None}] /\ owed' \in [Marker -> Status \cup {None}]
    BY Zenon DEF IInv, TypeOK, Frame, TakeFrame, PersistResult, turnVars, markVars, loopVars,
       treeVars
  <2>4. journal' \in [Frame -> Nat]
    BY LoggedFacts DEF IInv, TypeOK, TakeFrame, PersistResult, turnVars, markVars, loopVars,
       treeVars
  <2>5. feedCh' \in Seq(Frame) /\ room' \in Nat
    BY TailFacts DEF IInv, TypeOK, TakeFrame
  <2> QED
    BY <2>1, <2>2, <2>3, <2>4, <2>5 DEF TypeOK
<1>2. ToolInv'
  BY WaitAssumption DEF IInv, Core, ToolInv, TakeFrame, PersistResult, CallAt, loopVars, markVars,
     treeVars, turnVars
<1>3. LoopInv'
  BY WaitAssumption DEF IInv, Core, TypeOK, LoopInv, TakeFrame, PersistResult, CallAt, Settled,
     loopVars, markVars, treeVars, turnVars
<1>4. PlaceInv'
  <2> DEFINE h == Head(feedCh)
             n == Len(feedCh)
  <2>1. /\ n \in Nat /\ n > 0 /\ h = feedCh[1] /\ h \in Frame
        /\ Len(feedCh') = n - 1 /\ \A i \in 1 .. n - 1 : feedCh'[i] = feedCh[i + 1]
    BY TailFacts DEF IInv, TypeOK, TakeFrame
  <2>2. h \in wanted => h \in Child
    BY DEF IInv, TypeOK
  <2>3. \A f \in Frame : journal'[f] = journal[f] \/ (f = h /\ h \in Child)
    BY <2>2, LoggedFacts DEF IInv, TypeOK, TakeFrame, PersistResult
  <2>4. /\ inbox' = inbox /\ buffered' = buffered /\ sent' = sent /\ routing' = routing
    BY DEF TakeFrame, treeVars, loopVars
  <2>5. h \in Child => h \in sent \ (inbox \cup buffered) /\ h # routing
                      /\ \A j \in 1 .. n : feedCh[j] = h => j = 1
    BY <2>1 DEF IInv, Core, PlaceInv
  <2>6. \A i \in 1 .. n - 1 : feedCh'[i] \in Child =>
          /\ feedCh'[i] \in sent \ (inbox \cup buffered)
          /\ feedCh'[i] # routing /\ journal[feedCh'[i]] = 0 /\ feedCh'[i] # h
          /\ \A j \in 1 .. n - 1 : feedCh'[j] = feedCh'[i] => j = i
    <3> TAKE i \in 1 .. n - 1
    <3> HAVE feedCh'[i] \in Child
    <3>1. i + 1 \in 1 .. n /\ feedCh'[i] = feedCh[i + 1]
      BY <2>1
    <3>2. \A j \in 1 .. n - 1 : j + 1 \in 1 .. n /\ feedCh'[j] = feedCh[j + 1]
      BY <2>1
    <3>3. \A j \in 1 .. n : feedCh[j] = feedCh[i + 1] => j = i + 1
      BY <3>1 DEF IInv, Core, PlaceInv
    <3>4. feedCh'[i] # h
      BY <2>1, <3>1, <3>3
    <3>5. \A j \in 1 .. n - 1 : feedCh'[j] = feedCh'[i] => j = i
      BY <2>1, <3>1, <3>2, <3>3
    <3>6. /\ feedCh[i + 1] \in sent \ (inbox \cup buffered)
          /\ feedCh[i + 1] # routing /\ journal[feedCh[i + 1]] = 0
      BY <3>1 DEF IInv, Core, PlaceInv
    <3> QED
      BY <3>1, <3>4, <3>5, <3>6
  <2>7. \A f \in inbox \cup buffered : f \in Frame
    BY DEF IInv, TypeOK
  <2>8. routing \in Frame \cup {None} /\ sent \subseteq Frame
    BY DEF IInv, TypeOK
  <2> QED
    BY <2>1, <2>3, <2>4, <2>5, <2>6, <2>7, <2>8 DEF IInv, Core, PlaceInv, Frame
<1>5. LogExact'
  <2>1. Head(feedCh) \in wanted => journal[Head(feedCh)] = 0 /\ Head(feedCh) \in Frame
    BY TailFacts DEF IInv, Core, TypeOK, PlaceInv, TakeFrame, Frame
  <2>2. \/ journal' = journal /\ (collected' = collected \/ cancelled)
        \/ /\ Head(feedCh) \in wanted /\ journal' = Logged({Head(feedCh)})
           /\ collected' = collected \cup {Head(feedCh)}
    BY DEF TakeFrame, PersistResult
  <2>3. \A f \in Frame : journal'[f] <= 1 /\ (journal[f] = 1 => journal'[f] = 1)
    BY <2>1, <2>2, LoggedFacts DEF IInv, Core, TypeOK, LogExact
  <2>4. cancelled' = cancelled /\ inbox' = inbox /\ buffered' = buffered /\ sent' = sent /\ routing' = routing
    BY DEF TakeFrame, turnVars, treeVars, loopVars
  <2>5. ~cancelled => \A c \in collected' : journal'[c] = 1
    BY <2>1, <2>2, <2>3, LoggedFacts DEF IInv, Core, TypeOK, LogExact, Frame
  <2> QED
    BY <2>3, <2>4, <2>5 DEF IInv, Core, LogExact, Frame
<1>6. MarkInv'
  BY WaitAssumption, Markers DEF IInv, Core, TypeOK, ToolInv, LoopInv, MarkInv, LoopAtRest,
     TakeFrame, PersistResult, CallAt, Settled, loopVars, markVars, treeVars, turnVars
<1>7. RowInv'
  BY WaitAssumption, Markers DEF IInv, Core, TypeOK, ToolInv, LoopInv, MarkInv, RowInv,
     LoopAtRest, Undisturbed, AtRest, TakeFrame, PersistResult, CallAt, Settled, loopVars,
     markVars, treeVars, turnVars
<1> QED
  BY <1>1, <1>2, <1>3, <1>4, <1>5, <1>6, <1>7 DEF IInv, Core

LEMMA AbortWaitStep ==
  ASSUME IInv, AbortWait
  PROVE  IInv'
<1>1. TypeOK'
  BY DEF IInv, TypeOK, AbortWait, boxVars, feedVars, loopVars, markVars, toolVars, treeVars,
     turnVars
<1>2. ToolInv'
  BY WaitAssumption DEF IInv, Core, ToolInv, AbortWait, CallAt, boxVars, feedVars, loopVars,
     markVars, toolVars, treeVars, turnVars
<1>3. LoopInv'
  BY WaitAssumption DEF IInv, Core, TypeOK, LoopInv, AbortWait, CallAt, Settled, boxVars,
     feedVars, loopVars, markVars, toolVars, treeVars, turnVars
<1>4. PlaceInv'
  BY DEF IInv, Core, TypeOK, PlaceInv, AbortWait, CallAt, boxVars, feedVars, loopVars, markVars,
     toolVars, treeVars, turnVars
<1>5. LogExact'
  BY DEF IInv, Core, TypeOK, ToolInv, PlaceInv, LogExact, AbortWait, CallAt, boxVars, feedVars,
     loopVars, markVars, toolVars, treeVars, turnVars
<1>6. MarkInv'
  BY WaitAssumption, Markers DEF IInv, Core, TypeOK, ToolInv, LoopInv, MarkInv, LoopAtRest,
     AbortWait, CallAt, Settled, boxVars, feedVars, loopVars, markVars, toolVars, treeVars,
     turnVars
<1>7. RowInv'
  BY WaitAssumption, Markers DEF IInv, Core, TypeOK, ToolInv, LoopInv, MarkInv, RowInv,
     LoopAtRest, Undisturbed, AtRest, AbortWait, CallAt, Settled, boxVars, feedVars, loopVars,
     markVars, toolVars, treeVars, turnVars
<1> QED
  BY <1>1, <1>2, <1>3, <1>4, <1>5, <1>6, <1>7 DEF IInv, Core

LEMMA ReleaseFeedStep ==
  ASSUME IInv, ReleaseFeed
  PROVE  IInv'
<1>1. TypeOK'
  <2>1. /\ turn' \in {"none", "model", "tools"} /\ cancelled' \in BOOLEAN
        /\ buffered' \subseteq Frame /\ armed' \in BOOLEAN
        /\ children' \subseteq Child
        /\ loop' \in {"select", "deliver", "kick", "start"} /\ routing' \in Frame \cup {None}
        /\ inbox' \subseteq sent' /\ sent' \subseteq Frame
    BY DEF IInv, TypeOK, Frame, ReleaseFeed, Return, turnVars, boxVars, loopVars, treeVars
  <2>2. /\ tool' \in {"off", "ask", "scan", "register", "block", "release", "exited"}
        /\ listed' \subseteq Child /\ wanted' \subseteq Child /\ collected' \subseteq Child
        /\ feed' \in BOOLEAN
    BY DEF IInv, TypeOK, Frame, ReleaseFeed, Return, turnVars, boxVars, loopVars, treeVars
  <2>3. /\ state' \in Status /\ status' \in Status
        /\ asked' \in [Marker -> Status \cup {None}] /\ owed' \in [Marker -> Status \cup {None}]
    BY MarkFacts, Markers DEF IInv, TypeOK, Frame, ReleaseFeed, Return, turnVars, boxVars,
       loopVars, treeVars
  <2>4. journal' \in [Frame -> Nat]
    BY LoggedFacts DEF IInv, TypeOK, ReleaseFeed, Return, turnVars, boxVars, loopVars, treeVars
  <2>5. feedCh' \in Seq(Frame) /\ room' \in Nat
    BY DEF ReleaseFeed
  <2> QED
    BY <2>1, <2>2, <2>3, <2>4, <2>5 DEF TypeOK
<1>2. ToolInv'
  BY WaitAssumption DEF IInv, Core, ToolInv, ReleaseFeed, Return, boxVars, loopVars, treeVars,
     turnVars
<1>3. LoopInv'
  BY WaitAssumption DEF IInv, Core, TypeOK, LoopInv, ReleaseFeed, Return, boxVars, loopVars,
     treeVars, turnVars
<1>4. PlaceInv'
  BY DEF IInv, Core, TypeOK, PlaceInv, ReleaseFeed, Return, boxVars, loopVars, treeVars, turnVars
<1>5. LogExact'
  BY DEF IInv, Core, TypeOK, ToolInv, PlaceInv, LogExact, ReleaseFeed, Return, boxVars, loopVars,
     treeVars, turnVars
<1>6. MarkInv'
  BY WaitAssumption, Markers, MarkFacts DEF IInv, Core, TypeOK, ToolInv, LoopInv, MarkInv,
     LoopAtRest, ReleaseFeed, Return, boxVars, loopVars, treeVars, turnVars, Settled
<1>7. RowInv'
  BY WaitAssumption, Markers, MarkFacts DEF IInv, Core, TypeOK, ToolInv, LoopInv, MarkInv, RowInv,
     LoopAtRest, Undisturbed, AtRest, ReleaseFeed, Return, boxVars, loopVars, treeVars,
     turnVars, Settled
<1> QED
  BY <1>1, <1>2, <1>3, <1>4, <1>5, <1>6, <1>7 DEF IInv, Core

LEMMA AnswerStep ==
  ASSUME IInv, NEW c \in Child, Answer(c)
  PROVE  IInv'
<1>1. TypeOK'
  BY DEF IInv, TypeOK, Answer, boxVars, callVars, feedVars, loopVars, markVars, toolVars,
     turnVars, Frame
<1>2. ToolInv'
  BY WaitAssumption DEF IInv, Core, ToolInv, Answer, boxVars, callVars, feedVars, loopVars,
     markVars, toolVars, turnVars
<1>3. LoopInv'
  BY WaitAssumption DEF IInv, Core, TypeOK, LoopInv, Answer, boxVars, callVars, feedVars,
     loopVars, markVars, toolVars, turnVars
<1>4. PlaceInv'
  <2>1. /\ c \in Frame \ sent /\ inbox' = inbox \cup {c} /\ sent' = sent \cup {c}
        /\ buffered' = buffered /\ routing' = routing /\ journal' = journal /\ feedCh' = feedCh
    BY DEF IInv, TypeOK, Answer, Frame, boxVars, feedVars, loopVars
  <2>2. inbox \subseteq sent /\ buffered \subseteq sent /\ journal[c] = 0
    BY <2>1 DEF IInv, Core, TypeOK, PlaceInv
  <2>3. \A i \in 1 .. Len(feedCh) : feedCh[i] \in Child => feedCh[i] # c
    BY <2>1 DEF IInv, Core, PlaceInv
  <2> QED
    BY <2>1, <2>2, <2>3 DEF IInv, Core, PlaceInv
<1>5. LogExact'
  BY DEF IInv, Core, TypeOK, ToolInv, PlaceInv, LogExact, Answer, boxVars, callVars, feedVars,
     loopVars, markVars, toolVars, turnVars
<1>6. MarkInv'
  BY WaitAssumption, Markers DEF IInv, Core, TypeOK, ToolInv, LoopInv, MarkInv, LoopAtRest,
     Answer, boxVars, callVars, feedVars, loopVars, markVars, toolVars, turnVars, Settled
<1>7. RowInv'
  BY WaitAssumption, Markers DEF IInv, Core, TypeOK, ToolInv, LoopInv, MarkInv, RowInv,
     LoopAtRest, Undisturbed, AtRest, Answer, boxVars, callVars, feedVars, loopVars, markVars,
     toolVars, turnVars, Settled
<1> QED
  BY <1>1, <1>2, <1>3, <1>4, <1>5, <1>6, <1>7 DEF IInv, Core

LEMMA SayStep ==
  ASSUME IInv, NEW m \in Message, Say(m)
  PROVE  IInv'
<1>1. TypeOK'
  BY DEF IInv, TypeOK, Say, boxVars, callVars, feedVars, loopVars, markVars, toolVars, turnVars,
     Frame
<1>2. ToolInv'
  BY WaitAssumption DEF IInv, Core, ToolInv, Say, boxVars, callVars, feedVars, loopVars, markVars,
     toolVars, turnVars
<1>3. LoopInv'
  BY WaitAssumption DEF IInv, Core, TypeOK, LoopInv, Say, boxVars, callVars, feedVars, loopVars,
     markVars, toolVars, turnVars
<1>4. PlaceInv'
  <2>1. /\ m \in Frame \ sent /\ inbox' = inbox \cup {m} /\ sent' = sent \cup {m}
        /\ buffered' = buffered /\ routing' = routing /\ journal' = journal /\ feedCh' = feedCh
    BY DEF IInv, TypeOK, Say, Frame, boxVars, feedVars, loopVars
  <2>2. inbox \subseteq sent /\ buffered \subseteq sent /\ journal[m] = 0
    BY <2>1 DEF IInv, Core, TypeOK, PlaceInv
  <2>3. \A i \in 1 .. Len(feedCh) : feedCh[i] \in Child => feedCh[i] # m
    BY <2>1 DEF IInv, Core, PlaceInv
  <2> QED
    BY <2>1, <2>2, <2>3 DEF IInv, Core, PlaceInv
<1>5. LogExact'
  BY DEF IInv, Core, TypeOK, ToolInv, PlaceInv, LogExact, Say, boxVars, callVars, feedVars,
     loopVars, markVars, toolVars, turnVars
<1>6. MarkInv'
  BY WaitAssumption, Markers DEF IInv, Core, TypeOK, ToolInv, LoopInv, MarkInv, LoopAtRest, Say,
     boxVars, callVars, feedVars, loopVars, markVars, toolVars, turnVars, Settled
<1>7. RowInv'
  BY WaitAssumption, Markers DEF IInv, Core, TypeOK, ToolInv, LoopInv, MarkInv, RowInv,
     LoopAtRest, Undisturbed, AtRest, Say, boxVars, callVars, feedVars, loopVars, markVars,
     toolVars, turnVars, Settled
<1> QED
  BY <1>1, <1>2, <1>3, <1>4, <1>5, <1>6, <1>7 DEF IInv, Core

LEMMA MarkStatusStep ==
  ASSUME IInv, NEW g \in Marker, MarkStatus(g)
  PROVE  IInv'
<1>1. TypeOK'
  BY AskFacts, MarkFacts, Markers DEF IInv, TypeOK, MarkStatus, boxVars, callVars, feedVars,
     loopVars, toolVars, treeVars, turnVars
<1>2. ToolInv'
  BY WaitAssumption DEF IInv, Core, ToolInv, MarkStatus, boxVars, callVars, feedVars, loopVars,
     toolVars, treeVars, turnVars
<1>3. LoopInv'
  BY WaitAssumption DEF IInv, Core, TypeOK, LoopInv, MarkStatus, boxVars, callVars, feedVars,
     loopVars, toolVars, treeVars, turnVars
<1>4. PlaceInv'
  BY DEF IInv, Core, TypeOK, PlaceInv, MarkStatus, boxVars, callVars, feedVars, loopVars,
     toolVars, treeVars, turnVars
<1>5. LogExact'
  BY DEF IInv, Core, TypeOK, ToolInv, PlaceInv, LogExact, MarkStatus, boxVars, callVars, feedVars,
     loopVars, toolVars, treeVars, turnVars
<1>6. MarkInv'
  BY WaitAssumption, Markers, AskFacts, MarkFacts DEF IInv, Core, TypeOK, ToolInv, LoopInv,
     MarkInv, LoopAtRest, MarkStatus, boxVars, callVars, feedVars, loopVars, toolVars, treeVars,
     turnVars, Settled
<1>7. RowInv'
  <2>1. SUFFICES ASSUME Undisturbed PROVE RowInv'
    BY DEF RowInv, Undisturbed, MarkStatus, treeVars
  <2>2. /\ UNCHANGED <<turn, cancelled, buffered, status, children, loop, tool>>
        /\ AtRest' <=> AtRest
    BY DEF MarkStatus, turnVars, boxVars, loopVars, treeVars, callVars, AtRest
  <2>3. g = "loop" /\ asked["loop"] \in {"active", "idle"} /\ turn = "none"
    BY <2>1, Markers DEF IInv, Core, MarkInv, RowInv, MarkStatus, Settled
  <2>4. tool = "off" /\ owed["call"] = None /\ owed["loop"] = None
    <3>1. tool = "off" /\ owed["call"] = None
      BY <2>3 DEF IInv, Core, ToolInv, MarkInv
    <3> QED
      BY <2>3, <3>1, WaitAssumption, Markers DEF IInv, Core, MarkInv
  <2>5. /\ asked'["loop"] = None /\ asked'["task"] = None
        /\ owed'["call"] = None /\ owed'["task"] = None
        /\ state' = asked["loop"] /\ owed'["loop"] = IF state = state' THEN None ELSE state'
    <3>1. /\ asked \in [Marker -> Status \cup {None}] /\ owed \in [Marker -> Status \cup {None}]
          /\ state \in Status /\ asked["loop"] \in Status
      BY <2>3, Markers DEF IInv, TypeOK
    <3>2. Mark("loop", asked["loop"]) /\ Ask("loop", None)
      BY <2>3 DEF MarkStatus
    <3> QED
      BY <2>1, <2>4, <3>1, <3>2, AskFacts, MarkFacts, Markers DEF IInv, Core, RowInv
  <2>6. /\ status = "idle" => AtRest
        /\ state = "idle" <=> status = "idle"
        /\ AtRest /\ loop # "start" => "idle" \in {asked["loop"], status}
    BY <2>1, <2>4, Markers, WaitAssumption DEF IInv, Core, RowInv
  <2>7. asked["loop"] = "active" => loop = "start"
    BY DEF IInv, Core, MarkInv
  <2>8. asked["loop"] = "idle" => AtRest
    BY <2>1, <2>3 DEF IInv, Core, RowInv
  <2>9. state \in {"idle", "active"}
    BY <2>1, <2>4, Markers DEF IInv, Core, TypeOK, RowInv
  <2>10. None \notin {"idle", "active", "wait_subagents"}
    BY WaitAssumption, Markers
  <2>11. CASE asked["loop"] = "active"
    BY <2>2, <2>3, <2>4, <2>5, <2>6, <2>7, <2>9, <2>10, <2>11 DEF RowInv
  <2>12. CASE asked["loop"] = "idle"
    BY <2>2, <2>3, <2>4, <2>5, <2>6, <2>8, <2>9, <2>10, <2>12 DEF RowInv
  <2> QED
    BY <2>3, <2>11, <2>12
<1> QED
  BY <1>1, <1>2, <1>3, <1>4, <1>5, <1>6, <1>7 DEF IInv, Core

LEMMA EmitStatusStep ==
  ASSUME IInv, NEW g \in Marker, EmitStatus(g)
  PROVE  IInv'
<1>1. TypeOK'
  BY DEF IInv, TypeOK, EmitStatus, boxVars, callVars, feedVars, loopVars, toolVars, treeVars,
     turnVars
<1>2. ToolInv'
  BY WaitAssumption DEF IInv, Core, ToolInv, EmitStatus, boxVars, callVars, feedVars, loopVars,
     toolVars, treeVars, turnVars
<1>3. LoopInv'
  BY WaitAssumption DEF IInv, Core, TypeOK, LoopInv, EmitStatus, boxVars, callVars, feedVars,
     loopVars, toolVars, treeVars, turnVars
<1>4. PlaceInv'
  BY DEF IInv, Core, TypeOK, PlaceInv, EmitStatus, boxVars, callVars, feedVars, loopVars,
     toolVars, treeVars, turnVars
<1>5. LogExact'
  BY DEF IInv, Core, TypeOK, ToolInv, PlaceInv, LogExact, EmitStatus, boxVars, callVars, feedVars,
     loopVars, toolVars, treeVars, turnVars
<1>6. MarkInv'
  BY WaitAssumption, Markers DEF IInv, Core, TypeOK, ToolInv, LoopInv, MarkInv, LoopAtRest,
     EmitStatus, boxVars, callVars, feedVars, loopVars, toolVars, treeVars, turnVars, Settled
<1>7. RowInv'
  <2>1. SUFFICES ASSUME Undisturbed PROVE RowInv'
    BY DEF RowInv, Undisturbed, EmitStatus, treeVars
  <2>2. /\ UNCHANGED <<turn, cancelled, buffered, state, children, loop, tool, asked>>
        /\ AtRest' <=> AtRest
    BY DEF EmitStatus, turnVars, boxVars, loopVars, treeVars, callVars, AtRest
  <2>3. /\ owed'[g] = None /\ \A h \in Marker : h # g => owed'[h] = owed[h]
        /\ status' = owed[g] \/ (g = "call" /\ cancelled /\ status' = status)
    BY DEF EmitStatus, IInv, TypeOK
  <2>4. CASE g = "loop"
    <3>1. turn = "none" /\ tool = "off" /\ owed["loop"] # None
      BY <2>4 DEF IInv, Core, MarkInv, ToolInv, EmitStatus, Settled
    <3>2. /\ owed["loop"] \in {"active", "idle"} /\ state = owed["loop"] /\ status' = owed["loop"]
          /\ owed["loop"] = "idle" => AtRest
          /\ owed["loop"] = "active" => loop = "start"
          /\ asked["task"] = None /\ owed["task"] = None
      BY <2>1, <2>3, <2>4, <3>1, Markers DEF IInv, Core, TypeOK, MarkInv, RowInv
    <3>3. /\ asked["loop"] = "idle" => AtRest
          /\ state = "wait_subagents" <=> tool \in {"block", "release"}
      BY <2>1 DEF IInv, Core, RowInv
    <3>4. owed'["loop"] = None /\ owed'["call"] = owed["call"] /\ owed'["task"] = owed["task"]
      BY <2>3, <2>4, Markers
    <3>5. None \notin {"idle", "active", "wait_subagents"} /\ owed["call"] # "idle"
      BY <2>1, WaitAssumption, Markers DEF IInv, Core, RowInv
    <3> QED
      BY <2>2, <3>1, <3>2, <3>3, <3>4, <3>5 DEF RowInv
  <2>5. CASE g = "call"
    <3>1. tool \notin {"off", "scan", "register", "release"} /\ owed["call"] # None /\ turn = "tools"
      BY <2>5 DEF IInv, Core, TypeOK, MarkInv, ToolInv, EmitStatus
    <3>2. asked["loop"] = None /\ owed["loop"] = None /\ ~AtRest
      BY <3>1 DEF IInv, Core, MarkInv, Settled, AtRest
    <3>3. status # "idle" /\ state # "idle" /\ owed["call"] # "idle"
      BY <2>1, <3>2 DEF IInv, Core, RowInv
    <3> QED
      BY <2>1, <2>2, <2>3, <2>5, <3>1, <3>2, <3>3, WaitAssumption, Markers
      DEF IInv, Core, RowInv, Undisturbed
  <2>6. g # "task"
    BY <2>1 DEF IInv, Core, RowInv, EmitStatus
  <2> QED
    BY <2>4, <2>5, <2>6, Markers
<1> QED
  BY <1>1, <1>2, <1>3, <1>4, <1>5, <1>6, <1>7 DEF IInv, Core

-----------------------------------------------------------------------------
(* The theorems.                                                           *)

LEMMA InitIInv ==
  ASSUME Init
  PROVE  IInv
<1>1. /\ feedCh = <<>> /\ journal = [f \in Frame |-> 0] /\ room = 0
      /\ asked = [g \in Marker |-> None] /\ owed = [g \in Marker |-> None]
  BY DEF Init
<1>2. TypeOK
  <2>1. journal \in [Frame -> Nat] /\ feedCh \in Seq(Frame) /\ room \in Nat
    BY <1>1
  <2>2. asked \in [Marker -> Status \cup {None}] /\ owed \in [Marker -> Status \cup {None}]
    BY <1>1
  <2>3. state \in Status /\ status \in Status
    BY DEF Init, Status
  <2> QED
    BY <2>1, <2>2, <2>3, Zenon DEF Init, TypeOK
<1>3. ToolInv /\ LoopInv /\ PlaceInv
  BY <1>1 DEF Init, ToolInv, LoopInv, PlaceInv
<1>4. LogExact
  BY <1>1 DEF Init, LogExact
<1>5. asked["loop"] = None /\ asked["call"] = None /\ asked["task"] = None
  BY <1>1, Markers
<1>6. owed["loop"] = None /\ owed["call"] = None /\ owed["task"] = None
  BY <1>1, Markers
<1>7. MarkInv /\ RowInv
  BY <1>5, <1>6, WaitAssumption, Markers DEF Init, MarkInv, RowInv, Settled, AtRest
<1> QED
  BY <1>2, <1>3, <1>4, <1>7 DEF IInv, Core

LEMMA IInvStep ==
  ASSUME IInv, [Next]_vars
  PROVE  IInv'
<1>1. CASE RunLoop
  BY <1>1, RouteMessageStep, JoinChildStep, LaunchTurnStep, DeliverResultStep, KickSummaryStep,
     CallToolsStep, NextIterationStep, FinishTurnStep, AbandonTurnStep, CancelTurnStep DEF RunLoop
<1>2. CASE Dispatcher
  BY <1>2, SpawnStep, OtherToolsStep, ListChildrenStep, ScanLogStep, RegisterFeedStep,
     TakeFrameStep, AbortWaitStep, ReleaseFeedStep DEF Dispatcher
<1>3. CASE \E g \in Marker : MarkStatus(g) \/ EmitStatus(g)
  BY <1>3, MarkStatusStep, EmitStatusStep
<1>4. CASE (\E c \in Child : SpawnBeside(c) \/ Answer(c)) \/ (\E m \in Message : Say(m))
  BY <1>4, SpawnBesideStep, AnswerStep, SayStep
<1>5. CASE UNCHANGED vars
  <2> USE <1>5 DEF IInv, Core, vars, turnVars, boxVars, treeVars, toolVars, feedVars, markVars,
          loopVars, callVars
  <2>1. TypeOK'
    BY DEF TypeOK
  <2>2. ToolInv' /\ LoopInv' /\ PlaceInv'
    BY DEF ToolInv, LoopInv, PlaceInv
  <2>3. LogExact'
    BY DEF LogExact
  <2>4. MarkInv' /\ RowInv'
    BY DEF MarkInv, RowInv, Settled, LoopAtRest, Undisturbed, AtRest
  <2> QED
    BY <2>1, <2>2, <2>3, <2>4
<1> QED
  BY <1>1, <1>2, <1>3, <1>4, <1>5 DEF Next

LEMMA Invariance == Spec => []IInv
<1>1. Init => IInv
  BY InitIInv
<1>2. IInv /\ [Next]_vars => IInv'
  BY IInvStep
<1> QED
  BY <1>1, <1>2, PTL DEF Spec

\* The state of the Run loop, of callWaitSubagents and of markStatus is well typed: a feed only ever
\* holds frames, and only statuses are marked and put on record.
THEOREM TypeCorrect == Spec => []TypeOK
<1>1. IInv => TypeOK
  BY DEF IInv
<1> QED
  BY <1>1, Invariance, PTL

\* No inbound frame is logged twice, no user message is lost, and what wait_subagents has resolved
\* in a turn that was not cancelled is in the log (LogExact): the Run loop, which drains the buffer
\* (drainPendingInbound), and the dispatcher, which logs what it consumes, never have the same frame.
\* A child's result may be lost, in a channel that is full or given up.
THEOREM EveryFrameLogged == Spec => []LogExact
<1>1. IInv => LogExact
  BY DEF IInv, Core
<1> QED
  BY <1>1, Invariance, PTL

\* The newest status row is what a restart may go by (StatusTruthful), however its markStatus is
\* cut into a store and an append, and whichever rows of a cancelled turn are refused: as long as no
\* task spawns beside the turns, "idle" is on record when nothing is in flight and only then, and a
\* blocked wait is on record; with tasks, "idle" in memory covers at most their children.
THEOREM StatusIsTrue == Spec => []StatusTruthful
<1>1. IInv => StatusTruthful
  BY Markers, WaitAssumption DEF IInv, Core, MarkInv, RowInv, LoopAtRest, StatusTruthful, LoopAt,
     CallAt, Settled
<1> QED
  BY <1>1, Invariance, PTL

=============================================================================
