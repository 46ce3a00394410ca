--------------------------- MODULE Inquiry_proofs ---------------------------
(***************************************************************************)
(* Theorems about Inquiry, for every tree of sessions, every number of     *)
(* requests and every number of answers.                                   *)
(***************************************************************************)
EXTENDS Inquiry, TLAPS

-----------------------------------------------------------------------------
(* Type correctness.                                                       *)

LEMMA InitTypeOK == Init => TypeOK
<1> SUFFICES ASSUME Init PROVE TypeOK
  OBVIOUS
<1> QED
  BY InquiryAssumption DEF Init, TypeOK, Stage, Outcome, Life, Status, Child, ChildrenOf

(* What a status frame carries is None or a pending request.               *)
LEMMA SnapshotType ==
  ASSUME TypeOK, NEW s \in Session, NEW ref \in Snapshot(s, pending)
  PROVE  ref \in Request \cup {None}
BY DEF TypeOK, Snapshot

LEMMA MarkStatusType ==
  ASSUME TypeOK, NEW r \in Request, NEW to \in Status, MarkStatus(r, to, pending)
  PROVE  /\ view' \in [Session -> Request \cup {None}] /\ state' \in [Session -> Status]
         /\ spawner' = spawner /\ row' = row /\ overtaken' = overtaken
<1>1. Asker[r] \in Session /\ view \in [Session -> Request \cup {None}]
  BY InquiryAssumption DEF TypeOK
<1>2. view' \in [Session -> Request \cup {None}]
  BY <1>1, SnapshotType DEF MarkStatus, EmitStatus
<1> QED
  BY <1>1, <1>2 DEF MarkStatus, spawnVars, TypeOK

(* What a spawn does to the status touches nothing else.                   *)
LEMMA SpawnFrame ==
  ASSUME NEW s \in Session, SpawnStep(s)
  PROVE  UNCHANGED <<call, tool, outcome, slot, pending, cancelled, wireVars, mailVars, lifeVars>>
BY DEF SpawnStep, SpawnMarks, SpawnLooks, SpawnEmits, callVars

LEMMA SpawnType ==
  ASSUME TypeOK, NEW s \in Session, SpawnStep(s) PROVE TypeOK'
<1>1. /\ view' \in [Session -> Request \cup {None}] /\ row' \in [Session -> Request \cup {None}]
      /\ state' \in [Session -> Status] /\ spawner' \in [Session -> {"off", "marked", "filled"}]
      /\ overtaken' \subseteq tool
  <2>1. CASE SpawnMarks(s)
    BY <2>1 DEF SpawnMarks, TypeOK, Status, ToolsOf
  <2>2. CASE SpawnLooks(s)
    BY <2>2, SnapshotType DEF SpawnLooks, TypeOK, ToolsOf
  <2>3. CASE SpawnEmits(s)
    BY <2>3 DEF SpawnEmits, TypeOK
  <2> QED
    BY <2>1, <2>2, <2>3 DEF SpawnStep
<1> QED
  BY <1>1, SpawnFrame DEF TypeOK, wireVars, mailVars, lifeVars

(* A call that gets its outcome keeps its entry.                           *)
LEMMA DecidedType ==
  ASSUME TypeOK, NEW r \in Request, NEW o \in Outcome, Decided(r, o),
         call[r] \in {"recorded", "ready", "asked"},
         view' \in [Session -> Request \cup {None}]
  PROVE  TypeOK'
<1>1. call' \in [Request -> Stage] /\ outcome' \in [Request -> Outcome]
  BY DEF Decided, TypeOK, Stage
<1>2. \A q \in Request :
        q \in pending <=> call'[q] \in {"recorded", "ready", "asked", "decided"}
  BY DEF Decided, TypeOK
<1> QED
  BY <1>1, <1>2 DEF Decided, TypeOK, wireVars, mailVars, lifeVars, spawnVars

LEMMA CallType ==
  ASSUME TypeOK, NEW r \in Request, CallStep(r) PROVE TypeOK'
<1> USE InquiryAssumption
<1>1. CASE Record(r)
  BY <1>1 DEF Record, TypeOK, Stage, wireVars, mailVars, lifeVars, showVars, spawnVars
<1>2. CASE Feed(r)
  <2>1. /\ view' \in [Session -> Request \cup {None}] /\ state' \in [Session -> Status]
        /\ spawner' = spawner /\ row' = row /\ overtaken' = overtaken
    BY <1>2, MarkStatusType DEF Feed, Status
  <2> QED
    BY <1>2, <2>1 DEF Feed, TypeOK, Stage, wireVars, mailVars, lifeVars, showVars, spawnVars
<1>3. CASE Ask(r)
  BY <1>3 DEF Ask, CanAsk, TypeOK, Stage, mailVars, lifeVars, showVars, spawnVars
<1>4. CASE AskFails(r)
  <2>1. call[r] \in {"recorded", "ready"}
    BY <1>4 DEF AskFails, CanAsk
  <2>2. view' \in [Session -> Request \cup {None}]
    <3>1. view \in [Session -> Request \cup {None}]
      BY DEF TypeOK
    <3> QED
      BY <1>4, <3>1 DEF AskFails
  <2> QED
    BY <1>4, <2>1, <2>2, DecidedType DEF AskFails, Outcome
<1>5. CASE Take(r) \/ Expire(r) \/ Abort(r)
  BY <1>5, DecidedType DEF Take, Expire, Abort, Outcome, TypeOK
<1>6. CASE Clear(r)
  BY <1>6 DEF Clear, TypeOK, Stage, wireVars, mailVars, lifeVars, showVars, spawnVars
<1>7. CASE Release(r)
  <2>1. /\ view' \in [Session -> Request \cup {None}] /\ state' \in [Session -> Status]
        /\ spawner' = spawner /\ row' = row /\ overtaken' = overtaken
    BY <1>7, MarkStatusType DEF Release, Status
  <2> QED
    BY <1>7, <2>1 DEF Release, TypeOK, Stage, wireVars, mailVars, lifeVars, showVars, spawnVars
<1>8. CASE Cancel(r)
  BY <1>8 DEF Cancel, TypeOK, wireVars, mailVars, lifeVars, showVars, spawnVars
<1> QED
  BY <1>1, <1>2, <1>3, <1>4, <1>5, <1>6, <1>7, <1>8 DEF CallStep

LEMMA OtherType ==
  ASSUME TypeOK, [Next]_vars, \A r \in Request : ~CallStep(r) PROVE TypeOK'
<1> USE InquiryAssumption DEF Child
<1>1. ASSUME NEW c \in Child, RecordRoute(c) PROVE TypeOK'
  BY <1>1 DEF RecordRoute, TypeOK, callVars, mailVars, lifeVars, showVars, spawnVars
<1>2. ASSUME NEW c \in Child, Bubble(c) PROVE TypeOK'
  BY <1>2 DEF Bubble, TypeOK, callVars, mailVars, lifeVars, showVars, spawnVars
<1>3. ASSUME NEW r \in Request, NEW s \in Session, Answer(r, s) PROVE TypeOK'
  BY <1>3 DEF Answer, Submitted, TypeOK, callVars, wireVars, lifeVars, showVars, spawnVars
<1>4. ASSUME NEW s \in Session, Dispatch(s) PROVE TypeOK'
  <2>0. PICK r \in Request : \E k \in inbox[s][r] :
          /\ Deliver(s, r, k) \/ Forward(s, r, k) \/ Drop(s, r, k)
          /\ route' = [route EXCEPT ![s][r] = None]
    BY <1>4 DEF Dispatch
  <2>1. PICK k \in inbox[s][r] :
          /\ Deliver(s, r, k) \/ Forward(s, r, k) \/ Drop(s, r, k)
          /\ route' = [route EXCEPT ![s][r] = None]
    BY <2>0
  <2>2. k \in Nat
    BY <2>1 DEF TypeOK
  <2>3. route' \in [Session -> [Request -> Child \cup {None}]]
    BY <2>1 DEF TypeOK
  <2> DEFINE rest == [inbox EXCEPT ![s][r] = @ \ {k}]
  <2>6. rest \in [Session -> [Request -> SUBSET Nat]]
    BY DEF TypeOK
  <2>7. slot \in [Request -> Nat]
    BY DEF TypeOK
  <2>8. ASSUME route[s][r] \in children[s]
        PROVE  Submitted(rest, route[s][r], r, k) \in [Session -> [Request -> SUBSET Nat]]
    <3>1. route[s][r] \in Session
      BY <2>8 DEF TypeOK
    <3> HIDE DEF rest
    <3> QED
      BY <2>2, <2>6, <3>1 DEF Submitted
  <2>4. slot' \in [Request -> Nat]
    <3>1. CASE Deliver(s, r, k)
      BY <2>2, <2>7, <3>1 DEF Deliver
    <3> QED
      BY <2>1, <2>7, <3>1 DEF Forward, Drop
  <2>5. inbox' \in [Session -> [Request -> SUBSET Nat]]
    BY <2>1, <2>6, <2>8 DEF Deliver, Forward, Drop
  <2> QED
    BY <1>4, <2>3, <2>4, <2>5 DEF Dispatch, TypeOK, lifeVars, showVars, spawnVars
<1>5. ASSUME NEW s \in Session, Tell(s) PROVE TypeOK'
  BY <1>5 DEF Tell, Told, TypeOK, Life, callVars, wireVars, mailVars, showVars, spawnVars
<1>6. ASSUME NEW s \in Session, NEW c \in Child, Join(s, c) PROVE TypeOK'
  BY <1>6 DEF Join, Told, TypeOK, Life, callVars, wireVars, mailVars, showVars, spawnVars
<1>7. ASSUME NEW s \in Session, Joined(s) PROVE TypeOK'
  BY <1>7 DEF Joined, Swept, TypeOK, Life, callVars, mailVars, showVars, spawnVars
<1>8. ASSUME NEW s \in Session, Stop(s) PROVE TypeOK'
  BY <1>8 DEF Stop, TypeOK, Life, wireVars, mailVars, showVars, spawnVars
<1>9. ASSUME NEW s \in Session, Drain(s) PROVE TypeOK'
  BY <1>9 DEF Drain, Told, TypeOK, Life, callVars, wireVars, mailVars, showVars, spawnVars
<1>10. ASSUME NEW s \in Session, Exit(s) PROVE TypeOK'
  BY <1>10 DEF Exit, TypeOK, Life, callVars, wireVars, showVars, spawnVars
<1>11. CASE UNCHANGED vars
  BY <1>11 DEF vars, TypeOK, callVars, wireVars, mailVars, lifeVars, showVars, spawnVars
<1> QED
  BY <1>1, <1>2, <1>3, <1>4, <1>5, <1>6, <1>7, <1>8, <1>9, <1>10, <1>11, SpawnType
     DEF Next, PumpStep, LoopStep

LEMMA NextTypeOK == TypeOK /\ [Next]_vars => TypeOK'
BY CallType, OtherType

(* The variables of Inquiry keep their types; a request has an entry in    *)
(* the pending map exactly while its call is between recordPending and     *)
(* clearPending.                                                           *)
THEOREM InquiryTypes == Spec => []TypeOK
BY InitTypeOK, NextTypeOK, PTL DEF Spec
-----------------------------------------------------------------------------
(* What a call has decided, what has been seen of it and what clients have *)
(* answered, related.                                                      *)
CallOrder ==
  \A r \in Request :
    /\ outcome[r] = "none" <=> call[r] \in {"new", "recorded", "ready", "asked"}
    /\ outcome[r] = "answered" => slot[r] # 0
    /\ call[r] \in {"new", "recorded", "ready"} => seen[r] = {}

(* A request on its way up has been seen where it comes from.              *)
WireOrder ==
  \A r \in Request : \A s \in Session :
    r \in wire[s] \/ held[s] = r => s \in seen[r] /\ s \in Child

(* Answers on their way and in the channel are answers that were given.    *)
MailOrder ==
  \A r \in Request :
    /\ \A s \in Session : inbox[s][r] \subseteq 1..posted[r]
    /\ slot[r] <= posted[r] /\ posted[r] <= Copies[r]
    /\ seen[r] = {} => posted[r] = 0

OrderInv == TypeOK /\ CallOrder /\ WireOrder /\ MailOrder

LEMMA InitOrder == Init => OrderInv
<1> SUFFICES ASSUME Init PROVE OrderInv
  OBVIOUS
<1> USE InquiryAssumption
<1>1. TypeOK
  BY InitTypeOK
<1>2. CallOrder
  BY DEF Init, CallOrder
<1>3. WireOrder
  BY DEF Init, WireOrder
<1>4. MailOrder
  BY DEF Init, MailOrder
<1> QED
  BY <1>1, <1>2, <1>3, <1>4 DEF OrderInv

(* A dispatched answer, whichever way it goes, is one of those in the      *)
(* inbox; the channel gets it or keeps what it has.                        *)
LEMMA DispatchEffect ==
  ASSUME TypeOK, NEW s \in Session, Dispatch(s)
  PROVE  \E r \in Request : \E k \in inbox[s][r] :
           /\ \/ Deliver(s, r, k)
              \/ Forward(s, r, k)
              \/ Drop(s, r, k)
           /\ route' = [route EXCEPT ![s][r] = None]
           /\ \A q \in Request : slot'[q] = slot[q] \/ (q = r /\ slot[q] = 0 /\ slot'[q] = k)
           /\ \A t \in Session, q \in Request :
                inbox'[t][q] \subseteq inbox[t][q] \cup (IF q = r THEN {k} ELSE {})
<1>1. PICK r \in Request : \E k \in inbox[s][r] :
        /\ Deliver(s, r, k) \/ Forward(s, r, k) \/ Drop(s, r, k)
        /\ route' = [route EXCEPT ![s][r] = None]
  BY DEF Dispatch
<1>2. PICK k \in inbox[s][r] :
        /\ Deliver(s, r, k) \/ Forward(s, r, k) \/ Drop(s, r, k)
        /\ route' = [route EXCEPT ![s][r] = None]
  BY <1>1
<1> DEFINE rest == [inbox EXCEPT ![s][r] = @ \ {k}]
<1>3. rest \in [Session -> [Request -> SUBSET Nat]]
  BY DEF TypeOK
<1>4. \A t \in Session, q \in Request : rest[t][q] \subseteq inbox[t][q]
  BY DEF TypeOK
<1>5. \A q \in Request : slot'[q] = slot[q] \/ (q = r /\ slot[q] = 0 /\ slot'[q] = k)
  BY <1>2 DEF Deliver, Forward, Drop, TypeOK
<1>6. \A t \in Session, q \in Request :
        inbox'[t][q] \subseteq inbox[t][q] \cup (IF q = r THEN {k} ELSE {})
  <2>1. CASE Deliver(s, r, k) \/ Drop(s, r, k)
    BY <2>1, <1>4 DEF Deliver, Drop
  <2>2. CASE Forward(s, r, k)
    <3>1. route[s][r] \in Session
      BY <2>2 DEF Forward, TypeOK, Child
    <3>2. inbox' = Submitted(rest, route[s][r], r, k)
      BY <2>2 DEF Forward
    <3> HIDE DEF rest
    <3> QED
      BY <1>3, <1>4, <3>1, <3>2 DEF Submitted
  <2> QED
    BY <1>2, <2>1, <2>2
<1> QED
  BY <1>2, <1>5, <1>6

LEMMA NextCallOrder ==
  ASSUME OrderInv, [Next]_vars PROVE CallOrder'
<1> USE InquiryAssumption DEF OrderInv
<1>1. ASSUME NEW r \in Request, CallStep(r) PROVE CallOrder'
  <2>1. CASE Record(r) \/ Feed(r) \/ Clear(r) \/ Release(r) \/ Cancel(r)
    BY <1>1, <2>1 DEF Record, Feed, Clear, Release, Cancel, Running, CallOrder, TypeOK, Stage, wireVars
  <2>2. CASE Ask(r)
    BY <2>2 DEF Ask, CanAsk, CallOrder, TypeOK
  <2>3. CASE AskFails(r)
    BY <2>3 DEF AskFails, Decided, CanAsk, CallOrder, TypeOK, wireVars
  <2>4. CASE Take(r)
    BY <2>4 DEF Take, Decided, CallOrder, TypeOK, wireVars
  <2>5. CASE Expire(r)
    BY <2>5 DEF Expire, Decided, CallOrder, TypeOK, wireVars
  <2>6. CASE Abort(r)
    BY <2>6 DEF Abort, Decided, CallOrder, TypeOK, wireVars
  <2> QED
    BY <1>1, <2>1, <2>2, <2>3, <2>4, <2>5, <2>6 DEF CallStep
<1>2. ASSUME NEW c \in Child, RecordRoute(c) PROVE CallOrder'
  BY <1>2 DEF RecordRoute, CallOrder, callVars
<1>3. ASSUME NEW c \in Child, Bubble(c) PROVE CallOrder'
  BY <1>3 DEF Bubble, CallOrder, WireOrder, TypeOK, callVars, Child
<1>4. ASSUME NEW s \in Session, Dispatch(s) PROVE CallOrder'
  <2>1. \A q \in Request : slot[q] # 0 => slot'[q] # 0
    BY <1>4, DispatchEffect
  <2> QED
    BY <1>4, <2>1 DEF Dispatch, CallOrder
<1>5. CASE /\ UNCHANGED <<call, outcome, slot, seen>>
  BY <1>5 DEF CallOrder
<1> QED
  BY <1>1, <1>2, <1>3, <1>4, <1>5, SpawnFrame
     DEF Next, PumpStep, LoopStep, Answer, Tell, Join, Joined, Stop, Drain, Exit, vars, callVars, wireVars

LEMMA NextWireOrder ==
  ASSUME OrderInv, [Next]_vars PROVE WireOrder'
<1> USE InquiryAssumption DEF OrderInv
<1>1. ASSUME NEW r \in Request, Ask(r) PROVE WireOrder'
  BY <1>1 DEF Ask, CanAsk, WireOrder, TypeOK, Child
<1>2. ASSUME NEW c \in Child, RecordRoute(c) PROVE WireOrder'
  BY <1>2 DEF RecordRoute, WireOrder, TypeOK, Child
<1>3. ASSUME NEW c \in Child, Bubble(c) PROVE WireOrder'
  BY <1>3 DEF Bubble, WireOrder, TypeOK, Child
<1>4. CASE UNCHANGED <<wire, held, seen>>
  BY <1>4 DEF WireOrder
<1> QED
  BY <1>1, <1>2, <1>3, <1>4, SpawnFrame
     DEF Next, CallStep, PumpStep, LoopStep, Record, Feed, AskFails, Take, Expire, Abort, Decided,
         Clear, Release, Cancel, Answer, Dispatch, Tell, Join, Joined, Stop, Drain, Exit, vars, wireVars

LEMMA NextMailOrder ==
  ASSUME OrderInv, [Next]_vars PROVE MailOrder'
<1> USE InquiryAssumption DEF OrderInv
<1>1. ASSUME NEW r \in Request, Ask(r) PROVE MailOrder'
  BY <1>1 DEF Ask, MailOrder, TypeOK, mailVars
<1>2. ASSUME NEW c \in Child, Bubble(c) PROVE MailOrder'
  BY <1>2 DEF Bubble, MailOrder, TypeOK, mailVars, callVars, Child
<1>3. ASSUME NEW r \in Request, NEW s \in Session, Answer(r, s) PROVE MailOrder'
  <2>1. /\ posted' = [posted EXCEPT ![r] = @ + 1] /\ posted[r] < Copies[r]
        /\ slot' = slot /\ seen' = seen /\ s \in seen[r]
    BY <1>3 DEF Answer, callVars, wireVars
  <2>2. \A q \in Request : posted'[q] \in Nat /\ posted[q] <= posted'[q]
    BY <2>1 DEF TypeOK
  <2>3. \A t \in Session, q \in Request :
          inbox'[t][q] \subseteq inbox[t][q] \cup (IF q = r THEN {posted'[r]} ELSE {})
    BY <1>3 DEF Answer, Submitted, TypeOK
  <2>4. \A t \in Session, q \in Request : inbox[t][q] \subseteq 1..posted'[q]
    BY <2>1, <2>2 DEF MailOrder, TypeOK
  <2>5. posted'[r] \in 1..posted'[r]
    BY <2>1 DEF TypeOK
  <2>6. \A t \in Session, q \in Request : inbox'[t][q] \subseteq 1..posted'[q]
    BY <2>3, <2>4, <2>5
  <2> QED
    BY <2>1, <2>2, <2>6 DEF MailOrder, TypeOK
<1>4. ASSUME NEW s \in Session, Dispatch(s) PROVE MailOrder'
  <2>1. PICK r \in Request : \E k \in inbox[s][r] :
          /\ \A q \in Request : slot'[q] = slot[q] \/ (q = r /\ slot[q] = 0 /\ slot'[q] = k)
          /\ \A t \in Session, q \in Request :
               inbox'[t][q] \subseteq inbox[t][q] \cup (IF q = r THEN {k} ELSE {})
    BY <1>4, DispatchEffect
  <2>2. PICK k \in inbox[s][r] :
          /\ \A q \in Request : slot'[q] = slot[q] \/ (q = r /\ slot[q] = 0 /\ slot'[q] = k)
          /\ \A t \in Session, q \in Request :
               inbox'[t][q] \subseteq inbox[t][q] \cup (IF q = r THEN {k} ELSE {})
    BY <2>1
  <2>3. k \in 1..posted[r]
    BY <2>2 DEF MailOrder
  <2>4. posted' = posted /\ seen' = seen
    BY <1>4 DEF Dispatch
  <2>5. \A t \in Session, q \in Request : inbox'[t][q] \subseteq 1..posted'[q]
    BY <2>2, <2>3, <2>4 DEF MailOrder
  <2>6. \A q \in Request : slot'[q] <= posted'[q]
    BY <2>2, <2>3, <2>4 DEF MailOrder
  <2> QED
    BY <2>4, <2>5, <2>6 DEF MailOrder
<1>5. ASSUME NEW s \in Session, Exit(s) PROVE MailOrder'
  BY <1>5 DEF Exit, MailOrder, TypeOK, callVars, wireVars
<1>6. CASE UNCHANGED <<posted, inbox, slot, seen>>
  BY <1>6 DEF MailOrder
<1> QED
  BY <1>1, <1>2, <1>3, <1>4, <1>5, <1>6, SpawnFrame
     DEF Next, CallStep, PumpStep, LoopStep, Record, Feed, AskFails, Take, Expire, Abort, Decided,
         Clear, Release, Cancel, RecordRoute, Tell, Join, Joined, Stop, Drain, vars,
         callVars, mailVars, wireVars

LEMMA NextOrder == OrderInv /\ [Next]_vars => OrderInv'
BY NextTypeOK, NextCallOrder, NextWireOrder, NextMailOrder DEF OrderInv

-----------------------------------------------------------------------------
(* The refinement.                                                         *)

LEMMA InitPromise == Init => Promise!Init
BY DEF Init, Promise!Init, StageOf

LEMMA NextPromise ==
  ASSUME OrderInv, [Next]_vars PROVE [Promise!Next]_(Promise!vars)
<1> USE InquiryAssumption DEF OrderInv
<1> DEFINE stage == [r \in Request |-> StageOf(r)]
<1>1. ASSUME NEW r \in Request, NEW s \in Session, Answer(r, s) PROVE Promise!Give(r)
  BY <1>1 DEF Answer, Promise!Give, callVars, StageOf
<1>2. ASSUME NEW r \in Request, Take(r) PROVE Promise!Keep(r)
  <2>1. outcome[r] = "none" /\ outcome' = [outcome EXCEPT ![r] = "answered"]
    BY <1>2 DEF Take, Decided, CallOrder
  <2>2. stage' = [stage EXCEPT ![r] = "kept"]
    BY <2>1 DEF StageOf, TypeOK
  <2> QED
    BY <1>2, <2>1, <2>2 DEF Take, Decided, Promise!Keep, StageOf, mailVars
<1>3. ASSUME NEW r \in Request, NEW o \in {"failed", "timeout", "cancelled"},
             Decided(r, o), outcome[r] = "none", slot[r] = 0
      PROVE  Promise!GiveUp(r)
  <2>1. outcome' = [outcome EXCEPT ![r] = o]
    BY <1>3 DEF Decided
  <2>2. stage' = [stage EXCEPT ![r] = "given_up"]
    BY <2>1 DEF StageOf, TypeOK
  <2> QED
    BY <1>3, <2>2 DEF Decided, Promise!GiveUp, StageOf, mailVars
<1>4. ASSUME NEW r \in Request, AskFails(r) \/ Expire(r) \/ Abort(r)
      PROVE  Promise!GiveUp(r)
  <2>1. CASE AskFails(r)
    <3>1. call[r] \in {"recorded", "ready"}
      BY <2>1 DEF AskFails, CanAsk
    <3>2. outcome[r] = "none" /\ seen[r] = {}
      BY <3>1 DEF CallOrder
    <3>4. posted[r] = 0 /\ slot[r] <= posted[r]
      BY <3>2 DEF MailOrder
    <3>5. slot[r] \in Nat
      BY DEF TypeOK
    <3>3. slot[r] = 0
      BY <3>4, <3>5
    <3> QED
      BY <2>1, <3>2, <3>3, <1>3 DEF AskFails
  <2>2. CASE Expire(r) \/ Abort(r)
    BY <2>2, <1>3 DEF Expire, Abort, CallOrder
  <2> QED
    BY <1>4, <2>1, <2>2
<1>5. ASSUME NEW s \in Session, Dispatch(s)
      PROVE  (\E r \in Request : \E k \in 1..Copies[r] : Promise!Accept(r, k)) \/ UNCHANGED Promise!vars
  <2>1. PICK r \in Request : \E k \in inbox[s][r] :
          \A q \in Request : slot'[q] = slot[q] \/ (q = r /\ slot[q] = 0 /\ slot'[q] = k)
    BY <1>5, DispatchEffect
  <2>2. PICK k \in inbox[s][r] :
          \A q \in Request : slot'[q] = slot[q] \/ (q = r /\ slot[q] = 0 /\ slot'[q] = k)
    BY <2>1
  <2>3. k \in 1..posted[r] /\ k \in 1..Copies[r]
    BY <2>2 DEF MailOrder, TypeOK
  <2>4. outcome' = outcome /\ posted' = posted
    BY <1>5 DEF Dispatch
  <2>5. stage' = stage
    BY <2>4 DEF StageOf
  <2>6. slot \in [Request -> Nat] /\ slot' \in [Request -> Nat]
    BY NextTypeOK DEF TypeOK
  <2>7. CASE slot' = slot
    BY <2>4, <2>5, <2>7 DEF Promise!vars
  <2>8. CASE slot' # slot
    <3>2. PICK q \in Request : slot'[q] # slot[q]
      BY <2>6, <2>8
    <3>3. slot[r] = 0 /\ slot'[r] = k
      BY <2>2, <3>2
    <3>4. \A x \in Request : slot'[x] = IF x = r THEN k ELSE slot[x]
      BY <2>2, <3>3
    <3>1. slot[r] = 0 /\ slot' = [slot EXCEPT ![r] = k]
      BY <2>6, <3>3, <3>4
    <3> QED
      BY <2>3, <2>4, <2>5, <3>1 DEF Promise!Accept
  <2> QED
    BY <2>7, <2>8
<1>6. ASSUME UNCHANGED <<outcome, posted, slot>> PROVE UNCHANGED Promise!vars
  BY <1>6 DEF Promise!vars, StageOf
<1>7. \/ \E r \in Request : AskFails(r) \/ Expire(r) \/ Abort(r) \/ Take(r)
      \/ \E r \in Request, s \in Session : Answer(r, s)
      \/ \E s \in Session : Dispatch(s)
      \/ UNCHANGED <<outcome, posted, slot>>
  <2>1. ASSUME NEW s \in Session, SpawnStep(s) PROVE UNCHANGED <<outcome, posted, slot>>
    BY <2>1, SpawnFrame DEF mailVars
  <2> QED
    BY <2>1
    DEF Next, CallStep, PumpStep, LoopStep, Record, Feed, Ask, Clear, Release, Cancel, RecordRoute,
        Bubble, Tell, Join, Joined, Stop, Drain, Exit, vars, callVars, mailVars, wireVars
<1> QED
  BY <1>1, <1>2, <1>4, <1>5, <1>6, <1>7 DEF Promise!Next

(* Every run of the machinery is a run of InquiryPromise: a call returns   *)
(* the first answer delivered to it, one that a client gave to it, and     *)
(* neither its deadline nor its context clips a delivered answer.          *)
THEOREM InquiryKeepsPromise == Spec => PromiseKept
<1>1. Init => OrderInv
  BY InitOrder
<1>2. OrderInv /\ [Next]_vars => OrderInv'
  BY NextOrder
<1>3. Init => Promise!Init
  BY InitPromise
<1>4. OrderInv /\ [Next]_vars => [Promise!Next]_(Promise!vars)
  BY NextPromise
<1> QED
  BY <1>1, <1>2, <1>3, <1>4, PTL DEF Spec, PromiseKept, Promise!Spec
-----------------------------------------------------------------------------
(* What observers show.                                                    *)

(* Only the session that asks shows its request, and only once it has      *)
(* asked; the same goes for the frame a spawn has filled.                  *)
ShownByAsker ==
  \A r \in Request : \A s \in Session :
    view[s] = r \/ row[s] = r => Asker[r] = s /\ call[r] # "new"

(* Only tool calls have a feed, and a tool call has begun.                 *)
ToolStage ==
  \A r \in Request : /\ call[r] \in {"ready", "cleared"} => r \in tool
                     /\ r \in tool => call[r] # "new"

(* A session runs one tool call at a time.                                 *)
OneTool ==
  \A q, r \in tool :
    Asker[q] = Asker[r] /\ call[q] \in Running /\ call[r] \in Running => q = r

(* Unless a spawn comes, a session waits from registerToolFeed to release. *)
Waits ==
  \A r \in tool \ overtaken :
    call[r] \in {"ready", "asked", "decided", "cleared"} => state[Asker[r]] = "wait"

(* A spawn carries only calls it has overtaken.                            *)
Carried == \A r \in tool : \A s \in Session : row[s] = r => r \in overtaken

Shown == ShownByAsker /\ ToolStage /\ OneTool /\ Waits /\ Carried /\ NotShownAfter

ShownInv == TypeOK /\ Shown

(* A status shows nothing, or a pending request of its session.            *)
LEMMA StatusShows ==
  ASSUME TypeOK, NEW t \in Session, EmitStatus(t, pending)
  PROVE  \A s \in Session, q \in Request :
           view'[s] = q => \/ view[s] = q /\ s # t
                           \/ s = t /\ q \in pending /\ Asker[q] = t
<1>1. PICK ref \in Snapshot(t, pending) : view' = [view EXCEPT ![t] = ref]
  BY DEF EmitStatus
<1>2. ref = None \/ (ref \in pending /\ Asker[ref] = t)
  BY <1>1 DEF Snapshot
<1> QED
  BY <1>1, <1>2, InquiryAssumption DEF TypeOK

LEMMA MarkShows ==
  ASSUME TypeOK, NEW r \in Request, NEW to \in Status, MarkStatus(r, to, pending)
  PROVE  /\ \A s \in Session, q \in Request :
              view'[s] = q => \/ view[s] = q /\ (s # Asker[r] \/ state[s] = to \/ cancelled[r])
                              \/ s = Asker[r] /\ q \in pending /\ Asker[q] = s
         /\ state' = [state EXCEPT ![Asker[r]] = to]
         /\ row' = row /\ overtaken' = overtaken
<1>1. Asker[r] \in Session
  BY InquiryAssumption
<1> QED
  BY <1>1, StatusShows DEF MarkStatus, spawnVars

LEMMA FeedShown ==
  ASSUME ShownInv, NEW r \in Request, Feed(r) PROVE Shown'
<1> USE InquiryAssumption DEF ShownInv, Shown
<1>1. /\ \A s \in Session, q \in Request :
           view'[s] = q => view[s] = q \/ (s = Asker[r] /\ q \in pending /\ Asker[q] = s)
      /\ state' = [state EXCEPT ![Asker[r]] = "wait"] /\ row' = row /\ overtaken' = overtaken
  BY MarkShows DEF Feed, Status
<1>2. /\ call[r] = "recorded" /\ r \in tool /\ call' = [call EXCEPT ![r] = "ready"]
      /\ tool' = tool /\ cancelled' = cancelled
  BY DEF Feed
<1>3. /\ \A q \in Request : q \in pending => call[q] \notin {"new", "done"}
      /\ tool \subseteq Request /\ call \in [Request -> Stage] /\ state \in [Session -> Status]
  BY DEF TypeOK
<1>4. \A q \in Request : call'[q] = call[q] \/ (q = r /\ call'[q] = "ready")
  BY <1>2, <1>3
<1>5. ShownByAsker'
  BY <1>1, <1>3, <1>4 DEF ShownByAsker
<1>6. ToolStage' /\ OneTool' /\ Carried'
  BY <1>1, <1>2, <1>3, <1>4 DEF ToolStage, OneTool, Carried, Running
<1>7. Waits'
  BY <1>1, <1>2, <1>3, <1>4 DEF Waits
<1>8. NotShownAfter'
  BY <1>1, <1>2, <1>3, <1>4 DEF NotShownAfter
<1> QED
  BY <1>5, <1>6, <1>7, <1>8

LEMMA ReleaseShown ==
  ASSUME ShownInv, NEW r \in Request, Release(r) PROVE Shown'
<1> USE InquiryAssumption DEF ShownInv, Shown
<1>1. /\ \A s \in Session, q \in Request :
           view'[s] = q => \/ view[s] = q /\ (s # Asker[r] \/ state[s] = "active" \/ cancelled[r])
                           \/ s = Asker[r] /\ q \in pending /\ Asker[q] = s
      /\ state' = [state EXCEPT ![Asker[r]] = "active"] /\ row' = row /\ overtaken' = overtaken
  BY MarkShows DEF Release, Status
<1>2. /\ call[r] = "cleared" /\ call' = [call EXCEPT ![r] = "done"]
      /\ tool' = tool /\ cancelled' = cancelled
  BY DEF Release
<1>3. /\ \A q \in Request : q \in pending => call[q] \notin {"new", "done", "cleared"}
      /\ tool \subseteq Request /\ call \in [Request -> Stage] /\ state \in [Session -> Status]
  BY DEF TypeOK
<1>4. \A q \in Request : call'[q] = call[q] \/ (q = r /\ call'[q] = "done")
  BY <1>2, <1>3
<1>5. r \in tool
  BY <1>2 DEF ToolStage
<1>6. ShownByAsker'
  BY <1>1, <1>3, <1>4 DEF ShownByAsker
<1>7. ToolStage' /\ OneTool' /\ Carried'
  BY <1>1, <1>2, <1>3, <1>4 DEF ToolStage, OneTool, Carried, Running
<1>8. Waits'
  <2>1. ASSUME NEW q \in tool' \ overtaken', call'[q] \in {"ready", "asked", "decided", "cleared"}
        PROVE  state'[Asker[q]] = "wait"
    <3>1. q \in tool \ overtaken /\ q \in Request /\ q # r /\ call'[q] = call[q]
      BY <1>1, <1>2, <1>3, <1>4, <2>1
    <3>2. Asker[q] # Asker[r]
      BY <1>2, <1>5, <2>1, <3>1 DEF OneTool, Running
    <3>3. state[Asker[q]] = "wait"
      BY <2>1, <3>1 DEF Waits
    <3> QED
      BY <1>1, <1>3, <3>1, <3>2, <3>3
  <2> QED
    BY <2>1 DEF Waits
<1>9. ASSUME NEW q \in tool', NEW s \in Session, view'[s] = q, ~cancelled'[q], q \notin overtaken'
      PROVE  call'[q] # "done"
  <2>1. q \in Request /\ q \in tool /\ ~cancelled[q] /\ q \notin overtaken
    BY <1>1, <1>2, <1>3, <1>9
  <2>2. CASE q = r
    <3>1. state[Asker[r]] = "wait"
      BY <1>2, <1>5, <2>1, <2>2 DEF Waits
    <3>2. view[s] # r \/ Asker[r] = s
      BY DEF ShownByAsker
    <3> QED
      BY <1>1, <1>2, <1>3, <1>9, <2>1, <2>2, <3>1, <3>2
  <2>3. CASE q # r
    BY <1>1, <1>3, <1>4, <1>9, <2>1, <2>3 DEF NotShownAfter
  <2> QED
    BY <2>2, <2>3
<1> QED
  BY <1>6, <1>7, <1>8, <1>9 DEF NotShownAfter

LEMMA SpawnShown ==
  ASSUME ShownInv, NEW s \in Session, SpawnStep(s) PROVE Shown'
<1> USE InquiryAssumption DEF ShownInv, Shown
<1>0. /\ UNCHANGED <<call, tool, cancelled>> /\ tool \subseteq Request
      /\ \A q \in Request : q \in pending => call[q] \in Running /\ call[q] # "new"
  BY SpawnFrame DEF TypeOK, Running
<1>1. ToolStage' /\ OneTool'
  BY <1>0 DEF ToolStage, OneTool
<1>2. CASE SpawnMarks(s)
  <2>1. /\ view' = view /\ row' = row /\ overtaken' = overtaken \cup ToolsOf(s)
        /\ state' = [state EXCEPT ![s] = "active"]
    BY <1>2 DEF SpawnMarks
  <2>2. ShownByAsker' /\ Carried' /\ NotShownAfter'
    BY <1>0, <2>1 DEF ShownByAsker, Carried, NotShownAfter
  <2>3. ASSUME NEW q \in tool' \ overtaken', call'[q] \in {"ready", "asked", "decided", "cleared"}
        PROVE  state'[Asker[q]] = "wait"
    <3>1. q \in tool \ overtaken /\ q \notin ToolsOf(s) /\ call[q] \in Running
      BY <1>0, <2>1, <2>3 DEF Running
    <3>2. Asker[q] # s /\ state[Asker[q]] = "wait"
      BY <1>0, <2>3, <3>1 DEF ToolsOf, Waits
    <3> QED
      BY <1>0, <2>1, <3>1, <3>2 DEF TypeOK
  <2> QED
    BY <1>1, <2>2, <2>3 DEF Waits
<1>3. CASE SpawnLooks(s)
  <2>1. /\ view' = view /\ state' = state /\ overtaken' = overtaken \cup ToolsOf(s)
    BY <1>3 DEF SpawnLooks
  <2>2. PICK ref \in Snapshot(s, pending) : row' = [row EXCEPT ![s] = ref]
    BY <1>3 DEF SpawnLooks
  <2>3. ref = None \/ (ref \in pending /\ Asker[ref] = s)
    BY <2>2 DEF Snapshot
  <2>4. \A q \in Request : \A t \in Session :
          row'[t] = q => row[t] = q \/ (t = s /\ q \in pending /\ Asker[q] = s)
    BY <2>2, <2>3 DEF TypeOK
  <2>5. \A q \in tool : q \in pending /\ Asker[q] = s => q \in ToolsOf(s)
    BY <1>0 DEF ToolsOf
  <2>6. ShownByAsker'
    BY <1>0, <2>1, <2>4 DEF ShownByAsker
  <2>7. Carried' /\ Waits' /\ NotShownAfter'
    BY <1>0, <2>1, <2>4, <2>5 DEF Carried, Waits, NotShownAfter
  <2> QED
    BY <1>1, <2>6, <2>7
<1>4. CASE SpawnEmits(s)
  <2>1. /\ state' = state /\ overtaken' = overtaken
        /\ \A q \in Request : \A t \in Session : view'[t] = q => view[t] = q \/ row[t] = q
        /\ \A q \in Request : \A t \in Session : row'[t] = q => row[t] = q
    BY <1>4 DEF SpawnEmits, TypeOK
  <2>2. ShownByAsker'
    BY <1>0, <2>1 DEF ShownByAsker
  <2>3. Carried' /\ Waits' /\ NotShownAfter'
    BY <1>0, <2>1 DEF Carried, Waits, NotShownAfter
  <2> QED
    BY <1>1, <2>2, <2>3
<1> QED
  BY <1>2, <1>3, <1>4 DEF SpawnStep

(* A step of a call that marks no status.                                  *)
LEMMA CallShown ==
  ASSUME ShownInv, NEW r \in Request,
         \/ Record(r) \/ Ask(r) \/ AskFails(r) \/ Take(r) \/ Expire(r) \/ Abort(r) \/ Clear(r)
         \/ Cancel(r)
  PROVE  Shown'
<1> USE InquiryAssumption DEF ShownInv, Shown
<1>1. /\ \A s \in Session : view'[s] = view[s] \/ (s = Asker[r] /\ view'[s] = r /\ call'[r] \in {"asked", "decided"})
      /\ UNCHANGED <<state, row, overtaken>>
  BY DEF Record, Ask, AskFails, Take, Expire, Abort, Decided, Clear, Cancel, showVars, spawnVars, TypeOK
<1>2. /\ \A q \in Request : q # r => call'[q] = call[q]
      /\ call[r] # "done" /\ call'[r] # "new"
      /\ call[r] = "new" \/ call[r] \in Running
      /\ call'[r] \in Running \/ (call'[r] = "done" /\ r \notin tool /\ r \notin tool')
  BY DEF Record, Ask, AskFails, CanAsk, Take, Expire, Abort, Decided, Clear, Cancel, TypeOK, Running
<1>3. /\ call[r] = "new" => Record(r)
      /\ ~Record(r) => tool' = tool
      /\ tool' = tool \/ (tool' = tool \cup {r} /\ ToolsOf(Asker[r]) = {})
      /\ Record(r) => call'[r] = "recorded"
  BY DEF Record, Ask, AskFails, CanAsk, Take, Expire, Abort, Decided, Clear, Cancel, TypeOK, Running
<1>4. /\ \A q \in Request : cancelled[q] => cancelled'[q]
      /\ tool \subseteq Request
  <2>1. CASE Cancel(r)
    BY <2>1 DEF Cancel, TypeOK
  <2>2. CASE ~Cancel(r)
    BY <2>2 DEF Record, Ask, AskFails, Take, Expire, Abort, Decided, Clear, TypeOK
  <2> QED
    BY <2>1, <2>2
<1>5. /\ call'[r] = "ready" => call[r] = "ready"
      /\ call'[r] = "cleared" => r \in tool
      /\ call'[r] \in {"asked", "decided"} /\ r \in tool =>
           call[r] \in {"ready", "asked", "decided"}
  <2>1. CASE Cancel(r)
    BY <2>1 DEF Cancel, ToolStage
  <2>2. CASE Clear(r)
    BY <2>2 DEF Clear, TypeOK
  <2>3. CASE Record(r)
    BY <2>3 DEF Record, TypeOK
  <2>4. CASE Ask(r) \/ AskFails(r)
    BY <2>4 DEF Ask, AskFails, CanAsk, Decided, TypeOK
  <2>5. CASE Take(r) \/ Expire(r) \/ Abort(r)
    BY <2>5 DEF Take, Expire, Abort, Decided, TypeOK
  <2> QED
    BY <2>1, <2>2, <2>3, <2>4, <2>5
<1>6. call'[r] = "cleared" => call[r] \in {"decided", "cleared"}
  BY DEF Record, Ask, AskFails, CanAsk, Take, Expire, Abort, Decided, Clear, Cancel, TypeOK
<1>7. ShownByAsker'
  BY <1>1, <1>2 DEF ShownByAsker
<1>8. ToolStage'
  BY <1>2, <1>3, <1>5 DEF ToolStage
<1>9. OneTool'
  <2>1. CASE tool' = tool /\ call[r] # "new"
    BY <1>2, <1>4, <2>1 DEF OneTool
  <2>2. CASE call[r] = "new" \/ tool' # tool
    <3>1. r \in tool' => ToolsOf(Asker[r]) = {} /\ tool' = tool \cup {r}
      BY <1>3, <2>2 DEF Record, ToolStage
    <3>2. ASSUME NEW q \in tool, NEW t \in tool, q # r, t # r, Asker[q] = Asker[t],
                 call'[q] \in Running, call'[t] \in Running
          PROVE  q = t
      BY <1>2, <1>4, <3>2 DEF OneTool
    <3>3. ASSUME NEW q \in tool, q # r, r \in tool', Asker[q] = Asker[r], call'[q] \in Running
          PROVE  FALSE
      BY <1>2, <1>4, <3>1, <3>3 DEF ToolsOf
    <3>4. \A q \in tool' : q \in tool \/ q = r
      BY <1>3
    <3> QED
      BY <3>2, <3>3, <3>4 DEF OneTool
  <2> QED
    BY <2>1, <2>2
<1>10. Waits'
  <2>1. ASSUME NEW q \in tool' \ overtaken', call'[q] \in {"ready", "asked", "decided", "cleared"}
        PROVE  state[Asker[q]] = "wait"
    <3>1. CASE q # r
      BY <1>1, <1>2, <1>3, <1>4, <2>1, <3>1 DEF Waits
    <3>2. CASE q = r
      <4>1. ~Record(r) /\ r \in tool /\ r \notin overtaken
        BY <1>1, <1>3, <2>1, <3>2
      <4>2. call[r] \in {"ready", "asked", "decided", "cleared"}
        BY <1>5, <1>6, <2>1, <3>2, <4>1
      <4> QED
        BY <3>2, <4>1, <4>2 DEF Waits
    <3> QED
      BY <3>1, <3>2
  <2> QED
    BY <1>1, <2>1 DEF Waits
<1>11. Carried'
  <2>1. ASSUME NEW q \in tool', NEW s \in Session, row'[s] = q PROVE q \in overtaken'
    <3>1. q \in tool \/ (q = r /\ call[r] = "new")
      BY <1>3, <2>1 DEF Record
    <3>2. row[s] = q
      BY <1>1, <2>1
    <3> QED
      BY <1>1, <3>1, <3>2 DEF Carried, ShownByAsker
  <2> QED
    BY <2>1 DEF Carried
<1>12. NotShownAfter'
  <2>1. ASSUME NEW q \in tool', NEW s \in Session, view'[s] = q, ~cancelled'[q],
               q \notin overtaken', call'[q] = "done"
        PROVE  FALSE
    <3>1. q # r
      BY <1>2, <2>1 DEF Running
    <3>2. q \in tool /\ q \in Request /\ call[q] = "done"
      BY <1>2, <1>3, <1>4, <2>1, <3>1
    <3>3. view[s] = q /\ ~cancelled[q] /\ q \notin overtaken
      BY <1>1, <1>4, <2>1, <3>1, <3>2
    <3> QED
      BY <3>2, <3>3 DEF NotShownAfter
  <2> QED
    BY <2>1 DEF NotShownAfter
<1> QED
  BY <1>7, <1>8, <1>9, <1>10, <1>11, <1>12

LEMMA NextShown ==
  ASSUME ShownInv, [Next]_vars PROVE ShownInv'
<1>0. TypeOK'
  BY NextTypeOK DEF ShownInv
<1>1. ASSUME UNCHANGED <<call, tool, cancelled, showVars>> PROVE Shown'
  <2> USE <1>1 DEF ShownInv, Shown, showVars, spawnVars
  <2>1. ShownByAsker' /\ Carried' /\ NotShownAfter'
    BY DEF ShownByAsker, Carried, NotShownAfter
  <2>2. ToolStage' /\ OneTool' /\ Waits'
    BY DEF ToolStage, OneTool, Waits
  <2> QED
    BY <2>1, <2>2
<1>2. ASSUME NEW s \in Session, Stop(s) PROVE Shown'
  <2>1. /\ UNCHANGED <<call, tool, showVars>> /\ tool \subseteq Request
        /\ \A q \in Request : cancelled[q] => cancelled'[q]
    BY <1>2 DEF Stop, ShownInv, TypeOK
  <2> USE <2>1 DEF ShownInv, Shown, showVars, spawnVars
  <2>2. ShownByAsker' /\ Carried' /\ NotShownAfter'
    BY DEF ShownByAsker, Carried, NotShownAfter
  <2>3. ToolStage' /\ OneTool' /\ Waits'
    BY DEF ToolStage, OneTool, Waits
  <2> QED
    BY <2>2, <2>3
<1>3. \/ \E r \in Request : CallStep(r)
      \/ \E s \in Session : Stop(s) \/ SpawnStep(s)
      \/ UNCHANGED <<call, tool, cancelled, showVars>>
  BY DEF Next, PumpStep, LoopStep, RecordRoute, Bubble, Answer, Dispatch, Tell, Join,
         Joined, Drain, Exit, vars, callVars
<1>4. ASSUME NEW r \in Request, CallStep(r) PROVE Shown'
  BY <1>4, FeedShown, ReleaseShown, CallShown DEF CallStep
<1> QED
  BY <1>0, <1>1, <1>2, <1>3, <1>4, SpawnShown DEF ShownInv

(* Observers never go on showing the inquiry of a tool call that has       *)
(* returned (NotShownAfter): unless its context was done, or a spawn on    *)
(* the same session has marked it active meanwhile, the release emits a    *)
(* status that no longer carries it, and no later row brings it back.      *)
THEOREM ReturnedNotShown == Spec => []NotShownAfter
<1>1. Init => ShownInv
  <2> SUFFICES ASSUME Init PROVE ShownInv
    OBVIOUS
  <2>1. \A r \in Request : \A s \in Session :
          call[r] = "new" /\ view[s] # r /\ row[s] # r
    BY InquiryAssumption DEF Init
  <2> QED
    BY <2>1, InitTypeOK
    DEF Init, ShownInv, Shown, ShownByAsker, ToolStage, OneTool, Waits, Carried, NotShownAfter
<1>2. ShownInv /\ [Next]_vars => ShownInv'
  BY NextShown
<1> QED
  BY <1>1, <1>2, PTL DEF Spec, ShownInv, Shown
-----------------------------------------------------------------------------
(* No answer is lost.                                                      *)

AllOpen(r) == \A s \in seen[r] : life[s] = "open"

Rising(r, c) == r \in wire[c] \/ held[c] = r

(* A request rises from one session at a time, and nothing at or above the *)
(* parent of that session has seen it.                                     *)
OneFront ==
  \A r \in Request : \A c \in Session : Rising(r, c) =>
    /\ \A t \in seen[r] : Depth[c] <= Depth[t]
    /\ \A d \in Session : Rising(r, d) => d = c
    /\ ~(r \in wire[c] /\ held[c] = r)

(* A route leads to a child that has seen the request.                     *)
RouteDown ==
  \A r \in Request : \A s \in Session : route[s][r] # None =>
    route[s][r] \in seen[r] /\ route[s][r] \in ChildrenOf(s)

(* Until the first answer every session that has seen the request has its  *)
(* route, while all of them are open.                                      *)
Unbroken ==
  \A r \in Request : posted[r] = 0 /\ AllOpen(r) =>
    /\ \A t \in seen[r] \ {Asker[r]} : route[t][r] # None
    /\ \A c \in Child : held[c] = r => route[ParentOf[c]][r] = c

(* Only a closed session is missing from the children of its parent.       *)
StillChild == \A c \in Child : life[c] # "closed" => c \in children[ParentOf[c]]

RouteInv == OrderInv /\ OneFront /\ RouteDown /\ Unbroken /\ StillChild

(* A parent is one level up.                                               *)
LEMMA ParentDepth ==
  ASSUME NEW c \in Child
  PROVE  ParentOf[c] \in Session /\ Depth[ParentOf[c]] < Depth[c]
BY InquiryAssumption DEF Child

LEMMA InitRoute == Init => RouteInv
<1> SUFFICES ASSUME Init PROVE RouteInv
  OBVIOUS
<1> USE InquiryAssumption
<1>1. OneFront
  BY DEF Init, OneFront, Rising
<1>2. RouteDown
  BY DEF Init, RouteDown
<1>3. Unbroken
  BY DEF Init, Unbroken, Child
<1>4. StillChild
  BY DEF Init, StillChild, Child, ChildrenOf
<1> QED
  BY InitOrder, <1>1, <1>2, <1>3, <1>4 DEF RouteInv

LEMMA NextOneFront ==
  ASSUME RouteInv, [Next]_vars PROVE OneFront'
<1> USE InquiryAssumption DEF RouteInv, OrderInv
<1>1. ASSUME NEW r \in Request, Ask(r) PROVE OneFront'
  <2>1. seen[r] = {} /\ \A s \in Session : ~Rising(r, s)
    BY <1>1 DEF Ask, CanAsk, CallOrder, WireOrder, Rising
  <2>2. \A q \in Request \ {r} : seen'[q] = seen[q] /\ \A s \in Session : Rising(q, s)' <=> Rising(q, s)
    BY <1>1 DEF Ask, Rising, TypeOK
  <2>3. seen'[r] = {Asker[r]} /\ held' = held /\ \A s \in Session : r \in wire'[s] => s = Asker[r]
    BY <1>1, <2>1 DEF Ask, Rising, TypeOK
  <2>4. \A s \in Session : held'[s] # r
    BY <2>1, <2>3 DEF Rising
  <2>5. \A c \in Session : Rising(r, c)' => c = Asker[r] /\ ~(r \in wire'[c] /\ held'[c] = r)
    BY <2>3, <2>4 DEF Rising
  <2>6. Depth[Asker[r]] \in Nat
    OBVIOUS
  <2>7. ASSUME NEW q \in Request, NEW c \in Session, Rising(q, c)'
        PROVE  /\ \A t \in seen'[q] : Depth[c] <= Depth[t]
               /\ \A d \in Session : Rising(q, d)' => d = c
               /\ ~(q \in wire'[c] /\ held'[c] = q)
    <3>1. CASE q = r
      BY <2>3, <2>5, <2>6, <2>7, <3>1
    <3>2. CASE q # r
      <4>1. Rising(q, c) /\ seen'[q] = seen[q]
        BY <2>2, <2>7, <3>2
      <4>2. ~(q \in wire'[c] /\ held'[c] = q)
        BY <1>1, <4>1, <3>2 DEF OneFront, Ask, TypeOK
      <4> QED
        BY <2>2, <3>2, <4>1, <4>2 DEF OneFront
    <3> QED
      BY <3>1, <3>2
  <2> QED
    BY <2>7 DEF OneFront
<1>2. ASSUME NEW c \in Child, RecordRoute(c) PROVE OneFront'
  <2>1. \A q \in Request, s \in Session : Rising(q, s)' => Rising(q, s)
    BY <1>2 DEF RecordRoute, Rising, TypeOK, Child
  <2>2. seen' = seen
    BY <1>2 DEF RecordRoute
  <2>3. \A q \in Request, s \in Session : ~(q \in wire'[s] /\ held'[s] = q)
    BY <1>2 DEF RecordRoute, OneFront, Rising, TypeOK, Child
  <2> QED
    BY <2>1, <2>2, <2>3 DEF OneFront
<1>3. ASSUME NEW c \in Child, Bubble(c) PROVE OneFront'
  <2> DEFINE p == ParentOf[c]
             r == held[c]
  <2>0. r \in Request /\ c \in Session
    BY <1>3 DEF Bubble, TypeOK, Child
  <2>1. p \in Session /\ Depth[p] < Depth[c]
    BY ParentDepth
  <2>2. /\ Rising(r, c)
        /\ \A t \in seen[r] : Depth[c] <= Depth[t]
        /\ \A d \in Session : Rising(r, d) => d = c
    BY <2>0 DEF OneFront, Rising
  <2>3. \A q \in Request \ {r} : seen'[q] = seen[q] /\ \A s \in Session : Rising(q, s)' <=> Rising(q, s)
    BY <1>3, <2>0, <2>1 DEF Bubble, Rising, TypeOK
  <2>4. seen'[r] = seen[r] \cup {p}
    BY <1>3, <2>0 DEF Bubble, TypeOK
  <2>5. \A s \in Session : held'[s] # r
    BY <1>3, <2>0, <2>2 DEF Bubble, Rising, TypeOK
  <2>6. \A s \in Session : r \in wire'[s] => s = p
    BY <1>3, <2>0, <2>1, <2>2 DEF Bubble, Rising, TypeOK, OneFront
  <2>7. \A t \in seen'[r] : t \in Session /\ Depth[p] <= Depth[t]
    BY <2>0, <2>1, <2>2, <2>4 DEF TypeOK
  <2>8. ASSUME NEW q \in Request, NEW d \in Session, Rising(q, d)'
        PROVE  /\ \A t \in seen'[q] : Depth[d] <= Depth[t]
               /\ \A e \in Session : Rising(q, e)' => e = d
               /\ ~(q \in wire'[d] /\ held'[d] = q)
    <3>1. CASE q = r
      BY <2>5, <2>6, <2>7, <2>8, <3>1 DEF Rising
    <3>2. CASE q # r
      <4>1. Rising(q, d) /\ seen'[q] = seen[q]
        BY <2>3, <2>8, <3>2
      <4>2. ~(q \in wire'[d] /\ held'[d] = q)
        BY <1>3, <2>0, <2>1, <4>1, <3>2 DEF OneFront, Bubble, TypeOK
      <4> QED
        BY <2>3, <3>2, <4>1, <4>2 DEF OneFront
    <3> QED
      BY <3>1, <3>2
  <2> QED
    BY <2>8 DEF OneFront
<1>4. ASSUME UNCHANGED <<wire, held, seen>> PROVE OneFront'
  BY <1>4 DEF OneFront, Rising
<1> QED
  BY <1>1, <1>2, <1>3, <1>4, SpawnFrame
     DEF Next, CallStep, PumpStep, LoopStep, Record, Feed, AskFails, Take, Expire, Abort, Decided,
         Clear, Release, Cancel, Answer, Dispatch, Tell, Join, Joined, Stop, Drain, Exit, vars, wireVars
LEMMA NextRouteDown ==
  ASSUME RouteInv, [Next]_vars PROVE RouteDown'
<1> USE InquiryAssumption DEF RouteInv, OrderInv
<1>1. ASSUME NEW c \in Child, RecordRoute(c) PROVE RouteDown'
  <2>1. PICK r \in wire[c] : route' = [route EXCEPT ![ParentOf[c]][r] = c]
    BY <1>1 DEF RecordRoute
  <2>2. r \in Request /\ c \in seen[r] /\ c \in ChildrenOf(ParentOf[c])
    BY <2>1 DEF WireOrder, TypeOK, Child, ChildrenOf
  <2> QED
    BY <1>1, <2>1, <2>2, ParentDepth DEF RecordRoute, RouteDown, TypeOK
<1>2. ASSUME NEW s \in Session, Dispatch(s) PROVE RouteDown'
  BY <1>2, DispatchEffect DEF Dispatch, RouteDown, TypeOK
<1>3. ASSUME NEW s \in Session, Joined(s) PROVE RouteDown'
  BY <1>3 DEF Joined, Swept, RouteDown, TypeOK
<1>4. ASSUME route' = route, \A r \in Request : seen[r] \subseteq seen'[r] PROVE RouteDown'
  BY <1>4 DEF RouteDown
<1>5. ASSUME NEW r \in Request, Ask(r) PROVE RouteDown'
  BY <1>4, <1>5 DEF Ask, TypeOK
<1>6. ASSUME NEW c \in Child, Bubble(c) PROVE RouteDown'
  BY <1>4, <1>6, ParentDepth DEF Bubble, TypeOK
<1>7. ASSUME UNCHANGED <<route, seen>> PROVE RouteDown'
  BY <1>4, <1>7
<1> QED
  BY <1>1, <1>2, <1>3, <1>5, <1>6, <1>7, SpawnFrame
     DEF Next, CallStep, PumpStep, LoopStep, Record, Feed, AskFails, Take, Expire, Abort, Decided,
         Clear, Release, Cancel, Answer, Tell, Join, Stop, Drain, Exit, vars, wireVars

LEMMA NextStillChild ==
  ASSUME RouteInv, [Next]_vars PROVE StillChild'
<1> USE InquiryAssumption DEF RouteInv, OrderInv
<1>1. ASSUME NEW s \in Session, Joined(s) PROVE StillChild'
  BY <1>1 DEF Joined, StillChild, TypeOK, Child
<1>2. ASSUME children' = children, \A s \in Session : life[s] = "closed" => life'[s] = "closed"
      PROVE  StillChild'
  BY <1>2 DEF StillChild, Child
<1>3. ASSUME NEW s \in Session, Exit(s) \/ Stop(s) PROVE StillChild'
  <2>1. life \in [Session -> Life]
    BY DEF TypeOK
  <2>2. CASE Exit(s)
    BY <1>2, <2>1, <2>2 DEF Exit
  <2>3. CASE Stop(s)
    <3>1. children' = children /\ life' = [life EXCEPT ![s] = "stop"] /\ life[s] = "told"
      BY <2>3 DEF Stop
    <3> QED
      BY <1>2, <2>1, <3>1
  <2> QED
    BY <1>3, <2>2, <2>3
<1>4. ASSUME NEW s \in Session, Tell(s) \/ \E c \in Child : Join(s, c) PROVE StillChild'
  BY <1>2, <1>4 DEF Tell, Join, Told, TypeOK
<1>5. ASSUME NEW s \in Session, Drain(s) PROVE StillChild'
  BY <1>2, <1>5 DEF Drain, Told, TypeOK
<1>6. ASSUME UNCHANGED <<children, life>> PROVE StillChild'
  BY <1>2, <1>6
<1> QED
  BY <1>1, <1>3, <1>4, <1>5, <1>6, SpawnFrame
     DEF Next, CallStep, PumpStep, LoopStep, Record, Feed, Ask, AskFails, Take, Expire, Abort,
         Decided, Clear, Release, Cancel, RecordRoute, Bubble, Answer, Dispatch, vars, lifeVars

(* A step that touches no route leaves Unbroken alone, if it opens nothing *)
(* and moves no request.                                                   *)
LEMMA UnbrokenFrame ==
  ASSUME RouteInv, UNCHANGED <<route, held, seen>>,
         \A r \in Request : posted'[r] = 0 => posted[r] = 0,
         \A s \in Session : life'[s] = "open" => life[s] = "open"
  PROVE  Unbroken'
<1>1. ASSUME NEW r \in Request, AllOpen(r)' PROVE AllOpen(r)
  BY <1>1 DEF AllOpen, RouteInv, OrderInv, TypeOK
<1> QED
  BY <1>1 DEF Unbroken, RouteInv

(* No session is opened again.                                             *)
LEMMA NothingOpens ==
  ASSUME TypeOK, NEW s \in Session,
         Tell(s) \/ Stop(s) \/ Drain(s) \/ Exit(s) \/ \E c \in Child : Join(s, c)
  PROVE  \A t \in Session : life'[t] = "open" => life[t] = "open"
<1>1. ASSUME NEW C, NEW t \in Session, Told(C)[t] = "open" PROVE life[t] = "open"
  BY <1>1 DEF Told
<1>2. CASE Tell(s)
  BY <1>1, <1>2 DEF Tell
<1>3. CASE \E c \in Child : Join(s, c)
  BY <1>1, <1>3 DEF Join
<1>4. CASE Stop(s)
  BY <1>4 DEF Stop, TypeOK
<1>5. CASE Exit(s)
  BY <1>5 DEF Exit, TypeOK
<1>6. CASE Drain(s)
  <2>1. life' = [Told(children[s]) EXCEPT ![s] = "drain"] /\ life[s] = "stop"
    BY <1>6 DEF Drain
  <2>2. ASSUME NEW t \in Session \ {s} PROVE life'[t] = Told(children[s])[t]
    BY <2>1, <2>2 DEF Told
  <2>3. life'[s] # "open"
    BY <2>1 DEF Told
  <2> QED
    BY <1>1, <2>2, <2>3
<1> QED
  BY <1>2, <1>3, <1>4, <1>5, <1>6

LEMMA NextUnbroken ==
  ASSUME RouteInv, [Next]_vars PROVE Unbroken'
<1> USE InquiryAssumption DEF RouteInv, OrderInv
<1>1. ASSUME NEW r \in Request, Ask(r) PROVE Unbroken'
  <2>1. /\ seen[r] = {} /\ \A s \in Session : held[s] # r
        /\ UNCHANGED <<route, held, posted, life>>
        /\ seen' = [seen EXCEPT ![r] = @ \cup {Asker[r]}]
    BY <1>1 DEF Ask, CanAsk, CallOrder, WireOrder, mailVars, lifeVars
  <2>2. ASSUME NEW q \in Request, posted'[q] = 0, AllOpen(q)'
        PROVE  /\ \A t \in seen'[q] \ {Asker[q]} : route'[t][q] # None
               /\ \A c \in Child : held'[c] = q => route'[ParentOf[c]][q] = c
    <3>1. CASE q = r
      BY <2>1, <3>1 DEF TypeOK, Child
    <3>2. CASE q # r
      <4>1. seen'[q] = seen[q]
        BY <2>1, <3>2 DEF TypeOK
      <4>2. posted[q] = 0 /\ AllOpen(q)
        BY <2>1, <2>2, <4>1 DEF AllOpen
      <4> QED
        BY <2>1, <4>1, <4>2 DEF Unbroken
    <3> QED
      BY <3>1, <3>2
  <2> QED
    BY <2>2 DEF Unbroken
<1>2. ASSUME NEW c \in Child, RecordRoute(c) PROVE Unbroken'
  <2>1. PICK r \in wire[c] :
          /\ held' = [held EXCEPT ![c] = r]
          /\ route' = [route EXCEPT ![ParentOf[c]][r] = c]
    BY <1>2 DEF RecordRoute
  <2>2. r \in Request /\ c \in Session /\ ParentOf[c] \in Session /\ c # None
    BY <2>1 DEF TypeOK, Child
  <2>3. seen' = seen /\ posted' = posted /\ life' = life
    BY <1>2 DEF RecordRoute, mailVars, lifeVars
  <2>4. ASSUME NEW q \in Request, posted'[q] = 0, AllOpen(q)'
        PROVE  /\ \A t \in seen'[q] \ {Asker[q]} : route'[t][q] # None
               /\ \A d \in Child : held'[d] = q => route'[ParentOf[d]][q] = d
    <3>1. posted[q] = 0 /\ AllOpen(q)
      BY <2>3, <2>4 DEF AllOpen
    <3>2. \A t \in seen[q] \ {Asker[q]} : route[t][q] # None
      BY <3>1 DEF Unbroken
    <3>3. \A t \in seen'[q] \ {Asker[q]} : route'[t][q] # None
      BY <2>1, <2>2, <2>3, <3>2 DEF TypeOK
    <3>4. ASSUME NEW d \in Child, held'[d] = q PROVE route'[ParentOf[d]][q] = d
      <4>0. d \in Session /\ ParentOf[d] \in Session
        BY DEF Child
      <4>1. CASE d = c
        BY <2>1, <2>2, <3>4, <4>1 DEF TypeOK
      <4>2. CASE d # c
        <5>1. held[d] = q
          BY <2>1, <2>2, <3>4, <4>0, <4>2 DEF TypeOK
        <5>2. route[ParentOf[d]][q] = d
          BY <3>1, <5>1 DEF Unbroken
        <5>3. q # r
          BY <2>1, <2>2, <4>0, <4>2, <5>1 DEF OneFront, Rising
        <5> QED
          BY <2>1, <2>2, <4>0, <5>2, <5>3 DEF TypeOK
      <4> QED
        BY <4>1, <4>2
    <3> QED
      BY <3>3, <3>4
  <2> QED
    BY <2>4 DEF Unbroken
<1>3. ASSUME NEW c \in Child, Bubble(c) PROVE Unbroken'
  <2> DEFINE p == ParentOf[c]
             r == held[c]
  <2>1. r \in Request /\ c \in Session /\ p \in Session /\ c # None
    BY <1>3 DEF Bubble, TypeOK, Child
  <2>2. /\ held' = [held EXCEPT ![c] = None] /\ seen' = [seen EXCEPT ![r] = @ \cup {p}]
        /\ route' = route /\ posted' = posted /\ life' = life
    BY <1>3 DEF Bubble, mailVars, lifeVars
  <2>3. ASSUME NEW q \in Request, posted'[q] = 0, AllOpen(q)'
        PROVE  /\ \A t \in seen'[q] \ {Asker[q]} : route'[t][q] # None
               /\ \A d \in Child : held'[d] = q => route'[ParentOf[d]][q] = d
    <3>1. seen[q] \subseteq seen'[q] /\ seen'[q] \subseteq seen[q] \cup (IF q = r THEN {p} ELSE {})
      BY <2>1, <2>2 DEF TypeOK
    <3>2. posted[q] = 0 /\ AllOpen(q)
      BY <2>2, <2>3, <3>1 DEF AllOpen
    <3>3. q = r => route[p][q] = c
      BY <3>2 DEF Unbroken
    <3>4. \A t \in seen'[q] \ {Asker[q]} : route'[t][q] # None
      BY <2>1, <2>2, <3>1, <3>2, <3>3 DEF Unbroken
    <3>5. \A d \in Child : held'[d] = q => held[d] = q
      BY <2>1, <2>2 DEF TypeOK, Child
    <3> QED
      BY <2>2, <3>2, <3>4, <3>5 DEF Unbroken
  <2> QED
    BY <2>3 DEF Unbroken
<1>4. ASSUME NEW s \in Session, Dispatch(s) PROVE Unbroken'
  <2>1. PICK r \in Request : \E k \in inbox[s][r] : route' = [route EXCEPT ![s][r] = None]
    BY <1>4, DispatchEffect
  <2>2. posted[r] # 0
    BY <2>1 DEF MailOrder, TypeOK
  <2>3. UNCHANGED <<posted, held, seen, life>>
    BY <1>4 DEF Dispatch, lifeVars
  <2>4. \A q \in Request \ {r} : \A t \in Session : route'[t][q] = route[t][q]
    BY <2>1 DEF TypeOK
  <2>5. ASSUME NEW q \in Request, posted'[q] = 0, AllOpen(q)'
        PROVE  /\ \A t \in seen'[q] \ {Asker[q]} : route'[t][q] # None
               /\ \A d \in Child : held'[d] = q => route'[ParentOf[d]][q] = d
    <3>1. q # r /\ posted[q] = 0 /\ AllOpen(q)
      BY <2>2, <2>3, <2>5 DEF AllOpen
    <3>2. \A d \in Child : ParentOf[d] \in Session
      BY DEF Child
    <3> QED
      BY <2>3, <2>4, <3>1, <3>2 DEF Unbroken, TypeOK
  <2> QED
    BY <2>5 DEF Unbroken
<1>5. ASSUME NEW s \in Session, Joined(s) PROVE Unbroken'
  <2> DEFINE c == joining[s]
  <2>1. /\ life[c] = "closed" /\ route' = Swept(s, c)
        /\ UNCHANGED <<posted, held, seen, life>>
    BY <1>5 DEF Joined, mailVars
  <2>2. \A t \in Session, q \in Request :
          route'[t][q] # route[t][q] => t = s /\ route[t][q] = c
    BY <2>1 DEF Swept, TypeOK
  <2>3. ASSUME NEW q \in Request, posted'[q] = 0, AllOpen(q)'
        PROVE  /\ \A t \in seen'[q] \ {Asker[q]} : route'[t][q] # None
               /\ \A d \in Child : held'[d] = q => route'[ParentOf[d]][q] = d
    <3>1. posted[q] = 0 /\ AllOpen(q)
      BY <2>1, <2>3 DEF AllOpen
    <3>2. c \notin seen[q]
      BY <2>1, <3>1 DEF AllOpen
    <3>3. \A t \in Session : route[t][q] # None => route'[t][q] = route[t][q]
      BY <2>2, <3>2 DEF RouteDown
    <3>4. \A d \in Child : ParentOf[d] \in Session /\ d # None
      BY DEF Child
    <3> QED
      BY <2>1, <3>1, <3>3, <3>4 DEF Unbroken, TypeOK
  <2> QED
    BY <2>3 DEF Unbroken
<1>6. ASSUME NEW r \in Request, NEW s \in Session, Answer(r, s) PROVE Unbroken'
  <2>1. \A q \in Request : posted'[q] = 0 => posted[q] = 0
    BY <1>6 DEF Answer, TypeOK
  <2> QED
    BY <1>6, <2>1, UnbrokenFrame DEF Answer, wireVars, lifeVars
<1>7. ASSUME NEW s \in Session,
             Tell(s) \/ Stop(s) \/ Drain(s) \/ Exit(s) \/ \E c \in Child : Join(s, c)
      PROVE  Unbroken'
  <2>1. UNCHANGED <<route, held, seen, posted>>
    BY <1>7 DEF Tell, Stop, Drain, Exit, Join, wireVars, mailVars
  <2> QED
    BY <1>7, <2>1, NothingOpens, UnbrokenFrame
<1>8. ASSUME UNCHANGED <<route, held, seen, posted, life>> PROVE Unbroken'
  BY <1>8, UnbrokenFrame
<1> QED
  BY <1>1, <1>2, <1>3, <1>4, <1>5, <1>6, <1>7, <1>8, SpawnFrame
     DEF Next, CallStep, PumpStep, LoopStep, Record, Feed, AskFails, Take, Expire, Abort, Decided,
         Clear, Release, Cancel, vars, wireVars, mailVars, lifeVars

LEMMA NextRoute == RouteInv /\ [Next]_vars => RouteInv'
BY NextOrder, NextOneFront, NextRouteDown, NextUnbroken, NextStillChild DEF RouteInv

-----------------------------------------------------------------------------
(* Until it is in the channel, some answer to a waiting call is on a way   *)
(* that leads down to it.                                                  *)
Waiting(r) == call[r] = "asked" /\ posted[r] > 0 /\ AllOpen(r)
Kept(r) == slot[r] # 0 \/ \E s \in Session : inbox[s][r] # {} /\ Leads(r, s)

LEMMA KeptIs == AnswerKept <=> \A r \in Request : Waiting(r) => Kept(r)
BY DEF AnswerKept, Waiting, Kept, AllOpen

(* Before the first answer every session that has seen the request leads   *)
(* to the call.                                                            *)
LEMMA SeenLeads ==
  ASSUME RouteInv, NEW r \in Request, posted[r] = 0, AllOpen(r), NEW s \in seen[r]
  PROVE  Leads(r, s)
<1>1. \A t \in seen[r] \ {Asker[r]} : route[t][r] \in seen[r]
  BY DEF RouteInv, OrderInv, Unbroken, RouteDown, TypeOK
<1>2. s \in seen[r] /\ seen[r] \in SUBSET seen[r]
  OBVIOUS
<1> QED
  BY <1>1, <1>2 DEF Leads

(* A step that takes no answer of r out of a session that has seen r, and  *)
(* no route of r that leads to such a session.                             *)
LEMMA KeptFrame ==
  ASSUME NEW r \in Request, Kept(r), TypeOK,
         slot[r] # 0 => slot'[r] # 0,
         \A s \in seen[r] : inbox[s][r] \subseteq inbox'[s][r],
         seen[r] \subseteq seen'[r],
         \A s \in seen[r] : route[s][r] \in seen[r] => route'[s][r] = route[s][r]
  PROVE  Kept(r)'
<1>1. CASE slot[r] # 0
  BY <1>1 DEF Kept
<1>2. CASE \E s \in Session : inbox[s][r] # {} /\ Leads(r, s)
  <2>1. PICK s \in Session : inbox[s][r] # {} /\ Leads(r, s)
    BY <1>2
  <2>2. PICK P \in SUBSET seen[r] : s \in P /\ \A t \in P \ {Asker[r]} : route[t][r] \in P
    BY <2>1 DEF Leads
  <2>3. P \in SUBSET seen'[r] /\ s \in P
    BY <2>2
  <2>4. \A t \in P \ {Asker[r]} : route'[t][r] \in P
    BY <2>2
  <2>5. Leads(r, s)'
    BY <2>3, <2>4 DEF Leads
  <2> QED
    BY <2>1, <2>2, <2>5 DEF Kept
<1> QED
  BY <1>1, <1>2 DEF Kept

(* The Run loop of s takes an answer to r out of its inbox.                *)
LEMMA DispatchKeeps ==
  ASSUME RouteInv, NEW r \in Request, Waiting(r), Kept(r),
         NEW s \in Session, NEW k \in inbox[s][r], AtSelect(s),
         Deliver(s, r, k) \/ Forward(s, r, k) \/ Drop(s, r, k),
         route' = [route EXCEPT ![s][r] = None], UNCHANGED <<seen>>
  PROVE  Kept(r)'
<1> USE InquiryAssumption DEF RouteInv, OrderInv
<1>0. k # 0
  BY DEF MailOrder, TypeOK
<1>1. CASE Deliver(s, r, k)
  BY <1>0, <1>1 DEF Deliver, Kept, TypeOK
<1>2. CASE ~Deliver(s, r, k)
  <2>0. Forward(s, r, k) \/ Drop(s, r, k)
    BY <1>2
  <2>1. slot' = slot /\ ~(r \in pending /\ Asker[r] = s)
    BY <2>0 DEF Forward, Drop
  <2>2. \A w \in Session \ {s} : inbox[w][r] \subseteq inbox'[w][r]
    BY <2>0 DEF Forward, Drop, Submitted, TypeOK
  <2>3. CASE slot[r] # 0
    BY <2>1, <2>3 DEF Kept
  <2>4. CASE slot[r] = 0
    <3>1. PICK w \in Session, P \in SUBSET seen[r] :
            inbox[w][r] # {} /\ w \in P /\ \A t \in P \ {Asker[r]} : route[t][r] \in P
      BY <2>4 DEF Kept, Leads
    <3>2. \A t \in P : t \in Session /\ (t # s => route'[t][r] = route[t][r])
      BY <3>1 DEF TypeOK
    <3>3. CASE s \notin P
      <4>1. \A t \in P \ {Asker[r]} : route'[t][r] \in P
        BY <3>1, <3>2, <3>3
      <4>2. Leads(r, w)'
        BY <3>1, <4>1 DEF Leads
      <4> QED
        BY <2>2, <3>1, <3>3, <4>2 DEF Kept
    <3>4. CASE s \in P
      <4> DEFINE P2 == {t \in P : Depth[t] > Depth[s]}
      <4>1. s # Asker[r]
        BY <2>1 DEF Waiting, TypeOK
      <4>2. PICK c \in P : c = route[s][r] /\ c # None
        BY <3>1, <3>4, <4>1 DEF TypeOK
      <4>3. c \in Child /\ ParentOf[c] = s /\ c \in Session
        BY <4>2 DEF RouteDown, ChildrenOf, Child
      <4>4. life[c] = "open"
        BY <4>2 DEF Waiting, AllOpen
      <4>5. c \in children[s]
        BY <4>3, <4>4 DEF StillChild
      <4>6. inbox'[c][r] # {}
        <5> DEFINE left == [inbox EXCEPT ![s][r] = @ \ {k}]
        <5>1. left \in [Session -> [Request -> SUBSET Nat]]
          BY DEF TypeOK
        <5>2. inbox' = [left EXCEPT ![c][r] = @ \cup {k}]
          BY <2>0, <4>2, <4>4, <4>5 DEF Forward, Drop, Submitted
        <5> QED
          BY <4>3, <5>1, <5>2
      <4>7. ASSUME NEW t \in P2 \ {Asker[r]} PROVE route'[t][r] \in P2
        <5>1. t \in P \ {Asker[r]} /\ t \in Session /\ t # s /\ Depth[t] > Depth[s]
          BY <3>2
        <5> DEFINE d == route[t][r]
        <5>2. d \in P /\ d # None /\ route'[t][r] = d
          BY <3>1, <3>2, <5>1 DEF TypeOK
        <5>3. d \in Child /\ ParentOf[d] = t /\ d \in Session
          BY <5>1, <5>2 DEF RouteDown, ChildrenOf, Child
        <5>4. Depth[d] = Depth[t] + 1
          BY <5>3 DEF Child
        <5> QED
          BY <5>1, <5>2, <5>3, <5>4
      <4>8. P2 \in SUBSET seen'[r]
        BY <3>1
      <4>9. c \in P2
        BY <4>2, <4>3 DEF Child
      <4>10. Leads(r, c)'
        BY <4>7, <4>8, <4>9 DEF Leads
      <4> QED
        BY <4>3, <4>6, <4>10 DEF Kept
    <3> QED
      BY <3>3, <3>4
  <2> QED
    BY <2>3, <2>4, <2>1 DEF TypeOK
<1> QED
  BY <1>1, <1>2

LEMMA NextKept ==
  ASSUME RouteInv, AnswerKept, [Next]_vars PROVE AnswerKept'
<1> USE InquiryAssumption DEF RouteInv, OrderInv
<1> SUFFICES ASSUME NEW r \in Request, Waiting(r)' PROVE Kept(r)'
  BY KeptIs DEF AnswerKept, Waiting, Kept, AllOpen
<1>0. Waiting(r) => Kept(r)
  BY KeptIs
<1>1. ASSUME NEW q \in Request, Ask(q) PROVE Kept(r)'
  <2>1. q # r
    <3>1. seen[q] = {} /\ posted' = posted
      BY <1>1 DEF Ask, CanAsk, CallOrder, mailVars
    <3>2. posted'[q] = 0
      BY <3>1 DEF MailOrder
    <3>3. posted'[r] > 0
      BY DEF Waiting
    <3> QED
      BY <3>2, <3>3
  <2>2. /\ UNCHANGED <<slot, inbox, route, life, posted>>
        /\ seen'[r] = seen[r] /\ call'[r] = call[r]
    BY <1>1, <2>1 DEF Ask, TypeOK, mailVars, lifeVars
  <2> QED
    BY <1>0, <2>2, KeptFrame DEF Waiting, AllOpen
<1>2. ASSUME NEW c \in Child, RecordRoute(c) PROVE Kept(r)'
  <2>1. PICK q \in wire[c] : route' = [route EXCEPT ![ParentOf[c]][q] = c]
    BY <1>2 DEF RecordRoute
  <2>2. UNCHANGED <<call, slot, inbox, seen, posted, life>>
    BY <1>2 DEF RecordRoute, callVars, mailVars, lifeVars
  <2>3. q \in Request /\ c \in Session /\ Rising(q, c)
    BY <2>1 DEF TypeOK, Child, Rising
  <2>4. ParentOf[c] \notin seen[q]
    BY <2>3, ParentDepth DEF OneFront, TypeOK
  <2>5. \A s \in seen[r] : route'[s][r] = route[s][r]
    BY <2>1, <2>3, <2>4, ParentDepth DEF TypeOK
  <2> QED
    BY <1>0, <2>2, <2>5, KeptFrame DEF Waiting, AllOpen
<1>3. ASSUME NEW c \in Child, Bubble(c) PROVE Kept(r)'
  <2>1. UNCHANGED <<call, slot, inbox, route, posted, life>> /\ seen[r] \subseteq seen'[r]
    BY <1>3 DEF Bubble, callVars, mailVars, lifeVars, TypeOK
  <2> QED
    BY <1>0, <2>1, KeptFrame DEF Waiting, AllOpen
<1>4. ASSUME NEW q \in Request, NEW s \in Session, Answer(q, s) PROVE Kept(r)'
  <2>1. UNCHANGED <<call, slot, route, seen, life>>
    BY <1>4 DEF Answer, callVars, wireVars, lifeVars
  <2>2. \A t \in Session : inbox[t][r] \subseteq inbox'[t][r]
    BY <1>4 DEF Answer, Submitted, TypeOK
  <2>3. AllOpen(r) /\ call[r] = "asked"
    BY <2>1 DEF Waiting, AllOpen
  <2>4. CASE posted[r] > 0
    <3>1. Kept(r)
      BY <1>0, <2>3, <2>4 DEF Waiting
    <3> QED
      BY <2>1, <2>2, <3>1, KeptFrame DEF TypeOK
  <2>5. CASE posted[r] = 0
    <3>1. q = r
      BY <1>4, <2>5 DEF Answer, Waiting, TypeOK
    <3>2. s \in seen[r] /\ life[s] # "closed"
      BY <1>4, <2>3, <3>1 DEF Answer, AllOpen
    <3>3. inbox'[s][r] # {}
      BY <1>4, <3>1, <3>2 DEF Answer, Submitted, TypeOK
    <3>4. Leads(r, s)
      BY <2>3, <2>5, <3>2, SeenLeads
    <3>5. Leads(r, s)'
      BY <2>1, <3>4 DEF Leads
    <3> QED
      BY <3>3, <3>5 DEF Kept
  <2> QED
    BY <2>4, <2>5 DEF TypeOK
<1>5. ASSUME NEW s \in Session, Dispatch(s) PROVE Kept(r)'
  <2>0. PICK q \in Request : \E k \in inbox[s][q] :
          /\ Deliver(s, q, k) \/ Forward(s, q, k) \/ Drop(s, q, k)
          /\ route' = [route EXCEPT ![s][q] = None]
    BY <1>5 DEF Dispatch
  <2>1. PICK k \in inbox[s][q] :
          /\ Deliver(s, q, k) \/ Forward(s, q, k) \/ Drop(s, q, k)
          /\ route' = [route EXCEPT ![s][q] = None]
    BY <2>0
  <2>2. AtSelect(s) /\ UNCHANGED <<call, seen, posted, life>>
    BY <1>5 DEF Dispatch, lifeVars
  <2>3. Waiting(r) /\ Kept(r)
    BY <1>0, <2>2 DEF Waiting, AllOpen
  <2>4. CASE q = r
    BY <2>1, <2>2, <2>3, <2>4, DispatchKeeps
  <2>5. CASE q # r
    <3>1. slot'[r] = slot[r]
      BY <2>1, <2>5 DEF Deliver, Forward, Drop, TypeOK
    <3>2. \A t \in Session : inbox'[t][r] = inbox[t][r]
      <4> DEFINE left == [inbox EXCEPT ![s][q] = @ \ {k}]
      <4>1. left \in [Session -> [Request -> SUBSET Nat]] /\ \A t \in Session : left[t][r] = inbox[t][r]
        BY <2>5 DEF TypeOK
      <4>2. CASE inbox' = left
        BY <4>1, <4>2
      <4>3. CASE Forward(s, q, k)
        <5> DEFINE d == route[s][q]
        <5>1. inbox' = left \/ inbox' = [left EXCEPT ![d][q] = @ \cup {k}]
          BY <4>3 DEF Forward, Submitted
        <5> HIDE DEF left, d
        <5>2. \A t \in Session : [left EXCEPT ![d][q] = @ \cup {k}][t][r] = left[t][r]
          BY <2>5, <4>1
        <5> QED
          BY <4>1, <5>1, <5>2
      <4> QED
        BY <2>1, <4>2, <4>3 DEF Deliver, Drop
    <3>3. \A t \in Session : route'[t][r] = route[t][r]
      BY <2>1, <2>5 DEF TypeOK
    <3> QED
      BY <2>2, <2>3, <3>1, <3>2, <3>3, KeptFrame DEF TypeOK
  <2> QED
    BY <2>4, <2>5
<1>6. ASSUME NEW s \in Session, Joined(s) PROVE Kept(r)'
  <2> DEFINE c == joining[s]
  <2>1. /\ life[c] = "closed" /\ route' = Swept(s, c)
        /\ UNCHANGED <<call, slot, inbox, seen, posted, life>>
    BY <1>6 DEF Joined, callVars, mailVars
  <2>2. Waiting(r) /\ Kept(r)
    BY <1>0, <2>1 DEF Waiting, AllOpen
  <2>3. c \notin seen[r]
    BY <2>1, <2>2 DEF Waiting, AllOpen
  <2>4. \A t \in Session : route[t][r] # c => route'[t][r] = route[t][r]
    BY <2>1 DEF Swept, TypeOK
  <2> QED
    BY <2>1, <2>2, <2>3, <2>4, KeptFrame DEF TypeOK
<1>7. ASSUME NEW s \in Session, Exit(s) PROVE Kept(r)'
  <2>1. UNCHANGED <<call, slot, route, seen, posted>>
    BY <1>7 DEF Exit, callVars, wireVars
  <2>2. s \notin seen[r]
    BY <1>7, <2>1 DEF Exit, Waiting, AllOpen, TypeOK
  <2>3. Waiting(r)
    BY <1>7, <2>1, NothingOpens DEF Waiting, AllOpen, TypeOK
  <2>4. \A t \in seen[r] : inbox'[t][r] = inbox[t][r]
    BY <1>7, <2>2 DEF Exit, TypeOK
  <2> QED
    BY <1>0, <2>1, <2>3, <2>4, KeptFrame
<1>8. ASSUME NEW s \in Session, Tell(s) \/ Stop(s) \/ Drain(s) \/ \E c \in Child : Join(s, c)
      PROVE  Kept(r)'
  <2>1. UNCHANGED <<call, slot, inbox, route, seen, posted>>
    BY <1>8 DEF Tell, Stop, Drain, Join, callVars, wireVars, mailVars
  <2>2. Waiting(r)
    BY <1>8, <2>1, NothingOpens DEF Waiting, AllOpen, TypeOK
  <2> QED
    BY <1>0, <2>1, <2>2, KeptFrame
<1>9. ASSUME NEW q \in Request, CallStep(q), ~Ask(q) PROVE Kept(r)'
  <2>1. UNCHANGED <<slot, inbox, route, seen, posted, life>>
    BY <1>9 DEF CallStep, Record, Feed, AskFails, Take, Expire, Abort, Decided, Clear, Release, Cancel,
                wireVars, mailVars, lifeVars
  <2>2. call[r] = "asked"
    BY <1>9 DEF CallStep, Record, Feed, AskFails, Take, Expire, Abort, Decided, Clear, Release, Cancel,
                Waiting, TypeOK
  <2> QED
    BY <1>0, <2>1, <2>2, KeptFrame DEF Waiting, AllOpen
<1>10. CASE UNCHANGED vars
  BY <1>0, <1>10, KeptFrame
     DEF Waiting, AllOpen, vars, callVars, wireVars, mailVars, lifeVars
<1>11. ASSUME NEW s \in Session, SpawnStep(s) PROVE Kept(r)'
  <2>1. UNCHANGED <<call, slot, inbox, route, seen, posted, life>>
    BY <1>11, SpawnFrame DEF wireVars, mailVars, lifeVars
  <2>2. Waiting(r)
    BY <1>11, <2>1, NothingOpens DEF Waiting, AllOpen, TypeOK
  <2> QED
    BY <1>0, <2>1, <2>2, KeptFrame
<1> QED
  BY <1>1, <1>2, <1>3, <1>4, <1>5, <1>6, <1>7, <1>8, <1>9, <1>10, <1>11 DEF Next, PumpStep, LoopStep

(* An answer a client has given to a waiting call is in its channel, or on *)
(* its way over routes that are all there, as long as the sessions that    *)
(* have carried the request stay open.                                     *)
THEOREM AnswerIsKept == Spec => []AnswerKept
<1>1. Init => RouteInv /\ AnswerKept
  <2>1. Init => AnswerKept
    BY DEF Init, AnswerKept
  <2> QED
    BY <2>1, InitRoute
<1>2. (RouteInv /\ AnswerKept) /\ [Next]_vars => (RouteInv /\ AnswerKept)'
  BY NextRoute, NextKept
<1> QED
  BY <1>1, <1>2, PTL DEF Spec
=============================================================================
