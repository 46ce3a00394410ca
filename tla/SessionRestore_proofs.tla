------------------------ MODULE SessionRestore_proofs ------------------------
(***************************************************************************)
(* Theorems about SessionRestore, for every tree of sub-agents and every   *)
(* number of crashes, at any step of the live sessions, of a settling pass *)
(* and of the reapers.                                                     *)
(***************************************************************************)
EXTENDS SessionRestore, TLAPS

-----------------------------------------------------------------------------
(* The invariant.                                                          *)

\* One client attaches at a time.  Two that resume one dormant root may both
\* settle it, the loser over a live tree: Manager.Resume takes its lock after
\* newSessionRestore has done so.
OneResumer == \A q, r \in Resumer : q = r

\* The sub-agents newSessionRestore looks at.
Direct == ChildrenOf(Root)

\* A root is in Manager.live exactly while it has a goroutine.
LiveIsUp == live <=> phase[Root] # "off"

\* Resume works on a root that is not live: only itself could bring it up.
ResumesDormant == \A r \in Resumer : resume[r].pc # "idle" => ~live

\* Whatever is not over and done with has a running parent.
Nested == \A c \in Sub : phase[c] # "off" => phase[ParentOf[c]] = "up"

\* Nothing is known of a sub-agent before its row is written, and the reaper
\* deals with rows.
Unborn ==
  /\ column[Root] # "none"
  /\ \A c \in Sub : column[c] = "none" =>
       phase[c] = "off" /\ ended[c] = <<>> /\ results[c] = <<>>
  /\ \A s \in reaper.rows \cup reaper.victim : column[s] # "none"

\* A sub-agent has one end at most, and no result while it has a goroutine.
OneEnd ==
  \A c \in Sub :
    /\ ended[c] \in {<<>>, <<Done>>, <<RestartDied>>}
    /\ phase[c] = "up" => ended[c] = <<>>
    /\ phase[c] \in {"wrote", "gone", "buffered"} => ended[c] = <<Done>>
    /\ phase[c] # "off" => results[c] = <<>>

\* The first half of SettledOnce.
OneResult == \A c \in Sub : results[c] = <<>> \/ results[c] = ended[c]

\* What a settling pass has found out stays true: `todo' holds the children
\* without a result, and the reason it is about to log is the one of the end.
Todo == {c \in Direct : column[c] # "none" /\ results[c] = <<>>}
SettleStep == {"settle", "bury", "flip", "row"}

PassExact ==
  \A r \in Resumer :
    /\ resume[r].pc = "settled" => resume[r].todo = {c \in Direct : column[c] # "none"}
    /\ resume[r].pc \in SettleStep => resume[r].todo = Todo
    /\ resume[r].pc \in SettleStep \ {"settle"} =>
         resume[r].child \in resume[r].todo
    /\ resume[r].pc = "bury" =>
         ended[resume[r].child] = <<>> /\ resume[r].reason = RestartDied
    /\ resume[r].pc = "flip" =>
         ended[resume[r].child] = <<RestartDied>> /\ resume[r].reason = RestartDied
    /\ resume[r].pc = "row" => ended[resume[r].child] = <<resume[r].reason>>
    /\ resume[r].pc = "register" => Todo = {}

\* The second half of SettledOnce.
EndsKnown ==
  phase[Root] = "up" =>
    \A c \in Direct : column[c] # "none" /\ phase[c] = "off" => results[c] # <<>>

RestoreInv ==
  /\ TypeOK
  /\ LiveIsUp /\ ResumesDormant /\ Nested /\ Unborn
  /\ OneEnd /\ OneResult /\ PassExact /\ EndsKnown

-----------------------------------------------------------------------------
(* Types.                                                                  *)

Reasons == {Done, RestartDied}

(* Appending a reason to a log gives a log of reasons that is not empty,   *)
(* and the newest entry of a log is a reason.                              *)
LEMMA LogOfReasons ==
  ASSUME NEW s \in Seq(Reasons)
  PROVE  /\ \A x \in Reasons : Append(s, x) \in Seq(Reasons) /\ Append(s, x) # <<>>
         /\ s # <<>> => Last(s) \in Reasons
<1>1. ASSUME NEW x \in Reasons PROVE Append(s, x) \in Seq(Reasons) /\ Append(s, x) # <<>>
  <2>1. Append(s, x) \in Seq(Reasons) /\ Len(Append(s, x)) = Len(s) + 1
    OBVIOUS
  <2>2. Len(s) \in Nat /\ Len(<<>>) = 0
    OBVIOUS
  <2> QED
    BY <2>1, <2>2
<1>2. ASSUME s # <<>> PROVE Last(s) \in Reasons
  <2>1. Len(s) \in 1 .. Len(s)
    BY <1>2
  <2> QED
    BY <2>1 DEF Last
<1> QED
  BY <1>1, <1>2

(* The reason a settling pass finds is one of the two.                     *)
LEMMA ReasonType == ASSUME TypeOK, NEW c \in Sub PROVE Reason(c) \in Reasons
<1>1. ended[c] \in Seq(Reasons)
  BY DEF TypeOK, Session, Reasons
<1> QED
  BY <1>1, LogOfReasons DEF Reason, Reasons

\* What a Resume call may be doing.
Pass == [pc : {"idle", "load", "children", "settled", "settle", "bury", "flip", "row", "register"},
         todo : SUBSET Sub, reason : Reasons, child : Session]

\* The two halves of TypeOK.
LogsOK == ended \in [Session -> Seq(Reasons)] /\ results \in [Sub -> Seq(Reasons)]

RestOK ==
  /\ column \in [Session -> {"none", "active", "terminated"}]
  /\ recent \in [Session -> BOOLEAN]
  /\ live \in BOOLEAN
  /\ phase \in [Session -> {"off", "up", "wrote", "gone", "buffered"}]
  /\ resume \in [Resumer -> Pass]
  /\ reaper \in [rows : SUBSET Session, victim : SUBSET Session]
  /\ crashes \in 0 .. MaxCrashes

LEMMA TypeHalves == TypeOK <=> LogsOK /\ RestOK
BY DEF TypeOK, LogsOK, RestOK, Pass, Reasons

(* A step leaves the logs of events alone or appends one reason to one of  *)
(* them, and so it does with the logs of results.                          *)
LEMMA LogMoves ==
  ASSUME LogsOK, RestOK, [Next]_vars
  PROVE  /\ \/ ended' = ended
            \/ \E s \in Session, x \in Reasons : ended' = [ended EXCEPT ![s] = Append(@, x)]
         /\ \/ results' = results
            \/ \E c \in Sub, x \in Reasons : results' = [results EXCEPT ![c] = Append(@, x)]
<1> DEFINE E == \/ ended' = ended
                \/ \E s \in Session, x \in Reasons : ended' = [ended EXCEPT ![s] = Append(@, x)]
           R == \/ results' = results
                \/ \E c \in Sub, x \in Reasons : results' = [results EXCEPT ![c] = Append(@, x)]
<1> SUFFICES E /\ R
  OBVIOUS
<1>0. Done \in Reasons /\ RestartDied \in Reasons
  BY DEF Reasons
<1>1. CASE UNCHANGED vars
  BY <1>1 DEF vars
<1>2. ASSUME NEW s \in Session, LiveStep(s) PROVE E /\ R
  BY <1>0, <1>2 DEF LiveStep, Activity, WriteTerminated, WriteColumn
<1>3. ASSUME NEW c \in Sub, ChildStep(c) PROVE E /\ R
  BY <1>0, <1>3 DEF ChildStep, Spawn, Collect, DrainPending, Logged
<1>4. CASE Deregister
  BY <1>4 DEF Deregister
<1>5. ASSUME NEW r \in Resumer, ResumeStep(r) PROVE E /\ R
  <2>1. CASE BuryChild(r)
    <3>1. resume[r].child \in Session
      BY DEF RestOK, Pass
    <3> QED
      BY <1>0, <2>1, <3>1 DEF BuryChild
  <2>2. CASE SettleRow(r)
    <3>1. resume[r].reason \in Reasons
      BY DEF RestOK, Pass
    <3>2. ended' = ended /\ results' = [results EXCEPT ![resume[r].child] =
                                          Append(@, resume[r].reason)]
      BY <2>2 DEF SettleRow, Logged
    <3>3. CASE resume[r].child \in Sub
      BY <3>1, <3>2, <3>3
    <3>4. CASE resume[r].child \notin Sub
      BY <3>2, <3>4 DEF LogsOK
    <3> QED
      BY <3>3, <3>4
  <2> QED
    BY <1>5, <2>1, <2>2
    DEF ResumeStep, CheckLive, LoadRow, ListChildren, ListSettled, LookupReason, FlipChild,
        Rebuild, Register, store
<1>6. CASE QuietHour \/ ReapList \/ Crash
  BY <1>6 DEF QuietHour, ReapList, Crash, store
<1>7. ASSUME NEW s \in Session, ReapCheck(s) \/ ReapFlip(s) PROVE E /\ R
  BY <1>7 DEF ReapCheck, ReapFlip, store
<1>8. ASSUME NEW c \in Sub, ReapOrphan(c) PROVE E /\ R
  BY <1>8 DEF ReapOrphan
<1> QED
  BY <1>1, <1>2, <1>3, <1>4, <1>5, <1>6, <1>7, <1>8 DEF Next

LEMMA NextLogsOK == ASSUME LogsOK, RestOK, [Next]_vars PROVE LogsOK'
<1>1. ASSUME NEW s \in Session, NEW x \in Reasons, ended' = [ended EXCEPT ![s] = Append(@, x)]
      PROVE  ended' \in [Session -> Seq(Reasons)]
  <2>1. Append(ended[s], x) \in Seq(Reasons)
    BY LogOfReasons DEF LogsOK
  <2> DEFINE L == Seq(Reasons)
  <2>2. ended \in [Session -> L] /\ Append(ended[s], x) \in L
    BY <2>1 DEF LogsOK
  <2> HIDE DEF L
  <2>3. ended' \in [Session -> L]
    BY <1>1, <2>2
  <2> QED
    BY <2>3 DEF L
<1>2. ASSUME NEW c \in Sub, NEW x \in Reasons, results' = [results EXCEPT ![c] = Append(@, x)]
      PROVE  results' \in [Sub -> Seq(Reasons)]
  <2>1. Append(results[c], x) \in Seq(Reasons)
    BY LogOfReasons DEF LogsOK
  <2> DEFINE L == Seq(Reasons)
  <2>2. results \in [Sub -> L] /\ Append(results[c], x) \in L
    BY <2>1 DEF LogsOK
  <2> HIDE DEF L
  <2>3. results' \in [Sub -> L]
    BY <1>2, <2>2
  <2> QED
    BY <2>3 DEF L
<1> QED
  BY <1>1, <1>2, LogMoves DEF LogsOK

(* A step of a Resume call changes the record of that call and no other.   *)
LEMMA PassMoves ==
  ASSUME LogsOK, RestOK, NEW r \in Resumer, ResumeStep(r)
  PROVE  \E p \in Pass : resume' = [resume EXCEPT ![r] = p]
<1> USE DEF At, Goto
<1>1. resume[r] \in Pass /\ resume \in [Resumer -> Pass]
  BY DEF RestOK
<1>2. ASSUME NEW x \in {"idle", "load", "children", "settled", "settle", "bury", "flip", "row",
                        "register"}
      PROVE  /\ [resume[r] EXCEPT !.pc = x] \in Pass
             /\ [resume EXCEPT ![r].pc = x] = [resume EXCEPT ![r] = [resume[r] EXCEPT !.pc = x]]
  BY <1>1 DEF Pass
<1>3. ASSUME NEW x \in {"settled", "settle"}, NEW T \in SUBSET Sub
      PROVE  /\ [resume[r] EXCEPT !.pc = x, !.todo = T] \in Pass
             /\ [resume EXCEPT ![r].pc = x, ![r].todo = T]
                  = [resume EXCEPT ![r] = [resume[r] EXCEPT !.pc = x, !.todo = T]]
  BY <1>1 DEF Pass
<1>4. CASE \/ CheckLive(r) \/ LoadRow(r) \/ BuryChild(r) \/ FlipChild(r) \/ Rebuild(r)
  BY <1>2, <1>4 DEF CheckLive, LoadRow, BuryChild, FlipChild, Rebuild
<1>5. CASE ListChildren(r)
  <2>1. {c \in ChildrenOf(Root) : column[c] # "none"} \in SUBSET Sub
    BY DEF ChildrenOf
  <2> QED
    BY <1>3, <1>5, <2>1 DEF ListChildren
<1>6. CASE ListSettled(r)
  <2>1. Dangling(resume[r].todo) \in SUBSET Sub
    BY <1>1 DEF Dangling, Pass
  <2>2. resume' = [resume EXCEPT ![r].pc = "settle", ![r].todo = Dangling(resume[r].todo)]
    BY <1>1, <1>6 DEF ListSettled, Pass
  <2> QED
    BY <1>3, <2>1, <2>2
<1>7. CASE LookupReason(r)
  <2>1. PICK c \in resume[r].todo :
          resume' = [resume EXCEPT ![r] =
            [pc |-> IF ended[c] = <<>> THEN "bury" ELSE "row",
             todo |-> @.todo, reason |-> Reason(c), child |-> c]]
    BY <1>7 DEF LookupReason
  <2>2. c \in Sub /\ resume[r].todo \in SUBSET Sub
    BY <1>1 DEF Pass
  <2>3. Reason(c) \in Reasons /\ c \in Session
    BY <2>2, ReasonType, TypeHalves DEF Session
  <2>4. [pc |-> IF ended[c] = <<>> THEN "bury" ELSE "row",
         todo |-> resume[r].todo, reason |-> Reason(c), child |-> c] \in Pass
    BY <2>2, <2>3 DEF Pass
  <2> QED
    BY <1>1, <2>1, <2>4
<1>8. CASE SettleRow(r)
  <2>1. resume[r].todo \ {resume[r].child} \in SUBSET Sub
    BY <1>1 DEF Pass
  <2>2. resume' = [resume EXCEPT ![r].pc = "settle", ![r].todo = resume[r].todo \ {resume[r].child}]
    BY <1>1, <1>8 DEF SettleRow, Pass
  <2> QED
    BY <1>3, <2>1, <2>2
<1>9. CASE Register(r)
  BY <1>9 DEF Register, NotResuming, Pass, Reasons, Session
<1> QED
  BY <1>4, <1>5, <1>6, <1>7, <1>8, <1>9 DEF ResumeStep

LEMMA NextRestOK == ASSUME LogsOK, RestOK, [Next]_vars PROVE RestOK'
<1> USE TreeAssumption, CrashAssumption DEF RestOK
<1>0. Root \in Session /\ \A c \in Sub : c \in Session /\ ParentOf[c] \in Session
  BY DEF Session
<1>1. CASE UNCHANGED vars
  BY <1>1 DEF vars
<1>2. ASSUME NEW s \in Session, LiveStep(s) PROVE RestOK'
  BY <1>2 DEF LiveStep, Activity, WriteTerminated, WriteColumn
<1>3. ASSUME NEW c \in Sub, ChildStep(c) PROVE RestOK'
  <2>1. column' \in [Session -> {"none", "active", "terminated"}]
    BY <1>0, <1>3 DEF ChildStep, Spawn, Collect, DrainPending, Logged
  <2>2. recent' \in [Session -> BOOLEAN]
    BY <1>0, <1>3 DEF ChildStep, Spawn, Collect, DrainPending, Logged
  <2>3. phase' \in [Session -> {"off", "up", "wrote", "gone", "buffered"}]
    BY <1>0, <1>3 DEF ChildStep, Spawn, Collect, DrainPending, Logged
  <2>4. UNCHANGED <<live, resume, reaper, crashes>>
    BY <1>3 DEF ChildStep, Spawn, Collect, DrainPending, Logged
  <2> QED
    BY <2>1, <2>2, <2>3, <2>4
<1>4. CASE Deregister
  BY <1>0, <1>4 DEF Deregister
<1>5. ASSUME NEW r \in Resumer, ResumeStep(r) PROVE RestOK'
  <2>0. \A p \in Pass : [resume EXCEPT ![r] = p] \in [Resumer -> Pass]
    OBVIOUS
  <2>1. resume' \in [Resumer -> Pass]
    BY <1>0, <1>5, <2>0, PassMoves, TypeHalves
  <2>2. column' \in [Session -> {"none", "active", "terminated"}]
    BY <1>5 DEF ResumeStep, CheckLive, LoadRow, ListChildren, ListSettled, LookupReason, BuryChild,
                FlipChild, SettleRow, Rebuild, Register, store
  <2>3. recent' \in [Session -> BOOLEAN]
    BY <1>0, <1>5 DEF ResumeStep, CheckLive, LoadRow, ListChildren, ListSettled, LookupReason,
                BuryChild, FlipChild, SettleRow, Rebuild, Register, Logged, store
  <2>4. phase' \in [Session -> {"off", "up", "wrote", "gone", "buffered"}] /\ live' \in BOOLEAN
    BY <1>0, <1>5 DEF ResumeStep, CheckLive, LoadRow, ListChildren, ListSettled, LookupReason,
                BuryChild, FlipChild, SettleRow, Rebuild, Register, store
  <2>5. UNCHANGED <<reaper, crashes>>
    BY <1>5 DEF ResumeStep, CheckLive, LoadRow, ListChildren, ListSettled, LookupReason,
                BuryChild, FlipChild, SettleRow, Rebuild, Register, store
  <2> QED
    BY <2>1, <2>2, <2>3, <2>4, <2>5
<1>6. CASE QuietHour
  BY <1>6 DEF QuietHour
<1>7. CASE ReapList
  BY <1>7 DEF ReapList, store
<1>8. ASSUME NEW s \in Session, ReapCheck(s) \/ ReapFlip(s) PROVE RestOK'
  BY <1>8 DEF ReapCheck, ReapFlip, store
<1>9. ASSUME NEW c \in Sub, ReapOrphan(c) PROVE RestOK'
  BY <1>0, <1>9 DEF ReapOrphan
<1>10. CASE Crash
  <2>1. NotResuming \in Pass /\ NotReaping \in [rows : SUBSET Session, victim : SUBSET Session]
    BY <1>0 DEF NotResuming, NotReaping, Reasons, Pass
  <2>2. phase' \in [Session -> {"off", "up", "wrote", "gone", "buffered"}]
    BY <1>10 DEF Crash
  <2>3. resume' \in [Resumer -> Pass]
    BY <1>10, <2>1 DEF Crash
  <2>4. crashes' \in 0 .. MaxCrashes /\ live' = FALSE /\ reaper' = NotReaping /\ UNCHANGED store
    BY <1>10 DEF Crash
  <2> QED
    BY <2>1, <2>2, <2>3, <2>4 DEF store
<1> QED
  BY <1>1, <1>2, <1>3, <1>4, <1>5, <1>6, <1>7, <1>8, <1>9, <1>10 DEF Next

LEMMA InitTypeOK == Init => TypeOK
<1> SUFFICES ASSUME Init PROVE LogsOK /\ RestOK
  BY TypeHalves
<1>1. NotResuming \in Pass /\ NotReaping \in [rows : SUBSET Session, victim : SUBSET Session]
  BY DEF NotResuming, NotReaping, Reasons, Pass, Session
<1>2. <<>> \in Seq(Reasons)
  OBVIOUS
<1>3. LogsOK
  BY <1>2 DEF Init, LogsOK
<1>4. RestOK
  BY <1>1, CrashAssumption DEF Init, RestOK
<1> QED
  BY <1>3, <1>4

LEMMA NextTypeOK == ASSUME TypeOK, [Next]_vars PROVE TypeOK'
<1>1. LogsOK' /\ RestOK'
  BY NextLogsOK, NextRestOK, TypeHalves
<1> QED
  BY <1>1 DEF TypeOK, LogsOK, RestOK, Pass, Reasons

(* The rows, the logs and the registry stay well typed across any number   *)
(* of crashes, whoever resumes the root and however many do.               *)
THEOREM TypeCorrect == Spec => []TypeOK
<1>1. TypeOK /\ [Next]_vars => TypeOK'
  BY NextTypeOK
<1> QED
  BY <1>1, InitTypeOK, PTL DEF Spec

-----------------------------------------------------------------------------
(* The tree in memory.                                                     *)

Memory == LiveIsUp /\ ResumesDormant /\ Nested

LEMMA InitRestoreInv == Init => RestoreInv
<1> SUFFICES ASSUME Init PROVE RestoreInv
  OBVIOUS
<1>1. TypeOK
  BY InitTypeOK
<1>2. Memory
  BY TreeAssumption DEF Init, Memory, LiveIsUp, ResumesDormant, Nested, Session, NotResuming
<1>3. Unborn
  BY TreeAssumption DEF Init, Unborn, Session, NotReaping
<1>4. OneEnd /\ OneResult /\ EndsKnown
  BY TreeAssumption DEF Init, OneEnd, OneResult, EndsKnown, Session, Direct, ChildrenOf
<1>5. PassExact
  BY DEF Init, PassExact, NotResuming, SettleStep
<1> QED
  BY <1>1, <1>2, <1>3, <1>4, <1>5 DEF RestoreInv, Memory

(* A root that is not live has no running sub-agent right below it.        *)
LEMMA DormantBelow ==
  ASSUME TypeOK, Memory, NEW r \in Resumer, resume[r].pc # "idle"
  PROVE  /\ ~live /\ phase[Root] = "off"
         /\ \A c \in Direct : c \in Sub /\ ParentOf[c] = Root /\ phase[c] = "off"
BY DEF Memory, LiveIsUp, ResumesDormant, Nested, Direct, ChildrenOf

(* A step of a Resume call leaves the goroutines alone, but for the root   *)
(* it registers.                                                           *)
LEMMA NextMemory == ASSUME TypeOK, Memory, OneResumer, [Next]_vars PROVE Memory'
<1> USE TreeAssumption DEF Memory, LiveIsUp, ResumesDormant, Nested
<1>0. /\ phase \in [Session -> {"off", "up", "wrote", "gone", "buffered"}]
      /\ resume \in [Resumer -> Pass]
      /\ Root \in Session /\ \A c \in Sub : c \in Session /\ ParentOf[c] \in Session
  BY TypeHalves DEF RestOK, Session
<1>1. CASE UNCHANGED vars
  BY <1>1 DEF vars
<1>2. ASSUME NEW s \in Session, LiveStep(s) PROVE Memory'
  <2>1. CASE Activity(s)
    BY <2>1 DEF Activity
  <2>2. CASE WriteTerminated(s)
    BY <1>0, <2>2 DEF WriteTerminated, ChildrenOf
  <2>3. CASE WriteColumn(s)
    BY <1>0, <2>3 DEF WriteColumn
  <2> QED
    BY <1>2, <2>1, <2>2, <2>3 DEF LiveStep
<1>3. ASSUME NEW c \in Sub, ChildStep(c) PROVE Memory'
  <2>1. CASE Spawn(c)
    BY <1>0, <2>1 DEF Spawn
  <2>2. CASE Collect(c)
    BY <1>0, <2>2 DEF Collect, Logged
  <2>3. CASE DrainPending(c)
    BY <1>0, <2>3 DEF DrainPending, Logged
  <2> QED
    BY <1>3, <2>1, <2>2, <2>3 DEF ChildStep
<1>4. CASE Deregister
  BY <1>0, <1>4 DEF Deregister
<1>5. ASSUME NEW r \in Resumer, ResumeStep(r) PROVE Memory'
  <2>1. \A q \in Resumer : q = r
    BY DEF OneResumer
  <2>2. CASE Register(r)
    <3>1. ~live /\ phase[Root] = "off"
      BY <2>2, DormantBelow DEF Register, At
    <3>2. resume'[r].pc = "idle"
      BY <1>0, <2>2 DEF Register, NotResuming
    <3> QED
      BY <1>0, <2>1, <2>2, <3>1, <3>2 DEF Register
  <2>3. CASE ~Register(r)
    <3>1. UNCHANGED <<live, phase>>
      BY <1>5, <2>3 DEF ResumeStep, CheckLive, LoadRow, ListChildren, ListSettled, LookupReason,
                        BuryChild, FlipChild, SettleRow, Rebuild
    <3>2. ~live
      BY <1>5, <2>3 DEF ResumeStep, CheckLive, LoadRow, ListChildren, ListSettled, LookupReason,
                        BuryChild, FlipChild, SettleRow, Rebuild, At
    <3> QED
      BY <3>1, <3>2
  <2> QED
    BY <2>2, <2>3
<1>6. CASE QuietHour \/ ReapList
  BY <1>6 DEF QuietHour, ReapList
<1>7. ASSUME NEW s \in Session, ReapCheck(s) \/ ReapFlip(s) PROVE Memory'
  BY <1>7 DEF ReapCheck, ReapFlip
<1>8. ASSUME NEW c \in Sub, ReapOrphan(c) PROVE Memory'
  BY <1>8 DEF ReapOrphan
<1>9. CASE Crash
  BY <1>0, <1>9 DEF Crash, NotResuming
<1> QED
  BY <1>1, <1>2, <1>3, <1>4, <1>5, <1>6, <1>7, <1>8, <1>9 DEF Next

-----------------------------------------------------------------------------
(* The rows and the logs.                                                  *)

(* The logs a sub-agent can have.                                          *)
LEMMA ShortLogs ==
  /\ \A x : Append(<<>>, x) = <<x>> /\ <<x>> # <<>> /\ Last(<<x>>) = x /\ ToSet(<<x>>) = {x}
  /\ \A x, y : <<x>> = <<y>> => x = y
  /\ ToSet(<<>>) = {} /\ Done # RestartDied
BY DEF Last, ToSet, Done, RestartDied

(* The child a settling pass is about to write about is dormant and has no *)
(* result yet.                                                             *)
LEMMA PassChild ==
  ASSUME RestoreInv, NEW r \in Resumer, resume[r].pc \in SettleStep \ {"settle"}
  PROVE  LET c == resume[r].child IN
           /\ c \in Direct /\ c \in Sub /\ c \in Session /\ ParentOf[c] = Root
           /\ column[c] # "none" /\ results[c] = <<>> /\ phase[c] = "off" /\ phase[Root] = "off"
<1>1. resume[r].child \in Todo
  BY DEF RestoreInv, PassExact
<1>2. resume[r].pc # "idle"
  BY DEF SettleStep
<1> QED
  BY <1>1, <1>2, DormantBelow DEF Todo, RestoreInv, Memory, Session

\* What the rest of the proof needs of the types.
Shape ==
  /\ column \in [Session -> {"none", "active", "terminated"}]
  /\ ended \in [Session -> Seq(Reasons)] /\ results \in [Sub -> Seq(Reasons)]
  /\ phase \in [Session -> {"off", "up", "wrote", "gone", "buffered"}]
  /\ resume \in [Resumer -> Pass]
  /\ reaper \in [rows : SUBSET Session, victim : SUBSET Session]
  /\ Root \in Session /\ Root \notin Sub
  /\ \A c \in Sub : c \in Session /\ ParentOf[c] \in Session

LEMMA ShapeHolds == ASSUME RestoreInv PROVE Shape
BY TypeHalves, TreeAssumption DEF RestoreInv, LogsOK, RestOK, Shape, Session

(* A row never goes back to `none', and only Spawn takes one from there.   *)
LEMMA RowMoves ==
  ASSUME RestoreInv, [Next]_vars, NEW s \in Session
  PROVE  \/ (column[s] = "none") <=> (column'[s] = "none")
         \/ s \in Sub /\ Spawn(s)
<1> DEFINE G == (column[s] = "none") <=> (column'[s] = "none")
<1> SUFFICES ASSUME ~(s \in Sub /\ Spawn(s)) PROVE G
  OBVIOUS
<1>0. Shape
  BY ShapeHolds
<1>1. CASE UNCHANGED column
  BY <1>1
<1>2. ASSUME NEW t \in Session, LiveStep(t) PROVE G
  <2>1. phase[t] = "wrote" => column[t] # "none"
    BY <1>0, TreeAssumption DEF RestoreInv, Unborn, Session, Shape
  <2> QED
    BY <1>0, <1>2, <2>1 DEF LiveStep, Activity, WriteTerminated, WriteColumn, Shape
<1>3. ASSUME NEW c \in Sub, ChildStep(c) PROVE G
  BY <1>0, <1>3 DEF ChildStep, Spawn, Collect, DrainPending, Shape
<1>4. ASSUME NEW r \in Resumer, ResumeStep(r) PROVE G
  <2>1. CASE FlipChild(r)
    <3>1. column[resume[r].child] # "none"
      BY <2>1, PassChild DEF FlipChild, At, SettleStep
    <3> QED
      BY <1>0, <2>1, <3>1 DEF FlipChild, Shape
  <2> QED
    BY <1>4, <2>1 DEF ResumeStep, CheckLive, LoadRow, ListChildren, ListSettled, LookupReason,
                      BuryChild, SettleRow, Rebuild, Register, store
<1>5. ASSUME NEW t \in Session, ReapCheck(t) \/ ReapFlip(t) PROVE G
  <2>1. t \in reaper.victim => column[t] # "none"
    BY DEF RestoreInv, Unborn
  <2> QED
    BY <1>0, <1>5, <2>1 DEF ReapCheck, ReapFlip, store, Shape
<1>6. ASSUME NEW c \in Sub, ReapOrphan(c) PROVE G
  BY <1>0, <1>6 DEF ReapOrphan, Orphaned, Shape
<1>7. CASE Deregister \/ QuietHour \/ ReapList \/ Crash
  BY <1>7 DEF Deregister, QuietHour, ReapList, Crash, store
<1> QED
  BY <1>1, <1>2, <1>3, <1>4, <1>5, <1>6, <1>7 DEF Next, vars

(* The log of a sub-agent ends once: by itself, while it runs, or by the   *)
(* settling pass, when nobody runs it and it has not ended yet.            *)
LEMMA EndMoves ==
  ASSUME RestoreInv, [Next]_vars, NEW c \in Sub
  PROVE  \/ ended'[c] = ended[c]
         \/ WriteTerminated(c) /\ ended[c] = <<>> /\ ended'[c] = <<Done>>
         \/ /\ \E r \in Resumer : BuryChild(r) /\ resume[r].child = c
            /\ ended[c] = <<>> /\ ended'[c] = <<RestartDied>>
            /\ results[c] = <<>> /\ phase[c] = "off"
<1> DEFINE G == \/ ended'[c] = ended[c]
                \/ WriteTerminated(c) /\ ended[c] = <<>> /\ ended'[c] = <<Done>>
                \/ /\ \E r \in Resumer : BuryChild(r) /\ resume[r].child = c
                   /\ ended[c] = <<>> /\ ended'[c] = <<RestartDied>>
                   /\ results[c] = <<>> /\ phase[c] = "off"
<1> SUFFICES G
  OBVIOUS
<1>0. Shape
  BY ShapeHolds
<1>1. CASE UNCHANGED ended
  BY <1>1
<1>2. ASSUME NEW s \in Session, LiveStep(s) PROVE G
  <2>1. CASE WriteTerminated(s) /\ s = c
    <3>1. ended[c] = <<>>
      BY <2>1 DEF WriteTerminated, RestoreInv, OneEnd
    <3> QED
      BY <1>0, <2>1, <3>1, ShortLogs DEF WriteTerminated, Shape
  <2>2. CASE WriteTerminated(s) /\ s # c
    BY <1>0, <2>2 DEF WriteTerminated, Shape
  <2> QED
    BY <1>2, <2>1, <2>2 DEF LiveStep, Activity, WriteColumn
<1>3. ASSUME NEW d \in Sub, ChildStep(d) PROVE G
  BY <1>3 DEF ChildStep, Spawn, Collect, DrainPending
<1>4. ASSUME NEW r \in Resumer, ResumeStep(r) PROVE G
  <2>1. CASE BuryChild(r) /\ resume[r].child = c
    <3>1. ended[c] = <<>>
      BY <2>1 DEF BuryChild, At, RestoreInv, PassExact
    <3>2. results[c] = <<>> /\ phase[c] = "off"
      BY <2>1, PassChild DEF BuryChild, At, SettleStep
    <3> QED
      BY <1>0, <2>1, <3>1, <3>2, ShortLogs DEF BuryChild, Shape
  <2>2. CASE BuryChild(r) /\ resume[r].child # c
    BY <1>0, <2>2 DEF BuryChild, Shape
  <2> QED
    BY <1>4, <2>1, <2>2
    DEF ResumeStep, CheckLive, LoadRow, ListChildren, ListSettled, LookupReason, FlipChild,
        SettleRow, Rebuild, Register, store
<1>5. ASSUME NEW s \in Session, ReapCheck(s) \/ ReapFlip(s) PROVE G
  BY <1>5 DEF ReapCheck, ReapFlip, store
<1>6. ASSUME NEW d \in Sub, ReapOrphan(d) PROVE G
  BY <1>6 DEF ReapOrphan
<1>7. CASE Deregister \/ QuietHour \/ ReapList \/ Crash
  BY <1>7 DEF Deregister, QuietHour, ReapList, Crash, store
<1> QED
  BY <1>1, <1>2, <1>3, <1>4, <1>5, <1>6, <1>7 DEF Next, vars

(* A result is logged once, with the reason of the end: by the running     *)
(* parent, or by the settling pass.                                        *)
LEMMA ResultMoves ==
  ASSUME RestoreInv, [Next]_vars, NEW c \in Sub
  PROVE  \/ results'[c] = results[c]
         \/ /\ (Collect(c) \/ DrainPending(c)) /\ phase'[c] = "off"
            /\ results[c] = <<>> /\ results'[c] = ended[c] /\ ended'[c] = ended[c]
            /\ ended[c] # <<>>
         \/ /\ \E r \in Resumer : SettleRow(r) /\ resume[r].child = c
            /\ results[c] = <<>> /\ results'[c] = ended[c] /\ ended'[c] = ended[c]
            /\ ended[c] # <<>>
<1> DEFINE G == \/ results'[c] = results[c]
                \/ /\ (Collect(c) \/ DrainPending(c)) /\ phase'[c] = "off"
                   /\ results[c] = <<>> /\ results'[c] = ended[c] /\ ended'[c] = ended[c]
                   /\ ended[c] # <<>>
                \/ /\ \E r \in Resumer : SettleRow(r) /\ resume[r].child = c
                   /\ results[c] = <<>> /\ results'[c] = ended[c] /\ ended'[c] = ended[c]
                   /\ ended[c] # <<>>
<1> SUFFICES G
  OBVIOUS
<1>0. Shape
  BY ShapeHolds
<1>1. CASE UNCHANGED results
  BY <1>1
<1>2. ASSUME NEW s \in Session, LiveStep(s) PROVE G
  BY <1>2 DEF LiveStep, Activity, WriteTerminated, WriteColumn
<1>3. ASSUME NEW d \in Sub, ChildStep(d) PROVE G
  <2>1. CASE UNCHANGED results
    BY <2>1
  <2>2. CASE Logged(d, Done) /\ phase[d] \in {"gone", "buffered"} /\ phase' = [phase EXCEPT ![d] = "off"]
             /\ ended' = ended /\ (Collect(d) \/ DrainPending(d))
    <3>1. results[d] = <<>> /\ ended[d] = <<Done>>
      BY <2>2 DEF RestoreInv, OneEnd
    <3>2. results' = [results EXCEPT ![d] = <<Done>>]
      BY <1>0, <2>2, <3>1, ShortLogs DEF Logged, Shape
    <3>3. CASE d = c
      BY <1>0, <2>2, <3>1, <3>2, <3>3, ShortLogs DEF Shape
    <3>4. CASE d # c
      BY <1>0, <3>2, <3>4 DEF Shape
    <3> QED
      BY <3>3, <3>4
  <2> QED
    BY <1>3, <2>1, <2>2 DEF ChildStep, Spawn, Collect, DrainPending
<1>4. ASSUME NEW r \in Resumer, ResumeStep(r) PROVE G
  <2>1. CASE SettleRow(r)
    <3> DEFINE d == resume[r].child
    <3>1. results[d] = <<>> /\ d \in Sub
      BY <2>1, PassChild DEF SettleRow, At, SettleStep
    <3>2. ended[d] = <<resume[r].reason>>
      BY <2>1 DEF SettleRow, At, RestoreInv, PassExact
    <3>3. results' = [results EXCEPT ![d] = ended[d]] /\ ended' = ended /\ ended[d] # <<>>
      BY <1>0, <2>1, <3>1, <3>2, ShortLogs DEF SettleRow, Logged, Shape
    <3>4. CASE d = c
      BY <1>0, <2>1, <3>1, <3>3, <3>4 DEF Shape
    <3>5. CASE d # c
      BY <1>0, <3>3, <3>5 DEF Shape
    <3> QED
      BY <3>4, <3>5
  <2> QED
    BY <1>4, <2>1
    DEF ResumeStep, CheckLive, LoadRow, ListChildren, ListSettled, LookupReason, BuryChild,
        FlipChild, Rebuild, Register, store
<1>5. ASSUME NEW s \in Session, ReapCheck(s) \/ ReapFlip(s) PROVE G
  BY <1>5 DEF ReapCheck, ReapFlip, store
<1>6. ASSUME NEW d \in Sub, ReapOrphan(d) PROVE G
  BY <1>6 DEF ReapOrphan
<1>7. CASE Deregister \/ QuietHour \/ ReapList \/ Crash
  BY <1>7 DEF Deregister, QuietHour, ReapList, Crash, store
<1> QED
  BY <1>1, <1>2, <1>3, <1>4, <1>5, <1>6, <1>7 DEF Next, vars

(* The goroutine of a sub-agent goes one way, and it is out of memory only *)
(* with its result logged or its parent no longer running.                 *)
LEMMA PhaseMoves ==
  ASSUME RestoreInv, [Next]_vars, NEW c \in Sub
  PROVE  \/ phase'[c] = phase[c]
         \/ Spawn(c) /\ phase'[c] = "up"
         \/ phase[c] = "up" /\ phase'[c] = "wrote" /\ ended'[c] = <<Done>>
         \/ phase[c] = "wrote" /\ phase'[c] = "gone"
         \/ phase[c] = "gone" /\ phase'[c] = "buffered"
         \/ phase'[c] = "off" /\ (results'[c] # <<>> \/ phase'[ParentOf[c]] # "up")
<1> DEFINE G == \/ phase'[c] = phase[c]
                \/ Spawn(c) /\ phase'[c] = "up"
                \/ phase[c] = "up" /\ phase'[c] = "wrote" /\ ended'[c] = <<Done>>
                \/ phase[c] = "wrote" /\ phase'[c] = "gone"
                \/ phase[c] = "gone" /\ phase'[c] = "buffered"
                \/ phase'[c] = "off" /\ (results'[c] # <<>> \/ phase'[ParentOf[c]] # "up")
<1> SUFFICES G
  OBVIOUS
<1>0. Shape
  BY ShapeHolds
<1>1. CASE UNCHANGED phase
  BY <1>1
<1>2. ASSUME NEW s \in Session, LiveStep(s) PROVE G
  <2>1. CASE WriteTerminated(s)
    <3>1. CASE s = c
      <4>1. ended[c] = <<>>
        BY <2>1, <3>1 DEF WriteTerminated, RestoreInv, OneEnd
      <4> QED
        BY <1>0, <2>1, <3>1, <4>1, ShortLogs DEF WriteTerminated, Shape
    <3>2. CASE s # c
      BY <1>0, <2>1, <3>2 DEF WriteTerminated, Shape, ChildrenOf
    <3> QED
      BY <3>1, <3>2
  <2>2. CASE WriteColumn(s)
    BY <1>0, <2>2 DEF WriteColumn, Shape
  <2> QED
    BY <1>2, <2>1, <2>2 DEF LiveStep, Activity
<1>3. ASSUME NEW d \in Sub, ChildStep(d) PROVE G
  <2>1. CASE d # c
    BY <1>0, <1>3, <2>1 DEF ChildStep, Spawn, Collect, DrainPending, Shape
  <2>2. CASE Spawn(c)
    BY <1>0, <2>2 DEF Spawn, Shape
  <2>3. CASE Collect(c) \/ DrainPending(c)
    <3>1. CASE Logged(c, Done) /\ phase' = [phase EXCEPT ![c] = "off"]
      <4>1. results'[c] # <<>>
        BY <1>0, <3>1, LogOfReasons DEF Logged, Shape, Reasons
      <4> QED
        BY <1>0, <3>1, <4>1 DEF Shape
    <3> QED
      BY <1>0, <2>3, <3>1 DEF Collect, DrainPending, Shape
  <2> QED
    BY <1>3, <2>1, <2>2, <2>3 DEF ChildStep
<1>4. CASE Deregister
  BY <1>0, <1>4 DEF Deregister, Shape
<1>5. ASSUME NEW r \in Resumer, ResumeStep(r) PROVE G
  <2>1. CASE Register(r)
    BY <1>0, <2>1 DEF Register, Shape
  <2> QED
    BY <1>5, <2>1
    DEF ResumeStep, CheckLive, LoadRow, ListChildren, ListSettled, LookupReason, BuryChild,
        FlipChild, SettleRow, Rebuild
<1>6. ASSUME NEW s \in Session, ReapCheck(s) \/ ReapFlip(s) PROVE G
  BY <1>6 DEF ReapCheck, ReapFlip
<1>7. ASSUME NEW d \in Sub, ReapOrphan(d) PROVE G
  BY <1>7 DEF ReapOrphan
<1>8. CASE QuietHour \/ ReapList
  BY <1>8 DEF QuietHour, ReapList
<1>9. CASE Crash
  BY <1>0, <1>9 DEF Crash, Shape
<1> QED
  BY <1>1, <1>2, <1>3, <1>4, <1>5, <1>6, <1>7, <1>8, <1>9 DEF Next, vars

-----------------------------------------------------------------------------
(* The invariant is kept.                                                  *)

(* The reaper only works on rows that exist.                               *)
LEMMA ReaperMoves ==
  ASSUME RestoreInv, [Next]_vars, NEW s \in reaper'.rows \cup reaper'.victim
  PROVE  column[s] # "none" /\ s \in Session
<1> DEFINE Old == reaper.rows \cup reaper.victim
<1>0. Shape /\ Old \subseteq Session
  BY ShapeHolds DEF Shape
<1>1. \A t \in Old : column[t] # "none"
  BY DEF RestoreInv, Unborn
<1>2. \/ s \in Old
      \/ s \in Session /\ column[s] = "active"
  <2>1. CASE UNCHANGED reaper
    BY <2>1
  <2>2. CASE ReapList
    <3>1. reaper'.rows = {t \in Session : column[t] = "active" /\ ~(t = Root /\ live)}
          /\ reaper'.victim = reaper.victim
      BY <1>0, <2>2 DEF ReapList, Shape
    <3> QED
      BY <3>1
  <2>3. ASSUME NEW t \in Session, ReapCheck(t) \/ ReapFlip(t) PROVE s \in Old
    <3>1. CASE ReapCheck(t)
      <4>1. reaper'.rows = reaper.rows \ {t} /\ reaper'.victim \in {{}, {t}}
        BY <3>1 DEF ReapCheck
      <4> QED
        BY <3>1, <4>1 DEF ReapCheck
    <3>2. CASE ReapFlip(t)
      <4>1. reaper'.rows = reaper.rows /\ reaper'.victim = {}
        BY <1>0, <3>2 DEF ReapFlip, Shape
      <4> QED
        BY <4>1
    <3> QED
      BY <2>3, <3>1, <3>2
  <2>4. CASE Crash
    BY <2>4 DEF Crash, NotReaping
  <2>5. ASSUME NEW t \in Session, LiveStep(t) PROVE UNCHANGED reaper
    BY <2>5 DEF LiveStep, Activity, WriteTerminated, WriteColumn
  <2>6. ASSUME NEW c \in Sub, ChildStep(c) \/ ReapOrphan(c) PROVE UNCHANGED reaper
    BY <2>6 DEF ChildStep, Spawn, Collect, DrainPending, ReapOrphan
  <2>7. ASSUME NEW r \in Resumer, ResumeStep(r) PROVE UNCHANGED reaper
    BY <2>7
    DEF ResumeStep, CheckLive, LoadRow, ListChildren, ListSettled, LookupReason, BuryChild,
        FlipChild, SettleRow, Rebuild, Register
  <2> QED
    BY <2>1, <2>2, <2>3, <2>4, <2>5, <2>6, <2>7 DEF Next, vars, Deregister, QuietHour
<1> QED
  BY <1>0, <1>1, <1>2

LEMMA NextUnborn == ASSUME RestoreInv, [Next]_vars PROVE Unborn'
<1>0. Shape
  BY ShapeHolds
<1>1. ASSUME NEW s \in Session, column[s] # "none" PROVE column'[s] # "none"
  BY <1>1, RowMoves DEF Spawn
<1>2. column'[Root] # "none"
  BY <1>0, <1>1 DEF RestoreInv, Unborn, Shape
<1>3. ASSUME NEW c \in Sub, column'[c] = "none"
      PROVE  phase'[c] = "off" /\ ended'[c] = <<>> /\ results'[c] = <<>>
  <2>1. ~Spawn(c)
    BY <1>0, <1>3 DEF Spawn, Shape
  <2>2. column[c] = "none"
    BY <1>0, <1>1, <1>3 DEF Shape
  <2>3. phase[c] = "off" /\ ended[c] = <<>> /\ results[c] = <<>>
    BY <2>2 DEF RestoreInv, Unborn
  <2>4. ~\E r \in Resumer : BuryChild(r) /\ resume[r].child = c
    BY <2>2, PassChild DEF BuryChild, At, SettleStep
  <2>5. ended'[c] = <<>>
    BY <2>3, <2>4, EndMoves DEF WriteTerminated
  <2>6. results'[c] = <<>>
    BY <2>3, ResultMoves
  <2>7. phase'[c] = "off"
    BY <2>1, <2>3, PhaseMoves
  <2> QED
    BY <2>5, <2>6, <2>7
<1>4. \A s \in reaper'.rows \cup reaper'.victim : column'[s] # "none"
  BY <1>1, ReaperMoves
<1> QED
  BY <1>2, <1>3, <1>4 DEF Unborn

LEMMA NextOneEnd == ASSUME RestoreInv, [Next]_vars PROVE OneEnd'
<1> SUFFICES ASSUME NEW c \in Sub
             PROVE  /\ ended'[c] \in {<<>>, <<Done>>, <<RestartDied>>}
                    /\ phase'[c] = "up" => ended'[c] = <<>>
                    /\ phase'[c] \in {"wrote", "gone", "buffered"} => ended'[c] = <<Done>>
                    /\ phase'[c] # "off" => results'[c] = <<>>
  BY DEF OneEnd
<1>0. Shape
  BY ShapeHolds
<1>1. /\ ended[c] \in {<<>>, <<Done>>, <<RestartDied>>}
      /\ phase[c] = "up" => ended[c] = <<>>
      /\ phase[c] \in {"wrote", "gone", "buffered"} => ended[c] = <<Done>>
      /\ phase[c] # "off" => results[c] = <<>>
  BY DEF RestoreInv, OneEnd
<1>2. ended'[c] \in {<<>>, <<Done>>, <<RestartDied>>}
  BY <1>1, EndMoves
<1>3. WriteTerminated(c) => phase[c] = "up" /\ phase'[c] = "wrote"
  BY <1>0 DEF WriteTerminated, Shape
<1>4. ASSUME Spawn(c) PROVE ended'[c] = <<>> /\ results'[c] = <<>>
  BY <1>4 DEF Spawn, RestoreInv, Unborn
<1>5. ASSUME NEW r \in Resumer, BuryChild(r) \/ SettleRow(r), resume[r].child = c
      PROVE  phase'[c] = "off"
  BY <1>5, PassChild DEF BuryChild, SettleRow, At, SettleStep
<1>6. phase'[c] = "up" => ended'[c] = <<>>
  BY <1>1, <1>3, <1>4, <1>5, EndMoves, PhaseMoves
<1>7. phase'[c] \in {"wrote", "gone", "buffered"} => ended'[c] = <<Done>>
  BY <1>1, <1>3, <1>4, <1>5, EndMoves, PhaseMoves
<1>8. phase'[c] # "off" => results'[c] = <<>>
  BY <1>1, <1>4, <1>5, ResultMoves, PhaseMoves
<1> QED
  BY <1>2, <1>6, <1>7, <1>8

LEMMA NextOneResult == ASSUME RestoreInv, [Next]_vars PROVE OneResult'
<1> SUFFICES ASSUME NEW c \in Sub PROVE results'[c] = <<>> \/ results'[c] = ended'[c]
  BY DEF OneResult
<1>1. results[c] = <<>> \/ (results[c] = ended[c] /\ ended[c] # <<>>)
  BY DEF RestoreInv, OneResult
<1>2. WriteTerminated(c) => results[c] = <<>>
  BY DEF WriteTerminated, RestoreInv, OneEnd
<1> QED
  BY <1>1, <1>2, EndMoves, ResultMoves

(* The end of every direct child of an earlier process is known.           *)
LEMMA NextEndsKnown == ASSUME RestoreInv, [Next]_vars PROVE EndsKnown'
<1> SUFFICES ASSUME phase'[Root] = "up", NEW c \in Direct, column'[c] # "none", phase'[c] = "off"
             PROVE  results'[c] # <<>>
  BY DEF EndsKnown, Direct, ChildrenOf
<1>0. Shape /\ c \in Sub /\ ParentOf[c] = Root
  BY ShapeHolds DEF Direct, ChildrenOf
<1>1. results[c] # <<>> => results'[c] # <<>>
  BY <1>0, ResultMoves
<1>2. CASE phase[c] # "off"
  BY <1>0, <1>2, PhaseMoves
<1>3. CASE phase[c] = "off"
  <2>1. ~Spawn(c) /\ column[c] # "none"
    BY <1>0, <1>3, RowMoves DEF Spawn, Shape
  <2>2. CASE phase[Root] = "up"
    BY <1>1, <1>3, <2>1, <2>2 DEF RestoreInv, EndsKnown
  <2>3. CASE phase[Root] # "up"
    <3>1. PICK r \in Resumer : Register(r)
      <4>1. ASSUME NEW s \in Session, LiveStep(s) PROVE FALSE
        BY <1>0, <2>3, <4>1
        DEF LiveStep, Activity, WriteTerminated, WriteColumn, ChildrenOf, Shape
      <4>2. ASSUME NEW d \in Sub, ChildStep(d) PROVE FALSE
        BY <1>0, <2>3, <4>2 DEF ChildStep, Spawn, Collect, DrainPending, Shape
      <4>3. ASSUME NEW r \in Resumer, ResumeStep(r) PROVE Register(r)
        BY <2>3, <4>3
        DEF ResumeStep, CheckLive, LoadRow, ListChildren, ListSettled, LookupReason, BuryChild,
            FlipChild, SettleRow, Rebuild
      <4>4. ASSUME Deregister PROVE FALSE
        BY <1>0, <4>4 DEF Deregister, Shape
      <4>5. ASSUME Crash PROVE FALSE
        BY <1>0, <4>5 DEF Crash, Shape
      <4>6. ~UNCHANGED phase
        BY <2>3
      <4>7. ~(QuietHour \/ ReapList)
        BY <4>6 DEF QuietHour, ReapList
      <4>8. ASSUME NEW s \in Session, ReapCheck(s) \/ ReapFlip(s) PROVE FALSE
        BY <4>6, <4>8 DEF ReapCheck, ReapFlip
      <4>9. ASSUME NEW d \in Sub, ReapOrphan(d) PROVE FALSE
        BY <4>6, <4>9 DEF ReapOrphan
      <4> QED
        BY <4>1, <4>2, <4>3, <4>4, <4>5, <4>6, <4>7, <4>8, <4>9 DEF Next, vars
    <3>2. Todo = {}
      BY <3>1 DEF Register, At, RestoreInv, PassExact
    <3>3. results[c] # <<>>
      BY <2>1, <3>2 DEF Todo
    <3> QED
      BY <1>1, <3>3
  <2> QED
    BY <2>2, <2>3
<1> QED
  BY <1>2, <1>3

(* A step of nobody's Resume changes nothing a settling pass relies on.    *)
LEMMA PassUndisturbed ==
  ASSUME RestoreInv, [Next]_vars, NEW r \in Resumer, resume[r].pc # "idle", UNCHANGED resume
  PROVE  /\ \A c \in Direct : ended'[c] = ended[c]
         /\ {c \in Direct : column'[c] # "none"} = {c \in Direct : column[c] # "none"}
         /\ Todo' = Todo
<1>0. Shape
  BY ShapeHolds
<1>1. phase[Root] = "off" /\ \A c \in Direct : c \in Sub /\ ParentOf[c] = Root /\ phase[c] = "off"
  BY DormantBelow DEF RestoreInv, Memory
<1>2. ASSUME NEW q \in Resumer PROVE ~BuryChild(q) /\ ~SettleRow(q)
  <2>1. resume[q] \in Pass
    BY <1>0 DEF Shape
  <2>2. BuryChild(q) => resume[q].pc = "bury" /\ resume'[q].pc = "flip"
    BY <1>0, <2>1 DEF BuryChild, At, Goto, Shape, Pass
  <2>3. SettleRow(q) => resume[q].pc = "row" /\ resume'[q].pc = "settle"
    BY <1>0, <2>1 DEF SettleRow, At, Goto, Shape, Pass
  <2> QED
    BY <2>2, <2>3
<1>3. ASSUME NEW c \in Direct
      PROVE  /\ ended'[c] = ended[c] /\ results'[c] = results[c]
             /\ (column'[c] = "none") <=> (column[c] = "none")
  <2>1. ~WriteTerminated(c) /\ ~Spawn(c) /\ ~Collect(c) /\ ~DrainPending(c)
    BY <1>1 DEF WriteTerminated, Spawn, Collect, DrainPending
  <2>2. c \in Sub /\ c \in Session
    BY <1>0, <1>1 DEF Shape
  <2> QED
    BY <1>2, <2>1, <2>2, EndMoves, ResultMoves, RowMoves
<1>4. Todo' = Todo
  BY <1>3 DEF Todo
<1>5. {c \in Direct : column'[c] # "none"} = {c \in Direct : column[c] # "none"}
  BY <1>3
<1> QED
  BY <1>3, <1>4, <1>5

(* One Resume at a time: what its pass has found out is exact.             *)
LEMMA NextPassExact == ASSUME RestoreInv, OneResumer, [Next]_vars PROVE PassExact'
<1> SUFFICES ASSUME NEW r \in Resumer
             PROVE  /\ resume'[r].pc = "settled" =>
                         resume'[r].todo = {c \in Direct : column'[c] # "none"}
                    /\ resume'[r].pc \in SettleStep => resume'[r].todo = Todo'
                    /\ resume'[r].pc \in SettleStep \ {"settle"} =>
                         resume'[r].child \in resume'[r].todo
                    /\ resume'[r].pc = "bury" =>
                         ended'[resume'[r].child] = <<>> /\ resume'[r].reason = RestartDied
                    /\ resume'[r].pc = "flip" =>
                         ended'[resume'[r].child] = <<RestartDied>>
                         /\ resume'[r].reason = RestartDied
                    /\ resume'[r].pc = "row" => ended'[resume'[r].child] = <<resume'[r].reason>>
                    /\ resume'[r].pc = "register" => Todo' = {}
  BY DEF PassExact
<1>0. Shape
  BY ShapeHolds
<1>1. /\ resume[r].pc = "settled" => resume[r].todo = {c \in Direct : column[c] # "none"}
      /\ resume[r].pc \in SettleStep => resume[r].todo = Todo
      /\ resume[r].pc \in SettleStep \ {"settle"} => resume[r].child \in resume[r].todo
      /\ resume[r].pc = "bury" =>
           ended[resume[r].child] = <<>> /\ resume[r].reason = RestartDied
      /\ resume[r].pc = "flip" =>
           ended[resume[r].child] = <<RestartDied>> /\ resume[r].reason = RestartDied
      /\ resume[r].pc = "row" => ended[resume[r].child] = <<resume[r].reason>>
      /\ resume[r].pc = "register" => Todo = {}
  BY DEF RestoreInv, PassExact
<1>2. resume[r] \in Pass
  BY <1>0 DEF Shape
<1>3. CASE UNCHANGED resume
  <2>1. CASE resume[r].pc = "idle"
    <3>1. resume'[r].pc = "idle"
      BY <1>3, <2>1
    <3> QED
      BY <3>1 DEF SettleStep
  <2>2. CASE resume[r].pc # "idle"
    <3>1. \A c \in Direct : ended'[c] = ended[c]
      BY <1>3, <2>2, PassUndisturbed
    <3>2. {c \in Direct : column'[c] # "none"} = {c \in Direct : column[c] # "none"}
          /\ Todo' = Todo
      BY <1>3, <2>2, PassUndisturbed
    <3>3. resume[r].pc \in SettleStep \ {"settle"} => ended'[resume[r].child] = ended[resume[r].child]
      BY <1>1, <3>1 DEF Todo
    <3> QED
      BY <1>1, <1>3, <3>1, <3>2, <3>3 DEF SettleStep
  <2> QED
    BY <2>1, <2>2
<1>4. CASE Crash
  <2>1. resume'[r].pc = "idle"
    BY <1>4 DEF Crash, NotResuming
  <2> QED
    BY <2>1 DEF SettleStep
<1>5. CASE ResumeStep(r)
  <2> USE DEF At, Goto
  <2>1. CASE CheckLive(r) \/ LoadRow(r)
    <3>1. resume'[r].pc \in {"load", "children", "idle"}
      BY <1>0, <1>2, <2>1 DEF CheckLive, LoadRow, Shape, Pass
    <3> QED
      BY <3>1 DEF SettleStep
  <2>2. CASE ListChildren(r)
    <3>1. resume'[r].pc = "settled" /\ resume'[r].todo = {c \in Direct : column[c] # "none"}
          /\ column' = column
      BY <1>0, <1>2, <2>2 DEF ListChildren, Shape, Direct, Pass, store
    <3> QED
      BY <3>1 DEF SettleStep
  <2>3. CASE ListSettled(r)
    <3>1. resume'[r].pc = "settle" /\ resume'[r].todo = Dangling(resume[r].todo)
          /\ column' = column /\ results' = results
      BY <1>0, <1>2, <2>3 DEF ListSettled, Shape, Pass, store
    <3>2. Dangling(resume[r].todo) = Todo
      BY <1>1, <2>3 DEF ListSettled, Dangling, Todo
    <3>3. Todo' = Todo
      BY <3>1 DEF Todo
    <3> QED
      BY <3>1, <3>2, <3>3 DEF SettleStep
  <2>4. CASE LookupReason(r)
    <3>1. PICK c \in resume[r].todo :
            resume' = [resume EXCEPT ![r] =
              [pc |-> IF ended[c] = <<>> THEN "bury" ELSE "row",
               todo |-> @.todo, reason |-> Reason(c), child |-> c]]
      BY <2>4 DEF LookupReason
    <3>2. resume'[r] = [pc |-> IF ended[c] = <<>> THEN "bury" ELSE "row",
                        todo |-> resume[r].todo, reason |-> Reason(c), child |-> c]
      BY <1>0, <3>1 DEF Shape
    <3>3. resume[r].todo = Todo /\ Todo' = Todo /\ ended' = ended
      BY <1>1, <2>4 DEF LookupReason, SettleStep, Todo, store
    <3>4. ended[c] \in {<<>>, <<Done>>, <<RestartDied>>}
      BY <3>3 DEF RestoreInv, OneEnd, Todo, Direct, ChildrenOf
    <3>5. ended[c] # <<>> => ended[c] = <<Reason(c)>>
      BY <3>4, ShortLogs DEF Reason
    <3>6. ended[c] = <<>> => Reason(c) = RestartDied
      BY DEF Reason
    <3> QED
      BY <3>2, <3>3, <3>5, <3>6 DEF SettleStep
  <2>5. CASE BuryChild(r)
    <3> DEFINE c == resume[r].child
    <3>1. resume'[r] = [resume[r] EXCEPT !.pc = "flip"]
      BY <1>0, <2>5 DEF BuryChild, Shape
    <3>2. c \in Session /\ ended[c] = <<>> /\ resume[r].reason = RestartDied
      BY <1>1, <2>5, PassChild DEF BuryChild, SettleStep
    <3>3. ended'[c] = <<RestartDied>>
      BY <1>0, <2>5, <3>2, ShortLogs DEF BuryChild, Shape
    <3>4. Todo' = Todo
      BY <2>5 DEF BuryChild, Todo
    <3>5. resume[r].todo = Todo /\ c \in resume[r].todo
      BY <1>1, <2>5 DEF BuryChild, SettleStep
    <3> QED
      BY <1>2, <3>1, <3>2, <3>3, <3>4, <3>5 DEF SettleStep, Pass
  <2>6. CASE FlipChild(r)
    <3> DEFINE c == resume[r].child
    <3>1. resume'[r] = [resume[r] EXCEPT !.pc = "row"]
      BY <1>0, <2>6 DEF FlipChild, Shape
    <3>2. c \in Session /\ ended[c] = <<RestartDied>> /\ resume[r].reason = RestartDied
          /\ column[c] # "none"
      BY <1>1, <2>6, PassChild DEF FlipChild, SettleStep
    <3>3. Todo' = Todo /\ ended' = ended
      BY <1>0, <2>6, <3>2 DEF FlipChild, Todo, Shape, Direct, ChildrenOf
    <3>4. resume[r].todo = Todo /\ c \in resume[r].todo
      BY <1>1, <2>6 DEF FlipChild, SettleStep
    <3> QED
      BY <1>2, <3>1, <3>2, <3>3, <3>4 DEF SettleStep, Pass
  <2>7. CASE SettleRow(r)
    <3> DEFINE c == resume[r].child
    <3>1. resume'[r].pc = "settle" /\ resume'[r].todo = resume[r].todo \ {c}
      BY <1>0, <1>2, <2>7 DEF SettleRow, Shape, Pass
    <3>2. c \in Sub /\ results[c] = <<>> /\ resume[r].reason \in Reasons
      BY <1>2, <2>7, PassChild DEF SettleRow, SettleStep, Pass
    <3>3. results'[c] # <<>> /\ \A d \in Direct : d # c => results'[d] = results[d]
      BY <1>0, <2>7, <3>2, ShortLogs DEF SettleRow, Logged, Shape, Direct, ChildrenOf
    <3>4. Todo' = Todo \ {c}
      BY <2>7, <3>3 DEF SettleRow, Todo
    <3>5. resume[r].todo = Todo
      BY <1>1, <2>7 DEF SettleRow, SettleStep
    <3> QED
      BY <3>1, <3>4, <3>5 DEF SettleStep
  <2>8. CASE Rebuild(r)
    <3>1. resume'[r].pc = "register" /\ Todo' = Todo
      BY <1>0, <1>2, <2>8 DEF Rebuild, Shape, Pass, Todo
    <3>2. Todo = {}
      BY <1>1, <2>8 DEF Rebuild, SettleStep
    <3> QED
      BY <3>1, <3>2 DEF SettleStep
  <2>9. CASE Register(r)
    <3>1. resume'[r].pc = "idle"
      BY <1>0, <2>9 DEF Register, NotResuming, Shape
    <3> QED
      BY <3>1 DEF SettleStep
  <2> QED
    BY <1>5, <2>1, <2>2, <2>3, <2>4, <2>5, <2>6, <2>7, <2>8, <2>9 DEF ResumeStep
<1>6. UNCHANGED resume \/ Crash \/ ResumeStep(r)
  <2>1. ASSUME NEW s \in Session, LiveStep(s) PROVE UNCHANGED resume
    BY <2>1 DEF LiveStep, Activity, WriteTerminated, WriteColumn
  <2>2. ASSUME NEW c \in Sub, ChildStep(c) \/ ReapOrphan(c) PROVE UNCHANGED resume
    BY <2>2 DEF ChildStep, Spawn, Collect, DrainPending, ReapOrphan
  <2>3. ASSUME NEW q \in Resumer, ResumeStep(q) PROVE ResumeStep(r)
    BY <2>3 DEF OneResumer
  <2>4. ASSUME NEW s \in Session, ReapCheck(s) \/ ReapFlip(s) PROVE UNCHANGED resume
    BY <2>4 DEF ReapCheck, ReapFlip
  <2>5. ASSUME Deregister \/ QuietHour \/ ReapList PROVE UNCHANGED resume
    BY <2>5 DEF Deregister, QuietHour, ReapList
  <2> QED
    BY <2>1, <2>2, <2>3, <2>4, <2>5 DEF Next, vars
<1> QED
  BY <1>3, <1>4, <1>5, <1>6

LEMMA RestoreHolds == ASSUME OneResumer PROVE Spec => []RestoreInv
<1>1. ASSUME RestoreInv, [Next]_vars PROVE RestoreInv'
  <2>1. TypeOK' /\ Memory'
    BY <1>1, NextTypeOK, NextMemory DEF RestoreInv, Memory
  <2>2. Unborn' /\ OneEnd' /\ OneResult' /\ EndsKnown' /\ PassExact'
    BY <1>1, NextUnborn, NextOneEnd, NextOneResult, NextEndsKnown, NextPassExact
  <2> QED
    BY <2>1, <2>2 DEF RestoreInv, Memory
<1> QED
  BY <1>1, InitRestoreInv, PTL DEF Spec

(* Wherever a settling pass is cut short by a crash, however often it is   *)
(* begun again: the parent's log holds one subagent_result per sub-agent   *)
(* with the reason of its end, and a root that is up knows the end of      *)
(* every direct child nobody runs any more.                                *)
THEOREM SettlesOnce == ASSUME OneResumer PROVE Spec => []SettledOnce
<1>1. RestoreInv => SettledOnce
  BY DEF RestoreInv, OneResult, EndsKnown, SettledOnce, Direct, ChildrenOf
<1> QED
  BY <1>1, RestoreHolds, PTL

(* No step of newSessionRestore or of a reaper ends the log of a sub-agent *)
(* that is alive in this process.                                          *)
THEOREM NoLiveBurial == ASSUME OneResumer PROVE Spec => []LiveNotBuried
<1>1. RestoreInv => LiveNotBuried
  <2> SUFFICES ASSUME RestoreInv, NEW c \in Sub, phase[c] \in {"up", "wrote"}
               PROVE  RestartDied \notin ToSet(ended[c])
    BY DEF LiveNotBuried
  <2>1. ended[c] \in {<<>>, <<Done>>}
    BY DEF RestoreInv, OneEnd
  <2> QED
    BY <2>1, ShortLogs
<1> QED
  BY <1>1, RestoreHolds, PTL
=============================================================================
