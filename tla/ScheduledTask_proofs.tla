------------------------ MODULE ScheduledTask_proofs ------------------------
(***************************************************************************)
(* Theorems about ScheduledTask, for every count, every set of callers and *)
(* every bound: pause, resume and cancel calls at any moment, crashes and  *)
(* the reaper of stuck fires included.                                     *)
(***************************************************************************)
EXTENDS ScheduledTask, FiniteSetTheorems, TLAPS

-----------------------------------------------------------------------------
(* The invariant.                                                          *)

\* The numbers below which every fire has a terminal row of its own.
Reached == {n \in Nat : \A k \in FireSeq : k < n => Recorded(k)}

FirePc == {"none", "check", "run", "next", "arm", "park", "parkRunner", "parked"}
Verdict == {"completed", "failed", "skipped"}

\* What the proof needs of the types.
PlanType == plan \in [seq : Nat \ {0}, at : Nat]
StartedType == started \in [FireSeq -> Nat]
TerminalType == terminal \in [FireSeq -> Seq(Verdict \cup {"cancelled"})]
RegsType ==
  regs \in [RegId -> [paused : BOOLEAN, next : Nat, inFlight : BOOLEAN, fireCount : Nat]]
NameType == {cur, snapshot} \subseteq RegId \cup {None}
FireType == fire \in [RegId -> [pc : FirePc, seq : Nat, planned : Nat, verdict : Verdict]]
OpType ==
  op \in [Goroutine -> [pc : {"idle", "pause", "unregister", "resume", "plan", "register"},
                        paused : BOOLEAN, plan : [seq : Nat \ {0}, at : Nat]]]

Shape == /\ PlanType /\ StartedType /\ TerminalType
         /\ RegsType /\ NameType /\ FireType /\ OpType

\* The plan and the fires that have started are reached ...
PlanReached == plan.seq \in Reached
StartReached == \A m \in FireSeq : started[m] > 0 => m \in Reached

\* ... and so is every number that memory holds to become the one or the
\* other: the plan a call has read, the number of a fire (the counter of its
\* registration), and the number an idle registration will give to the next.
OpReached == \A g \in Goroutine : op[g].pc = "register" => op[g].plan.seq \in Reached
FireReached ==
  \A i \in RegId : fire[i].pc # "none" =>
    /\ regs[i].inFlight /\ regs[i].fireCount = fire[i].seq
    /\ fire[i].seq \in Reached
    /\ fire[i].pc \in {"next", "arm"} => fire[i].seq + 1 \in Reached
RegReached == \A i \in RegId : ~regs[i].inFlight => regs[i].fireCount + 1 \in Reached

LogInv == /\ Shape
          /\ PlanReached /\ StartReached /\ OpReached /\ FireReached /\ RegReached

-----------------------------------------------------------------------------
(* Facts about numbers and rows.                                           *)

LEMMA FireSeqPositive == FireSeq \subseteq Nat \ {0}
BY BoundAssumption DEF FireSeq

\* The first number is always reached.
LEMMA OneReached == 1 \in Reached /\ 1 \in Reached'
BY FireSeqPositive DEF Reached

\* The elements of a sequence with one more.
LEMMA ToSetAppend ==
  ASSUME NEW S, NEW s \in Seq(S), NEW e \in S
  PROVE  ToSet(Append(s, e)) = ToSet(s) \cup {e}
<1>1. /\ DOMAIN s = 1 .. Len(s) /\ Len(s) \in Nat
      /\ DOMAIN Append(s, e) = 1 .. Len(s) + 1
      /\ \A i \in 1 .. Len(s) : Append(s, e)[i] = s[i]
      /\ Append(s, e)[Len(s) + 1] = e
  OBVIOUS
<1> QED
  BY <1>1 DEF ToSet

\* A terminal row is never taken back.
LEMMA TerminalRowGrows ==
  ASSUME TerminalType, NEW n \in Nat, NEW event \in Verdict \cup {"cancelled"},
         TerminalRow(n, event)
  PROVE  /\ TerminalType'
         /\ \A k \in FireSeq : Recorded(k) => Recorded(k)'
         /\ n \in FireSeq /\ event \in Verdict => Recorded(n)'
<1> DEFINE E == Verdict \cup {"cancelled"}
<1>0. terminal \in [FireSeq -> Seq(E)] /\ event \in E
  BY DEF TerminalType
<1> HIDE DEF E
<1>a. \A k \in FireSeq : terminal[k] \in Seq(E) /\ Append(terminal[k], event) \in Seq(E)
  BY <1>0
<1>1. terminal' \in [FireSeq -> Seq(E)]
  BY <1>0, <1>a DEF TerminalRow
<1>2. \A k \in FireSeq :
        terminal'[k] = IF k = n THEN Append(terminal[k], event) ELSE terminal[k]
  BY <1>0 DEF TerminalRow
<1>3. \A k \in FireSeq : ToSet(terminal[k]) \subseteq ToSet(terminal'[k])
  <2> TAKE k \in FireSeq
  <2>2. ToSet(Append(terminal[k], event)) = ToSet(terminal[k]) \cup {event}
    BY <1>0, <1>a, ToSetAppend
  <2> QED
    BY <1>2, <2>2
<1>4. ASSUME n \in FireSeq, event \in Verdict PROVE Recorded(n)'
  <2>2. ToSet(terminal'[n]) = ToSet(terminal[n]) \cup {event}
    BY <1>0, <1>a, <1>2, <1>4, ToSetAppend
  <2> QED
    BY <1>4, <2>2 DEF Recorded, Verdict
<1> QED
  BY <1>1, <1>3, <1>4 DEF Recorded, TerminalType, E

\* Nor is a number that has been reached.
LEMMA ReachedGrows ==
  ASSUME \A k \in FireSeq : Recorded(k) => Recorded(k)'
  PROVE  Reached \subseteq Reached'
BY DEF Reached

\* The terminal row of a fire reaches the next number.
LEMMA RowReachesNext ==
  ASSUME NEW n \in Reached', n \in FireSeq => Recorded(n)'
  PROVE  n + 1 \in Reached'
BY FireSeqPositive DEF Reached

\* Steps that leave the log alone.
LEMMA SameLog == ASSUME UNCHANGED terminal PROVE Reached' = Reached
BY DEF Reached, Recorded

-----------------------------------------------------------------------------
(* The types.                                                              *)

LEMMA InitShape == Init => Shape
<1> SUFFICES ASSUME Init PROVE Shape
  OBVIOUS
<1>1. PlanType /\ StartedType /\ TerminalType
  BY DEF Init, PlanType, StartedType, TerminalType
<1>2. RegsType
  <2>1. /\ NoReg \in [paused : BOOLEAN, next : Nat, inFlight : BOOLEAN, fireCount : Nat]
        /\ [NoReg EXCEPT !.next = 1] \in [paused : BOOLEAN, next : Nat, inFlight : BOOLEAN,
                                           fireCount : Nat]
    BY DEF NoReg, None
  <2> QED
    BY <2>1 DEF Init, RegsType
<1>3. NameType /\ FireType
  BY BoundAssumption DEF Init, NameType, RegId, FireType, NoFire, FirePc, Verdict
<1>4. OpType
  BY DEF Init, OpType, NoOp
<1> QED
  BY <1>1, <1>2, <1>3, <1>4 DEF Shape

\* The moves of a fire and of a call from one step to the next.
LEMMA StepType ==
  ASSUME FireType, NEW i \in RegId, NEW pc \in FirePc, Step(i, pc)
  PROVE  FireType'
BY DEF FireType, Step

LEMMA ParkType ==
  ASSUME FireType, NEW i \in RegId, NEW verdict \in Verdict,
         fire' = [fire EXCEPT ![i].pc = "park", ![i].verdict = verdict]
  PROVE  FireType'
<1>1. ASSUME NEW f \in [pc : FirePc, seq : Nat, planned : Nat, verdict : Verdict]
      PROVE  [f EXCEPT !.pc = "park", !.verdict = verdict]
               \in [pc : FirePc, seq : Nat, planned : Nat, verdict : Verdict]
  BY DEF FirePc
<1> QED
  BY <1>1 DEF FireType

LEMMA ReturnType == ASSUME FireType, NEW i \in RegId, Return(i) PROVE FireType'
<1>1. NoFire \in [pc : FirePc, seq : Nat, planned : Nat, verdict : Verdict]
  BY DEF NoFire, FirePc, Verdict
<1> QED
  BY <1>1 DEF FireType, Return

LEMMA GotoType ==
  ASSUME OpType, NEW g \in Goroutine, NEW pc \in {"idle", "pause", "unregister", "resume"},
         Goto(g, pc)
  PROVE  OpType'
BY DEF OpType, Goto

LEMMA PausedType == ASSUME RegsType, NEW i, regs' = Paused(i) PROVE RegsType'
BY DEF RegsType, Paused

LEMMA NextShape == Shape /\ [Next]_vars => Shape'
<1> SUFFICES ASSUME PlanType, StartedType, TerminalType, RegsType, NameType, FireType,
                    OpType, [Next]_vars
             PROVE  Shape'
  BY DEF Shape
<1>1. ASSUME NEW g \in Goroutine, PauseCall(g) PROVE Shape'
  <2>1. /\ PlanType' /\ StartedType' /\ TerminalType' /\ RegsType'
        /\ NameType' /\ FireType'
    BY <1>1 DEF PauseCall, store, memory, PlanType, StartedType, TerminalType,
                RegsType, NameType, FireType
  <2>2. OpType'
    BY <1>1, GotoType DEF PauseCall
  <2> QED
    BY <2>1, <2>2 DEF Shape
<1>2. ASSUME NEW g \in Goroutine, CancelCall(g) PROVE Shape'
  <2>1. /\ PlanType' /\ StartedType' /\ TerminalType' /\ RegsType'
        /\ NameType' /\ FireType'
    BY <1>2 DEF CancelCall, store, memory, PlanType, StartedType, TerminalType,
                RegsType, NameType, FireType
  <2>2. OpType'
    BY <1>2, GotoType DEF CancelCall
  <2> QED
    BY <2>1, <2>2 DEF Shape
<1>3. ASSUME NEW g \in Goroutine, ResumeCall(g) PROVE Shape'
  <2>1. /\ PlanType' /\ StartedType' /\ TerminalType' /\ RegsType'
        /\ NameType' /\ FireType'
    BY <1>3 DEF ResumeCall, store, memory, PlanType, StartedType, TerminalType,
                RegsType, NameType, FireType
  <2>2. OpType'
    BY <1>3, GotoType DEF ResumeCall
  <2> QED
    BY <2>1, <2>2 DEF Shape
<1>4. ASSUME NEW g \in Goroutine, PauseRunner(g) PROVE Shape'
  <2>1. PlanType' /\ StartedType' /\ TerminalType' /\ NameType' /\ FireType'
    BY <1>4 DEF PauseRunner, store, memory, PlanType, StartedType, TerminalType,
                NameType, FireType
  <2>2. OpType'
    BY <1>4, GotoType DEF PauseRunner
  <2>3. RegsType'
    BY <1>4, PausedType DEF PauseRunner
  <2> QED
    BY <2>1, <2>2, <2>3 DEF Shape
<1>5. ASSUME NEW g \in Goroutine, Unregister(g) PROVE Shape'
  <2>1. PlanType' /\ StartedType' /\ TerminalType' /\ RegsType' /\ FireType'
    BY <1>5 DEF Unregister, store, memory, PlanType, StartedType, TerminalType,
                RegsType, FireType
  <2>2. OpType'
    BY <1>5, GotoType DEF Unregister
  <2>3. NameType'
    BY <1>5 DEF Unregister, NameType
  <2> QED
    BY <2>1, <2>2, <2>3 DEF Shape
<1>6. ASSUME NEW g \in Goroutine, ResumeRow(g) PROVE Shape'
  <2>1. /\ PlanType' /\ StartedType' /\ TerminalType' /\ RegsType'
        /\ NameType' /\ FireType'
    BY <1>6 DEF ResumeRow, store, memory, PlanType, StartedType, TerminalType,
                RegsType, NameType, FireType
  <2>2. OpType'
    BY <1>6 DEF ResumeRow, OpType
  <2> QED
    BY <2>1, <2>2 DEF Shape
<1>7. ASSUME NEW g \in Goroutine, ReadPlan(g) PROVE Shape'
  <2>1. /\ PlanType' /\ StartedType' /\ TerminalType' /\ RegsType'
        /\ NameType' /\ FireType'
    BY <1>7 DEF ReadPlan, store, memory, PlanType, StartedType, TerminalType, RegsType,
                NameType, FireType
  <2>2. OpType'
    <3>1. ASSUME NEW o \in [pc : {"plan", "register"}, paused : BOOLEAN,
                            plan : [seq : Nat \ {0}, at : Nat]]
          PROVE  [o EXCEPT !.pc = "register", !.plan = plan]
                   \in [pc : {"register"}, paused : BOOLEAN, plan : [seq : Nat \ {0}, at : Nat]]
      BY DEF PlanType
    <3>2. op[g] \in [pc : {"plan", "register"}, paused : BOOLEAN,
                     plan : [seq : Nat \ {0}, at : Nat]]
      BY <1>7 DEF ReadPlan, At, OpType
    <3> QED
      BY <1>7, <3>1, <3>2 DEF ReadPlan, OpType
  <2> QED
    BY <2>1, <2>2 DEF Shape
<1>8. ASSUME NEW g \in Goroutine, Register(g) PROVE Shape'
  <2>1. PlanType' /\ StartedType' /\ TerminalType' /\ FireType'
    BY <1>8 DEF Register, store, memory, PlanType, StartedType, TerminalType, FireType
  <2>2. OpType'
    BY <1>8, GotoType DEF Register
  <2>3. RegsType'
    BY <1>8 DEF Register, RegsType, OpType, Seed
  <2>4. NameType'
    BY <1>8 DEF Register, NameType
  <2> QED
    BY <2>1, <2>2, <2>3, <2>4 DEF Shape
<1>9. ASSUME NEW i \in RegId, RefuseFire(i) PROVE Shape'
  <2>1. /\ PlanType' /\ StartedType' /\ TerminalType' /\ RegsType'
        /\ NameType' /\ OpType'
    BY <1>9 DEF RefuseFire, store, memory, PlanType, StartedType, TerminalType,
                RegsType, NameType, OpType
  <2>2. FireType'
    BY <1>9, ParkType DEF RefuseFire, Verdict
  <2> QED
    BY <2>1, <2>2 DEF Shape
<1>10. ASSUME NEW i \in RegId, StartFire(i) PROVE Shape'
  <2>1. PlanType' /\ TerminalType' /\ RegsType' /\ NameType' /\ OpType'
    BY <1>10 DEF StartFire, store, memory, PlanType, TerminalType, RegsType, NameType,
                 OpType
  <2>2. FireType'
    BY <1>10, StepType DEF StartFire, FirePc
  <2>3. StartedType'
    <3>1. CASE fire[i].seq \in FireSeq
      BY <1>10, <3>1 DEF StartFire, StartedType
    <3>2. CASE fire[i].seq \notin FireSeq
      BY <1>10, <3>2 DEF StartFire, StartedType
    <3> QED
      BY <3>1, <3>2
  <2> QED
    BY <2>1, <2>2, <2>3 DEF Shape
<1>11. ASSUME NEW i \in RegId, ParkFire(i) PROVE Shape'
  <2>1. /\ PlanType' /\ StartedType' /\ TerminalType' /\ RegsType'
        /\ NameType' /\ OpType'
    BY <1>11 DEF ParkFire, store, memory, PlanType, StartedType, TerminalType,
                 RegsType, NameType, OpType
  <2>2. FireType'
    BY <1>11, ParkType DEF ParkFire, Verdict
  <2> QED
    BY <2>1, <2>2 DEF Shape
<1>12. ASSUME NEW i \in RegId, ParkRow(i) PROVE Shape'
  <2>1. /\ PlanType' /\ StartedType' /\ TerminalType' /\ RegsType'
        /\ NameType' /\ OpType'
    BY <1>12 DEF ParkRow, store, memory, PlanType, StartedType, TerminalType, RegsType,
                 NameType, OpType
  <2>2. FireType'
    BY <1>12, StepType DEF ParkRow, FirePc
  <2> QED
    BY <2>1, <2>2 DEF Shape
<1>13. ASSUME NEW i \in RegId, ParkRunner(i) PROVE Shape'
  <2>1. PlanType' /\ StartedType' /\ TerminalType' /\ NameType' /\ OpType'
    BY <1>13 DEF ParkRunner, store, memory, PlanType, StartedType, TerminalType,
                 NameType, OpType
  <2>2. FireType'
    BY <1>13, StepType DEF ParkRunner, FirePc
  <2>3. RegsType'
    BY <1>13, PausedType DEF ParkRunner
  <2> QED
    BY <2>1, <2>2, <2>3 DEF Shape
<1>14. ASSUME NEW i \in RegId, ParkedRow(i) PROVE Shape'
  <2>1. PlanType' /\ StartedType' /\ NameType' /\ OpType'
    BY <1>14 DEF ParkedRow, store, memory, PlanType, StartedType, NameType, OpType
  <2>2. FireType'
    BY <1>14, ReturnType DEF ParkedRow
  <2>3. RegsType'
    BY <1>14 DEF ParkedRow, RegsType
  <2>4. TerminalType'
    BY <1>14, TerminalRowGrows DEF ParkedRow, FireType
  <2> QED
    BY <2>1, <2>2, <2>3, <2>4 DEF Shape
<1>15. ASSUME NEW i \in RegId, RunEnds(i) PROVE Shape'
  <2>1. PlanType' /\ StartedType' /\ RegsType' /\ NameType' /\ OpType'
    BY <1>15 DEF RunEnds, store, memory, PlanType, StartedType, RegsType, NameType,
                 OpType
  <2>2. FireType'
    BY <1>15, StepType DEF RunEnds, AfterRun, FirePc
  <2>3. TerminalType'
    BY <1>15, TerminalRowGrows DEF RunEnds, FireType, Verdict
  <2> QED
    BY <2>1, <2>2, <2>3 DEF Shape
<1>16. ASSUME NEW i \in RegId, EndTask(i) PROVE Shape'
  <2>1. PlanType' /\ StartedType' /\ TerminalType' /\ NameType' /\ OpType'
    BY <1>16 DEF EndTask, store, memory, PlanType, StartedType, TerminalType, NameType,
                 OpType
  <2>2. FireType'
    BY <1>16, ReturnType DEF EndTask
  <2>3. RegsType'
    BY <1>16 DEF EndTask, RegsType
  <2> QED
    BY <2>1, <2>2, <2>3 DEF Shape
<1>17. ASSUME NEW i \in RegId, PlanNext(i) PROVE Shape'
  <2>1. StartedType' /\ TerminalType' /\ RegsType' /\ NameType' /\ OpType'
    BY <1>17 DEF PlanNext, store, memory, StartedType, TerminalType, RegsType,
                 NameType, OpType
  <2>2. FireType'
    BY <1>17, StepType DEF PlanNext, FirePc
  <2>3. PlanType'
    BY <1>17 DEF PlanNext, PlanType, FireType
  <2> QED
    BY <2>1, <2>2, <2>3 DEF Shape
<1>18. ASSUME NEW i \in RegId, Reschedule(i) PROVE Shape'
  <2>1. PlanType' /\ StartedType' /\ TerminalType' /\ NameType' /\ OpType'
    BY <1>18 DEF Reschedule, store, memory, PlanType, StartedType, TerminalType,
                 NameType, OpType
  <2>2. FireType'
    BY <1>18, ReturnType DEF Reschedule
  <2>3. RegsType'
    <3> DEFINE R == [paused : BOOLEAN, next : Nat, inFlight : BOOLEAN, fireCount : Nat]
    <3>1. fire[i].planned + 1 \in Nat
      BY DEF FireType
    <3>2. ASSUME NEW j \in RegId, NEW next \in Nat, NEW busy \in BOOLEAN
          PROVE  [regs[j] EXCEPT !.next = next, !.inFlight = busy] \in R
      BY DEF RegsType
    <3>3. ASSUME NEW j \in RegId
          PROVE  [regs[j] EXCEPT !.next = IF j = cur THEN fire[i].planned + 1 ELSE @,
                                 !.inFlight = IF j = i THEN FALSE ELSE @] \in R
      <4> DEFINE next == IF j = cur THEN fire[i].planned + 1 ELSE regs[j].next
                 busy == IF j = i THEN FALSE ELSE regs[j].inFlight
      <4>1. next \in Nat
        BY <3>1 DEF RegsType
      <4>2. busy \in BOOLEAN
        BY DEF RegsType
      <4>3. [regs[j] EXCEPT !.next = next, !.inFlight = busy] \in R
        <5> HIDE DEF next, busy, R
        <5> QED
          BY <4>1, <4>2, <3>2
      <4> QED
        BY <4>3
    <3> QED
      BY <1>18, <3>3 DEF Reschedule, RegsType
  <2> QED
    BY <2>1, <2>2, <2>3 DEF Shape
<1>19. CASE LoadTasks
  <2>1. /\ PlanType' /\ StartedType' /\ TerminalType' /\ RegsType'
        /\ NameType' /\ FireType'
    BY <1>19 DEF LoadTasks, store, memory, PlanType, StartedType, TerminalType,
                 RegsType, NameType, FireType
  <2>2. OpType'
    <3>1. Loader \in Goroutine
      BY DEF Goroutine
    <3>2. ASSUME NEW pc \in {"idle", "plan"}, NEW p \in BOOLEAN,
                 op' = [op EXCEPT ![Loader].pc = pc, ![Loader].paused = p]
          PROVE  OpType'
      <4> DEFINE call == [op[Loader] EXCEPT !.pc = pc, !.paused = p]
      <4>1. call \in [pc : {"idle", "pause", "unregister", "resume", "plan", "register"},
                      paused : BOOLEAN, plan : [seq : Nat \ {0}, at : Nat]]
        BY <3>1, <3>2 DEF OpType
      <4>2. op' = [op EXCEPT ![Loader] = call]
        BY <3>2
      <4> HIDE DEF call
      <4> QED
        BY <3>1, <4>1, <4>2 DEF OpType
    <3>3. (status = "paused") \in BOOLEAN
      OBVIOUS
    <3>4. (IF status = "cancelled" THEN "idle" ELSE "plan") \in {"idle", "plan"}
      OBVIOUS
    <3>5. op' = [op EXCEPT ![Loader].pc = IF status = "cancelled" THEN "idle" ELSE "plan",
                           ![Loader].paused = (status = "paused")]
      BY <1>19 DEF LoadTasks
    <3> QED
      BY <3>2, <3>3, <3>4, <3>5, Zenon
  <2> QED
    BY <2>1, <2>2 DEF Shape
<1>20. CASE TickSnapshot
  <2>1. /\ PlanType' /\ StartedType' /\ TerminalType' /\ RegsType'
        /\ FireType' /\ OpType'
    BY <1>20 DEF TickSnapshot, store, memory, PlanType, StartedType, TerminalType,
                 RegsType, FireType, OpType
  <2>2. NameType'
    BY <1>20 DEF TickSnapshot, NameType
  <2> QED
    BY <2>1, <2>2 DEF Shape
<1>21. CASE TickFire
  <2>1. PlanType' /\ StartedType' /\ TerminalType' /\ OpType'
    BY <1>21 DEF TickFire, store, memory, PlanType, StartedType, TerminalType, OpType
  <2>2. NameType'
    BY <1>21 DEF TickFire, NameType
  <2>3. snapshot \in RegId /\ regs[snapshot] \in [paused : BOOLEAN, next : Nat,
                                                inFlight : BOOLEAN, fireCount : Nat]
    BY <1>21 DEF TickFire, NameType, RegsType
  <2>4. RegsType' /\ FireType'
    <3>1. CASE ShouldFire(regs[snapshot])
      <4>1. RegsType'
        BY <1>21, <2>3, <3>1 DEF TickFire, RegsType, None
      <4>2. [NoFire EXCEPT !.pc = "check", !.seq = regs[snapshot].fireCount + 1,
                           !.planned = regs[snapshot].next]
              \in [pc : FirePc, seq : Nat, planned : Nat, verdict : Verdict]
        <5>1. regs[snapshot].fireCount + 1 \in Nat /\ regs[snapshot].next \in Nat
          BY <2>3
        <5>2. NoFire \in [pc : FirePc, seq : Nat, planned : Nat, verdict : Verdict]
          BY DEF NoFire, FirePc, Verdict
        <5>3. "check" \in FirePc
          BY DEF FirePc
        <5> QED
          BY <5>1, <5>2, <5>3
      <4>3. FireType'
        BY <1>21, <2>3, <3>1, <4>2 DEF TickFire, FireType
      <4> QED
        BY <4>1, <4>3
    <3>2. CASE ~ShouldFire(regs[snapshot])
      BY <1>21, <3>2 DEF TickFire, RegsType, FireType
    <3> QED
      BY <3>1, <3>2
  <2> QED
    BY <2>1, <2>2, <2>3, <2>4 DEF Shape
<1>22. CASE ListStuck
  <2>1. /\ PlanType' /\ StartedType' /\ TerminalType' /\ RegsType'
        /\ NameType' /\ FireType' /\ OpType'
    BY <1>22 DEF ListStuck, store, memory, PlanType, StartedType, TerminalType,
                 RegsType, NameType, FireType, OpType
  <2> QED
    BY <2>1 DEF Shape
<1>23. ASSUME NEW n \in FireSeq, ReapStuck(n) PROVE Shape'
  <2>1. /\ PlanType' /\ StartedType' /\ RegsType' /\ NameType'
        /\ FireType' /\ OpType'
    BY <1>23 DEF ReapStuck, store, memory, PlanType, StartedType, RegsType, NameType,
                 FireType, OpType
  <2>2. TerminalType'
    BY <1>23, TerminalRowGrows, FireSeqPositive DEF ReapStuck
  <2> QED
    BY <2>1, <2>2 DEF Shape
<1>24. CASE Advance
  <2>1. /\ PlanType' /\ StartedType' /\ TerminalType' /\ RegsType'
        /\ NameType' /\ FireType' /\ OpType'
    BY <1>24 DEF Advance, store, memory, PlanType, StartedType, TerminalType, RegsType,
                 NameType, FireType, OpType
  <2> QED
    BY <2>1 DEF Shape
<1>25. CASE Crash
  <2>1. PlanType' /\ StartedType' /\ TerminalType'
    BY <1>25 DEF Crash, store, memory, PlanType, StartedType, TerminalType
  <2>2. RegsType'
    BY <1>25 DEF Crash, RegsType, NoReg, None
  <2>3. NameType'
    BY <1>25 DEF Crash, NameType
  <2>4. FireType'
    BY <1>25 DEF Crash, FireType, NoFire, FirePc, Verdict
  <2>5. OpType'
    BY <1>25 DEF Crash, OpType, NoOp
  <2> QED
    BY <2>1, <2>2, <2>3, <2>4, <2>5 DEF Shape
<1>26. CASE UNCHANGED vars
  BY <1>26 DEF vars, Shape, PlanType, StartedType, TerminalType, RegsType, NameType,
               FireType, OpType
<1> QED
  BY <1>1, <1>2, <1>3, <1>4, <1>5, <1>6, <1>7, <1>8, <1>9, <1>10, <1>11, <1>12,
     <1>13, <1>14, <1>15, <1>16, <1>17, <1>18, <1>19, <1>20, <1>21, <1>22, <1>23,
     <1>24, <1>25, <1>26
  DEF Next, Call, Continue, FireStep

-----------------------------------------------------------------------------
(* The numbers.  A step that moves no number keeps each part.              *)

RowsKept == \A k \in FireSeq : Recorded(k) => Recorded(k)'

LEMMA PlanKept ==
  ASSUME RowsKept, PlanReached, plan' = plan
  PROVE  PlanReached'
BY ReachedGrows DEF RowsKept, PlanReached

LEMMA StartKept ==
  ASSUME RowsKept, StartReached, started' = started
  PROVE  StartReached'
BY ReachedGrows DEF RowsKept, StartReached

OpsMoved ==
  \A g \in Goroutine : op'[g].pc = "register" => /\ op[g].pc = "register"
                                                /\ op'[g].plan = op[g].plan

LEMMA OpKept == ASSUME RowsKept, OpReached, OpsMoved PROVE OpReached'
BY ReachedGrows DEF RowsKept, OpReached, OpsMoved

RegsMoved ==
  \A i \in RegId : ~regs'[i].inFlight => /\ ~regs[i].inFlight
                                         /\ regs'[i].fireCount = regs[i].fireCount

LEMMA RegKept == ASSUME RowsKept, RegReached, RegsMoved PROVE RegReached'
BY ReachedGrows DEF RowsKept, RegReached, RegsMoved

FiresMoved ==
  \A i \in RegId : fire'[i].pc # "none" =>
    /\ fire[i].pc # "none" /\ fire'[i].seq = fire[i].seq
    /\ regs'[i].inFlight = regs[i].inFlight /\ regs'[i].fireCount = regs[i].fireCount
    /\ fire'[i].pc \in {"next", "arm"} => fire[i].pc \in {"next", "arm"}

LEMMA FireKept == ASSUME RowsKept, FireReached, FiresMoved PROVE FireReached'
<1> SUFFICES ASSUME NEW i \in RegId, fire'[i].pc # "none"
             PROVE  /\ regs'[i].inFlight /\ regs'[i].fireCount = fire'[i].seq
                    /\ fire'[i].seq \in Reached'
                    /\ fire'[i].pc \in {"next", "arm"} => fire'[i].seq + 1 \in Reached'
  BY DEF FireReached
<1> QED
  BY ReachedGrows DEF RowsKept, FireReached, FiresMoved

Quiet == /\ RowsKept /\ plan' = plan /\ started' = started
         /\ OpsMoved /\ RegsMoved /\ FiresMoved

LEMMA QuietStep == ASSUME LogInv, Shape', Quiet PROVE LogInv'
BY PlanKept, StartKept, OpKept, RegKept, FireKept DEF Quiet, LogInv

LEMMA LogAlone == ASSUME terminal' = terminal PROVE RowsKept
BY DEF RowsKept, Recorded

\* The calls before they register, the bookkeeping of the Runner and the parks.
LEMMA QuietActions ==
  ASSUME Shape,
         \/ \E g \in Goroutine : \/ Call(g) \/ PauseRunner(g) \/ Unregister(g) \/ ResumeRow(g)
         \/ LoadTasks \/ TickSnapshot \/ ListStuck \/ Advance \/ UNCHANGED vars
         \/ \E i \in RegId : RefuseFire(i) \/ ParkFire(i) \/ ParkRow(i) \/ ParkRunner(i)
         \/ \E n \in FireSeq : ReapStuck(n)
  PROVE  Quiet
<1> USE DEF Shape
<1>1. ASSUME NEW g \in Goroutine, Call(g) \/ Unregister(g) PROVE Quiet
  <2>1. RowsKept /\ RegsMoved /\ FiresMoved /\ plan' = plan /\ started' = started
    BY <1>1, LogAlone DEF Call, PauseCall, CancelCall, ResumeCall, Unregister, store,
                          RegsMoved, FiresMoved
  <2>2. OpsMoved
    BY <1>1 DEF Call, PauseCall, CancelCall, ResumeCall, Unregister, Goto, OpType, OpsMoved
  <2> QED
    BY <2>1, <2>2 DEF Quiet
<1>2. ASSUME NEW g \in Goroutine, PauseRunner(g) PROVE Quiet
  <2>1. RowsKept /\ plan' = plan /\ started' = started
    BY <1>2, LogAlone DEF PauseRunner, store
  <2>2. OpsMoved
    BY <1>2 DEF PauseRunner, Goto, OpType, OpsMoved
  <2>3. RegsMoved /\ FiresMoved
    BY <1>2 DEF PauseRunner, Paused, RegsType, RegsMoved, FiresMoved
  <2> QED
    BY <2>1, <2>2, <2>3 DEF Quiet
<1>3. ASSUME NEW g \in Goroutine, ResumeRow(g) PROVE Quiet
  <2>1. RowsKept /\ RegsMoved /\ FiresMoved /\ plan' = plan /\ started' = started
    BY <1>3, LogAlone DEF ResumeRow, RegsMoved, FiresMoved
  <2>2. OpsMoved
    BY <1>3 DEF ResumeRow, OpType, OpsMoved
  <2> QED
    BY <2>1, <2>2 DEF Quiet
<1>4. CASE LoadTasks
  <2>1. RowsKept /\ RegsMoved /\ FiresMoved /\ plan' = plan /\ started' = started
    BY <1>4, LogAlone DEF LoadTasks, store, RegsMoved, FiresMoved
  <2>2. OpsMoved
    BY <1>4 DEF LoadTasks, OpType, OpsMoved, Goroutine
  <2> QED
    BY <2>1, <2>2 DEF Quiet
<1>5. CASE TickSnapshot \/ ListStuck \/ Advance \/ UNCHANGED vars
  BY <1>5, LogAlone DEF TickSnapshot, ListStuck, Advance, vars, store, memory,
                        RegsMoved, FiresMoved, OpsMoved, Quiet
<1>6. ASSUME NEW i \in RegId, RefuseFire(i) \/ ParkFire(i) \/ ParkRow(i) PROVE Quiet
  <2>1. RowsKept /\ OpsMoved /\ RegsMoved /\ plan' = plan /\ started' = started
    BY <1>6, LogAlone DEF RefuseFire, ParkFire, ParkRow, store, RegsMoved, OpsMoved
  <2>2. FiresMoved
    BY <1>6 DEF RefuseFire, ParkFire, ParkRow, Step, FireType, FiresMoved
  <2> QED
    BY <2>1, <2>2 DEF Quiet
<1>7. ASSUME NEW i \in RegId, ParkRunner(i) PROVE Quiet
  <2>1. RowsKept /\ OpsMoved /\ plan' = plan /\ started' = started
    BY <1>7, LogAlone DEF ParkRunner, store, OpsMoved
  <2>2. RegsMoved /\ FiresMoved
    BY <1>7 DEF ParkRunner, Paused, Step, RegsType, FireType, RegsMoved, FiresMoved
  <2> QED
    BY <2>1, <2>2 DEF Quiet
<1>8. ASSUME NEW n \in FireSeq, ReapStuck(n) PROVE Quiet
  <2>1. RowsKept
    BY <1>8, TerminalRowGrows, FireSeqPositive DEF ReapStuck, RowsKept
  <2> QED
    BY <1>8, <2>1 DEF ReapStuck, RegsMoved, FiresMoved, OpsMoved, Quiet
<1> QED
  BY <1>1, <1>2, <1>3, <1>4, <1>5, <1>6, <1>7, <1>8

LEMMA InitLogInv == Init => LogInv
<1> SUFFICES ASSUME Init PROVE LogInv
  OBVIOUS
<1>1. Shape
  BY InitShape
<1>2. PlanReached /\ StartReached
  BY OneReached DEF Init, PlanReached, StartReached
<1>3. OpReached /\ FireReached
  BY DEF Init, NoOp, OpReached, NoFire, FireReached
<1>4. RegReached
  BY OneReached DEF Init, NoReg, RegReached
<1> QED
  BY <1>1, <1>2, <1>3, <1>4 DEF LogInv

LEMMA NextLogInv == LogInv /\ [Next]_vars => LogInv'
<1> SUFFICES ASSUME LogInv, [Next]_vars PROVE LogInv'
  OBVIOUS
<1>t. Shape /\ Shape'
  BY NextShape DEF LogInv
<1> DEFINE Numbers == PlanReached /\ StartReached /\ OpReached /\ FireReached /\ RegReached
<1>n. Numbers
  BY DEF LogInv
<1> SUFFICES Numbers'
  BY <1>t DEF LogInv
\* resume and InitState read the plan ...
<1>1. ASSUME NEW g \in Goroutine, ReadPlan(g) PROVE Numbers'
  <2>1. RowsKept /\ RegsMoved /\ FiresMoved
    BY <1>1, LogAlone DEF ReadPlan, store, RegsMoved, FiresMoved
  <2>2. OpReached'
    BY <1>1, <1>t, <1>n, SameLog DEF ReadPlan, store, Shape, OpType, OpReached, PlanReached
  <2> QED
    BY <1>1, <1>n, <2>1, <2>2, PlanKept, StartKept, RegKept, FireKept DEF ReadPlan, store
\* ... and register one number below it.
<1>2. ASSUME NEW g \in Goroutine, Register(g) PROVE Numbers'
  <2>1. RowsKept /\ Reached' = Reached
    BY <1>2, LogAlone, SameLog DEF Register, store
  <2>2. OpsMoved
    BY <1>2, <1>t DEF Register, Goto, Shape, OpType, OpsMoved
  <2>3. PICK i \in RegId : /\ regs[i] = NoReg
                          /\ regs' = [regs EXCEPT ![i] =
                               [paused |-> op[g].paused, next |-> op[g].plan.at,
                                inFlight |-> FALSE, fireCount |-> Seed(op[g].plan.seq)]]
    BY <1>2 DEF Register
  <2>4. FiresMoved
    <3>1. fire[i].pc = "none"
      BY <1>n, <2>3 DEF NoReg, FireReached
    <3>2. fire' = fire /\ \A j \in RegId : j # i => regs'[j] = regs[j]
      BY <1>2, <1>t, <2>3 DEF Register, Shape, RegsType
    <3> QED
      BY <3>1, <3>2 DEF FiresMoved
  <2>5. op[g].plan.seq \in Reached /\ Seed(op[g].plan.seq) + 1 = op[g].plan.seq
    BY <1>2, <1>t, <1>n DEF Register, At, Shape, OpType, OpReached, Seed
  <2>6. RegReached'
    BY <1>t, <1>n, <2>1, <2>3, <2>5 DEF Shape, RegsType, RegReached
  <2> QED
    BY <1>2, <1>n, <2>1, <2>2, <2>4, <2>6, PlanKept, StartKept, OpKept, FireKept
    DEF Register, store
\* The Runner starts the fire an idle registration has the number for.
<1>3. CASE TickFire
  <2>1. RowsKept /\ Reached' = Reached /\ OpsMoved
    BY <1>3, LogAlone, SameLog DEF TickFire, store, OpsMoved
  <2>2. CASE ShouldFire(regs[snapshot])
    <3>1. snapshot \in RegId /\ ~regs[snapshot].inFlight
      BY <1>3, <1>t, <2>2 DEF TickFire, Shape, NameType, ShouldFire
    <3>2. regs[snapshot].fireCount + 1 \in Reached
      BY <1>n, <3>1 DEF RegReached
    <3>3. FireReached'
      BY <1>3, <1>t, <1>n, <2>1, <2>2, <3>1, <3>2
      DEF TickFire, Shape, RegsType, FireType, NoFire, FireReached
    <3>4. RegsMoved
      BY <1>3, <1>t, <2>2, <3>1 DEF TickFire, Shape, RegsType, RegsMoved
    <3> QED
      BY <1>3, <1>n, <2>1, <3>3, <3>4, PlanKept, StartKept, OpKept, RegKept
      DEF TickFire, store
  <2>3. CASE ~ShouldFire(regs[snapshot])
    <3>1. RegsMoved /\ FiresMoved
      BY <1>3, <2>3 DEF TickFire, RegsMoved, FiresMoved
    <3> QED
      BY <1>3, <1>n, <2>1, <3>1, PlanKept, StartKept, OpKept, RegKept, FireKept
      DEF TickFire, store
  <2> QED
    BY <2>2, <2>3
<1>4. ASSUME NEW i \in RegId, StartFire(i) PROVE Numbers'
  <2>1. RowsKept /\ Reached' = Reached /\ OpsMoved /\ RegsMoved
    BY <1>4, LogAlone, SameLog DEF StartFire, OpsMoved, RegsMoved
  <2>2. FiresMoved
    BY <1>4, <1>t DEF StartFire, Step, Shape, FireType, FiresMoved
  <2>3. fire[i].seq \in Reached
    BY <1>4, <1>n DEF StartFire, FireReached
  <2>4. StartReached'
    BY <1>4, <1>t, <1>n, <2>1, <2>3 DEF StartFire, Shape, StartedType, StartReached
  <2> QED
    BY <1>4, <1>n, <2>1, <2>2, <2>4, PlanKept, OpKept, RegKept, FireKept DEF StartFire
\* A fire writes its row before its registration is idle again ...
<1>5. ASSUME NEW i \in RegId, ParkedRow(i) PROVE Numbers'
  <2>1. PICK n \in Nat : n = fire[i].seq
    BY <1>t DEF Shape, FireType
  <2>a. n \in Reached /\ regs[i].fireCount = n /\ fire[i].verdict \in Verdict
    BY <1>5, <1>t, <1>n, <2>1 DEF ParkedRow, Shape, FireType, FireReached
  <2>2. RowsKept /\ (n \in FireSeq => Recorded(n)')
    BY <1>5, <1>t, <2>1, <2>a, TerminalRowGrows DEF ParkedRow, Shape, RowsKept
  <2>3. n + 1 \in Reached'
    BY <2>a, <2>2, ReachedGrows, RowReachesNext DEF RowsKept
  <2>4. OpsMoved /\ FiresMoved
    BY <1>5, <1>t
    DEF ParkedRow, Return, NoFire, Shape, RegsType, FireType, OpsMoved, FiresMoved
  <2>5. RegReached'
    BY <1>5, <1>t, <1>n, <2>a, <2>2, <2>3, ReachedGrows
    DEF ParkedRow, Shape, RegsType, RegReached, RowsKept
  <2> QED
    BY <1>5, <1>n, <2>2, <2>4, <2>5, PlanKept, StartKept, OpKept, FireKept DEF ParkedRow
\* ... and before it plans the next one.
<1>6. ASSUME NEW i \in RegId, RunEnds(i) PROVE Numbers'
  <2>1. PICK n \in Nat : n = fire[i].seq
    BY <1>t DEF Shape, FireType
  <2>a. n \in Reached
    BY <1>6, <1>n, <2>1 DEF RunEnds, FireReached
  <2>2. RowsKept /\ (n \in FireSeq => Recorded(n)')
    BY <1>6, <1>t, <2>1, TerminalRowGrows DEF RunEnds, Shape, RowsKept, Verdict
  <2>3. n + 1 \in Reached'
    BY <2>a, <2>2, ReachedGrows, RowReachesNext DEF RowsKept
  <2>4. OpsMoved /\ RegsMoved
    BY <1>6 DEF RunEnds, OpsMoved, RegsMoved
  <2>5. FireReached'
    BY <1>6, <1>t, <1>n, <2>1, <2>2, <2>3, ReachedGrows
    DEF RunEnds, Step, Shape, FireType, FireReached, RowsKept
  <2> QED
    BY <1>6, <1>n, <2>2, <2>4, <2>5, PlanKept, StartKept, OpKept, RegKept DEF RunEnds
<1>7. ASSUME NEW i \in RegId, EndTask(i) PROVE Numbers'
  <2>1. RowsKept /\ Reached' = Reached /\ OpsMoved
    BY <1>7, LogAlone, SameLog DEF EndTask, OpsMoved
  <2>2. FiresMoved
    BY <1>7, <1>t DEF EndTask, Return, NoFire, Shape, RegsType, FireType, FiresMoved
  <2>3. regs[i].fireCount + 1 \in Reached
    BY <1>7, <1>n DEF EndTask, FireReached
  <2>4. RegReached'
    BY <1>7, <1>t, <1>n, <2>1, <2>3 DEF EndTask, Shape, RegsType, RegReached
  <2> QED
    BY <1>7, <1>n, <2>1, <2>2, <2>4, PlanKept, StartKept, OpKept, FireKept DEF EndTask
<1>8. ASSUME NEW i \in RegId, PlanNext(i) PROVE Numbers'
  <2>1. RowsKept /\ Reached' = Reached /\ OpsMoved /\ RegsMoved
    BY <1>8, LogAlone, SameLog DEF PlanNext, OpsMoved, RegsMoved
  <2>2. FiresMoved
    BY <1>8, <1>t DEF PlanNext, Step, Shape, FireType, FiresMoved
  <2>3. fire[i].seq + 1 \in Reached
    BY <1>8, <1>n DEF PlanNext, FireReached
  <2>4. PlanReached'
    BY <1>8, <1>n, <2>1, <2>3 DEF PlanNext, PlanReached
  <2> QED
    BY <1>8, <1>n, <2>1, <2>2, <2>4, StartKept, OpKept, RegKept, FireKept DEF PlanNext
<1>9. ASSUME NEW i \in RegId, Reschedule(i) PROVE Numbers'
  <2>1. RowsKept /\ Reached' = Reached /\ OpsMoved
    BY <1>9, LogAlone, SameLog DEF Reschedule, store, OpsMoved
  <2>2. \A j \in RegId : /\ regs'[j].fireCount = regs[j].fireCount
                         /\ regs'[j].inFlight = (j # i /\ regs[j].inFlight)
    BY <1>9, <1>t DEF Reschedule, Shape, RegsType
  <2>3. FiresMoved
    <3>1. \A j \in RegId : fire'[j] = IF j = i THEN NoFire ELSE fire[j]
      BY <1>9, <1>t DEF Reschedule, Return, Shape, FireType
    <3>2. \A j \in RegId : j # i => regs'[j].inFlight = regs[j].inFlight
      BY <1>t, <2>2 DEF Shape, RegsType
    <3> QED
      BY <2>2, <3>1, <3>2 DEF NoFire, FiresMoved
  <2>4. regs[i].fireCount + 1 \in Reached
    BY <1>9, <1>n DEF Reschedule, FireReached
  <2>5. RegReached'
    BY <1>n, <2>1, <2>2, <2>4 DEF RegReached
  <2> QED
    BY <1>9, <1>n, <2>1, <2>3, <2>5, PlanKept, StartKept, OpKept, FireKept
    DEF Reschedule, store
\* The store survives a crash; memory starts from nothing.
<1>10. CASE Crash
  <2>1. RowsKept
    BY <1>10, LogAlone DEF Crash, store
  <2>2. OpReached' /\ FireReached' /\ RegReached'
    BY <1>10, OneReached
    DEF Crash, NoOp, NoFire, NoReg, OpReached, FireReached, RegReached
  <2> QED
    BY <1>10, <1>n, <2>1, <2>2, PlanKept, StartKept DEF Crash, store
<1>11. ASSUME Quiet PROVE Numbers'
  BY <1>11, <1>t, QuietStep DEF LogInv
<1> QED
  BY <1>t, <1>1, <1>2, <1>3, <1>4, <1>5, <1>6, <1>7, <1>8, <1>9, <1>10, <1>11, QuietActions
  DEF Next, Continue, FireStep

\* The plan and the runs stay behind the log: whatever calls, restarts, parks
\* and reaps come in between, no number is planned or started before every
\* lower one has a terminal row of its own (maybeScheduleNext, dispatchSpawnFire,
\* registerTask, LatestPlannedFire).
THEOREM PlanNeverAhead == Spec => []PlanFollowsLog
<1>1. LogInv => PlanFollowsLog
  BY FireSeqPositive DEF LogInv, PlanReached, StartReached, Reached, PlanFollowsLog
<1> QED
  BY <1>1, InitLogInv, NextLogInv, PTL DEF Spec

-----------------------------------------------------------------------------
(* Types and bounds.                                                       *)

\* The rest of TypeOK: no plan, and none that a call has read, is beyond the
\* end condition.
PlanBound == plan.seq <= Count /\ \A g \in Goroutine : op[g].plan.seq <= Count

Counters ==
  /\ status \in {"active", "paused", "cancelled"}
  /\ now \in 0 .. MaxTime /\ calls \in 0 .. MaxCalls /\ crashes \in 0 .. MaxCrashes
  /\ loaded \in BOOLEAN /\ reaping \subseteq FireSeq

LEMMA TypeParts == ASSUME Shape, PlanBound, Counters PROVE TypeOK
<1>1. \A n \in Nat \ {0} : n <= Count => n \in 1 .. Count
  BY BoundAssumption
<1>2. plan \in [seq : 1 .. Count, at : Nat]
  BY <1>1 DEF Shape, PlanType, PlanBound
<1>3. op \in [Goroutine -> [pc : {"idle", "pause", "unregister", "resume", "plan", "register"},
                            paused : BOOLEAN, plan : [seq : 1 .. Count, at : Nat]]]
  BY <1>1 DEF Shape, OpType, PlanBound
<1>4. fire \in [RegId -> [pc : {"none", "check", "run", "next", "arm", "park", "parkRunner",
                                "parked", "stop"},
                          seq : Nat, planned : Nat, verdict : {"completed", "failed", "skipped"}]]
  <2>1. FirePc \subseteq {"none", "check", "run", "next", "arm", "park", "parkRunner", "parked", "stop"}
    BY DEF FirePc
  <2> DEFINE Pcs == {"none", "check", "run", "next", "arm", "park", "parkRunner", "parked", "stop"}
  <2>2. fire \in [RegId -> [pc : FirePc, seq : Nat, planned : Nat, verdict : Verdict]] /\ FirePc \subseteq Pcs
    BY <2>1 DEF Shape, FireType
  <2> HIDE DEF Pcs
  <2>3. fire \in [RegId -> [pc : Pcs, seq : Nat, planned : Nat, verdict : Verdict]]
    BY <2>2
  <2> QED
    BY <2>3 DEF Pcs, Verdict
<1>5. terminal \in [FireSeq -> Seq({"completed", "failed", "skipped", "cancelled"})]
  <2>1. Verdict \cup {"cancelled"} = {"completed", "failed", "skipped", "cancelled"}
    BY DEF Verdict
  <2> QED
    BY <2>1 DEF Shape, TerminalType
<1> QED
  BY <1>2, <1>3, <1>4, <1>5 DEF Shape, StartedType, RegsType, NameType, Counters, TypeOK

LEMMA NextCounters == ASSUME Shape, Counters, [Next]_vars PROVE Counters'
<1> USE BoundAssumption DEF Counters
<1>1. status' \in {"active", "paused", "cancelled"}
  BY DEF Next, vars, Call, Continue, FireStep, PauseCall, CancelCall, ResumeCall, PauseRunner,
         Unregister, ResumeRow, ReadPlan, Register, RefuseFire, StartFire, ParkFire, ParkRow,
         ParkRunner, ParkedRow, RunEnds, EndTask, PlanNext, Reschedule, LoadTasks, TickSnapshot,
         TickFire, ListStuck, ReapStuck, Advance, Crash, store, memory
<1>2. now' = now \/ (now < MaxTime /\ now' = now + 1)
  BY DEF Next, vars, Call, Continue, FireStep, Called, PauseCall, CancelCall, ResumeCall,
         PauseRunner, Unregister, ResumeRow, ReadPlan, Register, RefuseFire, StartFire, ParkFire,
         ParkRow, ParkRunner, ParkedRow, RunEnds, EndTask, PlanNext, Reschedule, LoadTasks,
         TickSnapshot, TickFire, ListStuck, ReapStuck, Advance, Crash, store, memory
<1>3. calls' = calls \/ (calls < MaxCalls /\ calls' = calls + 1)
  BY DEF Next, vars, Call, Continue, FireStep, Called, PauseCall, CancelCall, ResumeCall,
         PauseRunner, Unregister, ResumeRow, ReadPlan, Register, RefuseFire, StartFire, ParkFire,
         ParkRow, ParkRunner, ParkedRow, RunEnds, EndTask, PlanNext, Reschedule, LoadTasks,
         TickSnapshot, TickFire, ListStuck, ReapStuck, Advance, Crash, store, memory
<1>4. crashes' = crashes \/ (crashes < MaxCrashes /\ crashes' = crashes + 1)
  BY DEF Next, vars, Call, Continue, FireStep, Called, PauseCall, CancelCall, ResumeCall,
         PauseRunner, Unregister, ResumeRow, ReadPlan, Register, RefuseFire, StartFire, ParkFire,
         ParkRow, ParkRunner, ParkedRow, RunEnds, EndTask, PlanNext, Reschedule, LoadTasks,
         TickSnapshot, TickFire, ListStuck, ReapStuck, Advance, Crash, store, memory
<1>5. loaded' \in BOOLEAN
  BY DEF Next, vars, Call, Continue, FireStep, PauseCall, CancelCall, ResumeCall, PauseRunner,
         Unregister, ResumeRow, ReadPlan, Register, RefuseFire, StartFire, ParkFire, ParkRow,
         ParkRunner, ParkedRow, RunEnds, EndTask, PlanNext, Reschedule, LoadTasks, TickSnapshot,
         TickFire, ListStuck, ReapStuck, Advance, Crash, store, memory
<1>6. reaping' \subseteq FireSeq
  BY DEF Next, vars, Call, Continue, FireStep, PauseCall, CancelCall, ResumeCall, PauseRunner,
         Unregister, ResumeRow, ReadPlan, Register, RefuseFire, StartFire, ParkFire, ParkRow,
         ParkRunner, ParkedRow, RunEnds, EndTask, PlanNext, Reschedule, LoadTasks, TickSnapshot,
         TickFire, ListStuck, ReapStuck, Advance, Crash, store, memory
<1>7. now' \in 0 .. MaxTime /\ calls' \in 0 .. MaxCalls /\ crashes' \in 0 .. MaxCrashes
  BY <1>2, <1>3, <1>4
<1> QED
  BY <1>1, <1>5, <1>6, <1>7

\* maybeScheduleNext plans only below the end condition, and a call reads
\* what has been planned.
LEMMA NextPlanBound == ASSUME Shape, PlanBound, [Next]_vars PROVE PlanBound'
<1>0. /\ plan.seq \in Nat /\ Count \in Nat \ {0} /\ plan.seq <= Count
      /\ \A g \in Goroutine : op[g].plan.seq <= Count
      /\ \A i \in RegId : fire[i].seq \in Nat
      /\ op \in [Goroutine -> [pc : {"idle", "pause", "unregister", "resume", "plan", "register"},
                               paused : BOOLEAN, plan : [seq : Nat \ {0}, at : Nat]]]
      /\ Loader \in Goroutine
  BY BoundAssumption DEF Shape, PlanType, FireType, OpType, PlanBound, Goroutine
<1>1. plan'.seq <= Count
  <2>1. ASSUME NEW i \in RegId, PlanNext(i) PROVE plan'.seq <= Count
    <3>1. fire[i].seq + 1 <= Count
      BY <1>0, <2>1 DEF PlanNext, EndReached
    <3> QED
      BY <1>0, <2>1, <3>1 DEF PlanNext
  <2>2. ASSUME NEW i \in RegId, FireStep(i), ~PlanNext(i) PROVE plan' = plan
    BY <2>2 DEF FireStep, RefuseFire, StartFire, ParkFire, ParkRow, ParkRunner, ParkedRow,
                RunEnds, EndTask, Reschedule, store
  <2>3. ASSUME NEW g \in Goroutine, Call(g) \/ Continue(g) PROVE plan' = plan
    BY <2>3 DEF Call, Continue, PauseCall, CancelCall, ResumeCall, PauseRunner, Unregister,
                ResumeRow, ReadPlan, Register, store
  <2>4. ASSUME NEW n \in FireSeq, ReapStuck(n) PROVE plan' = plan
    BY <2>4 DEF ReapStuck
  <2>5. ASSUME LoadTasks \/ TickSnapshot \/ TickFire \/ ListStuck \/ Advance \/ Crash
        PROVE  plan' = plan
    BY <2>5 DEF LoadTasks, TickSnapshot, TickFire, ListStuck, Advance, Crash, store
  <2> QED
    BY <1>0, <2>1, <2>2, <2>3, <2>4, <2>5 DEF Next, vars
<1>2. \A g \in Goroutine : op'[g].plan.seq <= Count
  <2> DEFINE Bound == \A g \in Goroutine : op'[g].plan.seq <= Count
  <2>1. ASSUME NEW g \in Goroutine, Call(g) PROVE Bound
    BY <1>0, <2>1 DEF Call, PauseCall, CancelCall, ResumeCall, Goto
  <2>2. ASSUME NEW g \in Goroutine, Continue(g) PROVE Bound
    <3>1. CASE ReadPlan(g)
      BY <1>0, <3>1 DEF ReadPlan
    <3>2. CASE ResumeRow(g)
      BY <1>0, <3>2 DEF ResumeRow
    <3> QED
      BY <1>0, <2>2, <3>1, <3>2 DEF Continue, PauseRunner, Unregister, Register, Goto
  <2>3. CASE LoadTasks
    BY <1>0, <2>3 DEF LoadTasks
  <2>4. CASE Crash
    BY <1>0, <2>4 DEF Crash, NoOp
  <2>5. ASSUME NEW i \in RegId, FireStep(i) PROVE op' = op
    BY <2>5 DEF FireStep, RefuseFire, StartFire, ParkFire, ParkRow, ParkRunner, ParkedRow,
                RunEnds, EndTask, PlanNext, Reschedule
  <2>6. ASSUME NEW n \in FireSeq, ReapStuck(n) PROVE op' = op
    BY <2>6 DEF ReapStuck
  <2>7. ASSUME TickSnapshot \/ TickFire \/ ListStuck \/ Advance PROVE op' = op
    BY <2>7 DEF TickSnapshot, TickFire, ListStuck, Advance, memory
  <2> QED
    BY <1>0, <2>1, <2>2, <2>3, <2>4, <2>5, <2>6, <2>7 DEF Next, vars
<1> QED
  BY <1>1, <1>2 DEF PlanBound

(* The rows, the registrations and the fires are well typed, whatever      *)
(* calls are made, and no plan, in the log or in the hands of a call, is   *)
(* beyond the end condition (shouldEndAfter); fires are another matter.    *)
THEOREM TypeCorrect == Spec => []TypeOK
<1> DEFINE TypeInv == Shape /\ PlanBound /\ Counters
<1>1. Init => TypeInv
  <2>1. Init => PlanBound /\ Counters
    BY BoundAssumption DEF Init, PlanBound, Counters, NoOp
  <2> QED
    BY <2>1, InitShape
<1>2. TypeInv /\ [Next]_vars => TypeInv'
  BY NextShape, NextPlanBound, NextCounters
<1>3. TypeInv => TypeOK
  BY TypeParts
<1> QED
  BY <1>1, <1>2, <1>3, PTL DEF Spec

-----------------------------------------------------------------------------
(* Without resume calls: one registration in each process.                 *)

\* Nothing of the task is in this process.
Unregistered == regs[1] = NoReg /\ cur = None /\ snapshot = None /\ fire[1].pc = "none"

\* Only InitState registers, once, and what it has read of the plan stands.
LoaderOnly ==
  /\ \A g \in Caller : op[g].pc \in {"idle", "pause", "unregister"}
  /\ op[Loader].pc \in {"idle", "plan", "register"}
  /\ op[Loader].pc # "idle" => loaded
  /\ op[Loader].pc = "register" => op[Loader].plan = plan

\* Until then the process has no registration, and later the first one only.
OneReg ==
  /\ {cur, snapshot} \subseteq {None, 1}
  /\ \A i \in RegId \ {1} : regs[i] = NoReg /\ fire[i].pc = "none"
  /\ ~loaded \/ op[Loader].pc # "idle" => Unregistered

\* The registration and its fire carry the number and the instant of the plan.
Follows ==
  /\ regs[1].inFlight <=> fire[1].pc # "none"
  /\ ~regs[1].inFlight /\ regs[1].next # None =>
       regs[1].next = plan.at /\ regs[1].fireCount + 1 = plan.seq
  /\ fire[1].pc # "none" => regs[1].next = None /\ regs[1].fireCount = fire[1].seq
  /\ fire[1].pc \in {"check", "run", "park", "parkRunner", "parked", "next"} =>
       fire[1].seq = plan.seq /\ fire[1].planned = plan.at
  /\ fire[1].pc = "arm" => plan.seq = fire[1].seq + 1 /\ plan.at = fire[1].planned + 1

\* The fire has run: it has a terminal row that only a run writes.
Ran(n) == ToSet(terminal[n]) \cap {"completed", "failed"} # {}

\* The plan advances past a fire that has run.
RanBefore ==
  /\ plan.at \in Nat \ {0}
  /\ \A n \in FireSeq : n < plan.seq => Ran(n)
  /\ fire[1].pc = "next" => Ran(fire[1].seq)
  /\ \A n \in FireSeq : started[n] > 0 => n <= plan.seq

SoloInv ==
  /\ Shape /\ PlanBound
  /\ LoaderOnly /\ OneReg /\ Follows /\ RanBefore

LEMMA OneIsRegId == 1 \in RegId /\ None \notin RegId /\ Loader \in Goroutine
BY BoundAssumption DEF RegId, None, Goroutine

LEMMA InitSolo == Init => SoloInv
<1> SUFFICES ASSUME Init PROVE SoloInv
  OBVIOUS
<1>1. Shape /\ PlanBound
  BY InitShape, BoundAssumption DEF Init, PlanBound, NoOp
<1>2. /\ regs[1] = [NoReg EXCEPT !.next = 1]
      /\ \A i \in RegId \ {1} : regs[i] = NoReg
      /\ \A i \in RegId : fire[i] = NoFire
      /\ \A g \in Goroutine : op[g] = NoOp
      /\ plan.seq = 1 /\ plan.at = 1
  BY OneIsRegId DEF Init
<1>3. LoaderOnly /\ OneReg
  BY <1>2, OneIsRegId DEF Init, LoaderOnly, OneReg, Goroutine, NoOp, NoFire
<1>4. Follows
  BY <1>2, OneIsRegId DEF Follows, NoReg, NoFire
<1>5. RanBefore
  BY <1>2, OneIsRegId, FireSeqPositive DEF Init, RanBefore, NoFire
<1> QED
  BY <1>1, <1>3, <1>4, <1>5 DEF SoloInv

\* Whoever fires is the one registration, and InitState is over.
LEMMA FireOfOne ==
  ASSUME SoloInv, NEW i \in RegId, fire[i].pc # "none"
  PROVE  i = 1 /\ loaded /\ op[Loader].pc = "idle"
BY OneIsRegId DEF SoloInv, OneReg, Unregistered, Shape, NameType

LEMMA TickOfOne ==
  ASSUME SoloInv, snapshot # None \/ cur # None
  PROVE  loaded /\ op[Loader].pc = "idle"
BY DEF SoloInv, OneReg, Unregistered

LEMMA FireStepBusy == ASSUME NEW i \in RegId, FireStep(i) PROVE fire[i].pc # "none"
BY DEF FireStep, RefuseFire, StartFire, ParkFire, ParkRow, ParkRunner, ParkedRow, RunEnds, EndTask,
       PlanNext, Reschedule

LEMMA NextLoaderOnly ==
  ASSUME "resume" \notin Calls, SoloInv, [Next]_vars
  PROVE  LoaderOnly'
<1>0. /\ \A g \in Caller : op[g].pc \in {"idle", "pause", "unregister"} /\ g \in Goroutine /\ g # Loader
      /\ op[Loader].pc \in {"idle", "plan", "register"}
      /\ op[Loader].pc # "idle" => loaded
      /\ op[Loader].pc = "register" => op[Loader].plan = plan
      /\ op \in [Goroutine -> [pc : {"idle", "pause", "unregister", "resume", "plan", "register"},
                               paused : BOOLEAN, plan : [seq : Nat \ {0}, at : Nat]]]
      /\ Loader \in Goroutine /\ Goroutine = Caller \cup {Loader}
  BY CallAssumption DEF SoloInv, LoaderOnly, Shape, OpType, Goroutine
<1>1. ASSUME NEW g \in Goroutine, Call(g) PROVE LoaderOnly'
  <2>1. g \in Caller /\ UNCHANGED <<loaded, plan>>
        /\ (Goto(g, "pause") \/ Goto(g, "unregister"))
    BY <1>1 DEF Call, PauseCall, CancelCall, ResumeCall, Called
  <2> QED
    BY <1>0, <2>1 DEF Goto, LoaderOnly
<1>2. ASSUME NEW g \in Goroutine, Continue(g) PROVE LoaderOnly'
  <2>0. UNCHANGED <<loaded, plan>>
    BY <1>2 DEF Continue, PauseRunner, Unregister, ResumeRow, ReadPlan, Register, store
  <2>1. CASE PauseRunner(g) \/ Unregister(g) \/ Register(g)
    <3>1. Goto(g, "idle")
      BY <2>1 DEF PauseRunner, Unregister, Register
    <3> QED
      BY <1>0, <2>0, <3>1 DEF Goto, LoaderOnly
  <2>2. CASE ReadPlan(g)
    <3>1. g = Loader
      BY <1>0, <2>2 DEF ReadPlan, At
    <3> QED
      BY <1>0, <2>0, <2>2, <3>1 DEF ReadPlan, At, LoaderOnly
  <2>3. CASE ResumeRow(g)
    BY <1>0, <2>3 DEF ResumeRow, At
  <2> QED
    BY <1>2, <2>1, <2>2, <2>3 DEF Continue
<1>3. CASE LoadTasks
  <2>1. op'[Loader].pc \in {"idle", "plan"} /\ loaded' /\ \A g \in Caller : op'[g] = op[g]
    BY <1>0, <1>3 DEF LoadTasks
  <2> QED
    BY <1>0, <2>1 DEF LoaderOnly
<1>4. CASE Crash
  BY <1>0, <1>4 DEF Crash, NoOp, LoaderOnly
<1>5. ASSUME NEW i \in RegId, FireStep(i) PROVE LoaderOnly'
  <2>1. op' = op /\ loaded' = loaded
    BY <1>5 DEF FireStep, RefuseFire, StartFire, ParkFire, ParkRow, ParkRunner, ParkedRow,
                RunEnds, EndTask, PlanNext, Reschedule
  <2>2. op[Loader].pc = "idle"
    BY <1>5, FireOfOne, FireStepBusy
  <2> QED
    BY <1>0, <2>1, <2>2 DEF LoaderOnly
<1>6. ASSUME UNCHANGED <<op, loaded, plan>> PROVE LoaderOnly'
  BY <1>0, <1>6 DEF LoaderOnly
<1>7. ASSUME TickSnapshot \/ TickFire \/ ListStuck \/ Advance \/ (\E n \in FireSeq : ReapStuck(n))
      PROVE  UNCHANGED <<op, loaded, plan>>
  BY <1>7 DEF TickSnapshot, TickFire, ListStuck, Advance, ReapStuck, store, memory
<1> QED
  BY <1>1, <1>2, <1>3, <1>4, <1>5, <1>6, <1>7 DEF Next, vars

\* What a step may rely on.
LEMMA SoloShape ==
  ASSUME SoloInv
  PROVE  /\ regs \in [RegId -> [paused : BOOLEAN, next : Nat, inFlight : BOOLEAN, fireCount : Nat]]
         /\ fire \in [RegId -> [pc : FirePc, seq : Nat, planned : Nat, verdict : Verdict]]
         /\ op \in [Goroutine -> [pc : {"idle", "pause", "unregister", "resume", "plan", "register"},
                                  paused : BOOLEAN, plan : [seq : Nat \ {0}, at : Nat]]]
         /\ cur \in {None, 1} /\ snapshot \in {None, 1}
         /\ plan.seq \in Nat \ {0} /\ plan.at \in Nat \ {0}
BY DEF SoloInv, Shape, RegsType, FireType, OpType, OneReg, PlanType, RanBefore

\* Register takes the first identity.
LEMMA RegisterFirst ==
  ASSUME SoloInv, NEW g \in Goroutine, Register(g)
  PROVE  /\ g = Loader /\ Unregistered /\ op[g].plan = plan /\ loaded
         /\ regs' = [regs EXCEPT ![1] =
              [paused |-> op[g].paused, next |-> plan.at, inFlight |-> FALSE,
               fireCount |-> plan.seq - 1]]
         /\ cur' = 1
<1>1. g = Loader /\ op[g].pc = "register"
  BY DEF Register, At, SoloInv, LoaderOnly, Goroutine
<1>2. Unregistered /\ op[g].plan = plan /\ loaded
  BY <1>1 DEF SoloInv, LoaderOnly, OneReg
<1>3. PICK i \in RegId :
       /\ regs[i] = NoReg /\ \A j \in 1 .. i - 1 : regs[j] # NoReg
       /\ regs' = [regs EXCEPT ![i] =
            [paused |-> op[g].paused, next |-> op[g].plan.at, inFlight |-> FALSE,
             fireCount |-> Seed(op[g].plan.seq)]]
       /\ cur' = i
  BY DEF Register
<1>4. i = 1
  <2>1. i # 1 => 1 \in 1 .. i - 1
    BY DEF RegId
  <2> QED
    BY <1>2, <1>3, <2>1 DEF Unregistered
<1> QED
  BY <1>1, <1>2, <1>3, <1>4 DEF Seed

LEMMA PausedOne ==
  ASSUME SoloInv, regs' = Paused(cur)
  PROVE  /\ \A i \in RegId \ {1} : regs'[i] = regs[i]
         /\ regs'[1].next = regs[1].next /\ regs'[1].inFlight = regs[1].inFlight
         /\ regs'[1].fireCount = regs[1].fireCount
         /\ cur = None => regs' = regs
BY SoloShape, OneIsRegId DEF Paused

LEMMA RescheduleOne ==
  ASSUME SoloInv, Reschedule(1)
  PROVE  /\ \A i \in RegId \ {1} : regs'[i] = regs[i]
         /\ regs'[1].next = IF cur = 1 THEN fire[1].planned + 1 ELSE regs[1].next
         /\ ~regs'[1].inFlight /\ regs'[1].fireCount = regs[1].fireCount
<1>1. \A j \in RegId : regs'[j] = [regs[j] EXCEPT !.next = IF j = cur THEN fire[1].planned + 1 ELSE @,
                                                !.inFlight = IF j = 1 THEN FALSE ELSE @]
  BY DEF Reschedule
<1>2. ASSUME NEW i \in RegId \ {1} PROVE regs'[i] = regs[i]
  <2>1. i # cur
    BY <1>2, SoloShape, OneIsRegId
  <2>2. regs'[i] = [regs[i] EXCEPT !.next = regs[i].next, !.inFlight = regs[i].inFlight]
    BY <1>1, <1>2, <2>1
  <2>3. regs[i] \in [paused : BOOLEAN, next : Nat, inFlight : BOOLEAN, fireCount : Nat]
    BY SoloShape
  <2> QED
    BY <2>2, <2>3
<1>3. regs[1] \in [paused : BOOLEAN, next : Nat, inFlight : BOOLEAN, fireCount : Nat]
  BY SoloShape, OneIsRegId
<1>4. regs'[1] = [regs[1] EXCEPT !.next = IF 1 = cur THEN fire[1].planned + 1 ELSE regs[1].next,
                                 !.inFlight = FALSE]
  BY <1>1, OneIsRegId
<1> QED
  BY <1>2, <1>3, <1>4

LEMMA NextOneReg ==
  ASSUME "resume" \notin Calls, SoloInv, [Next]_vars
  PROVE  OneReg'
<1> DEFINE Others == \A i \in RegId \ {1} : regs'[i] = NoReg /\ fire'[i].pc = "none"
           Names == {cur', snapshot'} \subseteq {None, 1}
<1>0. /\ \A i \in RegId \ {1} : regs[i] = NoReg /\ fire[i].pc = "none"
      /\ ~loaded \/ op[Loader].pc # "idle" => Unregistered
      /\ {cur, snapshot} \subseteq {None, 1}
      /\ Loader \in Goroutine /\ Loader \notin Caller
      /\ op[Loader].pc \in {"idle", "plan", "register"}
      /\ \A g \in Caller : op[g].pc \in {"idle", "pause", "unregister"}
  BY OneIsRegId, CallAssumption DEF SoloInv, LoaderOnly, OneReg
<1>1. ASSUME UNCHANGED <<regs, cur, snapshot, fire, loaded>>,
             op'[Loader].pc # "idle" => op[Loader].pc # "idle" \/ ~loaded
      PROVE  OneReg'
  BY <1>0, <1>1 DEF OneReg, Unregistered
<1>2. ASSUME NEW g \in Goroutine, Call(g) PROVE OneReg'
  <2>1. g \in Caller /\ op'[Loader] = op[Loader]
    BY <1>0, <1>2, SoloShape DEF Call, PauseCall, CancelCall, ResumeCall, Called, Goto
  <2> QED
    BY <1>1, <1>2, <2>1 DEF Call, PauseCall, CancelCall, ResumeCall
<1>3. ASSUME NEW g \in Goroutine, Continue(g) PROVE OneReg'
  <2>1. CASE PauseRunner(g)
    <3>1. g # Loader /\ op'[Loader] = op[Loader]
      BY <1>0, <2>1, SoloShape DEF PauseRunner, At, Goto
    <3>2. UNCHANGED <<cur, snapshot, fire, loaded>> /\ regs' = Paused(cur)
      BY <2>1 DEF PauseRunner
    <3> QED
      BY <1>0, <3>1, <3>2, PausedOne DEF OneReg, Unregistered
  <2>2. CASE Unregister(g)
    <3>1. g # Loader /\ op'[Loader] = op[Loader]
      BY <1>0, <2>2, SoloShape DEF Unregister, At, Goto
    <3>2. cur' = None /\ UNCHANGED <<regs, snapshot, fire, loaded>>
      BY <2>2 DEF Unregister
    <3> QED
      BY <1>0, <3>1, <3>2 DEF OneReg, Unregistered
  <2>3. CASE ResumeRow(g)
    BY <1>0, <2>3 DEF ResumeRow, At, Goroutine
  <2>4. CASE ReadPlan(g)
    <3>1. g = Loader
      BY <1>0, <2>4 DEF ReadPlan, At, Goroutine
    <3> QED
      BY <1>1, <2>4, <3>1 DEF ReadPlan, At
  <2>5. CASE Register(g)
    <3>1. g = Loader /\ loaded /\ cur' = 1 /\ \A i \in RegId \ {1} : regs'[i] = regs[i]
      BY <2>5, RegisterFirst, SoloShape
    <3>2. op'[Loader].pc = "idle" /\ UNCHANGED <<snapshot, fire, loaded>>
      BY <1>0, <2>5, <3>1, SoloShape DEF Register, Goto
    <3> QED
      BY <1>0, <3>1, <3>2 DEF OneReg
  <2> QED
    BY <1>3, <2>1, <2>2, <2>3, <2>4, <2>5 DEF Continue
<1>4. CASE LoadTasks
  BY <1>0, <1>4 DEF LoadTasks, LoadOnce, OneReg, Unregistered
<1>5. CASE TickSnapshot
  <2>1. loaded /\ op[Loader].pc = "idle"
    BY <1>5, TickOfOne DEF TickSnapshot
  <2> QED
    BY <1>0, <1>5, <2>1 DEF TickSnapshot, OneReg
<1>6. CASE TickFire
  <2>1. loaded /\ op[Loader].pc = "idle" /\ snapshot = 1
    BY <1>6, TickOfOne, SoloShape DEF TickFire
  <2>2. \A i \in RegId \ {1} : regs'[i] = regs[i] /\ fire'[i] = fire[i]
    <3>1. CASE ShouldFire(regs[1])
      BY <1>6, <2>1, <3>1, SoloShape DEF TickFire
    <3>2. CASE ~ShouldFire(regs[1])
      BY <1>6, <2>1, <3>2 DEF TickFire
    <3> QED
      BY <3>1, <3>2
  <2> QED
    BY <1>0, <1>6, <2>1, <2>2 DEF TickFire, OneReg
<1>7. ASSUME NEW i \in RegId, FireStep(i) PROVE OneReg'
  <2>1. i = 1 /\ loaded /\ op[Loader].pc = "idle"
    BY <1>7, FireOfOne, FireStepBusy
  <2>2. UNCHANGED <<cur, snapshot, op, loaded>>
    BY <1>7 DEF FireStep, RefuseFire, StartFire, ParkFire, ParkRow, ParkRunner, ParkedRow,
                RunEnds, EndTask, PlanNext, Reschedule
  <2>3. \A j \in RegId \ {1} : fire'[j] = fire[j]
    BY <1>7, <2>1, SoloShape
    DEF FireStep, RefuseFire, StartFire, ParkFire, ParkRow, ParkRunner, ParkedRow, RunEnds,
        EndTask, PlanNext, Reschedule, Step, Return
  <2>4. \A j \in RegId \ {1} : regs'[j] = regs[j]
    <3>1. CASE ParkRunner(i)
      BY <3>1, PausedOne DEF ParkRunner
    <3>2. CASE Reschedule(i)
      BY <2>1, <3>2, RescheduleOne
    <3> QED
      BY <1>7, <2>1, <3>1, <3>2, SoloShape
      DEF FireStep, RefuseFire, StartFire, ParkFire, ParkRow, ParkedRow, RunEnds, EndTask, PlanNext
  <2> QED
    BY <1>0, <2>1, <2>2, <2>3, <2>4 DEF OneReg
<1>8. CASE Crash
  BY <1>8, OneIsRegId DEF Crash, OneReg, Unregistered, NoFire
<1>9. ASSUME ListStuck \/ Advance \/ (\E n \in FireSeq : ReapStuck(n)) \/ UNCHANGED vars PROVE OneReg'
  BY <1>1, <1>9 DEF ListStuck, Advance, ReapStuck, store, memory, vars
<1> QED
  BY <1>2, <1>3, <1>4, <1>5, <1>6, <1>7, <1>8, <1>9 DEF Next

\* The registration and its fire stay in step with the plan.
LEMMA NextFollows ==
  ASSUME "resume" \notin Calls, SoloInv, [Next]_vars
  PROVE  Follows'
<1>0. /\ regs[1] \in [paused : BOOLEAN, next : Nat, inFlight : BOOLEAN, fireCount : Nat]
      /\ fire[1] \in [pc : FirePc, seq : Nat, planned : Nat, verdict : Verdict]
      /\ plan.seq \in Nat \ {0} /\ plan.at \in Nat \ {0} /\ None = 0 /\ 1 \in RegId
  BY SoloShape, OneIsRegId DEF None
<1>a. Follows
  BY DEF SoloInv
<1>1. ASSUME UNCHANGED <<regs, fire, plan>> PROVE Follows'
  BY <1>a, <1>1 DEF Follows
<1>2. ASSUME regs' = Paused(cur), UNCHANGED <<fire, plan>> PROVE Follows'
  BY <1>a, <1>2, PausedOne DEF Follows
<1>3. ASSUME NEW g \in Goroutine, Call(g) PROVE Follows'
  BY <1>1, <1>3 DEF Call, PauseCall, CancelCall, ResumeCall, store
<1>4. ASSUME NEW g \in Goroutine, Continue(g) PROVE Follows'
  <2>1. CASE PauseRunner(g)
    BY <1>2, <2>1 DEF PauseRunner, store
  <2>2. CASE Register(g)
    <3>1. UNCHANGED <<fire, plan>>
      BY <2>2 DEF Register, store
    <3>2. /\ Unregistered
          /\ regs' = [regs EXCEPT ![1] =
               [paused |-> op[g].paused, next |-> plan.at, inFlight |-> FALSE,
                fireCount |-> plan.seq - 1]]
      BY <2>2, RegisterFirst
    <3>3. 1 \in DOMAIN regs
      BY OneIsRegId, SoloShape
    <3>4. regs'[1] = [paused |-> op[g].paused, next |-> plan.at, inFlight |-> FALSE,
                      fireCount |-> plan.seq - 1]
      BY <3>2, <3>3
    <3> QED
      BY <1>0, <3>1, <3>2, <3>4 DEF Follows, Unregistered
  <2> QED
    BY <1>1, <1>4, <2>1, <2>2 DEF Continue, Unregister, ResumeRow, ReadPlan, store
<1>5. CASE TickFire
  <2>1. snapshot = 1 /\ plan' = plan
    BY <1>5, SoloShape DEF TickFire, store
  <2>2. CASE ShouldFire(regs[1])
    <3>1. /\ regs'[1] = [regs[1] EXCEPT !.inFlight = TRUE, !.next = None,
                                         !.fireCount = regs[1].fireCount + 1]
          /\ fire'[1] = [NoFire EXCEPT !.pc = "check", !.seq = regs[1].fireCount + 1,
                                       !.planned = regs[1].next]
      BY <1>0, <1>5, <2>1, <2>2, SoloShape DEF TickFire
    <3>2. /\ regs'[1].inFlight /\ regs'[1].next = None
          /\ regs'[1].fireCount = regs[1].fireCount + 1
      BY <1>0, <3>1
    <3>3. fire'[1].pc = "check" /\ fire'[1].seq = regs[1].fireCount + 1
          /\ fire'[1].planned = regs[1].next
      BY <3>1 DEF NoFire
    <3> QED
      BY <1>a, <2>1, <2>2, <3>2, <3>3 DEF ShouldFire, Follows
  <2>3. CASE ~ShouldFire(regs[1])
    BY <1>1, <1>5, <2>1, <2>3 DEF TickFire, store
  <2> QED
    BY <2>2, <2>3
<1>6. ASSUME NEW i \in RegId, FireStep(i) PROVE Follows'
  <2>0. i = 1
    BY <1>6, FireOfOne, FireStepBusy
  <2> DEFINE Moved(pc) == fire'[1].pc = pc /\ fire'[1].seq = fire[1].seq
                          /\ fire'[1].planned = fire[1].planned
  <2>1. ASSUME NEW pc \in FirePc, Step(1, pc) PROVE Moved(pc)
    BY <1>0, <2>1, SoloShape DEF Step
  <2>2. CASE RefuseFire(1) \/ StartFire(1) \/ ParkFire(1) \/ ParkRow(1) \/ RunEnds(1)
    <3>1. regs' = regs /\ plan' = plan /\ fire[1].pc \in {"check", "run", "park"}
      BY <2>2 DEF RefuseFire, StartFire, ParkFire, ParkRow, RunEnds, store
    <3>2. \E pc \in {"run", "park", "parkRunner", "next"} : Moved(pc)
      <4>1. CASE RefuseFire(1) \/ ParkFire(1)
        BY <1>0, <4>1, SoloShape DEF RefuseFire, ParkFire
      <4>2. CASE StartFire(1) \/ ParkRow(1) \/ RunEnds(1)
        BY <2>1, <4>2 DEF StartFire, ParkRow, RunEnds, AfterRun, FirePc
      <4> QED
        BY <2>2, <4>1, <4>2
    <3> QED
      BY <1>a, <3>1, <3>2 DEF Follows
  <2>3. CASE ParkRunner(1)
    <3>1. Moved("parked") /\ plan' = plan /\ regs' = Paused(cur) /\ fire[1].pc = "parkRunner"
      BY <2>1, <2>3 DEF ParkRunner, FirePc, store
    <3> QED
      BY <1>a, <3>1, PausedOne DEF Follows
  <2>4. CASE ParkedRow(1) \/ EndTask(1)
    <3>1. /\ fire'[1].pc = "none" /\ plan' = plan /\ fire[1].pc # "none"
          /\ regs'[1].inFlight = FALSE /\ regs'[1].next = regs[1].next
      BY <1>0, <2>4, SoloShape DEF ParkedRow, EndTask, Return, NoFire
    <3> QED
      BY <1>a, <3>1 DEF Follows
  <2>5. CASE PlanNext(1)
    <3>1. Moved("arm") /\ regs' = regs /\ fire[1].pc = "next"
      BY <2>1, <2>5 DEF PlanNext, FirePc
    <3>2. fire[1].seq = plan.seq /\ fire[1].planned = plan.at
      BY <1>a, <3>1 DEF Follows
    <3>3. plan' = [seq |-> fire[1].seq + 1, at |-> fire[1].planned + 1]
      BY <1>0, <2>5, <3>2 DEF PlanNext
    <3> QED
      BY <1>a, <3>1, <3>3 DEF Follows
  <2>6. CASE Reschedule(1)
    <3>1. fire'[1].pc = "none" /\ plan' = plan /\ fire[1].pc = "arm"
      BY <1>0, <2>6, SoloShape DEF Reschedule, Return, NoFire, store
    <3> QED
      BY <1>0, <1>a, <2>6, <3>1, RescheduleOne DEF Follows
  <2> QED
    BY <1>6, <2>0, <2>2, <2>3, <2>4, <2>5, <2>6 DEF FireStep
<1>7. CASE Crash
  <2>1. regs'[1] = NoReg /\ fire'[1] = NoFire
    BY <1>0, <1>7 DEF Crash
  <2> QED
    BY <1>0, <2>1 DEF NoReg, NoFire, Follows
<1>8. ASSUME LoadTasks \/ TickSnapshot \/ ListStuck \/ Advance \/ (\E n \in FireSeq : ReapStuck(n))
             \/ UNCHANGED vars
      PROVE  Follows'
  BY <1>1, <1>8 DEF LoadTasks, TickSnapshot, ListStuck, Advance, ReapStuck, store, memory, vars
<1> QED
  BY <1>3, <1>4, <1>5, <1>6, <1>7, <1>8 DEF Next

\* A run is not forgotten, and the row of a run records it.
LEMMA RanGrows ==
  ASSUME TerminalType, NEW n \in Nat, NEW event \in Verdict \cup {"cancelled"},
         TerminalRow(n, event)
  PROVE  /\ \A k \in FireSeq : Ran(k) => Ran(k)'
         /\ n \in FireSeq /\ event \in {"completed", "failed"} => Ran(n)'
<1> DEFINE E == Verdict \cup {"cancelled"}
<1>1. terminal \in [FireSeq -> Seq(E)] /\ event \in E
  BY DEF TerminalType
<1> HIDE DEF E
<1>2. \A k \in FireSeq : terminal[k] \in Seq(E)
  BY <1>1
<1>3. \A k \in FireSeq :
        terminal'[k] = IF k = n THEN Append(terminal[k], event) ELSE terminal[k]
  BY <1>1 DEF TerminalRow
<1>4. \A k \in FireSeq : ToSet(Append(terminal[k], event)) = ToSet(terminal[k]) \cup {event}
  BY <1>1, <1>2, ToSetAppend
<1>5. \A k \in FireSeq :
        ToSet(terminal'[k]) = IF k = n THEN ToSet(terminal[k]) \cup {event} ELSE ToSet(terminal[k])
  BY <1>3, <1>4
<1> QED
  BY <1>5 DEF Ran

LEMMA NextRanBefore ==
  ASSUME "resume" \notin Calls, SoloInv, [Next]_vars
  PROVE  RanBefore'
<1>0. /\ fire[1] \in [pc : FirePc, seq : Nat, planned : Nat, verdict : Verdict]
      /\ plan.seq \in Nat \ {0} /\ plan.at \in Nat \ {0} /\ plan.seq <= Count
      /\ TerminalType /\ started \in [FireSeq -> Nat] /\ 1 \in RegId
      /\ FireSeq \subseteq Nat /\ \A n \in Nat \ {0} : n <= Count => n \in FireSeq
  <2>1. /\ fire[1] \in [pc : FirePc, seq : Nat, planned : Nat, verdict : Verdict]
        /\ plan.seq \in Nat \ {0} /\ plan.at \in Nat \ {0} /\ 1 \in RegId
    BY SoloShape, OneIsRegId
  <2>2. plan.seq <= Count /\ TerminalType /\ started \in [FireSeq -> Nat]
    BY DEF SoloInv, PlanBound, Shape, StartedType
  <2>3. FireSeq \subseteq Nat /\ \A n \in Nat \ {0} : n <= Count => n \in FireSeq
    BY BoundAssumption DEF FireSeq
  <2> QED
    BY <2>1, <2>2, <2>3
<1>a. /\ \A n \in FireSeq : n < plan.seq => Ran(n)
      /\ fire[1].pc = "next" => Ran(fire[1].seq)
      /\ \A n \in FireSeq : started[n] > 0 => n <= plan.seq
      /\ fire[1].pc \in {"check", "run", "park", "parkRunner", "parked", "next"} =>
           fire[1].seq = plan.seq /\ fire[1].planned = plan.at
  BY DEF SoloInv, RanBefore, Follows
<1>1. ASSUME UNCHANGED <<plan, started, terminal>>, fire'[1].pc = "next" => fire'[1] = fire[1]
      PROVE  RanBefore'
  BY <1>0, <1>a, <1>1 DEF RanBefore, Ran
<1>2. ASSUME NEW g \in Goroutine, Call(g) \/ Continue(g) PROVE RanBefore'
  BY <1>1, <1>2 DEF Call, Continue, PauseCall, CancelCall, ResumeCall, PauseRunner, Unregister,
                    ResumeRow, ReadPlan, Register, store
<1>3. CASE TickFire
  <2>1. snapshot = 1 /\ UNCHANGED <<plan, started, terminal>>
    BY <1>3, SoloShape DEF TickFire, store
  <2>2. fire'[1] = fire[1] \/ fire'[1].pc = "check"
    <3>1. ShouldFire(regs[1]) =>
            fire'[1] = [NoFire EXCEPT !.pc = "check", !.seq = regs[1].fireCount + 1,
                                      !.planned = regs[1].next]
      BY <1>0, <1>3, <2>1, SoloShape DEF TickFire
    <3>2. ~ShouldFire(regs[1]) => fire'[1] = fire[1]
      BY <1>3, <2>1 DEF TickFire
    <3> QED
      BY <3>1, <3>2 DEF NoFire
  <2> QED
    BY <1>1, <2>1, <2>2
<1>4. ASSUME NEW i \in RegId, FireStep(i) PROVE RanBefore'
  <2>0. i = 1
    BY <1>4, FireOfOne, FireStepBusy
  <2>1. ASSUME NEW pc \in FirePc, Step(1, pc)
        PROVE  fire'[1].pc = pc /\ fire'[1].seq = fire[1].seq
    BY <1>0, <2>1, SoloShape DEF Step
  <2>2. CASE RefuseFire(1) \/ ParkFire(1) \/ ParkRow(1) \/ ParkRunner(1)
    <3>1. fire'[1].pc \in {"park", "parkRunner", "parked"}
      <4>1. CASE RefuseFire(1) \/ ParkFire(1)
        BY <1>0, <4>1, SoloShape DEF RefuseFire, ParkFire
      <4>2. CASE ParkRow(1) \/ ParkRunner(1)
        BY <2>1, <4>2 DEF ParkRow, ParkRunner, FirePc
      <4> QED
        BY <2>2, <4>1, <4>2
    <3>2. UNCHANGED <<plan, started, terminal>>
      BY <2>2 DEF RefuseFire, ParkFire, ParkRow, ParkRunner, store
    <3> QED
      BY <1>1, <3>1, <3>2
  <2>3. CASE StartFire(1)
    <3>1. fire'[1].pc = "run" /\ UNCHANGED <<plan, terminal>> /\ fire[1].seq = plan.seq
      BY <1>a, <2>1, <2>3 DEF StartFire, FirePc
    <3>2. \A n \in FireSeq : started'[n] > 0 => started[n] > 0 \/ n = fire[1].seq
      BY <1>0, <2>3 DEF StartFire
    <3>3. \A n \in FireSeq : started'[n] > 0 => n <= plan.seq
      BY <1>0, <1>a, <3>1, <3>2
    <3> QED
      BY <1>0, <1>a, <3>1, <3>3 DEF RanBefore, Ran
  <2>4. CASE ParkedRow(1)
    <3>1. fire'[1].pc = "none" /\ UNCHANGED <<plan, started>> /\ TerminalRow(fire[1].seq, fire[1].verdict)
      BY <1>0, <2>4, SoloShape DEF ParkedRow, Return, NoFire
    <3>2. \A k \in FireSeq : Ran(k) => Ran(k)'
      BY <1>0, <3>1, RanGrows
    <3> QED
      BY <1>0, <1>a, <3>1, <3>2 DEF RanBefore
  <2>5. CASE RunEnds(1)
    <3>1. PICK verdict \in {"completed", "failed"} : TerminalRow(fire[1].seq, verdict)
      BY <2>5 DEF RunEnds
    <3>2. /\ UNCHANGED <<plan, started>> /\ fire'[1].seq = fire[1].seq
          /\ fire[1].seq = plan.seq /\ fire[1].seq \in FireSeq
      BY <1>0, <1>a, <2>1, <2>5 DEF RunEnds, AfterRun, FirePc
    <3>3. (\A k \in FireSeq : Ran(k) => Ran(k)') /\ Ran(fire[1].seq)'
      <4>1. /\ \A k \in FireSeq : Ran(k) => Ran(k)'
            /\ \A n \in Nat : n = fire[1].seq => ToSet(terminal'[n]) \cap {"completed", "failed"} # {}
        <5> SUFFICES ASSUME NEW n \in Nat, n = fire[1].seq
                     PROVE  /\ \A k \in FireSeq : Ran(k) => Ran(k)'
                            /\ ToSet(terminal'[n]) \cap {"completed", "failed"} # {}
          BY <1>0
        <5>1. TerminalRow(n, verdict) /\ n \in FireSeq /\ verdict \in Verdict \cup {"cancelled"}
          BY <3>1, <3>2 DEF Verdict
        <5> QED
          BY <1>0, <5>1, RanGrows DEF Ran
      <4> QED
        BY <1>0, <3>2, <4>1 DEF Ran
    <3> QED
      BY <1>0, <1>a, <3>2, <3>3 DEF RanBefore
  <2>6. CASE EndTask(1) \/ Reschedule(1)
    <3>1. Return(1) /\ UNCHANGED <<plan, started, terminal>>
      BY <2>6 DEF EndTask, Reschedule, store
    <3>2. fire'[1].pc = "none"
      BY <1>0, <3>1, SoloShape DEF Return, NoFire
    <3> QED
      BY <1>1, <3>1, <3>2
  <2>7. CASE PlanNext(1)
    <3>1. fire'[1].pc = "arm" /\ UNCHANGED <<started, terminal>> /\ fire[1].pc = "next"
      BY <2>1, <2>7 DEF PlanNext, FirePc
    <3>2. fire[1].seq = plan.seq /\ fire[1].planned = plan.at /\ Ran(plan.seq)
      BY <1>a, <3>1
    <3>3. plan' = [seq |-> plan.seq + 1, at |-> plan.at + 1]
      BY <1>0, <2>7, <3>2 DEF PlanNext
    <3>4. \A n \in FireSeq : n < plan.seq + 1 => Ran(n)
      BY <1>0, <1>a, <3>2
    <3> QED
      BY <1>0, <1>a, <3>1, <3>3, <3>4 DEF RanBefore, Ran
  <2> QED
    BY <1>4, <2>0, <2>2, <2>3, <2>4, <2>5, <2>6, <2>7 DEF FireStep
<1>5. ASSUME NEW n \in FireSeq, ReapStuck(n) PROVE RanBefore'
  <2>1. TerminalRow(n, "cancelled") /\ UNCHANGED <<plan, started, fire>>
    BY <1>5 DEF ReapStuck
  <2>2. \A k \in FireSeq : Ran(k) => Ran(k)'
    BY <1>0, <2>1, RanGrows
  <2>3. fire[1].pc = "next" => fire[1].seq \in FireSeq
    BY <1>0, <1>a
  <2> QED
    BY <1>0, <1>a, <2>1, <2>2, <2>3 DEF RanBefore, Ran
<1>6. CASE Crash
  <2>1. fire'[1].pc = "none" /\ UNCHANGED <<plan, started, terminal>>
    BY <1>0, <1>6 DEF Crash, NoFire, store
  <2> QED
    BY <1>1, <2>1
<1>7. ASSUME LoadTasks \/ TickSnapshot \/ ListStuck \/ Advance \/ UNCHANGED vars
      PROVE  RanBefore'
  BY <1>1, <1>7 DEF LoadTasks, TickSnapshot, ListStuck, Advance, store, memory, vars
<1> QED
  BY <1>2, <1>3, <1>4, <1>5, <1>6, <1>7 DEF Next

LEMMA SoloHolds == ASSUME "resume" \notin Calls PROVE Spec => []SoloInv
<1>1. SoloInv /\ [Next]_vars => SoloInv'
  <2> SUFFICES ASSUME SoloInv, [Next]_vars PROVE SoloInv'
    OBVIOUS
  <2>1. Shape' /\ PlanBound'
    BY NextShape, NextPlanBound DEF SoloInv
  <2> QED
    BY <2>1, NextLoaderOnly, NextOneReg, NextFollows, NextRanBefore DEF SoloInv
<1> QED
  BY <1>1, InitSolo, PTL DEF Spec

(* Without resume calls, an armed registration is the newest planned row,  *)
(* number and instant: a restart at any moment loses and repeats nothing.  *)
THEOREM ArmedIsPlan == ASSUME "resume" \notin Calls PROVE Spec => []ArmedFromPlan
<1>1. SoloInv => ArmedFromPlan
  <2> SUFFICES ASSUME SoloInv, cur # None, regs[cur].next # None
               PROVE  regs[cur].next = plan.at /\ regs[cur].fireCount + 1 = plan.seq
    BY DEF ArmedFromPlan
  <2>1. cur = 1 /\ regs[1].inFlight \in BOOLEAN
    BY SoloShape, OneIsRegId
  <2> QED
    BY <2>1 DEF SoloInv, Follows
<1> QED
  BY <1>1, SoloHolds, PTL

(* Without resume calls, fires run one at a time and in order, each after  *)
(* the one before it has run, and none beyond the end condition.           *)
THEOREM OneFireAtATime == ASSUME "resume" \notin Calls PROVE Spec => []FiresOneByOne
<1>1. SoloInv => FiresOneByOne
  <2> SUFFICES ASSUME SoloInv PROVE FiresOneByOne
    OBVIOUS
  <2>1. InFlight \subseteq {1}
    BY DEF InFlight, SoloInv, OneReg
  <2>2. Cardinality(InFlight) <= 1
    <3>1. IsFiniteSet({1}) /\ Cardinality({1}) = 1
      BY FS_Singleton
    <3>2. Cardinality(InFlight) <= Cardinality({1})
      BY <2>1, <3>1, FS_Subset
    <3> QED
      BY <3>1, <3>2
  <2>3. ASSUME NEW n \in FireSeq, started[n] > 0
        PROVE  /\ n <= Count
               /\ n > 1 => ToSet(terminal[n - 1]) \cap {"completed", "failed"} # {}
    <3>1. n <= plan.seq /\ plan.seq <= Count
      BY <2>3 DEF SoloInv, RanBefore, PlanBound
    <3>2. n \in Nat /\ plan.seq \in Nat /\ Count \in Nat
      BY FireSeqPositive, SoloShape, BoundAssumption
    <3>3. n > 1 => n - 1 \in FireSeq /\ n - 1 < plan.seq
      <4>1. MaxCalls \in Nat
        BY BoundAssumption
      <4> QED
        BY <2>3, <3>1, <3>2, <4>1 DEF FireSeq
    <3> QED
      BY <3>1, <3>2, <3>3 DEF SoloInv, RanBefore, Ran
  <2> QED
    BY <2>2, <2>3 DEF FiresOneByOne
<1> QED
  BY <1>1, SoloHolds, PTL
=============================================================================
