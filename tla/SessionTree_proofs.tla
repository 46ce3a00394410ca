------------------------ MODULE SessionTree_proofs ------------------------
(***************************************************************************)
(* Theorems about SessionTree, for every tree of sessions.                 *)
(***************************************************************************)
EXTENDS SessionTree, TLAPS

-----------------------------------------------------------------------------
(* Lemmas about the operators on mailboxes and rows.                       *)

(* A control frame leaves every mailbox a set of control frames.           *)
LEMMA SignalledType ==
  ASSUME NEW box \in [Session -> SUBSET {"close", "cancel"}], NEW C,
         NEW f \in {"close", "cancel"}
  PROVE  Signalled(box, C, f) \in [Session -> SUBSET {"close", "cancel"}]
BY DEF Signalled

(* Submit adds the frame to one mailbox or changes nothing.                *)
LEMMA SubmittedType ==
  ASSUME NEW box \in [Session -> SUBSET Child], NEW s \in Session, NEW c \in Child
  PROVE  Submitted(box, s, c) \in [Session -> SUBSET Child]
BY DEF Submitted

(* Logging the results of C adds at most one row for each of them and none *)
(* for any other child.                                                    *)
LEMMA PersistedBound ==
  ASSUME logged \in [Session -> Nat], NEW C, NEW L \in Persisted(C)
  PROVE  /\ L \in [Session -> Nat]
         /\ \A c \in Session : L[c] = logged[c] \/ (c \in C /\ L[c] = logged[c] + 1)
<1>1. PICK K \in IF shutdown THEN SUBSET C ELSE {C} :
        L = [c \in Session |-> IF c \in K THEN logged[c] + 1 ELSE logged[c]]
  BY DEF Persisted
<1>2. K \subseteq C
  BY <1>1
<1> QED
  BY <1>1, <1>2

-----------------------------------------------------------------------------
(* Type correctness.                                                       *)

(* The wait of handleSubagentResult is always for a child, which TypeOK    *)
(* needs and does not say.                                                 *)
JoinsAChild == \A s \in Session : phase[s] = "join" => joining[s] \in Child

TypeInv == TypeOK /\ JoinsAChild

LEMMA InitTypeInv == Init => TypeInv
<1> SUFFICES ASSUME Init PROVE TypeInv
  OBVIOUS
<1>1. driver \in [Session -> BOOLEAN]
  <2>1. \A s \in Session : (ChildrenOf(s) \cap Driven # {}) \in BOOLEAN
    OBVIOUS
  <2> QED
    BY <2>1, Zenon DEF Init
<1> QED
  BY <1>1, TreeAssumption DEF Init, TypeInv, TypeOK, JoinsAChild, Phase, Turn, Child

LEMMA NextTypeOK == TypeInv /\ [Next]_vars => TypeOK'
<1> SUFFICES ASSUME TypeOK, JoinsAChild, [Next]_vars PROVE TypeOK'
  BY DEF TypeInv
<1> USE TreeAssumption
<1>0. ASSUME NEW s \in Session, RequestClose(s)
      PROVE  /\ closing' \in [Session -> BOOLEAN]
             /\ ctl' \in [Session -> SUBSET {"close", "cancel"}]
  <2>1. Signalled(ctl, {s}, "close") \in [Session -> SUBSET {"close", "cancel"}]
    BY SignalledType DEF TypeOK
  <2> QED
    BY <1>0, <2>1 DEF RequestClose, TypeOK
<1>00. ASSUME NEW s \in Session, EmitOut(s)
       PROVE  outbox' \in [Session -> BOOLEAN]
  BY <1>00 DEF EmitOut, TypeOK
<1>1. ASSUME NEW s \in Session, StartTurn(s) PROVE TypeOK'
  BY <1>1 DEF StartTurn, TypeOK, Turn, mailVars, pumpVars, logVars
<1>2. ASSUME NEW s \in Session, FinishTurn(s) PROVE TypeOK'
  <2>1. logged' \in [Session -> Nat]
    BY <1>2, PersistedBound DEF FinishTurn, TypeOK
  <2>2. outbox' \in [Session -> BOOLEAN]
    BY <1>2, <1>00 DEF FinishTurn, TypeOK
  <2>3. /\ closing' \in [Session -> BOOLEAN]
        /\ ctl' \in [Session -> SUBSET {"close", "cancel"}]
    BY <1>2, <1>0 DEF FinishTurn, TypeOK
  <2> QED
    BY <1>2, <2>1, <2>2, <2>3 DEF FinishTurn, TypeOK, Turn
<1>3. ASSUME NEW s \in Session, FailTurn(s) PROVE TypeOK'
  BY <1>3, <1>00 DEF FailTurn, TypeOK, Turn, mailVars, logVars
<1>4. ASSUME NEW s \in Session, HardCeiling(s) PROVE TypeOK'
  BY <1>4, <1>0 DEF HardCeiling, TypeOK, Turn, pumpVars, logVars
<1>5. ASSUME NEW s \in Session, RouteCancel(s) PROVE TypeOK'
  <2> DEFINE box == [ctl EXCEPT ![s] = @ \ {"cancel"}]
  <2>1. box \in [Session -> SUBSET {"close", "cancel"}]
    BY DEF TypeOK
  <2>2. ctl' \in [Session -> SUBSET {"close", "cancel"}]
    BY <1>5, <2>1, SignalledType DEF RouteCancel
  <2> QED
    BY <1>5, <2>2 DEF RouteCancel, TypeOK, Turn, pumpVars, logVars
<1>6. ASSUME NEW s \in Session, RetireCancelled(s) PROVE TypeOK'
  BY <1>6 DEF RetireCancelled, TypeOK, Turn, mailVars, pumpVars, logVars
<1>7. ASSUME NEW s \in Session, RouteSessionClose(s) PROVE TypeOK'
  BY <1>7 DEF RouteSessionClose, TypeOK, Phase, pumpVars, logVars
<1>8. ASSUME NEW s \in Session, NEW c \in Session, RouteSubagentResult(s, c) PROVE TypeOK'
  <2>1. c \in Child
    BY <1>8 DEF RouteSubagentResult, TypeOK
  <2>2. ctl' \in [Session -> SUBSET {"close", "cancel"}]
    BY <1>8, SignalledType DEF RouteSubagentResult, TypeOK
  <2>3. logged' \in [Session -> Nat]
    BY <1>8, PersistedBound DEF RouteSubagentResult, TypeOK
  <2>4. phase' \in [Session -> Phase] /\ joining' \in [Session -> Child \cup {None}]
    BY <1>8, <2>1 DEF RouteSubagentResult, TypeOK, Phase
  <2>5. /\ results' \in [Session -> SUBSET Child]
        /\ pending' \in [Session -> SUBSET Child]
    BY <1>8, <2>1 DEF RouteSubagentResult, TypeOK
  <2> QED
    BY <1>8, <2>2, <2>3, <2>4, <2>5 DEF RouteSubagentResult, TypeOK, pumpVars
<1>9. ASSUME NEW s \in Session, HandleSubagentResult(s) PROVE TypeOK'
  <2>0. joining[s] \in Child
    BY <1>9 DEF HandleSubagentResult, JoinsAChild
  <2>1. logged' \in [Session -> Nat]
    BY <1>9, PersistedBound DEF HandleSubagentResult, TypeOK
  <2>2. phase' \in [Session -> Phase] /\ joining' \in [Session -> Child \cup {None}]
    BY <1>9 DEF HandleSubagentResult, TypeOK, Phase
  <2>3. children' \in [Session -> SUBSET Child]
    BY <1>9 DEF HandleSubagentResult, TypeOK
  <2>4. pending' \in [Session -> SUBSET Child]
    BY <1>9, <2>0 DEF HandleSubagentResult, TypeOK
  <2> QED
    BY <1>9, <2>1, <2>2, <2>3, <2>4 DEF HandleSubagentResult, TypeOK, pumpVars
<1>10. ASSUME NEW s \in Session, NEW c \in Session, WaitTakesResult(s, c) PROVE TypeOK'
  <2>1. logged' \in [Session -> Nat]
    BY <1>10, PersistedBound DEF WaitTakesResult, TypeOK
  <2> QED
    BY <1>10, <2>1 DEF WaitTakesResult, TypeOK, runVars, pumpVars
<1>11. ASSUME NEW s \in Session, GracefulStop(s) PROVE TypeOK'
  BY <1>11 DEF GracefulStop, TypeOK, Phase, mailVars, pumpVars, logVars
<1>12. ASSUME NEW s \in Session, StopTurn(s) PROVE TypeOK'
  <2>1. ctl' \in [Session -> SUBSET {"close", "cancel"}]
    BY <1>12, SignalledType DEF StopTurn, TypeOK
  <2> QED
    BY <1>12, <2>1 DEF StopTurn, TypeOK, Phase, Turn, pumpVars, logVars
<1>13. ASSUME NEW s \in Session, NEW c \in Session, DrainInbox(s, c) PROVE TypeOK'
  BY <1>13 DEF DrainInbox, TypeOK, runVars, pumpVars, logVars
<1>14. ASSUME NEW s \in Session, DrainDone(s) PROVE TypeOK'
  <2>1. logged' \in [Session -> Nat]
    BY <1>14, PersistedBound DEF DrainDone, TypeOK
  <2> QED
    BY <1>14, <2>1 DEF DrainDone, TypeOK, Phase, pumpVars
<1>15. ASSUME NEW s \in Session, ExitWrite(s) PROVE TypeOK'
  BY <1>15, <1>00 DEF ExitWrite, TypeOK, Phase, mailVars
<1>16. ASSUME NEW s \in Session, RunReturn(s) PROVE TypeOK'
  BY <1>16 DEF RunReturn, TypeOK, Phase, mailVars, pumpVars, logVars
<1>17. ASSUME NEW p \in Session, NEW c \in Session, SpawnRegister(p, c) PROVE TypeOK'
  BY <1>17 DEF SpawnRegister, TypeOK, Phase, ChildrenOf, pumpVars, logVars
<1>18. ASSUME NEW c \in Child, SpawnStart(c) PROVE TypeOK'
  BY <1>18 DEF SpawnStart, TypeOK, Phase, Child, mailVars, logVars
<1>19. ASSUME NEW c \in Child
       PROVE  /\ ParentOf[c] \in Session
              /\ Projection(c) \in [Session -> SUBSET Child]
  <2>1. ParentOf[c] \in Session
    BY DEF Child
  <2> QED
    BY <2>1, SubmittedType DEF Projection, TypeOK
<1>20. ASSUME NEW c \in Child, PumpFrame(c) PROVE TypeOK'
  BY <1>19, <1>20 DEF PumpFrame, TypeOK, runVars, logVars
<1>21. ASSUME NEW c \in Child, PumpEnd(c) PROVE TypeOK'
  BY <1>19, <1>21 DEF PumpEnd, TypeOK, runVars, logVars
<1>22. ASSUME NEW c \in Child, DriverCancel(c) PROVE TypeOK'
  BY <1>22, SignalledType DEF DriverCancel, TypeOK, runVars, pumpVars, logVars
<1>23. ASSUME NEW s \in Session, DriverFinish(s) PROVE TypeOK'
  BY <1>23, <1>00 DEF DriverFinish, TypeOK, runVars, mailVars, logVars
<1>24. ASSUME NEW s \in Session, RequestCancel(s) PROVE TypeOK'
  BY <1>24, SignalledType DEF RequestCancel, TypeOK, runVars, pumpVars, logVars
<1>25. CASE Terminate
  BY <1>25, SignalledType DEF Terminate, TypeOK, runVars, pumpVars, logVars
<1>26. CASE Shutdown
  BY <1>26 DEF Shutdown, TypeOK, runVars, mailVars, pumpVars, logVars
<1>27. CASE UNCHANGED vars
  BY <1>27 DEF vars, TypeOK, runVars, mailVars, pumpVars, logVars
<1> QED
  BY <1>1, <1>2, <1>3, <1>4, <1>5, <1>6, <1>7, <1>8, <1>9, <1>10, <1>11, <1>12,
     <1>13, <1>14, <1>15, <1>16, <1>17, <1>18, <1>20, <1>21, <1>22, <1>23, <1>24,
     <1>25, <1>26, <1>27 DEF Next, RunLoop, Teardown

LEMMA NextJoinsAChild == TypeInv /\ [Next]_vars => JoinsAChild'
<1> SUFFICES ASSUME TypeOK, JoinsAChild, [Next]_vars, NEW t \in Session, phase'[t] = "join"
             PROVE  joining'[t] \in Child
  BY DEF TypeInv, JoinsAChild
<1>1. ASSUME UNCHANGED <<phase, joining>> PROVE joining'[t] \in Child
  BY <1>1 DEF JoinsAChild
<1>2. ASSUME NEW s \in Session, RunLoop(s) PROVE joining'[t] \in Child
  <2>1. CASE RouteSessionClose(s)
    BY <2>1 DEF RouteSessionClose, JoinsAChild, TypeOK
  <2>2. ASSUME NEW c \in Session, RouteSubagentResult(s, c) PROVE joining'[t] \in Child
    <3>1. c \in Child
      BY <2>2 DEF RouteSubagentResult, TypeOK
    <3> QED
      BY <2>2, <3>1 DEF RouteSubagentResult, JoinsAChild, TypeOK
  <2>3. CASE HandleSubagentResult(s)
    BY <2>3 DEF HandleSubagentResult, JoinsAChild, TypeOK
  <2> QED
    BY <1>1, <1>2, <2>1, <2>2, <2>3
    DEF RunLoop, StartTurn, FinishTurn, FailTurn, HardCeiling, RouteCancel,
        RetireCancelled, WaitTakesResult, runVars
<1>3. ASSUME NEW s \in Session, Teardown(s) PROVE joining'[t] \in Child
  <2>1. ASSUME phase' \in {[phase EXCEPT ![s] = q] : q \in Phase \ {"join"}},
               UNCHANGED joining
        PROVE  joining'[t] \in Child
    BY <2>1 DEF JoinsAChild, TypeOK
  <2>2. DrainDone(s) => phase' \in {[phase EXCEPT ![s] = q] : q \in Phase \ {"join"}}
    BY DEF DrainDone, Phase
  <2> QED
    BY <1>1, <1>3, <2>1, <2>2
    DEF Teardown, GracefulStop, StopTurn, DrainInbox, DrainDone, ExitWrite, RunReturn,
        runVars, Phase
<1>4. ASSUME NEW p \in Session, NEW c \in Session, SpawnRegister(p, c)
      PROVE  joining'[t] \in Child
  BY <1>4 DEF SpawnRegister, JoinsAChild, TypeOK
<1>5. ASSUME NEW c \in Child, SpawnStart(c) PROVE joining'[t] \in Child
  BY <1>5 DEF SpawnStart, JoinsAChild, TypeOK
<1> QED
  BY <1>1, <1>2, <1>3, <1>4, <1>5
  DEF Next, PumpFrame, PumpEnd, DriverCancel, DriverFinish, RequestCancel, Terminate,
      Shutdown, vars, runVars

(* Every variable keeps its shape in every run of every tree: control      *)
(* frames in the mailboxes, results only of children, a wait only for a    *)
(* child, whatever the order in which the goroutines move.                 *)
THEOREM TypeCorrect == Spec => []TypeOK
<1>1. Init => TypeInv
  BY InitTypeInv
<1>2. TypeInv /\ [Next]_vars => TypeInv'
  BY NextTypeOK, NextJoinsAChild DEF TypeInv
<1>3. TypeInv => TypeOK
  BY DEF TypeInv
<1> QED
  BY <1>1, <1>2, <1>3, PTL DEF Spec

-----------------------------------------------------------------------------
(* The life of a session, seen from outside.                               *)

(* The moves of one session from a phase to the next, each with what the   *)
(* proofs need of its guard.                                               *)
Move(s, q) ==
  \/ /\ phase[s] = "unborn" /\ q = "made" /\ s \in Child
     /\ s \in Driven \/ phase[ParentOf[s]] \in {"run", "join", "stop"}
  \/ phase[s] = "made" /\ q = "run"
  \/ phase[s] = "run" /\ q \in {"join", "stop"}
  \/ phase[s] = "join" /\ q = "run"
  \/ phase[s] = "stop" /\ q = "drain" /\ ~SpawnInTurn(s)
  \/ phase[s] = "drain" /\ q \in {"exit", "closed"} /\ ChildGoroutines(s) = {}
  \/ phase[s] = "exit" /\ q = "closed"
  \/ phase[s] = "closed" /\ q = "done"

(* A step moves at most one session.                                       *)
LEMMA PhaseMoves ==
  ASSUME TypeOK, [Next]_vars
  PROVE  \/ UNCHANGED phase
         \/ \E s \in Session, q \in Phase :
              phase' = [phase EXCEPT ![s] = q] /\ Move(s, q)
<1> DEFINE Moved == \/ UNCHANGED phase
                    \/ \E s \in Session, q \in Phase :
                         phase' = [phase EXCEPT ![s] = q] /\ Move(s, q)
<1>1. ASSUME NEW s \in Session, RunLoop(s) PROVE Moved
  <2>1. CASE RouteSessionClose(s)
    BY <2>1 DEF RouteSessionClose, Move, Phase
  <2>2. ASSUME NEW c \in Session, RouteSubagentResult(s, c) PROVE Moved
    BY <2>2 DEF RouteSubagentResult, Move, Phase
  <2>3. CASE HandleSubagentResult(s)
    BY <2>3 DEF HandleSubagentResult, Move, Phase
  <2> QED
    BY <1>1, <2>1, <2>2, <2>3
    DEF RunLoop, StartTurn, FinishTurn, FailTurn, HardCeiling, RouteCancel,
        RetireCancelled, WaitTakesResult, runVars
<1>2. ASSUME NEW s \in Session, Teardown(s) PROVE Moved
  <2>1. CASE GracefulStop(s)
    BY <2>1 DEF GracefulStop, Move, Phase
  <2>2. CASE StopTurn(s)
    BY <2>2 DEF StopTurn, Move, Phase
  <2>3. CASE DrainDone(s)
    <3>1. CASE explicit[s]
      BY <2>3, <3>1 DEF DrainDone, Move, Phase
    <3>2. CASE ~explicit[s]
      BY <2>3, <3>2 DEF DrainDone, Move, Phase
    <3> QED
      BY <3>1, <3>2
  <2>4. CASE ExitWrite(s)
    BY <2>4 DEF ExitWrite, Move, Phase
  <2>5. CASE RunReturn(s)
    BY <2>5 DEF RunReturn, Move, Phase
  <2>6. ASSUME NEW c \in Session, DrainInbox(s, c) PROVE Moved
    BY <2>6 DEF DrainInbox, runVars
  <2> QED
    BY <1>2, <2>1, <2>2, <2>3, <2>4, <2>5, <2>6 DEF Teardown
<1>3. ASSUME NEW p \in Session, NEW c \in Session, SpawnRegister(p, c) PROVE Moved
  BY <1>3 DEF SpawnRegister, Move, Phase, ChildrenOf
<1>4. ASSUME NEW c \in Child, SpawnStart(c) PROVE Moved
  BY <1>4 DEF SpawnStart, Move, Phase, Child
<1> QED
  BY <1>1, <1>2, <1>3, <1>4
  DEF Next, PumpFrame, PumpEnd, DriverCancel, DriverFinish, RequestCancel, Terminate,
      Shutdown, vars, runVars

(* Who leaves s.children has finished; who is constructed is in it.        *)
LEMMA ChildrenMoves ==
  ASSUME TypeOK, [Next]_vars, NEW c \in Child
  PROVE  /\ c \in children[ParentOf[c]] /\ phase[c] # "done"
              => c \in children'[ParentOf[c]]
         /\ phase[c] = "unborn" /\ phase'[c] # "unborn" => c \in children'[ParentOf[c]]
<1> DEFINE Kept == /\ c \in children[ParentOf[c]] /\ phase[c] # "done"
                        => c \in children'[ParentOf[c]]
                   /\ phase[c] = "unborn" /\ phase'[c] # "unborn"
                        => c \in children'[ParentOf[c]]
<1>0. ParentOf[c] \in Session /\ c \in Session
  BY TreeAssumption DEF Child
<1>1. ASSUME NEW s \in Session, HandleSubagentResult(s) PROVE Kept
  BY <1>0, <1>1 DEF HandleSubagentResult, Joined, TypeOK
<1>2. ASSUME NEW p \in Session, NEW d \in Session, SpawnRegister(p, d) PROVE Kept
  BY <1>0, <1>2 DEF SpawnRegister, ChildrenOf, TypeOK
<1>3. ASSUME UNCHANGED children,
             \/ UNCHANGED phase
             \/ \E s \in Session, q \in Phase :
                  phase' = [phase EXCEPT ![s] = q] /\ phase[s] # "unborn"
      PROVE  Kept
  BY <1>0, <1>3 DEF TypeOK
<1>4. ASSUME NEW s \in Session, RunLoop(s) PROVE Kept
  <2>1. ASSUME NEW d \in Session, RouteSubagentResult(s, d) PROVE Kept
    BY <1>3, <2>1 DEF RouteSubagentResult, Phase
  <2>2. CASE RouteSessionClose(s)
    BY <1>3, <2>2 DEF RouteSessionClose, Phase
  <2> QED
    BY <1>1, <1>3, <1>4, <2>1, <2>2
    DEF RunLoop, StartTurn, FinishTurn, FailTurn, HardCeiling, RouteCancel,
        RetireCancelled, WaitTakesResult, runVars, mailVars
<1>5. ASSUME NEW s \in Session, Teardown(s) PROVE Kept
  <2>1. phase[s] # "unborn"
    BY <1>5 DEF Teardown, GracefulStop, StopTurn, DrainInbox, DrainDone, ExitWrite, RunReturn
  <2>2. UNCHANGED phase \/ \E q \in Phase : phase' = [phase EXCEPT ![s] = q]
    BY <1>5 DEF Teardown, GracefulStop, StopTurn, DrainInbox, DrainDone, ExitWrite,
                RunReturn, runVars, Phase
  <2>3. UNCHANGED children
    BY <1>5 DEF Teardown, GracefulStop, StopTurn, DrainInbox, DrainDone, ExitWrite,
                RunReturn, mailVars
  <2> QED
    BY <1>3, <2>1, <2>2, <2>3
<1>6. ASSUME NEW d \in Child, SpawnStart(d) PROVE Kept
  BY <1>3, <1>6 DEF SpawnStart, Phase, Child, mailVars
<1> QED
  BY <1>1, <1>2, <1>3, <1>4, <1>5, <1>6
  DEF Next, PumpFrame, PumpEnd, DriverCancel, DriverFinish, RequestCancel, Terminate,
      Shutdown, vars, runVars, mailVars

LEMMA NextRegistered ==
  TypeOK /\ RegisteredUntilDone /\ [Next]_vars => RegisteredUntilDone'
<1> SUFFICES ASSUME TypeOK, RegisteredUntilDone, [Next]_vars,
                    NEW c \in Child, phase'[c] \notin {"unborn", "done"}
             PROVE  c \in children'[ParentOf[c]]
  BY DEF RegisteredUntilDone
<1>1. CASE phase[c] = "unborn"
  BY <1>1, ChildrenMoves
<1>2. phase[c] # "done"
  BY PhaseMoves DEF Move, TypeOK, Child
<1>3. CASE phase[c] # "unborn"
  BY <1>2, <1>3, ChildrenMoves DEF RegisteredUntilDone
<1> QED
  BY <1>1, <1>3

(* No order of spawns, results and closes leaves a live child out of the   *)
(* map its parent cascades over.                                           *)
THEOREM ChildrenRegistered == Spec => []RegisteredUntilDone
<1>1. Init => RegisteredUntilDone
  BY DEF Init, RegisteredUntilDone, Child
<1>2. TypeOK /\ RegisteredUntilDone /\ [Next]_vars => RegisteredUntilDone'
  BY NextRegistered
<1> QED
  BY <1>1, <1>2, TypeCorrect, PTL DEF Spec

(* Once a session is past its turn no spawn of it is half done.            *)
SpawnsSettled ==
  \A s \in Session : phase[s] \in {"drain", "exit", "closed", "done"} =>
    \A c \in ChildrenOf(s) : phase[c] # "made"

(* Children live inside the life of their parent, as long as every spawn   *)
(* is a tool call of a turn.                                               *)
LEMMA NextSpawnsSettled ==
  ASSUME Driven = {}, TypeOK, SpawnsSettled, [Next]_vars
  PROVE  SpawnsSettled'
<1> SUFFICES ASSUME NEW s \in Session, NEW c \in ChildrenOf(s),
                    phase'[s] \in {"drain", "exit", "closed", "done"}
             PROVE  phase'[c] # "made"
  BY DEF SpawnsSettled, ChildrenOf
<1>0. c \in Child /\ c \in Session /\ ParentOf[c] = s
  BY DEF ChildrenOf, Child
<1>1. CASE UNCHANGED phase
  BY <1>1 DEF SpawnsSettled
<1>2. ASSUME NEW t \in Session, NEW q \in Phase, phase' = [phase EXCEPT ![t] = q], Move(t, q)
      PROVE  phase'[c] # "made"
  <2>1. CASE t = c
    BY <1>0, <1>2, <2>1 DEF Move, TypeOK
  <2>2. CASE t = s /\ t # c
    BY <1>0, <1>2, <2>2 DEF Move, TypeOK, SpawnsSettled, SpawnInTurn
  <2>3. CASE t # s /\ t # c
    BY <1>0, <1>2, <2>3 DEF TypeOK, SpawnsSettled
  <2> QED
    BY <2>1, <2>2, <2>3
<1> QED
  BY <1>1, <1>2, PhaseMoves

(* A pump is started once, with the session it serves, returns only when   *)
(* that session is done, and never comes back.                             *)
LEMMA PumpMoves ==
  ASSUME TypeOK, [Next]_vars, NEW c \in Session
  PROVE  \/ pump'[c] = pump[c]
         \/ pump'[c] = "running" /\ phase[c] = "made" /\ phase'[c] = "run"
         \/ pump[c] = "running" /\ pump'[c] = "exited" /\ phase[c] = "done"
<1> DEFINE Moved == \/ pump'[c] = pump[c]
                    \/ pump'[c] = "running" /\ phase[c] = "made" /\ phase'[c] = "run"
                    \/ pump[c] = "running" /\ pump'[c] = "exited" /\ phase[c] = "done"
<1>1. ASSUME NEW d \in Child, SpawnStart(d) PROVE Moved
  BY <1>1 DEF SpawnStart, TypeOK, Child
<1>2. ASSUME NEW d \in Child, PumpEnd(d) PROVE Moved
  BY <1>2 DEF PumpEnd, TypeOK, Child
<1>3. ASSUME NEW s \in Session, RunLoop(s) PROVE UNCHANGED pump
  BY <1>3
  DEF RunLoop, StartTurn, FinishTurn, FailTurn, HardCeiling, RouteCancel, RetireCancelled,
      RouteSessionClose, RouteSubagentResult, HandleSubagentResult, WaitTakesResult, pumpVars
<1>4. ASSUME NEW s \in Session, Teardown(s) PROVE UNCHANGED pump
  BY <1>4 DEF Teardown, GracefulStop, StopTurn, DrainInbox, DrainDone, ExitWrite, RunReturn, pumpVars
<1> QED
  BY <1>1, <1>2, <1>3, <1>4
  DEF Next, SpawnRegister, PumpFrame, DriverCancel, DriverFinish, RequestCancel, Terminate,
      Shutdown, vars, pumpVars

LEMMA NextJoined ==
  ASSUME Driven = {}, TypeOK, SpawnsSettled, JoinBeforeExit, [Next]_vars
  PROVE  JoinBeforeExit'
<1> SUFFICES ASSUME NEW s \in Session, NEW c \in ChildrenOf(s),
                    phase'[s] \in {"exit", "closed", "done"}
             PROVE  phase'[c] \in {"unborn", "done"} /\ pump'[c] # "running"
  BY DEF JoinBeforeExit, ChildrenOf
<1>0. c \in Child /\ c \in Session /\ ParentOf[c] = s
  BY DEF ChildrenOf, Child
<1>1. CASE UNCHANGED phase
  BY <1>0, <1>1, PumpMoves DEF JoinBeforeExit
<1>2. ASSUME NEW t \in Session, NEW q \in Phase, phase' = [phase EXCEPT ![t] = q], Move(t, q)
      PROVE  phase'[c] \in {"unborn", "done"} /\ pump'[c] # "running"
  <2>1. CASE phase[s] \in {"exit", "closed", "done"}
    <3>1. phase[c] \in {"unborn", "done"} /\ pump[c] # "running"
      BY <2>1 DEF JoinBeforeExit
    <3>2. phase'[c] = phase[c]
      BY <1>0, <1>2, <2>1, <3>1 DEF Move, TypeOK
    <3> QED
      BY <1>0, <3>1, <3>2, PumpMoves
  <2>2. CASE phase[s] \notin {"exit", "closed", "done"}
    <3>1. t = s /\ phase[s] = "drain" /\ ChildGoroutines(s) = {}
      BY <1>2, <2>2 DEF Move, TypeOK
    <3>2. ~Alive(c) /\ pump[c] # "running"
      BY <3>1 DEF ChildGoroutines
    <3>3. phase[c] \in {"unborn", "done"}
      BY <1>0, <3>1, <3>2 DEF Alive, SpawnsSettled
    <3>4. phase'[c] = phase[c]
      BY <1>0, <1>2, <3>1, <3>3 DEF TypeOK
    <3> QED
      BY <1>0, <3>2, <3>3, <3>4, PumpMoves
  <2> QED
    BY <2>1, <2>2
<1> QED
  BY <1>1, <1>2, PhaseMoves

LEMMA JoinedHolds == ASSUME Driven = {} PROVE Spec => [](SpawnsSettled /\ JoinBeforeExit)
<1>1. Init => SpawnsSettled /\ JoinBeforeExit
  BY DEF Init, SpawnsSettled, JoinBeforeExit
<1>2. TypeOK /\ SpawnsSettled /\ JoinBeforeExit /\ [Next]_vars
        => SpawnsSettled' /\ JoinBeforeExit'
  BY NextSpawnsSettled, NextJoined
<1> QED
  BY <1>1, <1>2, TypeCorrect, PTL DEF Spec

(* With every spawn a tool call of a turn, teardown is structured: when a  *)
(* session reaches handleExit nothing below it runs or will run.           *)
THEOREM TeardownJoins == ASSUME Driven = {} PROVE Spec => []JoinBeforeExit
BY JoinedHolds, PTL

-----------------------------------------------------------------------------
(* One result per child.                                                   *)

(* The places a result of c can be in session s.                           *)
Held(s, c) ==
  c \in results[s] \/ joining[s] = c \/ c \in pending[s]

(* There is one result of a child or none: on its way in its parent, or    *)
(* logged there; and once there is one its pump will not make another.     *)
OneResult(c) ==
  /\ \A s \in Session : Held(s, c) => s = ParentOf[c]
  /\ c \in results[ParentOf[c]] => joining[ParentOf[c]] # c /\ c \notin pending[ParentOf[c]]
  /\ joining[ParentOf[c]] = c => c \notin pending[ParentOf[c]]
  /\ Held(ParentOf[c], c) => logged[c] = 0
  /\ logged[c] <= 1
  /\ Held(ParentOf[c], c) \/ logged[c] > 0 => projected[c] \/ pump[c] = "exited"
  /\ phase[c] \in {"unborn", "made"} => pump[c] = "none" /\ ~projected[c]

(* The wait of handleSubagentResult leaves no trace after it.              *)
NoStaleJoin == \A s \in Session : phase[s] # "join" => joining[s] = None

OneResultInv == NoStaleJoin /\ \A c \in Child : OneResult(c)

LEMMA NextNoStaleJoin ==
  ASSUME TypeOK, NoStaleJoin, [Next]_vars
  PROVE  NoStaleJoin'
<1> SUFFICES ASSUME NEW t \in Session, phase'[t] # "join"
             PROVE  joining'[t] = None
  BY DEF NoStaleJoin
<1>1. ASSUME UNCHANGED joining,
             \/ UNCHANGED phase
             \/ \E s \in Session, q \in Phase :
                  phase' = [phase EXCEPT ![s] = q] /\ phase[s] # "join"
      PROVE  joining'[t] = None
  BY <1>1 DEF NoStaleJoin, TypeOK
<1>2. ASSUME NEW s \in Session, RunLoop(s) PROVE joining'[t] = None
  <2>1. ASSUME NEW c \in Session, RouteSubagentResult(s, c) PROVE joining'[t] = None
    BY <2>1 DEF RouteSubagentResult, NoStaleJoin, TypeOK
  <2>2. CASE HandleSubagentResult(s)
    BY <2>2 DEF HandleSubagentResult, NoStaleJoin, TypeOK
  <2>3. CASE RouteSessionClose(s)
    BY <1>1, <2>3 DEF RouteSessionClose, Phase
  <2> QED
    BY <1>1, <1>2, <2>1, <2>2, <2>3
    DEF RunLoop, StartTurn, FinishTurn, FailTurn, HardCeiling, RouteCancel,
        RetireCancelled, WaitTakesResult, runVars
<1>3. ASSUME NEW s \in Session, Teardown(s) PROVE joining'[t] = None
  <2>1. phase[s] # "join" /\ UNCHANGED joining
    BY <1>3 DEF Teardown, GracefulStop, StopTurn, DrainInbox, DrainDone, ExitWrite,
                RunReturn, runVars
  <2>2. UNCHANGED phase \/ \E q \in Phase : phase' = [phase EXCEPT ![s] = q]
    BY <1>3 DEF Teardown, GracefulStop, StopTurn, DrainInbox, DrainDone, ExitWrite,
                RunReturn, runVars, Phase
  <2> QED
    BY <1>1, <2>1, <2>2
<1>4. ASSUME NEW p \in Session, NEW c \in Session, SpawnRegister(p, c)
      PROVE  joining'[t] = None
  BY <1>1, <1>4 DEF SpawnRegister, Phase
<1>5. ASSUME NEW c \in Child, SpawnStart(c) PROVE joining'[t] = None
  BY <1>1, <1>5 DEF SpawnStart, Phase, Child
<1> QED
  BY <1>1, <1>2, <1>3, <1>4, <1>5
  DEF Next, PumpFrame, PumpEnd, DriverCancel, DriverFinish, RequestCancel, Terminate,
      Shutdown, vars, runVars

(* A step that logs the pending results of s: each of them moves into the  *)
(* log or is lost, and no other result moves.                              *)
LEMMA LogPending ==
  ASSUME TypeOK, NEW s \in Session, NEW c \in Child, OneResult(c),
         NEW C \in SUBSET {d \in Session : Held(s, d)}, logged' \in Persisted(C),
         UNCHANGED <<projected, pump>>,
         \A t \in Session : Held(t, c)' => Held(t, c) /\ ~(t = s /\ c \in C),
         c \in results'[ParentOf[c]] =>
           joining'[ParentOf[c]] # c /\ c \notin pending'[ParentOf[c]],
         joining'[ParentOf[c]] = c => c \notin pending'[ParentOf[c]],
         phase'[c] \in {"unborn", "made"} => phase[c] \in {"unborn", "made"}
  PROVE  OneResult(c)'
<1>0. ParentOf[c] \in Session /\ c \in Session
  BY TreeAssumption DEF Child
<1>1. logged[c] \in Nat /\ (logged'[c] = logged[c] \/ (c \in C /\ logged'[c] = logged[c] + 1))
  BY <1>0, PersistedBound DEF TypeOK
<1>2. logged'[c] # logged[c] => s = ParentOf[c] /\ Held(ParentOf[c], c) /\ logged[c] = 0
  BY <1>1 DEF OneResult
<1> QED
  BY <1>0, <1>1, <1>2 DEF OneResult

LEMMA NextOneResult ==
  ASSUME TypeOK, NoStaleJoin, NEW c \in Child, OneResult(c), [Next]_vars
  PROVE  OneResult(c)'
<1> DEFINE p == ParentOf[c]
<1>0. p \in Session /\ c \in Session
  BY TreeAssumption DEF Child
<1>1. phase'[c] \in {"unborn", "made"} => phase[c] \in {"unborn", "made"}
  BY <1>0, PhaseMoves DEF Move, TypeOK
<1>2. ASSUME UNCHANGED <<results, joining, pending, logged, projected, pump>>
      PROVE  OneResult(c)'
  BY <1>1, <1>2 DEF OneResult, Held
<1>3. ASSUME NEW s \in Session, RunLoop(s) PROVE OneResult(c)'
  <2>1. CASE FinishTurn(s)
    <3>1. pending[s] \subseteq {d \in Session : Held(s, d)}
      BY DEF Held, TypeOK, Child
    <3>2. \A t \in Session : Held(t, c)' => Held(t, c) /\ ~(t = s /\ c \in pending[s])
      BY <1>0, <2>1 DEF FinishTurn, Held, OneResult, TypeOK
    <3>3. /\ c \in results'[p] => joining'[p] # c /\ c \notin pending'[p]
          /\ joining'[p] = c => c \notin pending'[p]
      BY <1>0, <2>1 DEF FinishTurn, OneResult, TypeOK
    <3> QED
      BY <1>1, <2>1, <3>1, <3>2, <3>3, LogPending DEF FinishTurn
  <2>2. ASSUME NEW d \in Session, RouteSubagentResult(s, d) PROVE OneResult(c)'
    <3>0. {d} \subseteq {e \in Session : Held(s, e)} /\ d \in Child /\ d # None
      BY <2>2, TreeAssumption DEF RouteSubagentResult, Held, TypeOK
    <3>1. CASE d \in children[s]
      BY <1>0, <1>1, <2>2, <3>0, <3>1 DEF RouteSubagentResult, OneResult, Held, NoStaleJoin,
                                     TypeOK, pumpVars
    <3>2. CASE d \notin children[s] /\ turn[s] # "none"
      BY <1>0, <1>1, <2>2, <3>0, <3>2 DEF RouteSubagentResult, OneResult, Held, TypeOK, pumpVars
    <3>3. CASE d \notin children[s] /\ turn[s] = "none"
      <4>1. \A t \in Session : Held(t, c)' => Held(t, c) /\ ~(t = s /\ c \in {d})
        BY <1>0, <2>2, <3>3 DEF RouteSubagentResult, OneResult, Held, TypeOK
      <4>2. /\ c \in results'[p] => joining'[p] # c /\ c \notin pending'[p]
            /\ joining'[p] = c => c \notin pending'[p]
        BY <1>0, <2>2, <3>3 DEF RouteSubagentResult, OneResult, TypeOK
      <4> QED
        BY <1>1, <2>2, <3>0, <3>3, <4>1, <4>2, LogPending DEF RouteSubagentResult, pumpVars
    <3> QED
      BY <2>2, <3>1, <3>2, <3>3 DEF TypeOK, RouteSubagentResult
  <2>3. CASE HandleSubagentResult(s)
    <3> DEFINE d == joining[s]
    <3>0. d # c \/ Held(s, c)
      BY DEF Held
    <3>1. c # None
      BY TreeAssumption DEF Child
    <3>2. CASE turn[s] # "none"
      BY <1>0, <1>1, <2>3, <3>1, <3>2 DEF HandleSubagentResult, OneResult, Held, TypeOK, pumpVars
    <3>3. CASE turn[s] = "none"
      <4>1. {d} \cap Session \subseteq {e \in Session : Held(s, e)}
        BY DEF Held
      <4>2. \A t \in Session : Held(t, c)' => Held(t, c) /\ ~(t = s /\ c = d)
        BY <1>0, <2>3, <3>1, <3>3 DEF HandleSubagentResult, OneResult, Held, TypeOK
      <4>3. /\ c \in results'[p] => joining'[p] # c /\ c \notin pending'[p]
            /\ joining'[p] = c => c \notin pending'[p]
        BY <1>0, <2>3, <3>1, <3>3 DEF HandleSubagentResult, OneResult, TypeOK
      <4>4. logged' \in Persisted({d})
        BY <2>3, <3>3 DEF HandleSubagentResult
      <4>5. d \in Session => OneResult(c)'
        BY <1>1, <2>3, <4>1, <4>2, <4>3, <4>4, LogPending DEF HandleSubagentResult, pumpVars
      <4>6. d \notin Session => logged'[c] = logged[c]
        BY <1>0, <4>4, PersistedBound DEF TypeOK
      <4> QED
        BY <1>0, <1>1, <2>3, <4>2, <4>3, <4>5, <4>6
        DEF HandleSubagentResult, OneResult, pumpVars
    <3> QED
      BY <3>2, <3>3
  <2>4. ASSUME NEW d \in Session, WaitTakesResult(s, d) PROVE OneResult(c)'
    <3>1. {d} \subseteq {e \in Session : Held(s, e)}
      BY <2>4 DEF WaitTakesResult, Held
    <3>2. \A t \in Session : Held(t, c)' => Held(t, c) /\ ~(t = s /\ c \in {d})
      BY <1>0, <2>4 DEF WaitTakesResult, OneResult, Held, TypeOK, runVars
    <3>3. /\ c \in results'[p] => joining'[p] # c /\ c \notin pending'[p]
          /\ joining'[p] = c => c \notin pending'[p]
      BY <1>0, <2>4 DEF WaitTakesResult, OneResult, TypeOK, runVars
    <3>4. CASE logged' \in Persisted({d})
      BY <1>1, <2>4, <3>1, <3>2, <3>3, <3>4, LogPending DEF WaitTakesResult, pumpVars
    <3>5. CASE logged' = logged
      BY <1>0, <1>1, <2>4, <3>2, <3>3, <3>5 DEF WaitTakesResult, OneResult, pumpVars
    <3> QED
      BY <2>4, <3>4, <3>5 DEF WaitTakesResult
  <2> QED
    BY <1>2, <1>3, <2>1, <2>2, <2>3, <2>4
    DEF RunLoop, StartTurn, FailTurn, HardCeiling, RouteCancel, RetireCancelled,
        RouteSessionClose, mailVars, pumpVars, logVars
<1>4. ASSUME NEW s \in Session, Teardown(s) PROVE OneResult(c)'
  <2>1. CASE StopTurn(s)
    BY <1>2, <2>1 DEF StopTurn, pumpVars, logVars
  <2>2. ASSUME NEW d \in Session, DrainInbox(s, d) PROVE OneResult(c)'
    BY <1>0, <1>1, <2>2 DEF DrainInbox, OneResult, Held, TypeOK, runVars, pumpVars, logVars
  <2>3. CASE DrainDone(s)
    <3> PICK K \in SUBSET results[s] :
          IF explicit[s] THEN logged' \in Persisted(pending[s] \cup K) ELSE UNCHANGED logged
      BY <2>3 DEF DrainDone
    <3>1. pending[s] \cup K \subseteq {e \in Session : Held(s, e)}
      BY DEF Held, TypeOK, Child
    <3>2. \A t \in Session : Held(t, c)' => Held(t, c) /\ ~(t = s /\ c \in pending[s] \cup K)
      BY <1>0, <2>3 DEF DrainDone, OneResult, Held, TypeOK
    <3>3. /\ c \in results'[p] => joining'[p] # c /\ c \notin pending'[p]
          /\ joining'[p] = c => c \notin pending'[p]
      BY <1>0, <2>3 DEF DrainDone, OneResult, TypeOK
    <3>4. CASE explicit[s]
      <4>1. logged' \in Persisted(pending[s] \cup K)
        BY <3>4
      <4> QED
        BY <1>1, <2>3, <3>1, <3>2, <3>3, <4>1, LogPending DEF DrainDone, pumpVars
    <3>5. CASE ~explicit[s]
      BY <1>0, <1>1, <2>3, <3>2, <3>3, <3>5 DEF DrainDone, OneResult, pumpVars
    <3> QED
      BY <3>4, <3>5
  <2>4. CASE ExitWrite(s)
    BY <1>2, <2>4 DEF ExitWrite, mailVars
  <2> QED
    BY <1>2, <1>4, <2>1, <2>2, <2>3, <2>4
    DEF Teardown, GracefulStop, RunReturn, mailVars, pumpVars, logVars
<1>5. ASSUME NEW d \in Child, PumpFrame(d) PROVE OneResult(c)'
  BY <1>0, <1>1, <1>5, TreeAssumption
  DEF PumpFrame, Projection, Submitted, OneResult, Held, TypeOK, NoStaleJoin, Child, runVars, logVars
<1>6. ASSUME NEW d \in Child, PumpEnd(d) PROVE OneResult(c)'
  BY <1>0, <1>1, <1>6, TreeAssumption
  DEF PumpEnd, Projection, Submitted, OneResult, Held, TypeOK, Child, runVars, logVars
<1>7. ASSUME NEW q \in Session, NEW d \in Session, SpawnRegister(q, d) PROVE OneResult(c)'
  BY <1>2, <1>7 DEF SpawnRegister, pumpVars, logVars
<1>8. ASSUME NEW d \in Child, SpawnStart(d) PROVE OneResult(c)'
  BY <1>0, <1>1, <1>8 DEF SpawnStart, OneResult, Held, TypeOK, Child, mailVars, logVars
<1> QED
  BY <1>2, <1>3, <1>4, <1>5, <1>6, <1>7, <1>8
  DEF Next, DriverCancel, DriverFinish, RequestCancel, Terminate, Shutdown, vars,
      runVars, mailVars, pumpVars, logVars

LEMMA OneResultHolds == Spec => []OneResultInv
<1>1. Init => OneResultInv
  <2>1. \A c \in Child : c \in Session /\ c # Root /\ c # None /\ ParentOf[c] \in Session
    BY TreeAssumption DEF Child
  <2>2. ASSUME Init, NEW c \in Child, NEW s \in Session PROVE ~Held(s, c)
    BY <2>1, <2>2 DEF Init, Held
  <2>3. ASSUME Init, NEW c \in Child PROVE OneResult(c)
    <3>1. /\ c \notin results[ParentOf[c]] /\ joining[ParentOf[c]] # c
          /\ logged[c] = 0 /\ pump[c] = "none" /\ ~projected[c]
      BY <2>1, <2>3 DEF Init
    <3> QED
      BY <2>1, <2>2, <2>3, <3>1 DEF OneResult
  <2> QED
    BY <2>3 DEF Init, OneResultInv, NoStaleJoin
<1>2. TypeOK /\ OneResultInv /\ [Next]_vars => OneResultInv'
  <2>1. ASSUME TypeOK, OneResultInv, [Next]_vars PROVE NoStaleJoin'
    BY <2>1, NextNoStaleJoin DEF OneResultInv
  <2>2. ASSUME TypeOK, OneResultInv, [Next]_vars, NEW c \in Child PROVE OneResult(c)'
    BY <2>2, NextOneResult DEF OneResultInv
  <2> QED
    BY <2>1, <2>2 DEF OneResultInv
<1> QED
  BY <1>1, <1>2, TypeCorrect, PTL DEF Spec

(* A child has at most one subagent_result row, whatever the order of its  *)
(* own termination, its answer, and its parent's teardown.                 *)
THEOREM OneRowPerChild == Spec => []ResultOnce
<1>1. OneResultInv => ResultOnce
  BY DEF OneResultInv, OneResult, ResultOnce
<1> QED
  BY <1>1, OneResultHolds, PTL

-----------------------------------------------------------------------------
(* A result in the log follows the end of the child.                       *)

(* Only a SessionClose takes a session down, and it is not gone before it  *)
(* has written its one session_terminated row.                             *)
Explicit ==
  \A s \in Session :
    /\ phase[s] \in {"stop", "drain", "exit", "closed", "done"} => explicit[s]
    /\ terminated[s] = IF phase[s] \in {"closed", "done"} THEN 1 ELSE 0

(* Results wait in pendingInbound, and reach the log, after the child's    *)
(* goroutine has returned; drainOnTeardown alone takes them earlier.       *)
ResultsOfDone ==
  /\ \A s \in Session : phase[s] # "drain" => \A c \in pending[s] : phase[c] = "done"
  /\ \A c \in Child : logged[c] > 0 => phase[c] = "done"

EndInv == ~shutdown => Explicit /\ ResultsOfDone

(* Nothing leaves the phase done.                                          *)
LEMMA DoneStays ==
  ASSUME TypeOK, [Next]_vars, NEW c \in Session, phase[c] = "done"
  PROVE  phase'[c] = "done"
BY PhaseMoves DEF Move, TypeOK

(* A result of c in the parent means that c was started.                   *)
LEMMA HeldStarted ==
  ASSUME NEW s \in Session, NEW c \in Child, OneResult(c), Held(s, c)
  PROVE  c \in ChildrenOf(s) /\ phase[c] \notin {"unborn", "made"}
BY DEF OneResult, ChildrenOf

(* Nor does the root context come back.                                    *)
LEMMA ShutdownStays == ASSUME [Next]_vars PROVE shutdown => shutdown'
<1>1. ASSUME NEW s \in Session, RunLoop(s) PROVE UNCHANGED shutdown
  BY <1>1 DEF RunLoop, StartTurn, FinishTurn, FailTurn, HardCeiling, RouteCancel,
              RetireCancelled, RouteSessionClose, RouteSubagentResult,
              HandleSubagentResult, WaitTakesResult
<1>2. ASSUME NEW s \in Session, Teardown(s) PROVE UNCHANGED shutdown
  BY <1>2 DEF Teardown, GracefulStop, StopTurn, DrainInbox, DrainDone, ExitWrite, RunReturn
<1>3. ASSUME NEW p \in Session, NEW c \in Session, SpawnRegister(p, c)
      PROVE  UNCHANGED shutdown
  BY <1>3 DEF SpawnRegister
<1>4. ASSUME NEW c \in Child,
             SpawnStart(c) \/ PumpFrame(c) \/ PumpEnd(c) \/ DriverCancel(c)
      PROVE  UNCHANGED shutdown
  BY <1>4 DEF SpawnStart, PumpFrame, PumpEnd, DriverCancel
<1>5. ASSUME NEW s \in Session, DriverFinish(s) \/ RequestCancel(s)
      PROVE  UNCHANGED shutdown
  BY <1>5 DEF DriverFinish, RequestCancel
<1>6. CASE Terminate \/ UNCHANGED vars
  BY <1>6 DEF Terminate, vars
<1>7. CASE Shutdown
  BY <1>7 DEF Shutdown
<1> QED
  BY <1>1, <1>2, <1>3, <1>4, <1>5, <1>6, <1>7 DEF Next

LEMMA NextExplicit ==
  ASSUME TypeOK, Explicit, [Next]_vars, ~shutdown'
  PROVE  Explicit'
<1> SUFFICES ASSUME NEW t \in Session
             PROVE  /\ phase'[t] \in {"stop", "drain", "exit", "closed", "done"} => explicit'[t]
                    /\ terminated'[t] = IF phase'[t] \in {"closed", "done"} THEN 1 ELSE 0
  BY DEF Explicit
<1> DEFINE Goal == /\ phase'[t] \in {"stop", "drain", "exit", "closed", "done"} => explicit'[t]
                   /\ terminated'[t] = IF phase'[t] \in {"closed", "done"} THEN 1 ELSE 0
<1>0. ~shutdown
  BY ShutdownStays
<1>1. ASSUME UNCHANGED <<phase, explicit, terminated>> PROVE Goal
  BY <1>1 DEF Explicit
<1>2. ASSUME NEW s \in Session, RunLoop(s) PROVE Goal
  <2>1. CASE RouteSessionClose(s)
    BY <2>1 DEF RouteSessionClose, Explicit, TypeOK, logVars
  <2>2. ASSUME NEW c \in Session, RouteSubagentResult(s, c) PROVE Goal
    BY <2>2 DEF RouteSubagentResult, Explicit, TypeOK
  <2>3. CASE HandleSubagentResult(s)
    BY <2>3 DEF HandleSubagentResult, Explicit, TypeOK
  <2> QED
    BY <1>1, <1>2, <2>1, <2>2, <2>3
    DEF RunLoop, StartTurn, FinishTurn, FailTurn, HardCeiling, RouteCancel,
        RetireCancelled, WaitTakesResult, runVars, logVars
<1>3. ASSUME NEW s \in Session, Teardown(s) PROVE Goal
  <2>1. CASE StopTurn(s)
    BY <2>1 DEF StopTurn, Explicit, TypeOK, logVars
  <2>2. ASSUME NEW c \in Session, DrainInbox(s, c) PROVE Goal
    BY <1>1, <2>2 DEF DrainInbox, runVars, logVars
  <2>3. CASE DrainDone(s)
    BY <2>3 DEF DrainDone, Explicit, TypeOK
  <2>4. CASE ExitWrite(s)
    BY <1>0, <2>4 DEF ExitWrite, Explicit, TypeOK
  <2>5. CASE RunReturn(s)
    BY <2>5 DEF RunReturn, Explicit, TypeOK, logVars
  <2> QED
    BY <1>0, <1>3, <2>1, <2>2, <2>3, <2>4, <2>5 DEF Teardown, GracefulStop
<1>4. ASSUME NEW p \in Session, NEW c \in Session, SpawnRegister(p, c) PROVE Goal
  BY <1>4 DEF SpawnRegister, Explicit, TypeOK, logVars
<1>5. ASSUME NEW c \in Child, SpawnStart(c) PROVE Goal
  BY <1>5 DEF SpawnStart, Explicit, TypeOK, Child, logVars
<1> QED
  BY <1>1, <1>2, <1>3, <1>4, <1>5
  DEF Next, PumpFrame, PumpEnd, DriverCancel, DriverFinish, RequestCancel, Terminate,
      Shutdown, vars, runVars, logVars

LEMMA NextResultsOfDone ==
  ASSUME TypeOK, TypeOK', RegisteredUntilDone, OneResultInv, ResultsOfDone,
         [Next]_vars, ~shutdown'
  PROVE  ResultsOfDone'
<1> DEFINE Waiting == \A s \in Session : phase'[s] # "drain" =>
                        \A c \in pending'[s] : phase[c] = "done"
           Logged  == \A c \in Child : logged'[c] > 0 => phase[c] = "done"
<1>0. ~shutdown /\ \A c \in Child : OneResult(c) /\ c \in Session
  BY ShutdownStays DEF OneResultInv, Child
<1>1. ASSUME Waiting, Logged PROVE ResultsOfDone'
  <2>1. \A c \in Child : phase[c] = "done" => phase'[c] = "done"
    BY <1>0, DoneStays
  <2> QED
    BY <1>1, <2>1 DEF ResultsOfDone, TypeOK
<1>2. ASSUME UNCHANGED pending,
             \A s \in Session : phase'[s] # "drain" => phase[s] # "drain"
      PROVE  Waiting
  BY <1>2 DEF ResultsOfDone
<1>3. ASSUME NEW C, C \cap Child \subseteq {d \in Child : phase[d] = "done"},
             logged' \in Persisted(C) \cup {logged}
      PROVE  Logged
  <2> SUFFICES ASSUME NEW c \in Child, logged'[c] > 0 PROVE phase[c] = "done"
    OBVIOUS
  <2>1. logged[c] \in Nat /\ (logged'[c] = logged[c] \/ (c \in C /\ logged'[c] = logged[c] + 1))
    BY <1>0, <1>3, PersistedBound DEF TypeOK
  <2> QED
    BY <1>3, <2>1 DEF ResultsOfDone
<1>4. ASSUME UNCHANGED <<pending, logged>>,
             \A s \in Session : phase'[s] # "drain" => phase[s] # "drain"
      PROVE  ResultsOfDone'
  BY <1>1, <1>2, <1>4 DEF ResultsOfDone
<1>5. ASSUME UNCHANGED <<phase, pending, logged>> PROVE ResultsOfDone'
  BY <1>4, <1>5
<1>6. ASSUME NEW s \in Session, RunLoop(s) PROVE ResultsOfDone'
  <2>1. CASE FinishTurn(s)
    <3>1. pending[s] \cap Child \subseteq {d \in Child : phase[d] = "done"}
      BY <2>1 DEF FinishTurn, ResultsOfDone
    <3>2. Waiting
      BY <2>1 DEF FinishTurn, ResultsOfDone, TypeOK
    <3> QED
      BY <1>1, <1>3, <2>1, <3>1, <3>2 DEF FinishTurn
  <2>2. ASSUME NEW c \in Session, RouteSubagentResult(s, c) PROVE ResultsOfDone'
    <3>1. CASE c \in children[s]
      BY <1>4, <2>2, <3>1 DEF RouteSubagentResult, TypeOK, logVars
    <3>2. CASE c \notin children[s]
      <4>1. c \in Child /\ Held(s, c)
        BY <2>2 DEF RouteSubagentResult, Held, TypeOK
      <4>2. c \in ChildrenOf(s) /\ phase[c] \notin {"unborn", "made"}
        BY <1>0, <4>1, HeldStarted
      <4>3. phase[c] = "done"
        BY <3>2, <4>1, <4>2 DEF RegisteredUntilDone, ChildrenOf
      <4>4. Waiting
        BY <2>2, <3>2, <4>3 DEF RouteSubagentResult, ResultsOfDone, TypeOK
      <4>5. logged' \in Persisted({c}) \cup {logged}
        BY <2>2, <3>2 DEF RouteSubagentResult
      <4> QED
        BY <1>1, <1>3, <4>3, <4>4, <4>5
    <3> QED
      BY <3>1, <3>2
  <2>3. CASE HandleSubagentResult(s)
    <3>1. phase[joining[s]] = "done"
      BY <1>0, <2>3 DEF HandleSubagentResult, Joined
    <3>2. Waiting
      BY <2>3, <3>1 DEF HandleSubagentResult, ResultsOfDone, TypeOK
    <3>3. logged' \in Persisted({joining[s]}) \cup {logged}
      BY <2>3 DEF HandleSubagentResult
    <3> QED
      BY <1>1, <1>3, <3>1, <3>2, <3>3
  <2>4. ASSUME NEW c \in Session, WaitTakesResult(s, c) PROVE ResultsOfDone'
    <3>1. phase[c] = "done"
      BY <2>4 DEF WaitTakesResult, ResultsOfDone
    <3>2. Waiting
      BY <2>4 DEF WaitTakesResult, ResultsOfDone, TypeOK, runVars
    <3> QED
      BY <1>1, <1>3, <2>4, <3>1, <3>2 DEF WaitTakesResult
  <2>5. CASE RouteSessionClose(s)
    BY <1>4, <2>5 DEF RouteSessionClose, TypeOK, logVars
  <2> QED
    BY <1>5, <1>6, <2>1, <2>2, <2>3, <2>4, <2>5
    DEF RunLoop, StartTurn, FailTurn, HardCeiling, RouteCancel, RetireCancelled,
        mailVars, logVars
<1>7. ASSUME NEW s \in Session, Teardown(s) PROVE ResultsOfDone'
  <2>1. CASE StopTurn(s)
    BY <1>4, <2>1 DEF StopTurn, TypeOK, logVars
  <2>2. ASSUME NEW c \in Session, DrainInbox(s, c) PROVE ResultsOfDone'
    BY <1>1, <2>2 DEF DrainInbox, ResultsOfDone, TypeOK, runVars, logVars
  <2>3. CASE DrainDone(s)
    <3> PICK K \in SUBSET results[s] :
          IF explicit[s] THEN logged' \in Persisted(pending[s] \cup K) ELSE UNCHANGED logged
      BY <2>3 DEF DrainDone
    <3>1. ASSUME NEW c \in (pending[s] \cup K) \cap Child PROVE phase[c] = "done"
      <4>1. c \in ChildrenOf(s) /\ phase[c] \notin {"unborn", "made"}
        BY <1>0, <3>1, HeldStarted DEF Held
      <4> QED
        BY <2>3, <4>1 DEF DrainDone, ChildGoroutines, Alive
    <3>2. Waiting
      BY <2>3 DEF DrainDone, ResultsOfDone, TypeOK
    <3>3. logged' \in Persisted(pending[s] \cup K) \cup {logged}
      OBVIOUS
    <3> QED
      BY <1>1, <1>3, <3>1, <3>2, <3>3
  <2>4. CASE ExitWrite(s)
    BY <1>4, <2>4 DEF ExitWrite, TypeOK, mailVars
  <2>5. CASE RunReturn(s)
    BY <1>4, <2>5 DEF RunReturn, TypeOK, mailVars, logVars
  <2> QED
    BY <1>0, <1>7, <2>1, <2>2, <2>3, <2>4, <2>5 DEF Teardown, GracefulStop
<1>8. ASSUME NEW p \in Session, NEW c \in Session, SpawnRegister(p, c) PROVE ResultsOfDone'
  BY <1>4, <1>8 DEF SpawnRegister, TypeOK, logVars
<1>9. ASSUME NEW c \in Child, SpawnStart(c) PROVE ResultsOfDone'
  BY <1>0, <1>4, <1>9 DEF SpawnStart, TypeOK, mailVars, logVars
<1> QED
  BY <1>5, <1>6, <1>7, <1>8, <1>9
  DEF Next, PumpFrame, PumpEnd, DriverCancel, DriverFinish, RequestCancel, Terminate,
      Shutdown, vars, runVars, mailVars, logVars

LEMMA EndHolds == Spec => []EndInv
<1>1. Init => EndInv
  BY DEF Init, EndInv, Explicit, ResultsOfDone, Child
<1>2. /\ TypeOK /\ TypeOK' /\ RegisteredUntilDone /\ OneResultInv
      /\ EndInv /\ [Next]_vars
      => EndInv'
  BY NextExplicit, NextResultsOfDone, ShutdownStays DEF EndInv
<1> QED
  BY <1>1, <1>2, TypeCorrect, ChildrenRegistered, OneResultHolds, PTL DEF Spec

(* In a running process a logged result means a finished child: a restart  *)
(* that skips the children with a result skips no live one.                *)
THEOREM RowAfterEnd == Spec => []ResultAfterTerminal
<1>1. EndInv => ResultAfterTerminal
  BY DEF EndInv, Explicit, ResultsOfDone, ResultAfterTerminal, Child
<1> QED
  BY <1>1, EndHolds, PTL

-----------------------------------------------------------------------------
(* The session tree implements TaskScope.                                  *)

(* A session seen from TaskScope changes only when it is registered and    *)
(* when it leaves drainOnTeardown.                                         *)
LEMMA StatusMoves ==
  ASSUME TypeOK, [Next]_vars,
         \A s \in Session : phase'[s] # phase[s] => phase[s] \notin {"unborn", "drain"}
  PROVE  ScopeStatus' = ScopeStatus
<1>1. CASE UNCHANGED phase
  BY <1>1 DEF ScopeStatus
<1>2. ASSUME NEW s \in Session, NEW q \in Phase, phase' = [phase EXCEPT ![s] = q], Move(s, q)
      PROVE  ScopeStatus' = ScopeStatus
  <2>1. \A t \in Session \ {s} : phase'[t] = phase[t]
    BY <1>2 DEF TypeOK
  <2>2. \/ phase[s] \in {"made", "run", "join", "stop"} /\ phase'[s] \in {"run", "join", "stop", "drain"}
        \/ phase[s] \in {"exit", "closed", "done"} /\ phase'[s] \in {"exit", "closed", "done"}
    BY <1>2 DEF Move, TypeOK
  <2> QED
    BY <2>1, <2>2 DEF ScopeStatus
<1> QED
  BY <1>1, <1>2, PhaseMoves

(* The rows a step of s adds are outcomes that TaskScope lets s enter.     *)
LEMMA NewRows ==
  ASSUME TypeOK, [Next]_vars, EndInv', UNCHANGED shutdown, NEW s \in Session,
         NEW C, C \cap Child \subseteq ChildrenOf(s), logged' \in Persisted(C) \cup {logged}
  PROVE  \E R \in SUBSET Scope!Reportable(s) : ScopeJournal' = ScopeJournal \cup R
<1> DEFINE R == ScopeJournal' \ ScopeJournal
<1>1. \A c \in Child : logged[c] \in Nat /\ (logged'[c] = logged[c]
                                             \/ (c \in C /\ logged'[c] = logged[c] + 1))
  BY PersistedBound DEF TypeOK, Child
<1>2. ScopeJournal' = ScopeJournal \cup R
  BY <1>1 DEF ScopeJournal
<1>3. ASSUME NEW u \in R PROVE u \in Scope!Reportable(s)
  <2>1. u \in Child /\ u \in Session /\ u \in ChildrenOf(s) /\ u \notin ScopeJournal
    BY <1>1, <1>3 DEF ScopeJournal, Child
  <2>2. ~shutdown => phase'[u] = "done"
    BY <1>3 DEF EndInv, ResultsOfDone, ScopeJournal
  <2>3. ~shutdown => phase[u] \in {"closed", "done"}
    BY <2>1, <2>2, PhaseMoves DEF Move, TypeOK
  <2>4. ~shutdown => ScopeStatus[u] = "ended"
    BY <2>1, <2>3 DEF ScopeStatus
  <2> QED
    BY <2>1, <2>4 DEF Scope!Reportable, Scope!Subtasks, ChildrenOf, Child
<1> QED
  BY <1>2, <1>3

LEMMA InitScope == Init => Scope!Init
<1> SUFFICES ASSUME Init PROVE Scope!Init
  OBVIOUS
<1>1. ScopeStatus = [s \in Session |-> IF s = Root THEN "open" ELSE "new"]
  BY DEF Init, ScopeStatus
<1>2. ScopeJournal = {}
  BY DEF Init, ScopeJournal, Child
<1> QED
  BY <1>1, <1>2 DEF Init, Scope!Init

LEMMA NextScope ==
  ASSUME Driven = {}, TypeOK, OneResultInv, SpawnsSettled, EndInv',
         [Next]_vars
  PROVE  [Scope!Next]_(Scope!vars)
<1> DEFINE Step == [Scope!Next]_(Scope!vars)
<1>0. \A c \in Child : OneResult(c) /\ c \in Session
  BY DEF OneResultInv, Child
<1>1. ASSUME UNCHANGED <<logged, shutdown>>,
             \A s \in Session : phase'[s] # phase[s] => phase[s] \notin {"unborn", "drain"}
      PROVE  Step
  <2>1. ScopeStatus' = ScopeStatus
    BY <1>1, StatusMoves
  <2>2. ScopeJournal' = ScopeJournal
    BY <1>1 DEF ScopeJournal
  <2> QED
    BY <1>1, <2>1, <2>2 DEF Scope!vars
<1>2. ASSUME NEW s \in Session, NEW C, C \cap Child \subseteq {c \in Child : Held(s, c)},
             logged' \in Persisted(C) \cup {logged}, UNCHANGED shutdown,
             ScopeStatus[s] = "open",
             \A t \in Session : phase'[t] # phase[t] => phase[t] \notin {"unborn", "drain"}
      PROVE  Step
  <2>1. C \cap Child \subseteq ChildrenOf(s)
    BY <1>0, <1>2, HeldStarted
  <2>2. PICK R \in SUBSET Scope!Reportable(s) : ScopeJournal' = ScopeJournal \cup R
    BY <1>2, <2>1, NewRows
  <2>3. ScopeStatus' = ScopeStatus
    BY <1>2, StatusMoves
  <2>4. R \in SUBSET Scope!Subtasks(s)
    BY DEF Scope!Reportable
  <2> QED
    BY <1>2, <2>2, <2>3, <2>4 DEF Scope!Next, Scope!Journal
<1>3. ASSUME NEW s \in Session, RunLoop(s) PROVE Step
  <2>0. phase[s] \in {"run", "join", "stop"} => ScopeStatus[s] = "open"
    BY DEF ScopeStatus
  <2>1. CASE FinishTurn(s)
    <3>1. pending[s] \cap Child \subseteq {c \in Child : Held(s, c)}
      BY DEF Held
    <3> QED
      BY <1>2, <2>0, <2>1, <3>1 DEF FinishTurn
  <2>2. ASSUME NEW c \in Session, RouteSubagentResult(s, c) PROVE Step
    <3>1. {c} \cap Child \subseteq {d \in Child : Held(s, d)}
      BY <2>2 DEF RouteSubagentResult, Held
    <3>2. logged' \in Persisted({c}) \cup {logged}
      BY <2>2 DEF RouteSubagentResult
    <3>3. \A t \in Session : phase'[t] # phase[t] => phase[t] \notin {"unborn", "drain"}
      BY <2>2 DEF RouteSubagentResult, TypeOK
    <3> QED
      BY <1>2, <2>0, <2>2, <3>1, <3>2, <3>3 DEF RouteSubagentResult
  <2>3. CASE HandleSubagentResult(s)
    <3>1. {joining[s]} \cap Child \subseteq {d \in Child : Held(s, d)}
      BY DEF Held
    <3>2. logged' \in Persisted({joining[s]}) \cup {logged}
      BY <2>3 DEF HandleSubagentResult
    <3>3. \A t \in Session : phase'[t] # phase[t] => phase[t] \notin {"unborn", "drain"}
      BY <2>3 DEF HandleSubagentResult, TypeOK
    <3> QED
      BY <1>2, <2>0, <2>3, <3>1, <3>2, <3>3 DEF HandleSubagentResult
  <2>4. ASSUME NEW c \in Session, WaitTakesResult(s, c) PROVE Step
    <3>1. {c} \cap Child \subseteq {d \in Child : Held(s, d)}
      BY <2>4 DEF WaitTakesResult, Held
    <3> QED
      BY <1>2, <2>0, <2>4, <3>1 DEF WaitTakesResult, runVars
  <2>5. CASE RouteSessionClose(s)
    BY <1>1, <2>5 DEF RouteSessionClose, TypeOK, logVars
  <2> QED
    BY <1>1, <1>3, <2>1, <2>2, <2>3, <2>4, <2>5
    DEF RunLoop, StartTurn, FailTurn, HardCeiling, RouteCancel, RetireCancelled, logVars
<1>4. ASSUME NEW s \in Session, DrainDone(s) PROVE Step
  <2> PICK K \in SUBSET results[s] :
        IF explicit[s] THEN logged' \in Persisted(pending[s] \cup K) ELSE UNCHANGED logged
    BY <1>4 DEF DrainDone
  <2>1. (pending[s] \cup K) \cap Child \subseteq {c \in Child : Held(s, c)}
    BY DEF Held
  <2>2. (pending[s] \cup K) \cap Child \subseteq ChildrenOf(s)
    BY <1>0, <2>1, HeldStarted
  <2>3. logged' \in Persisted(pending[s] \cup K) \cup {logged}
    OBVIOUS
  <2>4. PICK R \in SUBSET Scope!Reportable(s) : ScopeJournal' = ScopeJournal \cup R
    BY <1>4, <2>2, <2>3, NewRows DEF DrainDone
  <2>5. ScopeStatus[s] = "open"
    BY <1>4 DEF DrainDone, ScopeStatus
  <2>6. ScopeStatus' = [ScopeStatus EXCEPT ![s] = "ended"]
    <3>1. /\ phase'[s] \in {"exit", "closed"}
          /\ \A t \in Session \ {s} : phase'[t] = phase[t]
      BY <1>4 DEF DrainDone, TypeOK
    <3> QED
      BY <3>1 DEF ScopeStatus
  <2>7. \A u \in Scope!Subtasks(s) : ScopeStatus[u] # "open"
    <3> SUFFICES ASSUME NEW u \in Scope!Subtasks(s) PROVE ScopeStatus[u] # "open"
      OBVIOUS
    <3>1. u \in ChildrenOf(s) /\ u \in Session
      BY DEF Scope!Subtasks, ChildrenOf, Child
    <3>2. phase[u] \in {"unborn", "done"}
      BY <1>4, <3>1 DEF DrainDone, ChildGoroutines, Alive, SpawnsSettled
    <3> QED
      BY <3>1, <3>2 DEF ScopeStatus
  <2>8. R \in SUBSET Scope!Subtasks(s)
    BY DEF Scope!Reportable
  <2> QED
    BY <1>4, <2>4, <2>5, <2>6, <2>7, <2>8 DEF DrainDone, Scope!Next, Scope!End
<1>5. ASSUME NEW s \in Session, Teardown(s) PROVE Step
  <2>1. ASSUME NEW c \in Session, DrainInbox(s, c) PROVE Step
    BY <1>1, <2>1 DEF DrainInbox, runVars, logVars
  <2> QED
    BY <1>1, <1>4, <1>5, <2>1
    DEF Teardown, GracefulStop, StopTurn, ExitWrite, RunReturn, TypeOK, logVars
<1>6. ASSUME NEW p \in Session, NEW c \in Session, SpawnRegister(p, c) PROVE Step
  <2>1. c \in Child /\ ParentOf[c] = p
    BY <1>6 DEF SpawnRegister, ChildrenOf
  <2>2. ScopeStatus[c] = "new" /\ ScopeStatus[p] = "open"
    BY <1>6 DEF SpawnRegister, ScopeStatus
  <2>3. ScopeStatus' = [ScopeStatus EXCEPT ![c] = "open"]
    <3>1. phase'[c] = "made" /\ \A t \in Session \ {c} : phase'[t] = phase[t]
      BY <1>6 DEF SpawnRegister, TypeOK
    <3> QED
      BY <3>1 DEF ScopeStatus
  <2>4. ScopeJournal' = ScopeJournal
    BY <1>6 DEF SpawnRegister, ScopeJournal, logVars
  <2> QED
    BY <1>6, <2>1, <2>2, <2>3, <2>4 DEF SpawnRegister, Scope!Next, Scope!Open, Child
<1>7. ASSUME NEW c \in Child, SpawnStart(c) PROVE Step
  BY <1>1, <1>7 DEF SpawnStart, TypeOK, Child, logVars
<1>8. CASE Shutdown
  <2>1. ScopeStatus' = ScopeStatus /\ ScopeJournal' = ScopeJournal
    BY <1>8 DEF Shutdown, ScopeStatus, ScopeJournal, runVars, logVars
  <2> QED
    BY <1>8, <2>1 DEF Shutdown, Scope!Next, Scope!Interrupt
<1> QED
  BY <1>1, <1>3, <1>5, <1>6, <1>7, <1>8
  DEF Next, PumpFrame, PumpEnd, DriverCancel, DriverFinish, RequestCancel, Terminate,
      vars, runVars, logVars

(* A tree in which every spawn is a tool call of a turn is a scope: its    *)
(* sessions open, report and end as TaskScope says.                        *)
THEOREM TreeIsScope == ASSUME Driven = {} PROVE Spec => ImplementsScope
<1>1. Init => Scope!Init
  BY InitScope
<1>2. /\ TypeOK /\ OneResultInv /\ SpawnsSettled /\ EndInv'
      /\ [Next]_vars
      => [Scope!Next]_(Scope!vars)
  BY NextScope
<1> QED
  BY <1>1, <1>2, TypeCorrect, OneResultHolds, EndHolds, JoinedHolds, PTL
  DEF Spec, ImplementsScope, Scope!Spec

-----------------------------------------------------------------------------
(* What a scope guarantees to whoever relies on TaskScope alone.           *)

(* The status of a task is one of three, which Nested needs of EXCEPT.     *)
ScopeStatusOK == ScopeStatus \in [Session -> {"new", "open", "ended"}]

(* No step of a scope leaves a task open under one that is not: an end     *)
(* waits for the subtasks, and an opening needs an open parent.            *)
LEMMA ScopeNextNested ==
  ASSUME ScopeStatusOK, Scope!Nested, [Scope!Next]_(Scope!vars)
  PROVE  ScopeStatusOK' /\ Scope!Nested'
<1>0. ParentOf \in [Session \ {Root} -> Session]
  BY TreeAssumption DEF Child
<1>1. CASE UNCHANGED ScopeStatus
  BY <1>1 DEF ScopeStatusOK, Scope!Nested
<1>2. ASSUME NEW t \in Session, Scope!Open(t) PROVE ScopeStatusOK' /\ Scope!Nested'
  BY <1>0, <1>2 DEF Scope!Open, ScopeStatusOK, Scope!Nested
<1>3. ASSUME NEW t \in Session, NEW R, Scope!End(t, R)
      PROVE  ScopeStatusOK' /\ Scope!Nested'
  <2>1. \A u \in Session \ {Root} : ParentOf[u] = t => ScopeStatus[u] # "open"
    BY <1>3 DEF Scope!End, Scope!Subtasks
  <2> QED
    BY <1>0, <1>3, <2>1 DEF Scope!End, ScopeStatusOK, Scope!Nested
<1> QED
  BY <1>1, <1>2, <1>3 DEF Scope!Next, Scope!Journal, Scope!Interrupt, Scope!vars

(* No task is open under one that is not.                                  *)
THEOREM ScopesNest == Scope!Spec => []Scope!Nested
<1>1. Scope!Init => ScopeStatusOK /\ Scope!Nested
  BY DEF Scope!Init, ScopeStatusOK, Scope!Nested
<1>2. ScopeStatusOK /\ Scope!Nested /\ [Scope!Next]_(Scope!vars)
      => ScopeStatusOK' /\ Scope!Nested'
  BY ScopeNextNested
<1> QED
  BY <1>1, <1>2, PTL DEF Scope!Spec

(* So no session of the tree is between its registration and the end of    *)
(* its drainOnTeardown while its parent is not.                            *)
THEOREM LiveUnderLive == ASSUME Driven = {} PROVE Spec => []Scope!Nested
<1> QED
  BY TreeIsScope, ScopesNest, PTL DEF ImplementsScope
=============================================================================
