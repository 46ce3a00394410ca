---------------------------- MODULE Turn_proofs ----------------------------
(***************************************************************************)
(* Proofs about Turn, for every set of messages and results, every cap and *)
(* every number of crashes.  Each invariant has one step per action.       *)
(***************************************************************************)
EXTENDS Turn, TLAPS

USE TurnAssumption

(* A close turn that runs has an iteration left.                           *)
WrapLeft == life = "wrapup" => wrap >= 1

TypeInv == TypeOK /\ WrapLeft

LEMMA TypeStep ==
  ASSUME TypeInv, [Next]_vars PROVE TypeInv'
<1>1. CASE StartTurn
  <2>1. TurnTypes'
    BY <1>1 DEF TypeInv, TypeOK, TurnTypes, FrameTypes, SessionTypes, FlagTypes,
        WrapLeft, Frame, StartTurn, Materialise, NextIteration, RetireTurn,
        Tell, counters, turnVars, boxVars, logVars, pageVars, toldVars, memVars,
        endVars, ghostVars
  <2>2. FrameTypes'
    BY <1>1 DEF TypeInv, TypeOK, TurnTypes, FrameTypes, SessionTypes, FlagTypes,
        WrapLeft, Frame, StartTurn, Materialise, NextIteration, RetireTurn,
        Tell, counters, turnVars, boxVars, logVars, pageVars, toldVars, memVars,
        endVars, ghostVars
  <2>3. SessionTypes'
    BY <1>1 DEF TypeInv, TypeOK, TurnTypes, FrameTypes, SessionTypes, FlagTypes,
        WrapLeft, Reason, SkipReason, StartTurn, Materialise, NextIteration,
        RetireTurn, Tell, counters, turnVars, boxVars, logVars, pageVars,
        toldVars, memVars, endVars, ghostVars
  <2>4. WrapLeft'
    BY <1>1 DEF TypeInv, TypeOK, TurnTypes, FrameTypes, SessionTypes, FlagTypes,
        WrapLeft, StartTurn, Materialise, NextIteration, RetireTurn, Tell,
        counters, turnVars, boxVars, logVars, pageVars, toldVars, memVars,
        endVars, ghostVars
  <2>5. FlagTypes'
    <3>1. warned' \in BOOLEAN
      <4>1. CASE warned' = warned
        BY <4>1 DEF TypeInv, TypeOK, FlagTypes
      <4>2. CASE warned' = noted
        BY <4>2 DEF TypeInv, TypeOK, FlagTypes
      <4> QED BY <1>1, <4>1, <4>2 DEF StartTurn, Materialise, NextIteration,
          RetireTurn, Tell, counters, turnVars, boxVars, logVars, pageVars,
          toldVars, memVars, endVars, ghostVars
    <3> QED BY <1>1, <3>1 DEF TypeInv, TypeOK, FlagTypes, StartTurn,
        Materialise, NextIteration, RetireTurn, Tell, counters, turnVars,
        boxVars, logVars, pageVars, toldVars, memVars, endVars, ghostVars
  <2> QED BY <2>1, <2>2, <2>3, <2>4, <2>5 DEF TypeInv, TypeOK
<1>2. CASE GateBlocks
  BY <1>2 DEF TypeInv, TypeOK, TurnTypes, FrameTypes, SessionTypes, FlagTypes,
      WrapLeft, Frame, Reason, SkipReason, GateBlocks, InTurn, AtSelect,
      GateAsked, Over, NextIteration, counters, turnVars, boxVars, logVars,
      pageVars, toldVars, memVars, endVars, ghostVars
<1>3. CASE EmptyRetry
  BY <1>3 DEF TypeInv, TypeOK, TurnTypes, FrameTypes, SessionTypes, FlagTypes,
      WrapLeft, Frame, Reason, SkipReason, EmptyRetry, InTurn, AtSelect, Over,
      NextIteration, counters, turnVars, boxVars, logVars, pageVars, toldVars,
      memVars, endVars, ghostVars
<1>4. CASE CallTools
  BY <1>4 DEF TypeInv, TypeOK, TurnTypes, FrameTypes, SessionTypes, FlagTypes,
      WrapLeft, Frame, Reason, SkipReason, CallTools, InTurn, AtSelect, Over,
      counters, turnVars, boxVars, logVars, pageVars, toldVars, memVars,
      endVars, ghostVars
<1>5. CASE Finish
  <2>1. TurnTypes'
    BY <1>5 DEF TypeInv, TypeOK, TurnTypes, FrameTypes, SessionTypes, FlagTypes,
        WrapLeft, Frame, Finish, InTurn, AtSelect, Tell, Excuse, EmitAll,
        LogAll, RequestClose, counters, turnVars, boxVars, logVars, pageVars,
        toldVars, memVars, endVars, ghostVars
  <2>2. FrameTypes'
    BY <1>5 DEF TypeInv, TypeOK, TurnTypes, FrameTypes, SessionTypes, FlagTypes,
        WrapLeft, Frame, Finish, InTurn, AtSelect, Tell, Excuse, EmitAll,
        LogAll, RequestClose, counters, turnVars, boxVars, logVars, pageVars,
        toldVars, memVars, endVars, ghostVars
  <2>3. SessionTypes'
    BY <1>5 DEF TypeInv, TypeOK, TurnTypes, FrameTypes, SessionTypes, FlagTypes,
        WrapLeft, Reason, SkipReason, Finish, InTurn, AtSelect, Tell, Excuse,
        EmitAll, LogAll, RequestClose, counters, turnVars, boxVars, logVars,
        pageVars, toldVars, memVars, endVars, ghostVars
  <2>4. WrapLeft'
    BY <1>5 DEF TypeInv, TypeOK, TurnTypes, FrameTypes, SessionTypes, FlagTypes,
        WrapLeft, Finish, InTurn, AtSelect, Tell, Excuse, EmitAll, LogAll,
        RequestClose, counters, turnVars, boxVars, logVars, pageVars, toldVars,
        memVars, endVars, ghostVars
  <2>5. FlagTypes'
    BY <1>5 DEF TypeInv, TypeOK, FlagTypes, Finish, InTurn, AtSelect, Tell,
        Excuse, EmitAll, LogAll, RequestClose, counters, turnVars, boxVars,
        logVars, pageVars, toldVars, memVars, endVars, ghostVars
  <2> QED BY <2>1, <2>2, <2>3, <2>4, <2>5 DEF TypeInv, TypeOK
<1>6. CASE StreamError
  <2>1. TurnTypes'
    BY <1>6 DEF TypeInv, TypeOK, TurnTypes, FrameTypes, SessionTypes, FlagTypes,
        WrapLeft, Frame, StreamError, InTurn, AtSelect, RetireTurn, Tell,
        Excuse, counters, turnVars, boxVars, logVars, pageVars, toldVars,
        memVars, endVars, ghostVars
  <2>2. FrameTypes'
    BY <1>6 DEF TypeInv, TypeOK, TurnTypes, FrameTypes, SessionTypes, FlagTypes,
        WrapLeft, Frame, StreamError, InTurn, AtSelect, RetireTurn, Tell,
        Excuse, counters, turnVars, boxVars, logVars, pageVars, toldVars,
        memVars, endVars, ghostVars
  <2>3. SessionTypes'
    BY <1>6 DEF TypeInv, TypeOK, SessionTypes, FlagTypes, WrapLeft, Reason,
        SkipReason, StreamError, InTurn, AtSelect, RetireTurn, Tell, Excuse,
        counters, turnVars, boxVars, logVars, pageVars, toldVars, memVars,
        endVars, ghostVars
  <2>4. WrapLeft'
    BY <1>6 DEF TypeInv, TypeOK, SessionTypes, WrapLeft, StreamError, InTurn,
        AtSelect, RetireTurn, Tell, Excuse, counters, turnVars, boxVars,
        logVars, pageVars, toldVars, memVars, endVars, ghostVars
  <2>5. FlagTypes'
    BY <1>6 DEF TypeInv, TypeOK, FlagTypes, StreamError, InTurn, AtSelect,
        RetireTurn, Tell, Excuse, counters, turnVars, boxVars, logVars,
        pageVars, toldVars, memVars, endVars, ghostVars
  <2> QED BY <2>1, <2>2, <2>3, <2>4, <2>5 DEF TypeInv, TypeOK
<1>7. CASE HardCeilingHit
  <2>1. TurnTypes'
    BY <1>7 DEF TypeInv, TypeOK, TurnTypes, FrameTypes, SessionTypes, FlagTypes,
        WrapLeft, Frame, HardCeilingHit, InTools, AtSelect, RequestClose,
        RetireTurn, Excuse, counters, turnVars, boxVars, logVars, pageVars,
        toldVars, memVars, endVars, ghostVars
  <2>2. FrameTypes'
    BY <1>7 DEF TypeInv, TypeOK, TurnTypes, FrameTypes, SessionTypes, FlagTypes,
        WrapLeft, Frame, HardCeilingHit, InTools, AtSelect, RequestClose,
        RetireTurn, Excuse, counters, turnVars, boxVars, logVars, pageVars,
        toldVars, memVars, endVars, ghostVars
  <2>3. SessionTypes'
    BY <1>7 DEF TypeInv, TypeOK, SessionTypes, FlagTypes, WrapLeft, Reason,
        SkipReason, HardCeilingHit, InTools, AtSelect, RequestClose, RetireTurn,
        Excuse, counters, turnVars, boxVars, logVars, pageVars, toldVars,
        memVars, endVars, ghostVars
  <2>4. WrapLeft'
    BY <1>7 DEF TypeInv, TypeOK, SessionTypes, WrapLeft, HardCeilingHit,
        InTools, AtSelect, RequestClose, RetireTurn, Excuse, counters, turnVars,
        boxVars, logVars, pageVars, toldVars, memVars, endVars, ghostVars
  <2>5. FlagTypes'
    BY <1>7 DEF TypeInv, TypeOK, FlagTypes, HardCeilingHit, InTools, AtSelect,
        RequestClose, RetireTurn, Excuse, counters, turnVars, boxVars, logVars,
        pageVars, toldVars, memVars, endVars, ghostVars
  <2> QED BY <2>1, <2>2, <2>3, <2>4, <2>5 DEF TypeInv, TypeOK
<1>8. CASE Advance
  <2>1. TurnTypes'
    BY <1>8 DEF TypeInv, TypeOK, TurnTypes, FrameTypes, SessionTypes, FlagTypes,
        WrapLeft, Frame, Advance, InTools, AtSelect, EmitAll, LogAll,
        NextIteration, counters, turnVars, boxVars, logVars, pageVars, toldVars,
        memVars, endVars, ghostVars
  <2>2. FrameTypes'
    BY <1>8 DEF TypeInv, TypeOK, TurnTypes, FrameTypes, SessionTypes, FlagTypes,
        WrapLeft, Frame, Advance, InTools, AtSelect, EmitAll, LogAll,
        NextIteration, counters, turnVars, boxVars, logVars, pageVars, toldVars,
        memVars, endVars, ghostVars
  <2>3. SessionTypes'
    BY <1>8 DEF TypeInv, TypeOK, TurnTypes, FrameTypes, SessionTypes, FlagTypes,
        WrapLeft, Reason, SkipReason, Advance, InTools, AtSelect, EmitAll,
        LogAll, NextIteration, counters, turnVars, boxVars, logVars, pageVars,
        toldVars, memVars, endVars, ghostVars
  <2>4. WrapLeft'
    BY <1>8 DEF TypeInv, TypeOK, TurnTypes, FrameTypes, SessionTypes, FlagTypes,
        WrapLeft, Advance, InTools, AtSelect, EmitAll, LogAll, NextIteration,
        counters, turnVars, boxVars, logVars, pageVars, toldVars, memVars,
        endVars, ghostVars
  <2>5. FlagTypes'
    BY <1>8 DEF TypeInv, TypeOK, FlagTypes, Advance, InTools, AtSelect, EmitAll,
        LogAll, NextIteration, counters, turnVars, boxVars, logVars, pageVars,
        toldVars, memVars, endVars, ghostVars
  <2> QED BY <2>1, <2>2, <2>3, <2>4, <2>5 DEF TypeInv, TypeOK
<1>9. CASE Cancel
  BY <1>9 DEF TypeInv, TypeOK, TurnTypes, FrameTypes, SessionTypes, FlagTypes,
      WrapLeft, Frame, Reason, SkipReason, Cancel, InTurn, AtSelect, counters,
      turnVars, boxVars, logVars, pageVars, toldVars, memVars, endVars,
      ghostVars
<1>10. CASE Abort
  <2>1. TurnTypes'
    BY <1>10 DEF TypeInv, TypeOK, TurnTypes, FrameTypes, SessionTypes,
        FlagTypes, WrapLeft, Frame, Abort, InTurn, AtSelect, RetireTurn, Excuse,
        counters, turnVars, boxVars, logVars, pageVars, toldVars, memVars,
        endVars, ghostVars
  <2>2. FrameTypes'
    BY <1>10 DEF TypeInv, TypeOK, TurnTypes, FrameTypes, SessionTypes,
        FlagTypes, WrapLeft, Frame, Abort, InTurn, AtSelect, RetireTurn, Excuse,
        counters, turnVars, boxVars, logVars, pageVars, toldVars, memVars,
        endVars, ghostVars
  <2>3. SessionTypes'
    BY <1>10 DEF TypeInv, TypeOK, SessionTypes, FlagTypes, WrapLeft, Reason,
        SkipReason, Abort, InTurn, AtSelect, RetireTurn, Excuse, counters,
        turnVars, boxVars, logVars, pageVars, toldVars, memVars, endVars,
        ghostVars
  <2>4. WrapLeft'
    BY <1>10 DEF TypeInv, TypeOK, SessionTypes, WrapLeft, Abort, InTurn,
        AtSelect, RetireTurn, Excuse, counters, turnVars, boxVars, logVars,
        pageVars, toldVars, memVars, endVars, ghostVars
  <2>5. FlagTypes'
    BY <1>10 DEF TypeInv, TypeOK, FlagTypes, Abort, InTurn, AtSelect,
        RetireTurn, Excuse, counters, turnVars, boxVars, logVars, pageVars,
        toldVars, memVars, endVars, ghostVars
  <2> QED BY <2>1, <2>2, <2>3, <2>4, <2>5 DEF TypeInv, TypeOK
<1>11. CASE End
  BY <1>11 DEF TypeInv, TypeOK, TurnTypes, FrameTypes, SessionTypes, FlagTypes,
      WrapLeft, Frame, Reason, SkipReason, End, AtSelect, RequestClose,
      counters, turnVars, boxVars, logVars, pageVars, toldVars, memVars,
      endVars, ghostVars
<1>12. CASE WrapUp
  <2>1. TurnTypes'
    BY <1>12 DEF TypeInv, TypeOK, TurnTypes, FrameTypes, SessionTypes,
        FlagTypes, WrapLeft, Frame, WrapUp, Materialise, WrapMore, counters,
        turnVars, boxVars, logVars, pageVars, toldVars, memVars, endVars,
        ghostVars
  <2>2. FrameTypes'
    BY <1>12 DEF TypeInv, TypeOK, TurnTypes, FrameTypes, SessionTypes,
        FlagTypes, WrapLeft, Frame, WrapUp, Materialise, WrapMore, counters,
        turnVars, boxVars, logVars, pageVars, toldVars, memVars, endVars,
        ghostVars
  <2>3. SessionTypes'
    BY <1>12 DEF TypeInv, TypeOK, TurnTypes, FrameTypes, SessionTypes,
        FlagTypes, WrapLeft, Reason, SkipReason, WrapUp, Materialise, WrapMore,
        counters, turnVars, boxVars, logVars, pageVars, toldVars, memVars,
        endVars, ghostVars
  <2>4. WrapLeft'
    BY <1>12 DEF TypeInv, TypeOK, TurnTypes, FrameTypes, SessionTypes,
        FlagTypes, WrapLeft, WrapUp, Materialise, WrapMore, counters, turnVars,
        boxVars, logVars, pageVars, toldVars, memVars, endVars, ghostVars
  <2>5. FlagTypes'
    <3>1. warned' \in BOOLEAN
      <4>1. CASE warned' = warned
        BY <4>1 DEF TypeInv, TypeOK, FlagTypes
      <4>2. CASE warned' = noted
        BY <4>2 DEF TypeInv, TypeOK, FlagTypes
      <4> QED BY <1>12, <4>1, <4>2 DEF WrapUp, Materialise, WrapMore, counters,
          turnVars, boxVars, logVars, pageVars, toldVars, memVars, endVars,
          ghostVars
    <3> QED BY <1>12, <3>1 DEF TypeInv, TypeOK, FlagTypes, WrapUp, Materialise,
        WrapMore, counters, turnVars, boxVars, logVars, pageVars, toldVars,
        memVars, endVars, ghostVars
  <2> QED BY <2>1, <2>2, <2>3, <2>4, <2>5 DEF TypeInv, TypeOK
<1>13. CASE Exit
  <2>1. TurnTypes'
    BY <1>13 DEF TypeInv, TypeOK, TurnTypes, FrameTypes, SessionTypes,
        FlagTypes, WrapLeft, Frame, Exit, LogAll, RetireTurn, Excuse, Tell,
        counters, turnVars, boxVars, logVars, pageVars, toldVars, memVars,
        endVars, ghostVars
  <2>2. FrameTypes'
    BY <1>13 DEF TypeInv, TypeOK, TurnTypes, FrameTypes, SessionTypes,
        FlagTypes, WrapLeft, Frame, Exit, LogAll, RetireTurn, Excuse, Tell,
        counters, turnVars, boxVars, logVars, pageVars, toldVars, memVars,
        endVars, ghostVars
  <2>3. SessionTypes'
    BY <1>13 DEF TypeInv, TypeOK, TurnTypes, FrameTypes, SessionTypes,
        FlagTypes, WrapLeft, Reason, SkipReason, Exit, LogAll, RetireTurn,
        Excuse, Tell, counters, turnVars, boxVars, logVars, pageVars, toldVars,
        memVars, endVars, ghostVars
  <2>4. WrapLeft'
    BY <1>13 DEF TypeInv, TypeOK, TurnTypes, FrameTypes, SessionTypes,
        FlagTypes, WrapLeft, Exit, LogAll, RetireTurn, Excuse, Tell, counters,
        turnVars, boxVars, logVars, pageVars, toldVars, memVars, endVars,
        ghostVars
  <2>5. FlagTypes'
    BY <1>13 DEF TypeInv, TypeOK, FlagTypes, Exit, LogAll, RetireTurn, Excuse,
        Tell, counters, turnVars, boxVars, logVars, pageVars, toldVars, memVars,
        endVars, ghostVars
  <2> QED BY <2>1, <2>2, <2>3, <2>4, <2>5 DEF TypeInv, TypeOK
<1>14. CASE Crash
  <2>1. TurnTypes'
    BY <1>14 DEF TypeInv, TypeOK, TurnTypes, FrameTypes, SessionTypes,
        FlagTypes, WrapLeft, Frame, Crash, RetireTurn, counters, turnVars,
        boxVars, logVars, pageVars, toldVars, memVars, endVars, ghostVars
  <2>2. FrameTypes'
    BY <1>14 DEF TypeInv, TypeOK, TurnTypes, FrameTypes, SessionTypes,
        FlagTypes, WrapLeft, Frame, Crash, RetireTurn, counters, turnVars,
        boxVars, logVars, pageVars, toldVars, memVars, endVars, ghostVars
  <2>3. SessionTypes'
    BY <1>14 DEF TypeInv, TypeOK, TurnTypes, FrameTypes, SessionTypes,
        FlagTypes, WrapLeft, Reason, SkipReason, Crash, RetireTurn, counters,
        turnVars, boxVars, logVars, pageVars, toldVars, memVars, endVars,
        ghostVars
  <2>4. WrapLeft'
    BY <1>14 DEF TypeInv, TypeOK, TurnTypes, FrameTypes, SessionTypes,
        FlagTypes, WrapLeft, Crash, RetireTurn, counters, turnVars, boxVars,
        logVars, pageVars, toldVars, memVars, endVars, ghostVars
  <2>5. FlagTypes'
    BY <1>14 DEF TypeInv, TypeOK, FlagTypes, Crash, RetireTurn, counters,
        turnVars, boxVars, logVars, pageVars, toldVars, memVars, endVars,
        ghostVars
  <2> QED BY <2>1, <2>2, <2>3, <2>4, <2>5 DEF TypeInv, TypeOK
<1>15. ASSUME NEW m \in Msg, RouteMessage(m) PROVE TypeInv'
  <2>1. TurnTypes'
    BY <1>15 DEF TypeInv, TypeOK, TurnTypes, SessionTypes, FlagTypes, WrapLeft,
        RouteMessage, AtSelect, EmitAll, LogAll, counters, turnVars, boxVars,
        logVars, pageVars, toldVars, memVars, endVars, ghostVars
  <2>2. FrameTypes'
    BY <1>15 DEF TypeInv, TypeOK, FrameTypes, Frame, TurnTypes, SessionTypes,
        FlagTypes, RouteMessage, AtSelect, EmitAll, LogAll, counters, turnVars,
        boxVars, logVars, pageVars, toldVars, memVars, endVars, ghostVars
  <2>3. SessionTypes'
    BY <1>15 DEF TypeInv, TypeOK, TurnTypes, SessionTypes, FlagTypes, Reason,
        SkipReason, RouteMessage, AtSelect, EmitAll, LogAll, counters, turnVars,
        boxVars, logVars, pageVars, toldVars, memVars, endVars, ghostVars
  <2>4. WrapLeft'
    BY <1>15 DEF TypeInv, TypeOK, TurnTypes, SessionTypes, FlagTypes, WrapLeft,
        RouteMessage, AtSelect, EmitAll, LogAll, counters, turnVars, boxVars,
        logVars, pageVars, toldVars, memVars, endVars, ghostVars
  <2>5. FlagTypes'
    BY <1>15 DEF TypeInv, TypeOK, FlagTypes, RouteMessage, AtSelect, EmitAll,
        LogAll, counters, turnVars, boxVars, logVars, pageVars, toldVars,
        memVars, endVars, ghostVars
  <2> QED BY <2>1, <2>2, <2>3, <2>4, <2>5 DEF TypeInv, TypeOK
<1>16. ASSUME NEW r \in Ref, RouteResult(r) PROVE TypeInv'
  <2>1. TurnTypes'
    BY <1>16 DEF TypeInv, TypeOK, TurnTypes, SessionTypes, FlagTypes, WrapLeft,
        RouteResult, AtSelect, EmitAll, LogAll, Arm, counters, turnVars,
        boxVars, logVars, pageVars, toldVars, memVars, endVars, ghostVars
  <2>2. FrameTypes'
    BY <1>16 DEF TypeInv, TypeOK, FrameTypes, Frame, TurnTypes, SessionTypes,
        FlagTypes, RouteResult, AtSelect, EmitAll, LogAll, Arm, counters,
        turnVars, boxVars, logVars, pageVars, toldVars, memVars, endVars,
        ghostVars
  <2>3. SessionTypes'
    BY <1>16 DEF TypeInv, TypeOK, TurnTypes, SessionTypes, FlagTypes, Reason,
        SkipReason, RouteResult, AtSelect, EmitAll, LogAll, Arm, counters,
        turnVars, boxVars, logVars, pageVars, toldVars, memVars, endVars,
        ghostVars
  <2>4. WrapLeft'
    BY <1>16 DEF TypeInv, TypeOK, TurnTypes, SessionTypes, FlagTypes, WrapLeft,
        RouteResult, AtSelect, EmitAll, LogAll, Arm, counters, turnVars,
        boxVars, logVars, pageVars, toldVars, memVars, endVars, ghostVars
  <2>5. FlagTypes'
    BY <1>16 DEF TypeInv, TypeOK, FlagTypes, RouteResult, AtSelect, EmitAll,
        LogAll, Arm, counters, turnVars, boxVars, logVars, pageVars, toldVars,
        memVars, endVars, ghostVars
  <2> QED BY <2>1, <2>2, <2>3, <2>4, <2>5 DEF TypeInv, TypeOK
<1>17. ASSUME NEW reason \in Reason, ParentCloses(reason) PROVE TypeInv'
  BY <1>17 DEF TypeInv, TypeOK, TurnTypes, FrameTypes, SessionTypes, FlagTypes,
      WrapLeft, Frame, Reason, SkipReason, ParentCloses, counters, turnVars,
      boxVars, logVars, pageVars, toldVars, memVars, endVars, ghostVars
<1>18. ASSUME NEW reason \in Reason, RouteClose(reason) PROVE TypeInv'
  BY <1>18 DEF TypeInv, TypeOK, TurnTypes, FrameTypes, SessionTypes, FlagTypes,
      WrapLeft, Frame, Reason, SkipReason, RouteClose, AtSelect, counters,
      turnVars, boxVars, logVars, pageVars, toldVars, memVars, endVars,
      ghostVars
<1>19. ASSUME NEW f \in Frame, DrainLate(f) PROVE TypeInv'
  BY <1>19 DEF TypeInv, TypeOK, TurnTypes, FrameTypes, SessionTypes, FlagTypes,
      WrapLeft, Frame, Reason, SkipReason, DrainLate, counters, turnVars,
      boxVars, logVars, pageVars, toldVars, memVars, endVars, ghostVars
<1>21. CASE FillPage
  BY <1>21 DEF TypeInv, TypeOK, TurnTypes, FrameTypes, SessionTypes, FlagTypes,
      WrapLeft, Frame, Reason, SkipReason, FillPage, counters, turnVars,
      boxVars, memVars, endVars, toldVars, ghostVars
<1>20. CASE UNCHANGED vars
  BY <1>20 DEF TypeInv, TypeOK, TurnTypes, FrameTypes, SessionTypes, FlagTypes,
      WrapLeft, Frame, Reason, SkipReason, vars, counters, turnVars, boxVars,
      logVars, pageVars, toldVars, memVars, endVars, ghostVars
<1> QED BY <1>1, <1>2, <1>3, <1>4, <1>5, <1>6, <1>7, <1>8, <1>9, <1>10, <1>11,
    <1>12, <1>13, <1>14, <1>15, <1>16, <1>17, <1>18, <1>19, <1>20, <1>21 DEF
    Next, ModelReplies, ToolsEnd

LEMMA InitTypes == Init => TypeInv
<1>1. Init => TurnTypes
  BY DEF Init, TurnTypes, Frame
<1>2. Init => FrameTypes
  BY DEF Init, FrameTypes, Frame
<1>3. Init => SessionTypes
  BY DEF Init, SessionTypes, Reason, SkipReason
<1>4. Init => WrapLeft
  BY DEF Init, WrapLeft
<1>5. Init => FlagTypes
  BY DEF Init, FlagTypes
<1> QED BY <1>1, <1>2, <1>3, <1>4, <1>5 DEF TypeInv, TypeOK

LEMMA TypesHold == Spec => []TypeInv
<1>1. Init => TypeInv
  BY InitTypes
<1>2. TypeInv /\ [Next]_vars => TypeInv'
  BY TypeStep
<1> QED BY <1>1, <1>2, PTL DEF Spec

(* The type invariant: among others, the close turn never exceeds its      *)
(* number of iterations.                                                   *)
THEOREM TypeCorrect == Spec => []TypeOK
<1>1. TypeInv => TypeOK
  BY DEF TypeInv
<1> QED BY <1>1, TypesHold, PTL

-----------------------------------------------------------------------------
(* The counters of a turn add up to its model calls, each below its bound; *)
(* a session that has read its log knows of a warning in the page, and one *)
(* that warns a second time has the row of the first one past it.          *)
Counters ==
  /\ stage \in {"idle", "starting"}
       => iter = 0 /\ gates = 0 /\ empties = 0 /\ calls = 0
  /\ stage \in {"model", "tools", "waits"} =>
       /\ calls = 1 + iter + gates + empties
       /\ iter < HardCeiling /\ gates <= MaxGate /\ empties <= MaxEmpty
       /\ loaded

Warnings ==
  /\ loaded /\ noted => warned
  /\ warned => loaded
  /\ warnings > 0 => noted \/ full
  /\ warnings > 1 => full /\ ~noted
  /\ warnings <= 1 + crashes
  /\ ~warned => warnings <= crashes

Budgets == Counters /\ Warnings

LEMMA BudgetStep ==
  ASSUME TypeInv, TypeInv', Budgets, [Next]_vars PROVE Budgets'
<1>1. CASE StartTurn
  <2>1. Counters'
    <3>1. loaded' = TRUE
      BY <1>1 DEF StartTurn, Materialise
    <3>2. iter = 0 /\ gates = 0 /\ empties = 0 /\ calls = 0
      BY <1>1 DEF StartTurn, Budgets, Counters
    <3>3. \/ /\ stage' = "model" /\ calls' = 1
             /\ iter' = 0 /\ gates' = 0 /\ empties' = 0
          \/ /\ stage' = "idle" /\ calls' = 0
             /\ iter' = 0 /\ gates' = 0 /\ empties' = 0
      BY <1>1, <3>2 DEF StartTurn, NextIteration, RetireTurn
    <3> QED BY <3>1, <3>3 DEF Counters
  <2>2. Warnings'
    <3>1. UNCHANGED <<warnings, noted, full, crashes>> /\ loaded' = TRUE
      BY <1>1 DEF StartTurn, Materialise, logVars, pageVars
    <3>2. CASE loaded
      <4>1. UNCHANGED warned
        BY <1>1, <3>2 DEF StartTurn, Materialise
      <4> QED BY <3>1, <3>2, <4>1 DEF Budgets, Warnings
    <3>3. CASE ~loaded
      <4>1. warned' = noted
        BY <1>1, <3>3 DEF StartTurn, Materialise
      <4>2. ~warned
        BY <3>3 DEF Budgets, Warnings
      <4> QED BY <3>1, <4>1, <4>2 DEF TypeInv, TypeOK, SessionTypes, FlagTypes,
          Budgets, Warnings
    <3> QED BY <3>2, <3>3
  <2> QED BY <2>1, <2>2 DEF Budgets
<1>2. CASE GateBlocks
  BY <1>2 DEF TypeInv, TypeOK, TurnTypes, SessionTypes, FlagTypes, Budgets,
      Counters, Warnings, GateBlocks, InTurn, AtSelect, GateAsked, Over,
      NextIteration, counters, turnVars, boxVars, logVars, pageVars, toldVars,
      memVars, endVars, ghostVars
<1>3. CASE EmptyRetry
  BY <1>3 DEF TypeInv, TypeOK, TurnTypes, SessionTypes, FlagTypes, Budgets,
      Counters, Warnings, EmptyRetry, InTurn, AtSelect, Over, NextIteration,
      counters, turnVars, boxVars, logVars, pageVars, toldVars, memVars,
      endVars, ghostVars
<1>4. CASE CallTools
  BY <1>4 DEF TypeInv, TypeOK, TurnTypes, SessionTypes, FlagTypes, Budgets,
      Counters, Warnings, CallTools, InTurn, AtSelect, Over, counters, turnVars,
      boxVars, logVars, pageVars, toldVars, memVars, endVars, ghostVars
<1>5. CASE Finish
  BY <1>5 DEF TypeInv, TypeOK, TurnTypes, SessionTypes, FlagTypes, Budgets,
      Counters, Warnings, Finish, InTurn, AtSelect, Tell, Excuse, EmitAll,
      LogAll, RequestClose, counters, turnVars, boxVars, logVars, pageVars,
      toldVars, memVars, endVars, ghostVars
<1>6. CASE StreamError
  BY <1>6 DEF TypeInv, TypeOK, TurnTypes, SessionTypes, FlagTypes, Budgets,
      Counters, Warnings, StreamError, InTurn, AtSelect, RetireTurn, Tell,
      Excuse, counters, turnVars, boxVars, logVars, pageVars, toldVars, memVars,
      endVars, ghostVars
<1>7. CASE HardCeilingHit
  BY <1>7 DEF TypeInv, TypeOK, TurnTypes, SessionTypes, FlagTypes, Budgets,
      Counters, Warnings, HardCeilingHit, InTools, AtSelect, RequestClose,
      RetireTurn, Excuse, counters, turnVars, boxVars, logVars, pageVars,
      toldVars, memVars, endVars, ghostVars
<1>8. CASE Advance
  BY <1>8 DEF TypeInv, TypeOK, TurnTypes, SessionTypes, FlagTypes, Budgets,
      Counters, Warnings, Advance, InTools, AtSelect, EmitAll, LogAll,
      NextIteration, counters, turnVars, boxVars, logVars, pageVars, toldVars,
      memVars, endVars, ghostVars
<1>9. CASE Cancel
  BY <1>9 DEF TypeInv, TypeOK, TurnTypes, SessionTypes, FlagTypes, Budgets,
      Counters, Warnings, Cancel, InTurn, AtSelect, counters, turnVars, boxVars,
      logVars, pageVars, toldVars, memVars, endVars, ghostVars
<1>10. CASE Abort
  BY <1>10 DEF TypeInv, TypeOK, TurnTypes, SessionTypes, FlagTypes, Budgets,
      Counters, Warnings, Abort, InTurn, AtSelect, RetireTurn, Excuse, counters,
      turnVars, boxVars, logVars, pageVars, toldVars, memVars, endVars,
      ghostVars
<1>11. CASE End
  BY <1>11 DEF TypeInv, TypeOK, TurnTypes, SessionTypes, FlagTypes, Budgets,
      Counters, Warnings, End, AtSelect, RequestClose, counters, turnVars,
      boxVars, logVars, pageVars, toldVars, memVars, endVars, ghostVars
<1>12. CASE WrapUp
  BY <1>12 DEF TypeInv, TypeOK, TurnTypes, SessionTypes, FlagTypes, Budgets,
      Counters, Warnings, WrapUp, Materialise, WrapMore, counters, turnVars,
      boxVars, logVars, pageVars, toldVars, memVars, endVars, ghostVars
<1>13. CASE Exit
  BY <1>13 DEF TypeInv, TypeOK, TurnTypes, SessionTypes, FlagTypes, Budgets,
      Counters, Warnings, Exit, LogAll, RetireTurn, Excuse, Tell, counters,
      turnVars, boxVars, logVars, pageVars, toldVars, memVars, endVars,
      ghostVars
<1>14. CASE Crash
  BY <1>14 DEF TypeInv, TypeOK, TurnTypes, SessionTypes, FlagTypes, Budgets,
      Counters, Warnings, Crash, RetireTurn, counters, turnVars, boxVars,
      logVars, pageVars, toldVars, memVars, endVars, ghostVars
<1>15. ASSUME NEW m \in Msg, RouteMessage(m) PROVE Budgets'
  BY <1>15 DEF TypeInv, TypeOK, TurnTypes, SessionTypes, FlagTypes, Budgets,
      Counters, Warnings, RouteMessage, AtSelect, EmitAll, LogAll, counters,
      turnVars, boxVars, logVars, pageVars, toldVars, memVars, endVars,
      ghostVars
<1>16. ASSUME NEW r \in Ref, RouteResult(r) PROVE Budgets'
  BY <1>16 DEF TypeInv, TypeOK, TurnTypes, SessionTypes, FlagTypes, Budgets,
      Counters, Warnings, RouteResult, AtSelect, EmitAll, LogAll, Arm, counters,
      turnVars, boxVars, logVars, pageVars, toldVars, memVars, endVars,
      ghostVars
<1>17. ASSUME NEW reason \in Reason, ParentCloses(reason) PROVE Budgets'
  BY <1>17 DEF TypeInv, TypeOK, TurnTypes, SessionTypes, FlagTypes, Budgets,
      Counters, Warnings, ParentCloses, counters, turnVars, boxVars, logVars,
      pageVars, toldVars, memVars, endVars, ghostVars
<1>18. ASSUME NEW reason \in Reason, RouteClose(reason) PROVE Budgets'
  BY <1>18 DEF TypeInv, TypeOK, TurnTypes, SessionTypes, FlagTypes, Budgets,
      Counters, Warnings, RouteClose, AtSelect, counters, turnVars, boxVars,
      logVars, pageVars, toldVars, memVars, endVars, ghostVars
<1>19. ASSUME NEW f \in Frame, DrainLate(f) PROVE Budgets'
  BY <1>19 DEF TypeInv, TypeOK, TurnTypes, SessionTypes, FlagTypes, Budgets,
      Counters, Warnings, DrainLate, counters, turnVars, boxVars, logVars,
      pageVars, toldVars, memVars, endVars, ghostVars
<1>21. CASE FillPage
  BY <1>21 DEF TypeInv, TypeOK, TurnTypes, SessionTypes, FlagTypes, Budgets,
      Counters, Warnings, FillPage, counters, turnVars, boxVars, memVars,
      endVars, toldVars, ghostVars
<1>20. CASE UNCHANGED vars
  BY <1>20 DEF TypeInv, TypeOK, TurnTypes, SessionTypes, FlagTypes, Budgets,
      Counters, Warnings, vars, counters, turnVars, boxVars, logVars, pageVars,
      toldVars, memVars, endVars, ghostVars
<1> QED BY <1>1, <1>2, <1>3, <1>4, <1>5, <1>6, <1>7, <1>8, <1>9, <1>10, <1>11,
    <1>12, <1>13, <1>14, <1>15, <1>16, <1>17, <1>18, <1>19, <1>20, <1>21 DEF
    Next, ModelReplies, ToolsEnd

(* Every turn of every session keeps to its budgets (advanceOrFinish), and *)
(* the soft warning is given once by a process, and once in the life of a  *)
(* session unless its row lies past the page that materialise reads.       *)
THEOREM TurnsAreBounded == Spec => []BudgetsKept
<1>1. Init => Budgets
  BY DEF Init, Budgets, Counters, Warnings
<1>2. TypeInv /\ TypeInv' /\ Budgets /\ [Next]_vars => Budgets'
  BY BudgetStep
<1>3. TypeInv /\ Budgets => BudgetsKept
  BY DEF TypeInv, TypeOK, TurnTypes, SessionTypes, Budgets, Counters, Warnings,
      BudgetsKept
<1> QED BY <1>1, <1>2, <1>3, TypesHold, PTL DEF Spec

-----------------------------------------------------------------------------
(* Where a result is that has no answer yet: in the prompt of the turn, or *)
(* where the summary turn that is asked for will find it.                  *)
Settled == answered \cup excused

Owed ==
  life = "up" =>
    /\ stage = "idle" /\ ~closing => arrived \cap Ref \subseteq Settled
    /\ stage = "starting" => arrived \cap Ref \subseteq Settled \cup hist
    /\ stage \in {"model", "tools", "waits"} =>
         /\ arrived \cap Ref \subseteq Settled \cup prompt \cup hist \cup buffered
         /\ ~armed => arrived \cap Ref \subseteq Settled \cup prompt
         /\ carried \subseteq Settled \cup prompt

Shown ==
  /\ hist \subseteq logged /\ paged \subseteq logged /\ refs \subseteq arrived
  /\ life = "up" => prompt \subseteq hist
  /\ stage = "starting" => ~closing
  /\ credited \subseteq Settled

Kept ==
  /\ crashes = 0 => arrived \subseteq logged \cup buffered
  /\ life = "down" => buffered = {}

Accounts == Owed /\ Shown /\ Kept

LEMMA AccountsStep ==
  ASSUME TypeInv, TypeInv', Accounts, [Next]_vars PROVE Accounts'
<1>1. CASE StartTurn
  BY <1>1 DEF TypeInv, TypeOK, TurnTypes, FrameTypes, SessionTypes, FlagTypes,
      Accounts, Owed, Shown, Kept, Settled, StartTurn, Materialise,
      NextIteration, RetireTurn, Tell, counters, turnVars, boxVars, logVars,
      pageVars, toldVars, memVars, endVars, ghostVars
<1>2. CASE GateBlocks
  BY <1>2 DEF TypeInv, TypeOK, TurnTypes, FrameTypes, SessionTypes, FlagTypes,
      Accounts, Owed, Shown, Kept, Settled, GateBlocks, InTurn, AtSelect,
      GateAsked, Over, NextIteration, counters, turnVars, boxVars, logVars,
      pageVars, toldVars, memVars, endVars, ghostVars
<1>3. CASE EmptyRetry
  BY <1>3 DEF TypeInv, TypeOK, TurnTypes, FrameTypes, SessionTypes, FlagTypes,
      Accounts, Owed, Shown, Kept, Settled, EmptyRetry, InTurn, AtSelect, Over,
      NextIteration, counters, turnVars, boxVars, logVars, pageVars, toldVars,
      memVars, endVars, ghostVars
<1>4. CASE CallTools
  BY <1>4 DEF TypeInv, TypeOK, TurnTypes, FrameTypes, SessionTypes, FlagTypes,
      Accounts, Owed, Shown, Kept, Settled, CallTools, InTurn, AtSelect, Over,
      counters, turnVars, boxVars, logVars, pageVars, toldVars, memVars,
      endVars, ghostVars
<1>5. CASE Finish
  BY <1>5 DEF TypeInv, TypeOK, TurnTypes, FrameTypes, SessionTypes, FlagTypes,
      Accounts, Owed, Shown, Kept, Settled, Finish, InTurn, AtSelect, Tell,
      Excuse, EmitAll, LogAll, RequestClose, counters, turnVars, boxVars,
      logVars, pageVars, toldVars, memVars, endVars, ghostVars
<1>6. CASE StreamError
  BY <1>6 DEF TypeInv, TypeOK, TurnTypes, FrameTypes, SessionTypes, FlagTypes,
      Accounts, Owed, Shown, Kept, Settled, StreamError, InTurn, AtSelect,
      RetireTurn, Tell, Excuse, counters, turnVars, boxVars, logVars, pageVars,
      toldVars, memVars, endVars, ghostVars
<1>7. CASE HardCeilingHit
  BY <1>7 DEF TypeInv, TypeOK, TurnTypes, FrameTypes, SessionTypes, FlagTypes,
      Accounts, Owed, Shown, Kept, Settled, HardCeilingHit, InTools, AtSelect,
      RequestClose, RetireTurn, Excuse, counters, turnVars, boxVars, logVars,
      pageVars, toldVars, memVars, endVars, ghostVars
<1>8. CASE Advance
  BY <1>8 DEF TypeInv, TypeOK, TurnTypes, FrameTypes, SessionTypes, FlagTypes,
      Accounts, Owed, Shown, Kept, Settled, Advance, InTools, AtSelect, EmitAll,
      LogAll, NextIteration, counters, turnVars, boxVars, logVars, pageVars,
      toldVars, memVars, endVars, ghostVars
<1>9. CASE Cancel
  BY <1>9 DEF TypeInv, TypeOK, TurnTypes, FrameTypes, SessionTypes, FlagTypes,
      Accounts, Owed, Shown, Kept, Settled, Cancel, InTurn, AtSelect, counters,
      turnVars, boxVars, logVars, pageVars, toldVars, memVars, endVars,
      ghostVars
<1>10. CASE Abort
  BY <1>10 DEF TypeInv, TypeOK, TurnTypes, FrameTypes, SessionTypes, FlagTypes,
      Accounts, Owed, Shown, Kept, Settled, Abort, InTurn, AtSelect, RetireTurn,
      Excuse, counters, turnVars, boxVars, logVars, pageVars, toldVars, memVars,
      endVars, ghostVars
<1>11. CASE End
  BY <1>11 DEF TypeInv, TypeOK, TurnTypes, FrameTypes, SessionTypes, FlagTypes,
      Accounts, Owed, Shown, Kept, Settled, End, AtSelect, RequestClose,
      counters, turnVars, boxVars, logVars, pageVars, toldVars, memVars,
      endVars, ghostVars
<1>12. CASE WrapUp
  BY <1>12 DEF TypeInv, TypeOK, TurnTypes, FrameTypes, SessionTypes, FlagTypes,
      Accounts, Owed, Shown, Kept, Settled, WrapUp, Materialise, WrapMore,
      counters, turnVars, boxVars, logVars, pageVars, toldVars, memVars,
      endVars, ghostVars
<1>13. CASE Exit
  BY <1>13 DEF TypeInv, TypeOK, TurnTypes, FrameTypes, SessionTypes, FlagTypes,
      Accounts, Owed, Shown, Kept, Settled, Exit, LogAll, RetireTurn, Excuse,
      Tell, counters, turnVars, boxVars, logVars, pageVars, toldVars, memVars,
      endVars, ghostVars
<1>14. CASE Crash
  BY <1>14 DEF TypeInv, TypeOK, TurnTypes, FrameTypes, SessionTypes, FlagTypes,
      Accounts, Owed, Shown, Kept, Settled, Crash, RetireTurn, counters,
      turnVars, boxVars, logVars, pageVars, toldVars, memVars, endVars,
      ghostVars
<1>15. ASSUME NEW m \in Msg, RouteMessage(m) PROVE Accounts'
  BY <1>15 DEF TypeInv, TypeOK, TurnTypes, FrameTypes, SessionTypes, FlagTypes,
      Accounts, Owed, Shown, Kept, Settled, RouteMessage, AtSelect, EmitAll,
      LogAll, counters, turnVars, boxVars, logVars, pageVars, toldVars, memVars,
      endVars, ghostVars
<1>16. ASSUME NEW r \in Ref, RouteResult(r) PROVE Accounts'
  BY <1>16 DEF TypeInv, TypeOK, TurnTypes, FrameTypes, SessionTypes, FlagTypes,
      Accounts, Owed, Shown, Kept, Settled, RouteResult, AtSelect, EmitAll,
      LogAll, Arm, counters, turnVars, boxVars, logVars, pageVars, toldVars,
      memVars, endVars, ghostVars
<1>17. ASSUME NEW reason \in Reason, ParentCloses(reason) PROVE Accounts'
  BY <1>17 DEF TypeInv, TypeOK, TurnTypes, FrameTypes, SessionTypes, FlagTypes,
      Accounts, Owed, Shown, Kept, Settled, ParentCloses, counters, turnVars,
      boxVars, logVars, pageVars, toldVars, memVars, endVars, ghostVars
<1>18. ASSUME NEW reason \in Reason, RouteClose(reason) PROVE Accounts'
  BY <1>18 DEF TypeInv, TypeOK, TurnTypes, FrameTypes, SessionTypes, FlagTypes,
      Accounts, Owed, Shown, Kept, Settled, RouteClose, AtSelect, counters,
      turnVars, boxVars, logVars, pageVars, toldVars, memVars, endVars,
      ghostVars
<1>19. ASSUME NEW f \in Frame, DrainLate(f) PROVE Accounts'
  BY <1>19 DEF TypeInv, TypeOK, TurnTypes, FrameTypes, SessionTypes, FlagTypes,
      Accounts, Owed, Shown, Kept, Settled, DrainLate, counters, turnVars,
      boxVars, logVars, pageVars, toldVars, memVars, endVars, ghostVars
<1>21. CASE FillPage
  BY <1>21 DEF TypeInv, TypeOK, TurnTypes, FrameTypes, SessionTypes, FlagTypes,
      Accounts, Owed, Shown, Kept, Settled, FillPage, counters, turnVars,
      boxVars, memVars, endVars, toldVars, ghostVars
<1>20. CASE UNCHANGED vars
  BY <1>20 DEF TypeInv, TypeOK, TurnTypes, FrameTypes, SessionTypes, FlagTypes,
      Accounts, Owed, Shown, Kept, Settled, vars, counters, turnVars, boxVars,
      logVars, pageVars, toldVars, memVars, endVars, ghostVars
<1> QED BY <1>1, <1>2, <1>3, <1>4, <1>5, <1>6, <1>7, <1>8, <1>9, <1>10, <1>11,
    <1>12, <1>13, <1>14, <1>15, <1>16, <1>17, <1>18, <1>19, <1>20, <1>21 DEF
    Next, ModelReplies, ToolsEnd

(* No result of an asynchronous sub-agent is forgotten (takePendingResultOf *)
(* and pendingAsyncSummary), and none is credited to a reply, unless it was *)
(* in the prompt of one, or excused: a turn failed that had it or would     *)
(* have had it at a boundary, or its row lies past the page.                *)
THEOREM ResultsAreAccounted == Spec => []ResultsAccounted
<1>1. Init => Accounts
  BY DEF Init, Accounts, Owed, Shown, Kept, Settled
<1>2. TypeInv /\ TypeInv' /\ Accounts /\ [Next]_vars => Accounts'
  BY AccountsStep
<1>3. Accounts => ResultsAccounted
  BY DEF Accounts, Owed, Shown, Kept, Settled, ResultsAccounted
<1> QED BY <1>1, <1>2, <1>3, TypesHold, PTL DEF Spec

-----------------------------------------------------------------------------
(* A sub-agent is cancelled only together with its close, and what begins  *)
(* a teardown marks the session closing.                                   *)
Reports ==
  role = "sub" =>
    /\ stage = "idle" /\ loaded => told # "no" \/ closing \/ closes # {} \/ muted
    /\ cancelled => closing \/ closes # {}
    /\ life # "up" => closing

LEMMA ReportsStep ==
  ASSUME TypeInv, TypeInv', Reports, [Next]_vars PROVE Reports'
<1>1. CASE StartTurn
  BY <1>1 DEF TypeInv, TypeOK, TurnTypes, SessionTypes, FlagTypes, Reports,
      StartTurn, Materialise, NextIteration, RetireTurn, Tell, counters,
      turnVars, boxVars, logVars, pageVars, toldVars, memVars, endVars,
      ghostVars
<1>2. CASE GateBlocks
  BY <1>2 DEF TypeInv, TypeOK, TurnTypes, SessionTypes, FlagTypes, Reports,
      GateBlocks, InTurn, AtSelect, GateAsked, Over, NextIteration, counters,
      turnVars, boxVars, logVars, pageVars, toldVars, memVars, endVars,
      ghostVars
<1>3. CASE EmptyRetry
  BY <1>3 DEF TypeInv, TypeOK, TurnTypes, SessionTypes, FlagTypes, Reports,
      EmptyRetry, InTurn, AtSelect, Over, NextIteration, counters, turnVars,
      boxVars, logVars, pageVars, toldVars, memVars, endVars, ghostVars
<1>4. CASE CallTools
  BY <1>4 DEF TypeInv, TypeOK, TurnTypes, SessionTypes, FlagTypes, Reports,
      CallTools, InTurn, AtSelect, Over, counters, turnVars, boxVars, logVars,
      pageVars, toldVars, memVars, endVars, ghostVars
<1>5. CASE Finish
  BY <1>5 DEF TypeInv, TypeOK, TurnTypes, SessionTypes, FlagTypes, Reports,
      Finish, InTurn, AtSelect, Tell, Excuse, EmitAll, LogAll, RequestClose,
      counters, turnVars, boxVars, logVars, pageVars, toldVars, memVars,
      endVars, ghostVars
<1>6. CASE StreamError
  BY <1>6 DEF TypeInv, TypeOK, TurnTypes, SessionTypes, FlagTypes, Reports,
      StreamError, InTurn, AtSelect, RetireTurn, Tell, Excuse, counters,
      turnVars, boxVars, logVars, pageVars, toldVars, memVars, endVars,
      ghostVars
<1>7. CASE HardCeilingHit
  BY <1>7 DEF TypeInv, TypeOK, TurnTypes, SessionTypes, FlagTypes, Reports,
      HardCeilingHit, InTools, AtSelect, RequestClose, RetireTurn, Excuse,
      counters, turnVars, boxVars, logVars, pageVars, toldVars, memVars,
      endVars, ghostVars
<1>8. CASE Advance
  BY <1>8 DEF TypeInv, TypeOK, TurnTypes, SessionTypes, FlagTypes, Reports,
      Advance, InTools, AtSelect, EmitAll, LogAll, NextIteration, counters,
      turnVars, boxVars, logVars, pageVars, toldVars, memVars, endVars,
      ghostVars
<1>9. CASE Cancel
  BY <1>9 DEF TypeInv, TypeOK, TurnTypes, SessionTypes, FlagTypes, Reports,
      Cancel, InTurn, AtSelect, counters, turnVars, boxVars, logVars, pageVars,
      toldVars, memVars, endVars, ghostVars
<1>10. CASE Abort
  BY <1>10 DEF TypeInv, TypeOK, TurnTypes, SessionTypes, FlagTypes, Reports,
      Abort, InTurn, AtSelect, RetireTurn, Excuse, counters, turnVars, boxVars,
      logVars, pageVars, toldVars, memVars, endVars, ghostVars
<1>11. CASE End
  BY <1>11 DEF TypeInv, TypeOK, TurnTypes, SessionTypes, FlagTypes, Reports,
      End, AtSelect, RequestClose, counters, turnVars, boxVars, logVars,
      pageVars, toldVars, memVars, endVars, ghostVars
<1>12. CASE WrapUp
  BY <1>12 DEF TypeInv, TypeOK, TurnTypes, SessionTypes, FlagTypes, Reports,
      WrapUp, Materialise, WrapMore, counters, turnVars, boxVars, logVars,
      pageVars, toldVars, memVars, endVars, ghostVars
<1>13. CASE Exit
  BY <1>13 DEF TypeInv, TypeOK, TurnTypes, SessionTypes, FlagTypes, Reports,
      Exit, RetireTurn, Excuse, Tell, counters, turnVars, boxVars, logVars,
      pageVars, toldVars, memVars, endVars, ghostVars
<1>14. CASE Crash
  BY <1>14 DEF TypeInv, TypeOK, TurnTypes, SessionTypes, FlagTypes, Reports,
      Crash, RetireTurn, counters, turnVars, boxVars, logVars, pageVars,
      toldVars, memVars, endVars, ghostVars
<1>15. ASSUME NEW m \in Msg, RouteMessage(m) PROVE Reports'
  BY <1>15 DEF TypeInv, TypeOK, TurnTypes, SessionTypes, FlagTypes, Reports,
      RouteMessage, AtSelect, EmitAll, LogAll, counters, turnVars, boxVars,
      logVars, pageVars, toldVars, memVars, endVars, ghostVars
<1>16. ASSUME NEW r \in Ref, RouteResult(r) PROVE Reports'
  BY <1>16 DEF TypeInv, TypeOK, TurnTypes, SessionTypes, FlagTypes, Reports,
      RouteResult, AtSelect, EmitAll, LogAll, Arm, counters, turnVars, boxVars,
      logVars, pageVars, toldVars, memVars, endVars, ghostVars
<1>17. ASSUME NEW reason \in Reason, ParentCloses(reason) PROVE Reports'
  BY <1>17 DEF TypeInv, TypeOK, TurnTypes, SessionTypes, FlagTypes, Reports,
      ParentCloses, counters, turnVars, boxVars, logVars, pageVars, toldVars,
      memVars, endVars, ghostVars
<1>18. ASSUME NEW reason \in Reason, RouteClose(reason) PROVE Reports'
  BY <1>18 DEF TypeInv, TypeOK, TurnTypes, SessionTypes, FlagTypes, Reports,
      RouteClose, AtSelect, counters, turnVars, boxVars, logVars, pageVars,
      toldVars, memVars, endVars, ghostVars
<1>19. ASSUME NEW f \in Frame, DrainLate(f) PROVE Reports'
  BY <1>19 DEF TypeInv, TypeOK, TurnTypes, SessionTypes, FlagTypes, Reports,
      DrainLate, counters, turnVars, boxVars, logVars, pageVars, toldVars,
      memVars, endVars, ghostVars
<1>21. CASE FillPage
  BY <1>21 DEF TypeInv, TypeOK, TurnTypes, SessionTypes, FlagTypes, Reports,
      FillPage, counters, turnVars, boxVars, memVars, endVars, toldVars,
      ghostVars
<1>20. CASE UNCHANGED vars
  BY <1>20 DEF TypeInv, TypeOK, TurnTypes, SessionTypes, FlagTypes, Reports,
      vars, counters, turnVars, boxVars, logVars, pageVars, toldVars, memVars,
      endVars, ghostVars
<1> QED BY <1>1, <1>2, <1>3, <1>4, <1>5, <1>6, <1>7, <1>8, <1>9, <1>10, <1>11,
    <1>12, <1>13, <1>14, <1>15, <1>16, <1>17, <1>18, <1>19, <1>20, <1>21 DEF
    Next, ModelReplies, ToolsEnd

(* A sub-agent is never left idle after a turn without its parent having   *)
(* been told how it ended (consumeChildOutbox), or closing it, except by a *)
(* turn that ended in silence.                                             *)
THEOREM ChildrenReport == Spec => []ChildReports
<1>1. Init => Reports
  BY DEF Init, Reports
<1>2. TypeInv /\ TypeInv' /\ Reports /\ [Next]_vars => Reports'
  BY ReportsStep
<1>3. Reports => ChildReports
  BY DEF Reports, ChildReports
<1> QED BY <1>1, <1>2, <1>3, TypesHold, PTL DEF Spec
=============================================================================
