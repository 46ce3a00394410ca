-------------------------------- MODULE Turn --------------------------------
(***************************************************************************)
(* The turn of one session (pkg/session/turn.go), root or sub-agent, as    *)
(* its Run loop drives it: model iterations, tools, the finalize gate, the *)
(* empty-reply guard, the soft and the hard ceiling, the context budget,   *)
(* /cancel and stream errors, the summary turn for the results of          *)
(* asynchronous sub-agents, the request to close and the close turn.       *)
(*                                                                         *)
(* The Run loop is one goroutine: each action is one pass through its      *)
(* select, with advanceOrFinish when the turn is complete.  Stage          *)
(* "starting" is inside such a pass (nothing else is routed before         *)
(* StartTurn).  History is the set of the frames that the model is shown;  *)
(* wording, tokens and the frames of the tools are left out.  Children,    *)
(* the feed and the status rows are in SessionTree and WaitSubagents.      *)
(***************************************************************************)
EXTENDS Integers, FiniteSets

CONSTANTS
  Msg,          \* user messages
  Ref,          \* asynchronous sub-agents, each with its AsyncNotify result
  Cap,          \* the soft cap of iterations (resolveToolIterCap)
  HardCeiling,  \* the hard one (resolveHardCeiling)
  MaxGate,      \* maxFinalizeGateRetries
  MaxEmpty,     \* maxEmptyRetries
  CloseTurns,   \* MaxTurns of the close turn
  MaxCrash      \* bound: crashes of the process

ASSUME TurnAssumption ==
  /\ Msg \cap Ref = {}
  /\ Cap \in Nat \ {0} /\ HardCeiling \in Nat \ {0}
  /\ MaxGate \in Nat /\ MaxEmpty \in Nat
  /\ CloseTurns \in Nat \ {0} /\ MaxCrash \in Nat

Frame == Msg \cup Ref

VARIABLES
  role,       \* "root" or "sub"
  stage,      \* no turn, one that starts, the model or the tools run, or
              \* "waits": a tool that has no time limit of its own runs
  iter,       \* turnState.iter
  gates,      \* turnState.finalizeGateRetries
  empties,    \* turnState.emptyRetries
  calls,      \* model calls of the turn
  over,       \* turnState.budgetExceeded
  cancelled,  \* turnCtx is cancelled
  carried,    \* turnState.resultOf
  fresh,      \* frames younger than turnState.seqBaseline
  prompt,     \* frames in the prompt of the iteration that runs
  hist,       \* frames in the history the session owns
  buffered,   \* s.pendingInbound
  armed,      \* s.pendingAsyncSummary
  refs,       \* s.pendingResultOf
  warned,     \* s.softWarningDone
  loaded,     \* s.materialised
  logged,     \* frames with a row in the log
  warnings,   \* soft_warning rows in the log
  full,       \* the log has outgrown the page that materialise reads
  paged,      \* frames with a row in that page
  noted,      \* it holds a soft_warning row
  closing,    \* s.closing
  closes,     \* reasons of the SessionClose frames that are under way
  life,       \* "up", in the close turn ("wrapup"), "exit" or "down"
  wrap,       \* iterations the close turn has left
  told,       \* what the parent's pump projected from this session
  muted,      \* the parent heard nothing yet, and a turn has ended in silence
  crashes,
  arrived,    \* frames that reached the session
  answered,   \* frames shown in the prompt of a reply that went out
  credited,   \* refs named by a reply (ResultOf)
  excused     \* frames that a turn without a reply had, or would have, shown

counters  == <<iter, gates, empties, calls>>
turnVars  == <<stage, counters, over, cancelled, carried, fresh, prompt>>
boxVars   == <<buffered, armed, refs>>
pageVars  == <<full, paged, noted>>
logVars   == <<logged, warnings, pageVars>>
memVars   == <<hist, warned, loaded>>
endVars   == <<closing, closes, life, wrap>>
ghostVars == <<answered, credited, excused>>
toldVars  == <<told, muted>>
vars == <<role, turnVars, boxVars, logVars, memVars, endVars, toldVars, crashes,
          arrived, ghostVars>>

(* Reasons that bypass the close turn, among those that reach a session.   *)
SkipReason == {"cancel_cascade", "hard_ceiling", "context_budget", "user_cancel"}
Reason == SkipReason \cup {"subagent_done", "subagent_cancel", "user"}

Init ==
  /\ role \in {"root", "sub"}
  /\ stage = "idle" /\ iter = 0 /\ gates = 0 /\ empties = 0 /\ calls = 0
  /\ over = FALSE /\ cancelled = FALSE
  /\ carried = {} /\ fresh = {} /\ prompt = {}
  /\ hist = {} /\ buffered = {} /\ armed = FALSE /\ refs = {}
  /\ warned = FALSE /\ loaded = FALSE
  /\ logged = {} /\ warnings = 0
  /\ full = FALSE /\ paged = {} /\ noted = FALSE
  /\ closing = FALSE /\ closes = {} /\ life = "up" /\ wrap = 0
  /\ told = "no" /\ muted = FALSE /\ crashes = 0
  /\ arrived = {} /\ answered = {} /\ credited = {} /\ excused = {}

-----------------------------------------------------------------------------
(* The pump of the parent projects the first frame that ends the work of a *)
(* sub-agent.                                                              *)
TellAnswers(what) == \* an error that may be retried is no end: a plausible bug
  /\ told' = IF role = "sub" /\ told = "no" /\ what # "error" THEN what ELSE told
  /\ UNCHANGED muted
Tell(what) ==
  /\ told' = IF role = "sub" /\ told = "no" THEN what ELSE told
  /\ muted' = FALSE

(* retireTurn: the turn's state is gone.                                   *)
RetireTurn ==
  /\ stage' = "idle" /\ iter' = 0 /\ gates' = 0 /\ empties' = 0 /\ calls' = 0
  /\ over' = FALSE /\ cancelled' = FALSE
  /\ carried' = {} /\ fresh' = {} /\ prompt' = {}

(* A turn ends with no reply for what it was to answer.                    *)
Excuse == excused' = excused \cup (hist \ answered) \cup buffered

(* requestClose: the first request makes the session submit a SessionClose *)
(* to itself (a root asks the Manager to).                                 *)
RequestCloseUnheard(reason) == \* nobody is wired to hear it: a plausible bug
  /\ closing' = TRUE
  /\ UNCHANGED <<closes, life, wrap>>
RequestClose(reason) ==
  /\ closing' = TRUE
  /\ closes' = IF closing THEN closes ELSE closes \cup {reason}
  /\ UNCHANGED <<life, wrap>>

(* startModelIteration: the next prompt shows the history h.               *)
NextIteration(h) ==
  /\ stage' = "model" /\ calls' = calls + 1 /\ prompt' = h

(* The log gets rows for F.                                                *)
LogAll(F) ==
  /\ logged' = logged \cup F
  /\ paged' = IF full THEN paged ELSE paged \cup F
  /\ UNCHANGED full

(* emit, and the observer that keeps the history: F is logged and shown.   *)
EmitAll(F) == LogAll(F) /\ hist' = hist \cup F

-----------------------------------------------------------------------------
(* routeInbound, the Run loop being in its select.                         *)
AtSelect == life = "up" /\ stage # "starting"
InTurn == AtSelect /\ stage # "idle"
InTools == AtSelect /\ stage \in {"tools", "waits"}

(* A user message: it starts a turn, or is buffered for the next boundary. *)
(* A session that closes rejects it.                                       *)
RouteMessage(m) ==
  /\ AtSelect /\ ~closing /\ m \notin arrived
  /\ arrived' = arrived \cup {m}
  /\ \/ /\ stage = "idle"
        /\ stage' = "starting" /\ armed' = FALSE
        /\ EmitAll({m})
        /\ UNCHANGED buffered
     \/ /\ stage # "idle"
        /\ buffered' = buffered \cup {m}
        /\ UNCHANGED <<stage, armed, logged, full, paged, hist>>
  /\ UNCHANGED <<role, counters, over, cancelled, carried, fresh, prompt, refs,
                 warnings, noted, warned, loaded, endVars, toldVars, crashes,
                 ghostVars>>

(* pendingAsyncSummary; a plausible bug leaves it to the idle path.        *)
ArmIdle == armed' = (armed \/ stage = "idle")
Arm == armed' = TRUE

(* The result of an asynchronous sub-agent asks for a summary turn, which  *)
(* starts at once when no turn is in flight and the session stays open.    *)
RouteResult(r) ==
  /\ AtSelect /\ r \notin arrived
  /\ arrived' = arrived \cup {r}
  /\ refs' = refs \cup {r}
  /\ \/ /\ stage = "idle"
        /\ EmitAll({r})
        /\ armed' = closing
        /\ stage' = IF closing THEN "idle" ELSE "starting"
        /\ UNCHANGED buffered
     \/ /\ stage # "idle"
        /\ Arm /\ buffered' = buffered \cup {r}
        /\ UNCHANGED <<stage, logged, full, paged, hist>>
  /\ UNCHANGED <<role, counters, over, cancelled, carried, fresh, prompt,
                 warnings, noted, warned, loaded, endVars, toldVars, crashes,
                 ghostVars>>

(* Without a history yet, the session reads the oldest page of its log     *)
(* (materialise); what the frames since its start had put in the history   *)
(* is replaced.                                                            *)
Materialise ==
  /\ loaded' = TRUE
  /\ warned' = IF loaded THEN warned ELSE noted
  /\ hist' = IF loaded THEN hist ELSE paged

(* startTurn after its first emit: the log is read if this process has not *)
(* read it yet, and the model is resolved.  Without a model an Error frame *)
(* goes out and no turn is begun.  A frame whose row is past the page is   *)
(* gone from the history, the one that begins this turn included.          *)
StartTurn ==
  /\ life = "up" /\ stage = "starting"
  /\ Materialise
  /\ \/ /\ NextIteration(hist')
        /\ carried' = refs /\ refs' = {}
        /\ excused' = excused \cup (hist \ hist')
        /\ UNCHANGED <<iter, gates, empties, over, cancelled, fresh, toldVars>>
     \/ /\ RetireTurn
        /\ Tell("error")
        /\ excused' = excused \cup ((hist \cup hist') \ answered) \cup buffered
        /\ UNCHANGED refs
  /\ UNCHANGED <<role, buffered, armed, logVars, endVars, crashes, arrived,
                 answered, credited>>

-----------------------------------------------------------------------------
(* advanceOrFinish after the model has ended with a reply.  The budget is  *)
(* looked at by sub-agents only.                                           *)
Over(spent) == over' = (over \/ (role = "sub" /\ spent))

(* The gate is asked while it has retries left; one too many: a plausible  *)
(* bug.                                                                    *)
GateAskedOnceMore == gates <= MaxGate
GateAsked == gates < MaxGate

(* foldAssistantAndMaybeDispatch, the gate vetoes the end of the turn: a   *)
(* reminder is injected and the model is called again.                     *)
GateBlocks ==
  /\ InTurn /\ stage = "model" /\ ~cancelled
  /\ GateAsked
  /\ gates' = gates + 1
  /\ \E spent \in BOOLEAN : Over(spent)
  /\ NextIteration(hist)
  /\ UNCHANGED <<role, iter, empties, cancelled, carried, fresh, hist, boxVars,
                 logVars, warned, loaded, endVars, toldVars, crashes, arrived,
                 ghostVars>>

(* ... the model said nothing: it is asked again, a few times.             *)
EmptyRetry ==
  /\ InTurn /\ stage = "model" /\ ~cancelled
  /\ empties < MaxEmpty
  /\ empties' = empties + 1
  /\ \E spent \in BOOLEAN : Over(spent)
  /\ NextIteration(hist)
  /\ UNCHANGED <<role, iter, gates, cancelled, carried, fresh, hist, boxVars,
                 logVars, warned, loaded, endVars, toldVars, crashes, arrived,
                 ghostVars>>

(* ... it calls tools: the dispatcher starts.  One of them may wait with   *)
(* no limit (wait_subagents).                                              *)
CallTools ==
  /\ InTurn /\ stage = "model" /\ ~cancelled
  /\ stage' \in {"tools", "waits"}
  /\ \E spent \in BOOLEAN : Over(spent)
  /\ UNCHANGED <<role, counters, cancelled, carried, fresh, prompt, hist, boxVars,
                 logVars, warned, loaded, endVars, toldVars, crashes, arrived,
                 ghostVars>>

(* ... the turn ends: with a text as the Final frame, which names the      *)
(* results it summarises, or, the retries used up, with no frame at all.   *)
(* What is buffered is emitted, the turn retires, and then the session     *)
(* closes if its budget is spent, or begins the summary turn it was asked  *)
(* for.                                                                    *)
Finish ==
  /\ InTurn /\ stage = "model" /\ ~cancelled
  /\ \/ /\ answered' = answered \cup prompt
        /\ credited' = credited \cup carried
        /\ Tell("answer")
        /\ UNCHANGED excused
     \/ /\ empties >= MaxEmpty
        /\ Excuse
        /\ muted' = (role = "sub" /\ told = "no")
        /\ UNCHANGED <<told, answered, credited>>
  /\ EmitAll(buffered) /\ buffered' = {}
  /\ iter' = 0 /\ gates' = 0 /\ empties' = 0 /\ calls' = 0
  /\ over' = FALSE /\ UNCHANGED cancelled
  /\ carried' = {} /\ fresh' = {} /\ prompt' = {}
  /\ \E spent \in BOOLEAN :
       IF over \/ (role = "sub" /\ spent)
       THEN /\ RequestClose("context_budget")
            /\ stage' = "idle" /\ UNCHANGED armed
       ELSE /\ stage' = IF armed /\ ~closing THEN "starting" ELSE "idle"
            /\ armed' = (armed /\ closing)
            /\ UNCHANGED endVars
  /\ UNCHANGED <<role, refs, warnings, noted, warned, loaded, crashes, arrived>>

(* advanceOrFinish after the tools: the next iteration, or the hard        *)
(* ceiling, which ends the turn and the session.                           *)
HardCeilingHit ==
  /\ InTools /\ ~cancelled
  /\ iter + 1 >= HardCeiling
  /\ RequestClose("hard_ceiling")
  /\ RetireTurn
  /\ Excuse
  /\ UNCHANGED <<role, hist, boxVars, logVars, warned, loaded, toldVars, crashes,
                 arrived, answered, credited>>

Advance ==
  /\ InTools /\ ~cancelled
  /\ iter + 1 < HardCeiling
  /\ iter' = iter + 1
  /\ EmitAll(buffered) /\ buffered' = {} /\ fresh' = fresh \cup buffered
  /\ IF iter + 1 >= Cap /\ ~warned                 \* maybeInjectSoftWarning
     THEN warned' = TRUE /\ warnings' = warnings + 1 /\ noted' = (noted \/ ~full)
     ELSE UNCHANGED <<warned, warnings, noted>>
  /\ NextIteration(hist')
  /\ UNCHANGED <<role, gates, empties, over, cancelled, carried, armed, refs,
                 loaded, endVars, toldVars, crashes, arrived, ghostVars>>

-----------------------------------------------------------------------------
(* /cancel of a root; the parent's RequestChildCancel sends a sub-agent a  *)
(* SessionClose as well.                                                   *)
Cancel ==
  /\ InTurn /\ ~cancelled
  /\ cancelled' = TRUE
  /\ closes' = IF role = "sub" THEN closes \cup {"user_cancel"} ELSE closes
  /\ UNCHANGED <<role, stage, counters, over, carried, fresh, prompt, boxVars,
                 logVars, memVars, closing, life, wrap, toldVars, crashes,
                 arrived, ghostVars>>

(* advanceOrFinish of a cancelled turn, its goroutines gone: what the      *)
(* history got since the turn began is rolled back; nothing is drained.    *)
Abort ==
  /\ InTurn /\ cancelled
  /\ hist' = hist \ fresh
  /\ RetireTurn
  /\ Excuse
  /\ UNCHANGED <<role, boxVars, logVars, warned, loaded, endVars, toldVars, crashes,
                 arrived, answered, credited>>

(* ... of one whose stream failed: the same, and an Error frame goes out.  *)
StreamError ==
  /\ InTurn /\ stage = "model" /\ ~cancelled
  /\ hist' = hist \ fresh
  /\ RetireTurn
  /\ Tell("error")
  /\ Excuse
  /\ UNCHANGED <<role, boxVars, logVars, warned, loaded, endVars, crashes,
                 arrived, answered, credited>>

-----------------------------------------------------------------------------
(* The end.  The operator ends a root (/end); a parent closes a sub-agent  *)
(* whose result it has, or cancels it, or closes all when it goes itself.  *)
End ==
  /\ AtSelect /\ role = "root" /\ ~closing
  /\ RequestClose("user")
  /\ UNCHANGED <<role, turnVars, boxVars, logVars, memVars, toldVars, crashes,
                 arrived, ghostVars>>

ParentCloses(reason) ==
  /\ role = "sub" /\ life = "up" /\ reason \notin closes
  /\ \/ reason = "subagent_done" /\ told \in {"answer", "error"}
     \/ reason \in {"subagent_cancel", "cancel_cascade"}
  /\ closes' = closes \cup {reason}
  /\ UNCHANGED <<role, turnVars, boxVars, logVars, memVars, closing, life, wrap,
                 toldVars, crashes, arrived, ghostVars>>

(* A SessionClose is routed and teardown begins, with the close turn of a  *)
(* sub-agent if a skill asks for one and the reason does not forbid it;    *)
(* a turn in flight goes on meanwhile.                                     *)
RouteClose(reason) ==
  /\ AtSelect /\ reason \in closes
  /\ closing' = TRUE /\ closes' = {}
  /\ \/ /\ role = "sub" /\ reason \notin SkipReason
        /\ life' = "wrapup" /\ wrap' = CloseTurns
     \/ life' = "exit" /\ UNCHANGED wrap
  /\ UNCHANGED <<role, turnVars, boxVars, logVars, memVars, toldVars, crashes,
                 arrived, ghostVars>>

(* The close turn has another iteration after this one; a plausible bug    *)
(* never looks at the count.                                               *)
WrapOn == TRUE
WrapMore == wrap > 1

(* runCloseTurnSync: there is no model, or one iteration, the last if the  *)
(* reply calls no tool, if it fails, or if no more are allowed.            *)
WrapUp ==
  /\ life = "wrapup"
  /\ \/ life' = "exit" /\ UNCHANGED <<wrap, memVars>>
     \/ /\ Materialise
        /\ wrap' = wrap - 1
        /\ life' \in IF WrapMore THEN {"wrapup", "exit"} ELSE {"exit"}
  /\ UNCHANGED <<role, turnVars, boxVars, logVars, closing, closes, toldVars,
                 crashes, arrived, ghostVars>>

(* drainOnTeardown: frames that come now are kept for the log.             *)
DrainLate(f) ==
  /\ life = "exit" /\ f \notin arrived
  /\ arrived' = arrived \cup {f} /\ buffered' = buffered \cup {f}
  /\ UNCHANGED <<role, turnVars, armed, refs, logVars, memVars, endVars, toldVars,
                 crashes, ghostVars>>

(* The rest of teardown: the turn is cancelled and joined, the buffer is   *)
(* logged, the terminal row is written and announced.                      *)
Exit ==
  /\ life = "exit"
  /\ life' = "down" /\ wrap' = 0
  /\ RetireTurn
  /\ Excuse
  /\ LogAll(buffered) /\ buffered' = {}
  /\ Tell("terminated")
  /\ UNCHANGED <<role, armed, refs, warnings, noted, memVars, closing, closes, crashes,
                 arrived, answered, credited>>

(* The process dies and a new one opens the root again: the log is left.   *)
Crash ==
  /\ role = "root" /\ life = "up" /\ crashes < MaxCrash
  /\ crashes' = crashes + 1
  /\ RetireTurn
  /\ excused' = excused \cup (arrived \ answered)
  /\ hist' = {} /\ buffered' = {} /\ armed' = FALSE /\ refs' = {}
  /\ warned' = FALSE /\ loaded' = FALSE
  /\ closing' = FALSE /\ closes' = {}
  /\ UNCHANGED <<role, logVars, life, wrap, toldVars, arrived, answered,
                 credited>>

(* The rows of tools, replies and status fill the first page of the log.   *)
(* Only a process that opens the session again reads it, so this matters   *)
(* while a crash can still come.                                           *)
FillPage ==
  /\ role = "root" /\ life = "up" /\ loaded /\ ~full /\ crashes < MaxCrash
  /\ full' = TRUE
  /\ UNCHANGED <<role, turnVars, boxVars, logged, warnings, paged, noted, memVars,
                 endVars, toldVars, crashes, arrived, ghostVars>>

-----------------------------------------------------------------------------
ModelReplies == GateBlocks \/ EmptyRetry \/ CallTools \/ Finish \/ StreamError
ToolsEnd == HardCeilingHit \/ Advance

Next ==
  \/ \E m \in Msg : RouteMessage(m)
  \/ \E r \in Ref : RouteResult(r)
  \/ StartTurn
  \/ ModelReplies \/ ToolsEnd
  \/ Cancel \/ Abort
  \/ End
  \/ \E reason \in Reason : ParentCloses(reason) \/ RouteClose(reason)
  \/ WrapUp \/ Exit
  \/ \E f \in Frame : DrainLate(f)
  \/ Crash \/ FillPage

Spec == Init /\ [][Next]_vars

(* The Run loop goes on, the model layer has time limits of its own, and   *)
(* so have the tools, except wait_subagents: a batch with such a call need *)
(* not end.  Model and tools let go when the turn is cancelled.            *)
Fairness ==
  /\ WF_vars(StartTurn) /\ WF_vars(ModelReplies)
  /\ WF_vars(stage = "tools" /\ ToolsEnd)
  /\ WF_vars(Abort)
  /\ WF_vars(\E reason \in Reason : RouteClose(reason))
  /\ WF_vars(WrapUp) /\ WF_vars(Exit)

FairSpec == Spec /\ Fairness

-----------------------------------------------------------------------------
TurnTypes ==
  /\ stage \in {"idle", "starting", "model", "tools", "waits"}
  /\ iter \in Nat /\ gates \in Nat /\ empties \in Nat /\ calls \in Nat
  /\ carried \subseteq Ref /\ fresh \subseteq Frame /\ prompt \subseteq Frame

FrameTypes ==
  /\ hist \subseteq Frame /\ buffered \subseteq Frame /\ logged \subseteq Frame
  /\ paged \subseteq logged
  /\ refs \subseteq Ref /\ credited \subseteq Ref
  /\ arrived \subseteq Frame /\ answered \subseteq Frame /\ excused \subseteq Frame

SessionTypes ==
  /\ role \in {"root", "sub"}
  /\ closes \subseteq Reason
  /\ warnings \in Nat /\ crashes \in Nat
  /\ life \in {"up", "wrapup", "exit", "down"} /\ wrap \in 0..CloseTurns
  /\ told \in {"no", "answer", "error", "terminated"}

FlagTypes ==
  /\ over \in BOOLEAN /\ cancelled \in BOOLEAN
  /\ armed \in BOOLEAN /\ closing \in BOOLEAN
  /\ warned \in BOOLEAN /\ loaded \in BOOLEAN
  /\ full \in BOOLEAN /\ noted \in BOOLEAN /\ muted \in BOOLEAN

TypeOK == TurnTypes /\ FrameTypes /\ SessionTypes /\ FlagTypes

(* A turn ends however the model behaves: the three ways to go on draw on  *)
(* budgets that nothing gives back within a turn.  The soft warning        *)
(* (softWarningDone) is given once by each process at most, and once in    *)
(* the life of a session, restarts included, unless the row of the first   *)
(* one lies past the page that materialise reads.                          *)
BudgetsKept ==
  /\ calls <= HardCeiling + MaxGate + MaxEmpty
  /\ warnings <= 1 + crashes
  /\ warnings <= 1 \/ (full /\ ~noted)

(* No result is forgotten (pendingAsyncSummary): when an open session is   *)
(* idle, each result that came in was in the prompt of a reply that went   *)
(* out, or a turn failed that had it (cancelled, stream error, no model,   *)
(* no text, a crash), or its row lies past the page.  A reply is           *)
(* attributed (ResultOf) to such results only.  What came in is in the log *)
(* when the session is down, if its process lived that long.               *)
ResultsAccounted ==
  /\ life = "up" /\ stage = "idle" /\ ~closing
       => arrived \cap Ref \subseteq answered \cup excused
  /\ credited \subseteq answered \cup excused
  /\ life = "down" /\ crashes = 0 => arrived \subseteq logged

(* A sub-agent that has had a turn and has none has told its parent how it *)
(* ended, by an answer, an error or its end (consumeChildOutbox), or is to *)
(* be closed, or a turn ended in silence: the model stayed empty, no frame *)
(* went out and the pump heard nothing.                                    *)
ChildReports ==
  role = "sub" /\ loaded /\ stage = "idle"
    => told # "no" \/ closing \/ closes # {} \/ muted

(* Turns end, one after the other, unless one waits in a tool for ever and *)
(* nobody cancels it; and a session that is told to close goes down, a     *)
(* tool that waits notwithstanding.                                        *)
TurnEnds ==
  /\ []<>(stage = "idle") \/ <>[](stage = "waits" /\ ~cancelled /\ life = "up")
  /\ closing ~> (life = "down" \/ ~closing)
=============================================================================
