--------------------------- MODULE SessionRestore ---------------------------
(***************************************************************************)
(* What survives a process of hugen and how the next one repairs it: the   *)
(* rows of one root session and of the sub-agents below it, the live       *)
(* sessions that write them, Manager.Resume with the settling of dangling  *)
(* sub-agents (pkg/session/recover.go), and the two hourly reapers         *)
(* (pkg/session/reap.go, pkg/extension/mission/reap.go).                   *)
(*                                                                         *)
(* `column', `ended', `results' and `recent' are the database; everything  *)
(* else is memory and is lost by Crash.  A graceful stop writes nothing    *)
(* (Manager.Stop), so it is the same step.                                 *)
(***************************************************************************)
EXTENDS Naturals, Sequences, SequencesExt

CONSTANTS Root,       \* the id of the root session
          Sub,        \* the ids of the sub-agents that may be spawned below it
          ParentOf,   \* Sub -> Sub \cup {Root}
          Resumer,    \* goroutines that may call Manager.Resume (one per attach)
          MaxCrashes  \* bound on process deaths

ASSUME TreeAssumption == /\ Root \notin Sub
                         /\ ParentOf \in [Sub -> Sub \cup {Root}]
ASSUME CrashAssumption == MaxCrashes \in Nat

Session == Sub \cup {Root}
ChildrenOf(s) == {c \in Sub : ParentOf[c] = s}

VARIABLES
  column,   \* sessions.status: "none" before the row exists
  ended,    \* the reasons of the session_terminated rows of each session, oldest first
  results,  \* the reasons of the subagent_result rows about each sub-agent, in its parent's log
  recent,   \* a row was appended to the session's log within processOrphanQuietWindow
  live,     \* Manager.live has the root
  phase,    \* "up": Run goroutine alive; "wrote": it has appended session_terminated;
            \* "gone": it has exited; "buffered": its result waits in the parent's
            \* pendingInbound; "off": no such goroutine in this process
  resume,   \* what each Resume call is doing
  reaper,   \* what the reaper of process orphans is doing
  crashes

store == <<column, ended, results, recent>>
vars == <<column, ended, results, recent, live, phase, resume, reaper, crashes>>

Done == "done"                \* any reason a session ends with by itself
RestartDied == "restart_died" \* protocol.TerminationRestartDied

NotResuming == [pc |-> "idle", todo |-> {}, reason |-> Done, child |-> Root]
NotReaping == [rows |-> {}, victim |-> {}]

Init ==
  /\ column = [s \in Session |-> IF s = Root THEN "active" ELSE "none"]
  /\ ended = [s \in Session |-> <<>>]
  /\ results = [c \in Sub |-> <<>>]
  /\ recent = [s \in Session |-> s = Root]
  /\ live = TRUE
  /\ phase = [s \in Session |-> IF s = Root THEN "up" ELSE "off"]
  /\ resume = [r \in Resumer |-> NotResuming]
  /\ reaper = NotReaping
  /\ crashes = 0

-----------------------------------------------------------------------------
(* The live sessions.                                                      *)

\* newSession opens the row and parent.Spawn starts the goroutine.
Spawn(c) ==
  /\ column[c] = "none"
  /\ phase[ParentOf[c]] = "up"
  /\ column' = [column EXCEPT ![c] = "active"]
  /\ phase' = [phase EXCEPT ![c] = "up"]
  /\ recent' = [recent EXCEPT ![c] = TRUE, ![ParentOf[c]] = TRUE]
  /\ UNCHANGED <<ended, results, live, resume, reaper, crashes>>

\* A running session appends some row to its log.
Activity(s) ==
  /\ phase[s] = "up"
  /\ recent' = [recent EXCEPT ![s] = TRUE]
  /\ UNCHANGED <<column, ended, results, live, phase, resume, reaper, crashes>>

\* handleExit appends session_terminated first: teardown has joined the
\* children and persisted the pending results by then.
WriteTerminated(s) ==
  /\ phase[s] = "up"
  /\ \A c \in ChildrenOf(s) : phase[c] \in {"gone", "off"}
  /\ ended' = [ended EXCEPT ![s] = Append(@, Done)]
  /\ recent' = [recent EXCEPT ![s] = TRUE]
  \* a result still on its way to a session that ends is dropped
  /\ phase' = [t \in Session |->
       IF t = s THEN "wrote" ELSE IF t \in ChildrenOf(s) THEN "off" ELSE phase[t]]
  /\ UNCHANGED <<column, results, live, resume, reaper, crashes>>

\* ... and the status column second.
WriteColumn(s) ==
  /\ phase[s] = "wrote"
  /\ column' = [column EXCEPT ![s] = "terminated"]
  /\ phase' = [phase EXCEPT ![s] = "gone"]
  /\ UNCHANGED <<ended, results, recent, live, resume, reaper, crashes>>

\* Manager.Terminate drops the root once its Done channel is closed.
Deregister ==
  /\ live /\ phase[Root] = "gone"
  /\ live' = FALSE
  /\ phase' = [phase EXCEPT ![Root] = "off"]
  /\ UNCHANGED <<column, ended, results, recent, resume, reaper, crashes>>

\* A subagent_result row of c in the log of its parent.
Logged(c, reason) ==
  /\ results' = [results EXCEPT ![c] = Append(@, reason)]
  /\ recent' = [recent EXCEPT ![ParentOf[c]] = TRUE]

\* handleSubagentResult has joined the child; the result is buffered for the
\* running turn, or logged by wait_subagents or by a parent without a turn.
Collect(c) ==
  /\ phase[c] = "gone"
  /\ phase[ParentOf[c]] = "up"
  /\ \/ /\ phase' = [phase EXCEPT ![c] = "buffered"]
        /\ UNCHANGED <<results, recent>>
     \/ /\ Logged(c, Done)
        /\ phase' = [phase EXCEPT ![c] = "off"]
  /\ UNCHANGED <<column, ended, live, resume, reaper, crashes>>

\* drainPendingInbound at a boundary of the turn, or teardown.
DrainPending(c) ==
  /\ phase[c] = "buffered"
  /\ phase[ParentOf[c]] = "up"
  /\ Logged(c, Done)
  /\ phase' = [phase EXCEPT ![c] = "off"]
  /\ UNCHANGED <<column, ended, live, resume, reaper, crashes>>

-----------------------------------------------------------------------------
(* Manager.Resume and newSessionRestore, one database call per step.       *)

At(r, pc) == resume[r].pc = pc
Goto(r, pc) == resume' = [resume EXCEPT ![r].pc = pc]

(* A plausible bug: resume goes straight to the store, without the look at Manager.live. *)
CheckNothing(r) ==
  /\ At(r, "idle")
  /\ Goto(r, "load")
  /\ UNCHANGED <<store, live, phase, reaper, crashes>>

\* The fast path under the read lock: a live root is returned as it is.
CheckLive(r) ==
  /\ At(r, "idle")
  /\ ~live
  /\ Goto(r, "load")
  /\ UNCHANGED <<store, live, phase, reaper, crashes>>

\* LoadSession, and the check of the status column.
Loaded == column[Root] # "terminated"

LoadRow(r) ==
  /\ At(r, "load")
  /\ Goto(r, IF Loaded THEN "children" ELSE "idle")
  /\ UNCHANGED <<store, live, phase, reaper, crashes>>

\* settleDanglingSubagents: ListChildren ...
ListChildren(r) ==
  /\ At(r, "children")
  /\ resume' = [resume EXCEPT ![r].pc = "settled",
                              ![r].todo = {c \in ChildrenOf(Root) : column[c] # "none"}]
  /\ UNCHANGED <<store, live, phase, reaper, crashes>>

(* A plausible bug: only children whose column is still active are settled. *)
DanglingActive(todo) == {c \in todo : results[c] = <<>> /\ column[c] = "active"}

\* ... minus the ones with a row in the log already ...
Dangling(todo) == {c \in todo : results[c] = <<>>}

ListSettled(r) ==
  /\ At(r, "settled")
  /\ resume' = [resume EXCEPT ![r].pc = "settle", ![r].todo = Dangling(@)]
  /\ UNCHANGED <<store, live, phase, reaper, crashes>>

(* A plausible bug: the reason of a child without a terminal row is left empty. *)
ReasonEmpty(c) == IF ended[c] = <<>> THEN "" ELSE Last(ended[c])

\* ... and for each of the others the reason of its newest session_terminated.
Reason(c) == IF ended[c] = <<>> THEN RestartDied ELSE Last(ended[c])

LookupReason(r) ==
  /\ At(r, "settle")
  /\ \E c \in resume[r].todo :
       resume' = [resume EXCEPT ![r] =
         [pc |-> IF ended[c] = <<>> THEN "bury" ELSE "row",
          todo |-> @.todo, reason |-> Reason(c), child |-> c]]
  /\ UNCHANGED <<store, live, phase, reaper, crashes>>

\* appendChildTerminal, event first ...
BuryChild(r) ==
  /\ At(r, "bury")
  /\ LET c == resume[r].child IN
       /\ ended' = [ended EXCEPT ![c] = Append(@, RestartDied)]
       /\ recent' = [recent EXCEPT ![c] = TRUE]
  /\ Goto(r, "flip")
  /\ UNCHANGED <<column, results, live, phase, reaper, crashes>>

\* ... column second.
FlipChild(r) ==
  /\ At(r, "flip")
  /\ column' = [column EXCEPT ![resume[r].child] = "terminated"]
  /\ Goto(r, "row")
  /\ UNCHANGED <<ended, results, recent, live, phase, reaper, crashes>>

\* appendParentSubagentResult.
SettleRow(r) ==
  /\ At(r, "row")
  /\ Logged(resume[r].child, resume[r].reason)
  /\ resume' = [resume EXCEPT ![r].pc = "settle", ![r].todo = @ \ {resume[r].child}]
  /\ UNCHANGED <<column, ended, live, phase, reaper, crashes>>

\* Nothing left to settle: the session is built and emits session_resumed.
Rebuild(r) ==
  /\ At(r, "settle")
  /\ resume[r].todo = {}
  /\ recent' = [recent EXCEPT ![Root] = TRUE]
  /\ Goto(r, "register")
  /\ UNCHANGED <<column, ended, results, live, phase, reaper, crashes>>

\* The double-check on Manager.live: the loser discards what it built.
Register(r) ==
  /\ At(r, "register")
  /\ resume' = [resume EXCEPT ![r] = NotResuming]
  /\ IF live THEN UNCHANGED <<live, phase>>
             ELSE /\ live' = TRUE
                  /\ phase' = [phase EXCEPT ![Root] = "up"]
  /\ UNCHANGED <<store, reaper, crashes>>

-----------------------------------------------------------------------------
(* The reapers and the environment.                                        *)

\* processOrphanQuietWindow passes without a row in any log.
QuietHour ==
  /\ recent' = [s \in Session |-> FALSE]
  /\ UNCHANGED <<column, ended, results, live, phase, resume, reaper, crashes>>

\* ReapProcessOrphans: the active rows whose sessions Manager.live lacks.
ReapList ==
  /\ reaper.rows = {} /\ reaper.victim = {}
  /\ reaper' = [reaper EXCEPT !.rows =
       {s \in Session : column[s] = "active" /\ ~(s = Root /\ live)}]
  /\ UNCHANGED <<store, live, phase, resume, crashes>>

\* A row with an event in the window is left alone.
ReapCheck(s) ==
  /\ s \in reaper.rows /\ reaper.victim = {}
  /\ reaper' = [rows |-> reaper.rows \ {s},
                victim |-> IF recent[s] THEN {} ELSE {s}]
  /\ UNCHANGED <<store, live, phase, resume, crashes>>

ReapFlip(s) ==
  /\ s \in reaper.victim
  /\ column' = [column EXCEPT ![s] = "terminated"]
  /\ reaper' = [reaper EXCEPT !.victim = {}]
  /\ UNCHANGED <<ended, results, recent, live, phase, resume, crashes>>

(* A plausible bug: only sub-agents directly below a root are swept. *)
OrphanedByRoot(c) == ParentOf[c] = Root /\ column[c] = "active" /\ column[Root] = "terminated"

\* ReapOrphanSubagents: an active sub-agent below a terminated row.
Orphaned(c) == column[c] = "active" /\ column[ParentOf[c]] = "terminated"

ReapOrphan(c) ==
  /\ Orphaned(c)
  /\ column' = [column EXCEPT ![c] = "terminated"]
  /\ UNCHANGED <<ended, results, recent, live, phase, resume, reaper, crashes>>

\* kill -9, or Manager.Stop: memory is lost and nothing is written.
Crash ==
  /\ crashes < MaxCrashes
  /\ crashes' = crashes + 1
  /\ live' = FALSE
  /\ phase' = [s \in Session |-> "off"]
  /\ resume' = [r \in Resumer |-> NotResuming]
  /\ reaper' = NotReaping
  /\ UNCHANGED store

LiveStep(s) == Activity(s) \/ WriteTerminated(s) \/ WriteColumn(s)
ChildStep(c) == Spawn(c) \/ Collect(c) \/ DrainPending(c)

ResumeStep(r) ==
  \/ CheckLive(r) \/ LoadRow(r) \/ ListChildren(r) \/ ListSettled(r) \/ LookupReason(r)
  \/ BuryChild(r) \/ FlipChild(r) \/ SettleRow(r) \/ Rebuild(r) \/ Register(r)

Next ==
  \/ \E s \in Session : LiveStep(s)
  \/ \E c \in Sub : ChildStep(c)
  \/ Deregister
  \/ \E r \in Resumer : ResumeStep(r)
  \/ QuietHour
  \/ ReapList
  \/ \E s \in Session : ReapCheck(s) \/ ReapFlip(s)
  \/ \E c \in Sub : ReapOrphan(c)
  \/ Crash

Spec == Init /\ [][Next]_vars

\* The runner fires subagents_reap_orphan_parent again and again.
FairSpec == Spec /\ \A c \in Sub : WF_vars(ReapOrphan(c))

-----------------------------------------------------------------------------
(* Properties.                                                             *)

TypeOK ==
  /\ column \in [Session -> {"none", "active", "terminated"}]
  /\ ended \in [Session -> Seq({Done, RestartDied})]
  /\ results \in [Sub -> Seq({Done, RestartDied})]
  /\ recent \in [Session -> BOOLEAN]
  /\ live \in BOOLEAN
  /\ phase \in [Session -> {"off", "up", "wrote", "gone", "buffered"}]
  /\ resume \in [Resumer -> [pc : {"idle", "load", "children", "settled", "settle", "bury",
                                   "flip", "row", "register"},
                             todo : SUBSET Sub, reason : {Done, RestartDied},
                             child : Session]]
  /\ reaper \in [rows : SUBSET Session, victim : SUBSET Session]
  /\ crashes \in 0 .. MaxCrashes

\* However often the process dies between two writes of a settling pass, the
\* log of a parent holds at most one subagent_result per sub-agent, and it
\* gives the reason the sub-agent's own log gives: no completed sub-agent is
\* reported as dead of the restart, and no dead one twice.  And a root that
\* Resume has brought up knows the end of every direct child of an earlier
\* process: the model never waits for a sub-agent that cannot answer.
SettledOnce ==
  /\ \A c \in Sub : results[c] = <<>> \/ results[c] = ended[c]
  /\ phase[Root] = "up" =>
       \A c \in ChildrenOf(Root) :
         column[c] # "none" /\ phase[c] = "off" => results[c] # <<>>

\* newSessionRestore and the reapers only retire sub-agents nobody runs: no
\* step of theirs ends the log of a sub-agent that is alive in this process.
LiveNotBuried == \A c \in Sub : phase[c] \in {"up", "wrote"} => RestartDied \notin ToSet(ended[c])

\* A sub-agent below a closed root does not stay `active' in the listings,
\* however deep it is: each sweep of the reaper carries the state one level down.
OrphansRetire ==
  \A c \in Sub : column[Root] = "terminated" /\ column[c] = "active" ~> column[c] = "terminated"

=============================================================================
