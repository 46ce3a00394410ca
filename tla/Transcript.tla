----------------------------- MODULE Transcript -----------------------------
(***************************************************************************)
(* What the model is shown: the event log of one session, the history      *)
(* cache the compactor extension keeps of it (pkg/extension/compactor),    *)
(* and the turns that read and write both (pkg/session/turn.go).           *)
(*                                                                         *)
(* Session.emit numbers a frame, appends its row to the log and hands it   *)
(* to the compactor, which adds an entry with the same number to its       *)
(* cache.  An entry is therefore the number of its row: `log' is the       *)
(* database, `hist' the set of the numbers that are still cached.  The     *)
(* cache is cut by the window strategy, by a compaction (whose digest is   *)
(* itself a row), by an aborted turn and by context:rollback; context:hide *)
(* only changes how a segment is shown.  A restart keeps nothing but the   *)
(* log, from which the first turn rebuilds the cache.                      *)
(*                                                                         *)
(* Rows that no prompt shows (tool_call, status, markers) and the texts    *)
(* are left out; two emits of one session are two steps.                   *)
(***************************************************************************)
EXTENDS Naturals, Sequences, FiniteSets, FiniteSetsExt, SequencesExt

CONSTANTS Strategies,   \* values of Config.Strategy: "window", "summarize", "off"
          WindowSize,   \* Config.WindowSize
          Preserved,    \* Config.PreservedRecentTurns
          MinTurnGap,   \* Config.MinTurnGap
          Tools,        \* the tools the model may call
          Midway,       \* what may be emitted while a tool runs: "note", "command"
          PageLimit,    \* rows a ListEvents without a limit returns (1000)
          MaxCalls,     \* bound on the tool calls of one assistant message
          MaxLog,       \* bound on the rows of the log
          MaxRestarts   \* bound on process deaths

ASSUME StrategyAssumption == Strategies \subseteq {"window", "summarize", "off"}
ASSUME ConfigAssumption == {WindowSize, Preserved, MinTurnGap, PageLimit} \subseteq Nat
ASSUME ToolsAssumption ==
  Tools \subseteq {"work", "checkpoint", "hide", "expand", "rollback"}
ASSUME MidwayAssumption == Midway \subseteq {"note", "command"}
ASSUME BoundsAssumption == {MaxCalls, MaxLog, MaxRestarts} \subseteq Nat

VARIABLES
  strategy,  \* the strategy of the session's tier
  log,       \* the rows of the session, oldest first
  hist,      \* CompactorState.history: the numbers of the cached entries
  cutoff,    \* Digest().CutoffSeq, 0 without a digest
  cps,       \* CompactorState.checkpoints: where each segment ends, and whether it is hidden
  bounds,    \* boundaryTracker.userMessageSeqs
  floor,     \* {} or {preambleFloorVal}
  loaded,    \* Session.materialised
  phase,     \* "idle", "model" (a model call runs) or "tools" (the dispatcher runs)
  base,      \* turnState.seqBaseline: the row of the user message of the turn
  owner,     \* the assistant message whose calls the dispatcher runs
  scan,      \* /compactor reset has read the log up to this row; 0 when none runs
  dropped,   \* rows that aborted turns and rollbacks took out since the cache was built
  restarts

vars == <<strategy, log, hist, cutoff, cps, bounds, floor, loaded, phase, base, owner,
          scan, dropped, restarts>>

Row == [kind : {"user", "note", "asst", "result", "digest"}, of : Nat, num : Nat]

UserRow == [kind |-> "user", of |-> 0, num |-> 0]      \* user_message
NoteRow == [kind |-> "note", of |-> 0, num |-> 0]      \* system_message, subagent_result
AsstRow(n) == [kind |-> "asst", of |-> 0, num |-> n]   \* a consolidated message with n calls
ResultRow(a, i) == [kind |-> "result", of |-> a, num |-> i]  \* result of the i-th call of a
DigestRow(c) == [kind |-> "digest", of |-> c, num |-> 0]     \* digest_set; 0: digest_clear

Init ==
  /\ strategy \in Strategies
  /\ log = <<>>
  /\ hist = {}
  /\ cutoff = 0
  /\ cps = <<>>
  /\ bounds = {}
  /\ floor = {}
  /\ loaded = FALSE
  /\ phase = "idle"
  /\ base = 0
  /\ owner = 0
  /\ scan = 0
  /\ dropped = {}
  /\ restarts = 0

-----------------------------------------------------------------------------
(* The cache.                                                              *)

\* projectRowToEntry: only a digest row has no entry.
Projected(lg) == {q \in DOMAIN lg : lg[q].kind # "digest"}

UserRole(lg, q) == lg[q].kind \in {"user", "note"}

\* The least element of a set of rows, and the greatest; 0 for the empty set.
Oldest(S) == IF S = {} THEN 0 ELSE Min(S)
Newest(S) == IF S = {} THEN 0 ELSE Max(S)

RawHead(lg, h, head) == head \* a cut that does not look for the owner of a result

\* snapToPairSafeHead: walk back over tool results; with no other entry before it the
\* head is the oldest entry.
SnapToPairSafeHead(lg, h, head) ==
  LET clean == {q \in h : q <= head /\ lg[q].kind # "result"}
  IN IF clean = {} THEN Oldest(h) ELSE Max(clean)

NothingPinned(lg, h) == {} \* a window that keeps only the newest entries

\* ... or that takes the index of the brief for its number.
PinnedIndex(lg, h) ==
  LET users == {q \in h : UserRole(lg, q)}
  IN IF users = {} THEN {} ELSE {Cardinality({q \in h : q < Min(users)})}

\* firstUserMessageIndex
Pinned(lg, h) ==
  LET users == {q \in h : UserRole(lg, q)}
  IN IF users = {} THEN {} ELSE {Min(users)}

\* pruneWindow: the newest WindowSize - 1 entries, the head moved back to a whole group,
\* and the task brief.
PruneWindow(lg, h) ==
  LET recent == {q \in h : Cardinality({p \in h : p > q}) < WindowSize - 1}
      head == SnapToPairSafeHead(lg, h, Min(recent))
      tail == IF recent = {} THEN {} ELSE {q \in h : q >= head}
  IN IF WindowSize = 0 \/ Cardinality(h) <= WindowSize
     THEN h
     ELSE tail \cup Pinned(lg, h)

Trim(lg, h) == IF strategy = "window" THEN PruneWindow(lg, h) ELSE h

\* OnFrameEmit, for the last row of lg.
Observe(lg, h) == Trim(lg, h \cup {Len(lg)})

\* The digest in force in a log: the last digest_set or digest_clear wins.
LoggedCutoff(lg) ==
  LET digests == {q \in DOMAIN lg : lg[q].kind = "digest"}
  IN IF digests = {} THEN 0 ELSE lg[Max(digests)].of

RecoverAll(lg) == Trim(lg, Projected(lg)) \* a rebuild that forgets the digest

\* Recover's second pass, over the rows it was given.
Recover(lg) == Trim(lg, {q \in Projected(lg) : q > LoggedCutoff(lg)})

\* materialise reads its rows without a limit of its own.
Page(lg) == SubSeq(lg, 1, IF Len(lg) < PageLimit THEN Len(lg) ELSE PageLimit)

\* The entries that RollbackTo keeps.
KeptTo(h, q) == {p \in h : p <= q}

-----------------------------------------------------------------------------
(* Compaction.                                                             *)

\* The user messages the boundary tracker finds in a log.
Users(lg) == {q \in DOMAIN lg : lg[q].kind = "user"}

\* The cut is made just before the user message that has Preserved messages after it.
NewCutoff(us) ==
  LET kth == {q \in us : Cardinality({p \in us : p > q}) = Preserved}
  IN IF kth = {} THEN 0 ELSE Min(kth) - 1

\* compactWithConfig has something to compact.
Compactable(us, cut) == NewCutoff(us) > cut

\* shouldCompact, but for its two limbs: the token estimate may trip at any turn.
ShouldCompact(us, cut) ==
  /\ strategy = "summarize"
  /\ Cardinality(us) > Preserved
  /\ cut # 0 => Cardinality({q \in us : q > cut}) >= MinTurnGap

\* pruneToCutoff
AboveCutoff(h, c) == {q \in h : q > c}

-----------------------------------------------------------------------------
(* The preamble of the task, which no segment covers.                      *)

\* computePreambleFloor: the entry before the first assistant message with calls.
PreambleFloor(lg, h) ==
  LET calling == {q \in h : lg[q].kind = "asst" /\ lg[q].num > 0}
  IN IF calling = {} THEN {} ELSE {Newest({q \in h : q < Min(calling)})}

\* preambleFloor keeps the first value it computes.
Floor(lg, h) == IF floor = {} THEN PreambleFloor(lg, h) ELSE floor

Hidden == {c \in DOMAIN cps : cps[c].hidden}

\* With a segment hidden, the next prompt needs it.
PromptFloor == floor' = IF Hidden = {} THEN floor ELSE Floor(log', hist')

-----------------------------------------------------------------------------
(* Turns.                                                                  *)

Room(n) == Len(log) + n <= MaxLog

\* startTurn: the user message is emitted, the cache is rebuilt if this is the first
\* turn of the process, and the boundary hook may compact.
StartTurn ==
  LET lg == Append(log, UserRow)
      cut == IF loaded THEN cutoff ELSE LoggedCutoff(Page(lg))
      h == IF loaded THEN Observe(lg, hist) ELSE Recover(Page(lg))
      us == IF loaded THEN bounds \cup {Len(lg)} ELSE Users(Page(lg))
  IN /\ phase = "idle" /\ scan = 0 /\ Room(2)
     /\ \/ /\ log' = lg /\ hist' = h /\ cutoff' = cut
        \/ /\ ShouldCompact(us, cut) /\ Compactable(us, cut)
           /\ log' = Append(lg, DigestRow(NewCutoff(us)))
           /\ cutoff' = NewCutoff(us)
           /\ hist' = AboveCutoff(h, NewCutoff(us))
     /\ bounds' = us
     /\ base' = Len(lg)
     /\ phase' = "model"
     /\ loaded' = TRUE
     /\ dropped' = IF loaded THEN dropped ELSE {}
     /\ PromptFloor
     /\ UNCHANGED <<strategy, cps, owner, scan, restarts>>

\* Frames that waited for the end of an iteration are emitted: one of them, or none.
Drained(lg, h, late) ==
  /\ log' = IF late = "none" THEN lg ELSE Append(lg, IF late = "user" THEN UserRow ELSE NoteRow)
  /\ hist' = IF late = "none" THEN h ELSE Observe(log', h)
  /\ bounds' = IF late = "user" THEN bounds \cup {Len(log')} ELSE bounds

Late == {"none", "user", "note"}

\* foldAssistantAndMaybeDispatch, a message with calls: the dispatcher starts.
ModelCalls(n) ==
  /\ phase = "model" /\ scan = 0 /\ Room(1)
  /\ log' = Append(log, AsstRow(n))
  /\ hist' = Observe(log', hist)
  /\ owner' = Len(log')
  /\ phase' = "tools"
  /\ UNCHANGED <<strategy, cutoff, cps, bounds, floor, loaded, base, scan, dropped, restarts>>

\* The final message: the turn is over.
ModelAnswers(late) ==
  LET lg == Append(log, AsstRow(0))
  IN /\ phase = "model" /\ scan = 0 /\ Room(2)
     /\ Drained(lg, Observe(lg, hist), late)
     /\ phase' = "idle"
     /\ UNCHANGED <<strategy, cutoff, cps, floor, loaded, base, owner, scan, dropped, restarts>>

\* An empty iteration, or one a finalize gate vetoes: a continuation is injected and the
\* model is called again.
Reprompt(said) ==
  LET lg == IF said THEN Append(log, AsstRow(0)) ELSE log
      h == IF said THEN Observe(lg, hist) ELSE hist
  IN /\ phase = "model" /\ scan = 0 /\ Room(2)
     /\ Drained(lg, h, "note")
     /\ PromptFloor
     /\ UNCHANGED <<strategy, cutoff, cps, loaded, phase, base, owner, scan, dropped,
                    restarts>>

\* How many calls of the owner have their result.
Answered == Cardinality({q \in DOMAIN log : log[q].kind = "result" /\ log[q].of = owner})
CallsLeft == phase = "tools" /\ Answered < log[owner].num

\* What dispatchToolCall does last: it emits the result of the next call, into the cache
\* the tool left.
Result(h) ==
  /\ Room(1)
  /\ log' = Append(log, ResultRow(owner, Answered + 1))
  /\ hist' = Observe(log', h)

\* Any tool that does not touch the cache, a blocked tool and a failing one.
CallWork ==
  /\ CallsLeft
  /\ Result(hist)
  /\ UNCHANGED <<strategy, cutoff, cps, bounds, floor, loaded, phase, base, owner, scan,
                 dropped, restarts>>

\* callCheckpoint: AddCheckpoint
CallCheckpoint ==
  /\ "checkpoint" \in Tools /\ CallsLeft
  /\ cps' = Append(cps, [seq |-> Newest(hist), hidden |-> FALSE])
  /\ floor' = Floor(log, hist)
  /\ Result(hist)
  /\ UNCHANGED <<strategy, cutoff, bounds, loaded, phase, base, owner, scan, dropped, restarts>>

\* SetCheckpointHidden
SetHidden(c, hidden) ==
  /\ CallsLeft
  /\ cps[c].hidden # hidden
  /\ cps' = [cps EXCEPT ![c].hidden = hidden]
  /\ floor' = Floor(log, hist)
  /\ Result(hist)
  /\ UNCHANGED <<strategy, cutoff, bounds, loaded, phase, base, owner, scan, dropped, restarts>>

CallHide(c) == "hide" \in Tools /\ SetHidden(c, TRUE)
CallExpand(c) == "expand" \in Tools /\ SetHidden(c, FALSE)

\* callRollback: rollbackFrom keeps what the checkpoint has and the newest entry, which
\* it takes for the call of the rollback.
CallRollback(c) ==
  LET gone == {q \in hist : cps[c].seq < q /\ q < Newest(hist)}
      survivors == {k \in DOMAIN cps : cps[k].seq <= cps[c].seq}
  IN /\ "rollback" \in Tools /\ CallsLeft
     /\ \E order \in [1 .. Cardinality(survivors) -> survivors] :
          /\ \A i, j \in DOMAIN order : i < j => order[i] < order[j]
          /\ cps' = [i \in DOMAIN order |-> cps[order[i]]]
     /\ floor' = Floor(log, hist \ gone)
     /\ Result(hist \ gone)
     /\ dropped' = dropped \cup gone
     /\ UNCHANGED <<strategy, cutoff, bounds, loaded, phase, base, owner, scan, restarts>>

\* advanceOrFinish after the dispatcher: buffered frames, a soft warning or an advisory
\* may be emitted before the next model call; EvaluateContext, where checkpoints are
\* enabled, measures the open segment.
Advance(late, measured) ==
  /\ phase = "tools" /\ ~CallsLeft /\ scan = 0 /\ Room(1)
  /\ Drained(log, hist, late)
  /\ IF measured THEN floor' = Floor(log', hist') ELSE PromptFloor
  /\ phase' = "model"
  /\ UNCHANGED <<strategy, cutoff, cps, loaded, base, owner, scan, dropped, restarts>>

\* A turn ended by /cancel or by a failed stream: rollbackTurn, retireTurn.  The dispatcher
\* stops between two calls.
Abort ==
  /\ phase # "idle" /\ scan = 0
  /\ hist' = KeptTo(hist, base)
  /\ dropped' = dropped \cup (hist \ KeptTo(hist, base))
  /\ phase' = "idle"
  /\ UNCHANGED <<strategy, log, cutoff, cps, bounds, floor, loaded, base, owner, scan, restarts>>

-----------------------------------------------------------------------------
(* What reaches the session beside its turns.                              *)

\* A frame that is shown to the model: a result of a sub-agent or the reply to a slash
\* command; while a tool runs also a nudge of the stuck detector, and the result that
\* wait_subagents consumes and emits.
Note ==
  /\ phase = "idle" \/ (phase = "tools" /\ "note" \in Midway)
  /\ scan = 0 /\ Room(1)
  /\ Drained(log, hist, "note")
  /\ UNCHANGED <<strategy, cutoff, cps, floor, loaded, phase, base, owner, scan, dropped,
                 restarts>>

CommandNow == scan = 0 /\ Room(1) /\ (phase = "idle" \/ "command" \in Midway)

\* /compactor compact: compactWithConfig whatever the trigger says, and a status line.
\* With nothing to compact the command only replies (Note).
CommandCompact ==
  /\ CommandNow /\ Room(2) /\ Compactable(bounds, cutoff)
  /\ log' = Append(Append(log, DigestRow(NewCutoff(bounds))), NoteRow)
  /\ cutoff' = NewCutoff(bounds)
  /\ hist' = Observe(log', AboveCutoff(hist, NewCutoff(bounds)))
  /\ UNCHANGED <<strategy, cps, bounds, floor, loaded, phase, base, owner, scan, dropped,
                 restarts>>

\* /compactor reset emits digest_clear and reads the log ...
CommandReset ==
  /\ CommandNow
  /\ log' = Append(log, DigestRow(0))
  /\ cutoff' = 0
  /\ scan' = Len(log')
  /\ UNCHANGED <<strategy, hist, cps, bounds, floor, loaded, phase, base, owner, dropped,
                 restarts>>

\* ... and replaces the cache by what it read; the dispatcher may have emitted meanwhile.
ResetHistory ==
  /\ scan > 0
  /\ hist' = Recover(SubSeq(log, 1, scan))
  /\ bounds' = Users(SubSeq(log, 1, scan))
  /\ scan' = 0
  /\ dropped' = {}
  /\ UNCHANGED <<strategy, log, cutoff, cps, floor, loaded, phase, base, owner, restarts>>

\* The process dies, at any point, and a new one opens the session: InitState.
Restart ==
  /\ restarts < MaxRestarts
  /\ restarts' = restarts + 1
  /\ hist' = {} /\ cutoff' = 0 /\ cps' = <<>> /\ bounds' = {} /\ floor' = {}
  /\ loaded' = FALSE /\ phase' = "idle" /\ base' = 0 /\ owner' = 0
  /\ scan' = 0 /\ dropped' = {}
  /\ UNCHANGED <<strategy, log>>

Next ==
  \/ StartTurn
  \/ \E n \in 1 .. MaxCalls : ModelCalls(n)
  \/ \E late \in Late : ModelAnswers(late)
  \/ \E said \in BOOLEAN : Reprompt(said)
  \/ CallWork
  \/ CallCheckpoint
  \/ \E c \in DOMAIN cps : CallHide(c) \/ CallExpand(c) \/ CallRollback(c)
  \/ \E late \in Late, measured \in BOOLEAN : Advance(late, measured)
  \/ Abort
  \/ Note
  \/ CommandCompact
  \/ CommandReset
  \/ ResetHistory
  \/ Restart

Spec == Init /\ [][Next]_vars

-----------------------------------------------------------------------------
(* The prompt: ProvideHistory.                                             *)

\* hiddenRanges: the rows of the segment a checkpoint closed, without the preamble.
Segment(c) ==
  {q \in hist : /\ q <= cps[c].seq
                /\ c > 1 => q > cps[c - 1].seq
                /\ q > Newest(Floor(log, hist))}

\* The note of a hidden segment stands before its first entry that is not a result.
NoteBefore(c, q) ==
  /\ log[q].kind # "result"
  /\ \A p \in Segment(c) : p < q => log[p].kind = "result"

\* shrinkHiddenEntry: what keeps a stub.
Paired(q) == log[q].kind = "result" \/ (log[q].kind = "asst" /\ log[q].num > 0)

\* The place of an entry in a prompt; a segment note before it has the place before.
Place(q) == 2 * q

\* The places that are filled: every entry but for the filler of a hidden segment, and
\* the note of each hidden segment.
Prompt ==
  LET hiding(q) == {c \in Hidden : q \in Segment(c)}
  IN {Place(q) : q \in {p \in hist : hiding(p) = {} \/ Paired(p)}}
     \cup {Place(q) - 1 : q \in {p \in hist : \E c \in hiding(p) : NoteBefore(c, p)}}

-----------------------------------------------------------------------------
(* Properties.                                                             *)

TypeOK ==
  /\ strategy \in Strategies
  /\ log \in Seq(Row)
  /\ hist \subseteq DOMAIN log
  /\ bounds \subseteq DOMAIN log
  /\ dropped \subseteq DOMAIN log
  /\ floor \subseteq 0 .. Len(log)
  /\ cps \in Seq([seq : 0 .. Len(log), hidden : BOOLEAN])
  /\ loaded \in BOOLEAN
  /\ phase \in {"idle", "model", "tools"}
  /\ {cutoff, base, owner, scan} \subseteq 0 .. Len(log)
  /\ restarts \in 0 .. MaxRestarts

Group(a) == {a} \cup {q \in DOMAIN log : log[q].kind = "result" /\ log[q].of = a}

\* Assistant messages whose results follow them in the log, each in its place.
LoggedWhole(a) ==
  /\ log[a].kind = "asst" /\ log[a].num > 0
  /\ Cardinality(Group(a)) = log[a].num + 1
  /\ \A q \in a .. Max(Group(a)) : q \in Group(a) \/ log[q].kind = "digest"

\* In a prompt, every call of a has its result, with nothing between the two but the
\* results of the calls before it.
ShownWhole(p, a) ==
  /\ Place(a) \in p
  /\ \A k \in 1 .. log[a].num : \E q \in Group(a) :
       /\ log[q] = ResultRow(a, k) /\ Place(q) \in p
       /\ \A m \in p : Place(a) < m /\ m < Place(q) =>
            \E r \in Group(a) : m = Place(r) /\ log[r].kind = "result" /\ log[r].num < k

\* No cut of the cache (the window, a compaction, an aborted turn, a hidden segment, a
\* rebuild after a restart) leaves a prompt with a part of a call and its results, when
\* the log has them together.  Of what context:rollback cuts it says nothing.
WholeOrGone ==
  phase = "model" =>
    LET p == Prompt
    IN \A a \in DOMAIN log :
         LoggedWhole(a) /\ Group(a) \cap dropped = {}
           => ShownWhole(p, a) \/ \A q \in Group(a) : Place(q) \notin p

\* The floor was computed from a cache that had a preamble.  Only the window strategy can
\* leave a call at the head of the cache, after a /compactor compact: the floor is 0 then.
PreambleKnown == \E f \in Floor(log, hist) : strategy = "window" => f > 0

\* The first message the user role says in a session, its task brief, is in every prompt
\* or in the digest: neither the window, nor a rollback loses it, nor a hidden segment once
\* the preamble is known.
BriefKept ==
  phase = "model" /\ (Hidden # {} => PreambleKnown) =>
    LET brief == Min({q \in DOMAIN log : UserRole(log, q)})
    IN brief <= cutoff \/ Place(brief) \in Prompt

\* But for the window strategy, a cache in use has every row of the log once: in the
\* digest up to the cutoff of the last digest row, as an entry after it, unless an
\* aborted turn or a rollback dropped it since the cache was built.
HistoryIsLog ==
  loaded /\ scan = 0 =>
    /\ cutoff = LoggedCutoff(log)
    /\ strategy # "window" => hist = {q \in Projected(log) : q > cutoff} \ dropped

=============================================================================
