--------------------------- MODULE Transcript_proofs ---------------------------
(***************************************************************************)
(* Theorems about Transcript, for every configuration of the compactor,    *)
(* every length of the log and every number of restarts: that the cache is *)
(* the log, the types, that calls stay with their results, and that the    *)
(* task brief is kept.                                                     *)
(***************************************************************************)
EXTENDS Transcript, TLAPS, WellFoundedInduction, FiniteSetTheorems

-----------------------------------------------------------------------------
(* The least and the greatest of a set of row numbers.                     *)

LEMMA LeastExists ==
  ASSUME NEW S \in SUBSET Nat, S # {} PROVE \E x \in S : \A y \in S : x <= y
<1>1. PICK x \in S : \A y \in S : ~ (<<y, x>> \in OpToRel(<, Nat))
  BY NatLessThanWellFounded, WFMin, Zenon
<1>2. \A y \in S : ~ (y < x)
  BY <1>1 DEF OpToRel
<1> QED
  BY <1>2

LEMMA MinOf ==
  ASSUME NEW S \in SUBSET Nat, S # {}
  PROVE  Min(S) \in S /\ \A y \in S : Min(S) <= y
<1>1. PICK x \in S : \A y \in S : x <= y
  BY LeastExists
<1> QED
  BY <1>1 DEF Min

LEMMA MaxOf ==
  ASSUME NEW n \in Nat, NEW S \in SUBSET (0 .. n), S # {}
  PROVE  Max(S) \in S /\ \A y \in S : Max(S) >= y
<1> DEFINE T == {n - x : x \in S}
<1>1. T \in SUBSET Nat /\ T # {}
  <2>1. \A x \in S : n - x \in Nat
    OBVIOUS
  <2> QED
    BY <2>1
<1>2. PICK t \in T : \A y \in T : t <= y
  BY <1>1, LeastExists
<1>3. PICK x \in S : t = n - x
  OBVIOUS
<1>4. \A y \in S : x >= y
  <2> TAKE y \in S
  <2>1. n - x <= n - y
    BY <1>2, <1>3
  <2>2. x \in 0 .. n /\ y \in 0 .. n
    OBVIOUS
  <2> QED
    BY <2>1, <2>2
<1> QED
  BY <1>4 DEF Max

-----------------------------------------------------------------------------
(* One more row.                                                           *)

LEMMA AppendRow ==
  ASSUME NEW lg \in Seq(Row), NEW r \in Row
  PROVE  /\ Append(lg, r) \in Seq(Row)
         /\ Len(Append(lg, r)) = Len(lg) + 1
         /\ Len(lg) \in Nat
         /\ DOMAIN lg = 1 .. Len(lg)
         /\ DOMAIN Append(lg, r) = 1 .. Len(lg) + 1
         /\ \A q \in 1 .. Len(lg) : Append(lg, r)[q] = lg[q]
         /\ Append(lg, r)[Len(lg) + 1] = r
OBVIOUS

LEMMA ProjectedShown ==
  ASSUME NEW lg \in Seq(Row), NEW r \in Row, r.kind # "digest"
  PROVE  Projected(Append(lg, r)) = Projected(lg) \cup {Len(lg) + 1}
BY AppendRow DEF Projected

LEMMA ProjectedDigest ==
  ASSUME NEW lg \in Seq(Row), NEW r \in Row, r.kind = "digest"
  PROVE  Projected(Append(lg, r)) = Projected(lg)
BY AppendRow DEF Projected

LEMMA CutoffShown ==
  ASSUME NEW lg \in Seq(Row), NEW r \in Row, r.kind # "digest"
  PROVE  LoggedCutoff(Append(lg, r)) = LoggedCutoff(lg)
<1> DEFINE D(l) == {q \in DOMAIN l : l[q].kind = "digest"}
<1>1. D(Append(lg, r)) = D(lg)
  BY AppendRow
<1>2. CASE D(lg) = {}
  BY <1>1, <1>2 DEF LoggedCutoff
<1>3. CASE D(lg) # {}
  <2>1. LoggedCutoff(lg) = lg[Max(D(lg))].of
    BY <1>3 DEF LoggedCutoff
  <2>2. LoggedCutoff(Append(lg, r)) = Append(lg, r)[Max(D(lg))].of
    BY <1>1, <1>3 DEF LoggedCutoff
  <2>3. D(lg) \in SUBSET (0 .. Len(lg))
    BY AppendRow
  <2>4. Max(D(lg)) \in D(lg)
    BY <1>3, <2>3, AppendRow, MaxOf
  <2> QED
    BY <2>1, <2>2, <2>4, AppendRow
<1> QED
  BY <1>2, <1>3

LEMMA CutoffDigest ==
  ASSUME NEW lg \in Seq(Row), NEW r \in Row, r.kind = "digest"
  PROVE  LoggedCutoff(Append(lg, r)) = r.of
<1>1. PICK n \in Nat, l \in Seq(Row) : l = Append(lg, r) /\ n = Len(lg) + 1
  BY AppendRow
<1>2. DOMAIN l = 1 .. n /\ l[n] = r
  BY <1>1, AppendRow
<1> DEFINE D == {q \in DOMAIN l : l[q].kind = "digest"}
<1>3. n \in D
  BY <1>1, <1>2, AppendRow
<1>4. D \in SUBSET (0 .. n)
  BY <1>2
<1>5. Max(D) \in D /\ \A y \in D : Max(D) >= y
  <2> HIDE DEF D
  <2> QED
    BY <1>3, <1>4, MaxOf
<1>6. Max(D) = n
  <2>1. Max(D) >= n /\ Max(D) \in 0 .. n
    <3> HIDE DEF D
    <3> QED
      BY <1>3, <1>4, <1>5, Zenon
  <2> QED
    BY <2>1
<1>7. LoggedCutoff(l) = l[Max(D)].of
  BY <1>3 DEF LoggedCutoff
<1> QED
  BY <1>1, <1>2, <1>6, <1>7

-----------------------------------------------------------------------------
(* What the cache holds.                                                   *)

LEMMA PruneSubset ==
  ASSUME NEW lg, NEW h \in SUBSET Nat PROVE PruneWindow(lg, h) \subseteq h
<1>1. Pinned(lg, h) \subseteq h
  <2> DEFINE users == {q \in h : UserRole(lg, q)}
  <2>1. users \in SUBSET Nat
    OBVIOUS
  <2>2. users # {} => Min(users) \in users
    BY <2>1, MinOf
  <2> QED
    BY <2>2 DEF Pinned
<1> QED
  BY <1>1 DEF PruneWindow

LEMMA TrimSubset ==
  ASSUME NEW lg, NEW h \in SUBSET Nat
  PROVE  /\ Trim(lg, h) \subseteq h
         /\ strategy # "window" => Trim(lg, h) = h
BY PruneSubset DEF Trim

(* h holds the rows of lg above the cutoff c but for those in d.           *)
Exact(lg, h, c, d) == h = {q \in Projected(lg) : q > c} \ d

LEMMA Observed ==
  ASSUME NEW lg \in Seq(Row), NEW r \in Row, r.kind # "digest",
         NEW h \in SUBSET Projected(lg)
  PROVE  Observe(Append(lg, r), h) \in SUBSET Projected(Append(lg, r))
<1>1. h \cup {Len(lg) + 1} \in SUBSET Projected(Append(lg, r))
  BY ProjectedShown
<1>2. h \cup {Len(lg) + 1} \in SUBSET Nat
  BY <1>1, AppendRow DEF Projected
<1> QED
  BY <1>1, <1>2, TrimSubset, AppendRow DEF Observe

LEMMA ObservedExact ==
  ASSUME NEW lg \in Seq(Row), NEW r \in Row, r.kind # "digest",
         NEW h \in SUBSET Projected(lg), NEW c \in 0 .. Len(lg), NEW d \in SUBSET DOMAIN lg,
         strategy # "window", Exact(lg, h, c, d)
  PROVE  Exact(Append(lg, r), Observe(Append(lg, r), h), c, d)
<1>1. h \cup {Len(lg) + 1} \in SUBSET Nat
  BY AppendRow DEF Projected
<1>2. Observe(Append(lg, r), h) = h \cup {Len(lg) + 1}
  BY <1>1, TrimSubset, AppendRow DEF Observe
<1>3. Len(lg) + 1 > c /\ Len(lg) + 1 \notin d
  BY AppendRow
<1> QED
  BY <1>2, <1>3, ProjectedShown DEF Exact

LEMMA CutExact ==
  ASSUME NEW lg \in Seq(Row), NEW r \in Row, r.kind = "digest",
         NEW h \in SUBSET Projected(lg), NEW c \in 0 .. Len(lg), NEW d \in SUBSET DOMAIN lg,
         NEW k \in 0 .. Len(lg), k >= c, Exact(lg, h, c, d)
  PROVE  Exact(Append(lg, r), AboveCutoff(h, k), k, d)
<1>1. \A q \in Projected(lg) : q \in Nat
  BY AppendRow DEF Projected
<1> QED
  BY <1>1, ProjectedDigest, AppendRow DEF Exact, AboveCutoff

LEMMA RecoverExact ==
  ASSUME NEW lg \in Seq(Row)
  PROVE  /\ Recover(lg) \in SUBSET Projected(lg)
         /\ strategy # "window" => Exact(lg, Recover(lg), LoggedCutoff(lg), {})
<1>1. {q \in Projected(lg) : q > LoggedCutoff(lg)} \in SUBSET Nat
  BY DEF Projected
<1> QED
  BY <1>1, TrimSubset DEF Recover, Exact

LEMMA NewCutoffType ==
  ASSUME NEW lg \in Seq(Row), NEW us \in SUBSET DOMAIN lg
  PROVE  NewCutoff(us) \in 0 .. Len(lg)
<1> DEFINE kth == {q \in us : Cardinality({p \in us : p > q}) = Preserved}
<1>1. kth \in SUBSET Nat /\ kth \subseteq 1 .. Len(lg)
  OBVIOUS
<1>2. CASE kth = {}
  BY <1>2 DEF NewCutoff
<1>3. CASE kth # {}
  <2>1. Min(kth) \in 1 .. Len(lg)
    <3>1. Min(kth) \in kth
      BY <1>1, <1>3, MinOf
    <3> QED
      BY <3>1, <1>1
  <2>2. NewCutoff(us) = Min(kth) - 1
    BY <1>3 DEF NewCutoff
  <2> QED
    BY <2>1, <2>2
<1> QED
  BY <1>2, <1>3

-----------------------------------------------------------------------------
(* A log, a cache of it, user messages, a cutoff and dropped rows.         *)

Sound(lg, h, b, c, d) ==
  /\ lg \in Seq(Row)
  /\ LoggedCutoff(lg) \in 0 .. Len(lg)
  /\ h \in SUBSET Projected(lg)
  /\ b \in SUBSET DOMAIN lg
  /\ c \in 0 .. Len(lg)
  /\ d \in SUBSET DOMAIN lg

Full(lg, h, c, d) ==
  /\ c = LoggedCutoff(lg)
  /\ strategy # "window" => Exact(lg, h, c, d)

LEMMA ShowRow ==
  ASSUME NEW lg, NEW h, NEW b, NEW c, NEW d, Sound(lg, h, b, c, d),
         NEW r \in Row, r.kind # "digest",
         NEW b2 \in SUBSET (b \cup {Len(lg) + 1})
  PROVE  /\ Sound(Append(lg, r), Observe(Append(lg, r), h), b2, c, d)
         /\ Full(lg, h, c, d) => Full(Append(lg, r), Observe(Append(lg, r), h), c, d)
<1>1. lg \in Seq(Row) /\ h \in SUBSET Projected(lg)
  BY DEF Sound
<1>2. Observe(Append(lg, r), h) \in SUBSET Projected(Append(lg, r))
  BY <1>1, Observed
<1>3. LoggedCutoff(Append(lg, r)) = LoggedCutoff(lg)
  BY <1>1, CutoffShown
<1>4. Sound(Append(lg, r), Observe(Append(lg, r), h), b2, c, d)
  BY <1>1, <1>2, <1>3, AppendRow DEF Sound
<1>5. ASSUME Full(lg, h, c, d)
      PROVE  Full(Append(lg, r), Observe(Append(lg, r), h), c, d)
  BY <1>1, <1>3, <1>5, ObservedExact DEF Full, Sound
<1> QED
  BY <1>4, <1>5

LEMMA CutRow ==
  ASSUME NEW lg, NEW h, NEW b, NEW c, NEW d, Sound(lg, h, b, c, d),
         NEW k \in 0 .. Len(lg), k > c
  PROVE  /\ Sound(Append(lg, DigestRow(k)), AboveCutoff(h, k), b, k, d)
         /\ Full(lg, h, c, d) => Full(Append(lg, DigestRow(k)), AboveCutoff(h, k), k, d)
<1> DEFINE r == DigestRow(k)
<1>1. lg \in Seq(Row) /\ h \in SUBSET Projected(lg) /\ c \in 0 .. Len(lg)
      /\ d \in SUBSET DOMAIN lg
  BY DEF Sound
<1>2. r \in Row /\ r.kind = "digest" /\ r.of = k
  BY <1>1 DEF DigestRow, Row
<1> HIDE DEF r
<1>3. LoggedCutoff(Append(lg, r)) = k
  BY <1>1, <1>2, CutoffDigest
<1>4. AboveCutoff(h, k) \in SUBSET Projected(Append(lg, r))
  BY <1>1, <1>2, ProjectedDigest DEF AboveCutoff
<1>5. Sound(Append(lg, r), AboveCutoff(h, k), b, k, d)
  BY <1>1, <1>2, <1>3, <1>4, AppendRow DEF Sound
<1>6. ASSUME Full(lg, h, c, d) PROVE Full(Append(lg, r), AboveCutoff(h, k), k, d)
  BY <1>1, <1>2, <1>3, <1>6, CutExact DEF Full
<1> QED
  BY <1>5, <1>6 DEF r

LEMMA ShownRows ==
  /\ UserRow \in Row /\ UserRow.kind # "digest"
  /\ NoteRow \in Row /\ NoteRow.kind # "digest"
  /\ \A n \in Nat : AsstRow(n) \in Row /\ AsstRow(n).kind # "digest"
  /\ \A a, i \in Nat : ResultRow(a, i) \in Row /\ ResultRow(a, i).kind # "digest"
BY DEF Row, UserRow, NoteRow, AsstRow, ResultRow

-----------------------------------------------------------------------------
(* The invariant.  While /compactor reset rebuilds the cache nothing is    *)
(* emitted, which is so as long as commands do not run in the middle of a  *)
(* turn; and a page of the log is the whole log.                           *)

QuietReset ==
  scan > 0 => phase = "idle" /\ scan = Len(log) /\ cutoff = LoggedCutoff(log)

CacheInv ==
  /\ Sound(log, hist, bounds, cutoff, dropped)
  /\ Len(log) <= MaxLog
  /\ owner \in Nat
  /\ scan \in Nat
  /\ QuietReset
  /\ loaded /\ scan = 0 => Full(log, hist, cutoff, dropped)

LEMMA CacheInvInit == Init => CacheInv
<1> SUFFICES ASSUME Init PROVE CacheInv
  OBVIOUS
<1>1. log = <<>> /\ Len(log) = 0 /\ DOMAIN log = {} /\ log \in Seq(Row)
  BY DEF Init
<1>2. LoggedCutoff(log) = 0
  BY <1>1 DEF LoggedCutoff
<1> QED
  BY <1>1, <1>2, BoundsAssumption DEF Init, CacheInv, Sound, QuietReset

(* A step that only appends one row that is shown.                         *)
LEMMA OneRow ==
  ASSUME CacheInv, scan = 0, Room(1),
         NEW r \in Row, r.kind # "digest",
         log' = Append(log, r), hist' = Observe(log', hist),
         bounds' \in SUBSET (bounds \cup {Len(log) + 1}), owner' \in Nat,
         UNCHANGED <<strategy, cutoff, dropped, loaded, scan>>
  PROVE  CacheInv'
<1>1. Sound(log, hist, bounds, cutoff, dropped) /\ (loaded => Full(log, hist, cutoff, dropped))
  BY DEF CacheInv
<1>2. /\ Sound(log', hist', bounds', cutoff, dropped)
      /\ Full(log, hist, cutoff, dropped) => Full(log', hist', cutoff, dropped)
  BY <1>1, ShowRow
<1>3. Len(log') <= MaxLog
  BY <1>1, AppendRow, BoundsAssumption DEF Sound, Room
<1>4. Sound(log, hist, bounds, cutoff, dropped)'
  BY <1>2 DEF Sound
<1>5. loaded' /\ scan' = 0 => Full(log, hist, cutoff, dropped)'
  BY <1>1, <1>2 DEF Full
<1> QED
  BY <1>3, <1>4, <1>5 DEF CacheInv, QuietReset

(* What a step with no command in it has to show.                          *)
LEMMA Settled ==
  ASSUME Sound(log', hist', bounds', cutoff', dropped'), Len(log') <= MaxLog,
         owner' \in Nat, scan' = 0, strategy' = strategy,
         loaded' => Full(log', hist', cutoff', dropped')
  PROVE  CacheInv'
<1>1. Sound(log, hist, bounds, cutoff, dropped)'
  BY DEF Sound
<1>2. loaded' /\ scan' = 0 => Full(log, hist, cutoff, dropped)'
  BY DEF Full
<1> QED
  BY <1>1, <1>2 DEF CacheInv, QuietReset

LEMMA DrainRow ==
  ASSUME NEW lg, NEW h, NEW c, NEW d, Sound(lg, h, bounds, c, d),
         NEW late \in Late, Drained(lg, h, late)
  PROVE  /\ Sound(log', hist', bounds', c, d)
         /\ Full(lg, h, c, d) => Full(log', hist', c, d)
         /\ Len(log') <= Len(lg) + 1
<1>1. lg \in Seq(Row) /\ Len(lg) \in Nat
  BY DEF Sound
<1>2. CASE late = "none"
  BY <1>1, <1>2 DEF Drained
<1>3. CASE late = "user"
  <2>1. log' = Append(lg, UserRow) /\ hist' = Observe(log', h)
        /\ bounds' = bounds \cup {Len(log')}
    BY <1>3 DEF Drained
  <2>2. Len(log') = Len(lg) + 1
    BY <1>1, <2>1, AppendRow, ShownRows
  <2> QED
    BY <1>1, <2>1, <2>2, ShowRow, ShownRows
<1>4. CASE late = "note"
  <2>1. log' = Append(lg, NoteRow) /\ hist' = Observe(log', h) /\ bounds' = bounds
    BY <1>4 DEF Drained
  <2>2. Len(log') = Len(lg) + 1
    BY <1>1, <2>1, AppendRow, ShownRows
  <2> QED
    BY <1>1, <2>1, <2>2, ShowRow, ShownRows
<1> QED
  BY <1>2, <1>3, <1>4 DEF Late

LEMMA SubSeqAll ==
  ASSUME NEW lg \in Seq(Row) PROVE SubSeq(lg, 1, Len(lg)) = lg
OBVIOUS

LEMMA AnsweredType == ASSUME log \in Seq(Row) PROVE Answered \in Nat
<1>1. IsFiniteSet(1 .. Len(log))
  BY FS_Interval
<1>2. {q \in DOMAIN log : log[q].kind = "result" /\ log[q].of = owner} \subseteq 1 .. Len(log)
  OBVIOUS
<1> QED
  BY <1>1, <1>2, FS_Subset, FS_CardinalityType DEF Answered

(* A turn begins: the cache it finds, or the one it rebuilds, and then     *)
(* perhaps a compaction.                                                   *)
LEMMA StartTurnStep ==
  ASSUME CacheInv, PageLimit >= MaxLog, StartTurn PROVE CacheInv'
<1> DEFINE lg == Append(log, UserRow)
           cut == IF loaded THEN cutoff ELSE LoggedCutoff(Page(lg))
           h == IF loaded THEN Observe(lg, hist) ELSE Recover(Page(lg))
           us == IF loaded THEN bounds \cup {Len(lg)} ELSE Users(Page(lg))
           d == IF loaded THEN dropped ELSE {}
<1>1. /\ Sound(log, hist, bounds, cutoff, dropped)
      /\ loaded => Full(log, hist, cutoff, dropped)
      /\ scan = 0 /\ Room(2)
      /\ log \in Seq(Row)
  BY DEF CacheInv, StartTurn, Sound
<1>2. lg \in Seq(Row) /\ Len(lg) = Len(log) + 1 /\ Len(log) \in Nat
  BY <1>1, AppendRow, ShownRows
<1>3. Len(lg) + 1 <= MaxLog
  BY <1>1, <1>2, BoundsAssumption DEF Room
<1>4. Page(lg) = lg
  <2>1. PageLimit \in Nat /\ MaxLog \in Nat
    BY ConfigAssumption, BoundsAssumption
  <2> HIDE DEF lg
  <2> QED
    BY <1>2, <1>3, <2>1, SubSeqAll DEF Page
<1>5. ASSUME loaded PROVE Sound(lg, h, us, cut, d) /\ Full(lg, h, cut, d)
  <2>1. Len(lg) \in Nat /\ bounds \cup {Len(log) + 1} = us
    BY <1>2, <1>5
  <2>2. Sound(lg, h, us, cut, d) /\ Full(lg, h, cut, d)
    BY <1>1, <1>2, <1>5, <2>1, ShowRow, ShownRows
  <2> QED
    BY <1>2, <2>2
<1>6. ASSUME ~loaded PROVE Sound(lg, h, us, cut, d) /\ Full(lg, h, cut, d)
  <2> HIDE DEF lg
  <2>1. h = Recover(lg) /\ cut = LoggedCutoff(lg) /\ us = Users(lg) /\ d = {}
    BY <1>4, <1>6
  <2>2. LoggedCutoff(lg) \in 0 .. Len(lg)
    <3>1. LoggedCutoff(lg) = LoggedCutoff(log)
      BY <1>1, CutoffShown, ShownRows DEF lg
    <3> QED
      BY <1>1, <1>2, <3>1 DEF Sound
  <2> QED
    BY <1>2, <2>1, <2>2, RecoverExact DEF Sound, Full, Users
<1>7. Sound(lg, h, us, cut, d) /\ Full(lg, h, cut, d)
  BY <1>5, <1>6
<1> HIDE DEF lg, h, cut, us, d
<1>8. /\ bounds' = us /\ loaded' = TRUE /\ dropped' = d
      /\ UNCHANGED <<strategy, owner, scan>>
  BY DEF StartTurn, lg, us, d
<1>9. owner \in Nat /\ scan = 0
  BY <1>1 DEF CacheInv
<1>10. CASE log' = lg /\ hist' = h /\ cutoff' = cut
  BY <1>2, <1>3, <1>7, <1>8, <1>9, <1>10, BoundsAssumption, Settled
<1>11. CASE /\ Compactable(us, cut)
            /\ log' = Append(lg, DigestRow(NewCutoff(us)))
            /\ cutoff' = NewCutoff(us)
            /\ hist' = AboveCutoff(h, NewCutoff(us))
  <2>1. NewCutoff(us) \in 0 .. Len(lg) /\ NewCutoff(us) > cut
    BY <1>2, <1>7, <1>11, NewCutoffType DEF Sound, Compactable
  <2>2. /\ Sound(log', hist', bounds', cutoff', dropped')
        /\ Full(log', hist', cutoff', dropped')
    BY <1>7, <1>8, <1>11, <2>1, CutRow
  <2>3. Len(log') = Len(lg) + 1
    <3>1. DigestRow(NewCutoff(us)) \in Row
      BY <1>2, <2>1 DEF DigestRow, Row
    <3> QED
      BY <1>2, <1>11, <3>1, AppendRow
  <2> QED
    BY <1>2, <1>3, <1>8, <1>9, <2>2, <2>3, Settled
<1> QED
  BY <1>10, <1>11 DEF StartTurn, lg, h, us, cut

(* The dispatcher runs only when no command does.                          *)
LEMMA ToolsQuiet == ASSUME CacheInv, phase # "idle" PROVE scan = 0
BY DEF CacheInv, QuietReset

LEMMA ResultStep ==
  ASSUME CacheInv, CallsLeft, Result(hist),
         UNCHANGED <<strategy, cutoff, dropped, bounds, owner, loaded, scan>>
  PROVE  CacheInv'
<1>1. scan = 0
  BY ToolsQuiet DEF CallsLeft
<1>2. ResultRow(owner, Answered + 1) \in Row /\ ResultRow(owner, Answered + 1).kind # "digest"
  BY AnsweredType, ShownRows DEF CacheInv, Sound
<1>3. owner' \in Nat
  BY DEF CacheInv
<1> QED
  BY <1>1, <1>2, <1>3, OneRow DEF Result

LEMMA RollbackStep ==
  ASSUME CacheInv, NEW c \in DOMAIN cps, CallRollback(c) PROVE CacheInv'
<1> DEFINE gone == {q \in hist : cps[c].seq < q /\ q < Newest(hist)}
           r == ResultRow(owner, Answered + 1)
<1>1. /\ CallsLeft /\ Result(hist \ gone) /\ dropped' = dropped \cup gone
      /\ UNCHANGED <<strategy, cutoff, bounds, owner, loaded, scan>>
  BY DEF CallRollback
<1>2. scan = 0
  BY <1>1, ToolsQuiet DEF CallsLeft
<1>3. r \in Row /\ r.kind # "digest"
  BY AnsweredType, ShownRows DEF CacheInv, Sound
<1> HIDE DEF r
<1>4. gone \subseteq hist
  OBVIOUS
<1> HIDE DEF gone
<1>5. Sound(log, hist \ gone, bounds, cutoff, dropped')
  BY <1>1, <1>4 DEF CacheInv, Sound, Projected
<1>6. loaded => Full(log, hist \ gone, cutoff, dropped')
  BY <1>1, <1>2, <1>4 DEF CacheInv, Full, Exact
<1>7. log' = Append(log, r) /\ hist' = Observe(log', hist \ gone) /\ Room(1)
  BY <1>1 DEF Result, r
<1>8. /\ Sound(log', hist', bounds', cutoff', dropped')
      /\ loaded' => Full(log', hist', cutoff', dropped')
  BY <1>1, <1>3, <1>5, <1>6, <1>7, ShowRow
<1>9. Len(log') <= MaxLog
  BY <1>3, <1>7, AppendRow DEF CacheInv, Sound, Room
<1> QED
  BY <1>1, <1>2, <1>8, <1>9, Settled DEF CacheInv

LEMMA TurnStep ==
  ASSUME CacheInv,
         \/ \E n \in 1 .. MaxCalls : ModelCalls(n)
         \/ \E late \in Late : ModelAnswers(late)
         \/ \E said \in BOOLEAN : Reprompt(said)
         \/ \E late \in Late, measured \in BOOLEAN : Advance(late, measured)
         \/ Note
         \/ Abort
  PROVE  CacheInv'
<1>1. /\ Sound(log, hist, bounds, cutoff, dropped) /\ Len(log) <= MaxLog
      /\ log \in Seq(Row) /\ Len(log) \in Nat /\ MaxLog \in Nat /\ owner \in Nat
      /\ loaded /\ scan = 0 => Full(log, hist, cutoff, dropped)
  BY BoundsAssumption DEF CacheInv, Sound
<1>2. ASSUME NEW n \in 1 .. MaxCalls, ModelCalls(n) PROVE CacheInv'
  <2>1. AsstRow(n) \in Row /\ AsstRow(n).kind # "digest"
    BY ShownRows
  <2>2. /\ log' = Append(log, AsstRow(n)) /\ owner' \in Nat /\ scan = 0 /\ Room(1)
        /\ bounds' = bounds
    BY <1>1, <1>2, <2>1, AppendRow DEF ModelCalls
  <2> QED
    BY <1>2, <2>1, <2>2, OneRow DEF ModelCalls
<1>3. ASSUME NEW lg, NEW h, NEW late \in Late, Drained(lg, h, late),
             Sound(lg, h, bounds, cutoff, dropped),
             loaded => Full(lg, h, cutoff, dropped),
             Len(lg) \in Nat, Len(lg) + 1 <= MaxLog,
             scan = 0, UNCHANGED <<strategy, cutoff, dropped, owner, loaded, scan>>
      PROVE  CacheInv'
  <2>1. /\ Sound(log', hist', bounds', cutoff, dropped)
        /\ Full(lg, h, cutoff, dropped) => Full(log', hist', cutoff, dropped)
        /\ Len(log') <= Len(lg) + 1
    BY <1>3, DrainRow
  <2>2. Len(log') \in Nat
    BY <2>1 DEF Sound
  <2> QED
    BY <1>1, <1>3, <2>1, <2>2, Settled
<1>4. ASSUME scan = 0, Room(2)
      PROVE  LET lg == Append(log, AsstRow(0))
             IN /\ Sound(lg, Observe(lg, hist), bounds, cutoff, dropped)
                /\ loaded => Full(lg, Observe(lg, hist), cutoff, dropped)
                /\ Len(lg) \in Nat /\ Len(lg) + 1 <= MaxLog
  <2>1. AsstRow(0) \in Row /\ AsstRow(0).kind # "digest"
    BY ShownRows
  <2> QED
    BY <1>1, <1>4, <2>1, ShowRow, AppendRow DEF Room
<1>5. ASSUME NEW late \in Late, ModelAnswers(late) PROVE CacheInv'
  BY <1>3, <1>4, <1>5 DEF ModelAnswers
<1>6. ASSUME NEW said \in BOOLEAN, Reprompt(said) PROVE CacheInv'
  <2>1. "note" \in Late /\ scan = 0 /\ Room(2) /\ Len(log) + 1 <= MaxLog
    BY <1>1, <1>6 DEF Late, Reprompt, Room
  <2>2. CASE said
    BY <1>3, <1>4, <1>6, <2>1, <2>2 DEF Reprompt
  <2>3. CASE ~said
    BY <1>1, <1>3, <1>6, <2>1, <2>3 DEF Reprompt
  <2> QED
    BY <2>2, <2>3
<1>7. ASSUME NEW late \in Late, NEW measured \in BOOLEAN, Advance(late, measured)
      PROVE  CacheInv'
  BY <1>1, <1>3, <1>7 DEF Advance, Room
<1>8. ASSUME Note PROVE CacheInv'
  BY <1>1, <1>3, <1>8 DEF Note, Room, Late
<1>9. ASSUME Abort PROVE CacheInv'
  <2>1. hist' \subseteq hist /\ dropped' = dropped \cup (hist \ hist') /\ scan = 0
        /\ UNCHANGED <<strategy, log, cutoff, bounds, loaded, owner, scan>>
    BY <1>9 DEF Abort, KeptTo
  <2>2. Sound(log', hist', bounds', cutoff', dropped')
    BY <1>1, <2>1 DEF Sound, Projected
  <2>3. loaded' => Full(log', hist', cutoff', dropped')
    BY <1>1, <2>1 DEF Full, Exact
  <2> QED
    BY <1>1, <2>1, <2>2, <2>3, Settled
<1> QED
  BY <1>2, <1>5, <1>6, <1>7, <1>8, <1>9

LEMMA CommandStep ==
  ASSUME CacheInv, "command" \notin Midway,
         CommandCompact \/ CommandReset \/ ResetHistory
  PROVE  CacheInv'
<1>1. /\ Sound(log, hist, bounds, cutoff, dropped) /\ Len(log) <= MaxLog
      /\ log \in Seq(Row) /\ Len(log) \in Nat /\ MaxLog \in Nat /\ owner \in Nat
      /\ loaded /\ scan = 0 => Full(log, hist, cutoff, dropped)
  BY BoundsAssumption DEF CacheInv, Sound
<1>2. CASE CommandCompact
  <2> DEFINE k == NewCutoff(bounds)
             lg == Append(log, DigestRow(k))
             h == AboveCutoff(hist, k)
  <2>1. k \in 0 .. Len(log) /\ k > cutoff /\ scan = 0
    BY <1>1, <1>2, NewCutoffType DEF CommandCompact, CommandNow, Compactable, Sound
  <2>2. /\ Sound(lg, h, bounds, k, dropped)
        /\ Full(log, hist, cutoff, dropped) => Full(lg, h, k, dropped)
    BY <1>1, <2>1, CutRow
  <2>3. /\ log' = Append(lg, NoteRow) /\ hist' = Observe(log', h) /\ cutoff' = k
        /\ UNCHANGED <<strategy, bounds, loaded, owner, scan, dropped>>
        /\ Len(log) + 2 <= MaxLog
    BY <1>1, <1>2 DEF CommandCompact, Room
  <2>4. Len(lg) = Len(log) + 1
    <3>1. DigestRow(k) \in Row
      BY <1>1, <2>1 DEF DigestRow, Row
    <3> QED
      BY <1>1, <3>1, AppendRow
  <2> HIDE DEF k, lg, h
  <2>5. /\ Sound(log', hist', bounds', k, dropped)
        /\ Full(lg, h, k, dropped) => Full(log', hist', k, dropped)
    BY <2>2, <2>3, ShowRow, ShownRows
  <2>6. Len(log') = Len(log) + 2
    BY <1>1, <2>2, <2>3, <2>4, AppendRow, ShownRows DEF Sound
  <2> QED
    BY <1>1, <2>1, <2>2, <2>3, <2>5, <2>6, Settled
<1>3. CASE CommandReset
  <2>1. /\ phase = "idle" /\ scan = 0 /\ Len(log) + 1 <= MaxLog
        /\ log' = Append(log, DigestRow(0)) /\ cutoff' = 0 /\ scan' = Len(log')
        /\ UNCHANGED <<strategy, hist, bounds, loaded, phase, owner, dropped>>
    BY <1>1, <1>3 DEF CommandReset, CommandNow, Room
  <2>2. DigestRow(0) \in Row /\ DigestRow(0).kind = "digest" /\ DigestRow(0).of = 0
    BY DEF DigestRow, Row
  <2>3. LoggedCutoff(log') = 0 /\ Projected(log') = Projected(log)
    BY <1>1, <2>1, <2>2, CutoffDigest, ProjectedDigest
  <2>4. log' \in Seq(Row) /\ Len(log') = Len(log) + 1 /\ DOMAIN log \subseteq DOMAIN log'
    BY <1>1, <2>1, <2>2, AppendRow
  <2>5. Sound(log, hist, bounds, cutoff, dropped)'
    BY <1>1, <2>1, <2>3, <2>4 DEF Sound
  <2> QED
    BY <1>1, <2>1, <2>3, <2>4, <2>5 DEF CacheInv, QuietReset
<1>4. CASE ResetHistory
  <2>1. /\ scan > 0 /\ scan' = 0 /\ dropped' = {} /\ scan = Len(log)
        /\ cutoff = LoggedCutoff(log)
        /\ hist' = Recover(SubSeq(log, 1, scan)) /\ bounds' = Users(SubSeq(log, 1, scan))
        /\ UNCHANGED <<strategy, log, cutoff, loaded, owner>>
    BY <1>4 DEF ResetHistory, CacheInv, QuietReset
  <2>2. hist' = Recover(log) /\ bounds' = Users(log)
    BY <1>1, <2>1, SubSeqAll
  <2>3. Sound(log', hist', bounds', cutoff', dropped') /\ Full(log', hist', cutoff', dropped')
    BY <1>1, <2>1, <2>2, RecoverExact DEF Sound, Full, Users
  <2> QED
    BY <1>1, <2>1, <2>3, Settled
<1> QED
  BY <1>2, <1>3, <1>4

LEMMA RestartStep == ASSUME CacheInv, Restart PROVE CacheInv'
<1>1. Sound(log', hist', bounds', cutoff', dropped')
  BY DEF CacheInv, Sound, Restart
<1> QED
  BY <1>1, Settled DEF CacheInv, Restart

LEMMA CacheInvNext ==
  ASSUME CacheInv, PageLimit >= MaxLog, "command" \notin Midway, [Next]_vars
  PROVE  CacheInv'
<1>1. ASSUME CallWork \/ CallCheckpoint \/ \E c \in DOMAIN cps : CallHide(c) \/ CallExpand(c)
      PROVE  CacheInv'
  BY <1>1, ResultStep DEF CallWork, CallCheckpoint, CallHide, CallExpand, SetHidden
<1>2. CASE UNCHANGED vars
  BY <1>2 DEF vars, CacheInv, Sound, Full, QuietReset
<1> QED
  BY <1>1, <1>2, StartTurnStep, TurnStep, RollbackStep, CommandStep, RestartStep DEF Next

(* The cache is the log: whatever the strategy but for the window, the     *)
(* entries of a cache in use are the rows after the cutoff of the last     *)
(* digest row, less what aborted turns and rollbacks dropped, across       *)
(* compactions, resets and restarts, as long as the log fits the page that *)
(* materialise reads and no command runs in the middle of a turn           *)
(* (OnFrameEmit, Recover, compactWithConfig, RollbackTo, rollbackFrom).    *)
THEOREM CacheIsLog ==
  ASSUME PageLimit >= MaxLog, "command" \notin Midway
  PROVE  Spec => []HistoryIsLog
<1>1. CacheInv => HistoryIsLog
  BY DEF CacheInv, HistoryIsLog, Full, Exact
<1>2. CacheInv /\ [Next]_vars => CacheInv'
  BY CacheInvNext
<1> QED
  BY CacheInvInit, <1>1, <1>2, PTL DEF Spec

-----------------------------------------------------------------------------
(* Types.  No digest row cuts above itself, so that whatever prefix of the *)
(* log a rebuild reads, the cutoff it finds lies in it.                    *)

LogOK(lg) ==
  /\ lg \in Seq(Row)
  /\ \A q \in DOMAIN lg : lg[q].kind = "digest" => lg[q].of <= q

LEMMA LogAppend ==
  ASSUME NEW lg, LogOK(lg), NEW r \in Row, r.kind = "digest" => r.of <= Len(lg) + 1
  PROVE  LogOK(Append(lg, r))
BY AppendRow DEF LogOK

LEMMA LogPrefix ==
  ASSUME NEW lg, LogOK(lg), NEW n \in 0 .. Len(lg)
  PROVE  /\ LogOK(SubSeq(lg, 1, n))
         /\ Len(SubSeq(lg, 1, n)) = n
         /\ DOMAIN SubSeq(lg, 1, n) = 1 .. n
         /\ \A q \in 1 .. n : SubSeq(lg, 1, n)[q] = lg[q]
<1>1. lg \in Seq(Row) /\ Len(lg) \in Nat
  BY DEF LogOK
<1>2. /\ SubSeq(lg, 1, n) \in Seq(Row)
      /\ Len(SubSeq(lg, 1, n)) = n
      /\ DOMAIN SubSeq(lg, 1, n) = 1 .. n
      /\ \A q \in 1 .. n : SubSeq(lg, 1, n)[q] = lg[q]
  BY <1>1
<1> QED
  BY <1>1, <1>2 DEF LogOK

LEMMA LoggedCutoffType == ASSUME NEW lg, LogOK(lg) PROVE LoggedCutoff(lg) \in 0 .. Len(lg)
<1> DEFINE D == {q \in DOMAIN lg : lg[q].kind = "digest"}
<1>1. lg \in Seq(Row) /\ Len(lg) \in Nat /\ D \in SUBSET (0 .. Len(lg)) /\ D \subseteq DOMAIN lg
  BY DEF LogOK
<1>2. CASE D = {}
  BY <1>1, <1>2 DEF LoggedCutoff
<1>3. CASE D # {}
  <2>1. Max(D) \in D
    <3> HIDE DEF D
    <3> QED
      BY <1>1, <1>3, MaxOf
  <2>2. Max(D) \in 1 .. Len(lg) /\ lg[Max(D)] \in Row /\ lg[Max(D)].of <= Max(D)
    BY <1>1, <2>1 DEF LogOK
  <2>3. LoggedCutoff(lg) = lg[Max(D)].of
    BY <1>3 DEF LoggedCutoff
  <2> QED
    BY <1>1, <2>2, <2>3 DEF Row
<1> QED
  BY <1>2, <1>3

LEMMA NewestType ==
  ASSUME NEW n \in Nat, NEW S \in SUBSET (0 .. n)
  PROVE  Newest(S) \in 0 .. n /\ (S # {} => Newest(S) \in S /\ \A q \in S : q <= Newest(S))
<1>1. CASE S = {}
  BY <1>1 DEF Newest
<1>2. CASE S # {}
  <2>1. Newest(S) \in S /\ \A q \in S : Newest(S) >= q
    BY <1>2, MaxOf DEF Newest
  <2> QED
    BY <2>1
<1> QED
  BY <1>1, <1>2

LEMMA PreambleFloorType ==
  ASSUME NEW lg, NEW n \in Nat, NEW h \in SUBSET (0 .. n)
  PROVE  PreambleFloor(lg, h) \subseteq 0 .. n
<1> DEFINE calling == {q \in h : lg[q].kind = "asst" /\ lg[q].num > 0}
           before == {q \in h : q < Min(calling)}
<1>1. before \in SUBSET (0 .. n)
  OBVIOUS
<1>2. Newest(before) \in 0 .. n
  <2> HIDE DEF before
  <2> QED
    BY <1>1, NewestType
<1> QED
  BY <1>2 DEF PreambleFloor

LEMMA FloorType ==
  ASSUME NEW lg, NEW n \in Nat, NEW h \in SUBSET (0 .. n), floor \subseteq 0 .. n
  PROVE  Floor(lg, h) \subseteq 0 .. n
BY PreambleFloorType DEF Floor

(* The checkpoints of a log of at most n rows.                             *)
Marks(n) == Seq([seq : 0 .. n, hidden : BOOLEAN])

LEMMA MarksGrow ==
  ASSUME NEW m \in Nat, NEW n \in Nat, m <= n PROVE Marks(m) \subseteq Marks(n)
<1>1. [seq : 0 .. m, hidden : BOOLEAN] \subseteq [seq : 0 .. n, hidden : BOOLEAN]
  BY m <= n
<1> DEFINE A == [seq : 0 .. m, hidden : BOOLEAN]
           B == [seq : 0 .. n, hidden : BOOLEAN]
<1> HIDE DEF A, B
<1>2. A \subseteq B
  BY <1>1 DEF A, B
<1>3. Seq(A) \subseteq Seq(B)
  BY <1>2
<1> QED
  BY <1>3 DEF Marks, A, B

(* A log that is no shorter than the one of the state, with a cache of it  *)
(* and user messages.                                                      *)
Fits(lg, h, b) ==
  /\ LogOK(lg) /\ Len(log) <= Len(lg)
  /\ h \in SUBSET (1 .. Len(lg)) /\ b \in SUBSET (1 .. Len(lg))

LEMMA OneMore ==
  ASSUME NEW n \in Nat, NEW S \in SUBSET (1 .. n)
  PROVE  S \cup {n + 1} \in SUBSET (1 .. n + 1) /\ S \in SUBSET (1 .. n + 1)
OBVIOUS

LEMMA FitsShown ==
  ASSUME NEW lg, NEW h, NEW b, Len(log) \in Nat, Fits(lg, h, b),
         NEW r \in Row, r.kind # "digest", NEW b2 \in SUBSET (b \cup {Len(lg) + 1})
  PROVE  /\ Fits(Append(lg, r), Observe(Append(lg, r), h), b2)
         /\ Len(Append(lg, r)) = Len(lg) + 1 /\ Len(lg) \in Nat
<1>1. lg \in Seq(Row) /\ Len(lg) \in Nat
  BY DEF Fits, LogOK
<1>2. LogOK(Append(lg, r)) /\ Len(Append(lg, r)) = Len(lg) + 1
  BY <1>1, LogAppend, AppendRow DEF Fits
<1>3. h \cup {Len(lg) + 1} \in SUBSET (1 .. Len(lg) + 1)
  BY <1>1, OneMore DEF Fits
<1>4. Observe(Append(lg, r), h) \in SUBSET (1 .. Len(lg) + 1)
  BY <1>1, <1>2, <1>3, TrimSubset DEF Observe
<1>5. b2 \in SUBSET (1 .. Len(lg) + 1)
  BY <1>1, OneMore DEF Fits
<1> QED
  BY <1>1, <1>2, <1>4, <1>5 DEF Fits

LEMMA FitsCut ==
  ASSUME NEW lg, NEW h, NEW b, Len(log) \in Nat, Fits(lg, h, b), NEW k \in 0 .. Len(lg)
  PROVE  /\ Fits(Append(lg, DigestRow(k)), AboveCutoff(h, k), b)
         /\ Len(Append(lg, DigestRow(k))) = Len(lg) + 1 /\ Len(lg) \in Nat
<1>1. lg \in Seq(Row) /\ Len(lg) \in Nat
  BY DEF Fits, LogOK
<1>2. DigestRow(k) \in Row /\ DigestRow(k).of = k
  BY <1>1 DEF DigestRow, Row
<1>3. LogOK(Append(lg, DigestRow(k))) /\ Len(Append(lg, DigestRow(k))) = Len(lg) + 1
  BY <1>1, <1>2, LogAppend, AppendRow DEF Fits
<1>4. h \in SUBSET (1 .. Len(lg)) /\ b \in SUBSET (1 .. Len(lg)) /\ Len(log) <= Len(lg)
  BY DEF Fits
<1>5. AboveCutoff(h, k) \in SUBSET (1 .. Len(lg) + 1) /\ b \in SUBSET (1 .. Len(lg) + 1)
  BY <1>1, <1>4, OneMore DEF AboveCutoff
<1> QED
  BY <1>1, <1>3, <1>4, <1>5 DEF Fits

LEMMA FitsDrained ==
  ASSUME NEW lg, NEW h, Len(log) \in Nat, Fits(lg, h, bounds),
         NEW late \in Late, Drained(lg, h, late)
  PROVE  Fits(lg, h, bounds) /\ LogOK(log') /\ Len(log) <= Len(log')
         /\ hist' \in SUBSET (1 .. Len(log')) /\ bounds' \in SUBSET (1 .. Len(log'))
<1>1. CASE late = "none"
  BY <1>1 DEF Drained, Fits
<1>2. ASSUME NEW r \in Row, r.kind # "digest", NEW b2 \in SUBSET (bounds \cup {Len(lg) + 1}),
             log' = Append(lg, r), hist' = Observe(log', h), bounds' = b2
      PROVE  LogOK(log') /\ Len(log) <= Len(log')
             /\ hist' \in SUBSET (1 .. Len(log')) /\ bounds' \in SUBSET (1 .. Len(log'))
  BY <1>2, FitsShown DEF Fits
<1>3. lg \in Seq(Row) /\ Len(Append(lg, UserRow)) = Len(lg) + 1
  BY AppendRow, ShownRows DEF Fits, LogOK
<1>4. CASE late = "user"
  <2>1. log' = Append(lg, UserRow) /\ hist' = Observe(log', h)
        /\ bounds' = bounds \cup {Len(lg) + 1}
    BY <1>3, <1>4 DEF Drained
  <2> QED
    BY <1>2, <2>1, ShownRows
<1>5. CASE late = "note"
  <2>1. log' = Append(lg, NoteRow) /\ hist' = Observe(log', h) /\ bounds' = bounds
    BY <1>5 DEF Drained
  <2> QED
    BY <1>2, <2>1, ShownRows
<1> QED
  BY <1>1, <1>4, <1>5 DEF Late

TypeInv == TypeOK /\ LogOK(log)

(* What the type of the state says, in the terms of these lemmas.          *)
LEMMA TypeFacts ==
  ASSUME TypeInv
  PROVE  /\ log \in Seq(Row) /\ Len(log) \in Nat /\ DOMAIN log = 1 .. Len(log)
         /\ Fits(log, hist, bounds) /\ LogOK(log)
         /\ dropped \in SUBSET (1 .. Len(log))
         /\ floor \in SUBSET (0 .. Len(log)) /\ cps \in Marks(Len(log))
         /\ cutoff \in 0 .. Len(log) /\ base \in 0 .. Len(log)
         /\ owner \in 0 .. Len(log) /\ scan \in 0 .. Len(log)
         /\ loaded \in BOOLEAN /\ phase \in {"idle", "model", "tools"}
         /\ restarts \in 0 .. MaxRestarts /\ strategy \in Strategies
<1>1. log \in Seq(Row) /\ Len(log) \in Nat /\ DOMAIN log = 1 .. Len(log)
  BY DEF TypeInv, TypeOK
<1> QED
  BY <1>1 DEF TypeInv, TypeOK, Fits, Marks

(* It suffices to bound the new values by the new length of the log.       *)
LEMMA Typed ==
  ASSUME LogOK(log'), hist' \in SUBSET (1 .. Len(log')), bounds' \in SUBSET (1 .. Len(log')),
         dropped' \in SUBSET (1 .. Len(log')),
         floor' \in SUBSET (0 .. Len(log')), cps' \in Marks(Len(log')),
         cutoff' \in 0 .. Len(log'), base' \in 0 .. Len(log'), owner' \in 0 .. Len(log'),
         scan' \in 0 .. Len(log'), loaded' \in BOOLEAN, phase' \in {"idle", "model", "tools"},
         restarts' \in 0 .. MaxRestarts, strategy' \in Strategies
  PROVE  TypeInv'
<1>1. log' \in Seq(Row) /\ DOMAIN log' = 1 .. Len(log')
  BY DEF LogOK
<1>2. LogOK(log)'
  BY DEF LogOK
<1>3. cps' \in Seq([seq : 0 .. Len(log'), hidden : BOOLEAN])
  BY DEF Marks
<1> QED
  BY <1>1, <1>2, <1>3 DEF TypeInv, TypeOK

(* What a step leaves alone fits the longer log.                           *)
LEMMA Keeps ==
  ASSUME TypeInv, NEW n \in Nat, Len(log) <= n
  PROVE  /\ dropped \in SUBSET (1 .. n) /\ floor \in SUBSET (0 .. n) /\ cps \in Marks(n)
         /\ cutoff \in 0 .. n /\ base \in 0 .. n /\ owner \in 0 .. n /\ scan \in 0 .. n
         /\ hist \in SUBSET (1 .. n) /\ bounds \in SUBSET (1 .. n)
<1>1. Marks(Len(log)) \subseteq Marks(n)
  BY TypeFacts, MarksGrow
<1> QED
  BY <1>1, TypeFacts DEF Fits

LEMMA PromptFloorType ==
  ASSUME LogOK(log'), hist' \in SUBSET (1 .. Len(log')), floor \in SUBSET (0 .. Len(log')),
         PromptFloor
  PROVE  floor' \in SUBSET (0 .. Len(log'))
<1>1. hist' \in SUBSET (0 .. Len(log')) /\ Len(log') \in Nat
  BY DEF LogOK
<1> QED
  BY <1>1, FloorType DEF PromptFloor

LEMMA TypeInit == Init => TypeInv
<1> SUFFICES ASSUME Init PROVE TypeInv
  OBVIOUS
<1>1. log = <<>> /\ Len(log) = 0 /\ DOMAIN log = {} /\ log \in Seq(Row)
  BY DEF Init
<1>2. LogOK(log)
  BY <1>1 DEF LogOK
<1>3. cps \in Seq([seq : 0 .. Len(log), hidden : BOOLEAN])
  BY <1>1 DEF Init
<1>4. {cutoff, base, owner, scan} \subseteq 0 .. Len(log) /\ floor \subseteq 0 .. Len(log)
  BY <1>1 DEF Init
<1>5. restarts \in 0 .. MaxRestarts
  BY BoundsAssumption DEF Init
<1> QED
  BY <1>1, <1>2, <1>3, <1>4, <1>5 DEF Init, TypeInv, TypeOK

LEMMA StartTurnType == ASSUME TypeInv, StartTurn PROVE TypeInv'
<1> DEFINE lg == Append(log, UserRow)
           cut == IF loaded THEN cutoff ELSE LoggedCutoff(Page(lg))
           h == IF loaded THEN Observe(lg, hist) ELSE Recover(Page(lg))
           us == IF loaded THEN bounds \cup {Len(lg)} ELSE Users(Page(lg))
<1>1. Len(log) \in Nat /\ log \in Seq(Row)
  BY TypeFacts
<1>2. LogOK(lg) /\ Len(lg) = Len(log) + 1 /\ Len(lg) \in Nat
  BY <1>1, TypeFacts, LogAppend, AppendRow, ShownRows
<1>3. cut \in 0 .. Len(lg) /\ Fits(lg, h, us)
  <2>1. CASE loaded
    <3>1. Fits(lg, h, us)
      BY <1>1, <1>2, <2>1, TypeFacts, FitsShown, ShownRows
    <3> QED
      BY <1>1, <1>2, <2>1, <3>1, TypeFacts
  <2>2. CASE ~loaded
    <3> HIDE DEF lg
    <3> DEFINE n == IF Len(lg) < PageLimit THEN Len(lg) ELSE PageLimit
               pg == Page(lg)
    <3>1. n \in 0 .. Len(lg)
      BY <1>2, ConfigAssumption
    <3>2. pg = SubSeq(lg, 1, n)
      BY DEF Page
    <3> HIDE DEF n, pg
    <3>3. LogOK(pg) /\ DOMAIN pg = 1 .. n /\ Len(pg) = n
      BY <1>2, <3>1, <3>2, LogPrefix
    <3>4. LoggedCutoff(pg) \in 0 .. n /\ Recover(pg) \subseteq 1 .. n /\ Users(pg) \subseteq 1 .. n
      BY <3>3, LoggedCutoffType, RecoverExact DEF LogOK, Projected, Users
    <3>5. 1 .. n \subseteq 1 .. Len(lg) /\ 0 .. n \subseteq 0 .. Len(lg)
      BY <1>2, <3>1
    <3>6. cut = LoggedCutoff(pg) /\ h = Recover(pg) /\ us = Users(pg)
      BY <2>2 DEF pg
    <3> QED
      BY <1>1, <1>2, <3>4, <3>5, <3>6 DEF Fits
  <2> QED
    BY <2>1, <2>2
<1> HIDE DEF lg, cut, h, us
<1>4. /\ bounds' = us /\ base' = Len(lg) /\ phase' = "model" /\ loaded' = TRUE
      /\ dropped' = IF loaded THEN dropped ELSE {}
      /\ PromptFloor
      /\ UNCHANGED <<strategy, cps, owner, scan, restarts>>
  BY DEF StartTurn, lg, us
<1>5. ASSUME LogOK(log'), Len(lg) <= Len(log'), hist' \in SUBSET (1 .. Len(log')),
             us \in SUBSET (1 .. Len(log')), cutoff' \in 0 .. Len(log')
      PROVE  TypeInv'
  <2>1. Len(log') \in Nat /\ Len(log) <= Len(log')
    BY <1>1, <1>2, <1>5 DEF LogOK
  <2>2. /\ dropped \in SUBSET (1 .. Len(log')) /\ floor \in SUBSET (0 .. Len(log'))
        /\ cps \in Marks(Len(log')) /\ owner \in 0 .. Len(log') /\ scan \in 0 .. Len(log')
    BY <2>1, Keeps
  <2>3. floor' \in SUBSET (0 .. Len(log'))
    BY <1>4, <1>5, <2>2, PromptFloorType
  <2>4. base' \in 0 .. Len(log') /\ dropped' \in SUBSET (1 .. Len(log'))
    BY <1>2, <1>4, <1>5, <2>1, <2>2
  <2>5. strategy \in Strategies /\ restarts \in 0 .. MaxRestarts
    BY TypeFacts
  <2> QED
    BY <1>4, <1>5, <2>2, <2>3, <2>4, <2>5, Typed
<1>6. CASE log' = lg /\ hist' = h /\ cutoff' = cut
  BY <1>2, <1>3, <1>5, <1>6 DEF Fits
<1>7. CASE /\ log' = Append(lg, DigestRow(NewCutoff(us)))
           /\ cutoff' = NewCutoff(us)
           /\ hist' = AboveCutoff(h, NewCutoff(us))
  <2>1. NewCutoff(us) \in 0 .. Len(lg)
    <3>1. lg \in Seq(Row) /\ us \in SUBSET DOMAIN lg
      BY <1>2, <1>3 DEF LogOK, Fits
    <3> QED
      BY <3>1, NewCutoffType
  <2>2. Fits(log', hist', us) /\ Len(log') = Len(lg) + 1
    BY <1>1, <1>3, <1>7, <2>1, FitsCut
  <2>3. NewCutoff(us) \in 0 .. Len(log')
    BY <1>2, <2>1, <2>2
  <2> QED
    BY <1>2, <1>5, <1>7, <2>2, <2>3 DEF Fits
<1> QED
  BY <1>6, <1>7 DEF StartTurn, lg, h, us, cut

(* A step that lets the log grow and leaves most of the rest alone.        *)
LEMMA GrowType ==
  ASSUME TypeInv, LogOK(log'), Len(log) <= Len(log'),
         hist' \in SUBSET (1 .. Len(log')), bounds' \in SUBSET (1 .. Len(log')),
         floor' \in SUBSET (0 .. Len(log')), cps' \in Marks(Len(log')),
         dropped' \in SUBSET (1 .. Len(log')),
         owner' \in 0 .. Len(log'), phase' \in {"idle", "model", "tools"},
         UNCHANGED <<strategy, cutoff, base, scan, loaded, restarts>>
  PROVE  TypeInv'
<1>1. Len(log') \in Nat
  BY DEF LogOK
<1>2. cutoff \in 0 .. Len(log') /\ base \in 0 .. Len(log') /\ scan \in 0 .. Len(log')
  BY <1>1, Keeps
<1>3. strategy \in Strategies /\ loaded \in BOOLEAN /\ restarts \in 0 .. MaxRestarts
  BY TypeFacts
<1> QED
  BY <1>2, <1>3, Typed

LEMMA TurnType ==
  ASSUME TypeInv,
         \/ \E n \in 1 .. MaxCalls : ModelCalls(n)
         \/ \E late \in Late : ModelAnswers(late)
         \/ \E said \in BOOLEAN : Reprompt(said)
         \/ \E late \in Late, measured \in BOOLEAN : Advance(late, measured)
         \/ Note
         \/ Abort
  PROVE  TypeInv'
<1>1. Len(log) \in Nat /\ Fits(log, hist, bounds)
  BY TypeFacts
<1>2. Fits(Append(log, AsstRow(0)), Observe(Append(log, AsstRow(0)), hist), bounds)
  BY <1>1, FitsShown, ShownRows
<1>3. ASSUME NEW n \in 1 .. MaxCalls, ModelCalls(n) PROVE TypeInv'
  <2>1. log' = Append(log, AsstRow(n)) /\ hist' = Observe(log', hist) /\ owner' = Len(log')
        /\ phase' = "tools" /\ bounds' = bounds
        /\ UNCHANGED <<strategy, cutoff, cps, floor, loaded, base, scan, dropped, restarts>>
    BY <1>3 DEF ModelCalls
  <2>2. AsstRow(n) \in Row /\ AsstRow(n).kind # "digest"
    BY ShownRows
  <2>3. Fits(log', hist', bounds') /\ Len(log') = Len(log) + 1
    BY <1>1, <2>1, <2>2, FitsShown
  <2>4. Len(log') \in Nat /\ Len(log) <= Len(log')
    BY <1>1, <2>3
  <2>5. /\ floor \in SUBSET (0 .. Len(log')) /\ cps \in Marks(Len(log'))
        /\ dropped \in SUBSET (1 .. Len(log'))
    BY <2>4, Keeps
  <2>6. owner' \in 0 .. Len(log')
    BY <2>1, <2>4
  <2> QED
    BY <2>1, <2>3, <2>4, <2>5, <2>6, GrowType DEF Fits
<1>4. ASSUME NEW lg, NEW h, NEW late \in Late, Drained(lg, h, late), Fits(lg, h, bounds),
             floor' = floor \/ PromptFloor \/ floor' = Floor(log', hist'),
             phase' \in {"idle", "model", "tools"},
             UNCHANGED <<strategy, cutoff, cps, loaded, base, owner, scan, dropped, restarts>>
      PROVE  TypeInv'
  <2>1. LogOK(log') /\ Len(log) <= Len(log')
        /\ hist' \in SUBSET (1 .. Len(log')) /\ bounds' \in SUBSET (1 .. Len(log'))
    BY <1>1, <1>4, FitsDrained
  <2>2. Len(log') \in Nat
    BY <2>1 DEF LogOK
  <2>3. /\ floor \in SUBSET (0 .. Len(log')) /\ cps \in Marks(Len(log'))
        /\ dropped \in SUBSET (1 .. Len(log')) /\ owner \in 0 .. Len(log')
    BY <2>1, <2>2, Keeps
  <2>4. hist' \in SUBSET (0 .. Len(log'))
    BY <2>1, <2>2
  <2>5. floor' \in SUBSET (0 .. Len(log'))
    <3>1. Floor(log', hist') \in SUBSET (0 .. Len(log'))
      BY <2>2, <2>3, <2>4, FloorType
    <3>2. PromptFloor => floor' \in SUBSET (0 .. Len(log'))
      BY <2>1, <2>3, PromptFloorType
    <3> QED
      BY <1>4, <2>3, <3>1, <3>2
  <2> QED
    BY <1>4, <2>1, <2>3, <2>5, GrowType
<1>5. ASSUME NEW late \in Late, ModelAnswers(late) PROVE TypeInv'
  BY <1>2, <1>4, <1>5 DEF ModelAnswers
<1>6. ASSUME NEW said \in BOOLEAN, Reprompt(said) PROVE TypeInv'
  <2>1. "note" \in Late /\ phase \in {"idle", "model", "tools"}
    BY TypeFacts DEF Late
  <2>2. CASE said
    BY <1>2, <1>4, <1>6, <2>1, <2>2 DEF Reprompt
  <2>3. CASE ~said
    BY <1>1, <1>4, <1>6, <2>1, <2>3 DEF Reprompt
  <2> QED
    BY <2>2, <2>3
<1>7. ASSUME NEW late \in Late, NEW measured \in BOOLEAN, Advance(late, measured)
      PROVE  TypeInv'
  BY <1>1, <1>4, <1>7 DEF Advance
<1>8. ASSUME Note PROVE TypeInv'
  BY <1>1, <1>4, <1>8, TypeFacts DEF Note, Late
<1>9. ASSUME Abort PROVE TypeInv'
  <2>1. hist' \subseteq hist /\ dropped' \subseteq dropped \cup hist /\ phase' = "idle"
        /\ UNCHANGED <<strategy, log, cutoff, cps, bounds, floor, loaded, base, owner, scan,
                       restarts>>
    BY <1>9 DEF Abort, KeptTo
  <2> QED
    BY <2>1, TypeFacts, GrowType DEF Fits
<1> QED
  BY <1>3, <1>5, <1>6, <1>7, <1>8, <1>9

LEMMA ResultType ==
  ASSUME TypeInv, CallsLeft, NEW h \in SUBSET hist, Result(h),
         floor' = floor \/ floor' = Floor(log, hist) \/ floor' = Floor(log, h),
         \A n \in Nat : Len(log) <= n => cps' \in Marks(n),
         dropped' \in SUBSET (dropped \cup hist),
         UNCHANGED <<strategy, cutoff, bounds, loaded, phase, base, owner, scan, restarts>>
  PROVE  TypeInv'
<1> DEFINE r == ResultRow(owner, Answered + 1)
<1>1. Len(log) \in Nat /\ Fits(log, h, bounds) /\ owner \in Nat /\ log \in Seq(Row)
  BY TypeFacts DEF Fits
<1>2. r \in Row /\ r.kind # "digest"
  BY <1>1, AnsweredType, ShownRows
<1>3. log' = Append(log, r) /\ hist' = Observe(log', h)
  BY DEF Result
<1> HIDE DEF r
<1>4. Fits(log', hist', bounds') /\ Len(log') = Len(log) + 1
  BY <1>1, <1>2, <1>3, FitsShown
<1>5. Len(log') \in Nat /\ Len(log) <= Len(log')
  BY <1>1, <1>4
<1>6. /\ floor \in SUBSET (0 .. Len(log')) /\ owner \in 0 .. Len(log')
      /\ dropped \in SUBSET (1 .. Len(log')) /\ hist \in SUBSET (1 .. Len(log'))
  BY <1>5, Keeps
<1>7. hist \in SUBSET (0 .. Len(log')) /\ h \in SUBSET (0 .. Len(log'))
  BY <1>5, <1>6
<1>8. floor' \in SUBSET (0 .. Len(log'))
  <2>1. /\ Floor(log, hist) \in SUBSET (0 .. Len(log'))
        /\ Floor(log, h) \in SUBSET (0 .. Len(log'))
    BY <1>5, <1>6, <1>7, FloorType
  <2> QED
    BY <1>6, <2>1
<1>9. phase' \in {"idle", "model", "tools"} /\ cps' \in Marks(Len(log'))
  BY <1>5, TypeFacts
<1> QED
  BY <1>4, <1>5, <1>6, <1>8, <1>9, GrowType DEF Fits

LEMMA CallType ==
  ASSUME TypeInv,
         \/ CallWork
         \/ CallCheckpoint
         \/ \E c \in DOMAIN cps : CallHide(c) \/ CallExpand(c) \/ CallRollback(c)
  PROVE  TypeInv'
<1>0. /\ \A n \in Nat : Len(log) <= n => cps \in Marks(n)
      /\ hist \in SUBSET hist /\ dropped \in SUBSET (dropped \cup hist)
  BY Keeps
<1>1. CASE CallWork
  BY <1>0, <1>1, ResultType DEF CallWork
<1>2. CASE CallCheckpoint
  <2>1. ASSUME NEW n \in Nat, Len(log) <= n PROVE cps' \in Marks(n)
    <3>1. hist \in SUBSET (0 .. n)
      BY <2>1, Keeps
    <3>2. Newest(hist) \in 0 .. n
      BY <3>1, NewestType
    <3>3. [seq |-> Newest(hist), hidden |-> FALSE] \in [seq : 0 .. n, hidden : BOOLEAN]
      BY <3>2
    <3> DEFINE M == [seq : 0 .. n, hidden : BOOLEAN]
               m == [seq |-> Newest(hist), hidden |-> FALSE]
    <3>4. m \in M /\ cps \in Seq(M) /\ cps' = Append(cps, m)
      BY <1>0, <1>2, <2>1, <3>3 DEF Marks, CallCheckpoint
    <3> HIDE DEF M, m
    <3>5. cps' \in Seq(M)
      BY <3>4
    <3> QED
      BY <3>5 DEF M, Marks
  <2> QED
    BY <1>0, <1>2, <2>1, ResultType DEF CallCheckpoint
<1>3. ASSUME NEW c \in DOMAIN cps, NEW b \in BOOLEAN, SetHidden(c, b) PROVE TypeInv'
  <2>1. ASSUME NEW n \in Nat, Len(log) <= n PROVE cps' \in Marks(n)
    <3> DEFINE M == [seq : 0 .. n, hidden : BOOLEAN]
    <3>1. \A m \in M : [m EXCEPT !.hidden = b] \in M
      OBVIOUS
    <3>2. cps' = [cps EXCEPT ![c] = [cps[c] EXCEPT !.hidden = b]]
      BY <1>3 DEF SetHidden
    <3>3. cps \in Seq(M)
      BY <1>0, <2>1 DEF Marks
    <3> HIDE DEF M
    <3>4. [cps[c] EXCEPT !.hidden = b] \in M
      BY <3>1, <3>3
    <3>5. cps' \in Seq(M)
      BY <3>2, <3>3, <3>4
    <3> QED
      BY <3>5 DEF M, Marks
  <2> QED
    BY <1>0, <1>3, <2>1, ResultType DEF SetHidden
<1>4. ASSUME NEW c \in DOMAIN cps, CallRollback(c) PROVE TypeInv'
  <2> DEFINE gone == {q \in hist : cps[c].seq < q /\ q < Newest(hist)}
             survivors == {k \in DOMAIN cps : cps[k].seq <= cps[c].seq}
  <2>1. PICK order \in [1 .. Cardinality(survivors) -> survivors] :
          cps' = [i \in DOMAIN order |-> cps[order[i]]]
    BY <1>4 DEF CallRollback
  <2>2. ASSUME NEW n \in Nat, Len(log) <= n PROVE cps' \in Marks(n)
    <3> DEFINE M == [seq : 0 .. n, hidden : BOOLEAN]
               k == Cardinality(survivors)
    <3>1. cps \in Seq(M) /\ survivors \subseteq DOMAIN cps
      BY <1>0, <2>2 DEF Marks
    <3>2. k \in Nat
      <4> HIDE DEF M
      <4>0. DOMAIN cps = 1 .. Len(cps) /\ Len(cps) \in Nat
        BY <3>1
      <4>1. IsFiniteSet(DOMAIN cps)
        BY <4>0, FS_Interval
      <4> QED
        BY <3>1, <4>1, FS_Subset, FS_CardinalityType
    <3>3. \A i \in 1 .. k : order[i] \in DOMAIN cps
      BY <2>1, <3>1
    <3>4. DOMAIN order = 1 .. k
      BY <2>1
    <3> HIDE DEF M, k, survivors
    <3>5. \A i \in 1 .. k : cps[order[i]] \in M
      BY <3>1, <3>3
    <3>6. cps' = [i \in 1 .. k |-> cps[order[i]]]
      BY <2>1, <3>4
    <3>7. cps' \in Seq(M)
      BY <3>2, <3>5, <3>6
    <3> QED
      BY <3>7 DEF M, Marks
  <2>3. hist \ gone \in SUBSET hist /\ dropped \cup gone \in SUBSET (dropped \cup hist)
    OBVIOUS
  <2>4. /\ CallsLeft /\ floor' = Floor(log, hist \ gone) /\ Result(hist \ gone)
        /\ dropped' = dropped \cup gone
        /\ UNCHANGED <<strategy, cutoff, bounds, loaded, phase, base, owner, scan, restarts>>
    BY <1>4 DEF CallRollback
  <2> HIDE DEF gone, survivors
  <2> QED
    BY <2>2, <2>3, <2>4, ResultType
<1> QED
  BY <1>1, <1>2, <1>3, <1>4 DEF CallHide, CallExpand

LEMMA CommandType ==
  ASSUME TypeInv, CommandCompact \/ CommandReset \/ ResetHistory \/ Restart
  PROVE  TypeInv'
<1>1. Len(log) \in Nat /\ Fits(log, hist, bounds) /\ log \in Seq(Row)
  BY TypeFacts
<1>2. CASE CommandCompact
  <2> DEFINE k == NewCutoff(bounds)
             lg == Append(log, DigestRow(k))
             h == AboveCutoff(hist, k)
  <2>1. k \in 0 .. Len(log)
    <3>1. bounds \in SUBSET DOMAIN log
      BY <1>1 DEF Fits
    <3> QED
      BY <1>1, <3>1, NewCutoffType
  <2>2. Fits(lg, h, bounds) /\ Len(lg) = Len(log) + 1
    BY <1>1, <2>1, FitsCut
  <2>3. /\ log' = Append(lg, NoteRow) /\ hist' = Observe(log', h) /\ cutoff' = k
        /\ UNCHANGED <<strategy, cps, bounds, floor, loaded, phase, base, owner, scan,
                       dropped, restarts>>
    BY <1>2 DEF CommandCompact
  <2> HIDE DEF k, lg, h
  <2>4. Fits(log', hist', bounds') /\ Len(log') = Len(lg) + 1
    BY <1>1, <2>2, <2>3, FitsShown, ShownRows
  <2>5. Len(log') \in Nat /\ Len(log) <= Len(log') /\ k \in 0 .. Len(log')
    BY <1>1, <2>1, <2>2, <2>4
  <2> QED
    BY <2>3, <2>4, <2>5, Keeps, TypeFacts, Typed DEF Fits
<1>3. CASE CommandReset
  <2>1. /\ log' = Append(log, DigestRow(0)) /\ cutoff' = 0 /\ scan' = Len(log')
        /\ UNCHANGED <<strategy, hist, cps, bounds, floor, loaded, phase, base, owner,
                       dropped, restarts>>
    BY <1>3 DEF CommandReset
  <2>2. LogOK(log') /\ Len(log') = Len(log) + 1
    BY <1>1, <2>1, 0 \in 0 .. Len(log), FitsCut DEF Fits
  <2>3. Len(log') \in Nat /\ Len(log) <= Len(log') /\ 0 \in 0 .. Len(log')
        /\ Len(log') \in 0 .. Len(log')
    BY <1>1, <2>2
  <2> QED
    BY <2>1, <2>2, <2>3, Keeps, TypeFacts, Typed
<1>4. CASE ResetHistory
  <2> DEFINE pg == SubSeq(log, 1, scan)
  <2>1. scan \in 0 .. Len(log) /\ LogOK(log)
    BY TypeFacts
  <2>2. LogOK(pg) /\ DOMAIN pg = 1 .. scan
    BY <2>1, LogPrefix
  <2>3. /\ hist' = Recover(pg) /\ bounds' = Users(pg) /\ scan' = 0 /\ dropped' = {}
        /\ UNCHANGED <<strategy, log, cutoff, cps, floor, loaded, phase, base, owner, restarts>>
    BY <1>4 DEF ResetHistory
  <2> HIDE DEF pg
  <2>4. Recover(pg) \subseteq 1 .. scan /\ Users(pg) \subseteq 1 .. scan
    BY <2>2, RecoverExact DEF LogOK, Projected, Users
  <2>5. 1 .. scan \subseteq 1 .. Len(log) /\ 0 \in 0 .. Len(log)
    BY <1>1, <2>1
  <2> QED
    BY <2>1, <2>3, <2>4, <2>5, TypeFacts, Typed
<1>5. CASE Restart
  <2>1. <<>> \in Marks(Len(log))
    BY DEF Marks
  <2>2. restarts' \in 0 .. MaxRestarts
    BY <1>5, TypeFacts, BoundsAssumption DEF Restart
  <2>3. 0 \in 0 .. Len(log)
    BY <1>1
  <2> QED
    BY <1>5, <2>1, <2>2, <2>3, TypeFacts, Typed DEF Restart
<1> QED
  BY <1>2, <1>3, <1>4, <1>5

LEMMA TypeNext == ASSUME TypeInv, [Next]_vars PROVE TypeInv'
<1>1. CASE UNCHANGED vars
  BY <1>1 DEF vars, TypeInv, TypeOK, LogOK
<1> QED
  BY <1>1, StartTurnType, TurnType, CallType, CommandType DEF Next

(* The types hold, for every configuration, command and page limit.        *)
THEOREM TypeCorrect == Spec => []TypeOK
<1>1. TypeInv => TypeOK
  BY DEF TypeInv
<1>2. TypeInv /\ [Next]_vars => TypeInv'
  BY TypeNext
<1> QED
  BY TypeInit, <1>1, <1>2, PTL DEF Spec

-----------------------------------------------------------------------------
(* A call and its results in a log.                                        *)

Res(lg, a) == {q \in DOMAIN lg : lg[q].kind = "result" /\ lg[q].of = a}
Grp(lg, a) == {a} \cup Res(lg, a)

(* From a to n there is nothing but a, its results and digests.            *)
Tight(lg, a, n) == \A q \in a .. n : q \in Grp(lg, a) \/ lg[q].kind = "digest"

Contig(lg, a) == \A r \in Res(lg, a) : Tight(lg, a, r)

(* A cache h has all of a call and its results, or nothing, when they are  *)
(* together in the log and none of them is in d.                           *)
Whole(lg, h, d) ==
  \A a \in DOMAIN lg :
    lg[a].kind = "asst" /\ Contig(lg, a) /\ Grp(lg, a) \cap d = {}
      => Grp(lg, a) \subseteq h \/ Grp(lg, a) \cap h = {}

(* The results of a call follow it, numbered in their order, and a digest  *)
(* cuts just before a user message above it.                               *)
Ranked(lg) ==
  \A q \in DOMAIN lg : lg[q].kind = "result" =>
    /\ lg[q].of < q
    /\ lg[q].num = Cardinality({p \in Res(lg, lg[q].of) : p <= q})

CutsAt(lg, k) == k > 0 => k + 1 \in DOMAIN lg /\ lg[k + 1].kind = "user"

CutsWell(lg) == \A q \in DOMAIN lg : lg[q].kind = "digest" => CutsAt(lg, lg[q].of)

Rows(lg) == Ranked(lg) /\ CutsWell(lg)

LEMMA ResAppend ==
  ASSUME NEW lg \in Seq(Row), NEW r \in Row, NEW a
  PROVE  /\ Res(Append(lg, r), a) =
              IF r.kind = "result" /\ r.of = a THEN Res(lg, a) \cup {Len(lg) + 1}
              ELSE Res(lg, a)
         /\ Res(lg, a) \subseteq 1 .. Len(lg)
<1>1. /\ DOMAIN lg = 1 .. Len(lg) /\ Len(lg) \in Nat
      /\ DOMAIN Append(lg, r) = 1 .. Len(lg) + 1
      /\ \A q \in 1 .. Len(lg) : Append(lg, r)[q] = lg[q]
      /\ Append(lg, r)[Len(lg) + 1] = r
  BY AppendRow
<1> DEFINE l == Append(lg, r)
<1> HIDE DEF l
<1>2. \A q \in DOMAIN l : q = Len(lg) + 1 \/ q \in DOMAIN lg
  BY <1>1 DEF l
<1>3. \A q \in DOMAIN lg : q \in DOMAIN l /\ l[q] = lg[q]
  BY <1>1 DEF l
<1>4. Len(lg) + 1 \in DOMAIN l /\ l[Len(lg) + 1] = r
  BY <1>1 DEF l
<1>5. Res(l, a) = IF r.kind = "result" /\ r.of = a THEN Res(lg, a) \cup {Len(lg) + 1}
                  ELSE Res(lg, a)
  BY <1>2, <1>3, <1>4 DEF Res
<1> QED
  BY <1>1, <1>5 DEF l, Res

LEMMA ResFinite ==
  ASSUME NEW lg \in Seq(Row), NEW a, NEW S \in SUBSET Res(lg, a)
  PROVE  IsFiniteSet(S) /\ Cardinality(S) \in Nat
<1>1. DOMAIN lg = 1 .. Len(lg) /\ Len(lg) \in Nat
  OBVIOUS
<1>2. IsFiniteSet(1 .. Len(lg)) /\ S \subseteq 1 .. Len(lg)
  BY <1>1, FS_Interval DEF Res
<1> QED
  BY <1>2, FS_Subset, FS_CardinalityType

LEMMA RowFields ==
  ASSUME NEW lg \in Seq(Row), NEW q \in DOMAIN lg
  PROVE  lg[q] \in Row /\ lg[q].of \in Nat /\ lg[q].num \in Nat /\ q \in Nat
<1>1. lg[q] \in Row /\ q \in Nat
  OBVIOUS
<1> QED
  BY <1>1 DEF Row

LEMMA CutsAtAppend ==
  ASSUME NEW lg \in Seq(Row), NEW r \in Row, NEW k \in Nat, CutsAt(lg, k)
  PROVE  CutsAt(Append(lg, r), k)
BY AppendRow DEF CutsAt

(* A row that is no result.                                                *)
LEMMA RowsShown ==
  ASSUME NEW lg \in Seq(Row), NEW r \in Row, r.kind # "result", Rows(lg),
         r.kind = "digest" => CutsAt(lg, r.of)
  PROVE  Rows(Append(lg, r))
<1> DEFINE l == Append(lg, r)
           n == Len(lg) + 1
<1>1. /\ \A q \in DOMAIN l : q = n \/ (q \in DOMAIN lg /\ l[q] = lg[q])
      /\ l[n] = r
  BY AppendRow
<1>2. \A a : Res(l, a) = Res(lg, a)
  BY ResAppend
<1>3. \A q \in DOMAIN lg : lg[q].of \in Nat
  BY RowFields
<1>4. r.of \in Nat
  BY DEF Row
<1>5. \A k \in Nat : CutsAt(lg, k) => CutsAt(l, k)
  BY CutsAtAppend
<1> HIDE DEF l, n
<1>6. Ranked(l)
  BY <1>1, <1>2 DEF Rows, Ranked
<1>7. CutsWell(l)
  BY <1>1, <1>3, <1>4, <1>5 DEF Rows, CutsWell
<1> QED
  BY <1>6, <1>7 DEF Rows, l

LEMMA ResAppends ==
  ASSUME NEW lg \in Seq(Row), NEW r \in Row
  PROVE  \A a : Res(Append(lg, r), a) =
                  IF r.kind = "result" /\ r.of = a THEN Res(lg, a) \cup {Len(lg) + 1}
                  ELSE Res(lg, a)
BY ResAppend

(* The next result of a call.                                              *)
LEMMA RowsResult ==
  ASSUME NEW lg \in Seq(Row), Rows(lg), NEW o \in 0 .. Len(lg),
         NEW r \in Row, r = ResultRow(o, Cardinality(Res(lg, o)) + 1)
  PROVE  Rows(Append(lg, r))
<1> DEFINE l == Append(lg, r)
           n == Len(lg) + 1
<1>0. Len(lg) \in Nat /\ r.kind = "result" /\ r.of = o /\ r.num = Cardinality(Res(lg, o)) + 1
  BY DEF ResultRow
<1>1. /\ \A q \in DOMAIN l : q = n \/ (q \in DOMAIN lg /\ l[q] = lg[q] /\ q < n)
      /\ l[n] = r /\ \A q \in DOMAIN lg : q \in Nat
  BY AppendRow
<1>2. \A a : Res(l, a) = IF a = o THEN Res(lg, a) \cup {n} ELSE Res(lg, a)
  <2>1. \A a : Res(l, a) = IF r.kind = "result" /\ r.of = a THEN Res(lg, a) \cup {n}
                           ELSE Res(lg, a)
    BY ResAppends, Zenon
  <2> HIDE DEF l, n
  <2> QED
    BY <1>0, <2>1
<1>3. \A q \in DOMAIN lg : lg[q].of \in Nat
  BY RowFields
<1>5. \A k \in Nat : CutsAt(lg, k) => CutsAt(l, k)
  <2>1. ASSUME NEW k \in Nat, CutsAt(lg, k) PROVE CutsAt(Append(lg, r), k)
    BY <2>1, CutsAtAppend
  <2> QED
    BY <2>1
<1>6. \A a : Res(lg, a) \subseteq 1 .. Len(lg)
  BY ResAppend
<1>7. Cardinality(Res(lg, o) \cup {n}) = Cardinality(Res(lg, o)) + 1
  <2>1. n \notin Res(lg, o) /\ IsFiniteSet(Res(lg, o))
    BY <1>0, <1>6, ResFinite
  <2> QED
    BY <2>1, FS_AddElement
<1> HIDE DEF l
<1>8. CutsWell(l)
  BY <1>0, <1>1, <1>3, <1>5 DEF Rows, CutsWell
<1>9. Ranked(l)
  <2> SUFFICES ASSUME NEW q \in DOMAIN l, l[q].kind = "result"
               PROVE  /\ l[q].of < q
                      /\ l[q].num = Cardinality({p \in Res(l, l[q].of) : p <= q})
    BY DEF Ranked
  <2>1. CASE q = n
    <3>1. {p \in Res(l, o) : p <= n} = Res(lg, o) \cup {n}
      BY <1>0, <1>2, <1>6
    <3>2. l[q].of = o /\ l[q].num = Cardinality(Res(lg, o)) + 1
      BY <1>0, <1>1, <2>1
    <3>3. o < n
      BY <1>0
    <3> QED
      BY <1>7, <2>1, <3>1, <3>2, <3>3
  <2>2. CASE q # n
    <3>1. q \in DOMAIN lg /\ l[q] = lg[q] /\ q < n /\ q \in Nat
      BY <1>1, <2>2
    <3>2. {p \in Res(l, l[q].of) : p <= q} = {p \in Res(lg, lg[q].of) : p <= q}
      BY <1>0, <1>2, <3>1
    <3> QED
      BY <3>1, <3>2 DEF Rows, Ranked
  <2> QED
    BY <2>1, <2>2
<1> QED
  BY <1>8, <1>9 DEF Rows, l

(* What appending a row does to a call that is in the log already, when it *)
(* is not the call's own result.                                           *)
LEMMA GroupAppend ==
  ASSUME NEW lg \in Seq(Row), NEW r \in Row, NEW a \in DOMAIN lg,
         ~ (r.kind = "result" /\ r.of = a)
  PROVE  LET l == Append(lg, r)
         IN /\ l[a] = lg[a] /\ Grp(l, a) = Grp(lg, a)
            /\ Contig(l, a) => Contig(lg, a)
            /\ Len(lg) + 1 \notin Grp(l, a)
<1> DEFINE l == Append(lg, r)
<1>1. /\ \A q \in DOMAIN lg : l[q] = lg[q] /\ q <= Len(lg)
      /\ Res(l, a) = Res(lg, a) /\ Len(lg) \in Nat
      /\ DOMAIN lg = 1 .. Len(lg)
  BY AppendRow, ResAppend
<1> HIDE DEF l
<1>2. Grp(l, a) = Grp(lg, a) /\ l[a] = lg[a]
  BY <1>1 DEF Grp
<1>3. Len(lg) + 1 \notin Grp(l, a)
  BY <1>1, <1>2 DEF Grp, Res
<1>4. ASSUME Contig(l, a) PROVE Contig(lg, a)
  <2> SUFFICES ASSUME NEW s \in Res(lg, a), NEW q \in a .. s
               PROVE  q \in Grp(lg, a) \/ lg[q].kind = "digest"
    BY DEF Contig, Tight
  <2>1. q \in Grp(l, a) \/ l[q].kind = "digest"
    BY <1>1, <1>4 DEF Contig, Tight
  <2>2. q \in DOMAIN lg
    BY <1>1 DEF Res
  <2> QED
    BY <1>1, <1>2, <2>1, <2>2
<1> QED
  BY <1>2, <1>3, <1>4 DEF l

(* A row that is no result: with its entry in the cache, and without one   *)
(* when it is no assistant message.                                        *)
LEMMA WholeShown ==
  ASSUME NEW lg \in Seq(Row), NEW r \in Row, r.kind # "result", Ranked(lg),
         NEW h, NEW d, Whole(lg, h, d)
  PROVE  /\ Whole(Append(lg, r), h \cup {Len(lg) + 1}, d)
         /\ r.kind # "asst" => Whole(Append(lg, r), h, d)
<1> DEFINE l == Append(lg, r)
           n == Len(lg) + 1
<1>1. \A a \in DOMAIN lg : /\ l[a] = lg[a] /\ Grp(l, a) = Grp(lg, a)
                           /\ Contig(l, a) => Contig(lg, a)
                           /\ n \notin Grp(l, a)
  BY GroupAppend
<1>2. \A a \in DOMAIN l : a \in DOMAIN lg \/ a = n
  BY AppendRow
<1>3. l[n] = r
  BY AppendRow
<1>4. Grp(l, n) = {n}
  <2>1. Res(l, n) = Res(lg, n)
    BY ResAppend
  <2>2. Res(lg, n) = {}
    <3> SUFFICES ASSUME NEW q \in Res(lg, n) PROVE FALSE
      OBVIOUS
    <3>1. q \in 1 .. Len(lg) /\ n < q /\ Len(lg) \in Nat
      BY AppendRow DEF Res, Ranked
    <3> QED
      BY <3>1
  <2> QED
    BY <2>1, <2>2 DEF Grp
<1> HIDE DEF l, n
<1>5. Whole(l, h \cup {n}, d)
  BY <1>1, <1>2, <1>4 DEF Whole
<1>6. r.kind # "asst" => Whole(l, h, d)
  BY <1>1, <1>2, <1>3 DEF Whole
<1> QED
  BY <1>5, <1>6 DEF l, n

(* The next result of a call of which everything is in the cache, unless   *)
(* the log tears it apart or some of it is in d.                           *)
LEMMA WholeResult ==
  ASSUME NEW lg \in Seq(Row), NEW o \in 0 .. Len(lg), NEW r \in Row,
         r.kind = "result", r.of = o,
         NEW h, NEW d, Whole(lg, h, d),
         Tight(lg, o, Len(lg)) /\ Grp(lg, o) \cap d = {} => Grp(lg, o) \subseteq h
  PROVE  /\ Whole(Append(lg, r), h \cup {Len(lg) + 1}, d)
         /\ Tight(Append(lg, r), o, Len(lg) + 1) /\ Grp(Append(lg, r), o) \cap d = {}
              => Grp(Append(lg, r), o) \subseteq h \cup {Len(lg) + 1}
<1> DEFINE l == Append(lg, r)
           n == Len(lg) + 1
<1>1. \A a \in DOMAIN lg : a # o =>
        /\ l[a] = lg[a] /\ Grp(l, a) = Grp(lg, a)
        /\ Contig(l, a) => Contig(lg, a)
        /\ n \notin Grp(l, a)
  BY GroupAppend
<1>2. \A a \in DOMAIN l : a \in DOMAIN lg \/ a = n
  BY AppendRow
<1>3. l[n] = r /\ (\A q \in 1 .. Len(lg) : l[q] = lg[q]) /\ Len(lg) \in Nat
      /\ DOMAIN lg = 1 .. Len(lg)
  BY AppendRow
<1>4. Res(l, o) = Res(lg, o) \cup {n}
  BY ResAppend
<1>5. Grp(l, o) = Grp(lg, o) \cup {n}
  BY <1>4 DEF Grp
<1> HIDE DEF l
<1>6. ASSUME Tight(l, o, n), Grp(l, o) \cap d = {}
      PROVE  Grp(l, o) \subseteq h \cup {n}
  <2>1. Tight(lg, o, Len(lg))
    <3> SUFFICES ASSUME NEW q \in o .. Len(lg), q \notin Grp(lg, o)
                 PROVE  lg[q].kind = "digest"
      BY DEF Tight
    <3>1. q \in o .. n /\ q # n /\ q # o
      BY <1>3 DEF Grp
    <3>2. l[q].kind = "digest"
      BY <1>5, <1>6, <3>1 DEF Tight
    <3>3. q \in 1 .. Len(lg)
      BY <1>3, <3>1
    <3> QED
      BY <1>3, <3>2, <3>3
  <2> QED
    BY <1>5, <1>6, <2>1
<1>7. Whole(l, h \cup {n}, d)
  <2> SUFFICES ASSUME NEW a \in DOMAIN l, l[a].kind = "asst", Contig(l, a),
                      Grp(l, a) \cap d = {}
               PROVE  Grp(l, a) \subseteq h \cup {n} \/ Grp(l, a) \cap (h \cup {n}) = {}
    BY DEF Whole
  <2>1. a \in DOMAIN lg
    BY <1>2, <1>3
  <2>2. CASE a = o
    BY <1>4, <1>6, <2>2 DEF Contig
  <2>3. CASE a # o
    BY <1>1, <2>1, <2>3 DEF Whole
  <2> QED
    BY <2>2, <2>3
<1> QED
  BY <1>6, <1>7 DEF l, n

(* What is in a call and its results stands at its place or after it.      *)
LEMMA GroupAfter ==
  ASSUME NEW lg \in Seq(Row), Ranked(lg), NEW a \in Nat, NEW q \in Grp(lg, a)
  PROVE  q \in Nat /\ a <= q
<1>1. CASE q = a
  BY <1>1
<1>2. CASE q \in Res(lg, a)
  <2>1. q \in DOMAIN lg /\ lg[q].kind = "result" /\ lg[q].of = a
    BY <1>2 DEF Res
  <2>2. q \in Nat /\ a < q
    BY <2>1, RowFields DEF Ranked
  <2> QED
    BY <2>2
<1> QED
  BY <1>1, <1>2 DEF Grp

(* A cut just before a user message tears no call from its results.        *)
LEMMA WholeCut ==
  ASSUME NEW lg \in Seq(Row), Ranked(lg), NEW h \in SUBSET DOMAIN lg, NEW d,
         Whole(lg, h, d), NEW k \in Nat, CutsAt(lg, k)
  PROVE  Whole(lg, AboveCutoff(h, k), d)
<1> SUFFICES ASSUME NEW a \in DOMAIN lg, lg[a].kind = "asst", Contig(lg, a),
                    Grp(lg, a) \cap d = {}
             PROVE  \/ Grp(lg, a) \subseteq AboveCutoff(h, k)
                    \/ Grp(lg, a) \cap AboveCutoff(h, k) = {}
  BY DEF Whole
<1>1. Grp(lg, a) \subseteq h \/ Grp(lg, a) \cap h = {}
  BY DEF Whole
<1>2. a \in Nat /\ \A q \in Grp(lg, a) : q \in Nat /\ a <= q
  BY GroupAfter
<1>3. CASE k < a
  BY <1>1, <1>2, <1>3 DEF AboveCutoff
<1>4. CASE a <= k
  <2>1. ASSUME NEW q \in Grp(lg, a), q > k PROVE FALSE
    <3>1. k + 1 \in DOMAIN lg /\ lg[k + 1].kind = "user"
      BY <1>2, <1>4 DEF CutsAt
    <3>2. q \in Res(lg, a) /\ k + 1 \in a .. q
      BY <1>2, <1>4, <2>1 DEF Grp
    <3>3. k + 1 \in Grp(lg, a)
      BY <3>1, <3>2 DEF Contig, Tight
    <3> QED
      BY <3>1, <3>3 DEF Grp, Res
  <2> QED
    BY <2>1 DEF AboveCutoff
<1> QED
  BY <1>2, <1>3, <1>4

LEMMA WholeDrop ==
  ASSUME NEW lg, NEW h, NEW d, Whole(lg, h, d), NEW g \in SUBSET h
  PROVE  Whole(lg, h \ g, d \cup g)
BY DEF Whole

-----------------------------------------------------------------------------
(* The window.                                                             *)

LEMMA PinnedOf ==
  ASSUME NEW lg, NEW h \in SUBSET Nat
  PROVE  LET users == {q \in h : UserRole(lg, q)}
         IN \/ users = {} /\ Pinned(lg, h) = {}
            \/ \E u \in users : Pinned(lg, h) = {u} /\ \A q \in users : u <= q
<1> DEFINE users == {q \in h : UserRole(lg, q)}
<1>1. users \in SUBSET Nat
  OBVIOUS
<1>2. CASE users = {}
  BY <1>2 DEF Pinned
<1>3. CASE users # {}
  <2>1. Min(users) \in users /\ \A q \in users : Min(users) <= q
    <3> HIDE DEF users
    <3> QED
      BY <1>1, <1>3, MinOf
  <2>2. Pinned(lg, h) = {Min(users)}
    BY <1>3 DEF Pinned
  <2> QED
    BY <2>1, <2>2
<1> QED
  BY <1>2, <1>3

Later(h, q) == {p \in h : p > q}

(* pruneWindow leaves the cache as it is, or keeps the pinned entry alone, *)
(* or also a tail that begins with an entry that is no result or with the  *)
(* oldest one.                                                             *)
LEMMA PruneShape ==
  ASSUME NEW lg, NEW n \in Nat, NEW h \in SUBSET (1 .. n)
  PROVE  \/ /\ PruneWindow(lg, h) = h
            /\ WindowSize = 1 => Cardinality(h) <= 1
         \/ WindowSize = 1 /\ PruneWindow(lg, h) = Pinned(lg, h)
         \/ /\ WindowSize # 1
            /\ \E head \in h :
                 /\ PruneWindow(lg, h) = {q \in h : q >= head} \cup Pinned(lg, h)
                 /\ lg[head].kind # "result" \/ \A q \in h : head <= q
<1> DEFINE recent == {q \in h : Cardinality(Later(h, q)) < WindowSize - 1}
           clean == {q \in h : q <= Min(recent) /\ lg[q].kind # "result"}
           head == SnapToPairSafeHead(lg, h, Min(recent))
           tail == IF recent = {} THEN {} ELSE {q \in h : q >= head}
<1>1. WindowSize \in Nat /\ IsFiniteSet(h) /\ Cardinality(h) \in Nat
  <2>1. IsFiniteSet(1 .. n)
    BY FS_Interval
  <2> QED
    BY <2>1, FS_Subset, FS_CardinalityType, ConfigAssumption
<1>2. \A q \in h : Cardinality(Later(h, q)) \in Nat
  BY <1>1, FS_Subset, FS_CardinalityType DEF Later
<1>3. recent \subseteq h /\ recent \in SUBSET Nat /\ h \in SUBSET Nat /\ h \in SUBSET (0 .. n)
  <2>1. recent \subseteq h
    OBVIOUS
  <2>2. \A q \in h : q \in Nat /\ q \in 0 .. n
    OBVIOUS
  <2> HIDE DEF recent
  <2> QED
    BY <2>1, <2>2
<1>4. WindowSize = 1 => recent = {}
  <2> SUFFICES ASSUME WindowSize = 1, NEW q \in recent PROVE FALSE
    OBVIOUS
  <2>1. Cardinality(Later(h, q)) < 0
    OBVIOUS
  <2>2. Cardinality(Later(h, q)) \in Nat
    BY <1>2, <1>3
  <2> QED
    BY <2>1, <2>2
<1>5. ASSUME WindowSize # 0, WindowSize # 1, h # {} PROVE recent # {}
  <2>1. Max(h) \in h /\ \A y \in h : Max(h) >= y
    BY <1>3, <1>5, MaxOf
  <2>2. PICK m \in h : \A y \in h : m >= y
    BY <2>1
  <2>3. Later(h, m) = {}
    <3>1. \A y \in h : y \in Nat /\ m \in Nat
      BY <1>3
    <3>2. \A y \in h : ~ (y > m)
      BY <2>2, <3>1
    <3> QED
      BY <3>2 DEF Later
  <2>4. Cardinality(Later(h, m)) = 0
    BY <2>3, FS_EmptySet
  <2> QED
    BY <1>1, <1>5, <2>2, <2>4
<1>6. PruneWindow(lg, h) = IF WindowSize = 0 \/ Cardinality(h) <= WindowSize THEN h
                          ELSE tail \cup Pinned(lg, h)
  BY DEF PruneWindow, Later
<1>7. CASE WindowSize = 0 \/ Cardinality(h) <= WindowSize
  BY <1>1, <1>6, <1>7
<1>8. CASE WindowSize # 0 /\ Cardinality(h) > WindowSize /\ WindowSize = 1
  BY <1>1, <1>4, <1>6, <1>8
<1>9. CASE WindowSize # 0 /\ Cardinality(h) > WindowSize /\ WindowSize # 1
  <2>1. recent # {}
    <3>1. h # {}
      BY <1>1, <1>9, FS_EmptySet
    <3> QED
      BY <1>5, <1>9, <3>1
  <2>3. Min(recent) \in recent
    <3> HIDE DEF recent
    <3> QED
      BY <1>3, <2>1, MinOf
  <2>4. PruneWindow(lg, h) = {q \in h : q >= head} \cup Pinned(lg, h)
    <3> HIDE DEF head, recent
    <3> QED
      BY <1>1, <1>6, <1>9, <2>1
  <2>5. head \in h /\ (lg[head].kind # "result" \/ \A q \in h : head <= q)
    <3> DEFINE m == Min(recent)
    <3>1. m \in h
      BY <1>3, <2>3
    <3> HIDE DEF recent, m
    <3>2. CASE clean = {}
      <4>1. head = Min(h)
        BY <3>1, <3>2 DEF SnapToPairSafeHead, Oldest, m
      <4>2. Min(h) \in h /\ \A q \in h : Min(h) <= q
        BY <1>3, <3>1, MinOf
      <4> QED
        BY <4>1, <4>2
    <3>3. CASE clean # {}
      <4>1. head = Max(clean)
        BY <3>3 DEF SnapToPairSafeHead
      <4>2. clean \in SUBSET (0 .. n) /\ clean \subseteq h
        BY <1>3
      <4>3. Max(clean) \in clean
        <5> HIDE DEF clean
        <5> QED
          BY <3>3, <4>2, MaxOf
      <4> QED
        BY <4>1, <4>3
    <3> QED
      BY <3>2, <3>3
  <2> HIDE DEF head
  <2> QED
    BY <1>9, <2>4, <2>5
<1> QED
  BY <1>1, <1>7, <1>8, <1>9

LEMMA PinnedApart ==
  ASSUME NEW lg, NEW h \in SUBSET Nat, NEW a, lg[a].kind = "asst"
  PROVE  Grp(lg, a) \cap Pinned(lg, h) = {}
<1>1. \A u \in Pinned(lg, h) : UserRole(lg, u)
  BY PinnedOf
<1> QED
  BY <1>1 DEF Grp, Res, UserRole

(* The window tears no call from its results.                              *)
LEMMA WholePruned ==
  ASSUME NEW lg \in Seq(Row), Ranked(lg), NEW h \in SUBSET Projected(lg), NEW d,
         Whole(lg, h, d)
  PROVE  Whole(lg, PruneWindow(lg, h), d)
<1>1. Len(lg) \in Nat /\ DOMAIN lg = 1 .. Len(lg) /\ h \in SUBSET (1 .. Len(lg))
      /\ h \in SUBSET Nat
  BY DEF Projected
<1> SUFFICES ASSUME NEW a \in DOMAIN lg, lg[a].kind = "asst", Contig(lg, a),
                    Grp(lg, a) \cap d = {}
             PROVE  \/ Grp(lg, a) \subseteq PruneWindow(lg, h)
                    \/ Grp(lg, a) \cap PruneWindow(lg, h) = {}
  BY DEF Whole
<1>2. Grp(lg, a) \subseteq h \/ Grp(lg, a) \cap h = {}
  BY DEF Whole
<1>3. Grp(lg, a) \cap Pinned(lg, h) = {}
  BY <1>1, PinnedApart
<1>4. a \in Nat /\ \A q \in Grp(lg, a) : q \in Nat /\ a <= q
  BY <1>1, GroupAfter
<1>5. CASE PruneWindow(lg, h) = h \/ PruneWindow(lg, h) = Pinned(lg, h)
  BY <1>2, <1>3, <1>5
<1>6. ASSUME NEW head \in h,
             PruneWindow(lg, h) = {q \in h : q >= head} \cup Pinned(lg, h),
             lg[head].kind # "result" \/ \A q \in h : head <= q
      PROVE  \/ Grp(lg, a) \subseteq PruneWindow(lg, h)
             \/ Grp(lg, a) \cap PruneWindow(lg, h) = {}
  <2>1. head \in Nat /\ lg[head].kind # "digest"
    BY <1>1 DEF Projected
  <2>2. CASE Grp(lg, a) \cap h = {}
    BY <1>3, <1>6, <2>2
  <2>3. CASE Grp(lg, a) \subseteq h
    <3>1. CASE head <= a
      <4>1. \A q \in Grp(lg, a) : q >= head
        BY <1>4, <2>1, <3>1
      <4> QED
        BY <1>6, <2>3, <4>1
    <3>2. CASE a < head
      <4>1. a \in h
        BY <2>3 DEF Grp
      <4>2. lg[head].kind # "result"
        BY <1>4, <1>6, <2>1, <3>2, <4>1
      <4>3. ASSUME NEW q \in Grp(lg, a), q >= head PROVE FALSE
        <5>1. q \in Res(lg, a) /\ head \in a .. q
          BY <1>4, <2>1, <3>2, <4>3 DEF Grp
        <5>2. head \in Grp(lg, a)
          BY <2>1, <5>1 DEF Contig, Tight
        <5> QED
          BY <1>4, <2>1, <3>2, <4>2, <5>2 DEF Grp, Res
      <4> QED
        BY <1>3, <1>6, <4>3
    <3> QED
      BY <1>4, <2>1, <3>1, <3>2
  <2> QED
    BY <1>2, <2>2, <2>3
<1> QED
  BY <1>1, <1>5, <1>6, PruneShape

(* ... nor does it cut into the call whose results are still being added.  *)
LEMMA OwnerPruned ==
  ASSUME NEW lg \in Seq(Row), Ranked(lg), NEW h \in SUBSET Projected(lg),
         NEW o \in Nat, Tight(lg, o, Len(lg)), Grp(lg, o) \subseteq h, WindowSize # 1
  PROVE  Grp(lg, o) \subseteq PruneWindow(lg, h)
<1>1. Len(lg) \in Nat /\ DOMAIN lg = 1 .. Len(lg) /\ h \in SUBSET (1 .. Len(lg))
      /\ h \in SUBSET Nat
  BY DEF Projected
<1>2. \A q \in Grp(lg, o) : q \in Nat /\ o <= q
  BY <1>1, GroupAfter
<1>3. ASSUME NEW head \in h,
             PruneWindow(lg, h) = {q \in h : q >= head} \cup Pinned(lg, h),
             lg[head].kind # "result" \/ \A q \in h : head <= q
      PROVE  Grp(lg, o) \subseteq PruneWindow(lg, h)
  <2>1. head \in Nat /\ lg[head].kind # "digest" /\ head <= Len(lg)
    BY <1>1 DEF Projected
  <2>2. o \in h
    BY DEF Grp
  <2>3. head <= o
    <3> SUFFICES ASSUME o < head PROVE FALSE
      BY <2>1
    <3>1. lg[head].kind # "result"
      BY <1>3, <2>1, <2>2
    <3>2. head \in o .. Len(lg)
      BY <1>1, <2>1
    <3>3. head \in Grp(lg, o)
      BY <2>1, <3>2 DEF Tight
    <3> QED
      BY <2>1, <3>1, <3>3 DEF Grp, Res
  <2>4. \A q \in Grp(lg, o) : q >= head
    BY <1>2, <2>1, <2>3
  <2> QED
    BY <1>3, <2>4
<1> QED
  BY <1>1, <1>3, PruneShape

(* With a window of one entry the cache is the pinned one.                 *)
Lone(lg, h) == \E u \in h : h = {u} /\ UserRole(lg, u)

LEMMA LonePruned ==
  ASSUME NEW lg, NEW n \in Nat, NEW h \in SUBSET (1 .. n), WindowSize = 1,
         NEW u \in h, UserRole(lg, u)
  PROVE  Lone(lg, PruneWindow(lg, h))
<1>1. CASE PruneWindow(lg, h) = Pinned(lg, h)
  <2>1. h \in SUBSET Nat
    OBVIOUS
  <2> QED
    BY <1>1, <2>1, PinnedOf DEF Lone
<1>2. CASE PruneWindow(lg, h) = h /\ Cardinality(h) <= 1
  <2>1. ASSUME NEW v \in h, v # u PROVE FALSE
    <3>0. IsFiniteSet(1 .. n)
      BY FS_Interval
    <3>1. IsFiniteSet(h)
      BY <3>0, FS_Subset
    <3>2. {u, v} \subseteq h /\ IsFiniteSet({u, v})
      BY <3>1, FS_Subset
    <3>3. Cardinality({u, v}) <= Cardinality(h)
      BY <3>1, <3>2, FS_Subset
    <3>4. Cardinality({u}) = 1 /\ IsFiniteSet({u})
      BY FS_Singleton
    <3>5. Cardinality({u} \cup {v}) = 2
      BY <2>1, <3>4, FS_AddElement
    <3>6. {u} \cup {v} = {u, v}
      OBVIOUS
    <3>7. Cardinality(h) \in Nat
      BY <3>1, FS_CardinalityType
    <3> QED
      BY <1>2, <3>3, <3>5, <3>6, <3>7
  <2>2. h = {u}
    BY <2>1
  <2> QED
    BY <1>2, <2>2 DEF Lone
<1> QED
  BY <1>1, <1>2, PruneShape

LEMMA LoneWhole ==
  ASSUME NEW lg, NEW h, NEW d, Lone(lg, h) PROVE Whole(lg, h, d)
BY DEF Lone, Whole, Grp, Res, UserRole

-----------------------------------------------------------------------------
(* A log with a cache of it that has calls whole, user messages, and       *)
(* dropped rows.                                                           *)

Good(lg, h, b, d) ==
  /\ lg \in Seq(Row) /\ Rows(lg)
  /\ h \in SUBSET Projected(lg)
  /\ b \subseteq Users(lg)
  /\ Whole(lg, h, d)

LEMMA WholeTrim ==
  ASSUME NEW lg \in Seq(Row), Ranked(lg), NEW h \in SUBSET Projected(lg), NEW d,
         Whole(lg, h, d)
  PROVE  Whole(lg, Trim(lg, h), d)
BY WholePruned DEF Trim

LEMMA UsersGrow ==
  ASSUME NEW lg \in Seq(Row), NEW r \in Row
  PROVE  /\ Users(lg) \subseteq Users(Append(lg, r))
         /\ r.kind = "user" => Len(lg) + 1 \in Users(Append(lg, r))
BY AppendRow DEF Users

LEMMA GoodShown ==
  ASSUME NEW lg, NEW h, NEW b, NEW d, Good(lg, h, b, d),
         NEW r \in Row, r.kind # "digest", r.kind # "result",
         NEW b2, b2 = b \/ (r.kind = "user" /\ b2 = b \cup {Len(lg) + 1})
  PROVE  Good(Append(lg, r), Observe(Append(lg, r), h), b2, d)
<1> DEFINE l == Append(lg, r)
           n == Len(lg) + 1
<1>1. lg \in Seq(Row) /\ Rows(lg) /\ Ranked(lg) /\ h \in SUBSET Projected(lg)
      /\ Whole(lg, h, d)
  BY DEF Good, Rows
<1>2. l \in Seq(Row) /\ Len(l) = n
  BY <1>1, AppendRow
<1>3. Rows(l) /\ Ranked(l)
  BY <1>1, RowsShown DEF Rows
<1>4. h \cup {n} \in SUBSET Projected(l)
  BY <1>1, ProjectedShown
<1>5. Whole(l, h \cup {n}, d)
  BY <1>1, WholeShown
<1>6. b2 \subseteq Users(l)
  BY <1>1, UsersGrow DEF Good
<1>7. Observe(l, h) \in SUBSET Projected(l)
  BY <1>1, Observed
<1> HIDE DEF l
<1>8. Observe(l, h) = Trim(l, h \cup {n})
  BY <1>2 DEF Observe
<1> HIDE DEF n
<1>9. Whole(l, Observe(l, h), d)
  BY <1>2, <1>3, <1>4, <1>5, <1>8, WholeTrim
<1> QED
  BY <1>2, <1>3, <1>6, <1>7, <1>9 DEF Good, l

LEMMA CutsAtNew ==
  ASSUME NEW lg \in Seq(Row), NEW us \in SUBSET Users(lg)
  PROVE  CutsAt(lg, NewCutoff(us)) /\ NewCutoff(us) \in 0 .. Len(lg)
<1> DEFINE kth == {q \in us : Cardinality({p \in us : p > q}) = Preserved}
<1>1. us \in SUBSET DOMAIN lg /\ kth \subseteq us /\ kth \in SUBSET Nat
  BY DEF Users
<1>2. NewCutoff(us) \in 0 .. Len(lg)
  BY <1>1, NewCutoffType
<1>3. CASE kth = {}
  BY <1>2, <1>3 DEF NewCutoff, CutsAt
<1>4. CASE kth # {}
  <2>1. NewCutoff(us) = Min(kth) - 1
    BY <1>4 DEF NewCutoff
  <2>2. Min(kth) \in kth
    <3> HIDE DEF kth
    <3> QED
      BY <1>1, <1>4, MinOf
  <2>3. Min(kth) \in Users(lg) /\ Min(kth) \in Nat
    BY <1>1, <2>2
  <2>4. NewCutoff(us) + 1 = Min(kth)
    <3> HIDE DEF kth
    <3> QED
      BY <2>1, <2>3
  <2> QED
    BY <1>2, <2>3, <2>4 DEF CutsAt, Users
<1> QED
  BY <1>3, <1>4

(* A digest row, and the cut of the cache that goes with it.               *)
LEMMA GoodCut ==
  ASSUME NEW lg, NEW h, NEW b, NEW d, Good(lg, h, b, d),
         NEW k \in 0 .. Len(lg), CutsAt(lg, k)
  PROVE  /\ Good(Append(lg, DigestRow(k)), AboveCutoff(h, k), b, d)
         /\ Good(Append(lg, DigestRow(k)), h, b, d)
<1> DEFINE r == DigestRow(k)
           l == Append(lg, DigestRow(k))
<1>1. lg \in Seq(Row) /\ Rows(lg) /\ Ranked(lg) /\ h \in SUBSET Projected(lg)
      /\ Whole(lg, h, d) /\ Len(lg) \in Nat
  BY DEF Good, Rows
<1>2. r \in Row /\ r.kind = "digest" /\ r.of = k /\ k \in Nat
  BY <1>1 DEF DigestRow, Row
<1>3. l \in Seq(Row) /\ Projected(l) = Projected(lg)
  BY <1>1, <1>2, AppendRow, ProjectedDigest
<1> HIDE DEF r
<1>4. Rows(l) /\ Ranked(l)
  BY <1>1, <1>2, RowsShown DEF Rows, r
<1>5. CutsAt(l, k)
  BY <1>1, <1>2, CutsAtAppend DEF r
<1>6. Whole(l, h, d)
  BY <1>1, <1>2, WholeShown DEF r
<1>7. b \subseteq Users(l)
  BY <1>1, <1>2, UsersGrow DEF Good, r
<1> HIDE DEF l
<1>8. h \in SUBSET DOMAIN l /\ AboveCutoff(h, k) \in SUBSET Projected(l)
  BY <1>1, <1>3 DEF Projected, AboveCutoff
<1>9. Whole(l, AboveCutoff(h, k), d)
  BY <1>2, <1>3, <1>4, <1>5, <1>6, <1>8, WholeCut
<1> QED
  BY <1>1, <1>3, <1>4, <1>6, <1>7, <1>8, <1>9 DEF Good, l

(* A rebuild.                                                              *)
LEMMA GoodRecover ==
  ASSUME NEW lg \in Seq(Row), Rows(lg)
  PROVE  Good(lg, Recover(lg), Users(lg), {})
<1>1. Whole(lg, Projected(lg), {})
  <2> SUFFICES ASSUME NEW a \in DOMAIN lg, lg[a].kind = "asst"
               PROVE  Grp(lg, a) \subseteq Projected(lg)
    BY DEF Whole
  <2> QED
    BY DEF Grp, Res, Projected
<1>2. CutsAt(lg, LoggedCutoff(lg)) /\ LoggedCutoff(lg) \in Nat
  <2> DEFINE D == {q \in DOMAIN lg : lg[q].kind = "digest"}
  <2>1. CASE D = {}
    BY <2>1 DEF LoggedCutoff, CutsAt
  <2>2. CASE D # {}
    <3>1. D \in SUBSET (0 .. Len(lg)) /\ Len(lg) \in Nat
      OBVIOUS
    <3>2. Max(D) \in D
      <4> HIDE DEF D
      <4> QED
        BY <2>2, <3>1, MaxOf
    <3>3. LoggedCutoff(lg) = lg[Max(D)].of
      BY <2>2 DEF LoggedCutoff
    <3>4. lg[Max(D)].of \in Nat
      BY <3>2, RowFields
    <3> QED
      BY <3>2, <3>3, <3>4 DEF Rows, CutsWell
  <2> QED
    BY <2>1, <2>2
<1> DEFINE h == AboveCutoff(Projected(lg), LoggedCutoff(lg))
<1>3. Whole(lg, h, {})
  BY <1>1, <1>2, WholeCut DEF Rows, Projected
<1>4. h \in SUBSET Projected(lg) /\ Recover(lg) = Trim(lg, h)
  BY DEF Recover, AboveCutoff
<1>5. Whole(lg, Recover(lg), {})
  <2> HIDE DEF h
  <2> QED
    BY <1>3, <1>4, WholeTrim DEF Rows
<1> QED
  BY <1>5, RecoverExact DEF Good

LEMMA ShownKinds ==
  /\ UserRow.kind = "user" /\ NoteRow.kind = "note"
  /\ \A n \in Nat : AsstRow(n).kind = "asst" /\ AsstRow(n).num = n
  /\ \A a, i \in Nat : ResultRow(a, i).kind = "result" /\ ResultRow(a, i).of = a
BY DEF UserRow, NoteRow, AsstRow, ResultRow

LEMMA GoodDrained ==
  ASSUME NEW lg, NEW h, NEW d, Good(lg, h, bounds, d), NEW late \in Late,
         Drained(lg, h, late)
  PROVE  Good(log', hist', bounds', d)
<1>1. lg \in Seq(Row)
  BY DEF Good
<1>2. CASE late = "none"
  BY <1>2 DEF Drained
<1>3. CASE late = "user"
  <2>1. log' = Append(lg, UserRow) /\ hist' = Observe(log', h)
        /\ bounds' = bounds \cup {Len(log')}
    BY <1>3 DEF Drained
  <2>2. Len(log') = Len(lg) + 1
    BY <1>1, <2>1, AppendRow, ShownRows
  <2> QED
    BY <2>1, <2>2, GoodShown, ShownRows, ShownKinds
<1>4. CASE late = "note"
  <2>1. log' = Append(lg, NoteRow) /\ hist' = Observe(log', h) /\ bounds' = bounds
    BY <1>4 DEF Drained
  <2> QED
    BY <2>1, GoodShown, ShownRows, ShownKinds
<1> QED
  BY <1>2, <1>3, <1>4 DEF Late

-----------------------------------------------------------------------------
(* A window of one entry never has a call in it: its only entry is a       *)
(* message of the user role.                                               *)

Alone == strategy = "window" /\ WindowSize = 1

LEMMA LoneTrim ==
  ASSUME NEW lg \in Seq(Row), NEW h \in SUBSET DOMAIN lg, Alone, NEW u \in h, UserRole(lg, u)
  PROVE  Lone(lg, Trim(lg, h))
<1>1. Len(lg) \in Nat /\ h \in SUBSET (1 .. Len(lg))
  OBVIOUS
<1> QED
  BY <1>1, LonePruned DEF Trim, Alone

LEMMA LoneShown ==
  ASSUME NEW lg \in Seq(Row), NEW h \in SUBSET Projected(lg), Alone,
         NEW r \in Row, r.kind # "digest",
         Lone(lg, h) \/ r.kind = "user"
  PROVE  Lone(Append(lg, r), Observe(Append(lg, r), h))
<1> DEFINE l == Append(lg, r)
           n == Len(lg) + 1
<1>1. /\ l \in Seq(Row) /\ Len(l) = n /\ l[n] = r
      /\ \A q \in DOMAIN lg : l[q] = lg[q]
  BY AppendRow
<1>2. h \cup {n} \in SUBSET Projected(l)
  BY ProjectedShown
<1>3. \E u \in h \cup {n} : UserRole(l, u)
  <2>1. CASE r.kind = "user"
    BY <1>1, <2>1 DEF UserRole
  <2>2. CASE Lone(lg, h)
    <3>1. PICK u \in h : UserRole(lg, u)
      BY <2>2 DEF Lone
    <3>2. UserRole(l, u)
      BY <1>1, <3>1 DEF UserRole, Projected
    <3> QED
      BY <3>2
  <2> QED
    BY <2>1, <2>2
<1> HIDE DEF l
<1>4. Observe(l, h) = Trim(l, h \cup {n})
  BY <1>1 DEF Observe
<1>5. h \cup {n} \in SUBSET DOMAIN l
  BY <1>2 DEF Projected
<1> HIDE DEF n
<1> QED
  BY <1>1, <1>3, <1>4, <1>5, LoneTrim DEF l

LEMMA LoneDrained ==
  ASSUME NEW lg \in Seq(Row), NEW h \in SUBSET Projected(lg), Alone, Lone(lg, h),
         NEW late \in Late, Drained(lg, h, late)
  PROVE  Lone(log', hist')
<1>1. CASE late = "none"
  BY <1>1 DEF Drained
<1>2. CASE late = "user"
  <2>1. log' = Append(lg, UserRow) /\ hist' = Observe(log', h)
    BY <1>2 DEF Drained
  <2> QED
    BY <2>1, LoneShown, ShownRows
<1>3. CASE late = "note"
  <2>1. log' = Append(lg, NoteRow) /\ hist' = Observe(log', h)
    BY <1>3 DEF Drained
  <2> QED
    BY <2>1, LoneShown, ShownRows
<1> QED
  BY <1>1, <1>2, <1>3 DEF Late

-----------------------------------------------------------------------------
(* The invariant behind WholeOrGone: a cache has all of a call and its     *)
(* results or nothing, and all of the call whose results are being added.  *)

OwnerWhole ==
  phase = "tools" /\ Tight(log, owner, Len(log)) /\ Grp(log, owner) \cap dropped = {}
    => Grp(log, owner) \subseteq hist \/ Alone

AloneUser == phase # "idle" /\ Alone => Lone(log, hist)

GroupInv == Good(log, hist, bounds, dropped) /\ OwnerWhole /\ AloneUser

LEMMA GroupInit == Init => GroupInv
<1> SUFFICES ASSUME Init PROVE GroupInv
  OBVIOUS
<1>1. log = <<>> /\ DOMAIN log = {} /\ log \in Seq(Row) /\ hist = {} /\ bounds = {}
      /\ phase = "idle"
  BY DEF Init
<1> QED
  BY <1>1 DEF GroupInv, Good, Rows, Ranked, CutsWell, Whole, OwnerWhole, AloneUser

(* When a step leaves no tool running.                                     *)
LEMMA GroupRest ==
  ASSUME Good(log', hist', bounds', dropped'), phase' # "tools",
         (phase' # "idle" /\ Alone') => Lone(log', hist')
  PROVE  GroupInv'
BY DEF GroupInv, OwnerWhole, AloneUser, Good, Rows, Ranked, CutsWell, CutsAt, Whole, Grp,
       Res, Contig, Tight, Lone, UserRole, Users, Projected

LEMMA PageAll ==
  ASSUME PageLimit >= MaxLog, NEW lg \in Seq(Row), Len(lg) <= MaxLog
  PROVE  Page(lg) = lg
<1>1. PageLimit \in Nat /\ MaxLog \in Nat /\ Len(lg) \in Nat
  BY ConfigAssumption, BoundsAssumption
<1> QED
  BY <1>1, SubSeqAll DEF Page

LEMMA StartTurnGroup ==
  ASSUME GroupInv, CacheInv, PageLimit >= MaxLog, StartTurn PROVE GroupInv'
<1> DEFINE lg == Append(log, UserRow)
           h == IF loaded THEN Observe(lg, hist) ELSE Recover(Page(lg))
           us == IF loaded THEN bounds \cup {Len(lg)} ELSE Users(Page(lg))
           d == IF loaded THEN dropped ELSE {}
<1>1. /\ Good(log, hist, bounds, dropped) /\ Room(2) /\ log \in Seq(Row) /\ Rows(log)
      /\ Len(log) \in Nat /\ hist \in SUBSET Projected(log)
      /\ LoggedCutoff(log) \in 0 .. Len(log)
  BY DEF GroupInv, Good, StartTurn, CacheInv, Sound
<1>2. lg \in Seq(Row) /\ Len(lg) = Len(log) + 1 /\ lg[Len(log) + 1] = UserRow
  BY <1>1, AppendRow, ShownRows
<1>3. Rows(lg)
  BY <1>1, RowsShown, ShownRows, ShownKinds
<1>4. Page(lg) = lg
  <2>1. Len(lg) <= MaxLog
    BY <1>1, <1>2, BoundsAssumption DEF Room
  <2> HIDE DEF lg
  <2> QED
    BY <1>2, <2>1, PageAll
<1>5. Good(lg, h, us, d)
  <2>1. CASE loaded
    <3>1. Good(lg, Observe(lg, hist), bounds \cup {Len(log) + 1}, dropped)
      BY <1>1, GoodShown, ShownRows, ShownKinds
    <3> QED
      BY <1>2, <2>1, <3>1
  <2>2. CASE ~loaded
    <3> HIDE DEF lg
    <3> QED
      BY <1>2, <1>3, <1>4, <2>2, GoodRecover
  <2> QED
    BY <2>1, <2>2
<1>6. ASSUME Alone PROVE Lone(lg, h)
  <2>1. CASE loaded
    BY <1>1, <1>6, <2>1, LoneShown, ShownRows, ShownKinds
  <2>2. CASE ~loaded
    <3>1. LoggedCutoff(lg) = LoggedCutoff(log)
      BY <1>1, CutoffShown, ShownRows
    <3>2. Len(lg) > LoggedCutoff(lg) /\ Len(lg) \in Projected(lg) /\ UserRole(lg, Len(lg))
      BY <1>1, <1>2, <3>1, ShownKinds DEF Projected, UserRole
    <3> HIDE DEF lg
    <3> DEFINE k == {q \in Projected(lg) : q > LoggedCutoff(lg)}
    <3>3. k \in SUBSET DOMAIN lg /\ Len(lg) \in k
      BY <3>2 DEF Projected
    <3>4. h = Trim(lg, k)
      BY <1>4, <2>2 DEF Recover
    <3> HIDE DEF k
    <3> QED
      BY <1>2, <1>6, <3>2, <3>3, <3>4, LoneTrim
  <2> QED
    BY <2>1, <2>2
<1> HIDE DEF lg, h, us, d
<1>7. /\ bounds' = us /\ phase' = "model" /\ dropped' = d /\ strategy' = strategy
  BY DEF StartTurn, us, d, lg
<1>8. CASE log' = lg /\ hist' = h
  BY <1>5, <1>6, <1>7, <1>8, GroupRest DEF Alone
<1>9. CASE /\ strategy = "summarize"
           /\ log' = Append(lg, DigestRow(NewCutoff(us)))
           /\ hist' = AboveCutoff(h, NewCutoff(us))
  <2>1. CutsAt(lg, NewCutoff(us)) /\ NewCutoff(us) \in 0 .. Len(lg)
    BY <1>5, CutsAtNew DEF Good
  <2>2. Good(log', hist', us, d)
    BY <1>5, <1>9, <2>1, GoodCut
  <2> QED
    BY <1>7, <1>9, <2>2, GroupRest DEF Alone
<1> QED
  BY <1>8, <1>9 DEF StartTurn, ShouldCompact, lg, h, us

(* The model calls tools: the window keeps the new call.                   *)
LEMMA ModelCallsGroup ==
  ASSUME GroupInv, NEW n \in 1 .. MaxCalls, ModelCalls(n) PROVE GroupInv'
<1> DEFINE r == AsstRow(n)
<1>1. /\ Good(log, hist, bounds, dropped) /\ log \in Seq(Row) /\ Len(log) \in Nat
      /\ hist \in SUBSET Projected(log) /\ Rows(log)
  BY DEF GroupInv, Good
<1>2. /\ log' = Append(log, r) /\ hist' = Observe(log', hist) /\ owner' = Len(log')
      /\ phase' = "tools" /\ phase = "model"
      /\ UNCHANGED <<strategy, bounds, dropped>>
  BY DEF ModelCalls
<1>3. r \in Row /\ r.kind = "asst"
  BY ShownRows, ShownKinds
<1> HIDE DEF r
<1>4. Good(log', hist', bounds', dropped')
  BY <1>1, <1>2, <1>3, GoodShown
<1>5. Len(log') = Len(log) + 1 /\ log' \in Seq(Row)
  BY <1>1, <1>2, <1>3, AppendRow
<1>6. Alone => Lone(log', hist')
  <2>1. Alone => Lone(log, hist)
    BY <1>2 DEF GroupInv, AloneUser
  <2> QED
    BY <1>1, <1>2, <1>3, <2>1, LoneShown
<1>7. Res(log', owner') = {}
  <2> SUFFICES ASSUME NEW q \in Res(log', owner') PROVE FALSE
    OBVIOUS
  <2>1. q \in DOMAIN log' /\ log'[q].kind = "result" /\ log'[q].of = owner'
    BY DEF Res
  <2>2. owner' < q
    BY <1>4, <2>1 DEF Good, Rows, Ranked
  <2>3. q \in Nat /\ q <= Len(log')
    BY <1>5, <2>1
  <2> QED
    BY <1>1, <1>2, <1>5, <2>2, <2>3
<1>8. ASSUME ~Alone PROVE Grp(log', owner') \subseteq hist'
  <2>1. hist' = Trim(log', hist \cup {Len(log')})
    BY <1>2 DEF Observe
  <2>2. CASE strategy # "window"
    <3>1. hist \cup {Len(log')} \in SUBSET Nat
      BY <1>1, <1>5 DEF Projected
    <3> QED
      BY <1>2, <1>7, <2>1, <2>2, TrimSubset DEF Grp, Trim
  <2>3. CASE strategy = "window"
    <3>1. Tight(log', owner', Len(log'))
      <4>1. \A q \in Len(log') .. Len(log') : q = Len(log')
        BY <1>5
      <4> QED
        BY <1>2, <4>1 DEF Tight, Grp
    <3>2. hist \cup {Len(log')} \in SUBSET Projected(log')
      BY <1>1, <1>2, <1>3, <1>5, ProjectedShown
    <3>3. WindowSize # 1 /\ Grp(log', owner') \subseteq hist \cup {Len(log')}
      BY <1>2, <1>7, <1>8, <2>3 DEF Alone, Grp
    <3>4. owner' \in Nat /\ Ranked(log')
      BY <1>2, <1>4, <1>5 DEF Good, Rows
    <3>5. Trim(log', hist \cup {Len(log')}) = PruneWindow(log', hist \cup {Len(log')})
      BY <2>3 DEF Trim
    <3> QED
      BY <1>5, <2>1, <3>1, <3>2, <3>3, <3>4, <3>5, OwnerPruned
  <2> QED
    BY <2>2, <2>3
<1>9. OwnerWhole'
  <2>1. Alone' = Alone
    BY <1>2 DEF Alone
  <2> QED
    BY <1>8, <2>1 DEF OwnerWhole, Grp, Res
<1>10. AloneUser'
  BY <1>2, <1>6 DEF AloneUser, Alone, Lone, UserRole
<1>11. Good(log, hist, bounds, dropped)'
  BY <1>4 DEF Good, Rows, Ranked, CutsWell, CutsAt, Whole, Grp, Res, Contig, Tight, Users,
              Projected
<1> QED
  BY <1>9, <1>10, <1>11 DEF GroupInv

(* A result is added, to the cache without the rows that the tool took out *)
(* of it.                                                                  *)
LEMMA ResultGroup ==
  ASSUME GroupInv, TypeInv, CallsLeft, NEW g \in SUBSET hist, Result(hist \ g),
         dropped' = dropped \cup g, Alone => g = {},
         UNCHANGED <<strategy, bounds, owner, phase>>
  PROVE  GroupInv'
<1> DEFINE r == ResultRow(owner, Answered + 1)
           h == hist \ g
           d == dropped \cup g
           n == Len(log) + 1
<1>1. /\ log \in Seq(Row) /\ Len(log) \in Nat /\ Rows(log) /\ Ranked(log)
      /\ hist \in SUBSET Projected(log) /\ bounds \subseteq Users(log)
      /\ Whole(log, hist, dropped)
  BY DEF GroupInv, Good, Rows
<1>2. owner \in 0 .. Len(log) /\ owner \in Nat /\ phase = "tools"
  BY TypeFacts DEF CallsLeft
<1>3. Answered = Cardinality(Res(log, owner)) /\ Answered \in Nat
  BY <1>1, AnsweredType DEF Answered, Res
<1>4. r \in Row /\ r.kind = "result" /\ r.of = owner
      /\ r = ResultRow(owner, Cardinality(Res(log, owner)) + 1)
  <2>1. Answered + 1 \in Nat
    BY <1>3
  <2> QED
    BY <1>2, <1>3, <2>1, ShownRows, ShownKinds
<1>5. log' = Append(log, r) /\ hist' = Observe(log', h)
  BY DEF Result
<1> HIDE DEF r, h, d
<1>6. log' \in Seq(Row) /\ Len(log') = n /\ hist' = Trim(log', h \cup {n})
  BY <1>1, <1>4, <1>5, AppendRow DEF Observe
<1>7. Rows(log') /\ Ranked(log')
  <2>1. Rows(Append(log, r))
    BY <1>1, <1>2, <1>4, RowsResult
  <2> QED
    BY <1>5, <2>1 DEF Rows
<1>8. h \in SUBSET Projected(log) /\ h \cup {n} \in SUBSET Projected(log')
  BY <1>1, <1>4, <1>5, ProjectedShown DEF h
<1>9. hist' \in SUBSET Projected(log')
  BY <1>1, <1>4, <1>5, <1>8, Observed
<1>10. bounds' \subseteq Users(log')
  BY <1>1, <1>4, <1>5, UsersGrow
<1>11. Alone => Lone(log', hist')
  <2> SUFFICES ASSUME Alone PROVE Lone(log', hist')
    OBVIOUS
  <2>1. Lone(log, h)
    BY <1>2 DEF GroupInv, AloneUser, h
  <2> QED
    BY <1>1, <1>4, <1>5, <1>8, <2>1, LoneShown
<1>12. ASSUME ~Alone
       PROVE  /\ Whole(log', hist', d)
              /\ Tight(log', owner, n) /\ Grp(log', owner) \cap d = {}
                   => Grp(log', owner) \subseteq hist'
  <2>1. Whole(log, h, d)
    BY <1>1, WholeDrop DEF h, d
  <2>2. Tight(log, owner, Len(log)) /\ Grp(log, owner) \cap d = {} => Grp(log, owner) \subseteq h
    BY <1>2, <1>12 DEF GroupInv, OwnerWhole, h, d
  <2>3. /\ Whole(log', h \cup {n}, d)
        /\ Tight(log', owner, n) /\ Grp(log', owner) \cap d = {}
             => Grp(log', owner) \subseteq h \cup {n}
    BY <1>1, <1>2, <1>4, <1>5, <2>1, <2>2, WholeResult
  <2>4. Whole(log', hist', d)
    BY <1>6, <1>7, <1>8, <2>3, WholeTrim
  <2>5. ASSUME Tight(log', owner, n), Grp(log', owner) \subseteq h \cup {n}
        PROVE  Grp(log', owner) \subseteq hist'
    <3>1. CASE strategy = "window"
      <4>1. hist' = PruneWindow(log', h \cup {n}) /\ WindowSize # 1
        BY <1>6, <1>12, <3>1 DEF Trim, Alone
      <4> QED
        BY <1>2, <1>6, <1>7, <1>8, <2>5, <4>1, OwnerPruned
    <3>2. CASE strategy # "window"
      <4>1. hist' = h \cup {n}
        BY <1>6, <3>2 DEF Trim
      <4> QED
        BY <2>5, <4>1
    <3> QED
      BY <3>1, <3>2
  <2> QED
    BY <2>3, <2>4, <2>5
<1>13. Whole(log', hist', d)
  BY <1>11, <1>12, LoneWhole
<1>14. d = dropped'
  BY DEF d
<1>15. OwnerWhole'
  <2>1. Alone' = Alone /\ owner' = owner
    BY DEF Alone
  <2> QED
    BY <1>6, <1>12, <1>14, <2>1 DEF OwnerWhole, Grp, Res, Tight
<1>16. AloneUser'
  BY <1>11 DEF AloneUser, Alone, Lone, UserRole
<1>17. Good(log', hist', bounds', dropped')
  BY <1>6, <1>7, <1>9, <1>10, <1>13, <1>14 DEF Good
<1>18. Good(log, hist, bounds, dropped)'
  BY <1>17 DEF Good, Rows, Ranked, CutsWell, CutsAt, Whole, Grp, Res, Contig, Tight, Users,
              Projected
<1> QED
  BY <1>15, <1>16, <1>18 DEF GroupInv

LEMMA CallGroup ==
  ASSUME GroupInv, TypeInv,
         \/ CallWork
         \/ CallCheckpoint
         \/ \E c \in DOMAIN cps : CallHide(c) \/ CallExpand(c) \/ CallRollback(c)
  PROVE  GroupInv'
<1>1. CASE CallWork \/ CallCheckpoint \/ \E c \in DOMAIN cps : CallHide(c) \/ CallExpand(c)
  <2>1. /\ CallsLeft /\ Result(hist)
        /\ UNCHANGED <<strategy, bounds, owner, phase, dropped>>
    BY <1>1 DEF CallWork, CallCheckpoint, CallHide, CallExpand, SetHidden
  <2>2. hist \ {} = hist /\ dropped' = dropped \cup {}
    BY <2>1
  <2>3. Result(hist \ {})
    BY <2>1, <2>2
  <2> QED
    BY <2>1, <2>2, <2>3, ResultGroup
<1>2. ASSUME NEW c \in DOMAIN cps, CallRollback(c) PROVE GroupInv'
  <2> DEFINE gone == {q \in hist : cps[c].seq < q /\ q < Newest(hist)}
  <2>1. /\ CallsLeft /\ Result(hist \ gone) /\ dropped' = dropped \cup gone
        /\ UNCHANGED <<strategy, bounds, owner, phase>>
    BY <1>2 DEF CallRollback
  <2>2. Alone => gone = {}
    <3> SUFFICES ASSUME Alone PROVE gone = {}
      OBVIOUS
    <3>1. PICK u \in hist : hist = {u}
      BY <2>1 DEF GroupInv, AloneUser, CallsLeft, Lone
    <3>2. u \in 0 .. Len(log) /\ Len(log) \in Nat
      BY TypeFacts DEF Fits
    <3>3. Newest(hist) \in hist
      BY <3>1, <3>2, NewestType
    <3> QED
      BY <3>1, <3>2, <3>3
  <2> HIDE DEF gone
  <2>3. gone \in SUBSET hist
    BY DEF gone
  <2> QED
    BY <2>1, <2>2, <2>3, ResultGroup
<1> QED
  BY <1>1, <1>2

LEMMA TurnGroup ==
  ASSUME GroupInv, TypeInv,
         \/ \E late \in Late : ModelAnswers(late)
         \/ \E said \in BOOLEAN : Reprompt(said)
         \/ \E late \in Late, measured \in BOOLEAN : Advance(late, measured)
         \/ Note
         \/ Abort
  PROVE  GroupInv'
<1>1. /\ Good(log, hist, bounds, dropped) /\ log \in Seq(Row) /\ Len(log) \in Nat
      /\ hist \in SUBSET Projected(log)
  BY DEF GroupInv, Good
<1> DEFINE said1 == Append(log, AsstRow(0))
<1>2. /\ Good(said1, Observe(said1, hist), bounds, dropped)
      /\ Alone /\ Lone(log, hist) => Lone(said1, Observe(said1, hist))
  BY <1>1, GoodShown, LoneShown, ShownRows, ShownKinds
<1>3. ASSUME NEW lg, NEW h, Good(lg, h, bounds, dropped), NEW late \in Late,
             Drained(lg, h, late), phase' # "tools", UNCHANGED <<strategy, dropped>>,
             Alone /\ phase' # "idle" => Lone(lg, h)
      PROVE  GroupInv'
  <2>1. Good(log', hist', bounds', dropped')
    BY <1>3, GoodDrained
  <2>2. Alone /\ phase' # "idle" => Lone(log', hist')
    BY <1>3, LoneDrained DEF Good
  <2>3. Alone' = Alone
    BY <1>3 DEF Alone
  <2> QED
    BY <1>3, <2>1, <2>2, <2>3, GroupRest
<1>4. Alone /\ phase # "idle" => Lone(log, hist)
  BY DEF GroupInv, AloneUser
<1> HIDE DEF said1
<1>5. ASSUME NEW late \in Late, ModelAnswers(late) PROVE GroupInv'
  BY <1>2, <1>3, <1>5 DEF ModelAnswers, said1
<1>6. ASSUME NEW said \in BOOLEAN, Reprompt(said) PROVE GroupInv'
  <2>1. "note" \in Late /\ phase = "model" /\ phase' = "model"
        /\ UNCHANGED <<strategy, dropped>>
    BY <1>6 DEF Late, Reprompt
  <2>2. CASE said
    <3>1. Drained(said1, Observe(said1, hist), "note")
      BY <1>6, <2>2 DEF Reprompt, said1
    <3> QED
      BY <1>2, <1>3, <1>4, <2>1, <3>1
  <2>3. CASE ~said
    <3>1. Drained(log, hist, "note")
      BY <1>6, <2>3 DEF Reprompt
    <3> QED
      BY <1>1, <1>3, <1>4, <2>1, <3>1
  <2> QED
    BY <2>2, <2>3
<1>7. ASSUME NEW late \in Late, NEW measured \in BOOLEAN, Advance(late, measured)
      PROVE  GroupInv'
  BY <1>1, <1>3, <1>4, <1>7 DEF Advance
<1>8. ASSUME Note PROVE GroupInv'
  <2>1. /\ Drained(log, hist, "note") /\ "note" \in Late
        /\ UNCHANGED <<strategy, dropped, phase, owner>>
        /\ phase = "idle" \/ phase = "tools"
    BY <1>8 DEF Note, Late
  <2>2. CASE phase = "idle"
    BY <1>1, <1>3, <2>1, <2>2
  <2>3. CASE phase = "tools"
    <3>1. Good(log', hist', bounds', dropped')
      BY <1>1, <2>1, GoodDrained
    <3>2. Alone => Lone(log', hist')
      BY <1>1, <1>4, <2>1, <2>3, LoneDrained
    <3>3. log' = Append(log, NoteRow)
      BY <2>1 DEF Drained
    <3>4. log'[Len(log) + 1].kind = "note" /\ Len(log') = Len(log) + 1
      BY <1>1, <3>3, AppendRow, ShownRows, ShownKinds
    <3>5. owner \in 0 .. Len(log)
      BY TypeFacts
    <3>6. ~Tight(log', owner', Len(log'))
      <4>1. Len(log') \in owner' .. Len(log') /\ Len(log') # owner'
        BY <1>1, <2>1, <3>4, <3>5
      <4>2. Len(log') \notin Grp(log', owner') /\ log'[Len(log')].kind # "digest"
        BY <3>4, <4>1 DEF Grp, Res
      <4> QED
        BY <4>1, <4>2 DEF Tight
    <3>7. OwnerWhole'
      BY <3>6 DEF OwnerWhole, Tight, Grp, Res
    <3>8. AloneUser'
      BY <2>1, <3>2 DEF AloneUser, Alone, Lone, UserRole
    <3>9. Good(log, hist, bounds, dropped)'
      BY <3>1 DEF Good, Rows, Ranked, CutsWell, CutsAt, Whole, Grp, Res, Contig, Tight,
                  Users, Projected
    <3> QED
      BY <3>7, <3>8, <3>9 DEF GroupInv
  <2> QED
    BY <2>1, <2>2, <2>3
<1>9. ASSUME Abort PROVE GroupInv'
  <2> DEFINE g == hist \ KeptTo(hist, base)
  <2>1. hist' = hist \ g /\ dropped' = dropped \cup g /\ phase' = "idle"
        /\ UNCHANGED <<log, bounds>>
    BY <1>9 DEF Abort, KeptTo
  <2> HIDE DEF g
  <2>2. Whole(log, hist', dropped')
    <3>1. g \in SUBSET hist
      BY DEF g
    <3>2. Whole(log, hist \ (g \cap hist), dropped \cup (g \cap hist))
      BY <1>1, WholeDrop DEF Good
    <3>3. g \cap hist = g
      BY <3>1
    <3> QED
      BY <2>1, <3>2, <3>3
  <2>3. Good(log', hist', bounds', dropped')
    BY <1>1, <2>1, <2>2 DEF Good
  <2> QED
    BY <2>1, <2>3, GroupRest
<1> QED
  BY <1>5, <1>6, <1>7, <1>8, <1>9

LEMMA CommandGroup ==
  ASSUME GroupInv, TypeInv, CacheInv, "command" \notin Midway,
         CommandCompact \/ CommandReset \/ ResetHistory \/ Restart
  PROVE  GroupInv'
<1>1. /\ Good(log, hist, bounds, dropped) /\ log \in Seq(Row) /\ Len(log) \in Nat
      /\ Rows(log) /\ bounds \in SUBSET Users(log)
  BY DEF GroupInv, Good
<1>2. CASE CommandCompact
  <2> DEFINE k == NewCutoff(bounds)
             lg == Append(log, DigestRow(k))
             h == AboveCutoff(hist, k)
  <2>1. CutsAt(log, k) /\ k \in 0 .. Len(log)
    BY <1>1, CutsAtNew
  <2>2. Good(lg, h, bounds, dropped)
    <3> HIDE DEF k
    <3> QED
      BY <1>1, <2>1, GoodCut
  <2>3. /\ log' = Append(lg, NoteRow) /\ hist' = Observe(log', h)
        /\ phase' = "idle" /\ UNCHANGED <<bounds, dropped>>
    BY <1>2 DEF CommandCompact, CommandNow
  <2> HIDE DEF lg, h
  <2>4. Good(log', hist', bounds', dropped')
    BY <2>2, <2>3, GoodShown, ShownRows, ShownKinds
  <2> QED
    BY <2>3, <2>4, GroupRest
<1>3. CASE CommandReset
  <2>1. /\ log' = Append(log, DigestRow(0)) /\ phase' = "idle"
        /\ UNCHANGED <<hist, bounds, dropped>>
    BY <1>3 DEF CommandReset, CommandNow
  <2>2. CutsAt(log, 0) /\ 0 \in 0 .. Len(log)
    BY <1>1 DEF CutsAt
  <2>3. Good(log', hist', bounds', dropped')
    BY <1>1, <2>1, <2>2, GoodCut
  <2> QED
    BY <2>1, <2>3, GroupRest
<1>4. CASE ResetHistory
  <2>1. /\ dropped' = {} /\ scan = Len(log) /\ phase' = "idle"
        /\ hist' = Recover(SubSeq(log, 1, scan)) /\ bounds' = Users(SubSeq(log, 1, scan))
        /\ UNCHANGED log
    BY <1>4 DEF ResetHistory, CacheInv, QuietReset
  <2>2. SubSeq(log, 1, scan) = log
    BY <1>1, <2>1, SubSeqAll
  <2>3. Good(log', hist', bounds', dropped')
    BY <1>1, <2>1, <2>2, GoodRecover
  <2> QED
    BY <2>1, <2>3, GroupRest
<1>5. CASE Restart
  <2>1. Good(log', hist', bounds', dropped')
    BY <1>1, <1>5 DEF Restart, Good, Whole
  <2> QED
    BY <1>5, <2>1, GroupRest DEF Restart
<1> QED
  BY <1>2, <1>3, <1>4, <1>5

LEMMA GroupNext ==
  ASSUME GroupInv, TypeInv, CacheInv, PageLimit >= MaxLog, "command" \notin Midway,
         [Next]_vars
  PROVE  GroupInv'
<1>1. CASE UNCHANGED vars
  <2>1. UNCHANGED <<log, hist, bounds, dropped, phase, owner, strategy>>
    BY <1>1 DEF vars
  <2>2. Good(log', hist', bounds', dropped')
    BY <2>1 DEF GroupInv
  <2>3. Good(log, hist, bounds, dropped)'
    BY <2>2 DEF Good, Rows, Ranked, CutsWell, CutsAt, Whole, Grp, Res, Contig, Tight, Users,
                Projected
  <2>4. OwnerWhole'
    <3>1. OwnerWhole
      BY DEF GroupInv
    <3> QED
      BY <2>1, <3>1 DEF OwnerWhole, Alone, Tight, Grp, Res
  <2>5. AloneUser'
    <3>1. AloneUser
      BY DEF GroupInv
    <3> QED
      BY <2>1, <3>1 DEF AloneUser, Alone, Lone, UserRole
  <2> QED
    BY <2>3, <2>4, <2>5 DEF GroupInv
<1> QED
  BY <1>1, StartTurnGroup, ModelCallsGroup, CallGroup, TurnGroup, CommandGroup DEF Next

-----------------------------------------------------------------------------
(* From the cache to the prompt.                                           *)

LEMMA PromptHas ==
  ASSUME NEW x \in hist, Paired(x) PROVE Place(x) \in Prompt
BY DEF Prompt

LEMMA PromptOnly ==
  ASSUME NEW m \in Prompt
  PROVE  \E x \in hist : m = Place(x) \/ (m = Place(x) - 1 /\ log[x].kind # "result")
BY DEF Prompt, NoteBefore

Upto(S, m) == {p \in S : p <= m}

(* The ranks of a finite set of rows go from one to its size.              *)
LEMMA RankExists ==
  ASSUME NEW n \in Nat, NEW S \in SUBSET (1 .. n), NEW k \in 1 .. Cardinality(S)
  PROVE  \E q \in S : Cardinality({p \in S : p <= q}) = k
<1>1. IsFiniteSet(1 .. n) /\ S \subseteq 1 .. n
  BY FS_Interval
<1>2. IsFiniteSet(S) /\ Cardinality(S) \in Nat
  BY <1>1, FS_Subset, FS_CardinalityType
<1>3. k \in Nat /\ k > 0 /\ k <= Cardinality(S)
  BY <1>2
<1>4. ASSUME NEW m PROVE IsFiniteSet(Upto(S, m)) /\ Cardinality(Upto(S, m)) \in Nat
  <2>1. Upto(S, m) \subseteq S
    BY DEF Upto
  <2> QED
    BY <1>2, <2>1, FS_Subset, FS_CardinalityType
<1> DEFINE T == {m \in Nat : Cardinality(Upto(S, m)) >= k}
<1>5. n \in T /\ T \in SUBSET Nat
  <2>1. \A p \in S : p <= n
    BY <1>1
  <2>2. Upto(S, n) = S
    BY <2>1 DEF Upto
  <2> QED
    BY <1>2, <1>3, <2>2
<1>6. PICK m \in T : \A y \in T : m <= y
  <2> HIDE DEF T
  <2> QED
    BY <1>5, LeastExists
<1>7. m \in Nat /\ Cardinality(Upto(S, m)) >= k
  BY <1>6
<1>8. m > 0
  <2> SUFFICES ASSUME m = 0 PROVE FALSE
    BY <1>7
  <2>1. \A p \in S : ~ (p <= 0)
    BY <1>1
  <2>2. Upto(S, m) = {}
    BY <2>1 DEF Upto
  <2>3. Cardinality(Upto(S, m)) = 0
    BY <2>2, FS_EmptySet
  <2> QED
    BY <1>3, <1>7, <2>3
<1>9. m - 1 \in Nat /\ Cardinality(Upto(S, m - 1)) < k
  <2>1. m - 1 \in Nat
    BY <1>7, <1>8
  <2>2. m - 1 \notin T
    BY <1>6, <1>7, <2>1
  <2>3. Cardinality(Upto(S, m - 1)) \in Nat
    BY <1>4
  <2>4. ~ (Cardinality(Upto(S, m - 1)) >= k)
    BY <2>1, <2>2
  <2> QED
    BY <1>3, <2>1, <2>3, <2>4
<1>10. \A p \in S : p \in Nat
  BY <1>1
<1>11. m \in S
  <2> SUFFICES ASSUME m \notin S PROVE FALSE
    OBVIOUS
  <2>1. \A p \in S : p <= m <=> p <= m - 1
    BY <1>7, <1>10
  <2>2. Upto(S, m) = Upto(S, m - 1)
    BY <2>1 DEF Upto
  <2> QED
    BY <1>3, <1>4, <1>7, <1>9, <2>2
<1>12. Cardinality(Upto(S, m)) = Cardinality(Upto(S, m - 1)) + 1
  <2>1. \A p \in S : p <= m <=> p <= m - 1 \/ p = m
    BY <1>7, <1>10
  <2>0. ~ (m <= m - 1)
    BY <1>7
  <2>2. Upto(S, m) = Upto(S, m - 1) \cup {m} /\ m \notin Upto(S, m - 1)
    BY <1>11, <2>0, <2>1, Zenon DEF Upto
  <2>3. IsFiniteSet(Upto(S, m - 1))
    BY <1>4
  <2> QED
    BY <2>2, <2>3, FS_AddElement
<1>13. Cardinality(Upto(S, m)) = k
  <2>1. Cardinality(Upto(S, m)) \in Nat /\ Cardinality(Upto(S, m - 1)) \in Nat
    BY <1>4
  <2> QED
    BY <1>3, <1>7, <1>9, <1>12, <2>1
<1> QED
  BY <1>11, <1>13 DEF Upto

LEMMA WholeShownInPrompt ==
  ASSUME GroupInv, TypeInv, NEW a \in DOMAIN log, LoggedWhole(a), Group(a) \subseteq hist
  PROVE  ShownWhole(Prompt, a)
<1>1. /\ log \in Seq(Row) /\ Len(log) \in Nat /\ DOMAIN log = 1 .. Len(log) /\ Ranked(log)
      /\ hist \in SUBSET Projected(log)
  BY DEF GroupInv, Good, Rows
<1>2. Group(a) = Grp(log, a) /\ Group(a) = {a} \cup Res(log, a)
  BY DEF Group, Grp, Res
<1>3. log[a].kind = "asst" /\ log[a].num > 0 /\ Cardinality(Group(a)) = log[a].num + 1
      /\ \A q \in a .. Max(Group(a)) : q \in Group(a) \/ log[q].kind = "digest"
  BY DEF LoggedWhole
<1>4. Res(log, a) \in SUBSET (1 .. Len(log)) /\ log[a].num \in Nat
  BY <1>1, RowFields DEF Res
<1>5. Cardinality(Res(log, a)) = log[a].num
  <2>1. a \notin Res(log, a)
    BY <1>3 DEF Res
  <2>2. IsFiniteSet(Res(log, a)) /\ Cardinality(Res(log, a)) \in Nat
    BY <1>1, ResFinite
  <2>3. Cardinality(Res(log, a) \cup {a}) = Cardinality(Res(log, a)) + 1
    BY <2>1, <2>2, FS_AddElement
  <2>4. Group(a) = Res(log, a) \cup {a}
    BY <1>2
  <2> QED
    BY <1>3, <1>4, <2>2, <2>3, <2>4
<1>6. \A q \in Group(a) : q <= Max(Group(a)) /\ q \in Nat
  <2>1. Group(a) \in SUBSET (0 .. Len(log)) /\ a \in Group(a)
    BY <1>1, <1>2, <1>4
  <2>2. \A q \in Group(a) : Max(Group(a)) >= q
    BY <1>1, <2>1, MaxOf
  <2>3. Max(Group(a)) \in Group(a)
    BY <1>1, <2>1, MaxOf
  <2> QED
    BY <2>1, <2>2, <2>3
<1>7. \A x \in hist : x \in Nat /\ log[x].kind # "digest"
  BY <1>1 DEF Projected
<1>8. Place(a) \in Prompt
  BY <1>2, <1>3, PromptHas DEF Paired
<1>9. ASSUME NEW k \in 1 .. log[a].num
      PROVE  \E q \in Group(a) :
               /\ log[q] = ResultRow(a, k) /\ Place(q) \in Prompt
               /\ \A m \in Prompt : Place(a) < m /\ m < Place(q) =>
                    \E r \in Group(a) : m = Place(r) /\ log[r].kind = "result" /\ log[r].num < k
  <2>1. PICK q \in Res(log, a) : Cardinality({p \in Res(log, a) : p <= q}) = k
    BY <1>1, <1>4, <1>5, RankExists
  <2>2. q \in DOMAIN log /\ log[q].kind = "result" /\ log[q].of = a /\ q \in Group(a)
    BY <1>2 DEF Res
  <2>3. log[q].num = k
    BY <1>1, <2>1, <2>2 DEF Ranked
  <2>4. log[q] = ResultRow(a, k)
    <3>1. log[q] \in Row
      BY <1>1, <2>2, RowFields
    <3> QED
      BY <2>2, <2>3, <3>1 DEF Row, ResultRow
  <2>5. Place(q) \in Prompt
    BY <2>2, PromptHas DEF Paired
  <2>6. ASSUME NEW m \in Prompt, Place(a) < m, m < Place(q)
        PROVE  \E r \in Group(a) : m = Place(r) /\ log[r].kind = "result" /\ log[r].num < k
    <3>1. PICK x \in hist : m = Place(x) \/ (m = Place(x) - 1 /\ log[x].kind # "result")
      BY PromptOnly
    <3>2. x \in Nat /\ a \in Nat /\ q \in Nat /\ a < x /\ x <= q
      <4>1. x \in Nat /\ a \in Nat /\ q \in Nat
        BY <1>1, <1>7, <2>2
      <4> QED
        BY <2>6, <3>1, <4>1 DEF Place
    <3>3. Max(Group(a)) >= q /\ Max(Group(a)) \in Nat
      <4>1. Group(a) \in SUBSET (0 .. Len(log)) /\ a \in Group(a)
        BY <1>1, <1>2, <1>4
      <4>2. Max(Group(a)) \in Group(a) /\ \A y \in Group(a) : Max(Group(a)) >= y
        BY <1>1, <4>1, MaxOf
      <4> QED
        BY <1>6, <2>2, <4>2
    <3>4. x \in Group(a)
      BY <1>3, <1>7, <3>2, <3>3
    <3>5. x \in Res(log, a) /\ log[x].kind = "result" /\ log[x].of = a /\ x \in DOMAIN log
      BY <1>2, <3>2, <3>4 DEF Res
    <3>6. m = Place(x) /\ x < q
      BY <2>6, <3>1, <3>2, <3>5 DEF Place
    <3>7. log[x].num = Cardinality({p \in Res(log, a) : p <= x})
      BY <1>1, <3>5 DEF Ranked
    <3>8. Cardinality({p \in Res(log, a) : p <= x}) < k
      <4> DEFINE X == {p \in Res(log, a) : p <= x}
                 Q == {p \in Res(log, a) : p <= q}
      <4>1. IsFiniteSet(X) /\ Cardinality(X) \in Nat /\ IsFiniteSet(Q) /\ Cardinality(Q) \in Nat
        <5>1. X \in SUBSET Res(log, a) /\ Q \in SUBSET Res(log, a)
          OBVIOUS
        <5> HIDE DEF X, Q
        <5> QED
          BY <1>1, <5>1, ResFinite
      <4>2. X \subseteq Q /\ X # Q
        <5>1. q \in Q /\ q \notin X
          BY <3>2, <3>6
        <5>2. X \subseteq Q
          BY <1>4, <3>2
        <5> QED
          BY <5>1, <5>2
      <4>3. Cardinality(Q) = k
        BY <2>1
      <4> HIDE DEF X, Q
      <4>4. Cardinality(X) < Cardinality(Q)
        BY <4>1, <4>2, FS_Subset
      <4> QED
        BY <4>3, <4>4 DEF X
    <3> QED
      BY <3>4, <3>5, <3>6, <3>7, <3>8
  <2> QED
    BY <2>2, <2>4, <2>5, <2>6
<1> QED
  BY <1>8, <1>9 DEF ShownWhole

LEMMA GoneFromPrompt ==
  ASSUME GroupInv, NEW q \in Nat, q \notin hist PROVE Place(q) \notin Prompt
<1>1. \A x \in hist : x \in Nat
  BY DEF GroupInv, Good, Projected
<1> SUFFICES ASSUME Place(q) \in Prompt PROVE FALSE
  OBVIOUS
<1>2. PICK x \in hist :
        Place(q) = Place(x) \/ (Place(q) = Place(x) - 1 /\ log[x].kind # "result")
  BY PromptOnly
<1> QED
  BY <1>1, <1>2 DEF Place

LEMMA GroupImplies == ASSUME GroupInv, TypeInv PROVE WholeOrGone
<1> SUFFICES ASSUME NEW a \in DOMAIN log, LoggedWhole(a), Group(a) \cap dropped = {}
             PROVE  \/ ShownWhole(Prompt, a)
                    \/ \A q \in Group(a) : Place(q) \notin Prompt
  BY DEF WholeOrGone
<1>1. log \in Seq(Row) /\ DOMAIN log = 1 .. Len(log) /\ Len(log) \in Nat
      /\ Whole(log, hist, dropped)
  BY DEF GroupInv, Good
<1>2. Group(a) = Grp(log, a) /\ Group(a) \in SUBSET (0 .. Len(log)) /\ a \in Group(a)
  BY <1>1 DEF Group, Grp, Res
<1>3. Contig(log, a)
  <2>1. Max(Group(a)) \in Group(a) /\ \A y \in Group(a) : Max(Group(a)) >= y
    BY <1>1, <1>2, MaxOf
  <2> SUFFICES ASSUME NEW r \in Res(log, a), NEW q \in a .. r
               PROVE  q \in Grp(log, a) \/ log[q].kind = "digest"
    BY DEF Contig, Tight
  <2>2. r \in Group(a)
    BY <1>2 DEF Grp
  <2>3. q \in a .. Max(Group(a))
    BY <1>1, <1>2, <2>1, <2>2
  <2> QED
    BY <1>2, <2>3 DEF LoggedWhole
<1>4. Group(a) \subseteq hist \/ Group(a) \cap hist = {}
  BY <1>1, <1>2, <1>3 DEF Whole, LoggedWhole
<1>5. CASE Group(a) \subseteq hist
  BY <1>5, WholeShownInPrompt
<1>6. CASE Group(a) \cap hist = {}
  <2>1. \A q \in Group(a) : q \in Nat /\ q \notin hist
    BY <1>2, <1>6
  <2> QED
    BY <2>1, GoneFromPrompt
<1> QED
  BY <1>4, <1>5, <1>6

(* The model never sees a part of a call and its results: whatever the     *)
(* strategy, no window, compaction, aborted turn, hidden segment, reset or *)
(* restart leaves a prompt with a call whose results are elsewhere, or the *)
(* other way round, as long as the log fits the page that materialise      *)
(* reads and no command runs in the middle of a turn (pruneWindow,         *)
(* snapToPairSafeHead, pruneToCutoff, shrinkHiddenEntry, Recover).         *)
THEOREM CallsStayWhole ==
  ASSUME PageLimit >= MaxLog, "command" \notin Midway
  PROVE  Spec => []WholeOrGone
<1> DEFINE Inv == TypeInv /\ CacheInv /\ GroupInv
<1>1. Init => Inv
  BY TypeInit, CacheInvInit, GroupInit
<1>2. Inv /\ [Next]_vars => Inv'
  BY TypeNext, CacheInvNext, GroupNext
<1>3. Inv => WholeOrGone
  BY GroupImplies
<1> HIDE DEF Inv
<1> QED
  BY <1>1, <1>2, <1>3, PTL DEF Spec

-----------------------------------------------------------------------------
(* The first message of the user role.                                     *)

Grows(lg, l) ==
  /\ lg \in Seq(Row) /\ l \in Seq(Row) /\ Len(lg) <= Len(l)
  /\ \A q \in DOMAIN lg : q \in DOMAIN l /\ l[q] = lg[q]

Begun(lg) == \E b \in DOMAIN lg : UserRole(lg, b)

Brief(lg, b) ==
  b \in DOMAIN lg /\ UserRole(lg, b) /\ \A q \in DOMAIN lg : UserRole(lg, q) => b <= q

(* No row of a log that is shown comes before it.                          *)
Led(lg) == \A q \in Projected(lg) : \E b \in DOMAIN lg : b <= q /\ UserRole(lg, b)

(* It is in the digest or in the cache.                                    *)
Carries(lg, h, c) == \A b \in DOMAIN lg : Brief(lg, b) => b <= c \/ b \in h

(* It is in what every checkpoint keeps.                                   *)
Marked(lg, m) == \A b \in DOMAIN lg, c \in DOMAIN m : Brief(lg, b) => b <= m[c].seq

LEMMA GrowsSelf == ASSUME NEW lg \in Seq(Row) PROVE Grows(lg, lg)
BY AppendRow DEF Grows

LEMMA GrowsAppend ==
  ASSUME NEW lg, NEW l, Grows(lg, l), NEW r \in Row PROVE Grows(lg, Append(l, r))
<1>1. /\ Append(l, r) \in Seq(Row) /\ Len(Append(l, r)) = Len(l) + 1 /\ Len(l) \in Nat
      /\ \A q \in DOMAIN l : q \in DOMAIN Append(l, r) /\ Append(l, r)[q] = l[q]
  BY AppendRow DEF Grows
<1>2. Len(lg) \in Nat
  BY DEF Grows
<1> QED
  BY <1>1, <1>2 DEF Grows

LEMMA BriefStays ==
  ASSUME NEW lg, NEW l, Grows(lg, l), Begun(lg)
  PROVE  Begun(l) /\ \A b \in DOMAIN l : Brief(l, b) => b \in DOMAIN lg /\ Brief(lg, b)
<1>1. Begun(l)
  BY DEF Begun, Grows, UserRole
<1>2. ASSUME NEW b \in DOMAIN l, Brief(l, b) PROVE b \in DOMAIN lg /\ Brief(lg, b)
  <2>1. PICK u \in DOMAIN lg : UserRole(lg, u)
    BY DEF Begun
  <2>2. u \in DOMAIN l /\ UserRole(l, u) /\ b <= u
    BY <1>2, <2>1 DEF Grows, UserRole, Brief
  <2>3. /\ DOMAIN lg = 1 .. Len(lg) /\ DOMAIN l = 1 .. Len(l) /\ Len(lg) \in Nat
        /\ Len(l) \in Nat
    BY DEF Grows
  <2>4. b \in DOMAIN lg
    BY <2>1, <2>2, <2>3
  <2> QED
    BY <1>2, <2>4 DEF Brief, Grows, UserRole
<1> QED
  BY <1>1, <1>2

LEMMA MarkedStays ==
  ASSUME NEW lg, NEW l, Grows(lg, l), Begun(lg), NEW m, Marked(lg, m) PROVE Marked(l, m)
BY BriefStays DEF Marked

LEMMA ProjectedStays ==
  ASSUME NEW lg, NEW l, Grows(lg, l) PROVE Projected(lg) \subseteq Projected(l)
BY DEF Grows, Projected

LEMMA LedAppend ==
  ASSUME NEW lg \in Seq(Row), Led(lg), NEW r \in Row,
         r.kind \in {"user", "note", "digest"} \/ Begun(lg)
  PROVE  Led(Append(lg, r)) /\ (r.kind \in {"user", "note"} \/ Begun(lg) => Begun(Append(lg, r)))
<1> DEFINE l == Append(lg, r)
           n == Len(lg) + 1
<1>1. /\ \A q \in DOMAIN lg : q \in DOMAIN l /\ l[q] = lg[q] /\ q <= n /\ q \in Nat
      /\ \A q \in DOMAIN l : q \in DOMAIN lg \/ q = n
      /\ n \in DOMAIN l /\ l[n] = r /\ n \in Nat
  BY AppendRow
<1> HIDE DEF l, n
<1>2. ASSUME r.kind \in {"user", "note"} \/ Begun(lg)
      PROVE  Begun(l) /\ \E b \in DOMAIN l : b <= n /\ UserRole(l, b)
  <2>1. CASE r.kind \in {"user", "note"}
    <3>1. n <= n /\ UserRole(l, n)
      BY <1>1, <2>1 DEF UserRole
    <3> QED
      BY <1>1, <3>1 DEF Begun
  <2>2. CASE Begun(lg)
    <3>1. PICK b \in DOMAIN lg : UserRole(lg, b)
      BY <2>2 DEF Begun
    <3>2. b \in DOMAIN l /\ UserRole(l, b) /\ b <= n
      BY <1>1, <3>1 DEF UserRole
    <3> QED
      BY <3>2 DEF Begun
  <2> QED
    BY <1>2, <2>1, <2>2
<1>3. ASSUME NEW q \in Projected(l) PROVE \E b \in DOMAIN l : b <= q /\ UserRole(l, b)
  <2>1. CASE q = n
    <3>1. r.kind # "digest"
      BY <1>1, <2>1 DEF Projected
    <3> QED
      BY <1>2, <2>1, <3>1
  <2>2. CASE q # n
    <3>1. q \in Projected(lg)
      BY <1>1, <2>2 DEF Projected
    <3>2. PICK b \in DOMAIN lg : b <= q /\ UserRole(lg, b)
      BY <3>1 DEF Led
    <3>3. b \in DOMAIN l /\ UserRole(l, b)
      BY <1>1, <3>2 DEF UserRole
    <3> QED
      BY <3>2, <3>3
  <2> QED
    BY <2>1, <2>2
<1> QED
  BY <1>2, <1>3 DEF Led, l

LEMMA LedBrief ==
  ASSUME NEW lg \in Seq(Row), Led(lg), NEW b \in DOMAIN lg, Brief(lg, b),
         NEW q \in Projected(lg)
  PROVE  b <= q
<1>1. PICK u \in DOMAIN lg : u <= q /\ UserRole(lg, u)
  BY DEF Led
<1>2. b <= u /\ b \in Nat /\ u \in Nat /\ q \in Nat
  BY <1>1 DEF Brief, Projected
<1> QED
  BY <1>1, <1>2

(* The window keeps it.                                                    *)
LEMMA CarriesTrim ==
  ASSUME NEW lg \in Seq(Row), NEW h \in SUBSET DOMAIN lg, NEW c, Carries(lg, h, c)
  PROVE  Carries(lg, Trim(lg, h), c)
<1>1. Len(lg) \in Nat /\ h \in SUBSET (1 .. Len(lg)) /\ h \in SUBSET Nat
  OBVIOUS
<1> SUFFICES ASSUME NEW b \in h, Brief(lg, b) PROVE b \in Trim(lg, h)
  BY DEF Carries
<1>2. b \in Pinned(lg, h)
  <2> DEFINE users == {q \in h : UserRole(lg, q)}
  <2>1. b \in users /\ \A q \in users : b <= q /\ q \in Nat /\ b \in Nat
    BY <1>1 DEF Brief
  <2>2. PICK u \in users : Pinned(lg, h) = {u} /\ \A q \in users : u <= q
    BY <1>1, <2>1, PinnedOf
  <2>3. u <= b /\ b <= u /\ u \in Nat /\ b \in Nat
    BY <2>1, <2>2
  <2>4. u = b
    BY <2>3
  <2> QED
    BY <2>2, <2>4
<1>3. b \in PruneWindow(lg, h)
  <2>1. \/ PruneWindow(lg, h) = h
        \/ PruneWindow(lg, h) = Pinned(lg, h)
        \/ \E head \in h : PruneWindow(lg, h) = {q \in h : q >= head} \cup Pinned(lg, h)
    BY <1>1, PruneShape
  <2> QED
    BY <1>2, <2>1
<1> QED
  BY <1>3 DEF Trim

LEMMA CarriesShown ==
  ASSUME NEW lg \in Seq(Row), NEW h \in SUBSET DOMAIN lg, NEW c, Begun(lg),
         Carries(lg, h, c), NEW r \in Row
  PROVE  Carries(Append(lg, r), Observe(Append(lg, r), h), c)
<1> DEFINE l == Append(lg, r)
           n == Len(lg) + 1
<1>1. l \in Seq(Row) /\ Len(l) = n /\ h \cup {n} \in SUBSET DOMAIN l
  BY AppendRow
<1>2. Grows(lg, l)
  BY GrowsSelf, GrowsAppend
<1> HIDE DEF l
<1>3. Carries(l, h \cup {n}, c)
  BY <1>2, BriefStays DEF Carries
<1> QED
  BY <1>1, <1>3, CarriesTrim DEF Observe, l

LEMMA CarriesCut ==
  ASSUME NEW lg \in Seq(Row), NEW h, NEW c \in Nat, Begun(lg), Carries(lg, h, c),
         NEW k \in Nat, c <= k
  PROVE  Carries(Append(lg, DigestRow(k)), AboveCutoff(h, k), k)
<1> DEFINE l == Append(lg, DigestRow(k))
<1>1. DigestRow(k) \in Row
  BY DEF DigestRow, Row
<1>2. Grows(lg, l)
  BY <1>1, GrowsSelf, GrowsAppend
<1> HIDE DEF l
<1>3. ASSUME NEW b \in DOMAIN l, Brief(l, b) PROVE b <= k \/ b \in AboveCutoff(h, k)
  <2>1. b \in DOMAIN lg /\ Brief(lg, b) /\ b \in Nat
    BY <1>2, <1>3, BriefStays
  <2>2. b <= c \/ b \in h
    BY <2>1 DEF Carries
  <2> QED
    BY <2>1, <2>2 DEF AboveCutoff
<1> QED
  BY <1>3 DEF Carries, l

LEMMA CarriesRecover ==
  ASSUME NEW lg \in Seq(Row), LoggedCutoff(lg) \in Nat
  PROVE  Carries(lg, Recover(lg), LoggedCutoff(lg))
<1> DEFINE h == {q \in Projected(lg) : q > LoggedCutoff(lg)}
<1>1. h \in SUBSET DOMAIN lg
  BY DEF Projected
<1>2. Carries(lg, h, LoggedCutoff(lg))
  <2> SUFFICES ASSUME NEW b \in DOMAIN lg, Brief(lg, b)
               PROVE  b <= LoggedCutoff(lg) \/ b \in h
    BY DEF Carries
  <2>1. b \in Projected(lg) /\ b \in Nat
    BY DEF Brief, UserRole, Projected
  <2> QED
    BY <2>1
<1> HIDE DEF h
<1>3. Carries(lg, Trim(lg, h), LoggedCutoff(lg))
  BY <1>1, <1>2, CarriesTrim
<1> QED
  BY <1>3 DEF Recover, h

-----------------------------------------------------------------------------
(* The invariant behind BriefKept, for every strategy.                     *)

BriefInv ==
  /\ Led(log)
  /\ loaded => Begun(log)
  /\ ~loaded => phase = "idle" /\ cps = <<>> /\ floor = {}
  /\ phase # "idle" => base \in DOMAIN log /\ UserRole(log, base) /\ hist # {}
  /\ loaded /\ scan = 0 => Carries(log, hist, cutoff)
  /\ Marked(log, cps)
  /\ floor \subseteq {0} \cup Projected(log)

LEMMA BriefInit == Init => BriefInv
<1> SUFFICES ASSUME Init PROVE BriefInv
  OBVIOUS
<1>1. /\ DOMAIN log = {} /\ cps = <<>> /\ DOMAIN cps = {} /\ floor = {} /\ phase = "idle"
      /\ loaded = FALSE
  BY DEF Init
<1> QED
  BY <1>1 DEF BriefInv, Led, Marked, Projected

(* A log that has begun, and a cache of it.                                *)
Told(lg, h, c) ==
  /\ lg \in Seq(Row) /\ h \in SUBSET Projected(lg) /\ c \in Nat
  /\ Led(lg) /\ Begun(lg) /\ Carries(lg, h, c)

LEMMA ToldShown ==
  ASSUME NEW lg, NEW h, NEW c, Told(lg, h, c), NEW r \in Row, r.kind # "digest"
  PROVE  Told(Append(lg, r), Observe(Append(lg, r), h), c)
<1>1. lg \in Seq(Row) /\ h \in SUBSET Projected(lg) /\ c \in Nat
      /\ Led(lg) /\ Begun(lg) /\ Carries(lg, h, c) /\ h \in SUBSET DOMAIN lg
  BY DEF Told, Projected
<1>2. Append(lg, r) \in Seq(Row) /\ Led(Append(lg, r)) /\ Begun(Append(lg, r))
  BY <1>1, AppendRow, LedAppend
<1>3. Observe(Append(lg, r), h) \in SUBSET Projected(Append(lg, r))
  BY <1>1, Observed
<1>4. Carries(Append(lg, r), Observe(Append(lg, r), h), c)
  BY <1>1, CarriesShown
<1> QED
  BY <1>1, <1>2, <1>3, <1>4 DEF Told

LEMMA ToldCut ==
  ASSUME NEW lg, NEW h, NEW c, Told(lg, h, c), NEW k \in Nat, c <= k
  PROVE  Told(Append(lg, DigestRow(k)), AboveCutoff(h, k), k)
<1>1. lg \in Seq(Row) /\ h \in SUBSET Projected(lg) /\ c \in Nat
      /\ Led(lg) /\ Begun(lg) /\ Carries(lg, h, c)
  BY DEF Told
<1>2. DigestRow(k) \in Row /\ DigestRow(k).kind = "digest"
  BY DEF DigestRow, Row
<1>3. /\ Append(lg, DigestRow(k)) \in Seq(Row) /\ Led(Append(lg, DigestRow(k)))
      /\ Begun(Append(lg, DigestRow(k)))
  BY <1>1, <1>2, AppendRow, LedAppend
<1>4. AboveCutoff(h, k) \in SUBSET Projected(Append(lg, DigestRow(k)))
  BY <1>1, <1>2, ProjectedDigest DEF AboveCutoff
<1>5. Carries(Append(lg, DigestRow(k)), AboveCutoff(h, k), k)
  BY <1>1, CarriesCut
<1> QED
  BY <1>3, <1>4, <1>5 DEF Told

LEMMA ToldDrained ==
  ASSUME NEW lg, NEW h, NEW c, Told(lg, h, c), NEW late \in Late, Drained(lg, h, late)
  PROVE  Told(log', hist', c)
<1>1. CASE late = "none"
  BY <1>1 DEF Drained
<1>2. CASE late = "user"
  <2>1. log' = Append(lg, UserRow) /\ hist' = Observe(log', h)
    BY <1>2 DEF Drained
  <2> QED
    BY <2>1, ToldShown, ShownRows
<1>3. CASE late = "note"
  <2>1. log' = Append(lg, NoteRow) /\ hist' = Observe(log', h)
    BY <1>3 DEF Drained
  <2> QED
    BY <2>1, ToldShown, ShownRows
<1> QED
  BY <1>1, <1>2, <1>3 DEF Late

LEMMA ToldNow == ASSUME BriefInv, CacheInv, loaded, scan = 0 PROVE Told(log, hist, cutoff)
BY DEF BriefInv, CacheInv, Sound, Told

(* A cache is not empty after a row was added to it, unless its window has *)
(* one entry.                                                              *)
LEMMA TrimSome ==
  ASSUME NEW lg \in Seq(Row), NEW h \in SUBSET DOMAIN lg, h # {}, ~Alone
  PROVE  Trim(lg, h) # {}
<1>1. Len(lg) \in Nat /\ h \in SUBSET (1 .. Len(lg))
  OBVIOUS
<1>2. CASE strategy # "window"
  BY <1>2 DEF Trim
<1>3. CASE strategy = "window"
  <2>1. WindowSize # 1 /\ Trim(lg, h) = PruneWindow(lg, h)
    BY <1>3 DEF Alone, Trim
  <2>2. \/ PruneWindow(lg, h) = h
        \/ \E head \in h : PruneWindow(lg, h) = {q \in h : q >= head} \cup Pinned(lg, h)
    BY <1>1, <2>1, PruneShape
  <2>3. \A head \in h : head \in Nat /\ head >= head
    BY <1>1
  <2> QED
    BY <2>1, <2>2, <2>3
<1> QED
  BY <1>2, <1>3

LEMMA ShownSome ==
  ASSUME NEW lg \in Seq(Row), NEW h \in SUBSET Projected(lg), NEW r \in Row,
         r.kind # "digest", ~Alone
  PROVE  Observe(Append(lg, r), h) # {}
<1>1. /\ Append(lg, r) \in Seq(Row) /\ Len(Append(lg, r)) = Len(lg) + 1
      /\ h \cup {Len(lg) + 1} \in SUBSET DOMAIN Append(lg, r)
  BY AppendRow DEF Projected
<1> QED
  BY <1>1, TrimSome DEF Observe

LEMMA DrainedSome ==
  ASSUME NEW lg \in Seq(Row), NEW h \in SUBSET Projected(lg), ~Alone,
         NEW late \in Late, Drained(lg, h, late), late # "none" \/ h # {}
  PROVE  hist' # {}
<1>1. CASE late = "none"
  BY <1>1 DEF Drained
<1>2. CASE late = "user"
  <2>1. log' = Append(lg, UserRow) /\ hist' = Observe(log', h)
    BY <1>2 DEF Drained
  <2> QED
    BY <2>1, ShownSome, ShownRows
<1>3. CASE late = "note"
  <2>1. log' = Append(lg, NoteRow) /\ hist' = Observe(log', h)
    BY <1>3 DEF Drained
  <2> QED
    BY <2>1, ShownSome, ShownRows
<1> QED
  BY <1>1, <1>2, <1>3 DEF Late

-----------------------------------------------------------------------------
(* The log only grows.                                                     *)

LEMMA DrainedGrows ==
  ASSUME NEW lg, NEW h, Grows(log, lg), NEW late \in Late, Drained(lg, h, late)
  PROVE  Grows(log, log')
<1>1. log' = lg \/ log' = Append(lg, UserRow) \/ log' = Append(lg, NoteRow)
  BY DEF Drained
<1> QED
  BY <1>1, GrowsAppend, ShownRows

LEMMA LogGrows == ASSUME TypeInv, TypeInv', [Next]_vars PROVE Grows(log, log')
<1>1. log \in Seq(Row) /\ Grows(log, log) /\ owner \in Nat
  BY TypeFacts, GrowsSelf
<1>2. cutoff' \in Nat
  BY DEF TypeInv, TypeOK
<1>3. \A k \in Nat : DigestRow(k) \in Row
  BY DEF DigestRow, Row
<1>4. Grows(log, Append(log, AsstRow(0))) /\ Grows(log, Append(log, UserRow))
  BY <1>1, GrowsAppend, ShownRows
<1>5. CASE StartTurn
  <2>1. \/ log' = Append(log, UserRow)
        \/ log' = Append(Append(log, UserRow), DigestRow(cutoff'))
    BY <1>5 DEF StartTurn
  <2> QED
    BY <1>2, <1>3, <1>4, <2>1, GrowsAppend
<1>6. ASSUME NEW n \in 1 .. MaxCalls, ModelCalls(n) PROVE Grows(log, log')
  BY <1>1, <1>6, GrowsAppend, ShownRows DEF ModelCalls
<1>7. ASSUME NEW late \in Late, ModelAnswers(late) PROVE Grows(log, log')
  BY <1>4, <1>7, DrainedGrows DEF ModelAnswers
<1>8. ASSUME NEW said \in BOOLEAN, Reprompt(said) PROVE Grows(log, log')
  <2>1. "note" \in Late
    BY DEF Late
  <2>2. CASE said
    BY <1>4, <1>8, <2>1, <2>2, DrainedGrows DEF Reprompt
  <2>3. CASE ~said
    BY <1>1, <1>8, <2>1, <2>3, DrainedGrows DEF Reprompt
  <2> QED
    BY <2>2, <2>3
<1>9. ASSUME NEW late \in Late, NEW measured \in BOOLEAN, Advance(late, measured)
      PROVE  Grows(log, log')
  BY <1>1, <1>9, DrainedGrows DEF Advance
<1>10. ASSUME NEW h, Result(h) PROVE Grows(log, log')
  <2>1. ResultRow(owner, Answered + 1) \in Row
    BY <1>1, AnsweredType, ShownRows
  <2> QED
    BY <1>1, <1>10, <2>1, GrowsAppend DEF Result
<1>11. ASSUME Note PROVE Grows(log, log')
  BY <1>1, <1>11, DrainedGrows DEF Note, Late
<1>12. CASE CommandCompact
  <2>1. log' = Append(Append(log, DigestRow(cutoff')), NoteRow)
    BY <1>12 DEF CommandCompact
  <2> QED
    BY <1>1, <1>2, <1>3, <2>1, GrowsAppend, ShownRows
<1>13. CASE CommandReset
  BY <1>1, <1>3, <1>13, GrowsAppend DEF CommandReset
<1>14. CASE Abort \/ ResetHistory \/ Restart \/ UNCHANGED vars
  BY <1>1, <1>14 DEF Abort, ResetHistory, Restart, vars
<1>15. CASE CallWork \/ CallCheckpoint
  BY <1>10, <1>15 DEF CallWork, CallCheckpoint
<1>16. ASSUME NEW c \in DOMAIN cps, CallHide(c) \/ CallExpand(c) \/ CallRollback(c)
       PROVE  Grows(log, log')
  BY <1>10, <1>16 DEF CallHide, CallExpand, SetHidden, CallRollback
<1> QED
  BY <1>5, <1>6, <1>7, <1>8, <1>9, <1>11, <1>12, <1>13, <1>14, <1>15, <1>16 DEF Next

-----------------------------------------------------------------------------
(* A floor is nothing or a row that is shown.                              *)

LEMMA FloorShown ==
  ASSUME NEW lg \in Seq(Row), NEW h \in SUBSET Projected(lg),
         floor \subseteq {0} \cup Projected(lg)
  PROVE  Floor(lg, h) \subseteq {0} \cup Projected(lg)
<1> DEFINE calling == {q \in h : lg[q].kind = "asst" /\ lg[q].num > 0}
           before == {q \in h : q < Min(calling)}
<1>1. before \in SUBSET (0 .. Len(lg)) /\ Len(lg) \in Nat /\ before \subseteq Projected(lg)
  BY DEF Projected
<1>2. Newest(before) \in {0} \cup Projected(lg)
  <2> HIDE DEF before
  <2>1. CASE before = {}
    BY <2>1 DEF Newest
  <2>2. CASE before # {}
    BY <1>1, <2>2, NewestType
  <2> QED
    BY <2>1, <2>2
<1>3. PreambleFloor(lg, h) \subseteq {0} \cup Projected(lg)
  BY <1>2 DEF PreambleFloor
<1> QED
  BY <1>3 DEF Floor

LEMMA FloorForms ==
  ASSUME [Next]_vars
  PROVE  \/ floor' = floor \/ (Restart /\ floor' = {})
         \/ floor' = Floor(log', hist')
         \/ \E h \in SUBSET hist : floor' = Floor(log, h)
<1>1. CASE CallCheckpoint
  BY <1>1 DEF CallCheckpoint
<1>2. ASSUME NEW c \in DOMAIN cps, CallHide(c) \/ CallExpand(c)
      PROVE  \E h \in SUBSET hist : floor' = Floor(log, h)
  BY <1>2 DEF CallHide, CallExpand, SetHidden
<1>3. ASSUME NEW c \in DOMAIN cps, CallRollback(c)
      PROVE  \E h \in SUBSET hist : floor' = Floor(log, h)
  <2>1. \E g \in SUBSET hist : floor' = Floor(log, hist \ g)
    BY <1>3 DEF CallRollback
  <2> QED
    BY <2>1
<1>4. ASSUME \/ StartTurn \/ \E said \in BOOLEAN : Reprompt(said)
             \/ \E late \in Late, measured \in BOOLEAN : Advance(late, measured)
      PROVE  floor' = floor \/ floor' = Floor(log', hist')
  BY <1>4 DEF StartTurn, Reprompt, Advance, PromptFloor
<1>5. ASSUME \/ \E n \in 1 .. MaxCalls : ModelCalls(n)
             \/ \E late \in Late : ModelAnswers(late)
             \/ CallWork \/ Abort \/ Note \/ CommandCompact \/ CommandReset
             \/ ResetHistory \/ UNCHANGED vars
      PROVE  floor' = floor
  BY <1>5 DEF ModelCalls, ModelAnswers, CallWork, Abort, Note, CommandCompact, CommandReset,
              ResetHistory, vars
<1>6. CASE Restart
  BY <1>6 DEF Restart
<1> QED
  BY <1>1, <1>2, <1>3, <1>4, <1>5, <1>6 DEF Next

LEMMA FloorNext ==
  ASSUME BriefInv, CacheInv, CacheInv', Grows(log, log'), [Next]_vars
  PROVE  floor' \subseteq {0} \cup Projected(log')
<1>1. /\ log \in Seq(Row) /\ hist \in SUBSET Projected(log)
      /\ log' \in Seq(Row) /\ hist' \in SUBSET Projected(log')
  <2>1. Sound(log, hist, bounds, cutoff, dropped) /\ Sound(log, hist, bounds, cutoff, dropped)'
    BY DEF CacheInv
  <2> QED
    BY <2>1 DEF Sound, Projected
<1>2. floor \subseteq {0} \cup Projected(log) /\ floor \subseteq {0} \cup Projected(log')
  BY ProjectedStays DEF BriefInv
<1>3. Floor(log', hist') \subseteq {0} \cup Projected(log')
  BY <1>1, <1>2, FloorShown
<1>4. \A h \in SUBSET hist : Floor(log, h) \subseteq {0} \cup Projected(log)
  BY <1>1, <1>2, FloorShown
<1>5. Projected(log) \subseteq Projected(log')
  BY ProjectedStays
<1> QED
  BY <1>2, <1>3, <1>4, <1>5, FloorForms

-----------------------------------------------------------------------------
(* The checkpoints keep the brief.                                         *)

LEMMA MarkedNext ==
  ASSUME BriefInv, CacheInv, TypeInv, Grows(log, log'), [Next]_vars
  PROVE  Marked(log', cps')
<1>1. /\ log \in Seq(Row) /\ hist \in SUBSET Projected(log) /\ Led(log) /\ Marked(log, cps)
      /\ Len(log) \in Nat /\ hist \in SUBSET (0 .. Len(log))
  BY TypeFacts DEF CacheInv, Sound, BriefInv, Projected
<1>2. ASSUME NEW m, Marked(log, m), Begun(log) PROVE Marked(log', m)
  BY <1>2, MarkedStays
<1>3. ASSUME CallsLeft PROVE Begun(log) /\ phase # "idle" /\ hist # {}
  BY <1>3 DEF CallsLeft, BriefInv
<1>4. cps \in Marks(Len(log))
  BY TypeFacts
<1>5. Marked(log', <<>>)
  BY DEF Marked
<1>6. CASE CallCheckpoint
  <2> DEFINE m == [seq |-> Newest(hist), hidden |-> FALSE]
  <2>1. CallsLeft /\ cps' = Append(cps, m)
    BY <1>6 DEF CallCheckpoint
  <2>2. Newest(hist) \in hist /\ Newest(hist) \in 0 .. Len(log)
    BY <1>1, <1>3, <2>1, NewestType
  <2>3. Newest(hist) \in Projected(log) /\ m.seq = Newest(hist)
    BY <1>1, <2>2
  <2>4. m \in [seq : 0 .. Len(log), hidden : BOOLEAN]
    BY <2>2
  <2> HIDE DEF m
  <2>5. \A c \in DOMAIN cps' : (c \in DOMAIN cps /\ cps'[c] = cps[c]) \/ cps'[c] = m
    <3> DEFINE M == [seq : 0 .. Len(log), hidden : BOOLEAN]
    <3>1. cps \in Seq(M) /\ m \in M
      BY <1>4, <2>4 DEF Marks
    <3> HIDE DEF M
    <3> QED
      BY <2>1, <3>1
  <2>6. Marked(log, cps')
    <3> SUFFICES ASSUME NEW b \in DOMAIN log, NEW c \in DOMAIN cps', Brief(log, b)
                 PROVE  b <= cps'[c].seq
      BY DEF Marked
    <3>1. b <= Newest(hist)
      BY <1>1, <2>3, LedBrief
    <3> QED
      BY <1>1, <2>3, <2>5, <3>1 DEF Marked
  <2> QED
    BY <1>2, <1>3, <2>1, <2>6
<1>7. ASSUME NEW c \in DOMAIN cps, NEW hidden \in BOOLEAN, SetHidden(c, hidden)
      PROVE  Marked(log', cps')
  <2>1. CallsLeft /\ cps' = [cps EXCEPT ![c].hidden = hidden]
    BY <1>7 DEF SetHidden
  <2>2. DOMAIN cps' = DOMAIN cps /\ \A k \in DOMAIN cps : cps'[k].seq = cps[k].seq
    <3> DEFINE M == [seq : 0 .. Len(log), hidden : BOOLEAN]
    <3>1. cps \in Seq(M)
      BY <1>4 DEF Marks
    <3>2. cps[c] \in M
      <4> HIDE DEF M
      <4> QED
        BY <3>1
    <3>3. [cps[c] EXCEPT !.hidden = hidden].seq = cps[c].seq
      BY <3>2
    <3>4. cps' = [cps EXCEPT ![c] = [cps[c] EXCEPT !.hidden = hidden]]
      BY <2>1
    <3> HIDE DEF M
    <3> QED
      BY <3>1, <3>3, <3>4
  <2>3. Marked(log, cps')
    BY <1>1, <2>2 DEF Marked
  <2> QED
    BY <1>2, <1>3, <2>1, <2>3
<1>8. ASSUME NEW c \in DOMAIN cps, CallRollback(c) PROVE Marked(log', cps')
  <2> DEFINE survivors == {k \in DOMAIN cps : cps[k].seq <= cps[c].seq}
  <2>1. CallsLeft /\ \E order \in [1 .. Cardinality(survivors) -> survivors] :
          cps' = [i \in DOMAIN order |-> cps[order[i]]]
    BY <1>8 DEF CallRollback
  <2>2. PICK order \in [1 .. Cardinality(survivors) -> survivors] :
          cps' = [i \in DOMAIN order |-> cps[order[i]]]
    BY <2>1
  <2>3. \A k \in DOMAIN cps' : \E j \in DOMAIN cps : cps'[k] = cps[j]
    BY <2>2
  <2>4. Marked(log, cps')
    BY <1>1, <2>3 DEF Marked
  <2> QED
    BY <1>2, <1>3, <2>1, <2>4
<1>9. CASE cps' = cps
  <2>1. CASE loaded
    BY <1>1, <1>2, <1>9, <2>1 DEF BriefInv
  <2>2. CASE ~loaded
    BY <1>5, <1>9, <2>2 DEF BriefInv
  <2> QED
    BY <2>1, <2>2
<1>10. CASE Restart
  BY <1>5, <1>10 DEF Restart
<1>11. ASSUME \/ StartTurn
              \/ \E n \in 1 .. MaxCalls : ModelCalls(n)
              \/ \E late \in Late : ModelAnswers(late)
              \/ \E said \in BOOLEAN : Reprompt(said)
              \/ CallWork
              \/ \E late \in Late, measured \in BOOLEAN : Advance(late, measured)
              \/ Abort \/ Note \/ CommandCompact \/ CommandReset \/ ResetHistory
              \/ UNCHANGED vars
       PROVE  cps' = cps
  BY <1>11 DEF StartTurn, ModelCalls, ModelAnswers, Reprompt, CallWork, Advance, Abort, Note,
               CommandCompact, CommandReset, ResetHistory, vars
<1> QED
  BY <1>6, <1>7, <1>8, <1>9, <1>10, <1>11 DEF Next, CallHide, CallExpand

-----------------------------------------------------------------------------
(* What a step has to show beside that.                                    *)

LEMMA BriefPrimed ==
  ASSUME BriefInv, CacheInv, CacheInv', TypeInv, TypeInv', [Next]_vars,
         Led(log'), loaded' => Begun(log'),
         ~loaded' => phase' = "idle" /\ cps' = <<>> /\ floor' = {},
         phase' # "idle" => base' \in DOMAIN log' /\ UserRole(log', base') /\ hist' # {},
         loaded' /\ scan' = 0 => Carries(log', hist', cutoff')
  PROVE  BriefInv'
<1>1. Grows(log, log')
  BY LogGrows
<1>2. Marked(log', cps') /\ floor' \subseteq {0} \cup Projected(log')
  BY <1>1, MarkedNext, FloorNext
<1> QED
  BY <1>2 DEF BriefInv, Led, Begun, UserRole, Projected, Carries, Brief, Marked

LEMMA BriefTold ==
  ASSUME BriefInv, CacheInv, CacheInv', TypeInv, TypeInv', [Next]_vars,
         Told(log', hist', cutoff'), loaded' = TRUE,
         phase' # "idle" => base' \in DOMAIN log' /\ UserRole(log', base') /\ hist' # {}
  PROVE  BriefInv'
BY BriefPrimed DEF Told

LEMMA LoneSome == ASSUME GroupInv', Alone', phase' # "idle" PROVE hist' # {}
BY DEF GroupInv, AloneUser, Lone

(* A compaction cuts just before one of the user messages.                 *)
LEMMA CutUser ==
  ASSUME NEW lg \in Seq(Row), NEW us \in SUBSET DOMAIN lg, NEW c \in Nat, c < NewCutoff(us)
  PROVE  NewCutoff(us) + 1 \in us
<1> DEFINE kth == {q \in us : Cardinality({p \in us : p > q}) = Preserved}
<1>1. kth \subseteq us /\ us \in SUBSET Nat
  OBVIOUS
<1>2. NewCutoff(us) = IF kth = {} THEN 0 ELSE Min(kth) - 1
  BY DEF NewCutoff
<1> HIDE DEF kth
<1>3. kth # {} /\ kth \in SUBSET Nat
  BY <1>1, <1>2
<1>4. Min(kth) \in kth
  BY <1>3, MinOf
<1>5. NewCutoff(us) = Min(kth) - 1 /\ Min(kth) \in us /\ Min(kth) \in Nat
  BY <1>1, <1>2, <1>3, <1>4
<1> QED
  BY <1>5

LEMMA StartTurnBrief ==
  ASSUME BriefInv, CacheInv, CacheInv', TypeInv, TypeInv', GroupInv', PageLimit >= MaxLog,
         StartTurn, Next
  PROVE  BriefInv'
<1> DEFINE lg == Append(log, UserRow)
           cut == IF loaded THEN cutoff ELSE LoggedCutoff(Page(lg))
           h == IF loaded THEN Observe(lg, hist) ELSE Recover(Page(lg))
           us == IF loaded THEN bounds \cup {Len(lg)} ELSE Users(Page(lg))
<1>1. /\ log \in Seq(Row) /\ Len(log) \in Nat /\ hist \in SUBSET Projected(log)
      /\ LoggedCutoff(log) \in 0 .. Len(log) /\ cutoff \in 0 .. Len(log)
      /\ Led(log) /\ Room(2) /\ scan = 0
  BY DEF CacheInv, Sound, BriefInv, StartTurn
<1>2. /\ lg \in Seq(Row) /\ Len(lg) = Len(log) + 1 /\ lg[Len(lg)] = UserRow
      /\ Len(lg) \in DOMAIN lg /\ Len(lg) \in Nat
  BY <1>1, AppendRow, ShownRows
<1>3. Led(lg) /\ Begun(lg) /\ UserRole(lg, Len(lg))
  BY <1>1, <1>2, LedAppend, ShownRows, ShownKinds DEF UserRole
<1>4. Page(lg) = lg
  <2>1. Len(lg) <= MaxLog
    BY <1>1, <1>2, BoundsAssumption DEF Room
  <2> HIDE DEF lg
  <2> QED
    BY <1>2, <2>1, PageAll
<1>5. LoggedCutoff(lg) = LoggedCutoff(log)
  BY <1>1, CutoffShown, ShownRows
<1>6. Told(lg, h, cut)
  <2>1. CASE loaded
    <3>1. Told(log, hist, cutoff)
      BY <1>1, <2>1, ToldNow
    <3> QED
      BY <2>1, <3>1, ToldShown, ShownRows
  <2>2. CASE ~loaded
    <3> HIDE DEF lg
    <3>1. h = Recover(lg) /\ cut = LoggedCutoff(lg) /\ LoggedCutoff(lg) \in Nat
      BY <1>1, <1>4, <1>5, <2>2
    <3> QED
      BY <1>2, <1>3, <3>1, CarriesRecover, RecoverExact DEF Told
  <2> QED
    BY <2>1, <2>2
<1>7. ~Alone => h # {}
  <2>1. CASE loaded
    BY <1>1, <2>1, ShownSome, ShownRows
  <2>2. CASE ~loaded
    <3> DEFINE k == {q \in Projected(lg) : q > LoggedCutoff(lg)}
    <3>1. Len(lg) \in k
      BY <1>1, <1>2, <1>5, ShownRows DEF Projected
    <3>2. k \in SUBSET DOMAIN lg
      BY DEF Projected
    <3> HIDE DEF lg
    <3>3. h = Trim(lg, k)
      BY <1>4, <2>2 DEF Recover
    <3> HIDE DEF k
    <3> QED
      BY <1>2, <3>1, <3>2, <3>3, TrimSome
  <2> QED
    BY <2>1, <2>2
<1>8. strategy # "window" => Len(lg) \in h
  <2>1. CASE loaded
    <3>1. hist \cup {Len(lg)} \in SUBSET Nat
      BY <1>1, <1>2 DEF Projected
    <3> HIDE DEF lg
    <3> QED
      BY <2>1, <3>1, TrimSubset DEF Observe
  <2>2. CASE ~loaded
    <3>1. Len(lg) \in {q \in Projected(lg) : q > LoggedCutoff(lg)}
      BY <1>1, <1>2, <1>5, ShownRows DEF Projected
    <3> HIDE DEF lg
    <3> QED
      BY <1>4, <2>2, <3>1 DEF Recover, Trim
  <2> QED
    BY <2>1, <2>2
<1> HIDE DEF lg, cut, h, us
<1>9. /\ base' = Len(lg) /\ phase' = "model" /\ loaded' = TRUE /\ strategy' = strategy
  BY DEF StartTurn, lg
<1>10. Alone' = Alone
  BY <1>9 DEF Alone
<1>11. CASE log' = lg /\ hist' = h /\ cutoff' = cut
  <2>1. hist' # {}
    BY <1>7, <1>9, <1>10, <1>11, LoneSome
  <2> QED
    BY <1>2, <1>3, <1>6, <1>9, <1>11, <2>1, BriefTold
<1>12. CASE /\ strategy = "summarize" /\ Compactable(us, cut)
            /\ log' = Append(lg, DigestRow(NewCutoff(us)))
            /\ cutoff' = NewCutoff(us)
            /\ hist' = AboveCutoff(h, NewCutoff(us))
  <2>1. us \in SUBSET DOMAIN lg
    <3>1. CASE loaded
      BY <1>1, <1>2, <3>1 DEF us, CacheInv, Sound
    <3>2. CASE ~loaded
      BY <1>4, <3>2 DEF us, Users
    <3> QED
      BY <3>1, <3>2
  <2> DEFINE k == NewCutoff(us)
  <2>2. k \in 0 .. Len(lg) /\ k \in Nat /\ DigestRow(k) \in Row
    <3>1. k \in 0 .. Len(lg)
      BY <1>2, <2>1, NewCutoffType
    <3> HIDE DEF k
    <3> QED
      BY <1>2, <3>1 DEF DigestRow, Row
  <2>3. cut \in Nat /\ cut < k
    BY <1>6, <1>12, <2>2 DEF Compactable, Told
  <2>4. k < Len(lg)
    <3>1. us \subseteq 1 .. Len(lg)
      BY <1>2, <2>1
    <3>2. k + 1 \in us
      BY <1>2, <2>1, <2>3, CutUser
    <3> HIDE DEF k
    <3> QED
      BY <1>2, <2>2, <3>1, <3>2
  <2> HIDE DEF k
  <2>5. Told(log', hist', cutoff')
    BY <1>6, <1>12, <2>2, <2>3, ToldCut DEF k
  <2>6. Len(lg) \in hist'
    BY <1>8, <1>12, <2>4 DEF AboveCutoff, k
  <2>7. base' \in DOMAIN log' /\ UserRole(log', base')
    BY <1>2, <1>3, <1>9, <1>12, <2>2, AppendRow DEF UserRole, k
  <2> QED
    BY <1>9, <2>5, <2>6, <2>7, BriefTold
<1> QED
  BY <1>11, <1>12 DEF StartTurn, ShouldCompact, lg, h, us, cut

LEMMA BaseStays ==
  ASSUME BriefInv, phase # "idle", Grows(log, log'), base' = base
  PROVE  base' \in DOMAIN log' /\ UserRole(log', base')
BY DEF BriefInv, Grows, UserRole

LEMMA ResultBrief ==
  ASSUME BriefInv, CacheInv, CacheInv', TypeInv, TypeInv', GroupInv', [Next]_vars,
         CallsLeft, NEW g \in SUBSET hist, Result(hist \ g),
         \A b \in DOMAIN log : Brief(log, b) => b \notin g,
         UNCHANGED <<strategy, cutoff, loaded, phase, base, scan>>
  PROVE  BriefInv'
<1> DEFINE r == ResultRow(owner, Answered + 1)
           h == hist \ g
<1>1. phase # "idle" /\ loaded = TRUE /\ scan = 0
  BY ToolsQuiet, TypeFacts DEF CallsLeft, BriefInv
<1>2. Told(log, hist, cutoff)
  BY <1>1, ToldNow
<1>3. Told(log, h, cutoff)
  BY <1>2 DEF Told, Carries
<1>4. r \in Row /\ r.kind # "digest"
  BY TypeFacts, AnsweredType, ShownRows
<1>5. log' = Append(log, r) /\ hist' = Observe(log', h)
  BY DEF Result
<1> HIDE DEF r, h
<1>6. Told(log', hist', cutoff')
  BY <1>3, <1>4, <1>5, ToldShown
<1>7. hist' # {}
  <2>1. CASE Alone
    BY <1>1, <2>1, LoneSome DEF Alone
  <2>2. CASE ~Alone
    BY <1>3, <1>4, <1>5, <2>2, ShownSome DEF Told
  <2> QED
    BY <2>1, <2>2
<1>8. base' \in DOMAIN log' /\ UserRole(log', base')
  BY <1>1, LogGrows, BaseStays
<1> QED
  BY <1>1, <1>6, <1>7, <1>8, BriefTold

LEMMA CallBrief ==
  ASSUME BriefInv, CacheInv, CacheInv', TypeInv, TypeInv', GroupInv', Next,
         \/ CallWork
         \/ CallCheckpoint
         \/ \E c \in DOMAIN cps : CallHide(c) \/ CallExpand(c) \/ CallRollback(c)
  PROVE  BriefInv'
<1>1. CASE CallWork \/ CallCheckpoint \/ \E c \in DOMAIN cps : CallHide(c) \/ CallExpand(c)
  <2>1. /\ CallsLeft /\ Result(hist)
        /\ UNCHANGED <<strategy, cutoff, loaded, phase, base, scan>>
    BY <1>1 DEF CallWork, CallCheckpoint, CallHide, CallExpand, SetHidden
  <2>2. hist \ {} = hist /\ {} \in SUBSET hist /\ \A b : b \notin {}
    OBVIOUS
  <2>3. Result(hist \ {})
    BY <2>1, <2>2
  <2> QED
    BY <2>1, <2>2, <2>3, ResultBrief
<1>2. ASSUME NEW c \in DOMAIN cps, CallRollback(c) PROVE BriefInv'
  <2> DEFINE gone == {q \in hist : cps[c].seq < q /\ q < Newest(hist)}
  <2>1. /\ CallsLeft /\ Result(hist \ gone)
        /\ UNCHANGED <<strategy, cutoff, loaded, phase, base, scan>>
    BY <1>2 DEF CallRollback
  <2>2. cps[c].seq \in Nat /\ DOMAIN log \subseteq Nat
    <3> DEFINE M == [seq : 0 .. Len(log), hidden : BOOLEAN]
    <3>1. cps \in Seq(M)
      BY TypeFacts DEF Marks
    <3>2. cps[c] \in M
      <4> HIDE DEF M
      <4> QED
        BY <3>1
    <3> QED
      BY <3>2, TypeFacts
  <2>3. \A b \in DOMAIN log : Brief(log, b) => b \notin gone
    BY <2>2 DEF BriefInv, Marked
  <2>4. gone \in SUBSET hist
    OBVIOUS
  <2> HIDE DEF gone
  <2> QED
    BY <2>1, <2>3, <2>4, ResultBrief
<1> QED
  BY <1>1, <1>2

LEMMA TurnBrief ==
  ASSUME BriefInv, CacheInv, CacheInv', TypeInv, TypeInv', GroupInv', Next,
         phase # "idle",
         \/ \E n \in 1 .. MaxCalls : ModelCalls(n)
         \/ \E late \in Late : ModelAnswers(late)
         \/ \E said \in BOOLEAN : Reprompt(said)
         \/ \E late \in Late, measured \in BOOLEAN : Advance(late, measured)
         \/ Note
         \/ Abort
  PROVE  BriefInv'
<1>1. loaded = TRUE /\ scan = 0 /\ log \in Seq(Row) /\ hist # {}
  BY ToolsQuiet, TypeFacts DEF BriefInv
<1>2. Told(log, hist, cutoff)
  BY <1>1, ToldNow
<1> DEFINE said1 == Append(log, AsstRow(0))
<1>3. Told(said1, Observe(said1, hist), cutoff)
  BY <1>2, ToldShown, ShownRows
<1>4. Grows(log, log')
  BY LogGrows
<1>5. base' = base => base' \in DOMAIN log' /\ UserRole(log', base')
  BY <1>4, BaseStays
<1>6. Alone' /\ phase' # "idle" => hist' # {}
  BY LoneSome
<1>7. strategy' = strategy => Alone' = Alone
  BY DEF Alone
<1> HIDE DEF said1
<1>8. ASSUME NEW lg, NEW h, Told(lg, h, cutoff), NEW late \in Late, Drained(lg, h, late),
             UNCHANGED <<strategy, cutoff, loaded, base>>,
             phase' # "idle" => late # "none" \/ h # {}
      PROVE  BriefInv'
  <2>1. Told(log', hist', cutoff')
    BY <1>8, ToldDrained
  <2>2. phase' # "idle" => hist' # {}
    <3>1. CASE Alone
      BY <1>6, <1>7, <1>8, <3>1
    <3>2. CASE ~Alone
      BY <1>8, <3>2, DrainedSome DEF Told
    <3> QED
      BY <3>1, <3>2
  <2> QED
    BY <1>1, <1>5, <1>8, <2>1, <2>2, BriefTold
<1>9. ASSUME NEW n \in 1 .. MaxCalls, ModelCalls(n) PROVE BriefInv'
  <2>1. /\ log' = Append(log, AsstRow(n)) /\ hist' = Observe(log', hist)
        /\ UNCHANGED <<strategy, cutoff, loaded, base>>
    BY <1>9 DEF ModelCalls
  <2>2. AsstRow(n) \in Row /\ AsstRow(n).kind # "digest"
    BY ShownRows
  <2>3. Told(log', hist', cutoff')
    BY <1>2, <2>1, <2>2, ToldShown
  <2>4. phase' # "idle" => hist' # {}
    <3>1. CASE Alone
      BY <1>6, <1>7, <2>1, <3>1
    <3>2. CASE ~Alone
      BY <1>2, <2>1, <2>2, <3>2, ShownSome DEF Told
    <3> QED
      BY <3>1, <3>2
  <2> QED
    BY <1>1, <1>5, <2>1, <2>3, <2>4, BriefTold
<1>10. ASSUME NEW late \in Late, ModelAnswers(late) PROVE BriefInv'
  BY <1>3, <1>8, <1>10 DEF ModelAnswers, said1
<1>11. ASSUME NEW said \in BOOLEAN, Reprompt(said) PROVE BriefInv'
  <2>1. "note" \in Late /\ UNCHANGED <<strategy, cutoff, loaded, base>>
    BY <1>11 DEF Late, Reprompt
  <2>2. CASE said
    <3>1. Drained(said1, Observe(said1, hist), "note")
      BY <1>11, <2>2 DEF Reprompt, said1
    <3> QED
      BY <1>3, <1>8, <2>1, <3>1
  <2>3. CASE ~said
    <3>1. Drained(log, hist, "note")
      BY <1>11, <2>3 DEF Reprompt
    <3> QED
      BY <1>2, <1>8, <2>1, <3>1
  <2> QED
    BY <2>2, <2>3
<1>12. ASSUME NEW late \in Late, NEW measured \in BOOLEAN, Advance(late, measured)
       PROVE  BriefInv'
  BY <1>1, <1>2, <1>8, <1>12 DEF Advance
<1>13. ASSUME Note PROVE BriefInv'
  BY <1>1, <1>2, <1>8, <1>13 DEF Note, Late
<1>14. ASSUME Abort PROVE BriefInv'
  <2>1. /\ hist' = KeptTo(hist, base) /\ phase' = "idle"
        /\ UNCHANGED <<log, cutoff, loaded>>
    BY <1>14 DEF Abort
  <2>2. Carries(log, hist', cutoff)
    <3>1. \A b \in DOMAIN log : Brief(log, b) => b <= base
      BY DEF BriefInv, Brief
    <3> QED
      BY <1>2, <2>1, <3>1 DEF Told, Carries, KeptTo
  <2>3. Told(log', hist', cutoff')
    BY <1>2, <2>1, <2>2 DEF Told, KeptTo
  <2> QED
    BY <1>1, <2>1, <2>3, BriefTold
<1> QED
  BY <1>9, <1>10, <1>11, <1>12, <1>13, <1>14

LEMMA IdleBrief ==
  ASSUME BriefInv, CacheInv, CacheInv', TypeInv, TypeInv', Next, "command" \notin Midway,
         phase = "idle" \/ ~Note,
         Note \/ CommandCompact \/ CommandReset \/ ResetHistory \/ Restart
  PROVE  BriefInv'
<1>1. /\ log \in Seq(Row) /\ hist \in SUBSET Projected(log) /\ cutoff \in Nat /\ Led(log)
      /\ bounds \in SUBSET DOMAIN log /\ loaded \in BOOLEAN /\ Len(log) \in Nat
      /\ LoggedCutoff(log) \in Nat
  BY TypeFacts DEF CacheInv, Sound, BriefInv
<1>2. loaded => Begun(log)
  BY DEF BriefInv
<1>3. ~loaded => cps = <<>> /\ floor = {}
  BY DEF BriefInv
<1>4. \A k \in Nat : DigestRow(k) \in Row /\ DigestRow(k).kind = "digest"
  BY DEF DigestRow, Row
<1>5. CASE Note
  <2>1. /\ log' = Append(log, NoteRow) /\ hist' = Observe(log', hist) /\ scan = 0
        /\ phase' = "idle"
        /\ UNCHANGED <<cutoff, cps, floor, loaded>>
    BY <1>5 DEF Note, Drained
  <2>2. Led(log')
    BY <1>1, <2>1, LedAppend, ShownRows, ShownKinds
  <2>3. CASE loaded
    <3>1. Told(log, hist, cutoff)
      BY <2>1, <2>3, ToldNow
    <3>2. Told(log', hist', cutoff')
      BY <2>1, <3>1, ToldShown, ShownRows
    <3> QED
      BY <1>1, <2>1, <2>3, <3>2, BriefTold
  <2>4. CASE ~loaded
    BY <1>3, <2>1, <2>2, <2>4, BriefPrimed
  <2> QED
    BY <2>3, <2>4
<1>6. CASE CommandCompact
  <2> DEFINE k == NewCutoff(bounds)
             lg == Append(log, DigestRow(k))
  <2>1. k \in Nat
    <3>1. k \in 0 .. Len(log)
      BY <1>1, NewCutoffType
    <3> HIDE DEF k
    <3> QED
      BY <1>1, <3>1
  <2>2. /\ cutoff < k /\ cutoff' = k /\ scan = 0 /\ phase' = "idle"
        /\ log' = Append(lg, NoteRow) /\ hist' = Observe(log', AboveCutoff(hist, k))
        /\ UNCHANGED <<cps, floor, loaded>>
    BY <1>6 DEF CommandCompact, CommandNow, Compactable
  <2>3. Led(lg) /\ lg \in Seq(Row)
    <3> HIDE DEF k
    <3> QED
      BY <1>1, <1>4, <2>1, LedAppend, AppendRow
  <2>4. Led(log')
    <3> HIDE DEF lg
    <3> QED
      BY <2>2, <2>3, LedAppend, ShownRows, ShownKinds
  <2>5. CASE loaded
    <3>1. Told(log, hist, cutoff)
      BY <2>2, <2>5, ToldNow
    <3>2. Told(lg, AboveCutoff(hist, k), k)
      <4> HIDE DEF k
      <4> QED
        BY <1>1, <2>1, <2>2, <3>1, ToldCut
    <3> HIDE DEF lg, k
    <3>3. Told(log', hist', cutoff')
      BY <2>2, <3>2, ToldShown, ShownRows
    <3> QED
      BY <1>1, <2>2, <2>5, <3>3, BriefTold
  <2>6. CASE ~loaded
    BY <1>3, <2>2, <2>4, <2>6, BriefPrimed
  <2> QED
    BY <2>5, <2>6
<1>7. CASE CommandReset
  <2>1. /\ log' = Append(log, DigestRow(0)) /\ scan' = Len(log') /\ phase' = "idle"
        /\ UNCHANGED <<cps, floor, loaded>>
    BY <1>7 DEF CommandReset, CommandNow
  <2>2. Led(log') /\ (Begun(log) => Begun(log')) /\ Len(log') = Len(log) + 1
    BY <1>1, <1>4, <2>1, LedAppend, AppendRow
  <2>3. scan' # 0
    BY <1>1, <2>1, <2>2
  <2> QED
    BY <1>2, <1>3, <2>1, <2>2, <2>3, BriefPrimed
<1>8. CASE ResetHistory
  <2>1. /\ hist' = Recover(SubSeq(log, 1, scan)) /\ scan = Len(log) /\ phase' = "idle"
        /\ cutoff = LoggedCutoff(log)
        /\ UNCHANGED <<log, cutoff, cps, floor, loaded>>
    BY <1>8 DEF ResetHistory, CacheInv, QuietReset
  <2>2. hist' = Recover(log)
    BY <1>1, <2>1, SubSeqAll
  <2>3. Carries(log, hist', cutoff)
    BY <1>1, <2>1, <2>2, CarriesRecover
  <2>4. Led(log') /\ (loaded => Begun(log')) /\ Carries(log', hist', cutoff')
    BY <1>1, <1>2, <2>1, <2>3
  <2> QED
    BY <1>3, <2>1, <2>4, BriefPrimed
<1>9. CASE Restart
  <2>1. /\ log' = log /\ loaded' = FALSE /\ phase' = "idle" /\ cps' = <<>> /\ floor' = {}
    BY <1>9 DEF Restart
  <2>2. Led(log')
    BY <1>1, <2>1
  <2> QED
    BY <2>1, <2>2, BriefPrimed
<1> QED
  BY <1>5, <1>6, <1>7, <1>8, <1>9

LEMMA BriefNext ==
  ASSUME BriefInv, CacheInv, CacheInv', TypeInv, TypeInv', GroupInv', PageLimit >= MaxLog,
         "command" \notin Midway, [Next]_vars
  PROVE  BriefInv'
<1>1. CASE UNCHANGED vars
  <2>1. UNCHANGED <<log, hist, cutoff, cps, floor, loaded, phase, base, scan>>
    BY <1>1 DEF vars
  <2>2. /\ Led(log') /\ (loaded' => Begun(log'))
        /\ loaded' /\ scan' = 0 => Carries(log', hist', cutoff')
        /\ phase' # "idle" => base' \in DOMAIN log' /\ UserRole(log', base') /\ hist' # {}
        /\ ~loaded' => phase' = "idle" /\ cps' = <<>> /\ floor' = {}
    BY <2>1 DEF BriefInv
  <2> QED
    BY <2>2, BriefPrimed
<1>2. ASSUME NEW n \in 1 .. MaxCalls, ModelCalls(n) PROVE phase # "idle"
  BY <1>2 DEF ModelCalls
<1>3. ASSUME \/ \E late \in Late : ModelAnswers(late)
             \/ \E said \in BOOLEAN : Reprompt(said)
             \/ \E late \in Late, measured \in BOOLEAN : Advance(late, measured)
             \/ Abort
      PROVE  phase # "idle"
  BY <1>3 DEF ModelAnswers, Reprompt, Advance, Abort
<1> QED
  BY <1>1, <1>2, <1>3, StartTurnBrief, CallBrief, TurnBrief, IdleBrief DEF Next

-----------------------------------------------------------------------------
(* The head of a cache that no window cuts.                                *)

Calling(lg, q) == lg[q].kind = "asst" /\ lg[q].num > 0

(* The first entry above p, if there is one, is a message of the user role.*)
Starts(lg, h, p) ==
  \A q \in h : q > p /\ (\A x \in h : x > p => q <= x) => UserRole(lg, q)

(* A cache of the rows above c but for those in d begins with one, and so  *)
(* does what follows each row of d.                                        *)
Opened(lg, h, c, d) ==
  /\ lg \in Seq(Row) /\ c \in 0 .. Len(lg) /\ d \in SUBSET DOMAIN lg
  /\ Exact(lg, h, c, d)
  /\ \A p \in d \cup {c} : Starts(lg, h, p)

LEMMA OpenedTypes ==
  ASSUME NEW lg, NEW h, NEW c, NEW d, Opened(lg, h, c, d)
  PROVE  /\ lg \in Seq(Row) /\ Len(lg) \in Nat /\ DOMAIN lg = 1 .. Len(lg)
         /\ c \in Nat /\ c <= Len(lg) /\ d \in SUBSET (1 .. Len(lg))
         /\ h \in SUBSET Projected(lg) /\ h \in SUBSET (1 .. Len(lg)) /\ h \in SUBSET Nat
         /\ \A q \in h : q > c
         /\ Starts(lg, h, c)
<1>1. lg \in Seq(Row) /\ Len(lg) \in Nat /\ DOMAIN lg = 1 .. Len(lg)
  BY DEF Opened
<1>2. h \in SUBSET Projected(lg) /\ \A q \in h : q > c
  BY DEF Opened, Exact
<1>3. h \in SUBSET (1 .. Len(lg)) /\ h \in SUBSET Nat
  BY <1>1, <1>2 DEF Projected
<1> QED
  BY <1>1, <1>2, <1>3 DEF Opened

(* Its preamble is not empty.                                              *)
LEMMA OpenedFloor ==
  ASSUME NEW lg, NEW h, NEW c, NEW d, Opened(lg, h, c, d)
  PROVE  0 \notin PreambleFloor(lg, h)
<1>1. /\ h \in SUBSET (0 .. Len(lg)) /\ Len(lg) \in Nat /\ c \in Nat /\ h \in SUBSET Nat
      /\ \A q \in h : q > c
      /\ Starts(lg, h, c)
  BY OpenedTypes
<1> DEFINE calls == {q \in h : lg[q].kind = "asst" /\ lg[q].num > 0}
           before == {q \in h : q < Min(calls)}
<1>2. CASE calls = {}
  BY <1>2 DEF PreambleFloor
<1>3. CASE calls # {}
  <2>1. Min(calls) \in calls
    <3>1. calls \in SUBSET Nat
      BY <1>1
    <3> HIDE DEF calls
    <3> QED
      BY <1>3, <3>1, MinOf
  <2>2. PICK x \in h : \A y \in h : x <= y
    BY <1>1, <1>3, LeastExists
  <2>3. UserRole(lg, x)
    BY <1>1, <2>2 DEF Starts
  <2>4. x # Min(calls) /\ x <= Min(calls)
    BY <2>1, <2>2, <2>3 DEF UserRole
  <2>5. x \in before /\ before \in SUBSET (0 .. Len(lg))
    <3>1. x \in Nat /\ Min(calls) \in Nat
      BY <1>1, <2>1
    <3>2. x < Min(calls)
      BY <2>4, <3>1
    <3>3. before \subseteq h
      OBVIOUS
    <3> QED
      BY <1>1, <3>2, <3>3
  <2>6. Newest(before) \in before
    <3> HIDE DEF before
    <3> QED
      BY <1>1, <2>5, NewestType
  <2>7. Newest(before) # 0
    BY <1>1, <2>6
  <2>8. PreambleFloor(lg, h) = {Newest(before)}
    BY <1>3 DEF PreambleFloor
  <2> QED
    BY <2>7, <2>8
<1> QED
  BY <1>2, <1>3

LEMMA ObservePlain ==
  ASSUME strategy # "window", NEW lg \in Seq(Row), NEW h \in SUBSET Projected(lg), NEW r \in Row
  PROVE  Observe(Append(lg, r), h) = h \cup {Len(lg) + 1}
BY AppendRow DEF Observe, Trim

(* A row is added: one of the user role, or after some other.              *)
LEMMA OpenedShown ==
  ASSUME strategy # "window", NEW lg, NEW h, NEW c, NEW d, Opened(lg, h, c, d),
         NEW r \in Row, r.kind # "digest",
         r.kind \in {"user", "note"} \/ \E x \in h : \A p \in d \cup {c} : p < x
  PROVE  /\ Opened(Append(lg, r), Observe(Append(lg, r), h), c, d)
         /\ h \subseteq Observe(Append(lg, r), h)
         /\ Len(lg) + 1 \in Observe(Append(lg, r), h)
<1> DEFINE l == Append(lg, r)
           n == Len(lg) + 1
<1>1. /\ lg \in Seq(Row) /\ Len(lg) \in Nat /\ DOMAIN lg = 1 .. Len(lg)
      /\ c \in Nat /\ c <= Len(lg) /\ d \in SUBSET (1 .. Len(lg))
      /\ h \in SUBSET Projected(lg) /\ h \in SUBSET (1 .. Len(lg))
      /\ Exact(lg, h, c, d)
  BY OpenedTypes DEF Opened
<1>2. /\ l \in Seq(Row) /\ Len(l) = n /\ DOMAIN l = 1 .. n /\ l[n] = r /\ n \in Nat
      /\ \A q \in 1 .. Len(lg) : l[q] = lg[q]
  BY <1>1, AppendRow
<1>3. Observe(l, h) = h \cup {n}
  BY <1>1, ObservePlain
<1>4. Exact(l, Observe(l, h), c, d)
  <2>1. c \in 0 .. Len(lg) /\ d \in SUBSET DOMAIN lg
    BY <1>1
  <2> QED
    BY <1>1, <2>1, ObservedExact
<1> HIDE DEF l
<1>5. ASSUME NEW p \in d \cup {c} PROVE Starts(l, h \cup {n}, p)
  <2>1. Starts(lg, h, p) /\ p \in Nat /\ p < n
    <3>1. p \in Nat /\ p < n
      BY <1>1, <1>5
    <3> QED
      BY <1>5, <3>1 DEF Opened
  <2> SUFFICES ASSUME NEW q \in h \cup {n}, q > p, \A x \in h \cup {n} : x > p => q <= x
               PROVE  UserRole(l, q)
    BY DEF Starts
  <2>2. CASE q = n
    <3>1. ASSUME NEW x \in h, x > p PROVE FALSE
      <4>1. q <= x /\ x \in 1 .. Len(lg)
        BY <1>1, <3>1
      <4> QED
        BY <1>1, <2>2, <4>1
    <3>2. r.kind \in {"user", "note"}
      <4>1. ASSUME NEW x \in h, \A y \in d \cup {c} : y < x PROVE FALSE
        <5>1. p < x
          BY <4>1
        <5>2. x > p
          BY <1>1, <2>1, <5>1
        <5> QED
          BY <3>1, <5>2
      <4> QED
        BY <4>1
    <3> QED
      BY <1>2, <2>2, <3>2 DEF UserRole
  <2>3. CASE q # n
    <3>1. q \in h /\ q \in 1 .. Len(lg)
      BY <1>1, <2>3
    <3>2. UserRole(lg, q)
      BY <2>1, <3>1 DEF Starts
    <3> QED
      BY <1>2, <3>1, <3>2 DEF UserRole
  <2> QED
    BY <2>2, <2>3
<1>6. c \in 0 .. Len(l) /\ d \in SUBSET DOMAIN l
  BY <1>1, <1>2
<1> HIDE DEF n
<1>7. Opened(l, Observe(l, h), c, d)
  BY <1>2, <1>3, <1>4, <1>5, <1>6 DEF Opened
<1> QED
  BY <1>3, <1>7 DEF l, n

LEMMA OpenedDrained ==
  ASSUME strategy # "window", NEW lg, NEW h, NEW c, NEW d, Opened(lg, h, c, d),
         NEW late \in Late, Drained(lg, h, late)
  PROVE  Opened(log', hist', c, d) /\ h \subseteq hist'
<1>1. CASE late = "none"
  BY <1>1 DEF Drained
<1>2. CASE late = "user"
  <2>1. log' = Append(lg, UserRow) /\ hist' = Observe(log', h)
    BY <1>2 DEF Drained
  <2> QED
    BY <2>1, OpenedShown, ShownRows, ShownKinds
<1>3. CASE late = "note"
  <2>1. log' = Append(lg, NoteRow) /\ hist' = Observe(log', h)
    BY <1>3 DEF Drained
  <2> QED
    BY <2>1, OpenedShown, ShownRows, ShownKinds
<1> QED
  BY <1>1, <1>2, <1>3 DEF Late

(* A compaction: the message it cuts before is the first, or it was        *)
(* dropped and what follows it is.                                         *)
LEMMA OpenedCut ==
  ASSUME NEW lg, NEW h, NEW c, NEW d, Opened(lg, h, c, d),
         NEW k \in 0 .. Len(lg), c < k, k + 1 \in Users(lg)
  PROVE  Opened(Append(lg, DigestRow(k)), AboveCutoff(h, k), k, d)
<1> DEFINE r == DigestRow(k)
           l == Append(lg, DigestRow(k))
           hk == AboveCutoff(h, k)
<1>1. /\ lg \in Seq(Row) /\ Len(lg) \in Nat /\ DOMAIN lg = 1 .. Len(lg)
      /\ c \in Nat /\ c <= Len(lg) /\ d \in SUBSET (1 .. Len(lg))
      /\ h \in SUBSET Projected(lg) /\ h \in SUBSET (1 .. Len(lg))
      /\ Exact(lg, h, c, d) /\ k \in Nat
  BY OpenedTypes DEF Opened
<1>2. r \in Row /\ r.kind = "digest"
  BY <1>1 DEF DigestRow, Row
<1>3. /\ l \in Seq(Row) /\ Len(l) = Len(lg) + 1 /\ DOMAIN l = 1 .. Len(lg) + 1
      /\ \A q \in 1 .. Len(lg) : l[q] = lg[q]
  BY <1>1, <1>2, AppendRow
<1> HIDE DEF r
<1>4. Exact(l, hk, k, d)
  <2>1. k >= c /\ c \in 0 .. Len(lg) /\ d \in SUBSET DOMAIN lg
    BY <1>1
  <2> QED
    BY <1>1, <1>2, <2>1, CutExact DEF r
<1> HIDE DEF l
<1>5. Starts(lg, hk, k)
  <2> SUFFICES ASSUME NEW q \in hk, q > k, \A x \in hk : x > k => q <= x
               PROVE  UserRole(lg, q)
    BY DEF Starts
  <2>1. q \in h /\ q \in Nat /\ k + 1 <= q
    BY <1>1 DEF AboveCutoff
  <2>2. CASE k + 1 \in h
    <3>1. k + 1 \in hk /\ k + 1 > k
      BY <1>1, <2>2 DEF AboveCutoff
    <3>2. q = k + 1
      BY <1>1, <2>1, <3>1
    <3> QED
      BY <3>2 DEF Users, UserRole
  <2>3. CASE k + 1 \notin h
    <3>1. k + 1 \in Projected(lg) /\ k + 1 > c
      BY <1>1 DEF Users, Projected
    <3>2. k + 1 \in d
      BY <1>1, <2>3, <3>1 DEF Exact
    <3>3. Starts(lg, h, k + 1)
      BY <3>2 DEF Opened
    <3>4. q > k + 1
      BY <1>1, <2>1, <2>3
    <3>5. ASSUME NEW x \in h, x > k + 1 PROVE q <= x
      <4>1. x \in Nat /\ x > k
        BY <1>1, <3>5
      <4> QED
        BY <4>1 DEF AboveCutoff
    <3> QED
      BY <2>1, <3>3, <3>4, <3>5 DEF Starts
  <2> QED
    BY <2>2, <2>3
<1>6. ASSUME NEW p \in d \cup {k} PROVE Starts(l, hk, p)
  <2>1. p \in Nat
    BY <1>1, <1>6
  <2> SUFFICES ASSUME NEW q \in hk, q > p, \A x \in hk : x > p => q <= x
               PROVE  UserRole(l, q)
    BY DEF Starts
  <2>2. q \in h /\ q > k /\ q \in 1 .. Len(lg)
    BY <1>1 DEF AboveCutoff
  <2>3. UserRole(lg, q)
    <3>1. CASE p <= k
      <4>1. \A x \in hk : x > k => x > p
        <5>1. \A x \in hk : x \in Nat
          BY <1>1 DEF AboveCutoff
        <5> QED
          BY <1>1, <2>1, <3>1, <5>1
      <4> QED
        BY <1>5, <2>2, <4>1 DEF Starts
    <3>2. CASE p > k
      <4>1. Starts(lg, h, p)
        BY <1>1, <1>6, <3>2 DEF Opened
      <4>2. ASSUME NEW x \in h, x > p PROVE q <= x
        <5>1. x \in hk
          BY <1>1, <2>1, <3>2, <4>2 DEF AboveCutoff
        <5> QED
          BY <4>2, <5>1
      <4> QED
        BY <2>2, <4>1, <4>2 DEF Starts
    <3> QED
      BY <1>1, <2>1, <3>1, <3>2
  <2> QED
    BY <1>3, <2>2, <2>3 DEF UserRole
<1>7. k \in 0 .. Len(l) /\ d \in SUBSET DOMAIN l
  BY <1>1, <1>3
<1> HIDE DEF hk
<1>8. Opened(l, hk, k, d)
  BY <1>3, <1>4, <1>6, <1>7 DEF Opened
<1> QED
  BY <1>8 DEF l, hk

(* A rebuild.                                                              *)
LEMMA OpenedRecover ==
  ASSUME strategy # "window", NEW lg \in Seq(Row), Rows(lg), Led(lg),
         LoggedCutoff(lg) \in 0 .. Len(lg)
  PROVE  Opened(lg, Recover(lg), LoggedCutoff(lg), {})
<1> DEFINE c == LoggedCutoff(lg)
           h == Recover(lg)
<1>1. Exact(lg, h, c, {}) /\ DOMAIN lg = 1 .. Len(lg) /\ Len(lg) \in Nat /\ c \in Nat
  BY RecoverExact
<1>2. CutsAt(lg, c)
  <2> DEFINE D == {q \in DOMAIN lg : lg[q].kind = "digest"}
  <2>1. CASE D = {}
    BY <2>1 DEF LoggedCutoff, CutsAt
  <2>2. CASE D # {}
    <3>1. D \in SUBSET (0 .. Len(lg)) /\ Len(lg) \in Nat
      OBVIOUS
    <3>2. Max(D) \in D
      <4> HIDE DEF D
      <4> QED
        BY <2>2, <3>1, MaxOf
    <3>3. LoggedCutoff(lg) = lg[Max(D)].of
      BY <2>2 DEF LoggedCutoff
    <3> QED
      BY <3>2, <3>3 DEF Rows, CutsWell
  <2> QED
    BY <2>1, <2>2
<1> HIDE DEF c, h
<1>3. Starts(lg, h, c)
  <2> SUFFICES ASSUME NEW q \in h, q > c, \A x \in h : x > c => q <= x
               PROVE  UserRole(lg, q)
    BY DEF Starts
  <2>1. q \in Projected(lg) /\ q \in Nat
    BY <1>1 DEF Exact, Projected
  <2>2. ASSUME NEW x \in Projected(lg), x > c PROVE q <= x
    <3>1. x \in h
      BY <1>1, <2>2 DEF Exact
    <3> QED
      BY <2>2, <3>1
  <2>3. CASE c = 0
    <3>1. PICK b \in DOMAIN lg : b <= q /\ UserRole(lg, b)
      BY <2>1 DEF Led
    <3>2. b \in Projected(lg) /\ b \in Nat /\ b > c
      BY <1>1, <2>3, <3>1 DEF Projected, UserRole
    <3>3. b = q
      BY <2>1, <2>2, <3>1, <3>2
    <3> QED
      BY <3>1, <3>3
  <2>4. CASE c > 0
    <3>1. c + 1 \in DOMAIN lg /\ lg[c + 1].kind = "user"
      BY <1>2, <2>4 DEF CutsAt
    <3>2. c + 1 \in Projected(lg) /\ c + 1 > c
      BY <1>1, <3>1 DEF Projected
    <3>3. q <= c + 1
      BY <2>2, <3>2
    <3>4. q = c + 1
      BY <1>1, <2>1, <3>3
    <3> QED
      BY <3>1, <3>4 DEF UserRole
  <2> QED
    BY <1>1, <2>3, <2>4
<1> QED
  BY <1>1, <1>3 DEF Opened, c, h

(* An aborted turn.                                                        *)
LEMMA OpenedKept ==
  ASSUME NEW lg, NEW h, NEW c, NEW d, Opened(lg, h, c, d),
         NEW x \in h, \A p \in d \cup {c} : p < x
  PROVE  Opened(lg, KeptTo(h, x), c, d \cup (h \ KeptTo(h, x)))
<1> DEFINE hx == KeptTo(h, x)
           dx == d \cup (h \ KeptTo(h, x))
<1>1. /\ lg \in Seq(Row) /\ Len(lg) \in Nat /\ DOMAIN lg = 1 .. Len(lg)
      /\ c \in 0 .. Len(lg) /\ d \in SUBSET DOMAIN lg
      /\ h \in SUBSET (1 .. Len(lg)) /\ Exact(lg, h, c, d)
  BY OpenedTypes DEF Opened
<1>2. hx \subseteq h /\ x \in Nat
  BY <1>1 DEF KeptTo
<1>3. Exact(lg, hx, c, dx)
  BY <1>1, <1>2 DEF Exact
<1>4. ASSUME NEW p \in dx \cup {c} PROVE Starts(lg, hx, p)
  <2> SUFFICES ASSUME NEW q \in hx, q > p, \A y \in hx : y > p => q <= y
               PROVE  UserRole(lg, q)
    BY DEF Starts
  <2>1. q \in h /\ q <= x /\ q \in Nat
    BY <1>1 DEF KeptTo
  <2>2. CASE p \in d \cup {c}
    <3>1. Starts(lg, h, p) /\ p \in Nat
      BY <1>1, <2>2 DEF Opened
    <3>2. ASSUME NEW y \in h, y > p PROVE q <= y
      <4>1. y \in Nat
        BY <1>1
      <4>2. CASE y <= x
        <5>1. y \in hx
          BY <4>2 DEF KeptTo
        <5> QED
          BY <3>2, <5>1
      <4>3. CASE y > x
        BY <1>2, <2>1, <4>1, <4>3
      <4> QED
        BY <1>2, <4>1, <4>2, <4>3
    <3> QED
      BY <2>1, <3>1, <3>2 DEF Starts
  <2>3. CASE p \in h \ hx
    <3>1. p > x /\ p \in Nat
      BY <1>1, <1>2, <2>3 DEF KeptTo
    <3> QED
      BY <1>2, <2>1, <3>1
  <2> QED
    BY <1>4, <2>2, <2>3
<1>5. dx \in SUBSET DOMAIN lg
  BY <1>1
<1> HIDE DEF hx, dx
<1>6. Opened(lg, hx, c, dx)
  BY <1>1, <1>3, <1>4, <1>5 DEF Opened
<1> QED
  BY <1>6 DEF hx, dx

-----------------------------------------------------------------------------
(* Without a window, no floor is 0: until there is one, the cache begins   *)
(* with a message of the user role, whose turn is in it.                   *)

OpenInv ==
  strategy # "window" =>
    /\ 0 \notin floor
    /\ floor = {} =>
         /\ cps = <<>>
         /\ phase # "idle" => base \in hist /\ \A p \in dropped \cup {cutoff} : p < base
         /\ phase = "tools" => owner \in hist /\ Calling(log, owner)
         /\ loaded /\ scan = 0 => Opened(log, hist, cutoff, dropped)

LEMMA OpenInit == Init => OpenInv
BY DEF Init, OpenInv

LEMMA OpenPrimed ==
  ASSUME floor' = {} \/ (floor' = PreambleFloor(log', hist') /\ loaded' /\ scan' = 0),
         cps' = <<>>,
         phase' # "idle" => base' \in hist' /\ \A p \in dropped' \cup {cutoff'} : p < base',
         phase' = "tools" => owner' \in hist' /\ Calling(log', owner'),
         loaded' /\ scan' = 0 => Opened(log', hist', cutoff', dropped')
  PROVE  OpenInv'
<1>1. 0 \notin floor'
  BY OpenedFloor
<1>2. Opened(log', hist', cutoff', dropped') => Opened(log, hist, cutoff, dropped)'
  BY DEF Opened, Exact, Starts, UserRole, Projected
<1> QED
  BY <1>1, <1>2 DEF OpenInv, Calling

LEMMA OpenStartTurn ==
  ASSUME strategy # "window", floor = {}, OpenInv, BriefInv, CacheInv, GroupInv, TypeInv,
         PageLimit >= MaxLog, StartTurn
  PROVE  OpenInv'
<1> DEFINE lg == Append(log, UserRow)
           cut == IF loaded THEN cutoff ELSE LoggedCutoff(Page(lg))
           h == IF loaded THEN Observe(lg, hist) ELSE Recover(Page(lg))
           us == IF loaded THEN bounds \cup {Len(lg)} ELSE Users(Page(lg))
           d == IF loaded THEN dropped ELSE {}
<1>1. /\ log \in Seq(Row) /\ Len(log) \in Nat /\ Led(log) /\ Rows(log) /\ Room(2) /\ scan = 0
      /\ LoggedCutoff(log) \in 0 .. Len(log) /\ cutoff \in 0 .. Len(log)
      /\ dropped \in SUBSET (1 .. Len(log)) /\ bounds \subseteq Users(log)
  BY TypeFacts DEF CacheInv, Sound, BriefInv, GroupInv, Good, StartTurn
<1>2. /\ lg \in Seq(Row) /\ Len(lg) = Len(log) + 1 /\ lg[Len(lg)] = UserRow
      /\ Len(lg) \in DOMAIN lg /\ Len(lg) \in Nat
  BY <1>1, AppendRow, ShownRows
<1>3. Led(lg) /\ Rows(lg)
  BY <1>1, LedAppend, RowsShown, ShownRows, ShownKinds
<1>4. Page(lg) = lg
  <2>1. Len(lg) <= MaxLog
    BY <1>1, <1>2, BoundsAssumption DEF Room
  <2> HIDE DEF lg
  <2> QED
    BY <1>2, <2>1, PageAll
<1>5. LoggedCutoff(lg) = LoggedCutoff(log)
  BY <1>1, CutoffShown, ShownRows
<1>6. Opened(lg, h, cut, d) /\ Len(lg) \in h
  <2>1. CASE loaded
    <3>1. Opened(log, hist, cutoff, dropped)
      BY <1>1, <2>1 DEF OpenInv
    <3> QED
      BY <1>2, <2>1, <3>1, OpenedShown, ShownRows, ShownKinds
  <2>2. CASE ~loaded
    <3>1. Len(lg) \in {q \in Projected(lg) : q > LoggedCutoff(lg)}
      BY <1>1, <1>2, <1>5, ShownRows DEF Projected
    <3>2. LoggedCutoff(lg) \in 0 .. Len(lg)
      BY <1>1, <1>2, <1>5
    <3> HIDE DEF lg
    <3>3. h = Recover(lg) /\ cut = LoggedCutoff(lg) /\ d = {}
      BY <1>4, <2>2
    <3>4. Opened(lg, h, cut, d)
      BY <1>2, <1>3, <3>2, <3>3, OpenedRecover
    <3> QED
      BY <3>1, <3>3, <3>4 DEF Recover, Trim
  <2> QED
    BY <2>1, <2>2
<1>7. us \in SUBSET Users(lg)
  <2>1. CASE loaded
    BY <1>1, <1>2, <2>1, UsersGrow, ShownRows, ShownKinds
  <2>2. CASE ~loaded
    BY <1>4, <2>2
  <2> QED
    BY <2>1, <2>2
<1>8. cut < Len(lg) /\ \A p \in d : p < Len(lg)
  <2>1. cut \in 0 .. Len(log)
    BY <1>1, <1>4, <1>5
  <2>2. d \in SUBSET (1 .. Len(log))
    BY <1>1
  <2> QED
    BY <1>1, <1>2, <2>1, <2>2
<1> HIDE DEF lg, cut, h, us, d
<1>9. /\ base' = Len(lg) /\ phase' = "model" /\ loaded' = TRUE /\ scan' = 0 /\ dropped' = d
      /\ cps' = <<>>
  BY DEF StartTurn, OpenInv, lg, d
<1>10. floor' = {} \/ floor' = PreambleFloor(log', hist')
  BY DEF StartTurn, PromptFloor, Floor
<1>11. CASE log' = lg /\ hist' = h /\ cutoff' = cut
  <2>1. base' \in hist' /\ \A p \in dropped' \cup {cutoff'} : p < base'
    BY <1>6, <1>8, <1>9, <1>11
  <2> QED
    BY <1>6, <1>9, <1>10, <1>11, <2>1, OpenPrimed
<1>12. CASE /\ Compactable(us, cut)
            /\ log' = Append(lg, DigestRow(NewCutoff(us)))
            /\ cutoff' = NewCutoff(us)
            /\ hist' = AboveCutoff(h, NewCutoff(us))
  <2> DEFINE k == NewCutoff(us)
  <2>1. k \in 0 .. Len(lg) /\ us \in SUBSET DOMAIN lg
    <3>1. us \in SUBSET DOMAIN lg
      BY <1>7 DEF Users
    <3> QED
      BY <1>2, <3>1, NewCutoffType
  <2>2. cut \in Nat /\ cut < k
    BY <1>6, <1>12, OpenedTypes DEF Compactable
  <2>3. k + 1 \in us /\ k + 1 \in Users(lg)
    BY <1>2, <1>7, <2>1, <2>2, CutUser
  <2>4. k < Len(lg) /\ k \in Nat
    <3>1. k + 1 \in 1 .. Len(lg)
      BY <1>2, <2>3 DEF Users
    <3> HIDE DEF k
    <3> QED
      BY <1>2, <2>1, <3>1
  <2> HIDE DEF k
  <2>5. Opened(log', hist', cutoff', dropped')
    BY <1>6, <1>9, <1>12, <2>1, <2>2, <2>3, OpenedCut DEF k
  <2>6. base' \in hist' /\ \A p \in dropped' \cup {cutoff'} : p < base'
    BY <1>6, <1>8, <1>9, <1>12, <2>4 DEF AboveCutoff, k
  <2> QED
    BY <1>9, <1>10, <2>5, <2>6, OpenPrimed
<1> QED
  BY <1>11, <1>12 DEF StartTurn, lg, h, us, cut

LEMMA OpenResult ==
  ASSUME strategy # "window", OpenInv, floor = {}, CacheInv, TypeInv, BriefInv, CallWork
  PROVE  OpenInv'
<1> DEFINE r == ResultRow(owner, Answered + 1)
<1>1. /\ phase = "tools" /\ scan = 0 /\ loaded = TRUE
      /\ log' = Append(log, r) /\ hist' = Observe(log', hist)
      /\ UNCHANGED <<strategy, cutoff, cps, floor, loaded, phase, base, owner, scan, dropped>>
  BY ToolsQuiet, TypeFacts DEF CallWork, CallsLeft, Result, BriefInv
<1>2. /\ Opened(log, hist, cutoff, dropped) /\ base \in hist
      /\ \A p \in dropped \cup {cutoff} : p < base
      /\ owner \in hist /\ Calling(log, owner) /\ cps = <<>>
  BY <1>1 DEF OpenInv
<1>3. r \in Row /\ r.kind # "digest"
  BY TypeFacts, AnsweredType, ShownRows
<1> HIDE DEF r
<1>4. Opened(log', hist', cutoff, dropped) /\ hist \subseteq hist'
  BY <1>1, <1>2, <1>3, OpenedShown
<1>5. Calling(log', owner)
  BY <1>1, <1>2, <1>3, OpenedTypes, AppendRow DEF Calling
<1> QED
  BY <1>1, <1>2, <1>4, <1>5, OpenPrimed

LEMMA OpenTurn ==
  ASSUME strategy # "window", OpenInv, floor = {}, CacheInv, TypeInv, BriefInv,
         phase # "idle",
         \/ \E n \in 1 .. MaxCalls : ModelCalls(n)
         \/ \E late \in Late : ModelAnswers(late)
         \/ \E said \in BOOLEAN : Reprompt(said)
         \/ \E late \in Late, measured \in BOOLEAN : Advance(late, measured)
         \/ Note
         \/ Abort
  PROVE  OpenInv'
<1>1. /\ loaded = TRUE /\ scan = 0 /\ log \in Seq(Row) /\ Len(log) \in Nat
      /\ hist \in SUBSET Projected(log)
  BY ToolsQuiet, TypeFacts DEF BriefInv, CacheInv, Sound
<1>2. /\ Opened(log, hist, cutoff, dropped) /\ base \in hist
      /\ \A p \in dropped \cup {cutoff} : p < base
      /\ phase = "tools" => owner \in hist /\ Calling(log, owner)
      /\ cps = <<>>
  BY <1>1 DEF OpenInv
<1> DEFINE said1 == Append(log, AsstRow(0))
<1>3. Opened(said1, Observe(said1, hist), cutoff, dropped) /\ hist \subseteq Observe(said1, hist)
  BY <1>2, OpenedShown, ShownRows
<1>4. Floor(log', hist') = PreambleFloor(log', hist')
  BY DEF Floor
<1> HIDE DEF said1
<1>5. ASSUME NEW lg, NEW h, Opened(lg, h, cutoff, dropped), hist \subseteq h,
             NEW late \in Late, Drained(lg, h, late), phase' \in {"idle", "model"},
             floor' = floor \/ PromptFloor \/ floor' = Floor(log', hist'),
             UNCHANGED <<strategy, cutoff, cps, loaded, base, scan, dropped>>
      PROVE  OpenInv'
  <2>1. Opened(log', hist', cutoff, dropped) /\ hist \subseteq hist'
    BY <1>5, OpenedDrained
  <2>2. floor' = {} \/ floor' = PreambleFloor(log', hist')
    BY <1>4, <1>5 DEF PromptFloor
  <2> QED
    BY <1>1, <1>2, <1>5, <2>1, <2>2, OpenPrimed
<1>6. ASSUME NEW n \in 1 .. MaxCalls, ModelCalls(n) PROVE OpenInv'
  <2>1. /\ log' = Append(log, AsstRow(n)) /\ hist' = Observe(log', hist) /\ owner' = Len(log')
        /\ UNCHANGED <<strategy, cutoff, cps, floor, loaded, base, scan, dropped>>
    BY <1>6 DEF ModelCalls
  <2>2. AsstRow(n) \in Row /\ AsstRow(n).kind = "asst" /\ AsstRow(n).num > 0
    BY ShownRows, ShownKinds
  <2>3. /\ Opened(log', hist', cutoff, dropped) /\ hist \subseteq hist'
        /\ Len(log) + 1 \in hist'
    BY <1>2, <2>1, <2>2, OpenedShown
  <2>4. owner' \in hist' /\ Calling(log', owner')
    BY <1>1, <2>1, <2>2, <2>3, AppendRow DEF Calling
  <2> QED
    BY <1>1, <1>2, <2>1, <2>3, <2>4, OpenPrimed
<1>7. ASSUME NEW late \in Late, ModelAnswers(late) PROVE OpenInv'
  BY <1>3, <1>5, <1>7 DEF ModelAnswers, said1
<1>8. ASSUME NEW said \in BOOLEAN, Reprompt(said) PROVE OpenInv'
  <2>1. /\ "note" \in Late /\ phase' = "model" /\ PromptFloor
        /\ UNCHANGED <<strategy, cutoff, cps, loaded, base, scan, dropped>>
    BY <1>8 DEF Late, Reprompt
  <2>2. CASE said
    <3>1. Drained(said1, Observe(said1, hist), "note")
      BY <1>8, <2>2 DEF Reprompt, said1
    <3> QED
      BY <1>3, <1>5, <2>1, <3>1
  <2>3. CASE ~said
    <3>1. Drained(log, hist, "note")
      BY <1>8, <2>3 DEF Reprompt
    <3> QED
      BY <1>2, <1>5, <2>1, <3>1
  <2> QED
    BY <2>2, <2>3
<1>9. ASSUME NEW late \in Late, NEW measured \in BOOLEAN, Advance(late, measured)
      PROVE  OpenInv'
  BY <1>2, <1>5, <1>9 DEF Advance
<1>10. ASSUME Note PROVE OpenInv'
  <2>1. /\ Drained(log, hist, "note") /\ "note" \in Late /\ phase = "tools"
        /\ log' = Append(log, NoteRow)
        /\ UNCHANGED <<strategy, cutoff, cps, floor, loaded, phase, base, owner, scan, dropped>>
    BY <1>10 DEF Note, Late, Drained
  <2>2. Opened(log', hist', cutoff, dropped) /\ hist \subseteq hist'
    BY <1>2, <2>1, OpenedDrained
  <2>3. owner' \in hist' /\ Calling(log', owner')
    <3>1. owner \in DOMAIN log
      BY <1>1, <1>2, <2>1 DEF Projected
    <3> QED
      BY <1>1, <1>2, <2>1, <2>2, <3>1, AppendRow, ShownRows DEF Calling
  <2> QED
    BY <1>1, <1>2, <2>1, <2>2, <2>3, OpenPrimed
<1>11. ASSUME Abort PROVE OpenInv'
  <2>1. /\ hist' = KeptTo(hist, base) /\ phase' = "idle"
        /\ dropped' = dropped \cup (hist \ KeptTo(hist, base))
        /\ UNCHANGED <<log, cutoff, cps, floor, loaded, scan>>
    BY <1>11 DEF Abort
  <2>2. Opened(log, hist', cutoff, dropped')
    BY <1>2, <2>1, OpenedKept
  <2> QED
    BY <1>1, <1>2, <2>1, <2>2, OpenPrimed
<1> QED
  BY <1>6, <1>7, <1>8, <1>9, <1>10, <1>11

LEMMA OpenIdle ==
  ASSUME strategy # "window", OpenInv, floor = {}, CacheInv, GroupInv, TypeInv, BriefInv,
         "command" \notin Midway,
         (Note /\ phase = "idle") \/ CommandCompact \/ CommandReset \/ ResetHistory \/ Restart
  PROVE  OpenInv'
<1>1. /\ log \in Seq(Row) /\ Len(log) \in Nat /\ Rows(log) /\ Led(log)
      /\ bounds \in SUBSET Users(log) /\ bounds \in SUBSET DOMAIN log
      /\ LoggedCutoff(log) \in 0 .. Len(log) /\ cps = <<>>
      /\ loaded /\ scan = 0 => Opened(log, hist, cutoff, dropped)
  BY TypeFacts DEF CacheInv, Sound, GroupInv, Good, BriefInv, OpenInv, Users
<1>2. CASE Note /\ phase = "idle"
  <2>1. /\ Drained(log, hist, "note") /\ "note" \in Late /\ phase' = "idle"
        /\ UNCHANGED <<strategy, cutoff, cps, floor, loaded, scan, dropped>>
    BY <1>2 DEF Note, Late
  <2>2. loaded /\ scan = 0 => Opened(log', hist', cutoff', dropped')
    BY <1>1, <2>1, OpenedDrained
  <2> QED
    BY <1>1, <2>1, <2>2, OpenPrimed
<1>3. CASE CommandCompact
  <2> DEFINE k == NewCutoff(bounds)
             lg == Append(log, DigestRow(k))
  <2>1. /\ cutoff < k /\ cutoff' = k /\ scan = 0 /\ phase' = "idle"
        /\ log' = Append(lg, NoteRow) /\ hist' = Observe(log', AboveCutoff(hist, k))
        /\ UNCHANGED <<cps, floor, loaded, scan, dropped>>
    BY <1>3 DEF CommandCompact, CommandNow, Compactable
  <2>2. k \in 0 .. Len(log)
    BY <1>1, NewCutoffType
  <2>3. cutoff \in Nat
    BY TypeFacts
  <2>4. k + 1 \in Users(log)
    BY <1>1, <2>1, <2>3, CutUser
  <2> HIDE DEF k
  <2>5. loaded => Opened(lg, AboveCutoff(hist, k), k, dropped)
    BY <1>1, <2>1, <2>2, <2>4, OpenedCut
  <2> HIDE DEF lg
  <2>6. loaded => Opened(log', hist', cutoff', dropped')
    BY <2>1, <2>5, OpenedShown, ShownRows, ShownKinds
  <2> QED
    BY <1>1, <2>1, <2>6, OpenPrimed
<1>4. CASE CommandReset
  <2>1. /\ log' = Append(log, DigestRow(0)) /\ scan' = Len(log') /\ phase' = "idle"
        /\ UNCHANGED <<cps, floor, loaded>>
    BY <1>4 DEF CommandReset, CommandNow
  <2>2. DigestRow(0) \in Row
    BY DEF DigestRow, Row
  <2>3. scan' # 0
    BY <1>1, <2>1, <2>2, AppendRow
  <2> QED
    BY <1>1, <2>1, <2>3, OpenPrimed
<1>5. CASE ResetHistory
  <2>1. /\ hist' = Recover(SubSeq(log, 1, scan)) /\ scan = Len(log) /\ phase' = "idle"
        /\ cutoff = LoggedCutoff(log) /\ dropped' = {}
        /\ UNCHANGED <<log, cutoff, cps, floor, loaded>>
    BY <1>5 DEF ResetHistory, CacheInv, QuietReset
  <2>2. hist' = Recover(log)
    BY <1>1, <2>1, SubSeqAll
  <2>3. Opened(log', hist', cutoff', dropped')
    BY <1>1, <2>1, <2>2, OpenedRecover
  <2> QED
    BY <1>1, <2>1, <2>3, OpenPrimed
<1>6. CASE Restart
  BY <1>6, OpenPrimed DEF Restart
<1> QED
  BY <1>2, <1>3, <1>4, <1>5, <1>6

LEMMA OpenNext ==
  ASSUME OpenInv, CacheInv, GroupInv, TypeInv, BriefInv, PageLimit >= MaxLog,
         "command" \notin Midway, [Next]_vars
  PROVE  OpenInv'
<1>1. strategy' = strategy
  BY DEF Next, StartTurn, ModelCalls, ModelAnswers, Reprompt, CallWork, CallCheckpoint,
         CallHide, CallExpand, SetHidden, CallRollback, Advance, Abort, Note,
         CommandCompact, CommandReset, ResetHistory, Restart, vars
<1>2. CASE strategy = "window"
  BY <1>1, <1>2 DEF OpenInv
<1>3. CASE strategy # "window" /\ floor # {}
  <2>1. CASE Restart
    BY <2>1 DEF Restart, OpenInv
  <2>2. CASE ~Restart
    <3>1. floor' = floor
      BY <1>3, <2>2, FloorForms DEF Floor
    <3> QED
      BY <1>1, <1>3, <3>1 DEF OpenInv
  <2> QED
    BY <2>1, <2>2
<1>4. CASE strategy # "window" /\ floor = {}
  <2>1. cps = <<>> /\ DOMAIN cps = {}
    BY <1>4 DEF OpenInv
  <2>2. CASE CallCheckpoint
    <3>1. phase = "tools" /\ scan = 0 /\ loaded
      BY <2>2, ToolsQuiet DEF CallCheckpoint, CallsLeft, BriefInv
    <3>2. Opened(log, hist, cutoff, dropped) /\ owner \in hist /\ Calling(log, owner)
      BY <1>4, <3>1 DEF OpenInv
    <3>3. floor' = PreambleFloor(log, hist)
      BY <1>4, <2>2 DEF CallCheckpoint, Floor
    <3>4. floor' # {}
      BY <3>2, <3>3 DEF PreambleFloor, Calling
    <3> QED
      BY <3>2, <3>3, <3>4, OpenedFloor DEF OpenInv
  <2>3. ASSUME NEW c \in DOMAIN cps PROVE FALSE
    BY <2>1
  <2>4. CASE UNCHANGED vars
    <3>1. UNCHANGED <<strategy, log, hist, cutoff, cps, floor, loaded, phase, base, owner,
                      scan, dropped>>
      BY <2>4 DEF vars
    <3>2. loaded' /\ scan' = 0 => Opened(log', hist', cutoff', dropped')
      BY <1>4, <3>1 DEF OpenInv
    <3> QED
      BY <1>4, <3>1, <3>2, OpenPrimed DEF OpenInv, Calling
  <2>5. ASSUME NEW n \in 1 .. MaxCalls, ModelCalls(n) PROVE phase # "idle"
    BY <2>5 DEF ModelCalls
  <2>6. ASSUME \/ \E late \in Late : ModelAnswers(late)
               \/ \E said \in BOOLEAN : Reprompt(said)
               \/ \E late \in Late, measured \in BOOLEAN : Advance(late, measured)
               \/ Abort
        PROVE  phase # "idle"
    BY <2>6 DEF ModelAnswers, Reprompt, Advance, Abort
  <2> QED
    BY <1>4, <2>2, <2>3, <2>4, <2>5, <2>6, OpenStartTurn, OpenResult, OpenTurn, OpenIdle
       DEF Next
<1> QED
  BY <1>2, <1>3, <1>4

-----------------------------------------------------------------------------
(* From the invariants to the prompt.                                      *)

LEMMA BriefImplies == ASSUME BriefInv, OpenInv, CacheInv, TypeInv PROVE BriefKept
<1> DEFINE users == {q \in DOMAIN log : UserRole(log, q)}
           b == Min(users)
<1> SUFFICES ASSUME phase = "model", Hidden # {} => PreambleKnown
             PROVE  b <= cutoff \/ Place(b) \in Prompt
  BY DEF BriefKept
<1>1. /\ log \in Seq(Row) /\ DOMAIN log = 1 .. Len(log) /\ Len(log) \in Nat
      /\ hist \in SUBSET Projected(log) /\ hist \in SUBSET (0 .. Len(log))
      /\ loaded /\ scan = 0 /\ Led(log) /\ Begun(log)
      /\ floor \subseteq {0} \cup Projected(log)
      /\ Carries(log, hist, cutoff)
  BY ToolsQuiet, TypeFacts DEF BriefInv, CacheInv, Sound, Projected
<1>2. b \in DOMAIN log /\ Brief(log, b)
  <2>1. users \in SUBSET Nat /\ users # {}
    BY <1>1 DEF Begun
  <2>2. Min(users) \in users /\ \A y \in users : Min(users) <= y
    <3> HIDE DEF users
    <3> QED
      BY <2>1, MinOf
  <2> QED
    BY <2>2 DEF Brief
<1> HIDE DEF b
<1>3. CASE b <= cutoff
  BY <1>3
<1>4. CASE b \in hist
  <2>1. ASSUME NEW c \in Hidden, b \in Segment(c) PROVE FALSE
    <3>1. b > Newest(Floor(log, hist))
      BY <2>1 DEF Segment
    <3>2. Floor(log, hist) \subseteq {0} \cup Projected(log)
      BY <1>1, FloorShown
    <3>3. Floor(log, hist) \in SUBSET (0 .. Len(log))
      BY <1>1, <3>2 DEF Projected
    <3>4. PICK f \in Floor(log, hist) : strategy = "window" => f > 0
      BY <2>1 DEF PreambleKnown
    <3>5. f # 0
      <4>1. CASE strategy = "window"
        BY <3>4, <4>1
      <4>2. CASE strategy # "window"
        <5>1. floor # {}
          BY <2>1, <4>2 DEF OpenInv, Hidden
        <5> QED
          BY <3>4, <4>2, <5>1 DEF Floor, OpenInv
      <4> QED
        BY <4>1, <4>2
    <3>6. f \in Projected(log)
      BY <3>2, <3>5
    <3>7. b <= f
      BY <1>1, <1>2, <3>6, LedBrief
    <3>8. f <= Newest(Floor(log, hist)) /\ Newest(Floor(log, hist)) \in Nat /\ f \in Nat
      BY <1>1, <3>3, NewestType
    <3>9. b \in Nat
      BY <1>1, <1>2
    <3> QED
      BY <3>1, <3>7, <3>8, <3>9
  <2>2. {c \in Hidden : b \in Segment(c)} = {}
    BY <2>1
  <2> QED
    BY <1>4, <2>2 DEF Prompt
<1> QED
  BY <1>1, <1>2, <1>3, <1>4 DEF Carries

(* The model never forgets its task: the first message of the user role is *)
(* in every prompt or in the digest.  The window pins it, a compaction     *)
(* writes it down, a rollback and an aborted turn keep it, a hidden        *)
(* segment stops at the preamble it belongs to (firstUserMessageIndex,     *)
(* pruneToCutoff, rollbackFrom, RollbackTo, computePreambleFloor), as long *)
(* as the log fits the page that materialise reads and no command runs in  *)
(* the middle of a turn.                                                   *)
THEOREM BriefStaysKept ==
  ASSUME PageLimit >= MaxLog, "command" \notin Midway
  PROVE  Spec => []BriefKept
<1> DEFINE Inv == TypeInv /\ CacheInv /\ GroupInv /\ BriefInv /\ OpenInv
<1>1. Init => Inv
  BY TypeInit, CacheInvInit, GroupInit, BriefInit, OpenInit
<1>2. Inv /\ [Next]_vars => Inv'
  <2> SUFFICES ASSUME Inv, [Next]_vars PROVE Inv'
    OBVIOUS
  <2>1. TypeInv' /\ CacheInv' /\ GroupInv'
    BY TypeNext, CacheInvNext, GroupNext
  <2>2. BriefInv'
    BY <2>1, BriefNext
  <2>3. OpenInv'
    BY OpenNext
  <2> QED
    BY <2>1, <2>2, <2>3
<1>3. Inv => BriefKept
  BY BriefImplies
<1> HIDE DEF Inv
<1> QED
  BY <1>1, <1>2, <1>3, PTL DEF Spec

=============================================================================
