---------------------------- MODULE Mission_proofs ----------------------------
(***************************************************************************)
(* Theorems about Mission, for every set of workers, every number of       *)
(* iterations and criteria, and every manifest, when a planner gives each  *)
(* wave a label of its own and its workers names of their own, and the     *)
(* observer reads MissionState under one lock.                             *)
(***************************************************************************)
EXTENDS Mission, SequenceTheorems, TLAPS

\* The planner of an iteration.
Planner(j) == <<"planner", "plan", j>>

\* It submits no plan any more.
Spent(j) ==
  Planner(j) \in DOMAIN kid => kid[Planner(j)].state # "runs" /\ kid[Planner(j)].step = "none"

\* A session of the current wave.
OfWave(s) == s[1] \in spawned /\ s[2] = label[1] /\ s[3] = iter

-----------------------------------------------------------------------------
(* The inductive invariant.                                                *)

\* The label of the current wave says in which stage the driver is.
DriverInv ==
  /\ pc = "wave" <=> label # None
  /\ label[1] = "plan" => label = <<"plan", iter>> /\ todo \cup spawned \subseteq {"planner"}
  /\ label[1] = "do" => label = <<"do", next>>
  /\ label[1] = "check" => label = <<"check", iter>>
  /\ label[1] = "synth" => label = <<"synth", 0>>
  /\ pc = "run" \/ label[1] = "do" => next \in 1 .. iter
  /\ pc \in {"iterate", "run", "check"} \/ label[1] \in {"plan", "do", "check"} =>
       errs < MaxErrors

\* A handoff under the label of the current wave is of a session of this wave, which is gone;
\* who is registered is of this wave; who is overdue was spawned and cancelled; the planner of an
\* iteration is not there before it is spawned.
WaveInv ==
  /\ \A r \in DOMAIN store : r[2] = label =>
       r[1] \in spawned /\ store[r].by = Sid(r[1]) /\ Sid(r[1]) \notin DOMAIN kid
  /\ label # None => \A s \in workers : OfWave(s)
  /\ overdue \subseteq spawned
  /\ \A n \in overdue : Sid(n) \in DOMAIN kid => kid[Sid(n)].state # "runs"
  /\ label[1] = "plan" /\ Planner(iter) \in DOMAIN kid => "planner" \in spawned

\* The labels in the store are of waves before the next one of their stage; a plan whose
\* wave has run was submitted by a planner that submits no more.
StoreInv ==
  /\ \A r \in DOMAIN store :
       /\ r[2][1] = "plan" => r[2][2] <= iter
       /\ r[2][1] = "check" => r[2][2] <= iter
       /\ r[2][1] = "check" /\ (label[1] \in {"plan", "do"} \/ pc \in {"run", "check"}) =>
            r[2][2] < iter
       /\ r[2][1] = "synth" => label[1] = "synth" \/ pc = "ended"
       /\ r[2][1] = "do" =>
            /\ r[2][2] \in 1 .. iter
            /\ label[1] = "plan" => r[2][2] < iter /\ r[2][2] # sub.wave
            /\ pc = "run" => r[2][2] # next
            /\ Spent(r[2][2])
  /\ pc = "run" \/ label[1] = "do" => Spent(next)

\* Where a session stands in its handler.
KidInv ==
  \A s \in DOMAIN kid :
    /\ s[3] <= iter /\ kid[s].label[1] = s[2] /\ ~kid[s].looked
    /\ s[2] = "plan" =>
         s = Planner(s[3]) /\ kid[s].label[2] = s[3] /\ kid[s].wave \in {0, s[3]}
    /\ kid[s].step # "none" => s[2] = "plan" /\ kid[s].state # "closed"
    /\ kid[s].step # "stage" => kid[s].verdict = "none"

\* Who runs is of the current wave.
RunInv ==
  \A s \in DOMAIN kid : kid[s].state = "runs" => label = kid[s].label /\ OfWave(s)

\* A submission names the planner of the iteration its wave is labelled with; when it is of an
\* earlier iteration, it was the last of its planner.
SubInv ==
  /\ sub.wave # 0 => sub.by = Planner(sub.wave) /\ sub.wave <= iter
  /\ \A s \in DOMAIN kid : s = sub.by /\ s[3] < iter => kid[s].step = "none"

\* The one slot of pendingDiff holds the diff of the planner that is alone at it, and nothing
\* when nobody is; who is not alone is in mixed.
SlotInv ==
  /\ mixed \subseteq AtDiff
  /\ \A s \in AtDiff \ mixed :
       AtDiff = {s} /\ (kid[s].step # "discard" => staged = kid[s].diff)
  /\ AtDiff = {} => staged = NoDiff

Core == DriverInv /\ WaveInv /\ StoreInv /\ KidInv /\ RunInv /\ SubInv /\ SlotInv

IInv == TypeOK /\ Core

-----------------------------------------------------------------------------
(* The facts of TypeOK that the steps need.                                *)

KidRecord ==
  [label : Label, state : {"runs", "cancelled", "closed"}, looked : BOOLEAN,
   step : Step, verdict : Verdict, wave : 0 .. MaxWaves, diff : Diff]

Typed ==
  /\ iter \in Nat /\ next \in Nat /\ errs \in Nat /\ sub.wave \in Nat
  /\ label # None => label[1] \in Stage /\ label[2] \in Nat /\ label = <<label[1], label[2]>>
  /\ \A s \in DOMAIN kid : s = <<s[1], s[2], s[3]>> /\ s[2] \in Stage /\ s[3] \in Nat
  /\ \A s \in workers : s = <<s[1], s[2], s[3]>>
  /\ \A r \in DOMAIN store :
       /\ r = <<r[1], r[2]>>
       /\ r[2] = <<r[2][1], r[2][2]>> /\ r[2][1] \in Stage /\ r[2][2] \in Nat

LEMMA TypedFacts ==
  ASSUME TypeOK
  PROVE  Typed
<1>0. MaxWaves \in Nat /\ MaxErrors \in Nat
  BY BoundsAssumption
<1>1. iter \in Nat /\ next \in Nat /\ errs \in Nat /\ sub.wave \in Nat
  <2>1. iter \in 0 .. MaxWaves /\ next \in 0 .. MaxWaves /\ errs \in 0 .. MaxErrors
    BY DEF TypeOK
  <2>2. sub.wave \in 0 .. MaxWaves
    BY DEF TypeOK
  <2> QED
    BY <1>0, <2>1, <2>2
<1>2. label # None => label[1] \in Stage /\ label[2] \in Nat /\ label = <<label[1], label[2]>>
  <2>1. label # None => label \in Stage \X (0 .. MaxWaves)
    BY DEF TypeOK, Label
  <2> QED
    BY <1>0, <2>1
<1>3. \A s \in Session : s = <<s[1], s[2], s[3]>> /\ s[2] \in Stage /\ s[3] \in Nat
  BY BoundsAssumption DEF Session
<1>4. \A r \in Author \X Label :
        /\ r = <<r[1], r[2]>>
        /\ r[2] = <<r[2][1], r[2][2]>> /\ r[2][1] \in Stage /\ r[2][2] \in Nat
  BY BoundsAssumption DEF Label
<1>5. /\ DOMAIN kid \subseteq Session /\ workers \subseteq Session
      /\ DOMAIN store \subseteq Author \X Label
  BY DEF TypeOK
<1> QED
  BY <1>1, <1>2, <1>3, <1>4, <1>5 DEF Typed

LEMMA KidTyped ==
  ASSUME TypeOK, NEW s \in DOMAIN kid
  PROVE  kid[s] \in KidRecord /\ s \in Session
BY DEF TypeOK, KidRecord

-----------------------------------------------------------------------------
(* The core of the invariant is preserved: the driver.                     *)

LEMMA Names ==
  ASSUME Races = {}
  PROVE  \A n : Named(n) = n /\ Ref(n) = <<n, label>>
BY DEF Named, Ref

\* Between two waves nobody runs.
LEMMA BetweenWaves ==
  ASSUME Typed, Core, label = None, NEW s \in DOMAIN kid
  PROVE  kid[s].state # "runs"
BY DEF Core, Typed, KidInv, RunInv, None, Stage

\* At the end of a wave the same holds.
LEMMA WaveOver ==
  ASSUME Typed, Core, Races = {}, label # None,
         \A n \in spawned : Named(n) \in overdue \/ Ref(n) \in DOMAIN store, NEW s \in DOMAIN kid
  PROVE  kid[s].state # "runs"
<1>1. \A n \in spawned \ overdue : Sid(n) \notin DOMAIN kid
  BY Names DEF Core, WaveInv
<1> SUFFICES ASSUME kid[s].state = "runs" PROVE FALSE
  OBVIOUS
<1>2. s = Sid(s[1]) /\ s[1] \in spawned
  BY DEF Core, Typed, RunInv, OfWave, Sid
<1> QED
  BY <1>1, <1>2 DEF Core, WaveInv

LEMMA RetryFacts ==
  ASSUME Typed, Retry
  PROVE  /\ iter' = iter /\ next' = next /\ errs' \in Nat
         /\ pc' \in {"iterate", "synth"} /\ (pc' = "iterate" => errs' < MaxErrors)
<1>1. MaxErrors \in Nat
  BY BoundsAssumption
<1> QED
  BY <1>1 DEF Typed, Retry, Leave

LEMMA Succeeded ==
  ASSUME ~Failed
  PROVE  \E n \in spawned : Ref(n) \in DOMAIN store
<1>1. PICK o \in Outcomes : o.ok
  BY Zenon DEF Failed
<1>2. PICK n \in spawned :
        o = [for |-> Sid(n), by |-> IF Ref(n) \in DOMAIN store THEN store[Ref(n)].by ELSE Nobody,
             ok |-> Ref(n) \in DOMAIN store /\ store[Ref(n)].ok]
  BY Zenon DEF Outcomes
<1>3. o.ok = (Ref(n) \in DOMAIN store /\ store[Ref(n)].ok)
  BY <1>2, Zenon
<1> QED
  BY <1>1, <1>3, Zenon

LEMMA IterateStep ==
  ASSUME IInv, Races = {}, Iterate
  PROVE  Core'
<1>1. Typed /\ Core
  BY TypedFacts DEF IInv
<1>2. /\ pc = "iterate" /\ pc' = "wave" /\ iter' = iter + 1 /\ errs' = errs /\ next' = next
      /\ label = None /\ label' = <<"plan", iter + 1>> /\ todo' = {"planner"} /\ spawned' = {}
      /\ workers' = {} /\ overdue' = {} /\ store' = store /\ kid' = kid /\ hitl' = hitl
      /\ sub'.wave = 0 /\ sub'.by = Nobody /\ staged' = staged /\ mixed' = mixed
  BY <1>1, BoundsAssumption DEF Core, DriverInv, Iterate, BeginWave, ForgetWorkers, None,
                                NoSubmission, contract
<1>3. DriverInv'
  BY <1>1, <1>2 DEF Core, DriverInv
<1>4. WaveInv'
  BY <1>1, <1>2 DEF Core, Typed, WaveInv, OfWave, KidInv, StoreInv, Planner
<1>5. StoreInv'
  BY <1>1, <1>2 DEF Core, Typed, None, StoreInv, Spent, Planner, Sid
<1>6. KidInv'
  BY <1>1, <1>2 DEF Core, Typed, KidInv, DriverInv
<1>7. RunInv'
  BY <1>1, <1>2, BetweenWaves DEF RunInv
<1>8. SubInv'
  BY <1>1, <1>2 DEF Core, Typed, SubInv, KidInv, RunInv, Nobody
<1>9. SlotInv'
  BY <1>1, <1>2 DEF Core, SlotInv, AtDiff
<1> QED
  BY <1>3, <1>4, <1>5, <1>6, <1>7, <1>8, <1>9 DEF Core

LEMMA IterateNoMoreStep ==
  ASSUME IInv, Races = {}, IterateNoMore
  PROVE  Core'
<1>1. Typed /\ Core
  BY TypedFacts DEF IInv
<1>2. /\ pc = "iterate" /\ pc' = "synth" /\ label = None /\ iter' = iter /\ errs' = errs
      /\ next' = next
      /\ label' = label /\ todo' = todo /\ spawned' = spawned /\ workers' = workers
      /\ overdue' = overdue /\ store' = store /\ kid' = kid /\ hitl' = hitl /\ sub' = sub
      /\ staged' = staged /\ mixed' = mixed
  BY <1>1, BoundsAssumption DEF Core, DriverInv, IterateNoMore, Leave, wave, contract
<1>3. DriverInv'
  BY <1>1, <1>2 DEF Core, DriverInv
<1>4. WaveInv'
  BY <1>1, <1>2 DEF Core, WaveInv, Sid
<1>5. StoreInv'
  BY <1>1, <1>2, SMTT(30) DEF Core, DriverInv, StoreInv, Spent, None, Planner
<1>6. KidInv'
  BY <1>1, <1>2 DEF Core, KidInv
<1>7. RunInv'
  BY <1>1, <1>2, BetweenWaves DEF RunInv
<1>8. SubInv'
  BY <1>1, <1>2 DEF Core, SubInv
<1>9. SlotInv'
  BY <1>1, <1>2 DEF Core, SlotInv, AtDiff
<1> QED
  BY <1>3, <1>4, <1>5, <1>6, <1>7, <1>8, <1>9 DEF Core

LEMMA RunPlanStep ==
  ASSUME IInv, Races = {}, RunPlan
  PROVE  Core'
<1>1. Typed /\ Core
  BY TypedFacts DEF IInv
<1>2. /\ pc = "run" /\ pc' = "wave" /\ iter' = iter /\ errs' = errs /\ next' = next
      /\ label = None /\ label' = <<"do", next>> /\ todo' = Name /\ spawned' = {}
      /\ workers' = {} /\ overdue' = {} /\ store' = store /\ kid' = kid /\ hitl' = hitl
      /\ sub' = sub /\ staged' = staged /\ mixed' = mixed
  BY <1>1, BoundsAssumption DEF Core, DriverInv, RunPlan, BeginWave, ForgetWorkers, None,
                                contract
<1>3. DriverInv'
  BY <1>1, <1>2 DEF Core, None, DriverInv
<1>4. WaveInv'
  BY <1>1, <1>2 DEF Core, Typed, WaveInv, OfWave, KidInv, StoreInv
<1>5. StoreInv'
  BY <1>1, <1>2 DEF Core, None, StoreInv, Spent, Planner, Sid
<1>6. KidInv'
  BY <1>1, <1>2 DEF Core, KidInv
<1>7. RunInv'
  BY <1>1, <1>2, BetweenWaves DEF RunInv
<1>8. SubInv'
  BY <1>1, <1>2 DEF Core, SubInv
<1>9. SlotInv'
  BY <1>1, <1>2 DEF Core, SlotInv, AtDiff
<1> QED
  BY <1>3, <1>4, <1>5, <1>6, <1>7, <1>8, <1>9 DEF Core

LEMMA DependsOnUnknownStep ==
  ASSUME IInv, Races = {}, DependsOnUnknown
  PROVE  Core'
<1>1. Typed /\ Core
  BY TypedFacts DEF IInv
<1>2. /\ pc = "run" /\ label = None /\ pc' \in {"iterate", "synth"} /\ iter' = iter
      /\ (pc' # "synth" => errs' < MaxErrors) /\ next' = next /\ label' = label /\ todo' = todo
      /\ spawned' = spawned /\ workers' = workers /\ overdue' = overdue /\ store' = store
      /\ kid' = kid /\ hitl' = hitl /\ sub' = sub /\ staged' = staged /\ mixed' = mixed
  BY <1>1, BoundsAssumption DEF Core, DriverInv, DependsOnUnknown, Retry, Leave, wave, contract
<1>3. DriverInv'
  BY <1>1, <1>2 DEF Core, None, DriverInv
<1>4. WaveInv'
  BY <1>1, <1>2 DEF Core, WaveInv, Sid
<1>5. StoreInv'
  BY <1>1, <1>2 DEF Core, StoreInv, Spent, Sid
<1>6. KidInv'
  BY <1>1, <1>2 DEF Core, KidInv
<1>7. RunInv'
  BY <1>1, <1>2 DEF Core, RunInv, OfWave
<1>8. SubInv'
  BY <1>1, <1>2 DEF Core, SubInv
<1>9. SlotInv'
  BY <1>1, <1>2 DEF Core, SlotInv, AtDiff
<1> QED
  BY <1>3, <1>4, <1>5, <1>6, <1>7, <1>8, <1>9 DEF Core

LEMMA StartCheckerStep ==
  ASSUME IInv, Races = {}, StartChecker
  PROVE  Core'
<1>1. Typed /\ Core
  BY TypedFacts DEF IInv
<1>2. /\ pc = "check" /\ pc' = "wave" /\ iter' = iter /\ errs' = errs /\ next' = next
      /\ label = None /\ label' = <<"check", iter>> /\ todo' = {"checker"} /\ spawned' = {}
      /\ workers' = {} /\ overdue' = {} /\ store' = store /\ kid' = kid /\ hitl' = hitl
      /\ sub' = sub /\ staged' = staged /\ mixed' = mixed
  BY <1>1, BoundsAssumption DEF Core, DriverInv, StartChecker, BeginWave, ForgetWorkers, None,
                                contract
<1>3. DriverInv'
  BY <1>1, <1>2 DEF Core, None, DriverInv
<1>4. WaveInv'
  BY <1>1, <1>2 DEF Core, Typed, WaveInv, OfWave, KidInv, StoreInv
<1>5. StoreInv'
  BY <1>1, <1>2 DEF Core, None, StoreInv, Spent, Planner, Sid
<1>6. KidInv'
  BY <1>1, <1>2 DEF Core, KidInv
<1>7. RunInv'
  BY <1>1, <1>2, BetweenWaves DEF RunInv
<1>8. SubInv'
  BY <1>1, <1>2 DEF Core, SubInv
<1>9. SlotInv'
  BY <1>1, <1>2 DEF Core, SlotInv, AtDiff
<1> QED
  BY <1>3, <1>4, <1>5, <1>6, <1>7, <1>8, <1>9 DEF Core

LEMMA SynthesizeStep ==
  ASSUME IInv, Races = {}, Synthesize
  PROVE  Core'
<1>1. Typed /\ Core
  BY TypedFacts DEF IInv
<1>2. /\ pc = "synth" /\ pc' = "wave" /\ iter' = iter /\ errs' = errs /\ next' = next
      /\ label = None /\ label' = <<"synth", 0>> /\ todo' = {"synthesizer"} /\ spawned' = {}
      /\ workers' = {} /\ overdue' = {} /\ store' = store /\ kid' = kid /\ hitl' = hitl
      /\ sub' = sub /\ staged' = staged /\ mixed' = mixed
  BY <1>1, BoundsAssumption DEF Core, DriverInv, Synthesize, BeginWave, ForgetWorkers, None,
                                contract
<1>3. DriverInv'
  BY <1>1, <1>2 DEF Core, None, DriverInv
<1>4. WaveInv'
  BY <1>1, <1>2 DEF Core, None, WaveInv, OfWave, KidInv, StoreInv
<1>5. StoreInv'
  BY <1>1, <1>2 DEF Core, StoreInv, Spent, Sid
<1>6. KidInv'
  BY <1>1, <1>2 DEF Core, KidInv
<1>7. RunInv'
  BY <1>1, <1>2, BetweenWaves DEF RunInv
<1>8. SubInv'
  BY <1>1, <1>2 DEF Core, SubInv
<1>9. SlotInv'
  BY <1>1, <1>2 DEF Core, SlotInv, AtDiff
<1> QED
  BY <1>3, <1>4, <1>5, <1>6, <1>7, <1>8, <1>9 DEF Core

LEMMA FinishMissionStep ==
  ASSUME IInv, Races = {}, FinishMission
  PROVE  Core'
<1>1. Typed /\ Core
  BY TypedFacts DEF IInv
<1>2. /\ pc = "synth" /\ pc' = "ended" /\ label = None /\ iter' = iter /\ errs' = errs
      /\ next' = next /\ label' = label /\ todo' = todo /\ spawned' = spawned
      /\ workers' = workers /\ overdue' = overdue /\ store' = store /\ kid' = kid /\ hitl' = hitl
      /\ sub' = sub /\ staged' = staged /\ mixed' = mixed
  BY <1>1, BoundsAssumption DEF Core, DriverInv, FinishMission, wave, contract
<1>3. DriverInv'
  BY <1>1, <1>2 DEF Core, DriverInv
<1>4. WaveInv'
  BY <1>1, <1>2 DEF Core, WaveInv, Sid
<1>5. StoreInv'
  BY <1>1, <1>2 DEF Core, StoreInv, Spent, Sid
<1>6. KidInv'
  BY <1>1, <1>2 DEF Core, KidInv
<1>7. RunInv'
  BY <1>1, <1>2 DEF Core, RunInv, OfWave
<1>8. SubInv'
  BY <1>1, <1>2 DEF Core, SubInv
<1>9. SlotInv'
  BY <1>1, <1>2 DEF Core, SlotInv, AtDiff
<1> QED
  BY <1>3, <1>4, <1>5, <1>6, <1>7, <1>8, <1>9 DEF Core

LEMMA PlanWaveEndsStep ==
  ASSUME IInv, Races = {}, PlanWaveEnds
  PROVE  Core'
<1>1. Typed /\ Core
  BY TypedFacts DEF IInv
<1>2. /\ pc' \in {"run", "iterate", "synth"} /\ iter' = iter
      /\ (pc' = "iterate" => errs' < MaxErrors)
      /\ (pc' = "run" => /\ errs' = errs /\ next' = sub.wave /\ sub.wave # 0
                        /\ \E n \in spawned : Ref(n) \in DOMAIN store)
      /\ pc = "wave" /\ todo = {}
      /\ (\A n \in spawned : Named(n) \in overdue \/ Ref(n) \in DOMAIN store)
      /\ label # None /\ label[1] = "plan" /\ label' = None /\ todo' = todo /\ spawned' = {}
      /\ workers' = workers /\ overdue' = {} /\ store' = store /\ kid' = kid /\ hitl' = hitl
      /\ sub' = sub /\ staged' = staged /\ mixed' = mixed
  <2>1. /\ pc = "wave" /\ todo = {}
        /\ (\A n \in spawned : Named(n) \in overdue \/ Ref(n) \in DOMAIN store)
        /\ label[1] = "plan" /\ label' = None /\ todo' = todo /\ spawned' = {}
        /\ workers' = workers /\ overdue' = {} /\ store' = store /\ kid' = kid /\ hitl' = hitl
        /\ sub' = sub /\ staged' = staged /\ mixed' = mixed
    BY DEF PlanWaveEnds, WaveEnds, contract
  <2>2. label # None /\ errs < MaxErrors /\ MaxErrors \in Nat /\ MaxErrors > 0
    BY <1>1, <2>1, BoundsAssumption DEF Core, DriverInv
  <2>3. CASE Retry
    BY <1>1, <2>1, <2>2, <2>3, RetryFacts
  <2>4. CASE ~Retry
    BY <1>1, <2>1, <2>2, <2>4, Succeeded DEF PlanWaveEnds, Leave
  <2> QED
    BY <2>3, <2>4
<1>3. DriverInv'
  BY <1>1, <1>2 DEF Core, Typed, None, DriverInv, SubInv
<1>4. WaveInv'
  BY <1>1, <1>2 DEF WaveInv, Typed, None, Stage
<1>5. StoreInv'
  <2>1. \A j : Spent(j)' <=> Spent(j)
    BY <1>2 DEF Spent
  <2>2. ASSUME pc' = "run" PROVE sub.wave \in 1 .. iter /\ Spent(sub.wave)
    <3>1. sub.by = Planner(sub.wave) /\ sub.wave \in 1 .. iter
      BY <1>1, <1>2, <2>2 DEF Core, Typed, SubInv
    <3>2. CASE sub.wave < iter
      BY <1>1, <1>2, <3>1, <3>2, WaveOver DEF Core, SubInv, Spent, Planner
    <3>3. CASE sub.wave = iter
      <4>1. PICK n \in spawned : Ref(n) \in DOMAIN store
        BY <1>2, <2>2
      <4>2. n = "planner" /\ label = <<"plan", iter>>
        BY <1>1, <1>2 DEF Core, DriverInv
      <4>3. Sid(n) \notin DOMAIN kid
        BY <1>1, <4>1, Names DEF Core, WaveInv
      <4>4. Sid(n) = Planner(iter)
        BY <4>2 DEF Sid, Planner
      <4> QED
        BY <3>1, <3>3, <4>3, <4>4 DEF Spent
    <3> QED
      <4>1. sub.wave < iter \/ sub.wave = iter
        BY <1>1, <3>1 DEF Typed
      <4> QED
        BY <3>1, <3>2, <3>3, <4>1
  <2>3. ASSUME pc' = "run" PROVE Spent(next)'
    BY <1>2, <2>2, <2>3 DEF Spent
  <2> QED
    BY <1>1, <1>2, <2>2, <2>3 DEF Core, Typed, None, StoreInv, DriverInv, Spent
<1>6. KidInv'
  BY <1>1, <1>2 DEF Core, KidInv
<1>7. RunInv'
  BY <1>1, <1>2, WaveOver DEF RunInv
<1>8. SubInv'
  BY <1>1, <1>2 DEF Core, SubInv
<1>9. SlotInv'
  BY <1>1, <1>2 DEF Core, SlotInv, AtDiff
<1> QED
  BY <1>3, <1>4, <1>5, <1>6, <1>7, <1>8, <1>9 DEF Core

LEMMA DoWaveEndsStep ==
  ASSUME IInv, Races = {}, DoWaveEnds
  PROVE  Core'
<1>1. Typed /\ Core
  BY TypedFacts DEF IInv
<1>2. /\ pc' \in {"check", "iterate", "synth"} /\ iter' = iter
      /\ next' = next /\ (pc' # "synth" => errs' < MaxErrors)
      /\ pc = "wave" /\ todo = {}
      /\ (\A n \in spawned : Named(n) \in overdue \/ Ref(n) \in DOMAIN store)
      /\ label # None /\ label[1] = "do" /\ label' = None /\ todo' = todo /\ spawned' = {}
      /\ workers' = workers /\ overdue' = {} /\ store' = store /\ kid' = kid /\ hitl' = hitl
      /\ sub' = sub /\ staged' = staged /\ mixed' = mixed
  <2>1. /\ pc = "wave" /\ todo = {}
        /\ (\A n \in spawned : Named(n) \in overdue \/ Ref(n) \in DOMAIN store)
        /\ label[1] = "do" /\ label' = None /\ todo' = todo /\ spawned' = {}
        /\ workers' = workers /\ overdue' = {} /\ store' = store /\ kid' = kid /\ hitl' = hitl
        /\ sub' = sub /\ staged' = staged /\ mixed' = mixed
    BY DEF DoWaveEnds, WaveEnds, contract
  <2>2. label # None /\ errs < MaxErrors /\ MaxErrors \in Nat /\ MaxErrors > 0
    BY <1>1, <2>1, BoundsAssumption DEF Core, DriverInv
  <2>3. CASE Retry
    BY <1>1, <2>1, <2>2, <2>3, RetryFacts
  <2>4. CASE ~Retry
    BY <1>1, <2>1, <2>2, <2>4, Succeeded DEF DoWaveEnds, Leave
  <2> QED
    BY <2>3, <2>4
<1>3. DriverInv'
  BY <1>1, <1>2 DEF Core, None, DriverInv
<1>4. WaveInv'
  BY <1>1, <1>2 DEF WaveInv, Typed, None, Stage
<1>5. StoreInv'
  BY <1>1, <1>2 DEF Core, None, StoreInv, Spent, Planner, Sid
<1>6. KidInv'
  BY <1>1, <1>2 DEF Core, KidInv
<1>7. RunInv'
  BY <1>1, <1>2, WaveOver DEF RunInv
<1>8. SubInv'
  BY <1>1, <1>2 DEF Core, SubInv
<1>9. SlotInv'
  BY <1>1, <1>2 DEF Core, SlotInv, AtDiff
<1> QED
  BY <1>3, <1>4, <1>5, <1>6, <1>7, <1>8, <1>9 DEF Core

LEMMA CheckWaveEndsStep ==
  ASSUME IInv, Races = {}, CheckWaveEnds
  PROVE  Core'
<1>1. Typed /\ Core
  BY TypedFacts DEF IInv
<1>2. /\ pc' \in {"iterate", "synth"} /\ iter' = iter
      /\ next' = next /\ (pc' # "synth" => errs' < MaxErrors)
      /\ pc = "wave" /\ todo = {}
      /\ (\A n \in spawned : Named(n) \in overdue \/ Ref(n) \in DOMAIN store)
      /\ label # None /\ label[1] = "check" /\ label' = None /\ todo' = todo /\ spawned' = {}
      /\ workers' = workers /\ overdue' = {} /\ store' = store /\ kid' = kid /\ hitl' = hitl
      /\ sub' = sub /\ staged' = staged /\ mixed' = mixed
  <2>1. /\ pc = "wave" /\ todo = {}
        /\ (\A n \in spawned : Named(n) \in overdue \/ Ref(n) \in DOMAIN store)
        /\ label[1] = "check" /\ label' = None /\ todo' = todo /\ spawned' = {}
        /\ workers' = workers /\ overdue' = {} /\ store' = store /\ kid' = kid /\ hitl' = hitl
        /\ sub' = sub /\ staged' = staged /\ mixed' = mixed
    BY DEF CheckWaveEnds, WaveEnds, contract
  <2>2. label # None /\ errs < MaxErrors /\ MaxErrors \in Nat /\ MaxErrors > 0
    BY <1>1, <2>1, BoundsAssumption DEF Core, DriverInv
  <2>3. CASE Retry
    BY <1>1, <2>1, <2>2, <2>3, RetryFacts
  <2>4. CASE ~Retry
    BY <1>1, <2>1, <2>2, <2>4, Succeeded DEF CheckWaveEnds, Leave
  <2> QED
    BY <2>3, <2>4
<1>3. DriverInv'
  BY <1>1, <1>2 DEF Core, None, DriverInv
<1>4. WaveInv'
  BY <1>1, <1>2 DEF WaveInv, Typed, None, Stage
<1>5. StoreInv'
  BY <1>1, <1>2 DEF Core, None, StoreInv, Spent, Planner, Sid
<1>6. KidInv'
  BY <1>1, <1>2 DEF Core, KidInv
<1>7. RunInv'
  BY <1>1, <1>2, WaveOver DEF RunInv
<1>8. SubInv'
  BY <1>1, <1>2 DEF Core, SubInv
<1>9. SlotInv'
  BY <1>1, <1>2 DEF Core, SlotInv, AtDiff
<1> QED
  BY <1>3, <1>4, <1>5, <1>6, <1>7, <1>8, <1>9 DEF Core

LEMMA SynthWaveEndsStep ==
  ASSUME IInv, Races = {}, SynthWaveEnds
  PROVE  Core'
<1>1. Typed /\ Core
  BY TypedFacts DEF IInv
<1>2. /\ pc = "wave" /\ todo = {}
      /\ (\A n \in spawned : Named(n) \in overdue \/ Ref(n) \in DOMAIN store) /\ label[1] = "synth"
      /\ pc' = "ended"
      /\ iter' = iter /\ errs' = errs /\ next' = next /\ label # None /\ label' = None
      /\ todo' = todo /\ spawned' = {} /\ workers' = workers /\ overdue' = {} /\ store' = store
      /\ kid' = kid /\ hitl' = hitl /\ sub' = sub /\ staged' = staged /\ mixed' = mixed
  BY <1>1, BoundsAssumption DEF Core, DriverInv, SynthWaveEnds, WaveEnds, contract
<1>3. DriverInv'
  BY <1>1, <1>2 DEF Core, None, DriverInv
<1>4. WaveInv'
  BY <1>1, <1>2 DEF WaveInv, Typed, None, Stage
<1>5. StoreInv'
  BY <1>1, <1>2 DEF Core, None, StoreInv, Spent, Planner, Sid
<1>6. KidInv'
  BY <1>1, <1>2 DEF Core, KidInv
<1>7. RunInv'
  BY <1>1, <1>2, WaveOver DEF RunInv
<1>8. SubInv'
  BY <1>1, <1>2 DEF Core, SubInv
<1>9. SlotInv'
  BY <1>1, <1>2 DEF Core, SlotInv, AtDiff
<1> QED
  BY <1>3, <1>4, <1>5, <1>6, <1>7, <1>8, <1>9 DEF Core

-----------------------------------------------------------------------------
(* The core is preserved: the executor.                                    *)

LEMMA SpawnStep ==
  ASSUME IInv, Races = {}, NEW n \in Author, Spawn(n)
  PROVE  Core'
<1>1. Typed /\ Core
  BY TypedFacts DEF IInv
<1>2. /\ pc = "wave" /\ label # None /\ pc' = pc /\ n \in todo /\ n \notin spawned
      /\ iter' = iter /\ errs' = errs /\ next' = next /\ label' = label /\ todo' = todo
      /\ spawned' = spawned \cup {n} /\ workers' = workers /\ overdue' = overdue
      /\ store' = store
      /\ DOMAIN kid' = DOMAIN kid \cup {Sid(n)}
      /\ (\A t \in DOMAIN kid : t # Sid(n) => kid'[t] = kid[t]) /\ kid'[Sid(n)].label = label
      /\ ~kid'[Sid(n)].looked /\ kid'[Sid(n)].step = "none" /\ kid'[Sid(n)].verdict = "none"
      /\ kid'[Sid(n)].wave = 0
      /\ hitl' = hitl /\ sub' = sub /\ staged' = staged /\ mixed' = mixed
  BY <1>1, BoundsAssumption DEF Core, DriverInv, Spawn, driver, contract
<1>3. DriverInv'
  BY <1>1, <1>2 DEF Core, DriverInv
<1>4. WaveInv'
  <2>1. \A m \in spawned : Sid(m) # Sid(n) /\ Sid(m)' = Sid(m)
    BY <1>2 DEF Sid
  <2>2. \A q \in DOMAIN store : q[2] = label =>
          q[1] \in spawned /\ store[q].by = Sid(q[1]) /\ Sid(q[1]) \notin DOMAIN kid'
    BY <1>1, <1>2, <2>1 DEF Core, WaveInv
  <2>3. \A m \in overdue : Sid(m) \in DOMAIN kid' => kid'[Sid(m)].state # "runs"
    BY <1>1, <1>2, <2>1 DEF Core, Typed, WaveInv
  <2> QED
    BY <1>1, <1>2, <2>2, <2>3 DEF Core, DriverInv, WaveInv, Sid, OfWave, Planner
<1>5. StoreInv'
  BY <1>1, <1>2 DEF Core, Typed, StoreInv, Spent, Planner, Sid
<1>6. KidInv'
  <2>1. Sid(n)[1] = n /\ Sid(n)[2] = label[1] /\ Sid(n)[3] = iter
    BY DEF Sid
  <2>2. label[1] = "plan" => n = "planner" /\ label[2] = iter /\ Sid(n) = Planner(iter)
    BY <1>1, <1>2 DEF Core, DriverInv, Sid, Planner
  <2> QED
    BY <1>1, <1>2, <2>1, <2>2 DEF Core, Typed, KidInv, Planner
<1>7. RunInv'
  BY <1>1, <1>2 DEF Core, RunInv, OfWave, Sid
<1>8. SubInv'
  BY <1>1, <1>2 DEF Core, SubInv
<1>9. SlotInv'
  <2>1. Sid(n) \in DOMAIN kid => kid[Sid(n)].step = "none"
    BY <1>1, <1>2 DEF Core, KidInv, WaveInv, DriverInv, Sid, Planner
  <2>2. AtDiff' = AtDiff /\ \A t \in AtDiff : t # Sid(n) /\ kid'[t] = kid[t]
    BY <1>2, <2>1 DEF AtDiff
  <2> QED
    BY <1>1, <1>2, <2>2 DEF Core, SlotInv
<1> QED
  BY <1>3, <1>4, <1>5, <1>6, <1>7, <1>8, <1>9 DEF Core

LEMMA RegisterWorkerStep ==
  ASSUME IInv, Races = {}, NEW n \in Author, RegisterWorker(n)
  PROVE  Core'
<1>1. Typed /\ Core
  BY TypedFacts DEF IInv
<1>2. /\ pc = "wave" /\ label # None /\ pc' = pc /\ n \in spawned /\ iter' = iter /\ errs' = errs
      /\ next' = next /\ label' = label /\ todo' = todo \ {n} /\ spawned' = spawned
      /\ workers' = workers \cup {Sid(n)} /\ overdue' = overdue /\ store' = store /\ kid' = kid
      /\ hitl' = hitl /\ sub' = sub /\ staged' = staged /\ mixed' = mixed
  BY <1>1, BoundsAssumption DEF Core, DriverInv, RegisterWorker, driver, contract
<1>3. DriverInv'
  BY <1>1, <1>2 DEF Core, DriverInv
<1>4. WaveInv'
  BY <1>1, <1>2 DEF Core, WaveInv, Sid, OfWave
<1>5. StoreInv'
  BY <1>1, <1>2 DEF Core, StoreInv, Spent, Sid
<1>6. KidInv'
  BY <1>1, <1>2 DEF Core, KidInv
<1>7. RunInv'
  BY <1>1, <1>2 DEF Core, RunInv, OfWave
<1>8. SubInv'
  BY <1>1, <1>2 DEF Core, SubInv
<1>9. SlotInv'
  BY <1>1, <1>2 DEF Core, SlotInv, AtDiff
<1> QED
  BY <1>3, <1>4, <1>5, <1>6, <1>7, <1>8, <1>9 DEF Core

LEMMA SpawnFailsStep ==
  ASSUME IInv, Races = {}, NEW n \in Author, SpawnFails(n)
  PROVE  Core'
<1>1. Typed /\ Core
  BY TypedFacts DEF IInv
<1>2. /\ pc' = pc /\ iter' = iter /\ errs' = errs /\ next' = next /\ label' = label
      /\ todo' = todo \ {n} /\ spawned' = spawned /\ workers' = workers /\ overdue' = overdue
      /\ store' = store /\ kid' = kid /\ hitl' = hitl /\ sub' = sub /\ staged' = staged
      /\ mixed' = mixed
  BY <1>1, BoundsAssumption DEF Core, DriverInv, SpawnFails, driver, contract
<1>3. DriverInv'
  BY <1>1, <1>2 DEF Core, DriverInv
<1>4. WaveInv'
  BY <1>1, <1>2 DEF Core, WaveInv, Sid, OfWave
<1>5. StoreInv'
  BY <1>1, <1>2 DEF Core, StoreInv, Spent, Sid
<1>6. KidInv'
  BY <1>1, <1>2 DEF Core, KidInv
<1>7. RunInv'
  BY <1>1, <1>2 DEF Core, RunInv, OfWave
<1>8. SubInv'
  BY <1>1, <1>2 DEF Core, SubInv
<1>9. SlotInv'
  BY <1>1, <1>2 DEF Core, SlotInv, AtDiff
<1> QED
  BY <1>3, <1>4, <1>5, <1>6, <1>7, <1>8, <1>9 DEF Core

LEMMA ExpireStep ==
  ASSUME IInv, Races = {}, NEW n \in Author, Expire(n)
  PROVE  Core'
<1>1. Typed /\ Core
  BY TypedFacts DEF IInv
<1>2. /\ pc = "wave" /\ label # None /\ pc' = pc /\ n \in spawned /\ Sid(n) \notin hitl
      /\ iter' = iter /\ errs' = errs /\ next' = next /\ label' = label /\ todo' = todo
      /\ spawned' = spawned /\ workers' = workers /\ overdue' = overdue \cup {n}
      /\ store' = store
      /\ DOMAIN kid' = DOMAIN kid /\ (\A t \in DOMAIN kid : t # Sid(n) => kid'[t] = kid[t])
      /\ (Sid(n) \in DOMAIN kid =>
            /\ kid'[Sid(n)].state # "runs"
            /\ kid'[Sid(n)].state = "closed" => kid[Sid(n)].state = "closed"
            /\ kid'[Sid(n)].label = kid[Sid(n)].label /\ kid'[Sid(n)].looked = kid[Sid(n)].looked
            /\ kid'[Sid(n)].step = kid[Sid(n)].step /\ kid'[Sid(n)].verdict = kid[Sid(n)].verdict
            /\ kid'[Sid(n)].wave = kid[Sid(n)].wave /\ kid'[Sid(n)].diff = kid[Sid(n)].diff)
      /\ hitl' = hitl /\ sub' = sub /\ staged' = staged /\ mixed' = mixed
  BY <1>1, KidTyped, Names DEF IInv, Core, DriverInv, Expire, driver, contract, Cancelled, KidRecord
<1>3. DriverInv'
  BY <1>1, <1>2 DEF Core, DriverInv
<1>4. WaveInv'
  BY <1>1, <1>2 DEF Core, WaveInv, Sid, OfWave
<1>5. StoreInv'
  BY <1>1, <1>2 DEF Core, StoreInv, Spent, Sid
<1>6. KidInv'
  BY <1>1, <1>2 DEF Core, KidInv
<1>7. RunInv'
  BY <1>1, <1>2 DEF Core, RunInv, OfWave
<1>8. SubInv'
  BY <1>1, <1>2 DEF Core, SubInv
<1>9. SlotInv'
  BY <1>1, <1>2 DEF Core, SlotInv, AtDiff
<1> QED
  BY <1>3, <1>4, <1>5, <1>6, <1>7, <1>8, <1>9 DEF Core

-----------------------------------------------------------------------------
(* The core is preserved: the sessions.                                    *)

\* A planner in its call.
Handles(s) ==
  \/ Call(s) \/ Refuse(s) \/ (\E w \in Planned(s), d \in ValidDiff : Validate(s, w, d))
  \/ MarkHITLWaiting(s) \/ RenderFails(s) \/ ModalCloses(s)
  \/ CommitStagedDiff(s) \/ MarkPlanApproved(s) \/ Discard(s)

\* What such a step may change.
Moves(s) ==
  /\ UNCHANGED <<pc, iter, errs, next, how, label, todo, spawned, overdue, workers, store, sub,
                 budget>>
  /\ DOMAIN kid' = DOMAIN kid /\ kid' = [kid EXCEPT ![s] = kid'[s]] /\ kid'[s] \in KidRecord
  /\ kid'[s].label = kid[s].label /\ kid'[s].state = kid[s].state
  /\ kid'[s].looked = kid[s].looked
  /\ kid[s].step # "none" \/ (kid[s].state = "runs" /\ kid[s].label[1] = "plan")
  /\ kid'[s].step # "stage" => kid'[s].verdict = "none"
  /\ kid'[s].wave \in {0, kid[s].wave, kid[s].label[2]}

LEMMA Moving ==
  ASSUME IInv, Races = {}, NEW s \in DOMAIN kid, Handles(s)
  PROVE  Moves(s)
<1>1. kid[s] \in KidRecord /\ (kid[s].step # "stage" => kid[s].verdict = "none")
  BY KidTyped DEF IInv, Core, KidInv
<1>2. MaxWaves \in Nat /\ 0 \in 0 .. MaxWaves /\ NoDiff \in Diff
  BY BoundsAssumption DEF NoDiff, Diff
<1>3. CASE Call(s)
  <2>1. kid' = [kid EXCEPT ![s].step = "called"]
    BY <1>3 DEF Call
  <2>2. kid'[s] = [kid[s] EXCEPT !.step = "called"]
    BY <2>1
  <2> QED
    BY <1>1, <1>3, <2>1, <2>2 DEF Call, Moves, driver, wave, KidRecord, Step
<1>4. CASE Refuse(s)
  <2>1. kid' = [kid EXCEPT ![s] = [@ EXCEPT !.step = "stage", !.verdict = "refused", !.wave = 0,
                                            !.diff = NoDiff]]
    BY <1>4 DEF Refuse, ToStage
  <2>2. kid'[s] = [kid[s] EXCEPT !.step = "stage", !.verdict = "refused", !.wave = 0,
                                 !.diff = NoDiff]
    BY <2>1
  <2> QED
    BY <1>1, <1>2, <1>4, <2>1, <2>2 DEF Refuse, Moves, driver, wave, KidRecord, Step, Verdict
<1>5. ASSUME NEW w \in Planned(s), NEW d \in ValidDiff, Validate(s, w, d)
      PROVE  Moves(s)
  <2>1. w \in {0, kid[s].label[2]} /\ w \in 0 .. MaxWaves
    BY <1>1, <1>2 DEF Planned, KidRecord, Label
  <2>2. d \in Diff
    <3>1. rows \in Seq(Status)
      BY DEF IInv, TypeOK
    <3> QED
      BY <3>1 DEF ValidDiff, Diff, NoDiff
  <2>3. kid[s].step = "called"
    BY <1>5 DEF Validate
  <2>4. \/ kid'[s] = [kid[s] EXCEPT !.step = "stage", !.verdict = "approved", !.wave = w,
                                    !.diff = NoDiff]
        \/ kid'[s] = [kid[s] EXCEPT !.step = "commit", !.wave = w, !.diff = d]
        \/ kid'[s] = [kid[s] EXCEPT !.step = "mark", !.wave = w, !.diff = d]
        \/ kid'[s] = [kid[s] EXCEPT !.step = "approve", !.wave = w]
    BY <1>5 DEF Validate, ToStage, StagePlannerDiff
  <2>5. kid' = [kid EXCEPT ![s] = kid'[s]] /\ DOMAIN kid' = DOMAIN kid
    BY <1>5 DEF Validate, ToStage, StagePlannerDiff
  <2>6. kid'[s] \in KidRecord
    BY <1>1, <1>2, <2>1, <2>2, <2>4 DEF KidRecord, Step, Verdict
  <2>7. /\ kid'[s].label = kid[s].label /\ kid'[s].state = kid[s].state
        /\ kid'[s].looked = kid[s].looked /\ kid'[s].wave = w
        /\ kid'[s].step # "stage" => kid'[s].verdict = "none"
    BY <1>1, <2>3, <2>4 DEF KidRecord
  <2> QED
    BY <1>5, <2>1, <2>3, <2>5, <2>6, <2>7 DEF Validate, Moves, driver, wave
<1>6. CASE MarkHITLWaiting(s)
  <2>1. kid' = [kid EXCEPT ![s].step = "modal"] /\ kid'[s] = [kid[s] EXCEPT !.step = "modal"]
    BY <1>6 DEF MarkHITLWaiting
  <2> QED
    BY <1>1, <1>6, <2>1 DEF MarkHITLWaiting, Moves, driver, wave, KidRecord, Step
<1>7. CASE RenderFails(s)
  <2>1. /\ kid' = [kid EXCEPT ![s] = [@ EXCEPT !.step = "discard", !.wave = 0, !.diff = NoDiff]]
        /\ kid'[s] = [kid[s] EXCEPT !.step = "discard", !.wave = 0, !.diff = NoDiff]
    BY <1>7 DEF RenderFails, ToDiscard
  <2> QED
    BY <1>1, <1>2, <1>7, <2>1 DEF RenderFails, Moves, driver, wave, KidRecord, Step
<1>8. CASE ModalCloses(s)
  <2>1. CASE kid' = [kid EXCEPT ![s].step = "commit"]
    <3>1. kid'[s] = [kid[s] EXCEPT !.step = "commit"]
      BY <2>1
    <3> QED
      BY <1>1, <1>8, <2>1, <3>1 DEF ModalCloses, Moves, driver, wave, KidRecord, Step
  <2>2. CASE ToDiscard(s)
    <3>1. /\ kid' = [kid EXCEPT ![s] = [@ EXCEPT !.step = "discard", !.wave = 0, !.diff = NoDiff]]
          /\ kid'[s] = [kid[s] EXCEPT !.step = "discard", !.wave = 0, !.diff = NoDiff]
      BY <2>2 DEF ToDiscard
    <3> QED
      BY <1>1, <1>2, <1>8, <3>1 DEF ModalCloses, Moves, driver, wave, KidRecord, Step
  <2> QED
    BY <1>8, <2>1, <2>2 DEF ModalCloses
<1>9. CASE CommitStagedDiff(s)
  <2>1. /\ kid' = [kid EXCEPT ![s].step = "approve", ![s].diff = NoDiff]
        /\ kid'[s] = [kid[s] EXCEPT !.step = "approve", !.diff = NoDiff]
    BY <1>9 DEF CommitStagedDiff
  <2> QED
    BY <1>1, <1>2, <1>9, <2>1 DEF CommitStagedDiff, Moves, driver, wave, KidRecord, Step
<1>10. CASE MarkPlanApproved(s)
  <2>1. /\ kid' = [kid EXCEPT ![s] = [@ EXCEPT !.step = "stage", !.verdict = "approved",
                                               !.wave = kid[s].wave, !.diff = NoDiff]]
        /\ kid'[s] = [kid[s] EXCEPT !.step = "stage", !.verdict = "approved",
                                    !.wave = kid[s].wave, !.diff = NoDiff]
    BY <1>10 DEF MarkPlanApproved, ToStage
  <2> QED
    BY <1>1, <1>2, <1>10, <2>1 DEF MarkPlanApproved, Moves, driver, wave, KidRecord, Step, Verdict
<1>11. CASE Discard(s)
  <2>1. CASE kid' = [kid EXCEPT ![s].step = "none"]
    <3>1. kid'[s] = [kid[s] EXCEPT !.step = "none"]
      BY <2>1
    <3> QED
      BY <1>1, <1>11, <2>1, <3>1 DEF Discard, Moves, driver, wave, KidRecord, Step
  <2>2. ASSUME NEW v \in {"refused", "aborted"}, ToStage(s, v, 0)
        PROVE  Moves(s)
    <3>1. /\ kid' = [kid EXCEPT ![s] = [@ EXCEPT !.step = "stage", !.verdict = v, !.wave = 0,
                                                 !.diff = NoDiff]]
          /\ kid'[s] = [kid[s] EXCEPT !.step = "stage", !.verdict = v, !.wave = 0,
                                      !.diff = NoDiff]
      BY <2>2 DEF ToStage
    <3> QED
      BY <1>1, <1>2, <1>11, <3>1 DEF Discard, Moves, driver, wave, KidRecord, Step, Verdict
  <2> QED
    BY <1>11, <2>1, <2>2 DEF Discard
<1> QED
  BY <1>3, <1>4, <1>5, <1>6, <1>7, <1>8, <1>9, <1>10, <1>11 DEF Handles

LEMMA SlotStep ==
  ASSUME IInv, Races = {}, NEW s \in DOMAIN kid, Handles(s)
  PROVE  SlotInv'
<1>1. SlotInv /\ Moves(s)
  BY Moving DEF IInv, Core
<1>2. \A t \in DOMAIN kid : t # s => kid'[t] = kid[t]
  BY <1>1 DEF Moves
<1>3. ASSUME staged' = staged, mixed' = mixed, s \in AtDiff, s \in AtDiff',
             kid'[s].step # "discard" => kid'[s].diff = kid[s].diff /\ kid[s].step # "discard"
      PROVE  SlotInv'
  <2>1. AtDiff' = AtDiff
    BY <1>1, <1>2, <1>3 DEF AtDiff, Moves
  <2> QED
    BY <1>1, <1>2, <1>3, <2>1 DEF SlotInv
<1>4. ASSUME staged' = staged, mixed' = mixed, s \notin AtDiff, s \notin AtDiff'
      PROVE  SlotInv'
  <2>1. AtDiff' = AtDiff /\ \A t \in AtDiff : kid'[t] = kid[t]
    BY <1>1, <1>2, <1>4 DEF AtDiff, Moves
  <2> QED
    BY <1>1, <1>4, <2>1 DEF SlotInv
<1>5. ASSUME staged' = NoDiff, mixed' = mixed \ {s}, s \in AtDiff, s \notin AtDiff'
      PROVE  SlotInv'
  <2>1. AtDiff' = AtDiff \ {s}
    BY <1>1, <1>2, <1>5 DEF AtDiff, Moves
  <2> QED
    BY <1>1, <1>2, <1>5, <2>1 DEF SlotInv
<1>6. ASSUME NEW w, NEW d, NEW then, StagePlannerDiff(s, w, d, then), s \notin AtDiff,
             then \in {"mark", "commit"}
      PROVE  SlotInv'
  <2>1. /\ staged' = IF d = NoDiff THEN staged ELSE d
        /\ mixed' = IF AtDiff = {} THEN mixed ELSE mixed \cup AtDiff \cup {s}
        /\ kid' = [kid EXCEPT ![s].step = then, ![s].wave = w, ![s].diff = d]
    BY <1>6 DEF StagePlannerDiff
  <2>2. kid'[s].step = then /\ kid'[s].diff = d
    <3>1. kid[s] \in KidRecord
      BY KidTyped DEF IInv
    <3> QED
      BY <2>1, <3>1 DEF KidRecord
  <2>3. AtDiff' = AtDiff \cup {s}
    BY <1>1, <1>2, <1>6, <2>2 DEF AtDiff, Moves
  <2>4. CASE AtDiff = {}
    BY <1>1, <2>1, <2>2, <2>3, <2>4 DEF SlotInv
  <2>5. CASE AtDiff # {}
    BY <1>1, <2>1, <2>3, <2>5 DEF SlotInv
  <2> QED
    BY <2>4, <2>5
<1>7. kid[s] \in KidRecord /\ kid'[s] \in KidRecord
  BY <1>1 , KidTyped DEF IInv, Moves
<1>8. CASE Call(s) \/ Refuse(s) \/ MarkPlanApproved(s)
  <2>1. staged' = staged /\ mixed' = mixed /\ kid[s].step \in {"none", "called", "approve"}
    BY <1>8 DEF Call, Refuse, MarkPlanApproved, contract
  <2>2. kid'[s].step \in {"called", "stage"}
    <3>1. CASE Call(s)
      BY <1>7, <3>1 DEF Call, KidRecord
    <3>2. CASE Refuse(s)
      BY <1>7, <3>2 DEF Refuse, ToStage, KidRecord
    <3>3. CASE MarkPlanApproved(s)
      BY <1>7, <3>3 DEF MarkPlanApproved, ToStage, KidRecord
    <3> QED
      BY <1>8, <3>1, <3>2, <3>3
  <2> QED
    BY <1>4, <2>1, <2>2 DEF AtDiff
<1>9. ASSUME NEW w \in Planned(s), NEW d \in ValidDiff, Validate(s, w, d)
      PROVE  SlotInv'
  <2>1. s \notin AtDiff
    BY <1>9 DEF Validate, AtDiff
  <2>2. CASE StagePlannerDiff(s, w, d, "commit") \/ StagePlannerDiff(s, w, d, "mark")
    BY <1>6, <2>1, <2>2
  <2>3. CASE ~(StagePlannerDiff(s, w, d, "commit") \/ StagePlannerDiff(s, w, d, "mark"))
    <3>1. staged' = staged /\ mixed' = mixed /\ kid'[s].step \in {"approve", "stage"}
      BY <1>7, <1>9, <2>3 DEF Validate, ToStage, KidRecord
    <3> QED
      BY <1>4, <2>1, <3>1 DEF AtDiff
  <2> QED
    BY <2>2, <2>3
<1>10. CASE MarkHITLWaiting(s) \/ RenderFails(s) \/ ModalCloses(s)
  <2>1. staged' = staged /\ mixed' = mixed /\ kid[s].step \in {"mark", "modal"}
    BY <1>10 DEF MarkHITLWaiting, RenderFails, ModalCloses, contract
  <2>2. \/ kid' = [kid EXCEPT ![s].step = "modal"]
        \/ kid' = [kid EXCEPT ![s].step = "commit"]
        \/ ToDiscard(s)
    BY <1>10 DEF MarkHITLWaiting, RenderFails, ModalCloses
  <2>3. /\ kid'[s].step \in {"modal", "commit", "discard"}
        /\ kid'[s].step # "discard" => kid'[s].diff = kid[s].diff
    <3>1. CASE ToDiscard(s)
      BY <1>7, <3>1 DEF ToDiscard, KidRecord
    <3>2. CASE ~ToDiscard(s)
      BY <1>7, <2>2, <3>2 DEF KidRecord
    <3> QED
      BY <3>1, <3>2
  <2> QED
    BY <1>1, <1>3, <2>1, <2>3 DEF AtDiff, Moves
<1>11. CASE CommitStagedDiff(s) \/ Discard(s)
  <2>1. staged' = NoDiff /\ mixed' = mixed \ {s} /\ kid[s].step \in {"commit", "discard"}
    BY <1>11 DEF CommitStagedDiff, Discard, DiscardStagedDiff
  <2>2. CASE CommitStagedDiff(s)
    <3>1. kid'[s].step = "approve"
      BY <1>7, <2>2 DEF CommitStagedDiff, KidRecord
    <3> QED
      BY <1>5, <2>1, <3>1 DEF AtDiff
  <2>3. CASE Discard(s)
    <3>1. CASE kid' = [kid EXCEPT ![s].step = "none"]
      BY <1>5, <1>7, <2>1, <3>1 DEF AtDiff, KidRecord
    <3>2. ASSUME NEW v, ToStage(s, v, 0)
          PROVE  SlotInv'
      BY <1>5, <1>7, <2>1, <3>2 DEF AtDiff, ToStage, KidRecord
    <3> QED
      BY <2>3, <3>1, <3>2 DEF Discard
  <2> QED
    BY <1>11, <2>2, <2>3
<1> QED
  BY <1>8, <1>9, <1>10, <1>11 DEF Handles

LEMMA HandlesStep ==
  ASSUME IInv, Races = {}, NEW s \in DOMAIN kid, Handles(s)
  PROVE  Core'
<1>1. Typed /\ Core
  BY TypedFacts DEF IInv
<1>2. /\ pc' = pc /\ iter' = iter /\ errs' = errs /\ next' = next /\ label' = label
      /\ todo' = todo /\ spawned' = spawned /\ workers' = workers /\ overdue' = overdue
      /\ store' = store /\ sub' = sub
      /\ DOMAIN kid' = DOMAIN kid /\ (\A t \in DOMAIN kid : t # s => kid'[t] = kid[t])
      /\ kid'[s].label = kid[s].label /\ kid'[s].state = kid[s].state
      /\ kid'[s].looked = kid[s].looked
      /\ kid[s].step # "none" \/ (kid[s].state = "runs" /\ kid[s].label[1] = "plan")
      /\ kid'[s].step # "stage" => kid'[s].verdict = "none"
      /\ kid'[s].wave \in {0, kid[s].wave, kid[s].label[2]}
  BY Moving DEF Moves
<1>3. DriverInv'
  BY <1>1, <1>2 DEF Core, DriverInv
<1>4. WaveInv'
  BY <1>1, <1>2 DEF Core, WaveInv, Sid, OfWave
<1>5. StoreInv'
  <2>1. \A j : Spent(j) =>
          (Planner(j) \in DOMAIN kid' =>
            kid'[Planner(j)].state # "runs" /\ kid'[Planner(j)].step = "none")
    BY <1>2 DEF Spent
  <2> QED
    BY <1>1, <1>2, <2>1 DEF Core, StoreInv, Spent
<1>6. KidInv'
  BY <1>1, <1>2 DEF Core, KidInv
<1>7. RunInv'
  BY <1>1, <1>2 DEF Core, RunInv, OfWave
<1>8. SubInv'
  <2>1. kid[s].step = "none" => s[3] = iter
    BY <1>1, <1>2 DEF Core, RunInv, OfWave
  <2> QED
    BY <1>1, <1>2, <2>1 DEF Core, Typed, SubInv
<1>9. SlotInv'
  BY SlotStep
<1> QED
  BY <1>3, <1>4, <1>5, <1>6, <1>7, <1>8, <1>9 DEF Core

LEMMA StageAndEmitStep ==
  ASSUME IInv, Races = {}, NEW s \in DOMAIN kid, StageAndEmit(s)
  PROVE  Core'
<1>1. Typed /\ Core
  BY TypedFacts DEF IInv
<1>2. /\ pc' = pc /\ iter' = iter /\ errs' = errs /\ next' = next /\ label' = label
      /\ todo' = todo /\ spawned' = spawned /\ workers' = workers /\ overdue' = overdue
      /\ store' = store
      /\ DOMAIN kid' = DOMAIN kid /\ (\A t \in DOMAIN kid : t # s => kid'[t] = kid[t])
      /\ kid'[s].label = kid[s].label /\ kid'[s].state = kid[s].state
      /\ kid'[s].looked = kid[s].looked /\ kid'[s].step = "none" /\ kid'[s].verdict = "none"
      /\ kid'[s].wave = 0 /\ kid'[s].diff = kid[s].diff
      /\ hitl' = hitl /\ kid[s].step = "stage" /\ sub'.by = s /\ sub'.wave = kid[s].wave
      /\ staged' = staged /\ mixed' = mixed
  BY <1>1, KidTyped DEF IInv, Core, DriverInv, StageAndEmit, driver, wave, contract, KidRecord
<1>3. DriverInv'
  BY <1>1, <1>2 DEF Core, DriverInv
<1>4. WaveInv'
  BY <1>1, <1>2 DEF Core, WaveInv, Sid, OfWave
<1>5. StoreInv'
  BY <1>1, <1>2 DEF Core, Typed, None, StoreInv, Spent, Planner, WaveInv, KidInv, SubInv, OfWave
<1>6. KidInv'
  BY <1>1, <1>2 DEF Core, KidInv
<1>7. RunInv'
  BY <1>1, <1>2 DEF Core, RunInv, OfWave
<1>8. SubInv'
  BY <1>1, <1>2 DEF Core, Typed, SubInv, KidInv, RunInv, Nobody
<1>9. SlotInv'
  BY <1>1, <1>2 DEF Core, SlotInv, AtDiff
<1> QED
  BY <1>3, <1>4, <1>5, <1>6, <1>7, <1>8, <1>9 DEF Core

LEMMA UserCancelsStep ==
  ASSUME IInv, Races = {}, NEW s \in DOMAIN kid, UserCancels(s)
  PROVE  Core'
<1>1. Typed /\ Core
  BY TypedFacts DEF IInv
<1>2. /\ pc' = pc /\ kid[s].state = "runs" /\ iter' = iter /\ errs' = errs /\ next' = next
      /\ label' = label /\ todo' = todo /\ spawned' = spawned /\ workers' = workers
      /\ overdue' = overdue /\ store' = store
      /\ DOMAIN kid' = DOMAIN kid /\ (\A t \in DOMAIN kid : t # s => kid'[t] = kid[t])
      /\ kid'[s].label = kid[s].label /\ kid'[s].state = "cancelled"
      /\ kid'[s].looked = kid[s].looked /\ kid'[s].step = kid[s].step
      /\ kid'[s].verdict = kid[s].verdict /\ kid'[s].wave = kid[s].wave
      /\ kid'[s].diff = kid[s].diff
      /\ hitl' = hitl /\ sub' = sub /\ staged' = staged /\ mixed' = mixed
  BY <1>1, KidTyped DEF IInv, Core, DriverInv, UserCancels, driver, wave, contract, KidRecord
<1>3. DriverInv'
  BY <1>1, <1>2 DEF Core, DriverInv
<1>4. WaveInv'
  <2>1. \A t \in DOMAIN kid : kid'[t].state = "runs" => kid[t].state = "runs"
    BY <1>2
  <2> QED
    BY <1>1, <1>2, <2>1 DEF Core, WaveInv, Sid, OfWave
<1>5. StoreInv'
  <2>1. \A t \in DOMAIN kid : /\ kid'[t].state = "runs" => kid[t].state = "runs"
                              /\ kid'[t].step = kid[t].step
    BY <1>2
  <2>2. \A j : Spent(j) =>
          (Planner(j) \in DOMAIN kid' =>
            kid'[Planner(j)].state # "runs" /\ kid'[Planner(j)].step = "none")
    BY <1>2, <2>1 DEF Spent
  <2> QED
    BY <1>1, <1>2, <2>2 DEF Core, StoreInv, Spent
<1>6. KidInv'
  BY <1>1, <1>2 DEF Core, KidInv
<1>7. RunInv'
  BY <1>1, <1>2 DEF Core, RunInv, OfWave
<1>8. SubInv'
  BY <1>1, <1>2 DEF Core, SubInv
<1>9. SlotInv'
  BY <1>1, <1>2 DEF Core, Typed, SlotInv, AtDiff, KidInv
<1> QED
  BY <1>3, <1>4, <1>5, <1>6, <1>7, <1>8, <1>9 DEF Core

LEMMA CloseStep ==
  ASSUME IInv, Races = {}, NEW s \in DOMAIN kid, Close(s)
  PROVE  Core'
<1>1. Typed /\ Core
  BY TypedFacts DEF IInv
<1>2. /\ pc' = pc /\ kid[s].step = "none" /\ iter' = iter /\ errs' = errs /\ next' = next
      /\ label' = label /\ todo' = todo /\ spawned' = spawned /\ workers' = workers
      /\ overdue' = overdue /\ store' = store
      /\ DOMAIN kid' = DOMAIN kid /\ (\A t \in DOMAIN kid : t # s => kid'[t] = kid[t])
      /\ kid'[s].label = kid[s].label /\ kid'[s].state = "closed" /\ kid'[s].looked = FALSE
      /\ kid'[s].step = kid[s].step /\ kid'[s].verdict = kid[s].verdict
      /\ kid'[s].wave = kid[s].wave /\ kid'[s].diff = kid[s].diff
      /\ hitl' = hitl /\ sub' = sub /\ staged' = staged /\ mixed' = mixed
  <2>1. PICK looked \in {FALSE} \cup {"torn" \in Races /\ s \in workers} :
          kid' = [kid EXCEPT ![s].state = "closed", ![s].looked = looked]
    BY DEF Close
  <2>2. looked = FALSE
    BY <2>1, Zenon
  <2>3. kid[s] \in KidRecord
    BY KidTyped DEF IInv
  <2>4. kid' = [kid EXCEPT ![s].state = "closed", ![s].looked = FALSE]
    BY <2>1, <2>2
  <2> QED
    BY <2>3, <2>4 DEF Close, driver, wave, contract, KidRecord
<1>3. DriverInv'
  BY <1>1, <1>2 DEF Core, DriverInv
<1>4. WaveInv'
  BY <1>1, <1>2 DEF Core, WaveInv, Sid, OfWave
<1>5. StoreInv'
  BY <1>1, <1>2 DEF Core, StoreInv, Spent, Sid
<1>6. KidInv'
  BY <1>1, <1>2 DEF Core, KidInv
<1>7. RunInv'
  BY <1>1, <1>2 DEF Core, RunInv, OfWave
<1>8. SubInv'
  BY <1>1, <1>2 DEF Core, SubInv
<1>9. SlotInv'
  BY <1>1, <1>2 DEF Core, Typed, SlotInv, AtDiff, KidInv
<1> QED
  BY <1>3, <1>4, <1>5, <1>6, <1>7, <1>8, <1>9 DEF Core

LEMMA DropFrameStep ==
  ASSUME IInv, Races = {}, NEW s \in DOMAIN kid, DropFrame(s)
  PROVE  Core'
<1>1. Typed /\ Core
  BY TypedFacts DEF IInv
<1>2. /\ pc' = pc /\ iter' = iter /\ errs' = errs /\ next' = next /\ label' = label
      /\ todo' = todo /\ spawned' = spawned /\ workers' = workers /\ overdue' = overdue
      /\ store' = store
      /\ kid[s].state = "closed" /\ DOMAIN kid' = DOMAIN kid \ {s}
      /\ (\A t \in DOMAIN kid \ {s} : kid'[t] = kid[t])
      /\ hitl' = hitl /\ sub' = sub /\ staged' = staged /\ mixed' = mixed
  BY <1>1, BoundsAssumption DEF Core, DriverInv, DropFrame, driver, wave, contract, Restrict
<1>3. DriverInv'
  BY <1>1, <1>2 DEF Core, DriverInv
<1>4. WaveInv'
  BY <1>1, <1>2 DEF Core, WaveInv, Sid, OfWave
<1>5. StoreInv'
  BY <1>1, <1>2 DEF Core, StoreInv, Spent, Sid
<1>6. KidInv'
  BY <1>1, <1>2 DEF Core, KidInv
<1>7. RunInv'
  BY <1>1, <1>2 DEF Core, RunInv, OfWave
<1>8. SubInv'
  BY <1>1, <1>2 DEF Core, SubInv
<1>9. SlotInv'
  BY <1>1, <1>2 DEF Core, Typed, SlotInv, AtDiff, KidInv
<1> QED
  BY <1>3, <1>4, <1>5, <1>6, <1>7, <1>8, <1>9 DEF Core

LEMMA RecordStep ==
  ASSUME IInv, Races = {}, NEW s \in DOMAIN kid, NEW r \in Reports, Record(s, r)
  PROVE  Core'
<1>1. Typed /\ Core
  BY TypedFacts DEF IInv
<1>2. /\ pc' = pc /\ iter' = iter /\ errs' = errs /\ next' = next /\ label' = label
      /\ todo' = todo /\ spawned' = spawned /\ workers' = workers /\ overdue' = overdue
      /\ label # None /\ s \in workers /\ DOMAIN store' = DOMAIN store \cup {<<s[1], label>>}
      /\ (\A q \in DOMAIN store : store'[q] = store[q])
      /\ (<<s[1], label>> \notin DOMAIN store => store'[<<s[1], label>>].by = s)
      /\ kid[s].state = "closed" /\ DOMAIN kid' = DOMAIN kid \ {s}
      /\ (\A t \in DOMAIN kid \ {s} : kid'[t] = kid[t])
      /\ hitl' = hitl /\ sub' = sub /\ staged' = staged /\ mixed' = mixed
  BY <1>1, Names DEF Core, DriverInv, Record, driver, wave, Heard, Restrict, KidInv
<1>3. DriverInv'
  BY <1>1, <1>2 DEF Core, DriverInv
<1>4. WaveInv'
  <2>1. ASSUME NEW ref \in DOMAIN store', ref[2] = label'
        PROVE  /\ ref[1] \in spawned' /\ store'[ref].by = Sid(ref[1])'
               /\ Sid(ref[1])' \notin DOMAIN kid'
    BY <1>1, <1>2, <2>1 DEF Core, Typed, None, WaveInv, Sid, OfWave, DriverInv
  <2>2. label' # None => \A t \in workers' : OfWave(t)'
    BY <1>1, <1>2 DEF Core, WaveInv, OfWave, Sid
  <2>3. ASSUME NEW n \in overdue', Sid(n)' \in DOMAIN kid' PROVE kid'[Sid(n)'].state # "runs"
    BY <1>1, <1>2, <2>3 DEF Core, WaveInv, Sid
  <2>4. /\ (overdue \subseteq spawned)'
        /\ (label[1] = "plan" /\ Planner(iter) \in DOMAIN kid => "planner" \in spawned)'
    BY <1>1, <1>2 DEF Core, WaveInv
  <2> QED
    BY <2>1, <2>2, <2>3, <2>4 DEF WaveInv
<1>5. StoreInv'
  BY <1>1, <1>2 DEF Core, Typed, StoreInv, Spent, DriverInv, Sid
<1>6. KidInv'
  BY <1>1, <1>2 DEF Core, KidInv
<1>7. RunInv'
  BY <1>1, <1>2 DEF Core, RunInv, OfWave
<1>8. SubInv'
  BY <1>1, <1>2 DEF Core, SubInv
<1>9. SlotInv'
  BY <1>1, <1>2 DEF Core, Typed, SlotInv, AtDiff, KidInv
<1> QED
  BY <1>3, <1>4, <1>5, <1>6, <1>7, <1>8, <1>9 DEF Core

-----------------------------------------------------------------------------
(* Type correctness, part by part.                                         *)

DriverType ==
  /\ pc \in {"iterate", "wave", "run", "check", "synth", "ended"}
  /\ iter \in 0 .. MaxWaves /\ next \in 0 .. MaxWaves /\ errs \in 0 .. MaxErrors
  /\ label \in Label \cup {None}
  /\ how \in {"", "done", "aborted", "cancelled"}

WaveType ==
  /\ todo \subseteq Author /\ spawned \subseteq Author /\ overdue \subseteq Author
  /\ workers \subseteq Session

StoreType ==
  /\ DOMAIN store \subseteq Author \X Label
  /\ \A r \in DOMAIN store : store[r] \in [by : Session, ok : BOOLEAN]

KidType ==
  /\ DOMAIN kid \subseteq Session
  /\ \A s \in DOMAIN kid : kid[s] \in KidRecord

SubType == sub \in [by : Session \cup {Nobody}, verdict : Verdict, wave : 0 .. MaxWaves]

FlagType ==
  /\ manifest \in Manifests
  /\ signed \in BOOLEAN /\ pending \in BOOLEAN /\ budget \in BOOLEAN
  /\ hitl \subseteq Session /\ mixed \subseteq Session

RowsType == rows \in Seq(Status) /\ staged \in Diff

LEMMA TypeParts ==
  TypeOK <=> DriverType /\ WaveType /\ StoreType /\ KidType /\ SubType /\ FlagType /\ RowsType
<1>1. TypeOK => DriverType /\ WaveType
  BY DEF TypeOK, DriverType, WaveType
<1>2. TypeOK => StoreType /\ SubType
  BY DEF TypeOK, StoreType, SubType
<1>3. TypeOK => KidType
  BY DEF TypeOK, KidType, KidRecord
<1>4. TypeOK => FlagType /\ RowsType
  BY DEF TypeOK, FlagType, RowsType
<1>5. ASSUME DriverType, WaveType, StoreType, KidType, SubType, FlagType, RowsType
      PROVE  TypeOK
  <2>1. /\ manifest \in Manifests
        /\ pc \in {"iterate", "wave", "run", "check", "synth", "ended"}
        /\ {iter, next} \subseteq 0 .. MaxWaves /\ errs \in 0 .. MaxErrors
        /\ label \in Label \cup {None}
        /\ how \in {"", "done", "aborted", "cancelled"}
    BY <1>5 DEF DriverType, FlagType
  <2>2. /\ todo \subseteq Author /\ spawned \subseteq Author /\ overdue \subseteq Author
        /\ workers \subseteq Session /\ hitl \subseteq Session
        /\ {signed, pending, budget} \subseteq BOOLEAN /\ mixed \subseteq Session
    BY <1>5, Zenon DEF WaveType, FlagType
  <2>3. /\ DOMAIN store \subseteq Author \X Label
        /\ \A r \in DOMAIN store : store[r] \in [by : Session, ok : BOOLEAN]
    BY <1>5 DEF StoreType
  <2>4. /\ DOMAIN kid \subseteq Session
        /\ \A s \in DOMAIN kid : kid[s] \in KidRecord
    BY <1>5 DEF KidType
  <2>5. /\ sub \in [by : Session \cup {Nobody}, verdict : Verdict, wave : 0 .. MaxWaves]
        /\ rows \in Seq(Status) /\ staged \in Diff
    BY <1>5 DEF SubType, RowsType
  <2> QED
    BY <2>1, <2>2, <2>3, <2>4, <2>5, Zenon DEF TypeOK, KidRecord
<1> QED
  BY <1>1, <1>2, <1>3, <1>4, <1>5

LEMMA InitIInv ==
  ASSUME Init
  PROVE  IInv
<1>1. MaxWaves \in Nat /\ MaxErrors \in Nat /\ MaxErrors > 0
  BY BoundsAssumption
<1>2. rows \in Seq(Status)
  <2>1. rows \in {<<>>, <<"unsatisfied">>}
    BY DEF Init
  <2>2. <<>> \in Seq(Status) /\ <<"unsatisfied">> \in Seq(Status)
    BY DEF Status
  <2> QED
    BY <2>1, <2>2
<1>3. DOMAIN store = {} /\ DOMAIN kid = {}
  <2>1. store = <<>> /\ kid = <<>>
    BY DEF Init
  <2> QED
    BY <2>1
<1>4. DriverType
  <2>1. 0 \in 0 .. MaxWaves /\ 0 \in 0 .. MaxErrors
    BY <1>1
  <2>2. pc = "iterate" /\ iter = 0 /\ errs = 0 /\ next = 0 /\ label = None /\ how = ""
    BY DEF Init
  <2> QED
    BY <2>1, <2>2, Zenon DEF DriverType
<1>5. WaveType /\ StoreType /\ KidType
  BY <1>3 DEF Init, WaveType, StoreType, KidType
<1>6. SubType
  <2>1. 0 \in 0 .. MaxWaves /\ "none" \in Verdict /\ Nobody \in Session \cup {Nobody}
    BY <1>1 DEF Verdict
  <2>2. sub = [by |-> Nobody, verdict |-> "none", wave |-> 0]
    BY DEF Init, NoSubmission
  <2> QED
    BY <2>1, <2>2, Zenon DEF SubType
<1>7. FlagType /\ RowsType
  BY <1>2 DEF Init, FlagType, RowsType, NoDiff, Diff
<1>8. Core
  BY <1>1, <1>3 DEF Init, Core, DriverInv, WaveInv, StoreInv, KidInv, RunInv, SubInv, SlotInv,
                    AtDiff, None, NoSubmission, NoDiff
<1> QED
  BY <1>4, <1>5, <1>6, <1>7, <1>8, TypeParts DEF IInv

LEMMA ApplyType ==
  ASSUME NEW q \in Seq(Status), NEW d \in Diff
  PROVE  Apply(q, d) \in Seq(Status)
<1>1. CASE d.op = "none"
  BY <1>1 DEF Apply
<1>2. CASE d.op = "add"
  BY <1>2 DEF Apply, Status
<1>3. CASE d.op \in {"drop", "satisfied", "unsatisfied"}
  <2>1. PICK v \in Status : Apply(q, d) = [q EXCEPT ![d.row] = v]
    BY <1>3 DEF Apply, Status
  <2> QED
    <3>1. CASE d.row \in 1 .. Len(q)
      BY <2>1, <3>1, ExceptSeq
    <3>2. CASE d.row \notin 1 .. Len(q)
      <4>1. q \in [1 .. Len(q) -> Status]
        OBVIOUS
      <4>2. [q EXCEPT ![d.row] = v] = q
        BY <3>2, <4>1, Zenon
      <4> QED
        BY <2>1, <4>2
    <3> QED
      BY <3>1, <3>2
<1> QED
  BY <1>1, <1>2, <1>3 DEF Diff

LEMMA ClaimType ==
  ASSUME NEW q \in Seq(Status), NEW i \in DOMAIN q
  PROVE  Claim(q, i) \in Seq(Status)
BY DEF Claim, Status

LEMMA SidType ==
  ASSUME IInv, label # None, NEW n \in Author
  PROVE  Sid(n) \in Session
BY TypeParts DEF IInv, DriverType, Sid, Session, Label, Stage

\* Who does a step.
LEMMA Actions ==
  ASSUME Next
  PROVE  /\ manifest' = manifest
         /\ \/ Iterate \/ IterateNoMore \/ PlanWaveEnds \/ RunPlan \/ DependsOnUnknown
            \/ DoWaveEnds \/ StartChecker \/ CheckWaveEnds \/ Synthesize \/ SynthWaveEnds
            \/ FinishMission
            \/ \E n \in Author : Spawn(n) \/ RegisterWorker(n) \/ SpawnFails(n) \/ Expire(n)
            \/ \E s \in DOMAIN kid : Kid(s)
BY DEF Next, Driver

LEMMA KidActions ==
  ASSUME NEW s, Kid(s)
  PROVE  \/ Handles(s) \/ StageAndEmit(s) \/ UserCancels(s) \/ Close(s)
         \/ DropFrame(s) \/ (\E r \in Reports : Record(s, r))
BY DEF Kid, ValidateStep, Handles

LEMMA OneMore ==
  ASSUME NEW m \in Nat, NEW i \in 0 .. m, i < m
  PROVE  i + 1 \in 0 .. m
OBVIOUS

\* What a session does leaves the driver and the wave alone.
LEMMA KidFrame ==
  ASSUME IInv, Races = {}, NEW s \in DOMAIN kid, Kid(s)
  PROVE  /\ pc' = pc /\ iter' = iter /\ errs' = errs /\ next' = next /\ how' = how
         /\ label' = label /\ todo' = todo /\ spawned' = spawned /\ overdue' = overdue
         /\ workers' = workers
         /\ (\A r \in Reports : ~Record(s, r)) => store' = store
         /\ ~StageAndEmit(s) => sub' = sub
<1>1. CASE Handles(s)
  BY <1>1, Moving DEF Moves
<1>2. CASE StageAndEmit(s)
  BY <1>2 DEF StageAndEmit, driver, wave
<1>3. CASE UserCancels(s) \/ Close(s) \/ DropFrame(s)
  BY <1>3 DEF UserCancels, Close, DropFrame, driver, wave
<1>4. ASSUME NEW r \in Reports, Record(s, r)
      PROVE  UNCHANGED <<driver, wave, how, workers, sub>>
  BY <1>4 DEF Record
<1> QED
  BY <1>1, <1>2, <1>3, <1>4, KidActions DEF driver, wave

LEMMA DriverTypeStep ==
  ASSUME IInv, Races = {}, Next
  PROVE  DriverType'
<1>1. IInv /\ Typed /\ Core /\ MaxWaves \in Nat /\ MaxErrors \in Nat /\ MaxErrors > 0
  BY TypedFacts, BoundsAssumption DEF IInv
<1>2. DriverType /\ WaveType /\ StoreType /\ KidType /\ SubType /\ FlagType /\ RowsType
  BY <1>1, TypeParts DEF IInv
<1>3. CASE Iterate
  <2>1. iter' = iter + 1 /\ iter' \in 0 .. MaxWaves
    <3>1. iter' = iter + 1 /\ iter < MaxWaves
      BY <1>3 DEF Iterate, MoreIterations
    <3> QED
      BY <1>1, <1>2, <3>1, OneMore DEF DriverType
  <2>2. label' = <<"plan", iter'>> /\ label' \in Label
    BY <1>3, <2>1 DEF Iterate, BeginWave, Label, Stage
  <2> QED
    BY <1>2, <1>3, <2>1, <2>2 DEF DriverType, Iterate, BeginWave
<1>4. CASE IterateNoMore
  BY <1>1, <1>2, <1>4 DEF DriverType, Core, DriverInv, IterateNoMore, Leave, wave, contract,
     Label, Stage, None
<1>5. CASE PlanWaveEnds
  <2>0. errs < MaxErrors
    BY <1>1, <1>5 DEF Core, DriverInv, PlanWaveEnds, WaveEnds
  <2>1. next' \in 0 .. MaxWaves /\ iter' = iter /\ label' \in {label, None}
    BY <1>2, <1>5 DEF PlanWaveEnds, WaveEnds, wave, Leave, Retry, DriverType, SubType
  <2>2. CASE Retry
    <3>1. errs' = errs + 1 /\ next' = next /\ pc' \in {"synth", "iterate"}
          /\ how' \in {"aborted", how}
      BY <2>2 DEF Retry, Leave
    <3>2. errs' \in 0 .. MaxErrors
      BY <1>1, <1>2, <2>0, <3>1, OneMore DEF DriverType
    <3> QED
      BY <1>2, <2>1, <3>1, <3>2 DEF DriverType
  <2>3. CASE ~Retry
    <3>1. errs' \in {errs, 0} /\ pc' \in {"iterate", "run", "check", "synth"}
          /\ how' \in {how, "done", "cancelled"}
      BY <1>5, <2>3 DEF PlanWaveEnds, Leave
    <3>2. 0 \in 0 .. MaxErrors
      BY <1>1
    <3> QED
      BY <1>2, <2>1, <3>1, <3>2 DEF DriverType
  <2> QED
    BY <2>2, <2>3
<1>6. CASE RunPlan
  BY <1>1, <1>2, <1>6 DEF DriverType, Core, DriverInv, RunPlan, BeginWave, ForgetWorkers,
     contract, Label, Stage, None
<1>7. CASE DependsOnUnknown
  <2>0. errs < MaxErrors
    BY <1>1, <1>7 DEF Core, DriverInv, DependsOnUnknown
  <2>1. /\ errs' = errs + 1 /\ iter' = iter /\ next' = next /\ label' = label
        /\ pc' \in {"synth", "iterate"} /\ how' \in {"aborted", how}
    BY <1>7 DEF DependsOnUnknown, Retry, Leave, wave
  <2>2. errs' \in 0 .. MaxErrors
    BY <1>1, <1>2, <2>0, <2>1, OneMore DEF DriverType
  <2> QED
    BY <1>2, <2>1, <2>2 DEF DriverType
<1>8. CASE DoWaveEnds
  <2>0. errs < MaxErrors
    BY <1>1, <1>8 DEF Core, DriverInv, DoWaveEnds, WaveEnds
  <2>1. next' = next /\ iter' = iter /\ label' \in {label, None}
    BY <1>2, <1>8 DEF DoWaveEnds, WaveEnds, wave, Leave, Retry, DriverType
  <2>2. CASE Retry
    <3>1. errs' = errs + 1 /\ next' = next /\ pc' \in {"synth", "iterate"}
          /\ how' \in {"aborted", how}
      BY <2>2 DEF Retry, Leave
    <3>2. errs' \in 0 .. MaxErrors
      BY <1>1, <1>2, <2>0, <3>1, OneMore DEF DriverType
    <3> QED
      BY <1>2, <2>1, <3>1, <3>2 DEF DriverType
  <2>3. CASE ~Retry
    <3>1. errs' \in {errs, 0} /\ pc' \in {"iterate", "run", "check", "synth"}
          /\ how' \in {how, "done", "cancelled"}
      BY <1>8, <2>3 DEF DoWaveEnds, Leave
    <3>2. 0 \in 0 .. MaxErrors
      BY <1>1
    <3> QED
      BY <1>2, <2>1, <3>1, <3>2 DEF DriverType
  <2> QED
    BY <2>2, <2>3
<1>9. CASE StartChecker
  BY <1>1, <1>2, <1>9 DEF DriverType, Core, DriverInv, StartChecker, BeginWave, ForgetWorkers,
     contract, Label, Stage, None
<1>10. CASE CheckWaveEnds
  <2>0. errs < MaxErrors
    BY <1>1, <1>10 DEF Core, DriverInv, CheckWaveEnds, WaveEnds
  <2>1. next' = next /\ iter' = iter /\ label' \in {label, None}
    BY <1>2, <1>10 DEF CheckWaveEnds, WaveEnds, wave, Leave, Retry, DriverType
  <2>2. CASE Retry
    <3>1. errs' = errs + 1 /\ next' = next /\ pc' \in {"synth", "iterate"}
          /\ how' \in {"aborted", how}
      BY <2>2 DEF Retry, Leave
    <3>2. errs' \in 0 .. MaxErrors
      BY <1>1, <1>2, <2>0, <3>1, OneMore DEF DriverType
    <3> QED
      BY <1>2, <2>1, <3>1, <3>2 DEF DriverType
  <2>3. CASE ~Retry
    <3>1. errs' \in {errs, 0} /\ pc' \in {"iterate", "run", "check", "synth"}
          /\ how' \in {how, "done", "cancelled"}
      BY <1>10, <2>3 DEF CheckWaveEnds, Leave
    <3>2. 0 \in 0 .. MaxErrors
      BY <1>1
    <3> QED
      BY <1>2, <2>1, <3>1, <3>2 DEF DriverType
  <2> QED
    BY <2>2, <2>3
<1>11. CASE Synthesize
  <2>1. <<"synth", 0>> \in Label
    BY <1>1 DEF Label, Stage
  <2> QED
    BY <1>2, <1>11, <2>1 DEF DriverType, Synthesize, BeginWave
<1>12. CASE SynthWaveEnds
  BY <1>1, <1>2, <1>12 DEF DriverType, Core, DriverInv, SynthWaveEnds, WaveEnds, contract,
     Label, Stage, None
<1>13. CASE FinishMission
  BY <1>1, <1>2, <1>13 DEF DriverType, Core, DriverInv, FinishMission, wave, contract, Label,
     Stage, None
<1>14. ASSUME (\E n \in Author : Spawn(n)) \/ (\E n \in Author : RegisterWorker(n)) \/
             (\E n \in Author : SpawnFails(n)) \/ (\E n \in Author : Expire(n))
      PROVE  DriverType'
  <2>1. pc' = pc /\ iter' = iter /\ next' = next /\ errs' = errs /\ label' = label /\ how' = how
    BY <1>14 DEF Spawn, RegisterWorker, SpawnFails, Expire, driver, contract
  <2> QED
    BY <1>2, <2>1 DEF DriverType
<1>15. ASSUME NEW s \in DOMAIN kid, Kid(s)
      PROVE  DriverType'
  <2>1. pc' = pc /\ iter' = iter /\ next' = next /\ errs' = errs /\ label' = label /\ how' = how
    BY <1>15, KidFrame
  <2> QED
    BY <1>2, <2>1 DEF DriverType
<1> QED
  BY Actions, KidActions, <1>3, <1>4, <1>5, <1>6, <1>7, <1>8, <1>9, <1>10, <1>11, <1>12, <1>13,
  <1>14, <1>15

LEMMA WaveTypeStep ==
  ASSUME IInv, Races = {}, Next
  PROVE  WaveType'
<1>1. IInv /\ Typed /\ Core /\ MaxWaves \in Nat /\ MaxErrors \in Nat /\ MaxErrors > 0
  BY TypedFacts, BoundsAssumption DEF IInv
<1>2. DriverType /\ WaveType /\ StoreType /\ KidType /\ SubType /\ FlagType /\ RowsType
  BY <1>1, TypeParts DEF IInv
<1>3. CASE Iterate
  BY <1>1, <1>2, <1>3 DEF WaveType, Iterate, BeginWave, ForgetWorkers, contract, Author
<1>4. CASE RunPlan
  BY <1>1, <1>2, <1>4 DEF WaveType, RunPlan, BeginWave, ForgetWorkers, contract, Author
<1>5. CASE StartChecker
  BY <1>1, <1>2, <1>5 DEF WaveType, StartChecker, BeginWave, ForgetWorkers, contract, Author
<1>6. CASE Synthesize
  BY <1>1, <1>2, <1>6 DEF WaveType, Synthesize, BeginWave, ForgetWorkers, contract, Author
<1>7. CASE PlanWaveEnds
  BY <1>1, <1>2, <1>7 DEF WaveType, PlanWaveEnds, WaveEnds, Leave, Retry, contract
<1>8. CASE DoWaveEnds
  BY <1>1, <1>2, <1>8 DEF WaveType, DoWaveEnds, WaveEnds, Retry, Leave, contract
<1>9. CASE CheckWaveEnds
  BY <1>1, <1>2, <1>9 DEF WaveType, CheckWaveEnds, WaveEnds, Retry, Leave
<1>10. CASE SynthWaveEnds
  BY <1>1, <1>2, <1>10 DEF WaveType, SynthWaveEnds, WaveEnds, contract
<1>11. ASSUME NEW n \in Author, Spawn(n)
      PROVE  WaveType'
  BY <1>1, <1>2, <1>11 DEF WaveType, Spawn, driver, contract
<1>12. ASSUME NEW n \in Author, SpawnFails(n)
      PROVE  WaveType'
  BY <1>1, <1>2, <1>12 DEF WaveType, SpawnFails, driver, contract
<1>13. ASSUME NEW n \in Author, Expire(n)
      PROVE  WaveType'
  BY <1>1, <1>2, <1>13, Names DEF WaveType, Expire, driver, contract
<1>14. ASSUME NEW n \in Author, RegisterWorker(n)
      PROVE  WaveType'
  <2>1. Sid(n) \in Session
    BY <1>1, <1>14, SidType DEF RegisterWorker, Core, DriverInv
  <2> QED
    BY <1>2, <1>14, <2>1 DEF WaveType, RegisterWorker
<1>15. ASSUME IterateNoMore \/ DependsOnUnknown
      PROVE  WaveType'
  <2>1. todo' = todo /\ spawned' = spawned /\ overdue' = overdue /\ workers' = workers
    BY <1>15 DEF IterateNoMore, DependsOnUnknown, Leave, wave, contract, Retry
  <2> QED
    BY <1>2, <2>1 DEF WaveType
<1>16. ASSUME FinishMission
      PROVE  WaveType'
  <2>1. todo' = todo /\ spawned' = spawned /\ overdue' = overdue /\ workers' = workers
    BY <1>16 DEF FinishMission, wave, contract
  <2> QED
    BY <1>2, <2>1 DEF WaveType
<1>17. ASSUME NEW s \in DOMAIN kid, Kid(s)
      PROVE  WaveType'
  <2>1. todo' = todo /\ spawned' = spawned /\ overdue' = overdue /\ workers' = workers
    BY <1>17, KidFrame
  <2> QED
    BY <1>2, <2>1 DEF WaveType
<1> QED
  BY Actions, KidActions, <1>3, <1>4, <1>5, <1>6, <1>7, <1>8, <1>9, <1>10, <1>11, <1>12, <1>13,
  <1>14, <1>15, <1>16, <1>17

LEMMA StoreTypeStep ==
  ASSUME IInv, Races = {}, Next
  PROVE  StoreType'
<1>1. IInv /\ Typed /\ Core /\ MaxWaves \in Nat /\ MaxErrors \in Nat /\ MaxErrors > 0
  BY TypedFacts, BoundsAssumption DEF IInv
<1>2. DriverType /\ WaveType /\ StoreType /\ KidType /\ SubType /\ FlagType /\ RowsType
  BY <1>1, TypeParts DEF IInv
<1>3. ASSUME NEW s \in DOMAIN kid, NEW r \in Reports, Record(s, r)
      PROVE  StoreType'
  <2> DEFINE ref == <<s[1], label>>
             ok == r = "ok" /\ (label[1] = "plan" => Submitted(s))
  <2>1. s \in Session /\ s[1] \in Author /\ label \in Label
    BY <1>2, <1>3 DEF KidType, DriverType, Session, Record, Heard
  <2>2. ref \in Author \X Label
    BY <2>1
  <2>3. ok \in BOOLEAN
    BY Zenon
  <2>4. store' = [q \in DOMAIN store \cup {ref} |->
                    IF q \in DOMAIN store THEN store[q] ELSE [by |-> s, ok |-> ok]]
    BY <1>3, Names DEF Record
  <2> HIDE DEF ref, ok
  <2>5. DOMAIN store' = DOMAIN store \cup {ref}
    BY <2>4
  <2>6. [by |-> s, ok |-> ok] \in [by : Session, ok : BOOLEAN]
    BY <2>1, <2>3, Zenon
  <2>7. \A q \in DOMAIN store' : store'[q] \in [by : Session, ok : BOOLEAN]
    BY <1>2, <2>4, <2>6, Zenon DEF StoreType
  <2> QED
    BY <1>2, <2>2, <2>5, <2>7 DEF StoreType
<1>4. ASSUME Iterate \/ IterateNoMore \/ PlanWaveEnds \/ RunPlan \/ DependsOnUnknown \/
             DoWaveEnds
      PROVE  StoreType'
  <2>1. store' = store
    BY <1>4 DEF Iterate, IterateNoMore, PlanWaveEnds, RunPlan, DependsOnUnknown, DoWaveEnds,
       BeginWave, ForgetWorkers, contract, Leave, wave, WaveEnds, Retry
  <2> QED
    BY <1>2, <2>1 DEF StoreType
<1>5. ASSUME StartChecker \/ CheckWaveEnds \/ Synthesize \/ SynthWaveEnds \/ FinishMission
      PROVE  StoreType'
  <2>1. store' = store
    BY <1>5 DEF StartChecker, CheckWaveEnds, Synthesize, SynthWaveEnds, FinishMission,
       BeginWave, ForgetWorkers, contract, WaveEnds, Retry, Leave, wave
  <2> QED
    BY <1>2, <2>1 DEF StoreType
<1>6. ASSUME (\E n \in Author : Spawn(n)) \/ (\E n \in Author : RegisterWorker(n)) \/
             (\E n \in Author : SpawnFails(n)) \/ (\E n \in Author : Expire(n))
      PROVE  StoreType'
  <2>1. store' = store
    BY <1>6 DEF Spawn, RegisterWorker, SpawnFails, Expire, driver, contract
  <2> QED
    BY <1>2, <2>1 DEF StoreType
<1>7. ASSUME NEW s \in DOMAIN kid, Kid(s) /\ (\A r \in Reports : ~Record(s, r))
      PROVE  StoreType'
  <2>1. store' = store
    BY <1>7, KidFrame
  <2> QED
    BY <1>2, <2>1 DEF StoreType
<1> QED
  BY Actions, KidActions, <1>3, <1>4, <1>5, <1>6, <1>7

LEMMA KidTypeStep ==
  ASSUME IInv, Races = {}, Next
  PROVE  KidType'
<1>1. IInv /\ Typed /\ Core /\ MaxWaves \in Nat /\ MaxErrors \in Nat /\ MaxErrors > 0
  BY TypedFacts, BoundsAssumption DEF IInv
<1>2. DriverType /\ WaveType /\ StoreType /\ KidType /\ SubType /\ FlagType /\ RowsType
  BY <1>1, TypeParts DEF IInv
<1>3. ASSUME NEW n \in Author, Spawn(n)
      PROVE  KidType'
  <2>1. Sid(n) \in Session /\ label \in Label
    BY <1>1, <1>2, <1>3, SidType DEF Spawn, Core, DriverInv, DriverType
  <2>2. [label |-> label, state |-> "runs", looked |-> FALSE, step |-> "none",
         verdict |-> "none", wave |-> 0, diff |-> NoDiff] \in KidRecord
    BY <1>1, <2>1 DEF KidRecord, Step, Verdict, NoDiff, Diff
  <2> QED
    BY <1>2, <1>3, <2>1, <2>2 DEF Spawn, KidType
<1>4. ASSUME NEW n \in Author, Expire(n)
      PROVE  KidType'
  <2>1. \A k \in KidRecord : Cancelled(k) \in KidRecord
    BY DEF Cancelled, KidRecord
  <2> QED
    BY <1>2, <1>4, <2>1 DEF Expire, KidType
<1>5. ASSUME NEW s \in DOMAIN kid, Handles(s)
      PROVE  KidType'
  BY <1>1, <1>2, <1>5, Moving DEF Moves, KidType
<1>8. ASSUME NEW s \in DOMAIN kid, StageAndEmit(s)
      PROVE  KidType'
  <2>1. kid' = [kid EXCEPT ![s].step = "none", ![s].verdict = "none", ![s].wave = 0]
    BY <1>8 DEF StageAndEmit
  <2>2. kid[s] \in KidRecord
    BY <1>2 DEF KidType
  <2>3. kid'[s] \in KidRecord
    BY <1>1, <2>1, <2>2 DEF KidRecord, Step, Verdict, NoDiff, Diff
  <2> QED
    BY <1>2, <2>1, <2>3 DEF KidType
<1>9. ASSUME NEW s \in DOMAIN kid, UserCancels(s)
      PROVE  KidType'
  <2>1. kid' = [kid EXCEPT ![s].state = "cancelled"]
    BY <1>9 DEF UserCancels
  <2>2. kid[s] \in KidRecord
    BY <1>2 DEF KidType
  <2>3. kid'[s] \in KidRecord
    BY <1>1, <2>1, <2>2 DEF KidRecord, Step, Verdict, NoDiff, Diff
  <2> QED
    BY <1>2, <2>1, <2>3 DEF KidType
<1>10. ASSUME NEW s \in DOMAIN kid, Close(s)
      PROVE  KidType'
  <2>1. PICK looked \in {FALSE} \cup {"torn" \in Races /\ s \in workers} :
          kid' = [kid EXCEPT ![s].state = "closed", ![s].looked = looked]
    BY <1>10 DEF Close
  <2>2. looked = FALSE
    BY <2>1, Zenon
  <2>3. kid[s] \in KidRecord
    BY <1>2 DEF KidType
  <2>4. kid' = [kid EXCEPT ![s].state = "closed", ![s].looked = FALSE]
    BY <2>1, <2>2
  <2>5. kid'[s] \in KidRecord
    BY <2>3, <2>4 DEF KidRecord
  <2> QED
    BY <1>2, <2>4, <2>5 DEF KidType
<1>11. ASSUME NEW s \in DOMAIN kid, DropFrame(s)
      PROVE  KidType'
  <2>1. kid' = Restrict(kid, DOMAIN kid \ {s})
    BY <1>11 DEF DropFrame
  <2> QED
    BY <1>2, <2>1 DEF KidType, Restrict
<1>12. ASSUME NEW s \in DOMAIN kid, NEW r \in Reports, Record(s, r)
      PROVE  KidType'
  <2>1. kid' = Restrict(kid, DOMAIN kid \ {s})
    BY <1>12 DEF Record
  <2> QED
    BY <1>2, <2>1 DEF KidType, Restrict
<1>14. ASSUME Iterate \/ IterateNoMore \/ PlanWaveEnds \/ RunPlan \/ DependsOnUnknown \/
             DoWaveEnds
      PROVE  KidType'
  <2>1. kid' = kid
    BY <1>14 DEF Iterate, IterateNoMore, PlanWaveEnds, RunPlan, DependsOnUnknown, DoWaveEnds,
       BeginWave, ForgetWorkers, contract, Leave, wave, WaveEnds, Retry
  <2> QED
    BY <1>2, <2>1 DEF KidType
<1>15. ASSUME StartChecker \/ CheckWaveEnds \/ Synthesize \/ SynthWaveEnds \/ FinishMission
      PROVE  KidType'
  <2>1. kid' = kid
    BY <1>15 DEF StartChecker, CheckWaveEnds, Synthesize, SynthWaveEnds, FinishMission,
       BeginWave, ForgetWorkers, contract, WaveEnds, Retry, Leave, wave
  <2> QED
    BY <1>2, <2>1 DEF KidType
<1>16. ASSUME (\E n \in Author : RegisterWorker(n)) \/ (\E n \in Author : SpawnFails(n))
      PROVE  KidType'
  <2>1. kid' = kid
    BY <1>16 DEF RegisterWorker, SpawnFails, driver, contract
  <2> QED
    BY <1>2, <2>1 DEF KidType
<1> QED
  BY Actions, KidActions, <1>3, <1>4, <1>5, <1>8, <1>9, <1>10, <1>11, <1>12, <1>14,
  <1>15, <1>16

LEMMA SubTypeStep ==
  ASSUME IInv, Races = {}, Next
  PROVE  SubType'
<1>1. IInv /\ Typed /\ Core /\ MaxWaves \in Nat /\ MaxErrors \in Nat /\ MaxErrors > 0
  BY TypedFacts, BoundsAssumption DEF IInv
<1>2. DriverType /\ WaveType /\ StoreType /\ KidType /\ SubType /\ FlagType /\ RowsType
  BY <1>1, TypeParts DEF IInv
<1>3. CASE Iterate
  <2>1. sub' = [by |-> Nobody, verdict |-> "none", wave |-> 0]
    BY <1>3 DEF Iterate, NoSubmission
  <2> QED
    BY <1>1, <2>1 DEF SubType, Verdict
<1>4. ASSUME NEW s \in DOMAIN kid, StageAndEmit(s)
      PROVE  SubType'
  <2>1. sub' = [by |-> s, verdict |-> kid[s].verdict, wave |-> kid[s].wave]
    BY <1>4 DEF StageAndEmit
  <2>2. s \in Session /\ kid[s] \in KidRecord
    BY <1>2 DEF KidType
  <2> QED
    BY <2>1, <2>2 DEF SubType, KidRecord
<1>5. ASSUME IterateNoMore \/ PlanWaveEnds \/ RunPlan \/ DependsOnUnknown \/ DoWaveEnds
      PROVE  SubType'
  <2>1. sub' = sub
    BY <1>5 DEF IterateNoMore, PlanWaveEnds, RunPlan, DependsOnUnknown, DoWaveEnds, Leave,
       wave, contract, WaveEnds, Retry, BeginWave, ForgetWorkers
  <2> QED
    BY <1>2, <2>1 DEF SubType
<1>6. ASSUME StartChecker \/ CheckWaveEnds \/ Synthesize \/ SynthWaveEnds \/ FinishMission
      PROVE  SubType'
  <2>1. sub' = sub
    BY <1>6 DEF StartChecker, CheckWaveEnds, Synthesize, SynthWaveEnds, FinishMission,
       BeginWave, ForgetWorkers, contract, WaveEnds, Retry, Leave, wave
  <2> QED
    BY <1>2, <2>1 DEF SubType
<1>7. ASSUME (\E n \in Author : Spawn(n)) \/ (\E n \in Author : RegisterWorker(n)) \/
             (\E n \in Author : SpawnFails(n)) \/ (\E n \in Author : Expire(n))
      PROVE  SubType'
  <2>1. sub' = sub
    BY <1>7 DEF Spawn, RegisterWorker, SpawnFails, Expire, driver, contract
  <2> QED
    BY <1>2, <2>1 DEF SubType
<1>8. ASSUME NEW s \in DOMAIN kid, Kid(s) /\ ~StageAndEmit(s)
      PROVE  SubType'
  <2>1. sub' = sub
    BY <1>8, KidFrame
  <2> QED
    BY <1>2, <2>1 DEF SubType
<1> QED
  BY Actions, KidActions, <1>3, <1>4, <1>5, <1>6, <1>7, <1>8

LEMMA FlagTypeStep ==
  ASSUME IInv, Races = {}, Next
  PROVE  FlagType'
<1>1. IInv /\ Typed /\ Core /\ MaxWaves \in Nat /\ MaxErrors \in Nat /\ MaxErrors > 0
  BY TypedFacts, BoundsAssumption DEF IInv
<1>2. DriverType /\ WaveType /\ StoreType /\ KidType /\ SubType /\ FlagType /\ RowsType
  BY <1>1, TypeParts DEF IInv
<1>3. ASSUME NEW s \in DOMAIN kid, Handles(s)
      PROVE  FlagType'
  <2>1. manifest' = manifest /\ s \in Session /\ AtDiff \subseteq Session
    BY <1>2, Actions DEF KidType, AtDiff
  <2>2. budget' = budget
    BY <1>1, <1>3, Moving DEF Moves
  <2>3. signed' \in {signed, TRUE} /\ pending' \in {pending, FALSE}
    BY <1>3 DEF Handles, Call, Refuse, Validate, MarkHITLWaiting, RenderFails, ModalCloses,
                CommitStagedDiff, MarkPlanApproved, Discard, contract
  <2>4. hitl' \subseteq hitl \cup {s}
    BY <1>3 DEF Handles, Call, Refuse, Validate, MarkHITLWaiting, RenderFails, ModalCloses,
                CommitStagedDiff, MarkPlanApproved, Discard, ClearHITLWaiting
  <2>5. mixed' \subseteq mixed \cup AtDiff \cup {s}
    BY <1>3 DEF Handles, Call, Refuse, Validate, MarkHITLWaiting, RenderFails, ModalCloses,
                CommitStagedDiff, MarkPlanApproved, Discard, StagePlannerDiff, contract
  <2> QED
    BY <1>2, <2>1, <2>2, <2>3, <2>4, <2>5 DEF FlagType
<1>7. ASSUME NEW s \in DOMAIN kid, NEW r \in Reports, Record(s, r)
      PROVE  FlagType'
  <2>1. manifest' = manifest
    BY Actions
  <2>2. signed' = signed /\ mixed' = mixed /\ hitl' = hitl
    BY <1>7 DEF Record
  <2>3. pending' \in BOOLEAN
    BY <1>2, <1>7, Zenon DEF FlagType, Record
  <2>4. budget' \in BOOLEAN
    BY <1>2, <1>7, Zenon DEF FlagType, Record
  <2> QED
    BY <1>2, <2>1, <2>2, <2>3, <2>4, Zenon DEF FlagType
<1>8. ASSUME Iterate \/ IterateNoMore \/ PlanWaveEnds \/ RunPlan \/ DependsOnUnknown \/
             DoWaveEnds
      PROVE  FlagType'
  <2>1. signed' = signed /\ pending' = pending /\ mixed' = mixed /\ budget' = budget /\ hitl' = hitl
    BY <1>8 DEF Iterate, IterateNoMore, PlanWaveEnds, RunPlan, DependsOnUnknown, DoWaveEnds,
       BeginWave, ForgetWorkers, contract, Leave, wave, WaveEnds, Retry
  <2> QED
    BY <1>2, <2>1, Actions, Zenon DEF FlagType
<1>9. ASSUME StartChecker \/ CheckWaveEnds \/ Synthesize \/ SynthWaveEnds \/ FinishMission
      PROVE  FlagType'
  <2>1. signed' = signed /\ pending' = pending /\ mixed' = mixed /\ budget' = budget /\ hitl' = hitl
    BY <1>9 DEF StartChecker, CheckWaveEnds, Synthesize, SynthWaveEnds, FinishMission,
       BeginWave, ForgetWorkers, contract, WaveEnds, Retry, Leave, wave
  <2> QED
    BY <1>2, <2>1, Actions, Zenon DEF FlagType
<1>10. ASSUME (\E n \in Author : Spawn(n)) \/ (\E n \in Author : RegisterWorker(n)) \/
             (\E n \in Author : SpawnFails(n)) \/ (\E n \in Author : Expire(n))
      PROVE  FlagType'
  <2>1. signed' = signed /\ pending' = pending /\ mixed' = mixed /\ budget' = budget /\ hitl' = hitl
    BY <1>10 DEF Spawn, RegisterWorker, SpawnFails, Expire, driver, contract
  <2> QED
    BY <1>2, <2>1, Actions, Zenon DEF FlagType
<1>11. ASSUME (\E s \in DOMAIN kid : StageAndEmit(s)) \/
             (\E s \in DOMAIN kid : UserCancels(s)) \/ (\E s \in DOMAIN kid : Close(s)) \/
             (\E s \in DOMAIN kid : DropFrame(s))
      PROVE  FlagType'
  <2>1. signed' = signed /\ pending' = pending /\ mixed' = mixed /\ budget' = budget /\ hitl' = hitl
    BY <1>11 DEF StageAndEmit, UserCancels, Close, DropFrame, driver, wave, contract
  <2> QED
    BY <1>2, <2>1, Actions, Zenon DEF FlagType
<1> QED
  BY Actions, KidActions, <1>3, <1>7, <1>8, <1>9, <1>10, <1>11

LEMMA RowsTypeStep ==
  ASSUME IInv, Races = {}, Next
  PROVE  RowsType'
<1>1. IInv /\ Typed /\ Core /\ MaxWaves \in Nat /\ MaxErrors \in Nat /\ MaxErrors > 0
  BY TypedFacts, BoundsAssumption DEF IInv
<1>2. DriverType /\ WaveType /\ StoreType /\ KidType /\ SubType /\ FlagType /\ RowsType
  BY <1>1, TypeParts DEF IInv
<1>3. ASSUME NEW s \in DOMAIN kid, Handles(s)
      PROVE  RowsType'
  <2>1. NoDiff \in Diff
    BY DEF NoDiff, Diff
  <2>2. ASSUME NEW w \in Planned(s), NEW d \in ValidDiff, Validate(s, w, d)
        PROVE  RowsType'
    <3>1. d \in Diff
      BY <1>2 DEF ValidDiff, Diff, NoDiff, RowsType
    <3>2. Apply(rows, d) \in Seq(Status)
      BY <1>2, <3>1, ApplyType DEF RowsType
    <3> QED
      BY <1>2, <2>2, <3>1, <3>2 DEF RowsType, Validate, StagePlannerDiff
  <2>3. CASE CommitStagedDiff(s)
    BY <1>2, <2>1, <2>3, ApplyType DEF RowsType, CommitStagedDiff
  <2>4. CASE Discard(s)
    BY <1>2, <2>1, <2>4 DEF RowsType, Discard, DiscardStagedDiff
  <2>5. CASE \/ Call(s) \/ Refuse(s) \/ MarkHITLWaiting(s) \/ RenderFails(s) \/ ModalCloses(s)
             \/ MarkPlanApproved(s)
    BY <1>2, <2>5 DEF RowsType, Call, Refuse, MarkHITLWaiting, RenderFails, ModalCloses,
                      MarkPlanApproved, contract
  <2> QED
    BY <1>3, <2>2, <2>3, <2>4, <2>5 DEF Handles
<1>7. CASE CheckWaveEnds
  <2>1. \A q \in Checked : q \in Seq(Status)
    <3> TAKE q \in Checked
    <3>1. CASE q = rows
      BY <1>2, <3>1 DEF RowsType
    <3>2. ASSUME NEW x \in {"satisfied", "unsatisfied"}, NEW i \in DOMAIN rows,
                 q = Apply(rows, [op |-> x, row |-> i])
          PROVE  q \in Seq(Status)
      <4>1. [op |-> x, row |-> i] \in Diff
        BY <1>2 DEF RowsType, Diff
      <4> QED
        BY <1>2, <3>2, <4>1, ApplyType DEF RowsType
    <3>3. q = rows \/ \E x \in {"satisfied", "unsatisfied"}, i \in DOMAIN rows :
                        q = Apply(rows, [op |-> x, row |-> i])
      BY DEF Checked
    <3> QED
      BY <3>1, <3>2, <3>3
  <2> QED
    BY <1>2, <1>7, <2>1 DEF RowsType, CheckWaveEnds
<1>8. ASSUME NEW s \in DOMAIN kid, NEW r \in Reports, Record(s, r)
      PROVE  RowsType'
  <2>1. rows' \in {rows} \cup {Claim(rows, i) : i \in DOMAIN rows} /\ staged' = staged
    BY <1>8 DEF Record
  <2> QED
    BY <1>2, <2>1, ClaimType DEF RowsType
<1>9. ASSUME Iterate \/ IterateNoMore \/ PlanWaveEnds \/ RunPlan \/ DependsOnUnknown \/
             DoWaveEnds
      PROVE  RowsType'
  <2>1. rows' = rows /\ staged' = staged
    BY <1>9 DEF Iterate, IterateNoMore, PlanWaveEnds, RunPlan, DependsOnUnknown, DoWaveEnds,
       BeginWave, ForgetWorkers, contract, Leave, wave, WaveEnds, Retry
  <2> QED
    BY <1>2, <2>1 DEF RowsType
<1>10. ASSUME StartChecker \/ Synthesize \/ SynthWaveEnds \/ FinishMission
      PROVE  RowsType'
  <2>1. rows' = rows /\ staged' = staged
    BY <1>10 DEF StartChecker, Synthesize, SynthWaveEnds, FinishMission, BeginWave,
       ForgetWorkers, contract, WaveEnds, wave
  <2> QED
    BY <1>2, <2>1 DEF RowsType
<1>11. ASSUME (\E n \in Author : Spawn(n)) \/ (\E n \in Author : RegisterWorker(n)) \/
             (\E n \in Author : SpawnFails(n)) \/ (\E n \in Author : Expire(n))
      PROVE  RowsType'
  <2>1. rows' = rows /\ staged' = staged
    BY <1>11 DEF Spawn, RegisterWorker, SpawnFails, Expire, driver, contract
  <2> QED
    BY <1>2, <2>1 DEF RowsType
<1>12. ASSUME (\E s \in DOMAIN kid : StageAndEmit(s)) \/
             (\E s \in DOMAIN kid : UserCancels(s)) \/ (\E s \in DOMAIN kid : Close(s)) \/
             (\E s \in DOMAIN kid : DropFrame(s))
      PROVE  RowsType'
  <2>1. rows' = rows /\ staged' = staged
    BY <1>12 DEF StageAndEmit, UserCancels, Close, DropFrame, driver, wave, contract
  <2> QED
    BY <1>2, <2>1 DEF RowsType
<1> QED
  BY Actions, KidActions, <1>3, <1>7, <1>8, <1>9, <1>10, <1>11, <1>12

-----------------------------------------------------------------------------
(* The invariant holds in every state.                                     *)

LEMMA CoreStep ==
  ASSUME IInv, Races = {}, Next
  PROVE  Core'
<1>1. CASE \/ Iterate \/ IterateNoMore \/ PlanWaveEnds \/ RunPlan \/ DependsOnUnknown
           \/ DoWaveEnds \/ StartChecker \/ CheckWaveEnds \/ Synthesize \/ SynthWaveEnds
           \/ FinishMission
  BY <1>1, IterateStep, IterateNoMoreStep, PlanWaveEndsStep, RunPlanStep, DependsOnUnknownStep,
     DoWaveEndsStep, StartCheckerStep, CheckWaveEndsStep, SynthesizeStep, SynthWaveEndsStep,
     FinishMissionStep
<1>2. ASSUME NEW n \in Author, Spawn(n) \/ RegisterWorker(n) \/ SpawnFails(n) \/ Expire(n)
      PROVE  Core'
  BY <1>2, SpawnStep, RegisterWorkerStep, SpawnFailsStep, ExpireStep
<1>3. ASSUME NEW s \in DOMAIN kid, Kid(s)
      PROVE  Core'
  BY <1>3, KidActions, HandlesStep, StageAndEmitStep, UserCancelsStep, CloseStep, DropFrameStep,
     RecordStep
<1> QED
  BY <1>1, <1>2, <1>3, Actions

LEMMA IInvStep ==
  ASSUME IInv, Races = {}, [Next]_vars
  PROVE  IInv'
<1>1. (TypeOK <=> /\ DriverType /\ WaveType /\ StoreType /\ KidType
                  /\ SubType /\ FlagType /\ RowsType)'
  BY TypeParts, PTL
<1>2. CASE Next
  <2>1. DriverType' /\ WaveType' /\ StoreType' /\ KidType' /\ SubType' /\ FlagType' /\ RowsType'
    BY <1>2, DriverTypeStep, WaveTypeStep, StoreTypeStep, KidTypeStep, SubTypeStep, FlagTypeStep,
       RowsTypeStep
  <2>2. Core'
    BY <1>2, CoreStep
  <2> QED
    BY <1>1, <2>1, <2>2 DEF IInv
<1>3. CASE UNCHANGED vars
  <2>1. DriverType' /\ WaveType' /\ StoreType' /\ KidType'
    BY <1>3, TypeParts DEF vars, IInv, DriverType, WaveType, StoreType, KidType
  <2>2. SubType' /\ FlagType' /\ RowsType'
    BY <1>3, TypeParts DEF vars, IInv, SubType, FlagType, RowsType
  <2>3. DriverInv' /\ WaveInv'
    BY <1>3 DEF vars, IInv, Core, DriverInv, WaveInv, Sid, OfWave
  <2>4. StoreInv' /\ KidInv'
    BY <1>3 DEF vars, IInv, Core, StoreInv, Spent, KidInv
  <2>5. RunInv' /\ SubInv' /\ SlotInv'
    BY <1>3 DEF vars, contract, IInv, Core, RunInv, OfWave, SubInv, SlotInv, AtDiff
  <2> QED
    BY <1>1, <2>1, <2>2, <2>3, <2>4, <2>5 DEF IInv, Core
<1> QED
  BY <1>2, <1>3

LEMMA Invariance ==
  ASSUME Races = {}
  PROVE  Spec => []IInv
<1>1. Init => IInv
  BY InitIInv
<1>2. IInv /\ [Next]_vars => IInv'
  BY IInvStep
<1> QED
  BY <1>1, <1>2, PTL DEF Spec

\* The state of a mission is well typed: in particular the errors in a row and the iterations
\* stay below their caps (runPlannerLoop), and a label is one that buildPlanWave makes.
THEOREM TypeCorrect ==
  ASSUME Races = {}
  PROVE  Spec => []TypeOK
<1>1. IInv => TypeOK
  BY DEF IInv
<1> QED
  BY <1>1, Invariance, PTL

\* What the log of a mission says of a worker is the worker's own (OutcomeIsOwn), however many
\* planners, checkers and workers were cancelled and answer late: the key of the store
\* (Handoffs) has no session in it, and no iteration.
THEOREM OutcomesAreOwn ==
  ASSUME Races = {}
  PROVE  Spec => []OutcomeIsOwn
<1>1. ASSUME IInv PROVE OutcomeIsOwn
  <2> SUFFICES ASSUME NEW o \in Outcomes PROVE o.by \in {o.for, Nobody}
    BY DEF OutcomeIsOwn
  <2>1. PICK n \in spawned :
          o = [for |-> Sid(n), by |-> IF Ref(n) \in DOMAIN store THEN store[Ref(n)].by ELSE Nobody,
               ok |-> Ref(n) \in DOMAIN store /\ store[Ref(n)].ok]
    BY Zenon DEF Outcomes
  <2>2. /\ o.for = Sid(n)
        /\ o.by = IF Ref(n) \in DOMAIN store THEN store[Ref(n)].by ELSE Nobody
    BY <2>1, Zenon
  <2>3. Ref(n) \in DOMAIN store => store[Ref(n)].by = Sid(n)
    BY <1>1, Names DEF IInv, Core, WaveInv
  <2> QED
    BY <2>2, <2>3
<1> QED
  BY <1>1, Invariance, PTL

\* Nobody works on unwatched (NoneUnwatched): RunWave leaves no session running that it was not
\* awaiting, nor one that is out of time.
THEOREM EveryoneIsWatched ==
  ASSUME Races = {}
  PROVE  Spec => []NoneUnwatched
<1>1. ASSUME IInv PROVE NoneUnwatched
  <2> SUFFICES ASSUME NEW s \in DOMAIN kid, kid[s].state = "runs"
               PROVE  label = kid[s].label /\ s \in {Sid(n) : n \in spawned}
    BY DEF NoneUnwatched
  <2>1. Typed
    BY <1>1, TypedFacts DEF IInv
  <2>2. label = kid[s].label /\ OfWave(s)
    BY <1>1 DEF IInv, Core, RunInv
  <2>3. s = Sid(s[1]) /\ s[1] \in spawned
    BY <2>1, <2>2 DEF Typed, OfWave, Sid
  <2> QED
    BY <2>2, <2>3
<1> QED
  BY <1>1, Invariance, PTL

-----------------------------------------------------------------------------
(* The acceptance criteria.                                                *)

\* No criterion comes, and none is dropped.
Kept(q) ==
  Len(q) = Len(rows) /\ \A i \in DOMAIN rows : q[i] = "dropped" => rows[i] = "dropped"

LEMMA ApplyKeeps ==
  ASSUME rows \in Seq(Status), NEW d, d.op \in {"none", "satisfied", "unsatisfied"}
  PROVE  Kept(Apply(rows, d))
<1>1. CASE d.op = "none"
  BY <1>1 DEF Apply, Kept
<1>2. CASE d.op # "none"
  <2>1. Apply(rows, d) = [rows EXCEPT ![d.row] = d.op] /\ d.op # "dropped"
    BY <1>2 DEF Apply
  <2>2. CASE d.row \in 1 .. Len(rows)
    <3>1. d.op \in Status
      BY <1>2 DEF Status
    <3> QED
      BY <2>1, <2>2, <3>1, ExceptSeq DEF Kept
  <2>3. CASE d.row \notin 1 .. Len(rows)
    <3>1. rows \in [1 .. Len(rows) -> Status]
      OBVIOUS
    <3>2. Apply(rows, d) = rows
      BY <2>1, <2>3, <3>1, Zenon
    <3> QED
      BY <3>2 DEF Kept
  <2> QED
    BY <2>2, <2>3
<1> QED
  BY <1>1, <1>2

LEMMA ClaimKeeps ==
  ASSUME rows \in Seq(Status), NEW i \in DOMAIN rows
  PROVE  Kept(Claim(rows, i))
BY DEF Claim, Kept, Status

LEMMA RowsKept ==
  ASSUME rows \in Seq(Status), rows' = rows
  PROVE  Kept(rows')
BY DEF Kept

\* Who adds or drops a criterion.
LEMMA ContractStep ==
  ASSUME IInv, Races = {}, Next
  PROVE  Kept(rows') \/ \E x \in Session : Commits(x)
<1>1. IInv /\ Typed /\ Core /\ MaxWaves \in Nat /\ MaxErrors \in Nat /\ MaxErrors > 0
  BY TypedFacts, BoundsAssumption DEF IInv
<1>2. DriverType /\ WaveType /\ StoreType /\ KidType /\ SubType /\ FlagType /\ RowsType
  BY <1>1, TypeParts DEF IInv
<1>3. ASSUME NEW s \in DOMAIN kid, Handles(s)
      PROVE  Kept(rows') \/ \E x \in Session : Commits(x)
  <2>1. CASE rows' = rows
    BY <1>2, <2>1, RowsKept DEF RowsType
  <2>2. ASSUME NEW w \in Planned(s), NEW d \in ValidDiff, Validate(s, w, d), rows' # rows
        PROVE  Kept(rows')
    <3>1. rows' = Apply(rows, d) /\ (w = 0 \/ ~WantModal(d)) /\ (w = 0 => d = NoDiff)
      BY <2>2 DEF Validate, StagePlannerDiff
    <3>2. d.op \in {"none", "satisfied", "unsatisfied"}
      BY <3>1 DEF WantModal, ContractChange, ValidDiff, NoDiff
    <3> QED
      BY <1>2, <3>1, <3>2, ApplyKeeps DEF RowsType
  <2>3. CASE CommitStagedDiff(s)
    <3>1. s \in Session /\ kid[s] \in KidRecord
      BY <1>2 DEF KidType
    <3>2. s \in DOMAIN kid' /\ kid[s].step = "commit" /\ kid'[s].step = "approve"
      BY <2>3, <3>1 DEF CommitStagedDiff, KidRecord
    <3> QED
      BY <3>1, <3>2 DEF Commits
  <2>4. CASE \/ Call(s) \/ Refuse(s) \/ MarkHITLWaiting(s) \/ RenderFails(s) \/ ModalCloses(s)
             \/ MarkPlanApproved(s) \/ Discard(s)
    BY <2>1, <2>4 DEF Call, Refuse, MarkHITLWaiting, RenderFails, ModalCloses, MarkPlanApproved,
                      Discard, contract
  <2> QED
    BY <1>3, <2>1, <2>2, <2>3, <2>4 DEF Handles
<1>5. CASE CheckWaveEnds
  <2>1. \A q \in Checked : Kept(q)
    <3> TAKE q \in Checked
    <3>1. q = rows \/ \E x \in {"satisfied", "unsatisfied"}, i \in DOMAIN rows :
                        q = Apply(rows, [op |-> x, row |-> i])
      BY DEF Checked
    <3>2. Kept(rows)
      BY <1>2 DEF RowsType, Kept
    <3>3. \A x \in {"satisfied", "unsatisfied"}, i \in DOMAIN rows :
            Kept(Apply(rows, [op |-> x, row |-> i]))
      BY <1>2, ApplyKeeps DEF RowsType
    <3> QED
      BY <3>1, <3>2, <3>3
  <2>2. rows' = rows \/ rows' \in Checked
    BY <1>5 DEF CheckWaveEnds
  <2> QED
    BY <1>2, <2>1, <2>2, RowsKept DEF RowsType
<1>6. ASSUME NEW s \in DOMAIN kid, NEW r \in Reports, Record(s, r)
      PROVE  Kept(rows') \/ \E x \in Session : Commits(x)
  <2>1. rows' \in {rows} \cup {Claim(rows, i) : i \in DOMAIN rows}
    BY <1>6 DEF Record
  <2> QED
    BY <1>2, <2>1, ClaimKeeps, RowsKept DEF RowsType
<1>7. ASSUME Iterate \/ IterateNoMore \/ PlanWaveEnds \/ RunPlan \/ DependsOnUnknown \/
             DoWaveEnds
      PROVE  Kept(rows') \/ \E x \in Session : Commits(x)
  <2>1. rows' = rows
    BY <1>7 DEF Iterate, IterateNoMore, PlanWaveEnds, RunPlan, DependsOnUnknown, DoWaveEnds,
       BeginWave, ForgetWorkers, contract, Leave, wave, WaveEnds, Retry
  <2> QED
    BY <1>2, <2>1, RowsKept DEF RowsType
<1>8. ASSUME StartChecker \/ Synthesize \/ SynthWaveEnds \/ FinishMission
      PROVE  Kept(rows') \/ \E x \in Session : Commits(x)
  <2>1. rows' = rows
    BY <1>8 DEF StartChecker, Synthesize, SynthWaveEnds, FinishMission, BeginWave,
       ForgetWorkers, contract, WaveEnds, wave
  <2> QED
    BY <1>2, <2>1, RowsKept DEF RowsType
<1>9. ASSUME (\E n \in Author : Spawn(n)) \/ (\E n \in Author : RegisterWorker(n)) \/
             (\E n \in Author : SpawnFails(n)) \/ (\E n \in Author : Expire(n))
      PROVE  Kept(rows') \/ \E x \in Session : Commits(x)
  <2>1. rows' = rows
    BY <1>9 DEF Spawn, RegisterWorker, SpawnFails, Expire, driver, contract
  <2> QED
    BY <1>2, <2>1, RowsKept DEF RowsType
<1>10. ASSUME (\E s \in DOMAIN kid : StageAndEmit(s)) \/
             (\E s \in DOMAIN kid : UserCancels(s)) \/ (\E s \in DOMAIN kid : Close(s)) \/
             (\E s \in DOMAIN kid : DropFrame(s))
      PROVE  Kept(rows') \/ \E x \in Session : Commits(x)
  <2>1. rows' = rows
    BY <1>10 DEF StageAndEmit, UserCancels, Close, DropFrame,
       driver, wave, contract
  <2> QED
    BY <1>2, <2>1, RowsKept DEF RowsType
<1> QED
  BY Actions, KidActions, <1>3, <1>5, <1>6, <1>7, <1>8, <1>9, <1>10

\* Who commits.
LEMMA CommitStep ==
  ASSUME IInv, Races = {}, Next, NEW s \in Session, Commits(s)
  PROVE  CommitStagedDiff(s)
<1>1. Typed /\ Core /\ KidType
  BY TypedFacts, TypeParts DEF IInv
<1>2. /\ s \in DOMAIN kid /\ s \in DOMAIN kid' /\ kid[s].step = "commit" /\ kid'[s].step # "commit"
      /\ kid'[s] # kid[s]
  BY DEF Commits
<1>3. kid[s] \in KidRecord
  BY <1>1, <1>2 DEF KidType
<1>4. CASE \/ Iterate \/ IterateNoMore \/ PlanWaveEnds \/ RunPlan \/ DependsOnUnknown
           \/ DoWaveEnds \/ StartChecker \/ CheckWaveEnds \/ Synthesize \/ SynthWaveEnds
           \/ FinishMission
  <2>1. kid' = kid
    BY <1>4 DEF Iterate, IterateNoMore, PlanWaveEnds, RunPlan, DependsOnUnknown, DoWaveEnds,
                StartChecker, CheckWaveEnds, Synthesize, SynthWaveEnds, FinishMission, WaveEnds
  <2> QED
    BY <1>2, <2>1
<1>5. ASSUME NEW n \in Author, Spawn(n) PROVE FALSE
  <2>1. kid'[s] = kid[s] \/ s = Sid(n)
    BY <1>2, <1>5 DEF Spawn
  <2>2. n \notin spawned /\ label # None /\ n \in todo
    BY <1>1, <1>5 DEF Spawn, Core, DriverInv
  <2>3. s # Sid(n)
    BY <1>1, <1>2, <2>2 DEF Core, KidInv, WaveInv, DriverInv, Sid, Planner
  <2> QED
    BY <1>2, <2>1, <2>3
<1>6. ASSUME NEW n \in Author, RegisterWorker(n) \/ SpawnFails(n) PROVE FALSE
  BY <1>2, <1>6 DEF RegisterWorker, SpawnFails
<1>7. ASSUME NEW n \in Author, Expire(n) PROVE FALSE
  <2>1. kid'[s] = IF s = Sid(n) THEN Cancelled(kid[s]) ELSE kid[s]
    BY <1>2, <1>7 DEF Expire
  <2>2. Cancelled(kid[s]).step = kid[s].step
    BY <1>3 DEF Cancelled, KidRecord
  <2> QED
    BY <1>2, <2>1, <2>2
<1>8. ASSUME NEW t \in DOMAIN kid, Kid(t), ~CommitStagedDiff(s) PROVE FALSE
  <2>1. CASE Handles(t)
    <3>1. t = s
      BY <1>2, <2>1, Moving DEF Moves
    <3> QED
      BY <1>2, <1>8, <2>1, <3>1 DEF Handles, Call, Refuse, Validate, MarkHITLWaiting,
         RenderFails, ModalCloses, MarkPlanApproved, Discard
  <2>2. CASE StageAndEmit(t) \/ Close(t)
    <3>1. t # s
      BY <1>2, <2>2 DEF StageAndEmit, Close
    <3>2. kid'[s] = kid[s]
      BY <1>2, <2>2, <3>1 DEF StageAndEmit, Close
    <3> QED
      BY <1>2, <3>2
  <2>3. CASE UserCancels(t)
    <3>1. kid' = [kid EXCEPT ![t].state = "cancelled"]
      BY <2>3 DEF UserCancels
    <3> QED
      BY <1>2, <1>3, <3>1 DEF KidRecord
  <2>4. CASE DropFrame(t) \/ \E r \in Reports : Record(t, r)
    <3>1. kid' = Restrict(kid, DOMAIN kid \ {t})
      BY <2>4 DEF DropFrame, Record
    <3>2. kid'[s] = kid[s]
      BY <1>2, <3>1 DEF Restrict
    <3> QED
      BY <1>2, <3>2
  <2> QED
    BY <1>8, <2>1, <2>2, <2>3, <2>4, KidActions
<1> QED
  BY <1>4, <1>5, <1>6, <1>7, <1>8, Actions

\* The user signs what the modal shows (ContractSigned): callValidateAndApprove, CommitStagedDiff
\* and the staged diff, which MissionState keeps for all planners alike.  A planner that shares
\* the slot with another one is excused (mixed); SlotInv says that nobody else is.
THEOREM TheUserSigns ==
  ASSUME Races = {}
  PROVE  Spec => ContractSigned
<1>1. ASSUME IInv, Next, NEW s \in Session \ mixed, Commits(s)
      PROVE  rows' = Apply(rows, kid[s].diff)
  <2>1. CommitStagedDiff(s)
    BY <1>1, CommitStep
  <2>2. kid[s].diff = staged
    BY <1>1 DEF Commits, IInv, Core, SlotInv, AtDiff
  <2> QED
    BY <2>1, <2>2 DEF CommitStagedDiff
<1>2. IInv /\ [Next]_vars => [SignedStep]_vars
  BY <1>1, ContractStep DEF SignedStep, Kept
<1> QED
  BY <1>2, Invariance, PTL DEF Spec, ContractSigned

=============================================================================
