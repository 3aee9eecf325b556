--------------------------- MODULE RunEngineProofs ---------------------------
(***************************************************************************)
(* What holds of RunEngine for every plan and every number of resumes:     *)
(* first however the walks of the run overlap, then of a run nobody was    *)
(* asked about, which has one walk, and last of a run whose steps go on    *)
(* one at a time, which has one walk at a time.                            *)
(***************************************************************************)
EXTENDS RunEngine, FiniteSetTheorems, TLAPS

(* A step of a walk is one of the actions of executePlan and its callers.   *)
(* Stated once, so that each invariant has one case per action.             *)
LEMMA Cases ==
  ASSUME NEW P, [Next]_vars,
         \A w \in Walks : Create(w) => P,
         \A w \in Walks : Resume(w) => P,
         \A w \in Walks : Start(w) => P,
         \A w \in Walks : PlanFails(w) => P,
         \A w \in Walks : PlanSuspends(w) => P,
         \A w \in Walks : Planned(w) => P,
         \A w \in Walks : SkipStage(w) => P,
         \A w \in Walks : OpenPool(w) => P,
         \A w \in Walks : Claim(w) => P,
         \A w \in Walks, s \in Steps : Succeed(w, s) => P,
         \A w \in Walks, s \in Steps : Stop(w, s) => P,
         \A w \in Walks, s \in Steps : Fail(w, s) => P,
         \A w \in Walks, s \in Steps : Degrade(w, s) => P,
         \A w \in Walks, s \in Steps : Ask(w, s) => P,
         \A w \in Walks, s \in Steps : Park(w, s) => P,
         \A w \in Walks, s \in Steps : Echo(w, s) => P,
         \A w \in Walks : StageEnds(w) => P,
         \A w \in Walks : StageFails(w) => P,
         \A w \in Walks : EndOfPlan(w) => P,
         \A w \in Walks : Settle(w) => P,
         \A w \in Walks : Cancel(w) => P,
         \A w \in Walks : Expire(w) => P,
         \A s \in Steps : Decide(s) => P,
         Abandon => P, Crash => P, Restart => P,
         UNCHANGED vars => P
  PROVE  P
BY DEF Next, Advance, StepEnds

(* Types are preserved: the first half of every invariant below. *)
LEMMA TypeStep == TypeOK /\ [Next]_vars => TypeOK'
<1> SUFFICES ASSUME TypeOK, [Next]_vars PROVE TypeOK'
  OBVIOUS
<1> USE DEF TypeOK, Phase, Slot, Done, Thrown, Verdict, RunStatus, Terminal, StepStatus,
            Walks, Nobody, rows, walk, host, Signalled
<1>1. \A w \in Walks : Create(w) => TypeOK'  BY DEF Create
<1>2. \A w \in Walks : Resume(w) => TypeOK'  BY DEF Resume, Restored
<1>3. \A w \in Walks : Start(w) => TypeOK'  BY DEF Start
<1>4. \A w \in Walks : PlanFails(w) => TypeOK'  BY DEF PlanFails
<1>5. \A w \in Walks : PlanSuspends(w) => TypeOK'  BY DEF PlanSuspends
<1>6. \A w \in Walks : Planned(w) => TypeOK'  BY DEF Planned
<1>7. \A w \in Walks : SkipStage(w) => TypeOK'  BY DEF SkipStage, Skipping
<1>8. \A w \in Walks : OpenPool(w) => TypeOK'  BY DEF OpenPool
<1>9. \A w \in Walks : Claim(w) => TypeOK'
  <2> SUFFICES ASSUME NEW w \in Walks, Claim(w) PROVE TypeOK'
    OBVIOUS
  <2> DEFINE s == First(Waiting(w))
  <2>1. /\ step' = [step EXCEPT ![s] = "running"]
        /\ slot' = [slot EXCEPT ![w][s] = "running"]
        /\ UNCHANGED <<run, approval, answer, phase, stage, why, cancelled, expired, verdict, host>>
    BY DEF Claim
  <2> HIDE DEF s
  <2>2. QED BY <2>1
<1>10. \A w \in Walks, s \in Steps : Succeed(w, s) => TypeOK'  BY DEF Succeed
<1>11. \A w \in Walks, s \in Steps : Stop(w, s) => TypeOK'  BY DEF Stop
<1>12. \A w \in Walks, s \in Steps : Fail(w, s) => TypeOK'  BY DEF Fail
<1>13. \A w \in Walks, s \in Steps : Degrade(w, s) => TypeOK'  BY DEF Degrade
<1>14. \A w \in Walks, s \in Steps : Ask(w, s) => TypeOK'  BY DEF Ask, Opened
<1>15. \A w \in Walks, s \in Steps : Park(w, s) => TypeOK'  BY DEF Park, CatchSuspension
<1>16. \A w \in Walks, s \in Steps : Echo(w, s) => TypeOK'  BY DEF Echo, CatchSuspension
<1>17. \A w \in Walks : StageEnds(w) => TypeOK'  BY DEF StageEnds, Skipping
<1>18. \A w \in Walks : StageFails(w) => TypeOK'  BY DEF StageFails, Skipping, Classify
<1>19. \A w \in Walks : EndOfPlan(w) => TypeOK'  BY DEF EndOfPlan, FinalVerdicts
<1>20. \A w \in Walks : Settle(w) => TypeOK'  BY DEF Settle, EndStatus, CanTransition
<1>21. \A w \in Walks : Cancel(w) => TypeOK'  BY DEF Cancel
<1>22. \A w \in Walks : Expire(w) => TypeOK'  BY DEF Expire
<1>23. \A s \in Steps : Decide(s) => TypeOK'  BY DEF Decide
<1>24. Abandon => TypeOK'  BY DEF Abandon
<1>25. Crash => TypeOK'
  <2> SUFFICES ASSUME Crash PROVE TypeOK'
    OBVIOUS
  <2>1. phase' \in [Walks -> Phase]
    BY DEF Crash
  <2>2. up' \in BOOLEAN /\ active' \in Walks \cup {Nobody}
    BY DEF Crash
  <2>3. QED BY <2>1, <2>2 DEF Crash
<1>26. Restart => TypeOK'  BY DEF Restart, AfterCrash
<1>27. UNCHANGED vars => TypeOK'  BY DEF vars
<1>28. QED
  BY <1>1, <1>2, <1>3, <1>4, <1>5, <1>6, <1>7, <1>8, <1>9, <1>10, <1>11, <1>12, <1>13,
     <1>14, <1>15, <1>16, <1>17, <1>18, <1>19, <1>20, <1>21, <1>22, <1>23, <1>24, <1>25,
     <1>26, <1>27, Cases

(* A system in which nothing was started has its types. *)
LEMMA InitTypeOK == Init => TypeOK
<1> SUFFICES ASSUME Init PROVE TypeOK
  OBVIOUS
<1>1. /\ run \in RunStatus
      /\ step \in [Steps -> StepStatus]
      /\ approval \in [Steps -> {"none", "pending", "granted", "denied"}]
      /\ answer \in [Steps -> {"none"} \cup Done]
  BY DEF Init, RunStatus, StepStatus, Done
<1>2. /\ phase \in [Walks -> Phase]
      /\ stage \in [Walks -> Nat]
      /\ slot \in [Walks -> [Steps -> Slot]]
      /\ why \in [Walks -> {"none", "cancel", "deadline", "suspension", "failure"}]
      /\ verdict \in [Walks -> Verdict]
  BY DEF Init, Phase, Slot, Verdict
<1>3. /\ cancelled \in [Walks -> BOOLEAN]
      /\ expired \in [Walks -> BOOLEAN]
      /\ up \in BOOLEAN
      /\ active \in Walks \cup {Nobody}
      /\ acked \in BOOLEAN
  BY DEF Init
<1>4. QED BY <1>1, <1>2, <1>3 DEF TypeOK

(* Every variable of the engine keeps its type, whatever the plan. *)
THEOREM TypeCorrect == Spec => []TypeOK
<1>1. QED BY InitTypeOK, TypeStep, PTL DEF Spec

-----------------------------------------------------------------------------
(* First picks a step of the set it is given: the steps of a plan are       *)
(* finitely many and stand in an order, so every set of them has a first.   *)
LEMMA FirstIsOne ==
  ASSUME NEW S, S \subseteq Steps, S # {}
  PROVE  First(S) \in S
<1> DEFINE Before(s) == {t \in Steps : Ordinal[t] < Ordinal[s]}
           F == {Before(s) : s \in S}
<1>1. F \subseteq FiniteSubsetsOf(Steps) /\ F # {}
  <2>1. FiniteSubsetsOf(Steps) = SUBSET Steps
    BY StepsAreStaged, FS_FiniteSubsetsOfFinite, Zenon
  <2>2. F \subseteq SUBSET Steps /\ F # {}
    OBVIOUS
  <2>3. QED BY <2>1, <2>2, Zenon
<1>2. PICK B \in F : \A C \in F : ~ (<<C, B>> \in StrictSubsetOrdering(Steps))
  <2> HIDE DEF F
  <2>1. QED BY <1>1, FS_StrictSubsetOrderingWellFounded, WFMin, Zenon
<1>3. PICK s \in S : B = Before(s)
  BY <1>2
<1>4. \A t \in S : Ordinal[s] <= Ordinal[t]
  <2> SUFFICES ASSUME NEW t \in S, Ordinal[t] < Ordinal[s] PROVE FALSE
    BY StepsAreStaged
  <2>1. Before(t) \subseteq Before(s)
    BY StepsAreStaged
  <2>2. t \in Before(s) /\ t \notin Before(t)
    BY StepsAreStaged
  <2>3. <<Before(t), Before(s)>> \in StrictSubsetOrdering(Steps)
    BY <2>1, <2>2 DEF StrictSubsetOrdering
  <2>4. QED BY <2>3, <1>2, <1>3
<1>5. QED BY <1>4 DEF First

-----------------------------------------------------------------------------
(* What is true of one walk at each place of executePlan: steps are in      *)
(* flight only in the pool; nothing was rejected, and no step has fired the *)
(* signal, before the pool that collects the rejections is open; and the    *)
(* reason the signal carries is the source that fired it.                   *)
BeforePool == {"unused", "created", "planning", "stages"}

StepsFire == {"suspension", "failure"}

WalkShape ==
  /\ \A w \in Walks, s \in Steps :
       slot[w][s] \in {"running", "asking"} => phase[w] \in {"pool", "ended"}
  /\ \A w \in Walks, s \in Steps :
       phase[w] \in BeforePool => slot[w][s] \notin Thrown
  /\ \A w \in Walks : phase[w] \in BeforePool => why[w] \notin StepsFire
  /\ \A w \in Walks :
       phase[w] = "pool" /\ why[w] \in StepsFire => \E s \in Steps : slot[w][s] \in Thrown
  /\ \A w \in Walks : why[w] = "cancel" => cancelled[w]
  /\ \A w \in Walks : why[w] = "deadline" => expired[w]

(* A walk nobody stopped has every step of the stages behind it done; one   *)
(* about to commit has them all, unless its deadline fired; and so has the  *)
(* answer that was committed.                                               *)
GapInv ==
  /\ \A w \in Walks, s \in Steps :
       phase[w] \in {"stages", "pool"} /\ ~Aborted(w) /\ StageOf[s] < stage[w]
         => slot[w][s] \in Done
  /\ \A w \in Walks, s \in Steps :
       phase[w] = "closing" /\ verdict[w] = "succeeded" /\ ~expired[w]
         => slot[w][s] \in Done
  /\ OnlyTheDeadlineLeavesGaps

(* A walk that will take a running run somewhere else when it ends: it holds *)
(* no suspension of its own, so it cannot end as parked.                    *)
Driver(w) ==
  /\ Live(w)
  /\ \A s \in Steps : slot[w][s] # "threwSuspension"
  /\ phase[w] = "closing" => verdict[w] \in {"cancelled", "failed", "succeeded"}

DriverInv ==
  /\ up /\ run = "queued" => phase[1] = "created"
  /\ up /\ run = "running" => \E w \in Walks : Driver(w)

(* A claimed step waits, in the stage whose pool is open. *)
LEMMA ClaimedWaits ==
  ASSUME NEW w \in Walks, CanClaim(w)
  PROVE  /\ phase[w] = "pool" /\ ~Aborted(w)
         /\ First(Waiting(w)) \in Steps
         /\ StageOf[First(Waiting(w))] = stage[w]
         /\ slot[w][First(Waiting(w))] = "waiting"
<1>1. Waiting(w) \subseteq Steps /\ Waiting(w) # {} /\ phase[w] = "pool" /\ ~Aborted(w)
  BY DEF CanClaim, Waiting
<1>2. First(Waiting(w)) \in Waiting(w)
  BY <1>1, FirstIsOne
<1>3. QED BY <1>1, <1>2 DEF Waiting

(* What is left of a walk one of whose steps caught a suspension. *)
LEMMA CaughtInThePool ==
  ASSUME TypeOK, WalkShape, NEW w \in Walks, NEW s \in Steps,
         Live(w), slot[w][s] \in {"running", "asking"}, CatchSuspension(w, s)
  PROVE  /\ phase[w] = "pool"
         /\ slot'[w][s] \in Thrown
         /\ \A v \in Walks, t \in Steps : v # w \/ t # s => slot'[v][t] = slot[v][t]
         /\ slot'[w][s] = "threwSuspension" => run' = "suspended"
         /\ \A v \in Walks : why'[v] = why[v] \/ (v = w /\ why'[v] = "suspension")
<1>1. phase[w] = "pool"
  BY DEF Live, WalkShape
<1>2. CASE CanTransition(run, "suspended")
  <2>1. /\ slot' = [slot EXCEPT ![w][s] = "threwSuspension"]
        /\ why' = Signalled(w, "suspension")
        /\ run' = "suspended"
    BY <1>2 DEF CatchSuspension
  <2>2. /\ slot'[w][s] = "threwSuspension"
        /\ \A v \in Walks, t \in Steps : v # w \/ t # s => slot'[v][t] = slot[v][t]
    BY <2>1 DEF TypeOK
  <2>3. \A v \in Walks : why'[v] = why[v] \/ (v = w /\ why'[v] = "suspension")
    BY <2>1 DEF TypeOK, Signalled, Aborted
  <2>4. QED BY <1>1, <2>1, <2>2, <2>3 DEF Thrown
<1>3. CASE ~CanTransition(run, "suspended")
  <2>1. slot' = [slot EXCEPT ![w][s] = "threwError"] /\ why' = why
    BY <1>3 DEF CatchSuspension
  <2>2. /\ slot'[w][s] = "threwError"
        /\ \A v \in Walks, t \in Steps : v # w \/ t # s => slot'[v][t] = slot[v][t]
    BY <2>1 DEF TypeOK
  <2>3. QED BY <1>1, <2>1, <2>2 DEF Thrown
<1>4. QED BY <1>2, <1>3

(* Every step keeps the shape of every walk. *)
LEMMA WalkShapeStep == TypeOK /\ WalkShape /\ [Next]_vars => WalkShape'
<1> SUFFICES ASSUME TypeOK, WalkShape, [Next]_vars PROVE WalkShape'
  OBVIOUS
<1> USE DEF WalkShape, BeforePool, StepsFire, Thrown, Done, Slot, Phase, Signalled, Aborted,
            Walks, rows, walk, host, TypeOK
<1>1. \A w \in Walks : Create(w) => WalkShape'  BY DEF Create
<1>2. \A w \in Walks : Resume(w) => WalkShape'  BY DEF Resume, Restored
<1>3. \A w \in Walks : Start(w) => WalkShape'  BY DEF Start
<1>4. \A w \in Walks : PlanFails(w) => WalkShape'  BY DEF PlanFails
<1>5. \A w \in Walks : PlanSuspends(w) => WalkShape'  BY DEF PlanSuspends
<1>6. \A w \in Walks : Planned(w) => WalkShape'  BY DEF Planned
<1>7. \A w \in Walks : SkipStage(w) => WalkShape'  BY DEF SkipStage, Skipping
<1>8. \A w \in Walks : OpenPool(w) => WalkShape'  BY DEF OpenPool
<1>9. \A w \in Walks : Claim(w) => WalkShape'
  <2> SUFFICES ASSUME NEW w \in Walks, Claim(w) PROVE WalkShape'
    OBVIOUS
  <2> DEFINE s == First(Waiting(w))
  <2>1. s \in Steps /\ phase[w] = "pool" /\ ~Aborted(w) /\ slot[w][s] = "waiting"
    BY ClaimedWaits DEF Claim
  <2>2. /\ slot' = [slot EXCEPT ![w][s] = "running"]
        /\ UNCHANGED <<phase, why, cancelled, expired>>
    BY DEF Claim
  <2> HIDE DEF s
  <2>3. QED BY <2>1, <2>2
<1>10. \A w \in Walks, s \in Steps : Succeed(w, s) => WalkShape'  BY DEF Succeed, Live
<1>11. \A w \in Walks, s \in Steps : Stop(w, s) => WalkShape'  BY DEF Stop, Live
<1>12. \A w \in Walks, s \in Steps : Fail(w, s) => WalkShape'  BY DEF Fail, Live
<1>13. \A w \in Walks, s \in Steps : Degrade(w, s) => WalkShape'  BY DEF Degrade, Live
<1>14. \A w \in Walks, s \in Steps : Ask(w, s) => WalkShape'  BY DEF Ask, Live
<1>15. \A w \in Walks, s \in Steps : Park(w, s) => WalkShape'
  <2> SUFFICES ASSUME NEW w \in Walks, NEW s \in Steps, Park(w, s) PROVE WalkShape'
    OBVIOUS
  <2>1. UNCHANGED <<phase, cancelled, expired>>
    BY DEF Park
  <2>2. /\ slot'[w][s] \in Thrown
        /\ \A v \in Walks, t \in Steps : v # w \/ t # s => slot'[v][t] = slot[v][t]
    BY CaughtInThePool DEF Park
  <2>3. /\ phase[w] = "pool"
        /\ \A v \in Walks : why'[v] = why[v] \/ (v = w /\ why'[v] = "suspension")
    BY CaughtInThePool DEF Park
  <2>4. QED BY <2>1, <2>2, <2>3
<1>16. \A w \in Walks, s \in Steps : Echo(w, s) => WalkShape'
  <2> SUFFICES ASSUME NEW w \in Walks, NEW s \in Steps, Echo(w, s) PROVE WalkShape'
    OBVIOUS
  <2>1. UNCHANGED <<phase, cancelled, expired>>
    BY DEF Echo
  <2>2. /\ slot'[w][s] \in Thrown
        /\ \A v \in Walks, t \in Steps : v # w \/ t # s => slot'[v][t] = slot[v][t]
    BY CaughtInThePool DEF Echo
  <2>3. /\ phase[w] = "pool"
        /\ \A v \in Walks : why'[v] = why[v] \/ (v = w /\ why'[v] = "suspension")
    BY CaughtInThePool DEF Echo
  <2>4. QED BY <2>1, <2>2, <2>3
<1>17. \A w \in Walks : StageEnds(w) => WalkShape'  BY DEF StageEnds, PoolDone, Rejected, InFlight, Skipping
<1>18. \A w \in Walks : StageFails(w) => WalkShape'  BY DEF StageFails, PoolDone, InFlight, Rejected, Skipping, Classify
<1>19. \A w \in Walks : EndOfPlan(w) => WalkShape'  BY DEF EndOfPlan, FinalVerdicts
<1>20. \A w \in Walks : Settle(w) => WalkShape'  BY DEF Settle, EndStatus
<1>21. \A w \in Walks : Cancel(w) => WalkShape'  BY DEF Cancel
<1>22. \A w \in Walks : Expire(w) => WalkShape'  BY DEF Expire
<1>23. \A s \in Steps : Decide(s) => WalkShape'  BY DEF Decide
<1>24. Abandon => WalkShape'  BY DEF Abandon
<1>25. Crash => WalkShape'  BY DEF Crash, Live
<1>26. Restart => WalkShape'  BY DEF Restart
<1>27. UNCHANGED vars => WalkShape'  BY DEF vars
<1>28. QED
  BY <1>1, <1>2, <1>3, <1>4, <1>5, <1>6, <1>7, <1>8, <1>9, <1>10, <1>11, <1>12, <1>13, <1>14, <1>15, <1>16, <1>17, <1>18, <1>19, <1>20, <1>21, <1>22, <1>23, <1>24, <1>25, <1>26, <1>27, Cases

(* ... keeps what it had done, and answers nothing. *)
LEMMA CaughtKeepsGapInv ==
  ASSUME TypeOK, GapInv, NEW w \in Walks, NEW s \in Steps,
         UNCHANGED <<answer, phase, stage, expired, verdict>>,
         slot[w][s] \in {"running", "asking"},
         run' \in {run, "suspended"},
         phase[w] = "pool",
         \A v \in Walks, t \in Steps : v # w \/ t # s => slot'[v][t] = slot[v][t],
         \A v \in Walks : why'[v] = why[v] \/ (v = w /\ why'[v] = "suspension")
  PROVE  GapInv'
<1>1. \A v \in Walks, t \in Steps :
        phase'[v] \in {"stages", "pool"} /\ ~Aborted(v)' /\ StageOf[t] < stage'[v]
          => slot'[v][t] \in Done
  <2> SUFFICES ASSUME NEW v \in Walks, NEW t \in Steps,
                      phase'[v] \in {"stages", "pool"}, ~Aborted(v)', StageOf[t] < stage'[v]
               PROVE  slot'[v][t] \in Done
    OBVIOUS
  <2>1. ~Aborted(v)
    BY DEF Aborted
  <2>2. slot[v][t] \in Done
    BY <2>1 DEF GapInv
  <2>3. v # w \/ t # s
    BY <2>2 DEF Done
  <2>4. QED BY <2>2, <2>3
<1>2. \A v \in Walks, t \in Steps :
        phase'[v] = "closing" /\ verdict'[v] = "succeeded" /\ ~expired'[v]
          => slot'[v][t] \in Done
  BY DEF GapInv
<1>3. OnlyTheDeadlineLeavesGaps'
  BY DEF GapInv, OnlyTheDeadlineLeavesGaps
<1>4. QED BY <1>1, <1>2, <1>3 DEF GapInv

(* Every step keeps the stages behind a walk done. *)
LEMMA GapStep == TypeOK /\ WalkShape /\ GapInv /\ [Next]_vars => GapInv'
<1> SUFFICES ASSUME TypeOK, WalkShape, GapInv, [Next]_vars PROVE GapInv'
  OBVIOUS
<1>15. \A w \in Walks, s \in Steps : Park(w, s) => GapInv'
  <2> SUFFICES ASSUME NEW w \in Walks, NEW s \in Steps, Park(w, s) PROVE GapInv'
    OBVIOUS
  <2>1. /\ UNCHANGED <<answer, phase, stage, expired, verdict>>
        /\ slot[w][s] \in {"running", "asking"}
        /\ run' \in {run, "suspended"}
    BY DEF Park, CatchSuspension
  <2>2. /\ phase[w] = "pool"
        /\ \A v \in Walks, t \in Steps : v # w \/ t # s => slot'[v][t] = slot[v][t]
        /\ \A v \in Walks : why'[v] = why[v] \/ (v = w /\ why'[v] = "suspension")
    BY CaughtInThePool DEF Park
  <2>3. QED BY <2>1, <2>2, CaughtKeepsGapInv
<1>16. \A w \in Walks, s \in Steps : Echo(w, s) => GapInv'
  <2> SUFFICES ASSUME NEW w \in Walks, NEW s \in Steps, Echo(w, s) PROVE GapInv'
    OBVIOUS
  <2>1. /\ UNCHANGED <<answer, phase, stage, expired, verdict>>
        /\ slot[w][s] \in {"running", "asking"}
        /\ run' \in {run, "suspended"}
    BY DEF Echo, CatchSuspension
  <2>2. /\ phase[w] = "pool"
        /\ \A v \in Walks, t \in Steps : v # w \/ t # s => slot'[v][t] = slot[v][t]
        /\ \A v \in Walks : why'[v] = why[v] \/ (v = w /\ why'[v] = "suspension")
    BY CaughtInThePool DEF Echo
  <2>3. QED BY <2>1, <2>2, CaughtKeepsGapInv
<1> USE StepsAreStaged DEF GapInv, OnlyTheDeadlineLeavesGaps, Thrown, Done, Slot, Phase, Signalled, Aborted,
            rows, walk, host, TypeOK
<1>1. \A w \in Walks : Create(w) => GapInv'  BY DEF Create
<1>2. \A w \in Walks : Resume(w) => GapInv'  BY DEF Resume, Restored
<1>3. \A w \in Walks : Start(w) => GapInv'  BY DEF Start
<1>4. \A w \in Walks : PlanFails(w) => GapInv'  BY DEF PlanFails
<1>5. \A w \in Walks : PlanSuspends(w) => GapInv'  BY DEF PlanSuspends
<1>6. \A w \in Walks : Planned(w) => GapInv'  BY DEF Planned
<1>7. \A w \in Walks : SkipStage(w) => GapInv'  BY DEF SkipStage, Skipping
<1>8. \A w \in Walks : OpenPool(w) => GapInv'  BY DEF OpenPool
<1>9. \A w \in Walks : Claim(w) => GapInv'
  <2> SUFFICES ASSUME NEW w \in Walks, Claim(w) PROVE GapInv'
    OBVIOUS
  <2> DEFINE s == First(Waiting(w))
  <2>1. s \in Steps /\ slot[w][s] = "waiting" /\ phase[w] = "pool" /\ StageOf[s] = stage[w]
    BY ClaimedWaits DEF Claim
  <2>2. /\ slot' = [slot EXCEPT ![w][s] = "running"]
        /\ UNCHANGED <<run, answer, phase, stage, why, expired, verdict>>
    BY DEF Claim
  <2> HIDE DEF s
  <2>3. QED BY <2>1, <2>2
<1>10. \A w \in Walks, s \in Steps : Succeed(w, s) => GapInv'  BY DEF Succeed, Live
<1>11. \A w \in Walks, s \in Steps : Stop(w, s) => GapInv'  BY DEF Stop, Live
<1>12. \A w \in Walks, s \in Steps : Fail(w, s) => GapInv'  BY DEF Fail, Live
<1>13. \A w \in Walks, s \in Steps : Degrade(w, s) => GapInv'  BY DEF Degrade, Live
<1>14. \A w \in Walks, s \in Steps : Ask(w, s) => GapInv'  BY DEF Ask, Live
<1>17. \A w \in Walks : StageEnds(w) => GapInv'
  <2> SUFFICES ASSUME NEW w \in Walks, StageEnds(w) PROVE GapInv'
    OBVIOUS
  <2>1. \A s \in Steps : ~Aborted(w) /\ StageOf[s] < stage[w] + 1 => slot[w][s] \in Done
    <3> SUFFICES ASSUME NEW s \in Steps, ~Aborted(w), StageOf[s] < stage[w] + 1
                 PROVE  slot[w][s] \in Done
      OBVIOUS
    <3>1. CASE StageOf[s] < stage[w]
      BY <3>1 DEF StageEnds, PoolDone
    <3>2. CASE StageOf[s] = stage[w]
      <4>1. slot[w][s] # "waiting"
        BY <3>2 DEF StageEnds, PoolDone, Waiting
      <4>2. slot[w][s] \notin {"running", "asking"}
        BY DEF StageEnds, PoolDone, InFlight
      <4>3. slot[w][s] \notin Thrown
        BY DEF StageEnds, Rejected
      <4>4. slot[w][s] \in Slot
        BY DEF TypeOK
      <4>5. QED BY <4>1, <4>2, <4>3, <4>4 DEF Slot
    <3>3. StageOf[s] \in Nat /\ stage[w] \in Nat
      BY StepsAreStaged DEF TypeOK
    <3>4. \A i, j \in Nat : i < j + 1 => i < j \/ i = j
      OBVIOUS
    <3>5. StageOf[s] < stage[w] \/ StageOf[s] = stage[w]
      BY <3>3, <3>4
    <3>6. QED BY <3>1, <3>2, <3>5
  <2>2. QED BY <2>1 DEF StageEnds
<1>18. \A w \in Walks : StageFails(w) => GapInv'  BY DEF StageFails, Classify
<1>19. \A w \in Walks : EndOfPlan(w) => GapInv'
  <2> SUFFICES ASSUME NEW w \in Walks, EndOfPlan(w) PROVE GapInv'
    OBVIOUS
  <2>1. ~cancelled[w] /\ ~expired[w] => \A s \in Steps : slot[w][s] \in Done
    <3>1. why[w] \notin StepsFire
      BY DEF EndOfPlan, WalkShape, BeforePool
    <3>2. ~cancelled[w] /\ ~expired[w] => ~Aborted(w)
      BY <3>1 DEF WalkShape, StepsFire
    <3>3. \A s \in Steps : StageOf[s] < stage[w]
      BY DEF EndOfPlan
    <3>4. QED BY <3>2, <3>3 DEF EndOfPlan
  <2>2. verdict'[w] = "succeeded" => ~cancelled[w]
    BY DEF EndOfPlan, FinalVerdicts
  <2>3. \A v \in Walks : v # w => verdict'[v] = verdict[v]
    BY DEF EndOfPlan
  <2>4. /\ \A v \in Walks : v # w => phase'[v] = phase[v]
        /\ phase'[w] = "closing"
        /\ UNCHANGED <<run, answer, stage, slot, why, expired>>
    BY DEF EndOfPlan
  <2>5. \A v \in Walks, s \in Steps :
          phase'[v] = "closing" /\ verdict'[v] = "succeeded" /\ ~expired'[v]
            => slot'[v][s] \in Done
    <3> SUFFICES ASSUME NEW v \in Walks, NEW s \in Steps,
                        phase'[v] = "closing", verdict'[v] = "succeeded", ~expired'[v]
                 PROVE  slot[v][s] \in Done
      BY <2>4
    <3>1. CASE v = w
      BY <3>1, <2>1, <2>2, <2>4
    <3>2. CASE v # w
      BY <3>2, <2>3, <2>4
    <3>3. QED BY <3>1, <3>2
  <2>6. QED BY <2>4, <2>5
<1>20. \A w \in Walks : Settle(w) => GapInv'  BY DEF Settle, EndStatus, CanTransition
<1>21. \A w \in Walks : Cancel(w) => GapInv'  BY DEF Cancel
<1>22. \A w \in Walks : Expire(w) => GapInv'  BY DEF Expire
<1>23. \A s \in Steps : Decide(s) => GapInv'  BY DEF Decide
<1>24. Abandon => GapInv'  BY DEF Abandon
<1>25. Crash => GapInv'  BY DEF Crash, Live
<1>26. Restart => GapInv'  BY DEF Restart
<1>27. UNCHANGED vars => GapInv'  BY DEF vars
<1>28. QED
  BY <1>1, <1>2, <1>3, <1>4, <1>5, <1>6, <1>7, <1>8, <1>9, <1>10, <1>11, <1>12, <1>13, <1>14, <1>15, <1>16, <1>17, <1>18, <1>19, <1>20, <1>21, <1>22, <1>23, <1>24, <1>25, <1>26, <1>27, Cases

(* A run that succeeded did every one of its steps, unless the deadline of  *)
(* one of its walks fired: neither a cancellation, a failure, a suspension, *)
(* a crash nor two walks of the same run can lose a step of it.             *)
THEOREM NoGaps == Spec => []OnlyTheDeadlineLeavesGaps
<1>1. Init => TypeOK /\ WalkShape /\ GapInv
  <2>1. Init => WalkShape
    BY DEF Init, WalkShape, BeforePool, StepsFire, Thrown
  <2>2. Init => GapInv
    BY DEF Init, GapInv, OnlyTheDeadlineLeavesGaps
  <2>3. QED BY <2>1, <2>2, InitTypeOK
<1>2. TypeOK /\ WalkShape /\ GapInv /\ [Next]_vars => (TypeOK /\ WalkShape /\ GapInv)'
  BY TypeStep, WalkShapeStep, GapStep
<1>3. GapInv => OnlyTheDeadlineLeavesGaps
  BY DEF GapInv
<1>4. QED BY <1>1, <1>2, <1>3, PTL DEF Spec

-----------------------------------------------------------------------------
(* Every change of the status column is an edge of runs/state.ts, whoever   *)
(* makes it: the dispatch, a walk, an approval or the recovery.             *)
LEMMA StatusStep == TypeOK /\ [Next]_vars => [Lifecycle!Next]_run
<1> SUFFICES ASSUME TypeOK, [Next]_vars PROVE run' = run \/ Lifecycle!Next
  OBVIOUS
<1> DEFINE Kept == run' = run
           Moved == run' \in RunStatus /\ run' \in Lifecycle!Edges[run]
<1>a. Kept \/ Moved
  <2> USE DEF Lifecycle!Edges, RunStatus, Terminal, CanTransition, TypeOK, rows, walk, host
  <2>1. \A w \in Walks : Create(w) => Kept \/ Moved  BY DEF Create
  <2>2. \A w \in Walks : Resume(w) => Kept \/ Moved  BY DEF Resume
  <2>3. \A w \in Walks : Start(w) => Kept \/ Moved  BY DEF Start
  <2>4. \A w \in Walks : PlanFails(w) => Kept \/ Moved  BY DEF PlanFails
  <2>5. \A w \in Walks : PlanSuspends(w) => Kept \/ Moved  BY DEF PlanSuspends
  <2>6. \A w \in Walks : Planned(w) => Kept \/ Moved  BY DEF Planned
  <2>7. \A w \in Walks : SkipStage(w) => Kept \/ Moved  BY DEF SkipStage
  <2>8. \A w \in Walks : OpenPool(w) => Kept \/ Moved  BY DEF OpenPool
  <2>9. \A w \in Walks : Claim(w) => Kept \/ Moved  BY DEF Claim
  <2>10. \A w \in Walks, s \in Steps : Succeed(w, s) => Kept \/ Moved  BY DEF Succeed
  <2>11. \A w \in Walks, s \in Steps : Stop(w, s) => Kept \/ Moved  BY DEF Stop
  <2>12. \A w \in Walks, s \in Steps : Fail(w, s) => Kept \/ Moved  BY DEF Fail
  <2>13. \A w \in Walks, s \in Steps : Degrade(w, s) => Kept \/ Moved  BY DEF Degrade
  <2>14. \A w \in Walks, s \in Steps : Ask(w, s) => Kept \/ Moved  BY DEF Ask
  <2>15. \A w \in Walks, s \in Steps : Park(w, s) => Kept \/ Moved  BY DEF Park, CatchSuspension
  <2>16. \A w \in Walks, s \in Steps : Echo(w, s) => Kept \/ Moved  BY DEF Echo, CatchSuspension
  <2>17. \A w \in Walks : StageEnds(w) => Kept \/ Moved  BY DEF StageEnds
  <2>18. \A w \in Walks : StageFails(w) => Kept \/ Moved  BY DEF StageFails
  <2>19. \A w \in Walks : EndOfPlan(w) => Kept \/ Moved  BY DEF EndOfPlan
  <2>20. \A w \in Walks : Settle(w) => Kept \/ Moved  BY DEF Settle, EndStatus, Verdict
  <2>21. \A w \in Walks : Cancel(w) => Kept \/ Moved  BY DEF Cancel
  <2>22. \A w \in Walks : Expire(w) => Kept \/ Moved  BY DEF Expire
  <2>23. \A s \in Steps : Decide(s) => Kept \/ Moved  BY DEF Decide
  <2>24. Abandon => Kept \/ Moved  BY DEF Abandon
  <2>25. Crash => Kept \/ Moved  BY DEF Crash
  <2>26. Restart => Kept \/ Moved  BY DEF Restart, Interrupted
  <2>27. UNCHANGED vars => Kept \/ Moved  BY DEF vars
  <2> HIDE DEF Kept, Moved
  <2>28. QED
    BY <2>1, <2>2, <2>3, <2>4, <2>5, <2>6, <2>7, <2>8, <2>9, <2>10, <2>11, <2>12, <2>13, <2>14, <2>15, <2>16, <2>17, <2>18, <2>19, <2>20, <2>21, <2>22, <2>23, <2>24, <2>25, <2>26, <2>27, Cases
<1>b. QED
  BY <1>a DEF Lifecycle!Next, Lifecycle!Move, Lifecycle!RunStatus, Lifecycle!Terminal, RunStatus, Terminal

(* The run engine implements RunLifecycle, however its walks overlap: the   *)
(* status never moves along an edge assertTransition would refuse, and one  *)
(* that ended stays.                                                        *)
THEOREM LifecycleRefined == Spec => LifecycleHolds
<1>1. Init => Lifecycle!Init
  BY DEF Init, Lifecycle!Init
<1>2. TypeOK /\ [Next]_vars => [Lifecycle!Next]_run
  BY StatusStep
<1>3. QED BY <1>1, <1>2, TypeCorrect, PTL DEF Spec, LifecycleHolds, Lifecycle!Spec

-----------------------------------------------------------------------------
(* Of a stage with a rejection: it ends as parked only for a suspension.    *)
LEMMA ClassifyIsNotParked ==
  ASSUME NEW w \in Walks, Rejected(w) # {}, \A s \in Steps : slot[w][s] # "threwSuspension"
  PROVE  Classify(w) \in {"cancelled", "failed"}
<1>1. First(Rejected(w)) \in Steps
  BY FirstIsOne DEF Rejected
<1>2. QED BY <1>1 DEF Classify

(* Every step leaves a running run with a walk that drives it.             *)
LEMMA DriverStep ==
  ~PlanAsks /\ TypeOK /\ WalkShape /\ DriverInv /\ [Next]_vars => DriverInv'
<1> SUFFICES ASSUME ~PlanAsks, TypeOK, WalkShape, DriverInv, [Next]_vars PROVE DriverInv'
  OBVIOUS
<1>15. \A w \in Walks, s \in Steps : Park(w, s) => DriverInv'
  <2> SUFFICES ASSUME NEW w \in Walks, NEW s \in Steps, Park(w, s) PROVE DriverInv'
    OBVIOUS
  <2>1. /\ UNCHANGED <<up, phase, verdict>>
        /\ run' \in {run, "suspended"}
    BY DEF Park, CatchSuspension, host
  <2>2. /\ slot'[w][s] = "threwSuspension" => run' = "suspended"
        /\ \A v \in Walks, t \in Steps : v # w \/ t # s => slot'[v][t] = slot[v][t]
    BY CaughtInThePool DEF Park
  <2>3. up' /\ run' = "queued" => phase'[1] = "created"
    BY <2>1 DEF DriverInv
  <2>4. ASSUME up', run' = "running" PROVE \E v \in Walks : Driver(v)'
    <3>1. PICK v \in Walks : Driver(v)
      BY <2>1, <2>4 DEF DriverInv
    <3>2. \A t \in Steps : slot'[v][t] # "threwSuspension"
      BY <2>2, <2>4, <3>1 DEF Driver
    <3>3. QED BY <2>1, <3>1, <3>2 DEF Driver, Live
  <2>5. QED BY <2>3, <2>4 DEF DriverInv
<1>16. \A w \in Walks, s \in Steps : Echo(w, s) => DriverInv'
  <2> SUFFICES ASSUME NEW w \in Walks, NEW s \in Steps, Echo(w, s) PROVE DriverInv'
    OBVIOUS
  <2>1. /\ UNCHANGED <<up, phase, verdict>>
        /\ run' \in {run, "suspended"}
    BY DEF Echo, CatchSuspension, host
  <2>2. /\ slot'[w][s] = "threwSuspension" => run' = "suspended"
        /\ \A v \in Walks, t \in Steps : v # w \/ t # s => slot'[v][t] = slot[v][t]
    BY CaughtInThePool DEF Echo
  <2>3. up' /\ run' = "queued" => phase'[1] = "created"
    BY <2>1 DEF DriverInv
  <2>4. ASSUME up', run' = "running" PROVE \E v \in Walks : Driver(v)'
    <3>1. PICK v \in Walks : Driver(v)
      BY <2>1, <2>4 DEF DriverInv
    <3>2. \A t \in Steps : slot'[v][t] # "threwSuspension"
      BY <2>2, <2>4, <3>1 DEF Driver
    <3>3. QED BY <2>1, <3>1, <3>2 DEF Driver, Live
  <2>5. QED BY <2>3, <2>4 DEF DriverInv
<1> USE SomeWalk DEF DriverInv, Driver, Signalled, Aborted, Walks, rows, walk, host, TypeOK
<1>1. \A w \in Walks : Create(w) => DriverInv'  BY DEF Create
<1>2. \A w \in Walks : Resume(w) => DriverInv'
  <2> SUFFICES ASSUME NEW w \in Walks, Resume(w) PROVE DriverInv'
    OBVIOUS
  <2>1. run' = "running" /\ phase'[w] = "planning"
    BY DEF Resume
  <2>2. \A s \in Steps : slot'[w][s] # "threwSuspension"
    BY DEF Resume, Restored, Done
  <2>3. Driver(w)'
    BY <2>1, <2>2 DEF Live
  <2>4. QED BY <2>1, <2>3
<1>3. \A w \in Walks : Start(w) => DriverInv'  BY DEF Start, Live, BeforePool, Thrown, WalkShape
<1>4. \A w \in Walks : PlanFails(w) => DriverInv'  BY DEF PlanFails, Live
<1>5. \A w \in Walks : PlanSuspends(w) => DriverInv'  BY DEF PlanSuspends
<1>6. \A w \in Walks : Planned(w) => DriverInv'  BY DEF Planned, Live
<1>7. \A w \in Walks : SkipStage(w) => DriverInv'  BY DEF SkipStage, Live
<1>8. \A w \in Walks : OpenPool(w) => DriverInv'  BY DEF OpenPool, Live
<1>9. \A w \in Walks : Claim(w) => DriverInv'
  <2> SUFFICES ASSUME NEW w \in Walks, Claim(w) PROVE DriverInv'
    OBVIOUS
  <2> DEFINE s == First(Waiting(w))
  <2>1. /\ slot' = [slot EXCEPT ![w][s] = "running"]
        /\ UNCHANGED <<run, up, phase, verdict>>
    BY DEF Claim
  <2> HIDE DEF s
  <2>2. QED BY <2>1 DEF Live
<1>10. \A w \in Walks, s \in Steps : Succeed(w, s) => DriverInv'  BY DEF Succeed, Live
<1>11. \A w \in Walks, s \in Steps : Stop(w, s) => DriverInv'  BY DEF Stop, Live
<1>12. \A w \in Walks, s \in Steps : Fail(w, s) => DriverInv'  BY DEF Fail, Live
<1>13. \A w \in Walks, s \in Steps : Degrade(w, s) => DriverInv'  BY DEF Degrade, Live
<1>14. \A w \in Walks, s \in Steps : Ask(w, s) => DriverInv'  BY DEF Ask, Live
<1>17. \A w \in Walks : StageEnds(w) => DriverInv'  BY DEF StageEnds, Live, PoolDone
<1>18. \A w \in Walks : StageFails(w) => DriverInv'
  <2> SUFFICES ASSUME NEW w \in Walks, StageFails(w) PROVE DriverInv'
    OBVIOUS
  <2>1. /\ phase' = [phase EXCEPT ![w] = "closing"]
        /\ verdict' = [verdict EXCEPT ![w] = Classify(w)]
        /\ UNCHANGED <<run, up, slot>>
        /\ phase[w] = "pool"
    BY DEF StageFails, PoolDone
  <2>2. (\A s \in Steps : slot[w][s] # "threwSuspension") => Classify(w) \in {"cancelled", "failed"}
    BY ClassifyIsNotParked DEF StageFails
  <2>3. QED BY <2>1, <2>2 DEF Live
<1>19. \A w \in Walks : EndOfPlan(w) => DriverInv'  BY DEF EndOfPlan, FinalVerdicts, Live
<1>20. \A w \in Walks : Settle(w) => DriverInv'
  <2> SUFFICES ASSUME NEW w \in Walks, Settle(w) PROVE DriverInv'
    OBVIOUS
  <2>1. /\ phase[w] = "closing" /\ run' = EndStatus(w)
        /\ phase' = [phase EXCEPT ![w] = "ended"]
        /\ UNCHANGED <<up, slot, verdict>>
    BY DEF Settle
  <2>2. run' = "queued" => run = "queued"
    BY <2>1 DEF EndStatus, Verdict
  <2>3. run' = "running" => run = "running" /\ verdict[w] \notin {"cancelled", "failed", "succeeded"}
    BY <2>1 DEF EndStatus, CanTransition, Verdict
  <2>4. \A v \in Walks : v # w /\ Driver(v) => Driver(v)'
    BY <2>1 DEF Live
  <2>5. ASSUME up', run' = "running" PROVE \E v \in Walks : Driver(v)'
    <3>1. PICK v \in Walks : Driver(v)
      BY <2>1, <2>3, <2>5
    <3>2. v # w
      BY <2>1, <2>3, <2>5, <3>1
    <3>3. QED BY <2>4, <3>1, <3>2
  <2>6. QED BY <2>1, <2>2, <2>5
<1>21. \A w \in Walks : Cancel(w) => DriverInv'  BY DEF Cancel, Live
<1>22. \A w \in Walks : Expire(w) => DriverInv'  BY DEF Expire, Live
<1>23. \A s \in Steps : Decide(s) => DriverInv'  BY DEF Decide, Live
<1>24. Abandon => DriverInv'  BY DEF Abandon, Live
<1>25. Crash => DriverInv'  BY DEF Crash
<1>26. Restart => DriverInv'  BY DEF Restart, Interrupted
<1>27. UNCHANGED vars => DriverInv'  BY DEF vars, Live
<1>28. QED
  BY <1>1, <1>2, <1>3, <1>4, <1>5, <1>6, <1>7, <1>8, <1>9, <1>10, <1>11, <1>12, <1>13, <1>14, <1>15, <1>16, <1>17, <1>18, <1>19, <1>20, <1>21, <1>22, <1>23, <1>24, <1>25, <1>26, <1>27, Cases

(* Where no capability asks a person while it plans, a run that reads as    *)
(* queued or running is being driven: some walk of the process is going to  *)
(* end it, and a run nobody drives has been parked, ended or recovered.     *)
THEOREM Driven == ~PlanAsks => (Spec => []RunningHasDriver)
<1> SUFFICES ASSUME ~PlanAsks PROVE Spec => []RunningHasDriver
  OBVIOUS
<1>1. Init => TypeOK /\ WalkShape /\ DriverInv
  <2>1. Init => WalkShape
    BY DEF Init, WalkShape, BeforePool, StepsFire, Thrown
  <2>2. Init => DriverInv
    BY DEF Init, DriverInv
  <2>3. QED BY <2>1, <2>2, InitTypeOK
<1>2. TypeOK /\ WalkShape /\ DriverInv /\ [Next]_vars => (TypeOK /\ WalkShape /\ DriverInv)'
  BY TypeStep, WalkShapeStep, DriverStep
<1>3. DriverInv => RunningHasDriver
  <2> SUFFICES ASSUME DriverInv, up, run \in {"queued", "running"} PROVE ~Idle
    BY DEF RunningHasDriver
  <2>1. CASE run = "queued"
    BY <2>1, SomeWalk DEF DriverInv, Idle, Live, Walks
  <2>2. CASE run = "running"
    BY <2>2 DEF DriverInv, Driver, Idle
  <2>3. QED BY <2>1, <2>2
<1>4. QED BY <1>1, <1>2, <1>3, PTL DEF Spec

-----------------------------------------------------------------------------
(* The run nobody was asked about: the first walk is its only one, nothing   *)
(* of it is parked, and while it lasts the row reads queued or running.     *)
NobodyAsked == \A s \in Steps : approval[s] = "none"

OneWalk ==
  /\ run # "suspended"
  /\ \A w \in Walks : w # 1 => phase[w] = "unused"
  /\ \A s \in Steps : slot[1][s] \notin {"asking", "threwSuspension"}
  /\ why[1] # "suspension"
  /\ phase[1] = "unused" => run = "none"
  /\ phase[1] = "created" => run = "queued"
  /\ Live(1) /\ phase[1] # "created" => run = "running"
  /\ Live(1) => up

(* Its rows: none before there is a plan, then those of the walk's own slots *)
(* in the order of the stages; and no row is left pending where it closes.  *)
Unplanned ==
  phase[1] \in {"unused", "created", "planning"} =>
    /\ stage[1] = 0
    /\ \A s \in Steps : step[s] = "undeclared" /\ slot[1][s] = "waiting"

RowOfTheWalk(s) ==
  /\ Live(1) /\ (step[s] \in Done \/ slot[1][s] \in Done) => step[s] = slot[1][s]
  /\ Live(1) /\ step[s] = "running" => slot[1][s] = "running"
  /\ phase[1] \in {"stages", "pool"} /\ step[s] = "pending"
       => slot[1][s] = "waiting" /\ stage[1] <= StageOf[s]
  /\ phase[1] = "pool" /\ slot[1][s] = "running" => StageOf[s] = stage[1]
  /\ phase[1] = "pool" /\ StageOf[s] < stage[1] => slot[1][s] \in Done
  /\ phase[1] = "closing" \/ run \in Terminal => step[s] # "pending"
  /\ \A t \in Steps : step[s] = "running" /\ StageOf[t] < StageOf[s] => step[t] \in Done

(* ... and a walk that was told to stop is about to say so.                 *)
Obeyed == phase[1] = "closing" /\ cancelled[1] /\ stage[1] > 0 => verdict[1] = "cancelled"

Unasked ==
  NobodyAsked => OneWalk /\ Unplanned /\ (\A s \in Steps : RowOfTheWalk(s)) /\ Obeyed

(* A question that was asked stays on the record. *)
LEMMA AskedBefore == TypeOK /\ [Next]_vars /\ NobodyAsked' => NobodyAsked
<1> DEFINE P == NobodyAsked' => NobodyAsked
<1> SUFFICES ASSUME TypeOK, [Next]_vars PROVE P
  OBVIOUS
<1> USE DEF NobodyAsked, TypeOK, rows, walk, host
<1>1. \A w \in Walks : Create(w) => P  BY DEF Create
<1>2. \A w \in Walks : Resume(w) => P  BY DEF Resume
<1>3. \A w \in Walks : Start(w) => P  BY DEF Start
<1>4. \A w \in Walks : PlanFails(w) => P  BY DEF PlanFails
<1>5. \A w \in Walks : PlanSuspends(w) => P  BY DEF PlanSuspends
<1>6. \A w \in Walks : Planned(w) => P  BY DEF Planned
<1>7. \A w \in Walks : SkipStage(w) => P  BY DEF SkipStage
<1>8. \A w \in Walks : OpenPool(w) => P  BY DEF OpenPool
<1>9. \A w \in Walks : Claim(w) => P  BY DEF Claim
<1>10. \A w \in Walks, s \in Steps : Succeed(w, s) => P  BY DEF Succeed
<1>11. \A w \in Walks, s \in Steps : Stop(w, s) => P  BY DEF Stop
<1>12. \A w \in Walks, s \in Steps : Fail(w, s) => P  BY DEF Fail
<1>13. \A w \in Walks, s \in Steps : Degrade(w, s) => P  BY DEF Degrade
<1>14. \A w \in Walks, s \in Steps : Ask(w, s) => P  BY DEF Ask, Opened
<1>15. \A w \in Walks, s \in Steps : Park(w, s) => P  BY DEF Park
<1>16. \A w \in Walks, s \in Steps : Echo(w, s) => P  BY DEF Echo
<1>17. \A w \in Walks : StageEnds(w) => P  BY DEF StageEnds
<1>18. \A w \in Walks : StageFails(w) => P  BY DEF StageFails
<1>19. \A w \in Walks : EndOfPlan(w) => P  BY DEF EndOfPlan
<1>20. \A w \in Walks : Settle(w) => P  BY DEF Settle
<1>21. \A w \in Walks : Cancel(w) => P  BY DEF Cancel
<1>22. \A w \in Walks : Expire(w) => P  BY DEF Expire
<1>23. \A s \in Steps : Decide(s) => P  BY DEF Decide
<1>24. Abandon => P  BY DEF Abandon
<1>25. Crash => P  BY DEF Crash
<1>26. Restart => P  BY DEF Restart
<1>27. UNCHANGED vars => P  BY DEF vars
<1> HIDE DEF P, NobodyAsked, TypeOK, rows, walk, host
<1>28. QED
  BY <1>1, <1>2, <1>3, <1>4, <1>5, <1>6, <1>7, <1>8, <1>9, <1>10, <1>11, <1>12, <1>13,
     <1>14, <1>15, <1>16, <1>17, <1>18, <1>19, <1>20, <1>21, <1>22, <1>23, <1>24, <1>25, <1>26, <1>27, Cases

(* Nobody is asked: the first walk stays the only one. *)
LEMMA OneWalkStep ==
  ASSUME TypeOK, WalkShape, GapInv, NobodyAsked, OneWalk, Unplanned,
         \A s \in Steps : RowOfTheWalk(s), Obeyed, NobodyAsked', [Next]_vars
  PROVE  OneWalk'
<1> USE SomeWalk DEF NobodyAsked, OneWalk, Unplanned, Done, Thrown, Terminal, Signalled, Aborted,
            Live, Walks, TypeOK, rows, walk, host
<1>1. \A w \in Walks : Create(w) => OneWalk'  BY DEF Create
<1>2. \A w \in Walks : Resume(w) => OneWalk'  BY DEF Resume
<1>3. \A w \in Walks : Start(w) => OneWalk'  BY DEF Start
<1>4. \A w \in Walks : PlanFails(w) => OneWalk'  BY DEF PlanFails
<1>5. \A w \in Walks : PlanSuspends(w) => OneWalk'  BY DEF PlanSuspends
<1>6. \A w \in Walks : Planned(w) => OneWalk'  BY DEF Planned
<1>7. \A w \in Walks : SkipStage(w) => OneWalk'  BY DEF SkipStage
<1>8. \A w \in Walks : OpenPool(w) => OneWalk'  BY DEF OpenPool
<1>9. \A w \in Walks : Claim(w) => OneWalk'
  <2> SUFFICES ASSUME NEW w \in Walks, Claim(w) PROVE OneWalk'
    OBVIOUS
  <2> DEFINE s == First(Waiting(w))
  <2>1. /\ step' = [step EXCEPT ![s] = "running"]
        /\ slot' = [slot EXCEPT ![w][s] = "running"]
        /\ UNCHANGED <<run, approval, answer, phase, stage, why, cancelled, expired, verdict, host>>
    BY DEF Claim
  <2>2. /\ s \in Steps /\ phase[w] = "pool" /\ ~Aborted(w)
        /\ StageOf[s] = stage[w] /\ slot[w][s] = "waiting"
    BY ClaimedWaits DEF Claim
  <2> HIDE DEF s
  <2>3. QED BY <2>1, <2>2
<1>10. \A w \in Walks, s \in Steps : Succeed(w, s) => OneWalk'  BY DEF Succeed
<1>11. \A w \in Walks, s \in Steps : Stop(w, s) => OneWalk'  BY DEF Stop
<1>12. \A w \in Walks, s \in Steps : Fail(w, s) => OneWalk'  BY DEF Fail
<1>13. \A w \in Walks, s \in Steps : Degrade(w, s) => OneWalk'  BY DEF Degrade
<1>14. \A w \in Walks, s \in Steps : Ask(w, s) => OneWalk'  BY DEF Ask, Opened
<1>15. \A w \in Walks, s \in Steps : Park(w, s) => OneWalk'  BY DEF Park
<1>16. \A w \in Walks, s \in Steps : Echo(w, s) => OneWalk'  BY DEF Echo
<1>17. \A w \in Walks : StageEnds(w) => OneWalk'  BY DEF StageEnds, PoolDone
<1>18. \A w \in Walks : StageFails(w) => OneWalk'  BY DEF StageFails, PoolDone
<1>19. \A w \in Walks : EndOfPlan(w) => OneWalk'  BY DEF EndOfPlan
<1>20. \A w \in Walks : Settle(w) => OneWalk'  BY DEF Settle, EndStatus, CanTransition, Verdict
<1>21. \A w \in Walks : Cancel(w) => OneWalk'  BY DEF Cancel
<1>22. \A w \in Walks : Expire(w) => OneWalk'  BY DEF Expire
<1>23. \A s \in Steps : Decide(s) => OneWalk'  BY DEF Decide
<1>24. Abandon => OneWalk'  BY DEF Abandon
<1>25. Crash => OneWalk'  BY DEF Crash
<1>26. Restart => OneWalk'  BY DEF Restart, Interrupted
<1>27. UNCHANGED vars => OneWalk'  BY DEF vars
<1>28. QED
  BY <1>1, <1>2, <1>3, <1>4, <1>5, <1>6, <1>7, <1>8, <1>9, <1>10, <1>11, <1>12, <1>13,
     <1>14, <1>15, <1>16, <1>17, <1>18, <1>19, <1>20, <1>21, <1>22, <1>23, <1>24, <1>25, <1>26, <1>27, Cases

(* Nothing is declared before the plan is there. *)
LEMMA UnplannedStep ==
  ASSUME TypeOK, WalkShape, GapInv, NobodyAsked, OneWalk, Unplanned,
         \A s \in Steps : RowOfTheWalk(s), Obeyed, NobodyAsked', [Next]_vars
  PROVE  Unplanned'
<1> USE SomeWalk DEF OneWalk, Unplanned, Done, Thrown, Signalled, Aborted,
            Live, Walks, TypeOK, rows, walk, host
<1>1. \A w \in Walks : Create(w) => Unplanned'  BY DEF Create
<1>2. \A w \in Walks : Resume(w) => Unplanned'  BY DEF Resume
<1>3. \A w \in Walks : Start(w) => Unplanned'  BY DEF Start
<1>4. \A w \in Walks : PlanFails(w) => Unplanned'  BY DEF PlanFails
<1>5. \A w \in Walks : PlanSuspends(w) => Unplanned'  BY DEF PlanSuspends
<1>6. \A w \in Walks : Planned(w) => Unplanned'  BY DEF Planned
<1>7. \A w \in Walks : SkipStage(w) => Unplanned'  BY DEF SkipStage
<1>8. \A w \in Walks : OpenPool(w) => Unplanned'  BY DEF OpenPool
<1>9. \A w \in Walks : Claim(w) => Unplanned'
  <2> SUFFICES ASSUME NEW w \in Walks, Claim(w) PROVE Unplanned'
    OBVIOUS
  <2> DEFINE s == First(Waiting(w))
  <2>1. /\ step' = [step EXCEPT ![s] = "running"]
        /\ slot' = [slot EXCEPT ![w][s] = "running"]
        /\ UNCHANGED <<run, approval, answer, phase, stage, why, cancelled, expired, verdict, host>>
    BY DEF Claim
  <2>2. /\ s \in Steps /\ phase[w] = "pool" /\ ~Aborted(w)
        /\ StageOf[s] = stage[w] /\ slot[w][s] = "waiting"
    BY ClaimedWaits DEF Claim
  <2> HIDE DEF s
  <2>3. QED BY <2>1, <2>2
<1>10. \A w \in Walks, s \in Steps : Succeed(w, s) => Unplanned'  BY DEF Succeed
<1>11. \A w \in Walks, s \in Steps : Stop(w, s) => Unplanned'  BY DEF Stop
<1>12. \A w \in Walks, s \in Steps : Fail(w, s) => Unplanned'  BY DEF Fail
<1>13. \A w \in Walks, s \in Steps : Degrade(w, s) => Unplanned'  BY DEF Degrade
<1>14. \A w \in Walks, s \in Steps : Ask(w, s) => Unplanned'  BY DEF Ask
<1>15. \A w \in Walks, s \in Steps : Park(w, s) => Unplanned'  BY DEF Park
<1>16. \A w \in Walks, s \in Steps : Echo(w, s) => Unplanned'  BY DEF Echo
<1>17. \A w \in Walks : StageEnds(w) => Unplanned'  BY DEF StageEnds, PoolDone
<1>18. \A w \in Walks : StageFails(w) => Unplanned'  BY DEF StageFails, PoolDone
<1>19. \A w \in Walks : EndOfPlan(w) => Unplanned'  BY DEF EndOfPlan
<1>20. \A w \in Walks : Settle(w) => Unplanned'  BY DEF Settle
<1>21. \A w \in Walks : Cancel(w) => Unplanned'  BY DEF Cancel
<1>22. \A w \in Walks : Expire(w) => Unplanned'  BY DEF Expire
<1>23. \A s \in Steps : Decide(s) => Unplanned'  BY DEF Decide
<1>24. Abandon => Unplanned'  BY DEF Abandon
<1>25. Crash => Unplanned'  BY DEF Crash
<1>26. Restart => Unplanned'  BY DEF Restart, Interrupted
<1>27. UNCHANGED vars => Unplanned'  BY DEF vars
<1>28. QED
  BY <1>1, <1>2, <1>3, <1>4, <1>5, <1>6, <1>7, <1>8, <1>9, <1>10, <1>11, <1>12, <1>13,
     <1>14, <1>15, <1>16, <1>17, <1>18, <1>19, <1>20, <1>21, <1>22, <1>23, <1>24, <1>25, <1>26, <1>27, Cases

(* A stage with a rejection, none of them a suspension, heeds the cancel. *)
LEMMA ClassifyHeedsTheCancel ==
  ASSUME NEW w \in Walks, Rejected(w) # {}, cancelled[w],
         \A s \in Steps : slot[w][s] # "threwSuspension"
  PROVE  Classify(w) = "cancelled"
<1>1. First(Rejected(w)) \in Steps
  BY FirstIsOne DEF Rejected
<1>2. QED BY <1>1 DEF Classify

(* A walk that closes has the verdict its cancellation asks for. *)
LEMMA ObeyedStep ==
  ASSUME TypeOK, WalkShape, GapInv, NobodyAsked, OneWalk, Unplanned,
         \A s \in Steps : RowOfTheWalk(s), Obeyed, NobodyAsked', [Next]_vars
  PROVE  Obeyed'
<1> USE SomeWalk DEF OneWalk, Unplanned, Obeyed, Done, Thrown, Signalled, Aborted,
            Live, Walks, TypeOK, rows, walk, host
<1>1. \A w \in Walks : Create(w) => Obeyed'  BY DEF Create
<1>2. \A w \in Walks : Resume(w) => Obeyed'  BY DEF Resume
<1>3. \A w \in Walks : Start(w) => Obeyed'  BY DEF Start
<1>4. \A w \in Walks : PlanFails(w) => Obeyed'  BY DEF PlanFails
<1>5. \A w \in Walks : PlanSuspends(w) => Obeyed'  BY DEF PlanSuspends
<1>6. \A w \in Walks : Planned(w) => Obeyed'  BY DEF Planned
<1>7. \A w \in Walks : SkipStage(w) => Obeyed'  BY DEF SkipStage
<1>8. \A w \in Walks : OpenPool(w) => Obeyed'  BY DEF OpenPool
<1>9. \A w \in Walks : Claim(w) => Obeyed'
  <2> SUFFICES ASSUME NEW w \in Walks, Claim(w) PROVE Obeyed'
    OBVIOUS
  <2> DEFINE s == First(Waiting(w))
  <2>1. /\ step' = [step EXCEPT ![s] = "running"]
        /\ slot' = [slot EXCEPT ![w][s] = "running"]
        /\ UNCHANGED <<run, approval, answer, phase, stage, why, cancelled, expired, verdict, host>>
    BY DEF Claim
  <2>2. /\ s \in Steps /\ phase[w] = "pool" /\ ~Aborted(w)
        /\ StageOf[s] = stage[w] /\ slot[w][s] = "waiting"
    BY ClaimedWaits DEF Claim
  <2> HIDE DEF s
  <2>3. QED BY <2>1, <2>2
<1>10. \A w \in Walks, s \in Steps : Succeed(w, s) => Obeyed'  BY DEF Succeed
<1>11. \A w \in Walks, s \in Steps : Stop(w, s) => Obeyed'  BY DEF Stop
<1>12. \A w \in Walks, s \in Steps : Fail(w, s) => Obeyed'  BY DEF Fail
<1>13. \A w \in Walks, s \in Steps : Degrade(w, s) => Obeyed'  BY DEF Degrade
<1>14. \A w \in Walks, s \in Steps : Ask(w, s) => Obeyed'  BY DEF Ask
<1>15. \A w \in Walks, s \in Steps : Park(w, s) => Obeyed'  BY DEF Park
<1>16. \A w \in Walks, s \in Steps : Echo(w, s) => Obeyed'  BY DEF Echo
<1>17. \A w \in Walks : StageEnds(w) => Obeyed'  BY DEF StageEnds
<1>18. \A w \in Walks : StageFails(w) => Obeyed'
  <2> SUFFICES ASSUME NEW w \in Walks, StageFails(w) PROVE Obeyed'
    OBVIOUS
  <2>1. w = 1 /\ Rejected(w) # {}
    BY DEF StageFails, PoolDone
  <2>2. cancelled[w] => Classify(w) = "cancelled"
    BY <2>1, ClassifyHeedsTheCancel
  <2>3. QED BY <2>1, <2>2 DEF StageFails
<1>19. \A w \in Walks : EndOfPlan(w) => Obeyed'  BY DEF EndOfPlan, FinalVerdicts
<1>20. \A w \in Walks : Settle(w) => Obeyed'  BY DEF Settle
<1>21. \A w \in Walks : Cancel(w) => Obeyed'
  <2> SUFFICES ASSUME NEW w \in Walks, Cancel(w) PROVE Obeyed'
    OBVIOUS
  <2>1. phase[1] # "closing"
    BY DEF Cancel, Quiet
  <2>2. QED BY <2>1 DEF Cancel
<1>22. \A w \in Walks : Expire(w) => Obeyed'  BY DEF Expire
<1>23. \A s \in Steps : Decide(s) => Obeyed'  BY DEF Decide
<1>24. Abandon => Obeyed'  BY DEF Abandon
<1>25. Crash => Obeyed'  BY DEF Crash
<1>26. Restart => Obeyed'  BY DEF Restart
<1>27. UNCHANGED vars => Obeyed'  BY DEF vars
<1>28. QED
  BY <1>1, <1>2, <1>3, <1>4, <1>5, <1>6, <1>7, <1>8, <1>9, <1>10, <1>11, <1>12, <1>13,
     <1>14, <1>15, <1>16, <1>17, <1>18, <1>19, <1>20, <1>21, <1>22, <1>23, <1>24, <1>25, <1>26, <1>27, Cases

(* The rows follow the stages. *)
LEMMA RowsOfTheWalkStep ==
  ASSUME TypeOK, WalkShape, GapInv, NobodyAsked, OneWalk, Unplanned,
         \A s \in Steps : RowOfTheWalk(s), Obeyed, NobodyAsked', [Next]_vars
  PROVE  \A r \in Steps : RowOfTheWalk(r)'
<1> DEFINE Followed == \A r \in Steps : RowOfTheWalk(r)'
<1> USE SomeWalk, StepsAreStaged DEF OneWalk, Unplanned, RowOfTheWalk, Done, Thrown, Signalled, Aborted,
            Live, Walks, TypeOK, rows, walk, host
<1>1. \A w \in Walks : Create(w) => Followed  BY DEF Create
<1>2. \A w \in Walks : Resume(w) => Followed  BY DEF Resume
<1>3. \A w \in Walks : Start(w) => Followed  BY DEF Start
<1>4. \A w \in Walks : PlanFails(w) => Followed  BY DEF PlanFails
<1>5. \A w \in Walks : PlanSuspends(w) => Followed  BY DEF PlanSuspends
<1>6. \A w \in Walks : Planned(w) => Followed
  <2> SUFFICES ASSUME NEW w \in Walks, Planned(w), NEW s \in Steps PROVE RowOfTheWalk(s)'
    OBVIOUS
  <2>1. w = 1
    BY DEF Planned
  <2>2. /\ phase'[1] = "stages" /\ stage'[1] = 1 /\ slot' = slot /\ run' = run
        /\ \A t \in Steps : step'[t] = "pending" /\ slot'[1][t] = "waiting"
    BY <2>1 DEF Planned
  <2>3. 1 <= StageOf[s]
    OBVIOUS
  <2>4. run' \notin Terminal
    BY <2>1, <2>2 DEF Planned, Terminal
  <2>5. QED BY <2>2, <2>3, <2>4
<1>7. \A w \in Walks : SkipStage(w) => Followed  BY DEF SkipStage, Skipping, NotDone
<1>8. \A w \in Walks : OpenPool(w) => Followed
  <2> SUFFICES ASSUME NEW w \in Walks, OpenPool(w), NEW s \in Steps PROVE RowOfTheWalk(s)'
    OBVIOUS
  <2>1. w = 1 /\ ~Aborted(w) /\ phase[1] = "stages"
    BY DEF OpenPool
  <2>2. slot[w][s] \notin {"running", "asking"}
    BY <2>1 DEF WalkShape
  <2>3. StageOf[s] < stage[1] => slot[1][s] \in Done
    BY <2>1 DEF GapInv
  <2>4. phase'[1] = "pool" /\ UNCHANGED <<run, step, stage, slot>>
    BY <2>1 DEF OpenPool
  <2>5. run \notin Terminal
    BY <2>1 DEF Terminal
  <2>6. RowOfTheWalk(s)
    OBVIOUS
  <2>7. QED BY <2>1, <2>2, <2>3, <2>4, <2>5, <2>6
<1>9. \A w \in Walks : Claim(w) => Followed
  <2> SUFFICES ASSUME NEW w \in Walks, Claim(w) PROVE Followed
    OBVIOUS
  <2> DEFINE s == First(Waiting(w))
  <2>1. /\ step' = [step EXCEPT ![s] = "running"]
        /\ slot' = [slot EXCEPT ![w][s] = "running"]
        /\ UNCHANGED <<run, approval, answer, phase, stage, why, cancelled, expired, verdict, host>>
    BY DEF Claim
  <2>2. /\ s \in Steps /\ phase[w] = "pool" /\ ~Aborted(w)
        /\ StageOf[s] = stage[w] /\ slot[w][s] = "waiting"
    BY ClaimedWaits DEF Claim
  <2> HIDE DEF s
  <2>3. QED BY <2>1, <2>2
<1>10. \A w \in Walks, s \in Steps : Succeed(w, s) => Followed  BY DEF Succeed
<1>11. \A w \in Walks, s \in Steps : Stop(w, s) => Followed
  <2> SUFFICES ASSUME NEW w \in Walks, NEW s \in Steps, Stop(w, s) PROVE Followed
    OBVIOUS
  <2>1. w = 1 /\ step' = [step EXCEPT ![s] = "stopped"] /\ UNCHANGED <<run, phase, stage>>
    BY DEF Stop
  <2>2. \A t \in Steps : t # s => slot'[1][t] = slot[1][t]
    BY <2>1 DEF Stop
  <2>3. slot[1][s] = "running" /\ slot'[1][s] \in {"threwAborted", "threwError"}
    BY <2>1 DEF Stop
  <2>4. step[s] \notin Done
    BY <2>1, <2>3 DEF Stop
  <2>5. QED BY <2>1, <2>2, <2>3, <2>4
<1>12. \A w \in Walks, s \in Steps : Fail(w, s) => Followed  BY DEF Fail
<1>13. \A w \in Walks, s \in Steps : Degrade(w, s) => Followed  BY DEF Degrade
<1>14. \A w \in Walks, s \in Steps : Ask(w, s) => Followed  BY DEF Ask, Opened, NobodyAsked
<1>15. \A w \in Walks, s \in Steps : Park(w, s) => Followed  BY DEF Park
<1>16. \A w \in Walks, s \in Steps : Echo(w, s) => Followed  BY DEF Echo
<1>17. \A w \in Walks : StageEnds(w) => Followed  BY DEF StageEnds, PoolDone, Skipping, Waiting
<1>18. \A w \in Walks : StageFails(w) => Followed  BY DEF StageFails, PoolDone, Skipping, Unreached, Waiting, NotDone
<1>19. \A w \in Walks : EndOfPlan(w) => Followed  BY DEF EndOfPlan
<1>20. \A w \in Walks : Settle(w) => Followed
  <2> SUFFICES ASSUME NEW w \in Walks, Settle(w) PROVE Followed
    OBVIOUS
  <2>1. w = 1 /\ phase[1] = "closing" /\ phase'[1] = "ended" /\ UNCHANGED <<step, stage, slot>>
    BY DEF Settle
  <2>2. \A r \in Steps : step[r] # "pending"
    BY <2>1
  <2>3. QED BY <2>1, <2>2
<1>21. \A w \in Walks : Cancel(w) => Followed  BY DEF Cancel
<1>22. \A w \in Walks : Expire(w) => Followed  BY DEF Expire
<1>23. \A s \in Steps : Decide(s) => Followed  BY DEF Decide
<1>24. Abandon => Followed  BY DEF Abandon
<1>25. Crash => Followed  BY DEF Crash
<1>26. Restart => Followed  BY DEF Restart, AfterCrash
<1>27. UNCHANGED vars => Followed  BY DEF vars
<1>28. QED
  BY <1>1, <1>2, <1>3, <1>4, <1>5, <1>6, <1>7, <1>8, <1>9, <1>10, <1>11, <1>12, <1>13,
     <1>14, <1>15, <1>16, <1>17, <1>18, <1>19, <1>20, <1>21, <1>22, <1>23, <1>24, <1>25, <1>26, <1>27, Cases

(* The invariant of a run nobody was asked about, kept by every step.       *)
LEMMA UnaskedStep == TypeOK /\ WalkShape /\ GapInv /\ Unasked /\ [Next]_vars => Unasked'
<1> SUFFICES ASSUME TypeOK, WalkShape, GapInv, Unasked, [Next]_vars, NobodyAsked'
             PROVE  OneWalk' /\ Unplanned' /\ (\A s \in Steps : RowOfTheWalk(s)') /\ Obeyed'
  BY DEF Unasked
<1>1. NobodyAsked
  BY AskedBefore
<1>2. OneWalk /\ Unplanned /\ (\A s \in Steps : RowOfTheWalk(s)) /\ Obeyed
  BY <1>1 DEF Unasked
<1>3. QED BY <1>1, <1>2, OneWalkStep, UnplannedStep, RowsOfTheWalkStep, ObeyedStep

UnaskedInv == TypeOK /\ WalkShape /\ GapInv /\ Unasked

(* Every reachable state of every plan has it. *)
LEMMA UnaskedAlways == Spec => []UnaskedInv
<1>1. Init => UnaskedInv
  <2>1. Init => WalkShape
    BY DEF Init, WalkShape, StepsFire, Thrown
  <2>2. Init => GapInv
    BY DEF Init, GapInv, OnlyTheDeadlineLeavesGaps
  <2>3. Init => OneWalk /\ Unplanned /\ Obeyed
    BY SomeWalk DEF Init, OneWalk, Unplanned, Obeyed, Live, Walks
  <2>4. Init => \A s \in Steps : RowOfTheWalk(s)
    BY SomeWalk DEF Init, RowOfTheWalk, Walks, Done
  <2>5. QED BY <2>1, <2>2, <2>3, <2>4, InitTypeOK DEF Unasked, UnaskedInv
<1>2. UnaskedInv /\ [Next]_vars => UnaskedInv'
  BY TypeStep, WalkShapeStep, GapStep, UnaskedStep DEF UnaskedInv
<1>3. QED BY <1>1, <1>2, PTL DEF Spec

(* Over a run nobody is asked about, a step runs only when every step of the *)
(* stages before its own is done, whatever is stopped, cancelled or cut; and *)
(* a run that is over has no step left that reads as still to do.           *)
THEOREM InOrder == Spec => []StagesInOrder
<1>1. UnaskedInv => StagesInOrder
  BY DEF UnaskedInv, Unasked, NobodyAsked, RowOfTheWalk, StagesInOrder
<1>2. QED BY <1>1, UnaskedAlways, PTL

(* What the end of a walk that was told to stop leaves behind.              *)
Heeds(w) ==
  phase[w] = "closing" /\ phase'[w] = "ended" /\ up' /\ cancelled[w] /\ stage[w] > 0
    /\ NobodyAsked => run' = "cancelled"

(* Only Settle ends a walk while the process is up. *)
LEMMA HeedsStep ==
  ASSUME UnaskedInv, [Next]_vars, NEW v \in Walks
  PROVE  Heeds(v)
<1> DEFINE P == run' = "cancelled"
<1> SUFFICES ASSUME phase[v] = "closing", phase'[v] = "ended", up', cancelled[v],
                    stage[v] > 0, NobodyAsked
             PROVE  P
  BY DEF Heeds
<1>a. v = 1 /\ run = "running" /\ verdict[v] = "cancelled"
  BY DEF UnaskedInv, Unasked, OneWalk, Obeyed, Live
<1>20. \A w \in Walks : Settle(w) => P
  <2> SUFFICES ASSUME NEW w \in Walks, Settle(w) PROVE P
    OBVIOUS
  <2>1. w = v
    BY <1>a DEF UnaskedInv, Settle
  <2>2. QED BY <1>a, <2>1 DEF Settle, EndStatus, CanTransition
<1> USE DEF UnaskedInv, TypeOK, rows, walk, host
<1>1. \A w \in Walks : Create(w) => P  BY DEF Create
<1>2. \A w \in Walks : Resume(w) => P  BY DEF Resume
<1>3. \A w \in Walks : Start(w) => P  BY DEF Start
<1>4. \A w \in Walks : PlanFails(w) => P  BY DEF PlanFails
<1>5. \A w \in Walks : PlanSuspends(w) => P  BY DEF PlanSuspends
<1>6. \A w \in Walks : Planned(w) => P  BY DEF Planned
<1>7. \A w \in Walks : SkipStage(w) => P  BY DEF SkipStage
<1>8. \A w \in Walks : OpenPool(w) => P  BY DEF OpenPool
<1>9. \A w \in Walks : Claim(w) => P  BY DEF Claim
<1>10. \A w \in Walks, s \in Steps : Succeed(w, s) => P  BY DEF Succeed
<1>11. \A w \in Walks, s \in Steps : Stop(w, s) => P  BY DEF Stop
<1>12. \A w \in Walks, s \in Steps : Fail(w, s) => P  BY DEF Fail
<1>13. \A w \in Walks, s \in Steps : Degrade(w, s) => P  BY DEF Degrade
<1>14. \A w \in Walks, s \in Steps : Ask(w, s) => P  BY DEF Ask
<1>15. \A w \in Walks, s \in Steps : Park(w, s) => P  BY DEF Park
<1>16. \A w \in Walks, s \in Steps : Echo(w, s) => P  BY DEF Echo
<1>17. \A w \in Walks : StageEnds(w) => P  BY DEF StageEnds
<1>18. \A w \in Walks : StageFails(w) => P  BY DEF StageFails
<1>19. \A w \in Walks : EndOfPlan(w) => P  BY DEF EndOfPlan
<1>21. \A w \in Walks : Cancel(w) => P  BY DEF Cancel
<1>22. \A w \in Walks : Expire(w) => P  BY DEF Expire
<1>23. \A s \in Steps : Decide(s) => P  BY DEF Decide
<1>24. Abandon => P  BY DEF Abandon
<1>25. Crash => P  BY DEF Crash
<1>26. Restart => P  BY DEF Restart
<1>27. UNCHANGED vars => P  BY DEF vars
<1> HIDE DEF P, UnaskedInv, TypeOK, rows, walk, host
<1>28. QED
  BY <1>1, <1>2, <1>3, <1>4, <1>5, <1>6, <1>7, <1>8, <1>9, <1>10, <1>11, <1>12, <1>13,
     <1>14, <1>15, <1>16, <1>17, <1>18, <1>19, <1>20, <1>21, <1>22, <1>23, <1>24, <1>25, <1>26, <1>27, Cases

(* A walk that was told to stop leaves the run cancelled, whether its steps  *)
(* heeded the signal, failed or finished, and whether its deadline fired.   *)
THEOREM CancelHeeded == Spec => CancelEndsTheRun
<1>1. UnaskedInv /\ [Next]_vars => [\A w \in Walks : Heeds(w)]_vars
  BY HeedsStep
<1>2. QED BY <1>1, UnaskedAlways, PTL DEF Spec, CancelEndsTheRun, Heeds, NobodyAsked

-----------------------------------------------------------------------------
(* From here on, of a run whose steps go on one at a time, as they do where  *)
(* the provider is on this machine: such a run is never driven by two walks. *)
Serial == \A i \in 1 .. NStages : Width[i] = 1

InPlay(w, s) == slot[w][s] \in {"running", "asking"}

(* There is one walk at a time, none before the run is there, after it has   *)
(* ended, or while the process is gone.                                      *)
Alone ==
  /\ \A v, w \in Walks : Live(v) /\ Live(w) => v = w
  /\ run \in {"none"} \cup Terminal \/ ~up => \A w \in Walks : ~Live(w)
  /\ \A w \in Walks : phase[w] = "created" => run = "queued"
  /\ \A w \in Walks : Live(w) /\ phase[w] # "created" => run \in {"running", "suspended"}

(* One step is in play at a time, and the first to throw is the last.        *)
OneStep ==
  \A w \in Walks, s, t \in Steps :
    /\ InPlay(w, s) /\ InPlay(w, t) => s = t
    /\ phase[w] = "pool" /\ InPlay(w, s) => StageOf[s] = stage[w]
    /\ phase[w] = "pool" /\ slot[w][s] \in Thrown =>
         /\ Aborted(w) /\ ~InPlay(w, t)
         /\ StageOf[s] = stage[w]
         /\ slot[w][t] \in Thrown => t = s
         /\ slot[w][s] = "threwAborted" => cancelled[w] \/ expired[w]
    /\ slot[w][s] = "asking" => s \in Asks /\ approval[s] # "none"

(* A parked run has its question, and a walk on its way to leave it parked.  *)
Question(s) == step[s] = "pending" /\ approval[s] # "none"

Parked ==
  run = "suspended" =>
    /\ \E s \in Asks : Question(s)
    /\ \A w \in Walks : Live(w) =>
         \/ phase[w] = "closing" /\ verdict[w] = "parked"
         \/ phase[w] = "pool" /\ \E s \in Asks : slot[w][s] = "threwSuspension" /\ Question(s)

(* The walk and the rows agree on what is done, and a row says running of a   *)
(* step in play or of one a crash cut, until the recovery.                    *)
Rows ==
  /\ \A w \in Walks, s \in Steps :
       /\ Live(w) /\ (step[s] \in Done \/ slot[w][s] \in Done) => slot[w][s] = step[s]
       /\ phase[w] = "unused" => slot[w][s] = "waiting"
  /\ \A s \in Steps : run = "none" => step[s] = "undeclared"
  /\ \A s \in Steps : step[s] = "running" =>
       (\E w \in Walks : Live(w) /\ InPlay(w, s)) \/ (~up /\ run \in {"queued", "running"})
  /\ AnswerMatchesRows

(* Who is cancelled was asked to stop.                                        *)
Asked ==
  /\ \A w \in Walks : cancelled[w] \/ (phase[w] = "closing" /\ verdict[w] = "cancelled") => acked
  /\ CancelledMeansAsked

(* What a step never does. *)
Frozen == run \in Terminal => UNCHANGED <<run, step, answer>>
Kept   == \A s \in Steps : step[s] \in Done => step'[s] = step[s]
Waited == run = "suspended" /\ run' # "suspended"
            => run' = "running" \/ (run' = "cancelled" /\ acked')

SerialInv == TypeOK /\ WalkShape /\ Alone /\ OneStep /\ Parked /\ Rows /\ Asked

-----------------------------------------------------------------------------
(* What a claim, a step in play and a question that parks the run come to.   *)
ClaimedAt(w, s) ==
  /\ phase[w] = "pool" /\ ~Aborted(w) /\ StageOf[s] = stage[w] /\ slot[w][s] = "waiting"
  /\ \A t \in Steps : ~InPlay(w, t) /\ slot[w][t] \notin Thrown
  /\ step' = [step EXCEPT ![s] = "running"]
  /\ slot' = [slot EXCEPT ![w][s] = "running"]
  /\ UNCHANGED <<run, approval, answer, phase, stage, why, cancelled, expired, verdict>>
  /\ UNCHANGED host

PlaysAlone(w, s) ==
  /\ phase[w] = "pool" /\ run = "running" /\ up
  /\ \A t \in Steps : slot[w][t] \notin Thrown
  /\ \A t \in Steps : InPlay(w, t) => t = s
  /\ why[w] \notin StepsFire
  /\ StageOf[s] = stage[w]
  /\ \A v \in Walks : Live(v) => v = w

ParkedBy(w, s) ==
  /\ run' = "suspended" /\ Aborted(w)' /\ slot[w][s] = "asking" /\ Live(w)
  /\ step' = [step EXCEPT ![s] = "pending"]
  /\ slot' = [slot EXCEPT ![w][s] = "threwSuspension"]
  /\ \A v \in Walks \ {w} : why'[v] = why[v]
  /\ UNCHANGED <<approval, answer, phase, stage, cancelled, expired, verdict, host>>

(* A step is claimed when none is in play and none has thrown. *)
LEMMA ClaimedAlone ==
  ASSUME Serial, SerialInv, NEW w \in Walks, Claim(w)
  PROVE  \E s \in Steps : ClaimedAt(w, s)
<1> DEFINE s == First(Waiting(w))
<1>1. /\ s \in Steps /\ phase[w] = "pool" /\ ~Aborted(w) /\ StageOf[s] = stage[w]
      /\ slot[w][s] = "waiting"
  BY ClaimedWaits DEF Claim
<1>2. Width[stage[w]] = 1
  BY <1>1, StepsAreStaged DEF Serial
<1>3. InFlight(w) = {}
  <2>1. Cardinality(InFlight(w)) < 1
    BY <1>2 DEF Claim, CanClaim
  <2>2. IsFiniteSet(InFlight(w))
    BY StepsAreStaged, FS_Subset DEF InFlight
  <2>3. Cardinality(InFlight(w)) = 0
    BY <2>1, <2>2, FS_CardinalityType
  <2>4. QED BY <2>2, <2>3, FS_EmptySet
<1>4. \A t \in Steps : ~InPlay(w, t) /\ slot[w][t] \notin Thrown
  BY <1>1, <1>3 DEF InFlight, InPlay, SerialInv, OneStep
<1>5. /\ step' = [step EXCEPT ![s] = "running"]
      /\ slot' = [slot EXCEPT ![w][s] = "running"]
      /\ UNCHANGED <<run, approval, answer, phase, stage, why, cancelled, expired, verdict>>
      /\ UNCHANGED host
  BY DEF Claim
<1> HIDE DEF s
<1>6. QED BY <1>1, <1>4, <1>5 DEF ClaimedAt

(* A step in play has a run that is running, and no sibling has thrown. *)
LEMMA PlaysInRunning ==
  ASSUME SerialInv, NEW w \in Walks, NEW s \in Steps, Live(w), InPlay(w, s)
  PROVE  PlaysAlone(w, s)
<1>1. phase[w] = "pool"
  BY DEF SerialInv, WalkShape, InPlay, Live
<1>2. \A t \in Steps : slot[w][t] \notin Thrown
  BY <1>1 DEF SerialInv, OneStep
<1>3. why[w] \notin StepsFire
  BY <1>1, <1>2 DEF SerialInv, WalkShape
<1>4. up /\ run \in {"running", "suspended"}
  BY <1>1 DEF SerialInv, Alone
<1>5. run # "suspended"
  BY <1>1, <1>2, KindsOfSteps DEF SerialInv, Parked, Thrown
<1>6. QED BY <1>1, <1>2, <1>3, <1>4, <1>5 DEF SerialInv, OneStep, Alone, PlaysAlone

(* So a question that is caught parks the run, and no sibling echoes it.     *)
LEMMA ParksTheRun ==
  ASSUME SerialInv, NEW w \in Walks, NEW s \in Steps, Park(w, s)
  PROVE  ParkedBy(w, s)
<1>1. InPlay(w, s) /\ Live(w) /\ slot[w][s] = "asking"
  BY DEF Park, InPlay
<1>2. run = "running"
  BY <1>1, PlaysInRunning DEF PlaysAlone
<1>3. CanTransition(run, "suspended")
  BY <1>2 DEF CanTransition
<1>4. Aborted(w)' /\ \A v \in Walks \ {w} : why'[v] = why[v]
  BY <1>3 DEF Park, CatchSuspension, Signalled, Aborted, SerialInv, TypeOK
<1>5. QED BY <1>1, <1>3, <1>4 DEF Park, CatchSuspension, ParkedBy

LEMMA NobodyEchoes ==
  ASSUME SerialInv, NEW w \in Walks, NEW s \in Steps
  PROVE  ~Echo(w, s)
BY PlaysInRunning DEF Echo, InPlay, StepsFire, PlaysAlone

(* The event loop looks at its queues: a parked run has no walk left.         *)
LEMMA QuietWhenParked ==
  ASSUME SerialInv, Quiet, run = "suspended"
  PROVE  \A w \in Walks : ~Live(w)
<1> SUFFICES ASSUME NEW w \in Walks, Live(w) PROVE FALSE
  OBVIOUS
<1>1. phase[w] = "pool" /\ ~PoolDone(w)
  BY DEF Quiet, Live, SerialInv, Parked
<1>2. PICK s \in Steps : slot[w][s] \in Thrown
  BY <1>1, KindsOfSteps DEF SerialInv, Parked, Thrown
<1>3. InFlight(w) = {} /\ Aborted(w)
  <2>1. \A t \in Steps : Aborted(w) /\ ~InPlay(w, t)
    BY <1>1, <1>2 DEF SerialInv, OneStep
  <2>2. QED BY <1>2, <2>1 DEF InFlight, InPlay
<1>4. QED BY <1>1, <1>3 DEF PoolDone

(* A walk begins when there is no other. *)
LEMMA AloneStep ==
  ASSUME Serial, SerialInv, [Next]_vars
  PROVE  Alone'
<1> USE DEF SerialInv, Walks, rows, walk, host, TypeOK, Thrown, Done, Signalled,
            Aborted, Live, InPlay, Alone, Terminal
<1>1. \A w \in Walks : Create(w) => Alone'  BY DEF Create
<1>2. \A w \in Walks : Resume(w) => Alone'
  <2> SUFFICES ASSUME NEW w \in Walks, Resume(w) PROVE Alone'
    OBVIOUS
  <2> HIDE DEF SerialInv
  <2>1. \A v \in Walks : ~Live(v)
    BY QuietWhenParked DEF Resume
  <2>2. QED BY <2>1 DEF Resume, SerialInv
<1>3. \A w \in Walks : Start(w) => Alone'  BY DEF Start
<1>4. \A w \in Walks : PlanFails(w) => Alone'  BY DEF PlanFails
<1>5. \A w \in Walks : PlanSuspends(w) => Alone'  BY DEF PlanSuspends
<1>6. \A w \in Walks : Planned(w) => Alone'  BY DEF Planned
<1>7. \A w \in Walks : SkipStage(w) => Alone'  BY DEF SkipStage, Skipping, NotDone
<1>8. \A w \in Walks : OpenPool(w) => Alone'  BY DEF OpenPool
<1>9. \A w \in Walks : Claim(w) => Alone'
  <2> SUFFICES ASSUME NEW w \in Walks, Claim(w) PROVE Alone'
    OBVIOUS
  <2> HIDE DEF SerialInv
  <2>1. PICK s \in Steps : ClaimedAt(w, s)
    BY ClaimedAlone
  <2>2. QED BY <2>1 DEF SerialInv, ClaimedAt
<1>10. \A w \in Walks, s \in Steps : Succeed(w, s) => Alone'  BY DEF Succeed
<1>11. \A w \in Walks, s \in Steps : Stop(w, s) => Alone'  BY DEF Stop
<1>12. \A w \in Walks, s \in Steps : Fail(w, s) => Alone'  BY DEF Fail
<1>13. \A w \in Walks, s \in Steps : Degrade(w, s) => Alone'  BY DEF Degrade
<1>14. \A w \in Walks, s \in Steps : Ask(w, s) => Alone'  BY DEF Ask, Opened
<1>15. \A w \in Walks, s \in Steps : Park(w, s) => Alone'
  <2> SUFFICES ASSUME NEW w \in Walks, NEW s \in Steps, Park(w, s) PROVE Alone'
    OBVIOUS
  <2> HIDE DEF SerialInv, InPlay
  <2>1. ParkedBy(w, s)
    BY ParksTheRun
  <2>2. InPlay(w, s) /\ PlaysAlone(w, s)
    BY <2>1, PlaysInRunning DEF InPlay, ParkedBy
  <2>3. QED BY <2>1, <2>2 DEF SerialInv, InPlay, ParkedBy, PlaysAlone
<1>16. \A w \in Walks, s \in Steps : Echo(w, s) => Alone'
  <2> HIDE DEF SerialInv
  <2>1. QED BY NobodyEchoes
<1>17. \A w \in Walks : StageEnds(w) => Alone'
  BY DEF StageEnds, PoolDone, Skipping, Rejected, InFlight, Waiting
<1>18. \A w \in Walks : StageFails(w) => Alone'
  BY DEF StageFails, PoolDone, Skipping, InFlight, Unreached, Waiting, NotDone
<1>19. \A w \in Walks : EndOfPlan(w) => Alone'  BY DEF EndOfPlan, FinalVerdicts
<1>20. \A w \in Walks : Settle(w) => Alone'  BY DEF Settle, EndStatus, CanTransition
<1>21. \A w \in Walks : Cancel(w) => Alone'  BY DEF Cancel
<1>22. \A w \in Walks : Expire(w) => Alone'  BY DEF Expire
<1>23. \A s \in Steps : Decide(s) => Alone'  BY DEF Decide
<1>24. Abandon => Alone'
  <2> SUFFICES ASSUME Abandon PROVE Alone'
    OBVIOUS
  <2> HIDE DEF SerialInv
  <2>1. \A v \in Walks : ~Live(v)
    BY QuietWhenParked DEF Abandon
  <2>2. QED BY <2>1 DEF Abandon, SerialInv
<1>25. Crash => Alone'  BY DEF Crash
<1>26. Restart => Alone'  BY DEF Restart, Interrupted, AfterCrash
<1>27. UNCHANGED vars => Alone'  BY DEF vars
<1> HIDE DEF SerialInv, Walks, rows, walk, host, TypeOK, Thrown, Done, Signalled,
            Aborted, Live, InPlay, Alone, Terminal
<1>28. QED
  BY <1>1, <1>2, <1>3, <1>4, <1>5, <1>6, <1>7, <1>8, <1>9, <1>10,
     <1>11, <1>12, <1>13, <1>14, <1>15, <1>16, <1>17, <1>18, <1>19,
     <1>20, <1>21, <1>22, <1>23, <1>24, <1>25, <1>26, <1>27, Cases

(* The next step is claimed when the one in play is over. *)
LEMMA OneStepStep ==
  ASSUME Serial, SerialInv, [Next]_vars
  PROVE  OneStep'
<1> USE DEF SerialInv, Walks, rows, walk, host, TypeOK, Thrown, Done, Signalled,
            Aborted, Live, InPlay, OneStep, WalkShape, BeforePool
<1>1. \A w \in Walks : Create(w) => OneStep'  BY DEF Create
<1>2. \A w \in Walks : Resume(w) => OneStep'  BY DEF Resume, Restored, Restored
<1>3. \A w \in Walks : Start(w) => OneStep'  BY DEF Start
<1>4. \A w \in Walks : PlanFails(w) => OneStep'  BY DEF PlanFails
<1>5. \A w \in Walks : PlanSuspends(w) => OneStep'  BY DEF PlanSuspends
<1>6. \A w \in Walks : Planned(w) => OneStep'  BY DEF Planned
<1>7. \A w \in Walks : SkipStage(w) => OneStep'  BY DEF SkipStage, Skipping, NotDone
<1>8. \A w \in Walks : OpenPool(w) => OneStep'  BY DEF OpenPool
<1>9. \A w \in Walks : Claim(w) => OneStep'
  <2> SUFFICES ASSUME NEW w \in Walks, Claim(w) PROVE OneStep'
    OBVIOUS
  <2> HIDE DEF SerialInv
  <2>1. PICK s \in Steps : ClaimedAt(w, s)
    BY ClaimedAlone
  <2>2. QED BY <2>1 DEF SerialInv, ClaimedAt
<1>10. \A w \in Walks, s \in Steps : Succeed(w, s) => OneStep'  BY DEF Succeed
<1>11. \A w \in Walks, s \in Steps : Stop(w, s) => OneStep'
  <2> SUFFICES ASSUME NEW w \in Walks, NEW s \in Steps, Stop(w, s) PROVE OneStep'
    OBVIOUS
  <2> HIDE DEF SerialInv, InPlay
  <2>1. InPlay(w, s) /\ Live(w)
    BY DEF Stop, InPlay
  <2>2. PlaysAlone(w, s)
    BY <2>1, PlaysInRunning
  <2>3. cancelled[w] \/ expired[w]
    BY <2>2 DEF Stop, SerialInv, WalkShape, StepsFire, PlaysAlone
  <2>4. \E r \in {"threwAborted", "threwError"} : slot' = [slot EXCEPT ![w][s] = r]
    BY DEF Stop
  <2>5. QED BY <2>2, <2>3, <2>4 DEF Stop, SerialInv, InPlay, PlaysAlone
<1>12. \A w \in Walks, s \in Steps : Fail(w, s) => OneStep'  BY DEF Fail
<1>13. \A w \in Walks, s \in Steps : Degrade(w, s) => OneStep'  BY DEF Degrade
<1>14. \A w \in Walks, s \in Steps : Ask(w, s) => OneStep'  BY DEF Ask, Opened
<1>15. \A w \in Walks, s \in Steps : Park(w, s) => OneStep'
  <2> SUFFICES ASSUME NEW w \in Walks, NEW s \in Steps, Park(w, s) PROVE OneStep'
    OBVIOUS
  <2> HIDE DEF SerialInv, InPlay
  <2>1. ParkedBy(w, s)
    BY ParksTheRun
  <2>2. InPlay(w, s) /\ PlaysAlone(w, s)
    BY <2>1, PlaysInRunning DEF InPlay, ParkedBy
  <2>3. QED BY <2>1, <2>2 DEF SerialInv, InPlay, ParkedBy, PlaysAlone
<1>16. \A w \in Walks, s \in Steps : Echo(w, s) => OneStep'
  <2> HIDE DEF SerialInv
  <2>1. QED BY NobodyEchoes
<1>17. \A w \in Walks : StageEnds(w) => OneStep'
  BY DEF StageEnds, PoolDone, Skipping, Rejected, InFlight, Waiting
<1>18. \A w \in Walks : StageFails(w) => OneStep'
  BY DEF StageFails, PoolDone, Skipping, InFlight, Unreached, Waiting, NotDone
<1>19. \A w \in Walks : EndOfPlan(w) => OneStep'  BY DEF EndOfPlan, FinalVerdicts
<1>20. \A w \in Walks : Settle(w) => OneStep'  BY DEF Settle, EndStatus, CanTransition
<1>21. \A w \in Walks : Cancel(w) => OneStep'  BY DEF Cancel
<1>22. \A w \in Walks : Expire(w) => OneStep'  BY DEF Expire
<1>23. \A s \in Steps : Decide(s) => OneStep'  BY DEF Decide
<1>24. Abandon => OneStep'  BY DEF Abandon
<1>25. Crash => OneStep'  BY DEF Crash
<1>26. Restart => OneStep'  BY DEF Restart, Interrupted, AfterCrash
<1>27. UNCHANGED vars => OneStep'  BY DEF vars
<1> HIDE DEF SerialInv, Walks, rows, walk, host, TypeOK, Thrown, Done, Signalled,
            Aborted, Live, InPlay, OneStep, WalkShape, BeforePool
<1>28. QED
  BY <1>1, <1>2, <1>3, <1>4, <1>5, <1>6, <1>7, <1>8, <1>9, <1>10,
     <1>11, <1>12, <1>13, <1>14, <1>15, <1>16, <1>17, <1>18, <1>19,
     <1>20, <1>21, <1>22, <1>23, <1>24, <1>25, <1>26, <1>27, Cases

(* A run is parked with its question, and unparked by a person alone. *)
LEMMA ParkedStep ==
  ASSUME Serial, SerialInv, [Next]_vars
  PROVE  Parked'
<1> USE DEF SerialInv, Walks, rows, walk, host, TypeOK, Thrown, Done, Signalled,
            Aborted, Live, InPlay, Parked, Question, OneStep, Alone, Terminal
<1>1. \A w \in Walks : Create(w) => Parked'  BY DEF Create
<1>2. \A w \in Walks : Resume(w) => Parked'
  <2> SUFFICES ASSUME NEW w \in Walks, Resume(w) PROVE Parked'
    OBVIOUS
  <2> HIDE DEF SerialInv
  <2>1. \A v \in Walks : ~Live(v)
    BY QuietWhenParked DEF Resume
  <2>2. QED BY <2>1 DEF Resume, SerialInv
<1>3. \A w \in Walks : Start(w) => Parked'  BY DEF Start
<1>4. \A w \in Walks : PlanFails(w) => Parked'  BY DEF PlanFails
<1>5. \A w \in Walks : PlanSuspends(w) => Parked'  BY DEF PlanSuspends
<1>6. \A w \in Walks : Planned(w) => Parked'  BY DEF Planned
<1>7. \A w \in Walks : SkipStage(w) => Parked'  BY DEF SkipStage, Skipping, NotDone
<1>8. \A w \in Walks : OpenPool(w) => Parked'  BY DEF OpenPool
<1>9. \A w \in Walks : Claim(w) => Parked'
  <2> SUFFICES ASSUME NEW w \in Walks, Claim(w) PROVE Parked'
    OBVIOUS
  <2> HIDE DEF SerialInv
  <2>1. PICK s \in Steps : ClaimedAt(w, s)
    BY ClaimedAlone
  <2>2. QED BY <2>1 DEF SerialInv, ClaimedAt
<1>10. \A w \in Walks, s \in Steps : Succeed(w, s) => Parked'
  <2> SUFFICES ASSUME NEW w \in Walks, NEW s \in Steps, Succeed(w, s) PROVE Parked'
    OBVIOUS
  <2> HIDE DEF SerialInv, InPlay
  <2>1. InPlay(w, s) /\ Live(w)
    BY DEF Succeed, InPlay
  <2>2. PlaysAlone(w, s)
    BY <2>1, PlaysInRunning
  <2>3. QED BY <2>2 DEF Succeed, PlaysAlone
<1>11. \A w \in Walks, s \in Steps : Stop(w, s) => Parked'
  <2> SUFFICES ASSUME NEW w \in Walks, NEW s \in Steps, Stop(w, s) PROVE Parked'
    OBVIOUS
  <2> HIDE DEF SerialInv, InPlay
  <2>1. InPlay(w, s) /\ Live(w)
    BY DEF Stop, InPlay
  <2>2. PlaysAlone(w, s)
    BY <2>1, PlaysInRunning
  <2>3. QED BY <2>2 DEF Stop, PlaysAlone
<1>12. \A w \in Walks, s \in Steps : Fail(w, s) => Parked'
  <2> SUFFICES ASSUME NEW w \in Walks, NEW s \in Steps, Fail(w, s) PROVE Parked'
    OBVIOUS
  <2> HIDE DEF SerialInv, InPlay
  <2>1. InPlay(w, s) /\ Live(w)
    BY DEF Fail, InPlay
  <2>2. PlaysAlone(w, s)
    BY <2>1, PlaysInRunning
  <2>3. QED BY <2>2 DEF Fail, PlaysAlone
<1>13. \A w \in Walks, s \in Steps : Degrade(w, s) => Parked'
  <2> SUFFICES ASSUME NEW w \in Walks, NEW s \in Steps, Degrade(w, s) PROVE Parked'
    OBVIOUS
  <2> HIDE DEF SerialInv, InPlay
  <2>1. InPlay(w, s) /\ Live(w)
    BY DEF Degrade, InPlay
  <2>2. PlaysAlone(w, s)
    BY <2>1, PlaysInRunning
  <2>3. QED BY <2>2 DEF Degrade, PlaysAlone
<1>14. \A w \in Walks, s \in Steps : Ask(w, s) => Parked'  BY DEF Ask, Opened
<1>15. \A w \in Walks, s \in Steps : Park(w, s) => Parked'
  <2> SUFFICES ASSUME NEW w \in Walks, NEW s \in Steps, Park(w, s) PROVE Parked'
    OBVIOUS
  <2> HIDE DEF SerialInv, InPlay
  <2>1. ParkedBy(w, s)
    BY ParksTheRun
  <2>2. InPlay(w, s) /\ PlaysAlone(w, s)
    BY <2>1, PlaysInRunning DEF InPlay, ParkedBy
  <2>3. QED BY <2>1, <2>2 DEF SerialInv, InPlay, ParkedBy, PlaysAlone
<1>16. \A w \in Walks, s \in Steps : Echo(w, s) => Parked'
  <2> HIDE DEF SerialInv
  <2>1. QED BY NobodyEchoes
<1>17. \A w \in Walks : StageEnds(w) => Parked'
  <2> SUFFICES ASSUME NEW w \in Walks, StageEnds(w) PROVE Parked'
    OBVIOUS
  <2>1. phase[w] = "pool" /\ run' = run /\ Rejected(w) = {}
    BY DEF StageEnds, PoolDone
  <2>2. run # "suspended"
    BY <2>1, KindsOfSteps DEF Rejected
  <2>3. QED BY <2>1, <2>2
<1>18. \A w \in Walks : StageFails(w) => Parked'
  <2> SUFFICES ASSUME NEW w \in Walks, StageFails(w) PROVE Parked'
    OBVIOUS
  <2> SUFFICES ASSUME run = "suspended" PROVE Parked'
    BY DEF StageFails
  <2>1. phase[w] = "pool" /\ Live(w)
    BY DEF StageFails, PoolDone
  <2>2. PICK s \in Asks : s \in Steps /\ slot[w][s] = "threwSuspension" /\ Question(s)
    BY <2>1, KindsOfSteps
  <2> HIDE DEF Question
  <2>3. \A t \in Steps : t \in Rejected(w) => t = s
    BY <2>1, <2>2 DEF Rejected
  <2>4. First(Rejected(w)) = s
    BY <2>2, <2>3, FirstIsOne DEF Rejected
  <2>5. Classify(w) = "parked"
    BY <2>2, <2>4 DEF Classify
  <2>6. s \notin Unreached(w)
    <3>1. StageOf[s] = stage[w]
      BY <2>1, <2>2
    <3>2. ~(StageOf[s] > stage[w])
      BY <2>2, <3>1, StepsAreStaged
    <3>3. QED BY <2>2, <3>2 DEF Unreached, Waiting, NotDone
  <2>7. Question(s)'
    BY <2>2, <2>6 DEF StageFails, Skipping, Question
  <2>8. QED BY <2>1, <2>2, <2>5, <2>7 DEF StageFails
<1>19. \A w \in Walks : EndOfPlan(w) => Parked'  BY DEF EndOfPlan, FinalVerdicts
<1>20. \A w \in Walks : Settle(w) => Parked'
  <2> SUFFICES ASSUME NEW w \in Walks, Settle(w) PROVE Parked'
    OBVIOUS
  <2>1. /\ Live(w) /\ \A v \in Walks : Live(v) => v = w
        /\ \A v \in Walks : ~(Live(v)')
        /\ UNCHANGED <<step, approval>>
    BY DEF Settle
  <2>2. run' = "suspended" => run = "suspended"
    BY DEF Settle, EndStatus, CanTransition, Verdict
  <2>3. QED BY <2>1, <2>2
<1>21. \A w \in Walks : Cancel(w) => Parked'  BY DEF Cancel
<1>22. \A w \in Walks : Expire(w) => Parked'  BY DEF Expire
<1>23. \A s \in Steps : Decide(s) => Parked'  BY DEF Decide
<1>24. Abandon => Parked'
  <2> SUFFICES ASSUME Abandon PROVE Parked'
    OBVIOUS
  <2> HIDE DEF SerialInv
  <2>1. \A v \in Walks : ~Live(v)
    BY QuietWhenParked DEF Abandon
  <2>2. QED BY <2>1 DEF Abandon, SerialInv
<1>25. Crash => Parked'  BY DEF Crash
<1>26. Restart => Parked'  BY DEF Restart, Interrupted, AfterCrash
<1>27. UNCHANGED vars => Parked'  BY DEF vars
<1> HIDE DEF SerialInv, Walks, rows, walk, host, TypeOK, Thrown, Done, Signalled,
            Aborted, Live, InPlay, Parked, Question, OneStep, Alone, Terminal
<1>28. QED
  BY <1>1, <1>2, <1>3, <1>4, <1>5, <1>6, <1>7, <1>8, <1>9, <1>10,
     <1>11, <1>12, <1>13, <1>14, <1>15, <1>16, <1>17, <1>18, <1>19,
     <1>20, <1>21, <1>22, <1>23, <1>24, <1>25, <1>26, <1>27, Cases

(* A row changes with the walk that drives it, which is the only one. *)
LEMMA RowsStep ==
  ASSUME Serial, SerialInv, [Next]_vars
  PROVE  Rows'
<1> USE DEF SerialInv, Walks, rows, walk, host, TypeOK, Thrown, Done, Signalled,
            Aborted, Live, InPlay, Rows, AnswerMatchesRows, OneStep, Alone, Terminal
<1>1. \A w \in Walks : Create(w) => Rows'  BY DEF Create
<1>2. \A w \in Walks : Resume(w) => Rows'  BY DEF Resume, Restored, Restored
<1>3. \A w \in Walks : Start(w) => Rows'  BY DEF Start
<1>4. \A w \in Walks : PlanFails(w) => Rows'  BY DEF PlanFails
<1>5. \A w \in Walks : PlanSuspends(w) => Rows'  BY DEF PlanSuspends
<1>6. \A w \in Walks : Planned(w) => Rows'  BY DEF Planned
<1>7. \A w \in Walks : SkipStage(w) => Rows'  BY DEF SkipStage, Skipping, NotDone
<1>8. \A w \in Walks : OpenPool(w) => Rows'  BY DEF OpenPool
<1>9. \A w \in Walks : Claim(w) => Rows'
  <2> SUFFICES ASSUME NEW w \in Walks, Claim(w) PROVE Rows'
    OBVIOUS
  <2> HIDE DEF SerialInv
  <2>1. PICK s \in Steps : ClaimedAt(w, s)
    BY ClaimedAlone
  <2>2. QED BY <2>1 DEF SerialInv, ClaimedAt
<1>10. \A w \in Walks, s \in Steps : Succeed(w, s) => Rows'  BY DEF Succeed
<1>11. \A w \in Walks, s \in Steps : Stop(w, s) => Rows'  BY DEF Stop
<1>12. \A w \in Walks, s \in Steps : Fail(w, s) => Rows'  BY DEF Fail
<1>13. \A w \in Walks, s \in Steps : Degrade(w, s) => Rows'  BY DEF Degrade
<1>14. \A w \in Walks, s \in Steps : Ask(w, s) => Rows'  BY DEF Ask, Opened
<1>15. \A w \in Walks, s \in Steps : Park(w, s) => Rows'
  <2> SUFFICES ASSUME NEW w \in Walks, NEW s \in Steps, Park(w, s) PROVE Rows'
    OBVIOUS
  <2> HIDE DEF SerialInv, InPlay
  <2>1. ParkedBy(w, s)
    BY ParksTheRun
  <2>2. InPlay(w, s) /\ PlaysAlone(w, s)
    BY <2>1, PlaysInRunning DEF InPlay, ParkedBy
  <2>3. QED BY <2>1, <2>2 DEF SerialInv, InPlay, ParkedBy, PlaysAlone
<1>16. \A w \in Walks, s \in Steps : Echo(w, s) => Rows'
  <2> HIDE DEF SerialInv
  <2>1. QED BY NobodyEchoes
<1>17. \A w \in Walks : StageEnds(w) => Rows'
  BY DEF StageEnds, PoolDone, Skipping, Rejected, InFlight, Waiting
<1>18. \A w \in Walks : StageFails(w) => Rows'
  BY DEF StageFails, PoolDone, Skipping, InFlight, Unreached, Waiting, NotDone
<1>19. \A w \in Walks : EndOfPlan(w) => Rows'  BY DEF EndOfPlan, FinalVerdicts
<1>20. \A w \in Walks : Settle(w) => Rows'
  <2> SUFFICES ASSUME NEW w \in Walks, Settle(w) PROVE Rows'
    OBVIOUS
  <2>1. /\ phase[w] = "closing" /\ Live(w) /\ up /\ run \notin Terminal
        /\ \A v \in Walks : Live(v) => v = w
    BY DEF Settle
  <2>2. \A s \in Steps : step[s] # "running"
    BY <2>1 DEF WalkShape
  <2>3. run' = "succeeded" => verdict[w] = "succeeded" /\ CanTransition(run, "succeeded")
    BY <2>1 DEF Settle, EndStatus, CanTransition
  <2>4. AnswerMatchesRows'
    <3> SUFFICES ASSUME run' = "succeeded", NEW s \in Steps
                 PROVE  answer'[s] = IF step'[s] \in Done THEN step'[s] ELSE "none"
      OBVIOUS
    <3>1. answer'[s] = IF slot[w][s] \in Done THEN slot[w][s] ELSE "none"
      BY <2>3 DEF Settle
    <3>2. step'[s] = step[s]
      BY DEF Settle
    <3>3. step[s] \in Done \/ slot[w][s] \in Done => slot[w][s] = step[s]
      BY <2>1
    <3>4. QED BY <3>1, <3>2, <3>3
  <2>5. /\ \A v \in Walks, s \in Steps : ~(Live(v)')
        /\ UNCHANGED <<step, slot>> /\ run' # "none"
        /\ \A v \in Walks : (phase[v] = "unused")' => phase[v] = "unused"
    BY <2>1 DEF Settle, EndStatus, CanTransition
  <2>6. QED BY <2>2, <2>4, <2>5
<1>21. \A w \in Walks : Cancel(w) => Rows'  BY DEF Cancel
<1>22. \A w \in Walks : Expire(w) => Rows'  BY DEF Expire
<1>23. \A s \in Steps : Decide(s) => Rows'  BY DEF Decide
<1>24. Abandon => Rows'  BY DEF Abandon
<1>25. Crash => Rows'
  <2> SUFFICES ASSUME Crash PROVE Rows'
    OBVIOUS
  <2>1. \A s \in Steps : step[s] = "running" => run = "running"
    <3> SUFFICES ASSUME NEW s \in Steps, step[s] = "running" PROVE run = "running"
      OBVIOUS
    <3>1. PICK w \in Walks : Live(w) /\ InPlay(w, s)
      BY DEF Crash
    <3> HIDE DEF SerialInv, InPlay
    <3>2. QED BY <3>1, PlaysInRunning DEF PlaysAlone
  <2>2. QED BY <2>1 DEF Crash
<1>26. Restart => Rows'  BY DEF Restart, Interrupted, AfterCrash
<1>27. UNCHANGED vars => Rows'  BY DEF vars
<1> HIDE DEF SerialInv, Walks, rows, walk, host, TypeOK, Thrown, Done, Signalled,
            Aborted, Live, InPlay, Rows, AnswerMatchesRows, OneStep, Alone, Terminal
<1>28. QED
  BY <1>1, <1>2, <1>3, <1>4, <1>5, <1>6, <1>7, <1>8, <1>9, <1>10,
     <1>11, <1>12, <1>13, <1>14, <1>15, <1>16, <1>17, <1>18, <1>19,
     <1>20, <1>21, <1>22, <1>23, <1>24, <1>25, <1>26, <1>27, Cases

(* A walk ends as cancelled when it was told to. *)
LEMMA AskedStep ==
  ASSUME Serial, SerialInv, [Next]_vars
  PROVE  Asked'
<1> USE DEF SerialInv, Walks, rows, walk, host, TypeOK, Thrown, Done, Signalled,
            Aborted, Live, InPlay, Asked, CancelledMeansAsked, OneStep, Alone,
            WalkShape, StepsFire
<1>1. \A w \in Walks : Create(w) => Asked'  BY DEF Create
<1>2. \A w \in Walks : Resume(w) => Asked'  BY DEF Resume, Restored
<1>3. \A w \in Walks : Start(w) => Asked'  BY DEF Start
<1>4. \A w \in Walks : PlanFails(w) => Asked'  BY DEF PlanFails
<1>5. \A w \in Walks : PlanSuspends(w) => Asked'  BY DEF PlanSuspends
<1>6. \A w \in Walks : Planned(w) => Asked'  BY DEF Planned
<1>7. \A w \in Walks : SkipStage(w) => Asked'  BY DEF SkipStage, Skipping, NotDone
<1>8. \A w \in Walks : OpenPool(w) => Asked'  BY DEF OpenPool
<1>9. \A w \in Walks : Claim(w) => Asked'
  <2> SUFFICES ASSUME NEW w \in Walks, Claim(w) PROVE Asked'
    OBVIOUS
  <2> HIDE DEF SerialInv
  <2>1. PICK s \in Steps : ClaimedAt(w, s)
    BY ClaimedAlone
  <2>2. QED BY <2>1 DEF SerialInv, ClaimedAt
<1>10. \A w \in Walks, s \in Steps : Succeed(w, s) => Asked'  BY DEF Succeed
<1>11. \A w \in Walks, s \in Steps : Stop(w, s) => Asked'  BY DEF Stop
<1>12. \A w \in Walks, s \in Steps : Fail(w, s) => Asked'  BY DEF Fail
<1>13. \A w \in Walks, s \in Steps : Degrade(w, s) => Asked'  BY DEF Degrade
<1>14. \A w \in Walks, s \in Steps : Ask(w, s) => Asked'  BY DEF Ask, Opened
<1>15. \A w \in Walks, s \in Steps : Park(w, s) => Asked'
  <2> SUFFICES ASSUME NEW w \in Walks, NEW s \in Steps, Park(w, s) PROVE Asked'
    OBVIOUS
  <2> HIDE DEF SerialInv, InPlay
  <2>1. ParkedBy(w, s)
    BY ParksTheRun
  <2>2. InPlay(w, s) /\ PlaysAlone(w, s)
    BY <2>1, PlaysInRunning DEF InPlay, ParkedBy
  <2>3. QED BY <2>1, <2>2 DEF SerialInv, InPlay, ParkedBy, PlaysAlone
<1>16. \A w \in Walks, s \in Steps : Echo(w, s) => Asked'
  <2> HIDE DEF SerialInv
  <2>1. QED BY NobodyEchoes
<1>17. \A w \in Walks : StageEnds(w) => Asked'
  BY DEF StageEnds, PoolDone, Skipping, Rejected, InFlight, Waiting
<1>18. \A w \in Walks : StageFails(w) => Asked'
  <2> SUFFICES ASSUME NEW w \in Walks, StageFails(w) PROVE Asked'
    OBVIOUS
  <2>1. phase[w] = "pool" /\ Rejected(w) # {}
    BY DEF StageFails, PoolDone
  <2>2. PICK s \in Steps : s = First(Rejected(w)) /\ slot[w][s] \in Thrown
    <3>1. Rejected(w) \subseteq Steps
      BY DEF Rejected
    <3>2. First(Rejected(w)) \in Rejected(w)
      BY <2>1, <3>1, FirstIsOne
    <3>3. QED BY <3>2 DEF Rejected
  <2>3. slot[w][s] = "threwAborted" => cancelled[w] \/ expired[w]
    BY <2>1, <2>2
  <2>4. Classify(w) = "cancelled" => cancelled[w]
    BY <2>2, <2>3 DEF Classify
  <2>5. QED BY <2>1, <2>4 DEF StageFails
<1>19. \A w \in Walks : EndOfPlan(w) => Asked'  BY DEF EndOfPlan, FinalVerdicts
<1>20. \A w \in Walks : Settle(w) => Asked'  BY DEF Settle, EndStatus, CanTransition
<1>21. \A w \in Walks : Cancel(w) => Asked'  BY DEF Cancel
<1>22. \A w \in Walks : Expire(w) => Asked'  BY DEF Expire
<1>23. \A s \in Steps : Decide(s) => Asked'  BY DEF Decide
<1>24. Abandon => Asked'  BY DEF Abandon
<1>25. Crash => Asked'  BY DEF Crash
<1>26. Restart => Asked'  BY DEF Restart, Interrupted, AfterCrash
<1>27. UNCHANGED vars => Asked'  BY DEF vars
<1> HIDE DEF SerialInv, Walks, rows, walk, host, TypeOK, Thrown, Done, Signalled,
            Aborted, Live, InPlay, Asked, CancelledMeansAsked, OneStep, Alone,
            WalkShape, StepsFire
<1>28. QED
  BY <1>1, <1>2, <1>3, <1>4, <1>5, <1>6, <1>7, <1>8, <1>9, <1>10,
     <1>11, <1>12, <1>13, <1>14, <1>15, <1>16, <1>17, <1>18, <1>19,
     <1>20, <1>21, <1>22, <1>23, <1>24, <1>25, <1>26, <1>27, Cases

-----------------------------------------------------------------------------
LEMMA SerialStep ==
  ASSUME Serial, SerialInv, [Next]_vars
  PROVE  SerialInv'
BY AloneStep, OneStepStep, ParkedStep, RowsStep, AskedStep, TypeStep, WalkShapeStep DEF SerialInv

LEMMA SerialInit == Init => SerialInv
<1> SUFFICES ASSUME Init PROVE SerialInv
  OBVIOUS
<1> USE DEF Init, Live, InPlay, Thrown, Done, Terminal
<1>1. TypeOK
  BY InitTypeOK
<1>2. WalkShape
  BY DEF WalkShape, BeforePool, StepsFire
<1>3. Alone /\ OneStep /\ Parked
  BY DEF Alone, OneStep, Parked
<1>4. Rows /\ Asked
  BY DEF Rows, AnswerMatchesRows, Asked, CancelledMeansAsked
<1>5. QED BY <1>1, <1>2, <1>3, <1>4 DEF SerialInv

(* The invariant the theorems below rest on (core/pool.ts, core/orchestrator.ts, *)
(* runtime/run.ts and runtime/recover.ts taken together).                       *)
THEOREM OneAtATime == Serial => (Spec => []SerialInv)
<1> SUFFICES ASSUME Serial PROVE Spec => []SerialInv
  OBVIOUS
<1>1. SerialInv /\ [Next]_vars => SerialInv'
  BY SerialStep
<1>2. QED BY SerialInit, <1>1, PTL DEF Spec

(* What the caller was told each step came to is what the rows say of it,    *)
(* whatever the plan and however often the run was resumed (checkpoint.ts).  *)
THEOREM AnswersAreRight == Serial => (Spec => []AnswerMatchesRows)
<1>1. SerialInv => AnswerMatchesRows
  BY DEF SerialInv, Rows
<1>2. QED BY OneAtATime, <1>1, PTL

(* A run is `cancelled` when somebody asked it to stop: a step that throws    *)
(* the code `aborted` at a deadline does not make it so (classify).          *)
THEOREM CancelledWhenAsked == Serial => (Spec => []CancelledMeansAsked)
<1>1. SerialInv => CancelledMeansAsked
  BY DEF SerialInv, Asked
<1>2. QED BY OneAtATime, <1>1, PTL

(* No row of a run that is over says running, and a run that waits has a      *)
(* question somebody can find (CatchSuspension's one write, AfterCrash).     *)
THEOREM RestsHonestly == Serial => (Spec => []RestIsHonest)
<1>1. SerialInv => RestIsHonest
  <2> SUFFICES ASSUME SerialInv PROVE RestIsHonest
    OBVIOUS
  <2>1. run \in Terminal => \A s \in Steps : step[s] # "running"
    BY DEF SerialInv, Rows, Alone, Terminal
  <2>2. run = "suspended" => \E s \in Asks : step[s] = "pending" /\ approval[s] # "none"
    BY DEF SerialInv, Parked, Question
  <2>3. QED BY <2>1, <2>2 DEF RestIsHonest
<1>2. QED BY OneAtATime, <1>1, PTL

(* Nothing but the end of a walk ends a run, and no walk is left behind. *)
LEMMA OverStep ==
  ASSUME Serial, SerialInv, [Next]_vars
  PROVE  Frozen
<1> USE DEF SerialInv, Walks, rows, walk, host, TypeOK, Thrown, Done, Signalled,
            Aborted, Live, InPlay, Frozen, Alone, Terminal
<1>1. \A w \in Walks : Create(w) => Frozen  BY DEF Create
<1>2. \A w \in Walks : Resume(w) => Frozen  BY DEF Resume, Restored
<1>3. \A w \in Walks : Start(w) => Frozen  BY DEF Start
<1>4. \A w \in Walks : PlanFails(w) => Frozen  BY DEF PlanFails
<1>5. \A w \in Walks : PlanSuspends(w) => Frozen  BY DEF PlanSuspends
<1>6. \A w \in Walks : Planned(w) => Frozen  BY DEF Planned
<1>7. \A w \in Walks : SkipStage(w) => Frozen  BY DEF SkipStage, Skipping, NotDone
<1>8. \A w \in Walks : OpenPool(w) => Frozen  BY DEF OpenPool
<1>9. \A w \in Walks : Claim(w) => Frozen
  <2> SUFFICES ASSUME NEW w \in Walks, Claim(w) PROVE Frozen
    OBVIOUS
  <2> HIDE DEF SerialInv
  <2>1. PICK s \in Steps : ClaimedAt(w, s)
    BY ClaimedAlone
  <2>2. QED BY <2>1 DEF SerialInv, ClaimedAt
<1>10. \A w \in Walks, s \in Steps : Succeed(w, s) => Frozen  BY DEF Succeed
<1>11. \A w \in Walks, s \in Steps : Stop(w, s) => Frozen  BY DEF Stop
<1>12. \A w \in Walks, s \in Steps : Fail(w, s) => Frozen  BY DEF Fail
<1>13. \A w \in Walks, s \in Steps : Degrade(w, s) => Frozen  BY DEF Degrade
<1>14. \A w \in Walks, s \in Steps : Ask(w, s) => Frozen  BY DEF Ask, Opened
<1>15. \A w \in Walks, s \in Steps : Park(w, s) => Frozen
  <2> SUFFICES ASSUME NEW w \in Walks, NEW s \in Steps, Park(w, s) PROVE Frozen
    OBVIOUS
  <2> HIDE DEF SerialInv, InPlay
  <2>1. ParkedBy(w, s)
    BY ParksTheRun
  <2>2. InPlay(w, s) /\ PlaysAlone(w, s)
    BY <2>1, PlaysInRunning DEF InPlay, ParkedBy
  <2>3. QED BY <2>1, <2>2 DEF SerialInv, InPlay, ParkedBy, PlaysAlone
<1>16. \A w \in Walks, s \in Steps : Echo(w, s) => Frozen
  <2> HIDE DEF SerialInv
  <2>1. QED BY NobodyEchoes
<1>17. \A w \in Walks : StageEnds(w) => Frozen
  BY DEF StageEnds, PoolDone, Skipping, Rejected, InFlight, Waiting
<1>18. \A w \in Walks : StageFails(w) => Frozen
  BY DEF StageFails, PoolDone, Skipping, InFlight, Unreached, Waiting, NotDone
<1>19. \A w \in Walks : EndOfPlan(w) => Frozen  BY DEF EndOfPlan, FinalVerdicts
<1>20. \A w \in Walks : Settle(w) => Frozen  BY DEF Settle, EndStatus, CanTransition
<1>21. \A w \in Walks : Cancel(w) => Frozen  BY DEF Cancel
<1>22. \A w \in Walks : Expire(w) => Frozen  BY DEF Expire
<1>23. \A s \in Steps : Decide(s) => Frozen  BY DEF Decide
<1>24. Abandon => Frozen  BY DEF Abandon
<1>25. Crash => Frozen  BY DEF Crash
<1>26. Restart => Frozen  BY DEF Restart, Interrupted, AfterCrash
<1>27. UNCHANGED vars => Frozen  BY DEF vars
<1> HIDE DEF SerialInv, Walks, rows, walk, host, TypeOK, Thrown, Done, Signalled,
            Aborted, Live, InPlay, Frozen, Alone, Terminal
<1>28. QED
  BY <1>1, <1>2, <1>3, <1>4, <1>5, <1>6, <1>7, <1>8, <1>9, <1>10,
     <1>11, <1>12, <1>13, <1>14, <1>15, <1>16, <1>17, <1>18, <1>19,
     <1>20, <1>21, <1>22, <1>23, <1>24, <1>25, <1>26, <1>27, Cases

(* A step that is done is not claimed, skipped, asked or parked again. *)
LEMMA KeptStep ==
  ASSUME Serial, SerialInv, [Next]_vars
  PROVE  Kept
<1> USE DEF SerialInv, Walks, rows, walk, host, TypeOK, Thrown, Done, Signalled,
            Aborted, Live, InPlay, Kept, Rows, OneStep, Alone
<1>1. \A w \in Walks : Create(w) => Kept  BY DEF Create
<1>2. \A w \in Walks : Resume(w) => Kept  BY DEF Resume, Restored
<1>3. \A w \in Walks : Start(w) => Kept  BY DEF Start
<1>4. \A w \in Walks : PlanFails(w) => Kept  BY DEF PlanFails
<1>5. \A w \in Walks : PlanSuspends(w) => Kept  BY DEF PlanSuspends
<1>6. \A w \in Walks : Planned(w) => Kept  BY DEF Planned
<1>7. \A w \in Walks : SkipStage(w) => Kept  BY DEF SkipStage, Skipping, NotDone
<1>8. \A w \in Walks : OpenPool(w) => Kept  BY DEF OpenPool
<1>9. \A w \in Walks : Claim(w) => Kept
  <2> SUFFICES ASSUME NEW w \in Walks, Claim(w) PROVE Kept
    OBVIOUS
  <2> HIDE DEF SerialInv
  <2>1. PICK s \in Steps : ClaimedAt(w, s)
    BY ClaimedAlone
  <2>2. QED BY <2>1 DEF SerialInv, ClaimedAt
<1>10. \A w \in Walks, s \in Steps : Succeed(w, s) => Kept  BY DEF Succeed
<1>11. \A w \in Walks, s \in Steps : Stop(w, s) => Kept  BY DEF Stop
<1>12. \A w \in Walks, s \in Steps : Fail(w, s) => Kept  BY DEF Fail
<1>13. \A w \in Walks, s \in Steps : Degrade(w, s) => Kept  BY DEF Degrade
<1>14. \A w \in Walks, s \in Steps : Ask(w, s) => Kept  BY DEF Ask, Opened
<1>15. \A w \in Walks, s \in Steps : Park(w, s) => Kept
  <2> SUFFICES ASSUME NEW w \in Walks, NEW s \in Steps, Park(w, s) PROVE Kept
    OBVIOUS
  <2> HIDE DEF SerialInv, InPlay
  <2>1. ParkedBy(w, s)
    BY ParksTheRun
  <2>2. InPlay(w, s) /\ PlaysAlone(w, s)
    BY <2>1, PlaysInRunning DEF InPlay, ParkedBy
  <2>3. QED BY <2>1, <2>2 DEF SerialInv, InPlay, ParkedBy, PlaysAlone
<1>16. \A w \in Walks, s \in Steps : Echo(w, s) => Kept
  <2> HIDE DEF SerialInv
  <2>1. QED BY NobodyEchoes
<1>17. \A w \in Walks : StageEnds(w) => Kept
  BY DEF StageEnds, PoolDone, Skipping, Rejected, InFlight, Waiting
<1>18. \A w \in Walks : StageFails(w) => Kept
  BY DEF StageFails, PoolDone, Skipping, InFlight, Unreached, Waiting, NotDone
<1>19. \A w \in Walks : EndOfPlan(w) => Kept  BY DEF EndOfPlan, FinalVerdicts
<1>20. \A w \in Walks : Settle(w) => Kept  BY DEF Settle, EndStatus, CanTransition
<1>21. \A w \in Walks : Cancel(w) => Kept  BY DEF Cancel
<1>22. \A w \in Walks : Expire(w) => Kept  BY DEF Expire
<1>23. \A s \in Steps : Decide(s) => Kept  BY DEF Decide
<1>24. Abandon => Kept  BY DEF Abandon
<1>25. Crash => Kept  BY DEF Crash
<1>26. Restart => Kept  BY DEF Restart, Interrupted, AfterCrash
<1>27. UNCHANGED vars => Kept  BY DEF vars
<1> HIDE DEF SerialInv, Walks, rows, walk, host, TypeOK, Thrown, Done, Signalled,
            Aborted, Live, InPlay, Kept, Rows, OneStep, Alone
<1>28. QED
  BY <1>1, <1>2, <1>3, <1>4, <1>5, <1>6, <1>7, <1>8, <1>9, <1>10,
     <1>11, <1>12, <1>13, <1>14, <1>15, <1>16, <1>17, <1>18, <1>19,
     <1>20, <1>21, <1>22, <1>23, <1>24, <1>25, <1>26, <1>27, Cases

(* A walk that parked the run leaves the row as it is when it ends. *)
LEMMA WaitsStep ==
  ASSUME Serial, SerialInv, [Next]_vars
  PROVE  Waited
<1> USE DEF SerialInv, Walks, rows, walk, host, TypeOK, Thrown, Done, Signalled,
            Aborted, Live, InPlay, Waited, Parked, Question, OneStep
<1>1. \A w \in Walks : Create(w) => Waited  BY DEF Create
<1>2. \A w \in Walks : Resume(w) => Waited  BY DEF Resume, Restored
<1>3. \A w \in Walks : Start(w) => Waited  BY DEF Start
<1>4. \A w \in Walks : PlanFails(w) => Waited  BY DEF PlanFails
<1>5. \A w \in Walks : PlanSuspends(w) => Waited  BY DEF PlanSuspends
<1>6. \A w \in Walks : Planned(w) => Waited  BY DEF Planned
<1>7. \A w \in Walks : SkipStage(w) => Waited  BY DEF SkipStage, Skipping, NotDone
<1>8. \A w \in Walks : OpenPool(w) => Waited  BY DEF OpenPool
<1>9. \A w \in Walks : Claim(w) => Waited
  <2> SUFFICES ASSUME NEW w \in Walks, Claim(w) PROVE Waited
    OBVIOUS
  <2> HIDE DEF SerialInv
  <2>1. PICK s \in Steps : ClaimedAt(w, s)
    BY ClaimedAlone
  <2>2. QED BY <2>1 DEF SerialInv, ClaimedAt
<1>10. \A w \in Walks, s \in Steps : Succeed(w, s) => Waited  BY DEF Succeed
<1>11. \A w \in Walks, s \in Steps : Stop(w, s) => Waited  BY DEF Stop
<1>12. \A w \in Walks, s \in Steps : Fail(w, s) => Waited  BY DEF Fail
<1>13. \A w \in Walks, s \in Steps : Degrade(w, s) => Waited  BY DEF Degrade
<1>14. \A w \in Walks, s \in Steps : Ask(w, s) => Waited  BY DEF Ask, Opened
<1>15. \A w \in Walks, s \in Steps : Park(w, s) => Waited
  <2> SUFFICES ASSUME NEW w \in Walks, NEW s \in Steps, Park(w, s) PROVE Waited
    OBVIOUS
  <2> HIDE DEF SerialInv, InPlay
  <2>1. ParkedBy(w, s)
    BY ParksTheRun
  <2>2. InPlay(w, s) /\ PlaysAlone(w, s)
    BY <2>1, PlaysInRunning DEF InPlay, ParkedBy
  <2>3. QED BY <2>1, <2>2 DEF SerialInv, InPlay, ParkedBy, PlaysAlone
<1>16. \A w \in Walks, s \in Steps : Echo(w, s) => Waited
  <2> HIDE DEF SerialInv
  <2>1. QED BY NobodyEchoes
<1>17. \A w \in Walks : StageEnds(w) => Waited
  BY DEF StageEnds, PoolDone, Skipping, Rejected, InFlight, Waiting
<1>18. \A w \in Walks : StageFails(w) => Waited
  BY DEF StageFails, PoolDone, Skipping, InFlight, Unreached, Waiting, NotDone
<1>19. \A w \in Walks : EndOfPlan(w) => Waited  BY DEF EndOfPlan, FinalVerdicts
<1>20. \A w \in Walks : Settle(w) => Waited  BY DEF Settle, EndStatus, CanTransition
<1>21. \A w \in Walks : Cancel(w) => Waited  BY DEF Cancel
<1>22. \A w \in Walks : Expire(w) => Waited  BY DEF Expire
<1>23. \A s \in Steps : Decide(s) => Waited  BY DEF Decide
<1>24. Abandon => Waited  BY DEF Abandon
<1>25. Crash => Waited  BY DEF Crash
<1>26. Restart => Waited  BY DEF Restart, Interrupted, AfterCrash
<1>27. UNCHANGED vars => Waited  BY DEF vars
<1> HIDE DEF SerialInv, Walks, rows, walk, host, TypeOK, Thrown, Done, Signalled,
            Aborted, Live, InPlay, Waited, Parked, Question, OneStep
<1>28. QED
  BY <1>1, <1>2, <1>3, <1>4, <1>5, <1>6, <1>7, <1>8, <1>9, <1>10,
     <1>11, <1>12, <1>13, <1>14, <1>15, <1>16, <1>17, <1>18, <1>19,
     <1>20, <1>21, <1>22, <1>23, <1>24, <1>25, <1>26, <1>27, Cases

(* A finished run is history: no late step, stray walk or recovery writes to *)
(* its rows (runs/state.ts, runtime/run.ts, runtime/recover.ts).             *)
THEOREM FinishedIsFrozen == Serial => (Spec => FinishedRunIsFrozen)
<1> SUFFICES ASSUME Serial PROVE Spec => FinishedRunIsFrozen
  OBVIOUS
<1>1. SerialInv /\ [Next]_vars => [Frozen]_vars
  BY OverStep
<1>2. QED BY OneAtATime, <1>1, PTL DEF Spec, FinishedRunIsFrozen, Frozen

(* A step that is ok or degraded stays so over every resume and every crash   *)
(* (notDone and completedSteps of core/orchestrator.ts).                     *)
THEOREM ResultsKept == Serial => (Spec => ResultsAreKept)
<1> SUFFICES ASSUME Serial PROVE Spec => ResultsAreKept
  OBVIOUS
<1>1. SerialInv /\ [Next]_vars => [Kept]_vars
  BY KeptStep
<1>2. QED BY OneAtATime, <1>1, PTL DEF Spec, ResultsAreKept, Kept

(* A run that waits is taken up or given up by a person: neither the walk     *)
(* that parked it nor the recovery of a crash moves it (settleFailure).      *)
THEOREM WaitsForAPerson == Serial => (Spec => ParkedWaitsForAPerson)
<1> SUFFICES ASSUME Serial PROVE Spec => ParkedWaitsForAPerson
  OBVIOUS
<1>1. SerialInv /\ [Next]_vars => [Waited]_vars
  BY WaitsStep
<1>2. QED BY OneAtATime, <1>1, PTL DEF Spec, ParkedWaitsForAPerson, Waited
==============================================================================
