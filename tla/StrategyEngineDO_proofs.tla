----------------------- MODULE StrategyEngineDO_proofs -----------------------
(***************************************************************************)
(* Theorems about StrategyEngineDO.  What the plan's volume is comes       *)
(* first, then the operators of RunState; then type correctness, that a    *)
(* running run with work queued is always woken again, and that no volume  *)
(* is counted beyond the target.  The rest is what the object promises of  *)
(* a run: its status and its name change only as RunLifecycle says; no     *)
(* task is traded twice and no superseded one is; what the metrics count   *)
(* was traded; an event counts once; a run without events trades its plan  *)
(* and no more, and completes when done.                                   *)
(***************************************************************************)
EXTENDS StrategyEngineDO, SequenceTheorems, FiniteSetTheorems, WellFoundedInduction,
        TLAPS

-----------------------------------------------------------------------------
(* The volume of the plan, side by side.                                    *)

(* The plan's volume is a fold over its tasks, last one first; what is to   *)
(* be known of it is what the first so many tasks add up to.  It is shown   *)
(* of the smallest set of tasks for which it could fail, as the finite sets *)
(* are well founded by inclusion.                                           *)

\* Among some subsets of a finite set there is a smallest.
LEMMA SmallestSet ==
  ASSUME NEW S, IsFiniteSet(S), NEW T, T \subseteq SUBSET S, T # {}
  PROVE  \E U \in T : \A V \in T : V \subseteq U => V = U
<1>1. T \subseteq FiniteSubsetsOf(S)
  BY FS_Subset DEF FiniteSubsetsOf
<1>2. PICK U \in T : \A V \in T : ~(<<V, U>> \in StrictSubsetOrdering(S))
  BY <1>1, FS_StrictSubsetOrderingWellFounded, WFMin
<1> QED
  BY <1>2 DEF StrictSubsetOrdering

\* The volume of task k on side d, and h as what each set of tasks adds up to.
Share(k, d) == IF BasePlan[k].side = d THEN BasePlan[k].amt ELSE 0
AddsUp(h, d, S) ==
    /\ h \in [SUBSET S -> Nat]
    /\ h[{}] = 0
    /\ \A s \in SUBSET S : \A k \in s : h[s] = h[s \ {k}] + Share(k, d)

Slots == 1 .. Len(BasePlan)

\* The tasks' volumes are natural numbers.
LEMMA ShareNat ==
  /\ DOMAIN BasePlan = Slots /\ Len(BasePlan) \in Nat /\ IsFiniteSet(Slots)
  /\ \A k \in Slots : BasePlan[k] \in [side : Sides, amt : Nat \ {0}]
  /\ \A k \in Slots : \A d : Share(k, d) \in Nat
<1>1. BasePlan \in Seq([side : Sides, amt : Nat \ {0}])
  BY PlanAssumption
<1>2. DOMAIN BasePlan = Slots /\ Len(BasePlan) \in Nat
  BY <1>1 DEF Slots
<1>3. \A k \in Slots : BasePlan[k] \in [side : Sides, amt : Nat \ {0}]
  BY <1>1, ElementOfSeq DEF Slots
<1>4. \A k \in Slots : \A d : Share(k, d) \in Nat
  BY <1>3 DEF Share
<1>5. IsFiniteSet(Slots)
  BY <1>2, FS_Interval DEF Slots
<1> QED
  BY <1>2, <1>3, <1>4, <1>5

\* There is such an h.
LEMMA SharesAddUp ==
  ASSUME NEW d, NEW S, S \subseteq Slots
  PROVE  \E h : AddsUp(h, d, S)
<1> DEFINE T == {U \in SUBSET S : ~ \E h : AddsUp(h, d, U)}
<1>1. SUFFICES ASSUME T # {} PROVE FALSE
  OBVIOUS
<1>2. PICK U \in T : \A V \in T : V \subseteq U => V = U
  <2> HIDE DEF T
  <2>1. T \subseteq SUBSET S /\ IsFiniteSet(S)
    BY ShareNat, FS_Subset DEF T
  <2> QED
    BY <1>1, <2>1, SmallestSet
<1>3. CASE U = {}
  <2> DEFINE h == [s \in SUBSET {} |-> 0]
  <2>1. AddsUp(h, d, {})
    BY DEF AddsUp
  <2> QED
    BY <1>2, <1>3, <2>1
<1>4. CASE U # {}
  <2>1. PICK a \in U : TRUE
    BY <1>4
  <2>2. U \ {a} \in SUBSET S /\ U \ {a} \notin T /\ a \in Slots
    BY <1>2
  <2>3. PICK g : AddsUp(g, d, U \ {a})
    BY <2>2
  <2>4. \A k \in U : Share(k, d) \in Nat
    BY <1>2, ShareNat
  <2>5. /\ g[{}] = 0
        /\ \A s \in SUBSET (U \ {a}) : g[s] \in Nat
        /\ \A s \in SUBSET (U \ {a}) : \A b \in s : g[s] = g[s \ {b}] + Share(b, d)
    BY <2>3 DEF AddsUp
  <2> DEFINE h == [s \in SUBSET U |-> IF a \in s THEN g[s \ {a}] + Share(a, d) ELSE g[s]]
  <2>6. h \in [SUBSET U -> Nat]
    <3> SUFFICES ASSUME NEW s \in SUBSET U PROVE h[s] \in Nat
      OBVIOUS
    <3>1. s \ {a} \in SUBSET (U \ {a})
      OBVIOUS
    <3>2. a \notin s => s \in SUBSET (U \ {a})
      OBVIOUS
    <3>3. Share(a, d) \in Nat
      BY <2>4
    <3> QED
      BY <2>5, <3>1, <3>2, <3>3
  <2>7. h[{}] = 0
    BY <2>5
  <2>8. ASSUME NEW s \in SUBSET U, NEW b \in s
        PROVE  h[s] = h[s \ {b}] + Share(b, d)
    <3>1. s \ {b} \in SUBSET U /\ s \ {a} \in SUBSET (U \ {a})
          /\ (s \ {a}) \ {b} \in SUBSET (U \ {a}) /\ (s \ {a}) \ {b} = (s \ {b}) \ {a}
      OBVIOUS
    <3>2. Share(b, d) \in Nat /\ Share(a, d) \in Nat
      BY <2>4
    <3>3. CASE b = a
      BY <3>1, <3>3
    <3>4. CASE b # a /\ a \in s
      <4>1. h[s] = g[s \ {a}] + Share(a, d) /\ h[s \ {b}] = g[(s \ {b}) \ {a}] + Share(a, d)
        BY <3>1, <3>4
      <4>2. g[s \ {a}] = g[(s \ {a}) \ {b}] + Share(b, d)
        BY <2>5, <3>1, <3>4
      <4>3. g[(s \ {a}) \ {b}] \in Nat
        BY <2>5, <3>1
      <4>4. h[s \ {b}] = g[(s \ {a}) \ {b}] + Share(a, d)
        BY <3>1, <4>1
      <4> HIDE DEF h
      <4>5. \A x, y, z \in Nat : (x + y) + z = (x + z) + y
        OBVIOUS
      <4> QED
        BY <3>2, <4>1, <4>2, <4>3, <4>4, <4>5
    <3>5. CASE b # a /\ a \notin s
      <4>1. s \in SUBSET (U \ {a})
        BY <3>5
      <4> QED
        BY <2>5, <3>1, <3>5, <4>1
    <3> QED
      BY <3>3, <3>4, <3>5
  <2>9. AddsUp(h, d, U)
    BY <2>6, <2>7, <2>8 DEF AddsUp
  <2> QED
    BY <1>2, <2>9
<1> QED
  BY <1>3, <1>4

\* The last of some tasks is one of them.
LEMMA LastTask == \A s \in SUBSET Slots : s # {} => Max(s) \in s
<1> SUFFICES ASSUME NEW s \in SUBSET Slots, s # {} PROVE Max(s) \in s
  OBVIOUS
<1> DEFINE R == {p \in Nat \X Nat : p[1] < p[2]}
           C == {n \in Nat : Len(BasePlan) - n \in s}
<1>1. Len(BasePlan) \in Nat /\ \A k \in s : k \in Nat /\ k <= Len(BasePlan)
  BY ShareNat DEF Slots
<1>2. C # {}
  <2>1. PICK k \in s : TRUE
    OBVIOUS
  <2>2. Len(BasePlan) - k \in Nat /\ Len(BasePlan) - (Len(BasePlan) - k) = k
    BY <1>1
  <2> QED
    BY <2>2
<1>3. IsWellFoundedOn(R, Nat)
  BY NatLessThanWellFounded DEF OpToRel
<1>4. PICK n \in C : \A m \in C : ~(<<m, n>> \in R)
  <2> HIDE DEF R
  <2>1. C \subseteq Nat
    OBVIOUS
  <2> HIDE DEF C
  <2> QED
    BY <1>2, <1>3, <2>1, WFMin
<1> DEFINE x == Len(BasePlan) - n
<1>5. x \in s
  OBVIOUS
<1>6. ASSUME NEW y \in s PROVE x >= y
  <2>1. Len(BasePlan) - y \in C /\ n \in Nat
    BY <1>1
  <2>2. ~(Len(BasePlan) - y < n)
    BY <1>4, <2>1
  <2> QED
    BY <1>1, <2>1, <2>2
<1> HIDE DEF x
<1> QED
  BY <1>5, <1>6 DEF Max

\* The fold takes the last task first.
LEMMA BaseVolumeAddsUp ==
  ASSUME NEW d, NEW h, AddsUp(h, d, Slots)
  PROVE  BaseVolume(d) = h[Slots]
<1> DEFINE iter[s \in SUBSET Slots] ==
             IF s = {} THEN 0
             ELSE LET x == Max(s)
                  IN  IF BasePlan[x].side = d
                      THEN iter[s \ {x}] + BasePlan[x].amt
                      ELSE iter[s \ {x}]
           c == [s \in SUBSET Slots |-> Max(s)]
           Step(g, s) == IF BasePlan[c[s]].side = d
                         THEN g[s \ {c[s]}] + BasePlan[c[s]].amt
                         ELSE g[s \ {c[s]}]
           IsIter(g) == g = [s \in SUBSET Slots |-> IF s = {} THEN 0 ELSE Step(g, s)]
<1>1. \A s \in SUBSET Slots : s # {} => c[s] \in s
  BY LastTask
<1>2. \A s \in SUBSET Slots : h[s] \in Nat
  BY DEF AddsUp
<1>3. ASSUME NEW s \in SUBSET Slots, s # {}
      PROVE  h[s] = Step(h, s)
  <2> HIDE DEF c
  <2>1. c[s] \in s /\ s \ {c[s]} \in SUBSET Slots
    BY <1>1, <1>3
  <2>2. h[s] = h[s \ {c[s]}] + Share(c[s], d)
    BY <2>1 DEF AddsUp
  <2>3. h[s \ {c[s]}] \in Nat
    BY <1>2, <2>1
  <2> QED
    BY <2>2, <2>3 DEF Share
<1>4. IsIter(h)
  <2>1. \A s \in SUBSET Slots : h[s] = IF s = {} THEN 0 ELSE Step(h, s)
    <3> HIDE DEF c, Step
    <3> QED
      BY <1>3 DEF AddsUp
  <2>2. h = [s \in SUBSET Slots |-> h[s]]
    BY DEF AddsUp
  <2> HIDE DEF c, Step
  <2> QED
    BY <2>1, <2>2
<1>5. iter = CHOOSE g : g = [s \in SUBSET Slots |->
         IF s = {} THEN 0
         ELSE LET x == Max(s)
              IN  IF BasePlan[x].side = d
                  THEN g[s \ {x}] + BasePlan[x].amt
                  ELSE g[s \ {x}]]
  OBVIOUS
<1>6. \A g : IsIter(g) <=> g = [s \in SUBSET Slots |->
         IF s = {} THEN 0
         ELSE LET x == Max(s)
              IN  IF BasePlan[x].side = d
                  THEN g[s \ {x}] + BasePlan[x].amt
                  ELSE g[s \ {x}]]
  OBVIOUS
<1>7. IsIter(iter)
  <2> HIDE DEF IsIter, c
  <2> QED
    BY <1>4, <1>6
<1>8. \A s \in SUBSET Slots : iter[s] = IF s = {} THEN 0 ELSE Step(iter, s)
  <2> HIDE DEF c, iter, Step
  <2> QED
    BY <1>7
<1> HIDE DEF iter, c
<1> DEFINE T == {s \in SUBSET Slots : iter[s] # h[s]}
<1>9. T = {}
  <2>1. SUFFICES ASSUME T # {} PROVE FALSE
    OBVIOUS
  <2>2. PICK U \in T : \A V \in T : V \subseteq U => V = U
    <3>1. T \subseteq SUBSET Slots
      OBVIOUS
    <3> HIDE DEF T
    <3> QED
      BY <2>1, <3>1, ShareNat, SmallestSet
  <2>3. U \in SUBSET Slots /\ iter[U] # h[U]
    OBVIOUS
  <2>4. U # {}
    BY <1>8, <2>3 DEF AddsUp
  <2>5. c[U] \in U
    BY <1>1, <2>3, <2>4
  <2>6. U \ {c[U]} \in SUBSET Slots /\ U \ {c[U]} # U
    BY <2>3, <2>5
  <2>7. iter[U \ {c[U]}] = h[U \ {c[U]}]
    BY <2>2, <2>6
  <2>8. Step(iter, U) = Step(h, U)
    BY <2>7
  <2> HIDE DEF Step
  <2> QED
    BY <1>3, <1>8, <2>3, <2>4, <2>8
<1>10. iter[Slots] = h[Slots]
  BY <1>9
<1>11. BaseVolume(d) = iter[Slots]
  <2>1. DOMAIN BasePlan = Slots
    BY ShareNat
  <2> QED
    BY <2>1 DEF BaseVolume, FoldLeft, MapThenFoldSet, iter
<1> QED
  BY <1>10, <1>11

\* The volume of the plan is a natural number.
LEMMA BaseVolumeNat == \A d \in Sides : BaseVolume(d) \in Nat
<1> SUFFICES ASSUME NEW d \in Sides PROVE BaseVolume(d) \in Nat
  OBVIOUS
<1>1. Slots \subseteq Slots /\ Slots \in SUBSET Slots
  OBVIOUS
<1>2. PICK h : AddsUp(h, d, Slots)
  BY <1>1, SharesAddUp
<1>3. h[Slots] \in Nat
  BY <1>1, <1>2 DEF AddsUp
<1> QED
  BY <1>2, <1>3, BaseVolumeAddsUp

-----------------------------------------------------------------------------
(* The operators of RunState map states to states.                          *)

\* Subtraction that stops at zero.
LEMMA MonusNat == \A a, b \in Nat : Monus(a, b) \in Nat
  BY DEF Monus

\* The placeholder for no task is not a task: it has no volume.
LEMMA NoTaskNotTask == NoTask \notin Task
  BY DEF NoTask, Task

\* The state of an object that was never started is well formed.
LEMMA IdleState == Idle \in State
<1>1. NoConfig \in Config /\ NoSnapshot \in Snapshot
  BY DEF NoConfig, Config, NoSnapshot, Snapshot, SnapStatuses
<1>2. <<>> \in Seq(Task) /\ <<>> \in Seq(Txs) /\ 0 \in 0 .. MaxPlans
  BY BoundsAssumption
<1> QED
  BY <1>1, <1>2 DEF Idle, State, Statuses

-----------------------------------------------------------------------------
(* Volumes.                                                                 *)

\* What remains to trade on each side is a volume.
LEMMA RemainingNat == \A s \in State : Remaining(s) \in [Sides -> Nat]
<1> TAKE s \in State
<1>1. \A d \in Sides : s.resp[d] \in Nat /\ s.exec[d] \in Nat /\ BaseVolume(d) \in Nat
  BY BaseVolumeNat DEF State
<1>2. s.red \in Nat
  BY DEF State
<1> QED
  BY <1>1, <1>2 DEF Remaining, Monus

\* The volume traded so far and the target it is held against are volumes.
LEMMA VolumesNat == \A s \in State : Volume(s) \in Nat /\ ManagedTarget(s) \in Nat
<1> TAKE s \in State
<1>1. \A d \in Sides : s.resp[d] \in Nat /\ s.exec[d] \in Nat
  BY DEF State
<1>2. Monus(TargetVolume, s.red) \in Nat
  BY MonusNat, PlanAssumption DEF State
<1>3. "buy" \in Sides /\ "sell" \in Sides
  BY DEF Sides
<1> QED
  BY <1>1, <1>2, <1>3 DEF Volume, ManagedTarget

\* applyExecutedTask keeps a state and counts at most the volume executed.
LEMMA CreditState ==
  ASSUME NEW s \in State, NEW d \in Sides, NEW vol \in Nat
  PROVE  /\ Credit(s, d, vol) \in State
         /\ Volume(Credit(s, d, vol)) - Volume(s) \in 0 .. vol
<1> DEFINE room == Monus(ManagedTarget(s), Volume(s))
           counted == IF vol < room THEN vol ELSE room
<1>1. room \in Nat
  BY MonusNat, VolumesNat
<1>2. counted \in 0 .. vol
  BY <1>1
<1> HIDE DEF room, counted
<1>3. s.exec \in [Sides -> Nat]
  BY DEF State
<1>4. Credit(s, d, vol) = [s EXCEPT !.exec[d] = @ + counted]
  BY DEF Credit, room, counted
<1>5. [s.exec EXCEPT ![d] = @ + counted] \in [Sides -> Nat]
  BY <1>2, <1>3
<1>6. Credit(s, d, vol) = [s EXCEPT !.exec = [s.exec EXCEPT ![d] = @ + counted]]
  BY <1>4
<1>7. Credit(s, d, vol) \in State
  BY <1>5, <1>6 DEF State
<1>8. Credit(s, d, vol).exec = [s.exec EXCEPT ![d] = @ + counted]
  BY <1>4 DEF State
<1>9. Volume(Credit(s, d, vol)) - Volume(s) = counted
  BY <1>2, <1>3, <1>8 DEF Volume, Sides
<1> QED
  BY <1>2, <1>7, <1>9

-----------------------------------------------------------------------------
(* The queue and the snapshots.                                             *)

\* Inserting a task keeps a queue of tasks, and leaves it nonempty.
LEMMA InsertTask ==
  ASSUME NEW q \in Seq(Task), NEW t \in Task, NEW pos \in 1 .. Len(q) + 1
  PROVE  InsertAt(q, pos, t) \in Seq(Task) /\ InsertAt(q, pos, t) # <<>>
<1> DEFINE front == SubSeq(q, 1, pos - 1)
           back == SubSeq(q, pos, Len(q))
<1>1. front \in Seq(Task) /\ back \in Seq(Task) /\ <<t>> \in Seq(Task)
  OBVIOUS
<1>2. <<t>> # <<>>
  OBVIOUS
<1> HIDE DEF front, back
<1>3. front \o <<t>> \in Seq(Task) /\ front \o <<t>> # <<>>
  BY <1>1, <1>2, ConcatProperties, ConcatEqualIffEmpty
<1>4. (front \o <<t>>) \o back \in Seq(Task) /\ (front \o <<t>>) \o back # <<>>
  BY <1>1, <1>3, ConcatProperties, ConcatEqualIffEmpty
<1> QED
  BY <1>4 DEF InsertAt, front, back

\* Making snapshots for a set of ids gives a table of snapshots.
LEMMA SnapshotsMade ==
  ASSUME NEW snap \in [TaskIds -> Snapshot], NEW ids
  PROVE  WithSnapshots(snap, ids) \in [TaskIds -> Snapshot]
  BY DEF WithSnapshots, Snapshot, SnapStatuses

\* enqueueTask keeps a state; only the queue and the snapshots change.
LEMMA EnqueueState ==
  ASSUME NEW s \in State, NEW t \in Task, NEW pos \in 1 .. Len(s.pending) + 1
  PROVE  /\ Enqueue(s, t, pos) \in State
         /\ Enqueue(s, t, pos).status = s.status
         /\ Enqueue(s, t, pos).pending # <<>>
<1>1. s.pending \in Seq(Task) /\ s.snap \in [TaskIds -> Snapshot]
  BY DEF State
<1>2. InsertAt(s.pending, pos, t) \in Seq(Task) /\ InsertAt(s.pending, pos, t) # <<>>
  BY <1>1, InsertTask
<1>3. WithSnapshots(s.snap, {t.id}) \in [TaskIds -> Snapshot]
  BY <1>1, SnapshotsMade
<1> QED
  BY <1>2, <1>3 DEF Enqueue, State

\* Enqueueing a plan keeps a state; only the queue and the snapshots change.
LEMMA EnqueueAllState ==
  ASSUME NEW s \in State, NEW q \in Seq(Task)
  PROVE  /\ EnqueueAll(s, q) \in State
         /\ EnqueueAll(s, q).status = s.status
         /\ EnqueueAll(s, q).cfg = s.cfg
<1>1. s.pending \in Seq(Task) /\ s.snap \in [TaskIds -> Snapshot]
  BY DEF State
<1>2. s.pending \o q \in Seq(Task)
  BY <1>1, ConcatProperties
<1>3. WithSnapshots(s.snap, IdsOf(q)) \in [TaskIds -> Snapshot]
  BY <1>1, SnapshotsMade
<1> QED
  BY <1>2, <1>3 DEF EnqueueAll, State

\* Superseding keeps a state and empties the queue.
LEMMA SupersedeState ==
  ASSUME NEW s \in State
  PROVE  /\ Supersede(s) \in State
         /\ Supersede(s).status = s.status
         /\ Supersede(s).pending = <<>>
<1> DEFINE table == [i \in TaskIds |-> IF i \in IdsOf(s.pending)
                                       THEN [s.snap[i] EXCEPT !.status = "superseded"]
                                       ELSE s.snap[i]]
<1>1. table \in [TaskIds -> Snapshot]
  BY DEF State, Snapshot, SnapStatuses
<1>2. Supersede(s) = [[s EXCEPT !.snap = table] EXCEPT !.pending = <<>>]
  BY DEF Supersede
<1> HIDE DEF table
<1>3. <<>> \in Seq(Task)
  OBVIOUS
<1> QED
  BY <1>1, <1>2, <1>3 DEF State

\* Marking a task done keeps a state; only a snapshot changes.
LEMMA MarkDoneState ==
  ASSUME NEW s \in State, NEW i \in TaskIds
  PROVE  /\ MarkDone(s, i) \in State
         /\ MarkDone(s, i).status = s.status
         /\ MarkDone(s, i).pending = s.pending
<1> DEFINE entry == IF s.snap[i].status = "none" THEN s.snap[i]
                    ELSE [status |-> "done", attempts |-> s.snap[i].attempts + 1]
<1>1. s.snap \in [TaskIds -> Snapshot] /\ s.snap[i] \in Snapshot
  BY DEF State
<1>2. entry \in Snapshot
  BY <1>1 DEF Snapshot, SnapStatuses
<1>3. MarkDone(s, i) = [s EXCEPT !.snap[i] = entry]
  BY DEF MarkDone
<1> HIDE DEF entry
<1>4. [s.snap EXCEPT ![i] = entry] \in [TaskIds -> Snapshot]
  BY <1>1, <1>2
<1> QED
  BY <1>3, <1>4 DEF State

\* markCompleted keeps a state, completed and with an empty queue.
LEMMA CompletedState ==
  ASSUME NEW s \in State
  PROVE  /\ Completed(s) \in State
         /\ Completed(s).status = "completed"
         /\ Completed(s).pending = <<>>
  BY SupersedeState DEF Completed, State, Statuses

-----------------------------------------------------------------------------
(* Plans.                                                                   *)

\* The tasks of a plan are tasks.
LEMMA BaseTasksSeq == \A plan \in 0 .. MaxPlans : BaseTasks(plan) \in Seq(Task)
<1> TAKE plan \in 0 .. MaxPlans
<1>1. BasePlan \in Seq([side : Sides, amt : Nat \ {0}]) /\ MaxPlans \in Nat
  BY PlanAssumption, BoundsAssumption
<1>2. Len(BasePlan) \in Nat /\ DOMAIN BasePlan = 1 .. Len(BasePlan)
  BY <1>1
<1>3. \A k \in 1 .. Len(BasePlan) : BaseTask(k, plan) \in Task
  <2> TAKE k \in 1 .. Len(BasePlan)
  <2>1. BasePlan[k] \in [side : Sides, amt : Nat \ {0}]
    BY <1>1, ElementOfSeq
  <2>2. <<plan, k>> \in TaskIds
    BY <1>2 DEF TaskIds, MaxTasks
  <2> QED
    BY <2>1, <2>2 DEF BaseTask, Task, Sources
<1>4. BaseTasks(plan) \in [1 .. Len(BasePlan) -> Task]
  BY <1>2, <1>3 DEF BaseTasks
<1> QED
  BY <1>2, <1>4, SeqDef

\* The tasks of a replan are tasks.
LEMMA ReplanTasksSeq ==
  ASSUME NEW rem \in [Sides -> Nat], NEW plan \in 0 .. MaxPlans
  PROVE  ReplanTasks(rem, plan) \in Seq(Task)
<1>1. \A k \in 1 .. 2 : <<plan, k>> \in TaskIds
  BY PlanAssumption DEF TaskIds, MaxTasks
<1>2. \A k \in 1 .. 2 : \A d \in Sides : ReplanTask(k, d, rem[d], plan) \in Seq(Task)
  <2> TAKE k \in 1 .. 2
  <2> TAKE d \in Sides
  <2> DEFINE t == [id |-> <<plan, k>>, side |-> d, amt |-> rem[d], source |-> "tactic"]
  <2>1. rem[d] > 0 => t \in Task
    BY <1>1 DEF Task, Sources
  <2>2. ReplanTask(k, d, rem[d], plan) = IF rem[d] > 0 THEN <<t>> ELSE <<>>
    BY DEF ReplanTask
  <2> HIDE DEF t
  <2> QED
    BY <2>1, <2>2
<1>3. /\ ReplanTask(1, "sell", rem["sell"], plan) \in Seq(Task)
      /\ ReplanTask(2, "buy", rem["buy"], plan) \in Seq(Task)
  BY <1>2 DEF Sides
<1> QED
  BY <1>3, ConcatProperties DEF ReplanTasks

-----------------------------------------------------------------------------
(* Failures and requests.                                                   *)

\* A failed attempt keeps a state: the task is queued again, or it is held
\* and the run paused.
LEMMA FailState ==
  ASSUME NEW s \in State, NEW t \in Task, NEW pos \in 1 .. Len(s.pending) + 1
  PROVE  /\ Fail(s, t, pos) \in State
         /\ IF Exhausted(Attempts(s, t))
            THEN Fail(s, t, pos).status = "paused"
            ELSE /\ Fail(s, t, pos).status = s.status
                 /\ Fail(s, t, pos).pending # <<>>
<1> DEFINE retried == Enqueue(s, t, pos)
           held == [s EXCEPT !.paused = t, !.status = "paused"]
           next == IF Exhausted(Attempts(s, t)) THEN held ELSE retried
           entry == [status |-> "failed", attempts |-> Attempts(s, t)]
<1>1. t.id \in TaskIds
  BY DEF Task
<1>2. entry \in Snapshot
  BY <1>1 DEF State, Attempts, Snapshot, SnapStatuses
<1>3. held \in State /\ held.status = "paused"
  BY DEF State, Statuses
<1>4. /\ retried \in State
      /\ retried.status = s.status
      /\ retried.pending # <<>>
  BY EnqueueState
<1>5. /\ next \in State
      /\ IF Exhausted(Attempts(s, t))
         THEN next.status = "paused"
         ELSE next.status = s.status /\ next.pending # <<>>
  BY <1>3, <1>4
<1>6. Fail(s, t, pos) = IF next.snap[t.id].status # "none"
                        THEN [next EXCEPT !.snap[t.id] = entry] ELSE next
  BY DEF Fail
<1> HIDE DEF next, entry
<1>7. [next.snap EXCEPT ![t.id] = entry] \in [TaskIds -> Snapshot]
  BY <1>2, <1>5 DEF State
<1>8. /\ [next EXCEPT !.snap[t.id] = entry] \in State
      /\ [next EXCEPT !.snap[t.id] = entry].status = next.status
      /\ [next EXCEPT !.snap[t.id] = entry].pending = next.pending
  BY <1>5, <1>7 DEF State
<1> QED
  BY <1>5, <1>6, <1>8

\* start() makes a running state.
LEMMA StartedState ==
  ASSUME NEW s \in State, NEW r \in Runs
  PROVE  Started(s, r) \in State /\ Started(s, r).status = "running"
<1> DEFINE c == [set |-> TRUE, run |-> r, reviewed |-> TRUE]
           fresh == [Idle EXCEPT !.cfg = c, !.status = "running", !.plans = s.plans]
<1>1. c \in Config /\ s.plans \in 0 .. MaxPlans
  BY DEF Config, State
<1>2. fresh = [[[Idle EXCEPT !.cfg = c] EXCEPT !.status = "running"]
                 EXCEPT !.plans = s.plans]
  OBVIOUS
<1>3. Started(s, r) = EnqueueAll(fresh, BaseTasks(0))
  BY DEF Started
<1> HIDE DEF c, fresh
<1>4. fresh \in State /\ fresh.status = "running"
  BY <1>1, <1>2, IdleState DEF State, Statuses
<1>5. BaseTasks(0) \in Seq(Task)
  BY BaseTasksSeq, BoundsAssumption
<1> QED
  BY <1>3, <1>4, <1>5, EnqueueAllState

\* configure() keeps a state and its status.
LEMMA ConfiguredState ==
  ASSUME NEW s \in State, NEW c \in Config
  PROVE  /\ Configured(s, c) \in State
         /\ Configured(s, c).status = s.status
         /\ Configured(s, c).cfg = c
         /\ \/ Configured(s, c).pending = s.pending
            \/ s.status # "running"
<1> DEFINE kept == [s EXCEPT !.cfg = c]
<1>1. kept \in State /\ kept.status = s.status /\ kept.pending = s.pending /\ kept.cfg = c
  BY DEF State
<1> DEFINE wiped == [kept EXCEPT !.pending = <<>>, !.obs = Idle.obs, !.resp = Idle.resp,
                                 !.red = 0, !.replan = NoTx, !.dedup = <<>>]
<1>2. /\ Idle.obs \in [Txs -> Nat]
      /\ Idle.resp \in [Sides -> Nat]
      /\ <<>> \in Seq(Txs) /\ <<>> \in Seq(Task)
  BY DEF Idle
<1>3. Configured(s, c) = IF (~s.cfg.set \/ s.cfg.run # c.run) /\ s.status # "running"
                         THEN wiped ELSE kept
  BY DEF Configured
<1> HIDE DEF kept
<1>4. wiped \in State /\ wiped.status = kept.status /\ wiped.cfg = kept.cfg
  BY <1>1, <1>2 DEF State
<1> QED
  BY <1>1, <1>3, <1>4

\* What the webhook configures is a configuration.
LEMMA WebhookConfigConfig == WebhookConfig \in Config
  BY DEF WebhookConfig, Config

\* Remembering a hash keeps a state; only dedupedTxHashes changes.
LEMMA RememberState ==
  ASSUME NEW s \in State, NEW x \in Txs
  PROVE  /\ Remember(s, x) \in State
         /\ Remember(s, x).status = s.status
         /\ Remember(s, x).pending = s.pending
<1> DEFINE all == Append(s.dedup, x)
           cut == SubSeq(all, 1 + Monus(Len(all), MaxDeduped), Len(all))
<1>1. all \in Seq(Txs) /\ Len(all) \in Nat
  BY DEF State
<1>2. Monus(Len(all), MaxDeduped) \in Nat
  BY <1>1, BoundsAssumption, MonusNat
<1>3. Remember(s, x) = [s EXCEPT !.dedup = cut]
  BY DEF Remember
<1> HIDE DEF all
<1>4. \A i \in 1 + Monus(Len(all), MaxDeduped) .. Len(all) : all[i] \in Txs
  BY <1>1, <1>2, ElementOfSeq
<1>5. cut \in Seq(Txs)
  BY <1>1, <1>2, <1>4, SubSeqProperties
<1> HIDE DEF cut
<1> QED
  BY <1>3, <1>5 DEF State

\* An observed order keeps a state; the queue and the status stay.
LEMMA ObservedState ==
  ASSUME NEW s \in State, NEW x \in Txs
  PROVE  /\ Observed(s, x) \in State
         /\ Observed(s, x).status = s.status
         /\ Observed(s, x).pending = s.pending
<1> DEFINE o == [s.obs EXCEPT ![x] = @ + 1]
           r == IF EventKind[x] = "reduce_target" THEN s.red + EventVolume[x] ELSE s.red
           p == [d \in Sides |-> s.resp[d] + Response(x, d)]
<1>1. EventVolume[x] \in Nat
  BY EventsAssumption
<1>2. s.obs \in [Txs -> Nat] /\ s.red \in Nat /\ s.resp \in [Sides -> Nat]
  BY DEF State
<1>3. o \in [Txs -> Nat] /\ r \in Nat
  BY <1>1, <1>2
<1>4. p \in [Sides -> Nat]
  BY <1>1, <1>2 DEF Response
<1>5. Observed(s, x) = [[[s EXCEPT !.obs = o] EXCEPT !.red = r] EXCEPT !.resp = p]
  BY DEF Observed
<1> HIDE DEF o, r, p
<1> QED
  BY <1>3, <1>4, <1>5 DEF State

\* resume() makes a running state, with a task to run if one was held.
LEMMA ResumedState ==
  ASSUME NEW s \in State, NEW pos \in 1 .. Len(s.pending) + 1
  PROVE  Resumed(s, pos) \in State /\ Resumed(s, pos).status = "running"
<1> DEFINE woken == [s EXCEPT !.status = "running", !.paused = NoTask]
           back == Enqueue(woken, s.paused, pos)
           i == s.paused.id
<1>1. woken \in State /\ woken.status = "running" /\ woken.pending = s.pending
  BY DEF State, Statuses
<1>2. Resumed(s, pos) = IF s.paused = NoTask THEN woken
                        ELSE [back EXCEPT !.snap[i].status = "pending"]
  BY DEF Resumed
<1> HIDE DEF woken
<1>3. CASE s.paused = NoTask
  BY <1>1, <1>2, <1>3
<1>4. CASE s.paused # NoTask
  <2>1. s.paused \in Task
    BY <1>4 DEF State
  <2>2. back \in State /\ back.status = "running" /\ i \in TaskIds
    BY <1>1, <2>1, EnqueueState DEF Task
  <2> HIDE DEF back, i
  <2>3. [back.snap EXCEPT ![i].status = "pending"] \in [TaskIds -> Snapshot]
    <3>1. back.snap \in [TaskIds -> Snapshot] /\ back.snap[i] \in Snapshot
      BY <2>2 DEF State
    <3>2. [back.snap[i] EXCEPT !.status = "pending"] \in Snapshot
      BY <3>1 DEF Snapshot, SnapStatuses
    <3> QED
      BY <2>2, <3>1, <3>2
  <2>4. [back EXCEPT !.snap[i].status = "pending"]
          = [back EXCEPT !.snap = [back.snap EXCEPT ![i].status = "pending"]]
    BY <2>2 DEF State
  <2> QED
    BY <1>2, <1>4, <2>2, <2>3, <2>4 DEF State
<1> QED
  BY <1>3, <1>4

-----------------------------------------------------------------------------
(* What the volumes depend on, and the operators that leave it alone.       *)

SameVolumes(s, t) ==
    /\ s.exec = t.exec
    /\ s.cfg.set = t.cfg.set
    /\ s.red = t.red
    /\ s.resp = t.resp

\* States with the same volumes have traded as much and are held to as much.
LEMMA VolumesDecide ==
  \A s, t \in State : SameVolumes(s, t) =>
     Volume(s) = Volume(t) /\ ManagedTarget(s) = ManagedTarget(t)
  BY DEF SameVolumes, Volume, ManagedTarget

\* applyExecutedTask counts up to the target, and past it nothing.
LEMMA CreditCapped ==
  ASSUME NEW s \in State, NEW d \in Sides, NEW vol \in Nat
  PROVE  \/ Volume(Credit(s, d, vol)) = Volume(s)
         \/ Volume(Credit(s, d, vol)) <= ManagedTarget(Credit(s, d, vol))
<1> DEFINE room == Monus(ManagedTarget(s), Volume(s))
           counted == IF vol < room THEN vol ELSE room
           c == Credit(s, d, vol)
<1>1. ManagedTarget(s) \in Nat /\ Volume(s) \in Nat
  BY VolumesNat
<1>2. counted \in Nat /\ (counted = 0 \/ Volume(s) + counted <= ManagedTarget(s))
  BY <1>1 DEF Monus
<1>3. c = [s EXCEPT !.exec[d] = @ + counted]
  BY DEF Credit
<1> HIDE DEF counted, c
<1>4. c.exec = [s.exec EXCEPT ![d] = @ + counted]
  BY <1>3 DEF State
<1>5. c.cfg = s.cfg /\ c.red = s.red /\ c.resp = s.resp
  BY <1>3 DEF State
<1>6. s.exec \in [Sides -> Nat]
  BY DEF State
<1>7. Volume(c) = Volume(s) + counted
  BY <1>2, <1>4, <1>6 DEF Volume, Sides
<1>8. ManagedTarget(c) = ManagedTarget(s)
  BY <1>5 DEF ManagedTarget
<1>9. Volume(c) = Volume(s) \/ Volume(c) <= ManagedTarget(c)
  BY <1>1, <1>2, <1>7, <1>8
<1> QED
  BY <1>9 DEF c

\* Queueing, superseding, completing, marking done and failing count nothing.
LEMMA QueueVolumes ==
  ASSUME NEW s \in State
  PROVE  /\ \A t \in Task : \A pos \in 1 .. Len(s.pending) + 1 :
               /\ SameVolumes(Enqueue(s, t, pos), s)
               /\ SameVolumes(Fail(s, t, pos), s)
         /\ \A q \in Seq(Task) : SameVolumes(EnqueueAll(s, q), s)
         /\ SameVolumes(Supersede(s), s)
         /\ SameVolumes(Completed(s), s)
         /\ \A i \in TaskIds : SameVolumes(MarkDone(s, i), s)
<1>1. ASSUME NEW t \in Task, NEW pos \in 1 .. Len(s.pending) + 1
      PROVE  SameVolumes(Enqueue(s, t, pos), s)
  BY DEF Enqueue, SameVolumes, State
<1>2. ASSUME NEW t \in Task, NEW pos \in 1 .. Len(s.pending) + 1
      PROVE  SameVolumes(Fail(s, t, pos), s)
  <2> DEFINE held == [s EXCEPT !.paused = t, !.status = "paused"]
             next == IF Exhausted(Attempts(s, t)) THEN held ELSE Enqueue(s, t, pos)
             entry == [status |-> "failed", attempts |-> Attempts(s, t)]
  <2>1. held \in State /\ SameVolumes(held, s)
    BY DEF SameVolumes, State, Statuses
  <2>2. next \in State /\ SameVolumes(next, s)
    BY <1>1, <2>1, EnqueueState
  <2>3. Fail(s, t, pos) = IF next.snap[t.id].status # "none"
                          THEN [next EXCEPT !.snap[t.id] = entry] ELSE next
    BY DEF Fail
  <2> HIDE DEF next, entry
  <2>4. SameVolumes([next EXCEPT !.snap[t.id] = entry], next)
    BY <2>2 DEF SameVolumes, State
  <2> QED
    BY <2>2, <2>3, <2>4 DEF SameVolumes
<1>3. ASSUME NEW q \in Seq(Task) PROVE SameVolumes(EnqueueAll(s, q), s)
  BY DEF EnqueueAll, SameVolumes, State
<1>4. SameVolumes(Supersede(s), s)
  BY DEF Supersede, SameVolumes, State
<1>5. SameVolumes(Completed(s), s)
  <2>1. SameVolumes([Supersede(s) EXCEPT !.status = "completed"], Supersede(s))
    BY SupersedeState DEF SameVolumes, State
  <2> QED
    BY <1>4, <2>1 DEF Completed, SameVolumes
<1>6. ASSUME NEW i \in TaskIds PROVE SameVolumes(MarkDone(s, i), s)
  BY DEF MarkDone, SameVolumes, State
<1> QED
  BY <1>1, <1>2, <1>3, <1>4, <1>5, <1>6

\* No request but /start and /clear touches what has been counted.
LEMMA RequestVolumes ==
  ASSUME NEW s \in State
  PROVE  /\ \A c \in Config : Configured(s, c).exec = s.exec
         /\ \A x \in Txs : /\ Remember(s, x).exec = s.exec
                           /\ Observed(s, x).exec = s.exec
         /\ \A pos \in 1 .. Len(s.pending) + 1 : Resumed(s, pos).exec = s.exec
<1>1. ASSUME NEW c \in Config PROVE Configured(s, c).exec = s.exec
  BY DEF Configured, State
<1>2. ASSUME NEW x \in Txs
      PROVE  Remember(s, x).exec = s.exec /\ Observed(s, x).exec = s.exec
  BY DEF Remember, Observed, State
<1>3. ASSUME NEW pos \in 1 .. Len(s.pending) + 1
      PROVE  Resumed(s, pos).exec = s.exec
  BY DEF Resumed, Enqueue, State
<1> QED
  BY <1>1, <1>2, <1>3

-----------------------------------------------------------------------------
(* The object.                                                              *)


USE DEF Sides

(* The part of the type invariant the alarm handler works on, with the one  *)
(* fact about its position the types need: an execution has a task.         *)
EngineOK ==
    /\ st \in State
    /\ disk \in State
    /\ alarm \in Alarms
    /\ handler \in Handlers
    /\ Executing => handler.task \in Task

CountersOK ==
    /\ inflight \in [Txs -> Nat]
    /\ chain \in [Sides -> Nat]
    /\ lost \in [Sides -> Nat]
    /\ used \in [runs : SUBSET Runs, crashes : Nat, sent : [Txs -> Nat],
                 ops : [UserOps -> Nat]]

TypeInv == EngineOK /\ CountersOK

-----------------------------------------------------------------------------
(* The alarm and the handler's locals.                                      *)

\* An alarm just set is an alarm.
LEMMA ArmedAlarm ==
  ASSUME NEW at \in {"none", "early", "head", "dropped"}
  PROVE  Armed(at) \in Alarms
  BY DEF Armed, Alarms

\* What a save leaves of the state and the alarm.
LEMMA SaveTyped ==
  ASSUME NEW s \in State, Save(s)
  PROVE  st' \in State /\ disk' \in State /\ alarm' \in Alarms
  BY ArmedAlarm DEF Save, SaveWith, AlarmFor

\* A handler at rest is well formed.
LEMMA RestingHandler ==
  /\ Resting \in Handlers
  /\ Resting.pc = "idle"
  /\ ~Resting.detached
  BY DEF Resting, Handlers, Pcs

\* The handler at rest executes nothing.
LEMMA EndsTyped ==
  ASSUME Ends
  PROVE  handler' \in Handlers /\ ~Executing' /\ handler'.pc = "idle"
  BY RestingHandler DEF Ends, Executing

\* markCompleted ends the handler in a completed state.
LEMMA CompleteTyped ==
  ASSUME NEW s \in State, Complete(s)
  PROVE  EngineOK'
  BY CompletedState, EndsTyped, ArmedAlarm DEF Complete, SaveWith, EngineOK

\* Popping the first task keeps the types.
LEMMA PopDueTyped ==
  ASSUME EngineOK, NEW s \in State, NEW h \in Handlers, NEW a \in Alarms,
         NEW m \in BOOLEAN, PopDue(s, h, a, m)
  PROVE  EngineOK'
<1>1. CASE Save(s) /\ Ends
  BY <1>1, SaveTyped, EndsTyped DEF EngineOK
<1>2. CASE /\ s.pending # <<>>
           /\ st' = [s EXCEPT !.pending = Tail(@)]
           /\ handler' = [h EXCEPT !.pc = "allocate", !.task = Head(s.pending)]
           /\ alarm' = a
           /\ UNCHANGED disk
  <2>1. s.pending \in Seq(Task)
    BY DEF State
  <2>2. Head(s.pending) \in Task /\ Tail(s.pending) \in Seq(Task)
    BY <1>2, <2>1, HeadTailProperties
  <2>3. st' \in State
    BY <1>2, <2>2 DEF State
  <2>4. handler' \in Handlers /\ handler'.task \in Task
    BY <1>2, <2>2 DEF Handlers, Pcs
  <2> QED
    BY <1>2, <2>3, <2>4 DEF EngineOK
<1> QED
  BY <1>1, <1>2 DEF PopDue

\* The part of alarm() before the execution keeps the types.
LEMMA ProceedTyped ==
  ASSUME EngineOK, NEW s \in State, NEW h \in Handlers, NEW a \in Alarms,
         NEW m \in BOOLEAN, Proceed(s, h, a, m)
  PROVE  EngineOK'
<1>1. CASE Complete(s)
  BY <1>1, CompleteTyped
<1>2. CASE /\ st' = s
           /\ handler' = [h EXCEPT !.pc = "plan_before"]
           /\ alarm' = a
           /\ UNCHANGED disk
  <2>1. handler' \in Handlers /\ handler'.pc = "plan_before"
    BY <1>2 DEF Handlers, Pcs
  <2> QED
    BY <1>2, <2>1 DEF EngineOK, Executing
<1>3. CASE PopDue(s, h, a, m)
  BY <1>3, PopDueTyped
<1> QED
  BY <1>1, <1>2, <1>3 DEF Proceed

\* The part of alarm() after the execution keeps the types.
LEMMA ConcludeTyped ==
  ASSUME EngineOK, NEW s \in State, Conclude(s)
  PROVE  EngineOK'
<1>1. CASE Complete(s)
  BY <1>1, CompleteTyped
<1>2. CASE /\ st' = s
           /\ handler' = [handler EXCEPT !.pc = "plan_after"]
           /\ UNCHANGED <<disk, alarm>>
  <2>1. handler' \in Handlers /\ handler'.pc = "plan_after"
    BY <1>2 DEF EngineOK, Handlers, Pcs
  <2> QED
    BY <1>2, <2>1 DEF EngineOK, Executing
<1>3. CASE Save(s) /\ Ends
  BY <1>3, SaveTyped, EndsTyped DEF EngineOK
<1> QED
  BY <1>1, <1>2, <1>3 DEF Conclude

\* A failed attempt that ends the handler keeps the types.
LEMMA FailAndEndTyped ==
  ASSUME EngineOK, NEW s \in State, NEW t \in Task, NEW save \in BOOLEAN,
         FailAndEnd(s, t, save)
  PROVE  EngineOK'
<1>1. PICK pos \in 1 .. Len(s.pending) + 1 :
        /\ \/ Save(Fail(s, t, pos))
           \/ /\ st' = Fail(s, t, pos)
              /\ alarm' = [alarm EXCEPT !.held = FALSE]
              /\ UNCHANGED disk
        /\ Ends
  BY DEF FailAndEnd
<1>2. Fail(s, t, pos) \in State
  BY FailState
<1>3. [alarm EXCEPT !.held = FALSE] \in Alarms
  BY DEF EngineOK, Alarms
<1> QED
  BY <1>1, <1>2, <1>3, SaveTyped, EndsTyped DEF EngineOK

-----------------------------------------------------------------------------
(* The requests.                                                            *)

\* Changing the status, the queue or the plan count keeps a state.
LEMMA UpdatedState ==
  ASSUME NEW s \in State
  PROVE  /\ \A new \in Statuses : [s EXCEPT !.status = new] \in State
         /\ \A q \in Seq(Task) : [s EXCEPT !.pending = q] \in State
         /\ \A n \in 0 .. MaxPlans : [s EXCEPT !.plans = n] \in State
  BY DEF State

\* Changing the status and emptying the queue keeps a state.
LEMMA EmptiedState ==
  ASSUME NEW s \in State, NEW new \in Statuses
  PROVE  [s EXCEPT !.status = new, !.pending = <<>>] \in State
<1>1. <<>> \in Seq(Task)
  OBVIOUS
<1> QED
  BY <1>1, UpdatedState

\* The states the requests and the handler save are states.
LEMMA StoppedStates ==
  ASSUME NEW s \in State
  PROVE  /\ [s EXCEPT !.status = "aborted", !.pending = <<>>] \in State
         /\ [s EXCEPT !.status = "paused", !.pending = <<>>] \in State
         /\ [s EXCEPT !.status = "paused"] \in State
<1>1. "aborted" \in Statuses /\ "paused" \in Statuses
  BY DEF Statuses
<1> QED
  BY <1>1, EmptiedState DEF State

\* Using an operation keeps the counters.
LEMMA UseOpTyped ==
  ASSUME CountersOK, NEW o \in UserOps, UseOp(o)
  PROVE  used' \in [runs : SUBSET Runs, crashes : Nat, sent : [Txs -> Nat],
                    ops : [UserOps -> Nat]]
<1>1. used.ops \in [UserOps -> Nat]
  BY DEF CountersOK
<1>2. [used.ops EXCEPT ![o] = @ + 1] \in [UserOps -> Nat]
  BY <1>1
<1>3. used' = [used EXCEPT !.ops = [used.ops EXCEPT ![o] = @ + 1]]
  BY DEF UseOp
<1> QED
  BY <1>2, <1>3 DEF CountersOK

\* start() keeps the types: the new run is a state.
LEMMA StartTyped ==
  ASSUME TypeInv, NEW r \in Runs, Start(r)
  PROVE  TypeInv'
<1>1. st' \in State /\ disk' \in State /\ alarm' \in Alarms
  BY StartedState, ArmedAlarm DEF Start, SaveWith, TypeInv, EngineOK
<1>2. used' \in [runs : SUBSET Runs, crashes : Nat, sent : [Txs -> Nat],
                 ops : [UserOps -> Nat]]
  BY DEF Start, TypeInv, CountersOK
<1>3. chain' \in [Sides -> Nat] /\ lost' \in [Sides -> Nat]
  BY DEF Start
<1> QED
  BY <1>1, <1>2, <1>3 DEF Start, TypeInv, EngineOK, CountersOK, Executing

\* abort() keeps the types.
LEMMA AbortTyped ==
  ASSUME TypeInv, Abort
  PROVE  TypeInv'
<1>1. st' \in State /\ disk' \in State /\ alarm' \in Alarms
  BY ArmedAlarm, StoppedStates DEF Abort, SaveWith, TypeInv, EngineOK
<1>2. used' \in [runs : SUBSET Runs, crashes : Nat, sent : [Txs -> Nat],
                 ops : [UserOps -> Nat]]
  BY UseOpTyped DEF Abort, UseOp, TypeInv
<1> QED
  BY <1>1, <1>2 DEF Abort, TypeInv, EngineOK, CountersOK, Executing

\* pause() keeps the types.
LEMMA PauseTyped ==
  ASSUME TypeInv, Pause
  PROVE  TypeInv'
<1>1. st' \in State /\ disk' \in State /\ alarm' \in Alarms
  BY ArmedAlarm, StoppedStates DEF Pause, SaveWith, TypeInv, EngineOK
<1>2. used' \in [runs : SUBSET Runs, crashes : Nat, sent : [Txs -> Nat],
                 ops : [UserOps -> Nat]]
  BY UseOpTyped DEF Pause, UseOp, TypeInv
<1> QED
  BY <1>1, <1>2 DEF Pause, TypeInv, EngineOK, CountersOK, Executing

\* resume() keeps the types: a held task goes back to the queue as a task.
LEMMA ResumeTyped ==
  ASSUME TypeInv, Resume
  PROVE  TypeInv'
<1>1. st' \in State /\ disk' \in State /\ alarm' \in Alarms
  BY ResumedState, SaveTyped DEF Resume, TypeInv, EngineOK
<1>2. used' \in [runs : SUBSET Runs, crashes : Nat, sent : [Txs -> Nat],
                 ops : [UserOps -> Nat]]
  BY UseOpTyped DEF Resume, UseOp, TypeInv
<1> QED
  BY <1>1, <1>2 DEF Resume, TypeInv, EngineOK, CountersOK, Executing

\* clear() keeps the types; a suspended handler goes on, detached.
LEMMA ClearTyped ==
  ASSUME TypeInv, Clear
  PROVE  TypeInv'
<1>1. [Idle EXCEPT !.plans = st.plans] \in State
  BY IdleState DEF TypeInv, EngineOK, State
<1>2. st' \in State /\ disk' \in State /\ alarm' \in Alarms
  BY <1>1, ArmedAlarm DEF Clear, SaveWith
<1>3. used' \in [runs : SUBSET Runs, crashes : Nat, sent : [Txs -> Nat],
                 ops : [UserOps -> Nat]]
  BY UseOpTyped DEF Clear, UseOp, TypeInv
<1>4. Volume(st) \in Nat
  BY VolumesNat DEF TypeInv, EngineOK
<1>5. /\ handler' \in Handlers
      /\ handler'.pc = handler.pc
      /\ handler'.task = handler.task
  <2>1. CASE handler' = handler
    BY <2>1 DEF TypeInv, EngineOK
  <2>2. CASE handler' = [handler EXCEPT !.detached = TRUE,
                                        !.oldVolume = Volume(st),
                                        !.oldEmpty = st.pending = <<>>]
    <3> DEFINE e == (st.pending = <<>>)
    <3>1. e \in BOOLEAN
      OBVIOUS
    <3>2. handler' = [[[handler EXCEPT !.detached = TRUE] EXCEPT
                         !.oldVolume = Volume(st)] EXCEPT !.oldEmpty = e]
      BY <2>2
    <3> HIDE DEF e
    <3> QED
      BY <1>4, <3>1, <3>2 DEF TypeInv, EngineOK, Handlers
  <2> QED
    BY <2>1, <2>2 DEF Clear
<1> QED
  BY <1>2, <1>3, <1>5 DEF Clear, TypeInv, EngineOK, CountersOK, Executing

\* A webhook up to its await of D1 keeps the types.
LEMMA WebhookArrivesTyped ==
  ASSUME TypeInv, NEW x \in Txs, WebhookArrives(x)
  PROVE  TypeInv'
<1> DEFINE s == Configured(st, WebhookConfig)
           seen == Remember(s, x)
<1>1. s \in State /\ seen \in State
  BY ConfiguredState, WebhookConfigConfig, RememberState DEF TypeInv, EngineOK
<1>2. used' \in [runs : SUBSET Runs, crashes : Nat, sent : [Txs -> Nat],
                 ops : [UserOps -> Nat]]
  <2>1. [used.sent EXCEPT ![x] = @ + 1] \in [Txs -> Nat]
    BY DEF TypeInv, CountersOK
  <2>2. used' = [used EXCEPT !.sent = [used.sent EXCEPT ![x] = @ + 1]]
    BY DEF WebhookArrives
  <2> QED
    BY <2>1, <2>2 DEF TypeInv, CountersOK
<1>3. \/ SaveWith(s, alarm) /\ UNCHANGED inflight
      \/ Save(s) /\ UNCHANGED inflight
      \/ Save(seen) /\ UNCHANGED inflight
      \/ /\ st' = seen
         /\ disk' = s
         /\ alarm' = AlarmFor(s)
         /\ inflight' = [inflight EXCEPT ![x] = @ + 1]
  BY DEF WebhookArrives
<1> HIDE DEF s, seen
<1>4. st' \in State /\ disk' \in State /\ alarm' \in Alarms
  BY <1>1, <1>3, SaveTyped, ArmedAlarm DEF SaveWith, AlarmFor, TypeInv, EngineOK
<1>5. inflight' \in [Txs -> Nat]
  BY <1>3 DEF TypeInv, CountersOK
<1> QED
  BY <1>2, <1>4, <1>5
  DEF WebhookArrives, TypeInv, EngineOK, CountersOK, Executing

\* A webhook after its await of D1 keeps the types.
LEMMA WebhookAppliesTyped ==
  ASSUME TypeInv, NEW x \in Txs, WebhookApplies(x)
  PROVE  TypeInv'
<1> DEFINE s == Observed(st, x)
<1>1. s \in State
  BY ObservedState DEF TypeInv, EngineOK
<1>2. \/ SaveWith([s EXCEPT !.status = "paused", !.pending = <<>>], Armed("none"))
      \/ SaveWith([Supersede(s) EXCEPT !.replan = x], Armed("early"))
      \/ Save(s)
  BY DEF WebhookApplies
<1> HIDE DEF s
<1>3. [s EXCEPT !.status = "paused", !.pending = <<>>] \in State
  BY <1>1, StoppedStates
<1>4. [Supersede(s) EXCEPT !.replan = x] \in State
  BY <1>1, SupersedeState DEF State
<1>5. st' \in State /\ disk' \in State /\ alarm' \in Alarms
  BY <1>1, <1>2, <1>3, <1>4, SaveTyped, ArmedAlarm DEF SaveWith
<1>6. inflight' \in [Txs -> Nat]
  BY DEF WebhookApplies, TypeInv, CountersOK
<1> QED
  BY <1>5, <1>6 DEF WebhookApplies, TypeInv, EngineOK, CountersOK, Executing

-----------------------------------------------------------------------------
(* The alarm handler.                                                       *)

\* A delivered alarm is an alarm, and a handler begins well formed.
LEMMA DeliveryTyped ==
  ASSUME TypeInv
  PROVE  /\ Delivered \in Alarms
         /\ [Resting EXCEPT !.reviewed = st.cfg.reviewed] \in Handlers
<1>1. Delivered \in Alarms
  BY DEF Delivered, Alarms, TypeInv, EngineOK
<1>2. st.cfg.reviewed \in BOOLEAN
  BY DEF TypeInv, EngineOK, State, Config
<1> QED
  BY <1>1, <1>2, RestingHandler DEF Handlers

\* An alarm that finds tasks due keeps the types.
LEMMA AlarmRunsTyped ==
  ASSUME TypeInv, AlarmRuns
  PROVE  TypeInv'
<1>1. EngineOK'
  BY ProceedTyped, DeliveryTyped DEF AlarmRuns, TypeInv, EngineOK
<1> QED
  BY <1>1 DEF AlarmRuns, TypeInv, CountersOK

\* An alarm that goes off to plan keeps the types.
LEMMA AlarmReplansTyped ==
  ASSUME TypeInv, AlarmReplans
  PROVE  TypeInv'
<1> DEFINE rem == Remaining(st)
           h == [Resting EXCEPT !.pc = "replan", !.rem = rem, !.reviewed = st.cfg.reviewed]
<1>1. rem \in [Sides -> Nat] /\ st.cfg.reviewed \in BOOLEAN
  BY RemainingNat DEF TypeInv, EngineOK, State, Config
<1>2. [st EXCEPT !.replan = NoTx] \in State
  BY DEF TypeInv, EngineOK, State
<1>3. \/ Complete([st EXCEPT !.replan = NoTx])
      \/ handler' = h /\ alarm' = Delivered /\ UNCHANGED <<st, disk>>
  BY DEF AlarmReplans
<1>4. h = [[[Resting EXCEPT !.pc = "replan"] EXCEPT !.rem = rem]
             EXCEPT !.reviewed = st.cfg.reviewed]
  OBVIOUS
<1> HIDE DEF h, rem
<1>5. h \in Handlers /\ h.pc = "replan"
  BY <1>1, <1>4, RestingHandler DEF Handlers, Pcs
<1>6. EngineOK'
  BY <1>2, <1>3, <1>5, CompleteTyped, DeliveryTyped DEF TypeInv, EngineOK, Executing
<1> QED
  BY <1>6 DEF AlarmReplans, TypeInv, CountersOK

\* A reactive plan that arrives keeps the types.
LEMMA ReplanReadyTyped ==
  ASSUME TypeInv, ReplanReady
  PROVE  TypeInv'
<1> DEFINE plan == st.plans + 1
           emptied == [st EXCEPT !.pending = <<>>, !.plans = plan]
           planned == EnqueueAll(emptied, ReplanTasks(handler.rem, plan))
           s == IF handler.detached THEN planned ELSE [planned EXCEPT !.replan = NoTx]
<1>1. plan \in 0 .. MaxPlans
  <2>1. st.plans \in 0 .. MaxPlans
    BY DEF TypeInv, EngineOK, State
  <2>2. plan <= MaxPlans
    BY DEF ReplanReady
  <2> QED
    BY <2>1, <2>2, BoundsAssumption
<1>2. emptied \in State
  <2>1. [st EXCEPT !.pending = <<>>] \in State
    <3>1. <<>> \in Seq(Task)
      OBVIOUS
    <3> QED
      BY <3>1, UpdatedState DEF TypeInv, EngineOK
  <2>2. emptied = [[st EXCEPT !.pending = <<>>] EXCEPT !.plans = plan]
    OBVIOUS
  <2> HIDE DEF plan, emptied
  <2> QED
    BY <1>1, <2>1, <2>2 DEF State
<1>3. ReplanTasks(handler.rem, plan) \in Seq(Task)
  BY <1>1, ReplanTasksSeq DEF TypeInv, EngineOK, Handlers
<1>4. Proceed(s, handler, alarm, FALSE)
  BY DEF ReplanReady
<1> HIDE DEF emptied
<1>5. planned \in State
  BY <1>2, <1>3, EnqueueAllState
<1> HIDE DEF planned
<1>6. s \in State
  BY <1>5 DEF State
<1> HIDE DEF s
<1>7. EngineOK'
  BY <1>4, <1>6, ProceedTyped DEF TypeInv, EngineOK
<1> QED
  BY <1>7 DEF ReplanReady, TypeInv, CountersOK

\* A base plan that arrives keeps the types.
LEMMA BasePlanReadyTyped ==
  ASSUME TypeInv, BasePlanReady
  PROVE  TypeInv'
<1> DEFINE plan == st.plans + 1
           counted == [st EXCEPT !.plans = plan]
           s == EnqueueAll(counted, BaseTasks(plan))
<1>1. plan \in 0 .. MaxPlans
  <2>1. st.plans \in 0 .. MaxPlans
    BY DEF TypeInv, EngineOK, State
  <2>2. plan <= MaxPlans
    BY DEF BasePlanReady
  <2> QED
    BY <2>1, <2>2, BoundsAssumption
<1>2. counted \in State
  BY <1>1 DEF TypeInv, EngineOK, State
<1>3. \/ PopDue(s, handler, alarm, FALSE)
      \/ Save(s) /\ Ends
  BY DEF BasePlanReady
<1> HIDE DEF counted
<1>4. s \in State
  BY <1>1, <1>2, EnqueueAllState, BaseTasksSeq
<1> HIDE DEF s
<1>5. EngineOK'
  BY <1>3, <1>4, PopDueTyped, SaveTyped, EndsTyped DEF TypeInv, EngineOK
<1> QED
  BY <1>5 DEF BasePlanReady, TypeInv, CountersOK

\* A plan that fails keeps the types.
LEMMA PlanFailsTyped ==
  ASSUME TypeInv, PlanFails
  PROVE  TypeInv'
<1>1. alarm' \in Alarms
  BY ArmedAlarm DEF PlanFails, TypeInv, EngineOK, Alarms
<1>2. EngineOK'
  BY <1>1, EndsTyped DEF PlanFails, TypeInv, EngineOK
<1> QED
  BY <1>2 DEF PlanFails, TypeInv, CountersOK

-----------------------------------------------------------------------------
(* The execution.                                                           *)

\* The accounts of a task, when they arrive, keep the types.
LEMMA AccountsReadyTyped ==
  ASSUME TypeInv, AccountsReady
  PROVE  TypeInv'
<1>1. handler.task \in Task
  BY DEF AccountsReady, Executing, TypeInv, EngineOK
<1>2. PICK n \in 1 .. handler.task.amt :
        handler' = [handler EXCEPT !.pc = "trade", !.left = n]
  BY DEF AccountsReady
<1>3. n \in Nat
  BY <1>1 DEF Task
<1>4. handler' \in Handlers /\ handler'.task = handler.task
  BY <1>2, <1>3 DEF TypeInv, EngineOK, Handlers, Pcs
<1> QED
  BY <1>1, <1>4 DEF AccountsReady, TypeInv, EngineOK, CountersOK

\* A task without accounts, failed, keeps the types.
LEMMA NoAccountsTyped ==
  ASSUME TypeInv, NoAccounts
  PROVE  TypeInv'
<1>1. st' \in State /\ disk' \in State /\ alarm' \in Alarms
  BY ArmedAlarm, StoppedStates DEF NoAccounts, SaveWith, TypeInv, EngineOK
<1>2. EngineOK'
  BY <1>1, EndsTyped DEF NoAccounts, EngineOK
<1> QED
  BY <1>2 DEF NoAccounts, TypeInv, CountersOK

\* A slice that fills keeps the types: the executed volume stays a volume.
LEMMA SliceFillsTyped ==
  ASSUME TypeInv, SliceFills
  PROVE  TypeInv'
<1>1. handler.task \in Task
  BY DEF SliceFills, Swaps, Executing, TypeInv, EngineOK
<1>2. handler' \in Handlers /\ handler'.task = handler.task
  <2> DEFINE traded == [handler EXCEPT !.left = @ - 1]
  <2>1. traded \in Handlers /\ traded.task = handler.task
    BY DEF SliceFills, Swaps, TypeInv, EngineOK, Handlers
  <2>2. handler' = [traded EXCEPT !.ok = @ + 1]
    BY DEF SliceFills, Swaps, TypeInv, EngineOK, Handlers
  <2> HIDE DEF traded
  <2> QED
    BY <2>1, <2>2 DEF Handlers
<1>3. chain' \in [Sides -> Nat]
  BY <1>1 DEF SliceFills, Swaps, TypeInv, CountersOK, Task
<1> QED
  BY <1>1, <1>2, <1>3 DEF SliceFills, Swaps, TypeInv, EngineOK, CountersOK

\* A slice that fails keeps the types.
LEMMA SliceFailsTyped ==
  ASSUME TypeInv, SliceFails
  PROVE  TypeInv'
<1>1. handler.task \in Task
  BY DEF SliceFails, NotSized, NotOrdered, NotConfirmed, Swaps, Executing, TypeInv, EngineOK
<1>2. handler' \in Handlers /\ handler'.task = handler.task
  BY DEF SliceFails, NotSized, NotOrdered, NotConfirmed, Swaps, TypeInv, EngineOK, Handlers
<1>3. chain' \in [Sides -> Nat] /\ lost' \in [Sides -> Nat]
  BY <1>1 DEF SliceFails, NotSized, NotOrdered, NotConfirmed, Swaps, TypeInv, CountersOK, Task
<1> QED
  BY <1>1, <1>2, <1>3 DEF SliceFails, NotSized, NotOrdered, NotConfirmed, Swaps, TypeInv,
     EngineOK, CountersOK

\* An execution that throws keeps the types.
LEMMA ExecutionThrowsTyped ==
  ASSUME TypeInv, ExecutionThrows
  PROVE  TypeInv'
<1>1. handler.task \in Task
  BY DEF ExecutionThrows, KeyUnreadable, Executing, TypeInv, EngineOK
<1>2. EngineOK'
  BY <1>1, FailAndEndTyped DEF ExecutionThrows, KeyUnreadable, TypeInv, EngineOK
<1>3. lost' \in [Sides -> Nat]
  BY <1>1 DEF ExecutionThrows, KeyUnreadable, LosesFills, TypeInv, EngineOK, CountersOK,
     Handlers, Task
<1> QED
  BY <1>2, <1>3 DEF ExecutionThrows, KeyUnreadable, TypeInv, CountersOK

\* An execution that ends keeps the types: what it counts stays a volume.
LEMMA ExecutionEndsTyped ==
  ASSUME TypeInv, ExecutionEnds
  PROVE  TypeInv'
<1> DEFINE t == handler.task
           retry == RetryVolume(t)
           credited == Credit(st, t.side, handler.ok)
           rest == [t EXCEPT !.amt = retry]
<1>1. t \in Task /\ handler.ok \in Nat /\ st \in State
  BY DEF ExecutionEnds, Executing, TypeInv, EngineOK, Handlers
<1>2. /\ credited \in State
      /\ Volume(credited) - Volume(st) \in 0 .. handler.ok
  BY <1>1, CreditState DEF Task
<1>3. lost' \in [Sides -> Nat]
  <2>1. lost' = [lost EXCEPT ![t.side] =
                   @ + (handler.ok - (Volume(credited) - Volume(st)))]
    BY DEF ExecutionEnds, LosesFills
  <2>2. lost \in [Sides -> Nat]
    BY DEF TypeInv, CountersOK
  <2>3. t.side \in Sides
    BY <1>1 DEF Task
  <2> DEFINE n == handler.ok - (Volume(credited) - Volume(st))
  <2>4. n \in Nat
    BY <1>1, <1>2
  <2> HIDE DEF credited, t, n
  <2>5. lost' = [lost EXCEPT ![t.side] = @ + n]
    BY <2>1 DEF n
  <2> QED
    BY <2>2, <2>3, <2>4, <2>5
<1>4. MarkDone(credited, t.id) \in State
  BY <1>1, <1>2, MarkDoneState DEF Task
<1>5. retry > 0 => rest \in Task
  BY <1>1 DEF RetryVolume, Task
<1>6. \/ FailAndEnd(st, t, TRUE)
      \/ Conclude(MarkDone(credited, t.id))
      \/ retry > 0 /\ FailAndEnd(credited, rest, FALSE)
      \/ retry > 0 /\ \E pos \in 1 .. Len(st.pending) + 1 :
                         Conclude(Fail(credited, rest, pos))
  BY DEF ExecutionEnds
<1>7. credited.pending = st.pending
  BY <1>1 DEF Credit, State
<1> HIDE DEF t, retry, credited, rest
<1>8. EngineOK
  BY DEF TypeInv
<1>9. \A pos \in 1 .. Len(st.pending) + 1 :
         retry > 0 => Fail(credited, rest, pos) \in State
  BY <1>2, <1>5, <1>7, FailState
<1>10. EngineOK'
  BY <1>1, <1>2, <1>4, <1>5, <1>6, <1>8, <1>9, FailAndEndTyped, ConcludeTyped
<1> QED
  BY <1>3, <1>10 DEF ExecutionEnds, TypeInv, CountersOK

\* A crash keeps the types: the stored copy is a state too.
LEMMA CrashTyped ==
  ASSUME TypeInv, Crash
  PROVE  TypeInv'
<1>1. alarm' \in Alarms
  BY DEF Crash, TypeInv, EngineOK, Alarms
<1>2. EngineOK'
  BY <1>1, RestingHandler DEF Crash, TypeInv, EngineOK, Executing
<1>3. used' \in [runs : SUBSET Runs, crashes : Nat, sent : [Txs -> Nat],
                 ops : [UserOps -> Nat]]
  BY DEF Crash, TypeInv, CountersOK
<1>4. lost' \in [Sides -> Nat]
  <2>1. \A d \in Sides : /\ lost[d] \in Nat
                         /\ st.exec[d] \in Nat /\ disk.exec[d] \in Nat
                         /\ handler.ok \in Nat
    BY DEF TypeInv, EngineOK, CountersOK, State, Handlers
  <2>2. \A d \in Sides : Unsaved(d) \in Nat
    BY <2>1 DEF Unsaved, Monus
  <2>3. \A d \in Sides : lost[d] + Unsaved(d) \in Nat
    BY <2>1, <2>2
  <2>4. lost' = [d \in Sides |-> lost[d] + Unsaved(d)]
    BY DEF Crash
  <2> QED
    BY <2>3, <2>4
<1> QED
  BY <1>2, <1>3, <1>4 DEF Crash, TypeInv, CountersOK

-----------------------------------------------------------------------------
(* Type correctness.                                                        *)

\* The type invariant holds initially.
LEMMA TypeInit == Init => TypeInv
<1> SUFFICES ASSUME Init PROVE TypeInv
  OBVIOUS
<1>1. EngineOK
  BY IdleState, ArmedAlarm, RestingHandler DEF Init, EngineOK, Executing
<1>2. CountersOK
  BY DEF Init, CountersOK
<1> QED
  BY <1>1, <1>2 DEF TypeInv

\* Every step keeps it.
LEMMA TypeStep == TypeInv /\ [Next]_vars => TypeInv'
<1> SUFFICES ASSUME TypeInv, [Next]_vars PROVE TypeInv'
  OBVIOUS
<1>1. ASSUME NEW r \in Runs, Start(r) PROVE TypeInv'
  BY <1>1, StartTyped
<1>2. CASE Abort \/ Pause \/ Resume \/ Clear
  BY <1>2, AbortTyped, PauseTyped, ResumeTyped, ClearTyped
<1>3. ASSUME NEW x \in Txs, WebhookArrives(x) \/ WebhookApplies(x) PROVE TypeInv'
  BY <1>3, WebhookArrivesTyped, WebhookAppliesTyped
<1>4. CASE AlarmIgnored
  <2>1. EngineOK'
    BY <1>4, ArmedAlarm DEF AlarmIgnored, TypeInv, EngineOK, Executing
  <2> QED
    BY <1>4, <2>1 DEF AlarmIgnored, TypeInv, CountersOK
<1>5. CASE AlarmRuns \/ AlarmReplans \/ ReplanReady \/ BasePlanReady \/ PlanFails
  BY <1>5, AlarmRunsTyped, AlarmReplansTyped, ReplanReadyTyped, BasePlanReadyTyped,
     PlanFailsTyped
<1>6. CASE AccountsReady \/ NoAccounts \/ SliceFills \/ SliceFails
  BY <1>6, AccountsReadyTyped, NoAccountsTyped, SliceFillsTyped, SliceFailsTyped
<1>7. CASE ExecutionThrows \/ ExecutionEnds \/ Crash
  BY <1>7, ExecutionThrowsTyped, ExecutionEndsTyped, CrashTyped
<1>8. CASE UNCHANGED vars
  BY <1>8 DEF vars, TypeInv, EngineOK, CountersOK, Executing
<1> QED
  BY <1>1, <1>2, <1>3, <1>4, <1>5, <1>6, <1>7, <1>8 DEF Next, AlarmHandler

\* Every variable always has its type: in particular every task queued, held
\* or in execution is a task with a volume, and the fills no metric counts are a number.
THEOREM TypeCorrect == Spec => []TypeOK
<1>1. TypeInv => TypeOK
  BY DEF TypeInv, EngineOK, CountersOK, TypeOK
<1> QED
  BY <1>1, TypeInit, TypeStep, PTL DEF Spec

-----------------------------------------------------------------------------
(* A running run with work queued is woken again.                           *)

(* WakesUp is not inductive: a step from the middle of the alarm handler    *)
(* needs to know what the alarm is there.  While the handler runs, a queue  *)
(* without an alarm is safe because the platform redelivers the one being   *)
(* handled, or because the execution will save and set the next; the two    *)
(* copies of the state never disagree on the status.                        *)

Alarmless(s) == s.status = "running" /\ s.pending # <<>> /\ alarm.at = "none"

Wakeable ==
    /\ ~handler.detached
    /\ handler.pc = "idle" => ~alarm.held
    /\ disk.status = st.status
    /\ Alarmless(st) => alarm.held \/ Executing
    /\ Alarmless(disk) => alarm.held

WakeInv == TypeInv /\ Wakeable

\* The invariant says what WakesUp says.
LEMMA WakeableWakes == Wakeable => WakesUp
  BY DEF Wakeable, WakesUp, Alarmless, Executing

\* Whatever is saved with an alarm, or with nothing to do, is woken again.
LEMMA SaveWithWakes ==
  ASSUME NEW s, NEW at,
         SaveWith(s, Armed(at)),
         s.status # "running" \/ s.pending = <<>> \/ at # "none",
         ~handler'.detached
  PROVE  Wakeable'
  BY DEF SaveWith, Armed, Wakeable, Alarmless

\* persistState() always sets the alarm the queue needs.
LEMMA SaveWakes ==
  ASSUME NEW s, Save(s), ~handler'.detached
  PROVE  Wakeable'
<1>1. CASE s.status # "running" \/ s.pending = <<>>
  <2>1. SaveWith(s, Armed("none"))
    BY <1>1 DEF Save, AlarmFor
  <2> QED
    BY <1>1, <2>1, SaveWithWakes
<1>2. CASE ~(s.status # "running" \/ s.pending = <<>>)
  <2>1. SaveWith(s, Armed("head"))
    BY <1>2 DEF Save, AlarmFor
  <2> QED
    BY <2>1, SaveWithWakes
<1> QED
  BY <1>1, <1>2

\* Ending the handler leaves it attached.
LEMMA EndsAttached == ASSUME Ends PROVE ~handler'.detached /\ handler'.pc = "idle"
  BY RestingHandler DEF Ends

\* markCompleted leaves nothing to do.
LEMMA CompleteWakes ==
  ASSUME NEW s \in State, Complete(s)
  PROVE  Wakeable'
  BY CompletedState, EndsAttached, SaveWithWakes DEF Complete

\* Popping a task without saving: the stored queue still has the task, and
\* the alarm is either being handled or set again.
LEMMA PopDueWakes ==
  ASSUME NEW s \in State, NEW h \in Handlers, NEW a, NEW m \in BOOLEAN,
         PopDue(s, h, a, m), ~h.detached, s.status = disk.status,
         disk.status = "running" /\ disk.pending # <<>> /\ a.at = "none" => a.held
  PROVE  Wakeable'
<1>1. CASE Save(s) /\ Ends
  BY <1>1, SaveWakes, EndsAttached
<1>2. CASE /\ st' = [s EXCEPT !.pending = Tail(@)]
           /\ handler' = [h EXCEPT !.pc = "allocate", !.task = Head(s.pending)]
           /\ alarm' = a
           /\ UNCHANGED disk
  <2>1. handler'.pc = "allocate" /\ ~handler'.detached
    BY <1>2 DEF Handlers
  <2>2. st'.status = disk'.status
    BY <1>2 DEF State
  <2> QED
    BY <1>2, <2>1, <2>2 DEF Wakeable, Alarmless, Executing
<1> QED
  BY <1>1, <1>2 DEF PopDue

\* The part of alarm() before the execution.
LEMMA ProceedWakes ==
  ASSUME NEW s \in State, NEW h \in Handlers, NEW a, NEW m \in BOOLEAN,
         Proceed(s, h, a, m), ~handler.detached, ~h.detached, s.status = disk.status,
         disk.status = "running" /\ disk.pending # <<>> /\ a.at = "none" => a.held
  PROVE  Wakeable'
<1>1. CASE Complete(s)
  BY <1>1, CompleteWakes
<1>2. CASE /\ CapturedEmpty(s)
           /\ st' = s
           /\ handler' = [h EXCEPT !.pc = "plan_before"]
           /\ alarm' = a
           /\ UNCHANGED disk
  <2>1. handler'.pc = "plan_before" /\ ~handler'.detached
    BY <1>2 DEF Handlers
  <2>2. s.pending = <<>>
    BY <1>2 DEF CapturedEmpty
  <2> QED
    BY <1>2, <2>1, <2>2 DEF Wakeable, Alarmless
<1>3. CASE PopDue(s, h, a, m)
  BY <1>3, PopDueWakes
<1> QED
  BY <1>1, <1>2, <1>3 DEF Proceed

\* The part of alarm() after the execution.
LEMMA ConcludeWakes ==
  ASSUME WakeInv, NEW s \in State, Conclude(s),
         s.status = "running" => disk.status = "running"
  PROVE  Wakeable'
<1>1. CASE Complete(s)
  BY <1>1, CompleteWakes
<1>2. CASE /\ CapturedEmpty(s)
           /\ NeedsBasePlan(s)
           /\ st' = s
           /\ handler' = [handler EXCEPT !.pc = "plan_after"]
           /\ UNCHANGED <<disk, alarm>>
  <2>1. handler'.pc = "plan_after" /\ ~handler'.detached
    BY <1>2 DEF WakeInv, Wakeable, TypeInv, EngineOK, Handlers
  <2>2. s.pending = <<>> /\ s.status = disk.status
    BY <1>2 DEF CapturedEmpty, NeedsBasePlan, WakeInv, Wakeable
  <2> QED
    BY <1>2, <2>1, <2>2 DEF WakeInv, Wakeable, Alarmless
<1>3. CASE Save(s) /\ Ends
  BY <1>3, SaveWakes, EndsAttached
<1> QED
  BY <1>1, <1>2, <1>3 DEF Conclude

\* A failed attempt that ends the handler: unsaved only while paused.
LEMMA FailAndEndWakes ==
  ASSUME WakeInv, NEW s \in State, NEW t \in Task, NEW save \in BOOLEAN,
         FailAndEnd(s, t, save),
         save \/ Exhausted(Attempts(s, t)) \/ (s.status = "paused" /\ st.status = "paused")
  PROVE  Wakeable'
<1>1. PICK pos \in 1 .. Len(s.pending) + 1 :
        /\ IF save \/ Exhausted(Attempts(s, t))
           THEN Save(Fail(s, t, pos))
           ELSE /\ st' = Fail(s, t, pos)
                /\ alarm' = [alarm EXCEPT !.held = FALSE]
                /\ UNCHANGED disk
        /\ Ends
  BY DEF FailAndEnd
<1>2. CASE save \/ Exhausted(Attempts(s, t))
  BY <1>1, <1>2, SaveWakes, EndsAttached
<1>3. CASE ~(save \/ Exhausted(Attempts(s, t)))
  <2>1. Fail(s, t, pos).status = "paused"
    BY <1>3, FailState
  <2>2. disk.status = "paused"
    BY <1>3 DEF WakeInv, Wakeable
  <2>3. alarm'.held = FALSE
    BY <1>1, <1>3 DEF WakeInv, TypeInv, EngineOK, Alarms
  <2> QED
    BY <1>1, <1>3, <2>1, <2>2, <2>3, EndsAttached DEF Wakeable, Alarmless
<1> QED
  BY <1>2, <1>3

\* A webhook, before and after its await of D1.
LEMMA WebhookWakes ==
  ASSUME WakeInv, NEW x \in Txs, WebhookArrives(x) \/ WebhookApplies(x)
  PROVE  Wakeable'
<1>1. st \in State /\ ~handler.detached
  BY DEF WakeInv, TypeInv, EngineOK, Wakeable
<1>2. CASE WebhookArrives(x)
  <2> DEFINE s == Configured(st, WebhookConfig)
             seen == Remember(s, x)
  <2>1. s \in State /\ seen.status = s.status /\ seen.pending = s.pending
    BY <1>1, ConfiguredState, WebhookConfigConfig, RememberState
  <2>2. /\ UNCHANGED handler
        /\ \/ s.status # "running" /\ SaveWith(s, alarm)
           \/ Save(s)
           \/ Save(seen)
           \/ st' = seen /\ disk' = s /\ alarm' = AlarmFor(s)
    BY <1>2 DEF WebhookArrives
  <2> HIDE DEF s, seen
  <2>3. CASE s.status # "running" /\ SaveWith(s, alarm)
    BY <1>1, <2>2, <2>3 DEF SaveWith, WakeInv, Wakeable, Alarmless
  <2>4. CASE Save(s) \/ Save(seen)
    BY <1>1, <2>2, <2>4, SaveWakes
  <2>5. CASE st' = seen /\ disk' = s /\ alarm' = AlarmFor(s)
    BY <1>1, <2>1, <2>2, <2>5 DEF AlarmFor, Armed, Wakeable, Alarmless
  <2> QED
    BY <2>2, <2>3, <2>4, <2>5
<1>3. CASE WebhookApplies(x)
  <2> DEFINE s == Observed(st, x)
             stopped == [s EXCEPT !.status = "paused", !.pending = <<>>]
             superseded == [Supersede(s) EXCEPT !.replan = x]
  <2>1. s \in State
    BY <1>1, ObservedState
  <2>2. /\ UNCHANGED handler
        /\ \/ SaveWith(stopped, Armed("none"))
           \/ SaveWith(superseded, Armed("early"))
           \/ Save(s)
    BY <1>3 DEF WebhookApplies
  <2>3. stopped.status # "running"
    <3> HIDE DEF s
    <3> QED
      BY <2>1 DEF State
  <2> HIDE DEF s, stopped, superseded
  <2> QED
    BY <1>1, <2>2, <2>3, SaveWithWakes, SaveWakes
<1> QED
  BY <1>2, <1>3

\* The alarm rings: the handler was at rest, so no alarm was being handled.
LEMMA RingWakes ==
  ASSUME WakeInv, AlarmIgnored \/ AlarmRuns \/ AlarmReplans
  PROVE  Wakeable'
<1>1. /\ st \in State
      /\ handler.pc = "idle"
      /\ ~handler.detached /\ ~alarm.held /\ disk.status = st.status
  BY DEF AlarmIgnored, AlarmRuns, AlarmReplans, Rings, WakeInv, TypeInv, EngineOK, Wakeable
<1>2. Delivered.held = TRUE
  BY DEF Delivered, WakeInv, TypeInv, EngineOK, Alarms
<1>3. CASE AlarmIgnored
  BY <1>1, <1>3 DEF AlarmIgnored, Armed, Wakeable, Alarmless
<1>4. CASE AlarmRuns
  <2> DEFINE h == [Resting EXCEPT !.reviewed = st.cfg.reviewed]
  <2>1. h \in Handlers /\ ~h.detached
    BY DeliveryTyped, RestingHandler DEF WakeInv, Handlers
  <2>2. Proceed(st, h, Delivered, alarm.at = "head")
    BY <1>4 DEF AlarmRuns
  <2> HIDE DEF h
  <2> QED
    BY <1>1, <1>2, <2>1, <2>2, ProceedWakes
<1>5. CASE AlarmReplans
  <2> DEFINE h == [Resting EXCEPT !.pc = "replan", !.rem = Remaining(st),
                                  !.reviewed = st.cfg.reviewed]
  <2>1. h.pc = "replan" /\ ~h.detached
    BY DEF Resting
  <2>2. \/ Complete([st EXCEPT !.replan = NoTx])
        \/ handler' = h /\ alarm' = Delivered /\ UNCHANGED <<st, disk>>
    BY <1>5 DEF AlarmReplans
  <2>3. [st EXCEPT !.replan = NoTx] \in State
    BY <1>1 DEF State
  <2> HIDE DEF h
  <2> QED
    BY <1>1, <1>2, <2>1, <2>2, <2>3, CompleteWakes DEF Wakeable, Alarmless
<1> QED
  BY <1>3, <1>4, <1>5

\* A plan arrives, or planning fails and the alarm is redelivered.
LEMMA PlanningWakes ==
  ASSUME WakeInv, ReplanReady \/ BasePlanReady \/ PlanFails
  PROVE  Wakeable'
<1>1. /\ st \in State /\ handler \in Handlers
      /\ ~handler.detached /\ disk.status = st.status
      /\ Alarmless(disk) => alarm.held
  BY DEF WakeInv, TypeInv, EngineOK, Wakeable
<1>2. CASE ReplanReady
  <2> DEFINE plan == st.plans + 1
             emptied == [st EXCEPT !.pending = <<>>, !.plans = plan]
             planned == EnqueueAll(emptied, ReplanTasks(handler.rem, plan))
             s == [planned EXCEPT !.replan = NoTx]
  <2>1. plan \in 0 .. MaxPlans
    <3>1. st.plans \in 0 .. MaxPlans
      BY <1>1 DEF State
    <3>2. plan <= MaxPlans
      BY <1>2 DEF ReplanReady
    <3> QED
      BY <3>1, <3>2, BoundsAssumption
  <2>2. Proceed(s, handler, alarm, FALSE)
    BY <1>1, <1>2 DEF ReplanReady
  <2>3. emptied \in State /\ emptied.status = st.status
    <3>1. <<>> \in Seq(Task)
      OBVIOUS
    <3>2. [st EXCEPT !.pending = <<>>] \in State
      BY <1>1, <3>1, UpdatedState
    <3> HIDE DEF plan
    <3>3. [[st EXCEPT !.pending = <<>>] EXCEPT !.plans = plan] \in State
      BY <2>1, <3>2, UpdatedState
    <3>4. emptied = [[st EXCEPT !.pending = <<>>] EXCEPT !.plans = plan]
      OBVIOUS
    <3>5. [[st EXCEPT !.pending = <<>>] EXCEPT !.plans = plan].status = st.status
      BY <1>1 DEF State
    <3> QED
      BY <3>3, <3>4, <3>5
  <2>4. ReplanTasks(handler.rem, plan) \in Seq(Task)
    BY <1>1, <2>1, ReplanTasksSeq DEF Handlers
  <2> HIDE DEF emptied
  <2>5. planned \in State /\ planned.status = st.status
    BY <2>3, <2>4, EnqueueAllState
  <2> HIDE DEF planned
  <2>6. s \in State /\ s.status = st.status
    BY <2>5 DEF State
  <2> HIDE DEF s
  <2> QED
    BY <1>1, <2>2, <2>6, ProceedWakes DEF Alarmless
<1>3. CASE BasePlanReady
  <2> DEFINE plan == st.plans + 1
             counted == [st EXCEPT !.plans = plan]
             s == EnqueueAll(counted, BaseTasks(plan))
  <2>1. plan \in 0 .. MaxPlans
    <3>1. st.plans \in 0 .. MaxPlans
      BY <1>1 DEF State
    <3>2. plan <= MaxPlans
      BY <1>3 DEF BasePlanReady
    <3> QED
      BY <3>1, <3>2, BoundsAssumption
  <2>2. PopDue(s, handler, alarm, FALSE) \/ (Save(s) /\ Ends)
    BY <1>3 DEF BasePlanReady
  <2>3. counted \in State /\ counted.status = st.status
    BY <1>1, <2>1 DEF State
  <2> HIDE DEF counted
  <2>4. s \in State /\ s.status = st.status
    BY <2>1, <2>3, BaseTasksSeq, EnqueueAllState
  <2> HIDE DEF s
  <2> QED
    BY <1>1, <2>2, <2>4, PopDueWakes, SaveWakes, EndsAttached DEF Alarmless
<1>4. CASE PlanFails
  <2>1. /\ handler'.pc = "idle" /\ ~handler'.detached
        /\ UNCHANGED <<st, disk>>
        /\ ~Executing
    BY <1>4, EndsAttached DEF PlanFails, Executing
  <2>2. \/ ~alarm.held /\ alarm' = alarm
        \/ ~alarm'.held /\ alarm'.at # "none"
    BY <1>4 DEF PlanFails, Armed, WakeInv, TypeInv, EngineOK, Alarms
  <2> QED
    BY <1>1, <2>1, <2>2 DEF WakeInv, Wakeable, Alarmless
<1> QED
  BY <1>2, <1>3, <1>4

\* The execution: no one but its end touches the state and the alarm.
LEMMA ExecutionWakes ==
  ASSUME WakeInv,
         \/ AccountsReady \/ NoAccounts \/ SliceFills \/ SliceFails
         \/ ExecutionThrows \/ ExecutionEnds
  PROVE  Wakeable'
<1>1. /\ st \in State /\ handler \in Handlers
      /\ ~handler.detached /\ disk.status = st.status
  BY DEF WakeInv, TypeInv, EngineOK, Wakeable
<1>2. Executing /\ handler.task \in Task
  BY DEF AccountsReady, NoAccounts, SliceFills, SliceFails, NotSized, NotOrdered,
         NotConfirmed, Swaps, ExecutionThrows, KeyUnreadable, ExecutionEnds, Executing, WakeInv, TypeInv, EngineOK
<1>3. CASE AccountsReady \/ SliceFills \/ SliceFails
  <2>1. handler'.pc = "trade" /\ handler'.detached = handler.detached
    BY <1>1, <1>3 DEF AccountsReady, SliceFills, SliceFails, NotSized, NotOrdered, NotConfirmed,
       Swaps, Handlers
  <2>2. UNCHANGED <<st, disk, alarm>>
    BY <1>3 DEF AccountsReady, SliceFills, SliceFails, NotSized, NotOrdered, NotConfirmed, Swaps
  <2> QED
    BY <2>1, <2>2 DEF WakeInv, Wakeable, Alarmless, Executing
<1>4. CASE NoAccounts
  <2>1. [st EXCEPT !.status = "aborted", !.pending = <<>>].status # "running"
    BY <1>1 DEF State
  <2> QED
    BY <1>4, <2>1, SaveWithWakes, EndsAttached DEF NoAccounts
<1>5. CASE ExecutionThrows
  BY <1>1, <1>2, <1>5, FailAndEndWakes DEF ExecutionThrows
<1>6. CASE ExecutionEnds
  <2> DEFINE t == handler.task
             retry == RetryVolume(t)
             credited == Credit(st, t.side, handler.ok)
             done == MarkDone(credited, t.id)
             rest == [t EXCEPT !.amt = retry]
  <2>1. t \in Task /\ handler.ok \in Nat
    BY <1>1, <1>2 DEF Handlers
  <2>2. credited \in State
    BY <1>1, <2>1, CreditState DEF Task
  <2>3. /\ credited.status = st.status
        /\ credited.pending = st.pending
        /\ credited.snap = st.snap
    BY <1>1 DEF Credit, State
  <2>4. done \in State /\ done.status = st.status
    <3> HIDE DEF credited, t
    <3> QED
      BY <2>1, <2>2, <2>3, MarkDoneState DEF Task
  <2>5. retry > 0 => rest \in Task /\ rest.id = t.id
    BY <2>1 DEF RetryVolume, Task
  <2>6. \/ FailAndEnd(st, t, TRUE)
        \/ Conclude(done)
        \/ /\ retry > 0
           /\ st.status = "paused" \/ Exhausted(Attempts(st, t))
           /\ FailAndEnd(credited, rest, FALSE)
        \/ /\ retry > 0
           /\ ~(st.status = "paused" \/ Exhausted(Attempts(st, t)))
           /\ \E pos \in 1 .. Len(st.pending) + 1 :
                 Conclude(Fail(credited, rest, pos))
    BY <1>6 DEF ExecutionEnds
  <2> HIDE DEF t, retry, credited, done, rest
  <2>7. retry > 0 => Attempts(credited, rest) = Attempts(st, t)
    BY <2>3, <2>5 DEF Attempts
  <2>8. CASE FailAndEnd(st, t, TRUE)
    BY <1>1, <2>1, <2>8, FailAndEndWakes
  <2>9. CASE Conclude(done)
    BY <1>1, <2>4, <2>9, ConcludeWakes
  <2>10. CASE /\ retry > 0
              /\ st.status = "paused" \/ Exhausted(Attempts(st, t))
              /\ FailAndEnd(credited, rest, FALSE)
    BY <2>2, <2>3, <2>5, <2>7, <2>10, FailAndEndWakes
  <2>11. CASE /\ retry > 0
              /\ ~(st.status = "paused" \/ Exhausted(Attempts(st, t)))
              /\ \E pos \in 1 .. Len(st.pending) + 1 :
                    Conclude(Fail(credited, rest, pos))
    <3>1. PICK pos \in 1 .. Len(st.pending) + 1 : Conclude(Fail(credited, rest, pos))
      BY <2>11
    <3> DEFINE f == Fail(credited, rest, pos)
    <3>2. f \in State /\ f.status = st.status
      BY <2>2, <2>3, <2>5, <2>7, <2>11, FailState
    <3> HIDE DEF f
    <3>3. Conclude(f)
      BY <3>1 DEF f
    <3> QED
      BY <1>1, <3>2, <3>3, ConcludeWakes
  <2> QED
    BY <2>6, <2>8, <2>9, <2>10, <2>11
<1> QED
  BY <1>3, <1>4, <1>5, <1>6

\* Every step but /clear keeps the invariant.
LEMMA WakeStep ==
  ASSUME "clear" \notin UserOps, WakeInv, [Next]_vars
  PROVE  WakeInv'
<1>1. TypeInv'
  BY TypeStep DEF WakeInv
<1> SUFFICES Wakeable'
  BY <1>1 DEF WakeInv
<1>2. st \in State /\ ~handler.detached
  BY DEF WakeInv, TypeInv, EngineOK, Wakeable
<1>3. ASSUME NEW r \in Runs, Start(r) PROVE Wakeable'
  BY <1>2, <1>3, SaveWithWakes DEF Start
<1>4. CASE Abort
  <2>1. [st EXCEPT !.status = "aborted", !.pending = <<>>].status # "running"
    BY <1>2 DEF State
  <2> QED
    BY <1>2, <1>4, <2>1, SaveWithWakes DEF Abort
<1>5. CASE Pause
  <2>1. [st EXCEPT !.status = "paused"].status # "running"
    BY <1>2 DEF State
  <2> QED
    BY <1>2, <1>5, <2>1, SaveWithWakes DEF Pause
<1>6. CASE Resume
  BY <1>2, <1>6, SaveWakes DEF Resume
<1>7. CASE Clear
  BY <1>7 DEF Clear, UseOp
<1>8. ASSUME NEW x \in Txs, WebhookArrives(x) \/ WebhookApplies(x) PROVE Wakeable'
  BY <1>8, WebhookWakes
<1>9. CASE AlarmHandler
  BY <1>9, RingWakes, PlanningWakes, ExecutionWakes DEF AlarmHandler
<1>10. CASE Crash
  <2>1. handler'.pc = "idle" /\ ~handler'.detached
    BY <1>10, RestingHandler DEF Crash
  <2>2. ~alarm'.held /\ (alarm.at # "none" \/ alarm.held => alarm'.at # "none")
    BY <1>10 DEF Crash, WakeInv, TypeInv, EngineOK, Alarms
  <2>3. st' = disk /\ disk' = disk
    BY <1>10 DEF Crash
  <2> QED
    BY <2>1, <2>2, <2>3 DEF WakeInv, Wakeable, Alarmless
<1>11. CASE UNCHANGED vars
  BY <1>11 DEF vars, WakeInv, Wakeable, Alarmless, Executing
<1> QED
  BY <1>3, <1>4, <1>5, <1>6, <1>7, <1>8, <1>9, <1>10, <1>11 DEF Next

\* Unless the object is cleared under a running handler, a running run with
\* tasks queued always has an alarm that will wake it when the handler is at
\* rest, and so has the copy a crash would bring back: alarm() and the requests
\* leave no window, whatever they interleave with and wherever a crash comes.
THEOREM AlwaysWoken ==
  ASSUME "clear" \notin UserOps
  PROVE  Spec => []WakesUp
<1>1. Init => WakeInv
  BY TypeInit, RestingHandler DEF Init, Idle, WakeInv, Wakeable, Alarmless, Armed
<1>2. WakeInv /\ [Next]_vars => WakeInv'
  BY WakeStep
<1>3. WakeInv => WakesUp
  BY WakeableWakes DEF WakeInv
<1> QED
  BY <1>1, <1>2, <1>3, PTL DEF Spec

-----------------------------------------------------------------------------
(* Counting never passes the target.                                        *)

(* A crash brings the stored state back, so the property needs that what is *)
(* stored never counts more than memory does.                               *)

StoredBehind == Volume(disk) <= Volume(st)

VolumeInv == TypeInv /\ StoredBehind

(* What a step that leaves the state s in memory does to the volumes.       *)
Leaves(s) == SameVolumes(st', s) /\ (disk' = st' \/ disk' = disk)

\* markCompleted keeps the volumes of the state it completes; the lemmas after
\* it say the same of the other ways for alarm() to suspend or end.
LEMMA CompleteLeaves ==
  ASSUME NEW s \in State, Complete(s)
  PROVE  Leaves(s)
  BY QueueVolumes DEF Complete, SaveWith, Leaves

\* persistState() keeps the volumes of what it saves.
LEMMA SaveLeaves ==
  ASSUME NEW s, Save(s)
  PROVE  Leaves(s)
  BY DEF Save, SaveWith, Leaves, SameVolumes

\* Popping the due task keeps the volumes.
LEMMA PopDueLeaves ==
  ASSUME NEW s \in State, NEW h, NEW a, NEW m, PopDue(s, h, a, m)
  PROVE  Leaves(s)
<1>1. CASE Save(s)
  BY <1>1, SaveLeaves
<1>2. CASE st' = [s EXCEPT !.pending = Tail(@)] /\ UNCHANGED disk
  BY <1>2 DEF Leaves, SameVolumes, State
<1> QED
  BY <1>1, <1>2 DEF PopDue

\* The part of alarm() before the execution keeps the volumes.
LEMMA ProceedLeaves ==
  ASSUME NEW s \in State, NEW h, NEW a, NEW m, Proceed(s, h, a, m)
  PROVE  Leaves(s)
<1>1. CASE Complete(s)
  BY <1>1, CompleteLeaves
<1>2. CASE st' = s /\ UNCHANGED disk
  BY <1>2 DEF Leaves, SameVolumes
<1>3. CASE PopDue(s, h, a, m)
  BY <1>3, PopDueLeaves
<1> QED
  BY <1>1, <1>2, <1>3 DEF Proceed

\* The part of alarm() after the execution keeps the volumes.
LEMMA ConcludeLeaves ==
  ASSUME NEW s \in State, Conclude(s)
  PROVE  Leaves(s)
<1>1. CASE Complete(s)
  BY <1>1, CompleteLeaves
<1>2. CASE st' = s /\ UNCHANGED disk
  BY <1>2 DEF Leaves, SameVolumes
<1>3. CASE Save(s)
  BY <1>3, SaveLeaves
<1> QED
  BY <1>1, <1>2, <1>3 DEF Conclude

\* A failed attempt that ends the handler keeps the volumes.
LEMMA FailAndEndLeaves ==
  ASSUME NEW s \in State, NEW t \in Task, NEW save, FailAndEnd(s, t, save)
  PROVE  Leaves(s)
<1>1. PICK pos \in 1 .. Len(s.pending) + 1 :
        \/ Save(Fail(s, t, pos))
        \/ st' = Fail(s, t, pos) /\ UNCHANGED disk
  BY DEF FailAndEnd
<1>2. SameVolumes(Fail(s, t, pos), s)
  BY QueueVolumes
<1> QED
  BY <1>1, <1>2 DEF Save, SaveWith, Leaves

\* What the step promises: no more is counted, or no more than the target.
Bounded == Volume(st') <= Volume(st) \/ Volume(st') <= ManagedTarget(st')

\* A step that leaves a state that counts as much as before.
LEMMA LeavesBounded ==
  ASSUME VolumeInv, TypeInv', NEW s \in State, Leaves(s), s.exec = st.exec
  PROVE  Bounded /\ StoredBehind'
<1>1. st'.exec = st.exec
  BY DEF Leaves, SameVolumes
<1>2. Volume(st') = Volume(st)
  BY <1>1 DEF Volume
<1>3. Volume(st) \in Nat /\ Volume(disk) \in Nat
  BY VolumesNat DEF VolumeInv, TypeInv, EngineOK
<1>4. Volume(disk)' = Volume(st') \/ Volume(disk)' = Volume(disk)
  BY DEF Leaves, Volume
<1> QED
  BY <1>2, <1>3, <1>4 DEF Bounded, StoredBehind, VolumeInv

\* The end of an execution is the one step that counts.
LEMMA ExecutionEndsBounded ==
  ASSUME VolumeInv, TypeInv', ExecutionEnds
  PROVE  Bounded /\ StoredBehind'
<1> DEFINE t == handler.task
           retry == RetryVolume(t)
           credited == Credit(st, t.side, handler.ok)
           done == MarkDone(credited, t.id)
           rest == [t EXCEPT !.amt = retry]
<1>1. t \in Task /\ handler.ok \in Nat /\ st \in State /\ disk \in State
  BY DEF ExecutionEnds, Executing, VolumeInv, TypeInv, EngineOK, Handlers
<1>2. /\ credited \in State
      /\ Volume(credited) - Volume(st) \in 0 .. handler.ok
      /\ \/ Volume(credited) = Volume(st)
         \/ Volume(credited) <= ManagedTarget(credited)
  BY <1>1, CreditState, CreditCapped DEF Task
<1>3. credited.pending = st.pending
  BY <1>1 DEF Credit, State
<1>4. retry > 0 => rest \in Task
  BY <1>1 DEF RetryVolume, Task
<1>5. \/ FailAndEnd(st, t, TRUE)
      \/ Conclude(done)
      \/ retry > 0 /\ FailAndEnd(credited, rest, FALSE)
      \/ retry > 0 /\ \E pos \in 1 .. Len(st.pending) + 1 :
                         Conclude(Fail(credited, rest, pos))
  BY DEF ExecutionEnds
<1>6. t.id \in TaskIds
  BY <1>1 DEF Task
<1>7. st' \in State /\ Volume(disk) <= Volume(st)
  BY DEF TypeInv, EngineOK, VolumeInv, StoredBehind
<1> HIDE DEF t, retry, credited, rest
<1>8. Leaves(st) \/ Leaves(credited)
  <2>1. CASE FailAndEnd(st, t, TRUE)
    BY <1>1, <2>1, FailAndEndLeaves
  <2>2. CASE Conclude(done)
    <3>1. done \in State /\ SameVolumes(done, credited)
      BY <1>2, <1>6, MarkDoneState, QueueVolumes
    <3>2. Leaves(done)
      BY <2>2, <3>1, ConcludeLeaves
    <3> QED
      BY <3>1, <3>2 DEF Leaves, SameVolumes
  <2>3. CASE retry > 0 /\ FailAndEnd(credited, rest, FALSE)
    BY <1>2, <1>4, <2>3, FailAndEndLeaves
  <2>4. CASE retry > 0 /\ \E pos \in 1 .. Len(st.pending) + 1 :
                             Conclude(Fail(credited, rest, pos))
    <3>1. PICK pos \in 1 .. Len(st.pending) + 1 : Conclude(Fail(credited, rest, pos))
      BY <2>4
    <3> DEFINE f == Fail(credited, rest, pos)
    <3>2. f \in State /\ SameVolumes(f, credited)
      BY <1>2, <1>3, <1>4, <2>4, FailState, QueueVolumes
    <3> HIDE DEF f
    <3>3. Leaves(f)
      BY <3>1, <3>2, ConcludeLeaves DEF f
    <3> QED
      BY <3>2, <3>3 DEF Leaves, SameVolumes
  <2> QED
    BY <1>5, <2>1, <2>2, <2>3, <2>4
<1>9. CASE Leaves(st)
  BY <1>1, <1>9, LeavesBounded
<1>10. CASE Leaves(credited)
  <2>1. Volume(st') = Volume(credited) /\ ManagedTarget(st') = ManagedTarget(credited)
    BY <1>2, <1>7, <1>10, VolumesDecide DEF Leaves
  <2>2. Volume(st) \in Nat /\ Volume(disk) \in Nat /\ Volume(credited) \in Nat
    BY <1>1, <1>2, VolumesNat
  <2>3. Volume(disk)' = Volume(st') \/ Volume(disk)' = Volume(disk)
    BY <1>10 DEF Leaves, Volume
  <2> QED
    BY <1>1, <1>2, <1>7, <2>1, <2>2, <2>3 DEF Bounded, StoredBehind
<1> QED
  BY <1>8, <1>9, <1>10

\* Every step.
LEMMA VolumeStep ==
  ASSUME VolumeInv, [Next]_vars
  PROVE  Bounded /\ VolumeInv'
<1>1. TypeInv'
  BY TypeStep DEF VolumeInv
<1> SUFFICES Bounded /\ StoredBehind'
  BY <1>1 DEF VolumeInv
<1>2. st \in State /\ disk \in State /\ st' \in State
  BY <1>1 DEF VolumeInv, TypeInv, EngineOK
<1>3. Volume(st) \in Nat /\ Volume(disk) \in Nat /\ Volume(disk) <= Volume(st)
  BY <1>2, VolumesNat DEF VolumeInv, StoredBehind
<1>4. ASSUME NEW r \in Runs, Start(r) PROVE Bounded /\ StoredBehind'
  <2> DEFINE fresh == [Idle EXCEPT !.cfg = [set |-> TRUE, run |-> r, reviewed |-> TRUE],
                                   !.status = "running", !.plans = st.plans]
  <2>1. Started(st, r).exec = Idle.exec
    BY DEF Started, EnqueueAll, Idle
  <2>2. Volume(st') = 0 /\ disk' = st'
    BY <1>4, <2>1 DEF Start, SaveWith, Volume, Idle
  <2> QED
    BY <1>3, <2>2 DEF Bounded, StoredBehind, Volume
<1>5. CASE Clear
  <2>1. Volume(st') = 0 /\ disk' = st'
    BY <1>5 DEF Clear, SaveWith, Volume, Idle
  <2> QED
    BY <1>3, <2>1 DEF Bounded, StoredBehind, Volume
<1>6. CASE Abort \/ Pause \/ NoAccounts
  <2>1. st'.exec = st.exec /\ disk' = st'
    BY <1>2, <1>6 DEF Abort, Pause, NoAccounts, SaveWith, State
  <2> QED
    BY <1>3, <2>1 DEF Bounded, StoredBehind, Volume
<1>7. CASE Resume
  <2>1. st'.exec = st.exec /\ disk' = st'
    BY <1>2, <1>7, RequestVolumes DEF Resume, Save, SaveWith
  <2> QED
    BY <1>3, <2>1 DEF Bounded, StoredBehind, Volume
<1>8. ASSUME NEW x \in Txs, WebhookArrives(x) PROVE Bounded /\ StoredBehind'
  <2> DEFINE s == Configured(st, WebhookConfig)
             seen == Remember(s, x)
  <2>1. s \in State /\ s.exec = st.exec /\ seen.exec = st.exec
    BY <1>2, ConfiguredState, WebhookConfigConfig, RequestVolumes
  <2>2. st' \in {s, seen} /\ disk' \in {s, seen}
    BY <1>8 DEF WebhookArrives, Save, SaveWith
  <2> HIDE DEF s, seen
  <2> QED
    BY <1>3, <2>1, <2>2 DEF Bounded, StoredBehind, Volume
<1>9. ASSUME NEW x \in Txs, WebhookApplies(x) PROVE Bounded /\ StoredBehind'
  <2> DEFINE s == Observed(st, x)
  <2>1. s \in State /\ s.exec = st.exec
    BY <1>2, ObservedState, RequestVolumes
  <2>2. /\ disk' = st'
        /\ \/ st' = [s EXCEPT !.status = "paused", !.pending = <<>>]
           \/ st' = [Supersede(s) EXCEPT !.replan = x]
           \/ st' = s
    BY <1>9 DEF WebhookApplies, Save, SaveWith
  <2> HIDE DEF s
  <2>3. Supersede(s) \in State /\ Supersede(s).exec = s.exec
    BY <2>1, SupersedeState, QueueVolumes DEF SameVolumes
  <2>4. st'.exec = st.exec
    BY <2>1, <2>2, <2>3 DEF State
  <2> QED
    BY <1>3, <2>2, <2>4 DEF Bounded, StoredBehind, Volume
<1>10. CASE AlarmRuns
  <2>1. Leaves(st)
    BY <1>2, <1>10, ProceedLeaves DEF AlarmRuns
  <2> QED
    BY <1>1, <1>2, <2>1, LeavesBounded
<1>11. CASE AlarmReplans
  <2> DEFINE s == [st EXCEPT !.replan = NoTx]
  <2>1. s \in State /\ s.exec = st.exec
    BY <1>2 DEF State
  <2>2. Complete(s) \/ UNCHANGED <<st, disk>>
    BY <1>11 DEF AlarmReplans
  <2> HIDE DEF s
  <2>3. CASE Complete(s)
    BY <1>1, <2>1, <2>3, CompleteLeaves, LeavesBounded
  <2>4. CASE UNCHANGED <<st, disk>>
    BY <1>3, <2>4 DEF Bounded, StoredBehind, Volume
  <2> QED
    BY <2>2, <2>3, <2>4
<1>12. CASE ReplanReady
  <2> DEFINE plan == st.plans + 1
             emptied == [st EXCEPT !.pending = <<>>, !.plans = plan]
             planned == EnqueueAll(emptied, ReplanTasks(handler.rem, plan))
             s == IF handler.detached THEN planned ELSE [planned EXCEPT !.replan = NoTx]
  <2>1. plan \in 0 .. MaxPlans
    <3>1. st.plans \in 0 .. MaxPlans
      BY <1>2 DEF State
    <3>2. plan <= MaxPlans
      BY <1>12 DEF ReplanReady
    <3> QED
      BY <3>1, <3>2, BoundsAssumption
  <2>2. emptied \in State /\ emptied.exec = st.exec
    <3>1. <<>> \in Seq(Task)
      OBVIOUS
    <3>2. [st EXCEPT !.pending = <<>>] \in State
      BY <1>2, <3>1, UpdatedState
    <3>3. emptied = [[st EXCEPT !.pending = <<>>] EXCEPT !.plans = plan]
      OBVIOUS
    <3>4. emptied.exec = st.exec
      BY <1>2 DEF State
    <3> HIDE DEF plan, emptied
    <3> QED
      BY <2>1, <3>2, <3>3, <3>4, UpdatedState
  <2>3. ReplanTasks(handler.rem, plan) \in Seq(Task)
    BY <2>1, ReplanTasksSeq DEF VolumeInv, TypeInv, EngineOK, Handlers
  <2>4. Proceed(s, handler, alarm, FALSE)
    BY <1>12 DEF ReplanReady
  <2> HIDE DEF emptied
  <2>5. planned \in State /\ planned.exec = st.exec
    BY <2>2, <2>3, EnqueueAllState, QueueVolumes DEF SameVolumes
  <2> HIDE DEF planned
  <2>6. s \in State /\ s.exec = st.exec
    BY <2>5 DEF State
  <2> HIDE DEF s
  <2> QED
    BY <1>1, <2>4, <2>6, ProceedLeaves, LeavesBounded
<1>13. CASE BasePlanReady
  <2> DEFINE plan == st.plans + 1
             counted == [st EXCEPT !.plans = plan]
             s == EnqueueAll(counted, BaseTasks(plan))
  <2>1. plan \in 0 .. MaxPlans
    <3>1. st.plans \in 0 .. MaxPlans
      BY <1>2 DEF State
    <3>2. plan <= MaxPlans
      BY <1>13 DEF BasePlanReady
    <3> QED
      BY <3>1, <3>2, BoundsAssumption
  <2>2. counted \in State /\ counted.exec = st.exec
    BY <1>2, <2>1 DEF State
  <2>3. PopDue(s, handler, alarm, FALSE) \/ Save(s)
    BY <1>13 DEF BasePlanReady
  <2> HIDE DEF counted
  <2>4. s \in State /\ s.exec = st.exec
    BY <2>1, <2>2, BaseTasksSeq, EnqueueAllState, QueueVolumes DEF SameVolumes
  <2> HIDE DEF s
  <2>5. Leaves(s)
    BY <2>3, <2>4, PopDueLeaves, SaveLeaves
  <2> QED
    BY <1>1, <2>4, <2>5, LeavesBounded
<1>14. CASE ExecutionThrows
  <2>1. handler.task \in Task
    BY <1>14 DEF ExecutionThrows, KeyUnreadable, Executing, VolumeInv, TypeInv, EngineOK
  <2>2. Leaves(st)
    BY <1>2, <1>14, <2>1, FailAndEndLeaves DEF ExecutionThrows, KeyUnreadable
  <2> QED
    BY <1>1, <1>2, <2>2, LeavesBounded
<1>15. CASE ExecutionEnds
  BY <1>1, <1>15, ExecutionEndsBounded
<1>16. CASE Crash
  BY <1>3, <1>16 DEF Crash, Bounded, StoredBehind, Volume
<1>17. CASE UNCHANGED <<st, disk>>
  BY <1>3, <1>17 DEF Bounded, StoredBehind, Volume
<1>18. AlarmIgnored \/ PlanFails \/ AccountsReady \/ SliceFills \/ SliceFails \/ UNCHANGED vars
         => UNCHANGED <<st, disk>>
  BY DEF AlarmIgnored, PlanFails, AccountsReady, SliceFills, SliceFails, NotSized, NotOrdered,
     NotConfirmed, Swaps, vars
<1> QED
  BY <1>4, <1>5, <1>6, <1>7, <1>8, <1>9, <1>10, <1>11, <1>12, <1>13, <1>14, <1>15,
     <1>16, <1>17, <1>18 DEF Next, AlarmHandler

\* Whatever fills are reported, whatever events move the target meanwhile and
\* whatever a crash takes back, applyExecutedTask never takes the counted
\* volume past the target in force.
THEOREM NeverOvercredits == Spec => NoOvercredit
<1>1. Init => VolumeInv
  BY TypeInit DEF Init, VolumeInv, StoredBehind, Volume, Idle
<1>2. VolumeInv /\ [Next]_vars => VolumeInv'
  BY VolumeStep
<1>3. VolumeInv /\ VolumeInv' /\ [Next]_vars
        => [Volume(st') > Volume(st) => Volume(st') <= ManagedTarget(st')]_vars
  <2> SUFFICES ASSUME VolumeInv, VolumeInv', [Next]_vars
               PROVE  Volume(st') > Volume(st) => Volume(st') <= ManagedTarget(st')
    OBVIOUS
  <2>1. Bounded
    BY VolumeStep
  <2>2. Volume(st') \in Nat /\ Volume(st) \in Nat
    BY VolumesNat DEF VolumeInv, TypeInv, EngineOK
  <2> QED
    BY <2>1, <2>2 DEF Bounded
<1> QED
  BY <1>1, <1>2, <1>3, PTL DEF Spec, NoOvercredit

-----------------------------------------------------------------------------
(* What alarm() leaves alone: the configuration, the events observed and    *)
(* the hashes remembered.  Its steps are given once, for every proof below. *)

SameRun(s, t) == s.cfg = t.cfg /\ s.obs = t.obs /\ s.dedup = t.dedup

\* Queueing, superseding, completing, marking done, failing and counting
\* leave the configuration and the events alone.
LEMMA QueueSameRun ==
  ASSUME NEW s \in State
  PROVE  /\ \A t \in Task : \A pos \in 1 .. Len(s.pending) + 1 :
               /\ SameRun(Enqueue(s, t, pos), s)
               /\ SameRun(Fail(s, t, pos), s)
         /\ \A q \in Seq(Task) : SameRun(EnqueueAll(s, q), s)
         /\ SameRun(Supersede(s), s)
         /\ SameRun(Completed(s), s)
         /\ \A i \in TaskIds : SameRun(MarkDone(s, i), s)
         /\ \A d \in Sides, vol \in Nat :
               SameRun(Credit(s, d, vol), s) /\ Credit(s, d, vol).status = s.status
<1>1. ASSUME NEW t \in Task, NEW pos \in 1 .. Len(s.pending) + 1
      PROVE  SameRun(Enqueue(s, t, pos), s)
  BY DEF Enqueue, SameRun, State
<1>2. ASSUME NEW t \in Task, NEW pos \in 1 .. Len(s.pending) + 1
      PROVE  SameRun(Fail(s, t, pos), s)
  <2> DEFINE held == [s EXCEPT !.paused = t, !.status = "paused"]
             next == IF Exhausted(Attempts(s, t)) THEN held ELSE Enqueue(s, t, pos)
             entry == [status |-> "failed", attempts |-> Attempts(s, t)]
  <2>1. held \in State /\ SameRun(held, s)
    BY DEF SameRun, State, Statuses
  <2>2. next \in State /\ SameRun(next, s)
    BY <1>1, <2>1, EnqueueState
  <2>3. Fail(s, t, pos) = IF next.snap[t.id].status # "none"
                          THEN [next EXCEPT !.snap[t.id] = entry] ELSE next
    BY DEF Fail
  <2> HIDE DEF next, entry
  <2>4. SameRun([next EXCEPT !.snap[t.id] = entry], next)
    BY <2>2 DEF SameRun, State
  <2> QED
    BY <2>2, <2>3, <2>4 DEF SameRun
<1>3. ASSUME NEW q \in Seq(Task) PROVE SameRun(EnqueueAll(s, q), s)
  BY DEF EnqueueAll, SameRun, State
<1>4. SameRun(Supersede(s), s)
  BY DEF Supersede, SameRun, State
<1>5. SameRun(Completed(s), s)
  <2>1. SameRun([Supersede(s) EXCEPT !.status = "completed"], Supersede(s))
    BY SupersedeState DEF SameRun, State
  <2> QED
    BY <1>4, <2>1 DEF Completed, SameRun
<1>6. ASSUME NEW i \in TaskIds PROVE SameRun(MarkDone(s, i), s)
  BY DEF MarkDone, SameRun, State
<1>7. ASSUME NEW d \in Sides, NEW vol \in Nat
      PROVE  SameRun(Credit(s, d, vol), s) /\ Credit(s, d, vol).status = s.status
  BY DEF Credit, SameRun, State
<1> QED
  BY <1>1, <1>2, <1>3, <1>4, <1>5, <1>6, <1>7

\* How alarm() suspends or ends once it has made the state s of the run, if it
\* does not pop a task, and if it may.
Concludes(s, h) ==
    \/ st' = Completed(s) /\ disk' = st' /\ Ends
    \/ st' = s /\ disk' = s /\ Ends
    \/ /\ st' = s /\ UNCHANGED disk
       /\ \E p \in {"plan_before", "plan_after"} : handler' = [h EXCEPT !.pc = p]
GoesOn(s, h) ==
    \/ Concludes(s, h)
    \/ /\ s.pending # <<>>
       /\ st' = [s EXCEPT !.pending = Tail(@)]
       /\ UNCHANGED disk
       /\ handler' = [h EXCEPT !.pc = "allocate", !.task = Head(s.pending)]

\* Popping, proceeding and concluding are such steps.
LEMMA StepsGoOn ==
  ASSUME NEW s, NEW h, NEW a, NEW m
  PROVE  /\ PopDue(s, h, a, m) => GoesOn(s, h)
         /\ Proceed(s, h, a, m) => GoesOn(s, h)
         /\ Conclude(s) => Concludes(s, handler)
<1>1. Complete(s) => Concludes(s, h) /\ Concludes(s, handler)
  BY DEF Complete, SaveWith, Concludes
<1>2. Save(s) /\ Ends => Concludes(s, h) /\ Concludes(s, handler)
  BY DEF Save, SaveWith, Concludes
<1>3. PopDue(s, h, a, m) => GoesOn(s, h)
  BY <1>2 DEF PopDue, GoesOn
<1>4. Proceed(s, h, a, m) => GoesOn(s, h)
  BY <1>1, <1>3 DEF Proceed, GoesOn, Concludes
<1>5. Conclude(s) => Concludes(s, handler)
  BY <1>1, <1>2 DEF Conclude, Concludes
<1> QED
  BY <1>3, <1>4, <1>5

\* The state a replan, or a reviewed plan planned again, makes of a run.
Replanned(s, q) ==
    /\ s \in State
    /\ SameRun(s, st)
    /\ s.status = st.status
    /\ s.exec = st.exec
    /\ s.paused = st.paused
    /\ s.plans = st.plans + 1
    /\ s.snap = WithSnapshots(st.snap, IdsOf(q))

\* What a reactive plan leaves.
LEMMA ReplanGoesOn ==
  ASSUME TypeInv, ReplanReady
  PROVE  LET q == ReplanTasks(handler.rem, st.plans + 1)
         IN  /\ q \in Seq(Task)
             /\ \E s : Replanned(s, q) /\ s.pending = q /\ GoesOn(s, handler)
<1> DEFINE plan == st.plans + 1
           emptied == [st EXCEPT !.pending = <<>>, !.plans = plan]
           q == ReplanTasks(handler.rem, plan)
           planned == EnqueueAll(emptied, q)
           s == IF handler.detached THEN planned ELSE [planned EXCEPT !.replan = NoTx]
<1>1. st \in State /\ handler \in Handlers
  BY DEF TypeInv, EngineOK
<1>2. plan \in 0 .. MaxPlans
  <2>1. st.plans \in 0 .. MaxPlans
    BY <1>1 DEF State
  <2>2. plan <= MaxPlans
    BY DEF ReplanReady
  <2> QED
    BY <2>1, <2>2, BoundsAssumption
<1>3. GoesOn(s, handler)
  BY StepsGoOn DEF ReplanReady
<1>4. q \in Seq(Task)
  BY <1>1, <1>2, ReplanTasksSeq DEF Handlers
<1> HIDE DEF q
<1>5. /\ emptied \in State
      /\ SameRun(emptied, st) /\ emptied.status = st.status
      /\ emptied.exec = st.exec /\ emptied.paused = st.paused
      /\ emptied.plans = plan /\ emptied.pending = <<>> /\ emptied.snap = st.snap
  <2>1. <<>> \in Seq(Task)
    OBVIOUS
  <2> HIDE DEF plan
  <2> QED
    BY <1>1, <1>2, <2>1 DEF State, SameRun
<1> HIDE DEF emptied
<1>6. /\ planned \in State
      /\ planned.status = emptied.status
      /\ SameRun(planned, emptied)
      /\ planned.exec = emptied.exec
  BY <1>4, <1>5, EnqueueAllState, QueueSameRun, QueueVolumes DEF SameVolumes
<1>7. /\ planned.pending = <<>> \o q
      /\ planned.snap = WithSnapshots(st.snap, IdsOf(q))
      /\ planned.paused = emptied.paused /\ planned.plans = emptied.plans
  BY <1>5 DEF EnqueueAll, State
<1>8. <<>> \o q = q
  BY <1>4
<1> HIDE DEF planned
<1>9. /\ s \in State /\ SameRun(s, planned) /\ s.status = planned.status
      /\ s.exec = planned.exec /\ s.paused = planned.paused
      /\ s.plans = planned.plans /\ s.snap = planned.snap
      /\ s.pending = planned.pending
  BY <1>6 DEF State, SameRun
<1> HIDE DEF s
<1>10. Replanned(s, q) /\ s.pending = q
  BY <1>5, <1>6, <1>7, <1>8, <1>9 DEF Replanned, SameRun
<1> QED
  BY <1>3, <1>4, <1>10 DEF q

\* What a reviewed plan planned again leaves.
LEMMA BasePlanGoesOn ==
  ASSUME TypeInv, BasePlanReady
  PROVE  LET q == BaseTasks(st.plans + 1)
         IN  /\ q \in Seq(Task)
             /\ \E s : /\ Replanned(s, q) /\ s.pending = st.pending \o q
                       /\ GoesOn(s, handler)
                       /\ handler.pc = "plan_after" => Ends
<1> DEFINE plan == st.plans + 1
           counted == [st EXCEPT !.plans = plan]
           q == BaseTasks(plan)
           s == EnqueueAll(counted, q)
<1>1. st \in State /\ handler \in Handlers
  BY DEF TypeInv, EngineOK
<1>2. plan \in 0 .. MaxPlans
  <2>1. st.plans \in 0 .. MaxPlans
    BY <1>1 DEF State
  <2>2. plan <= MaxPlans
    BY DEF BasePlanReady
  <2> QED
    BY <2>1, <2>2, BoundsAssumption
<1>3. GoesOn(s, handler) /\ (handler.pc = "plan_after" => Ends)
  <2>1. CASE handler.pc = "plan_before" /\ PopDue(s, handler, alarm, FALSE)
    BY <2>1, StepsGoOn
  <2>2. CASE Save(s) /\ Ends
    BY <2>2 DEF Save, SaveWith, GoesOn, Concludes
  <2> QED
    BY <2>1, <2>2 DEF BasePlanReady
<1>4. q \in Seq(Task)
  BY <1>2, BaseTasksSeq
<1> HIDE DEF q
<1>5. /\ counted \in State
      /\ SameRun(counted, st) /\ counted.status = st.status
      /\ counted.exec = st.exec /\ counted.paused = st.paused
      /\ counted.plans = plan /\ counted.pending = st.pending /\ counted.snap = st.snap
  <2> HIDE DEF plan
  <2> QED
    BY <1>1, <1>2 DEF State, SameRun
<1> HIDE DEF counted
<1>6. /\ s \in State
      /\ s.status = counted.status
      /\ SameRun(s, counted)
      /\ s.exec = counted.exec
  BY <1>4, <1>5, EnqueueAllState, QueueSameRun, QueueVolumes DEF SameVolumes
<1>7. /\ s.pending = st.pending \o q
      /\ s.snap = WithSnapshots(st.snap, IdsOf(q))
      /\ s.paused = counted.paused /\ s.plans = counted.plans
  BY <1>5 DEF EnqueueAll, State
<1> HIDE DEF s
<1>8. Replanned(s, q)
  BY <1>5, <1>6, <1>7 DEF Replanned, SameRun
<1> QED
  BY <1>3, <1>4, <1>7, <1>8 DEF q

\* How alarm() ends after a failed attempt: unsaved only when it only queued.
Fails(s, t) ==
    \E pos \in 1 .. Len(s.pending) + 1 :
        /\ st' = Fail(s, t, pos)
        /\ disk' = st' \/ (UNCHANGED disk /\ ~Exhausted(Attempts(s, t)))
        /\ Ends

\* handleTaskFailure is such an end.
LEMMA FailuresEnd ==
  ASSUME NEW s, NEW t, NEW save \in BOOLEAN, FailAndEnd(s, t, save)
  PROVE  Fails(s, t)
  BY DEF FailAndEnd, Fails, Save, SaveWith

\* What an execution leaves: the task failed, is done, or is queued again for
\* the part no slice filled.
LEMMA ExecutionGoesOn ==
  ASSUME TypeInv, ExecutionEnds
  PROVE  LET t == handler.task
             credited == Credit(st, t.side, handler.ok)
             rest == [t EXCEPT !.amt = RetryVolume(t)]
         IN  /\ t \in Task
             /\ credited \in State
             /\ SameRun(credited, st) /\ credited.status = st.status
             /\ credited.pending = st.pending /\ credited.paused = st.paused
             /\ credited.snap = st.snap /\ credited.plans = st.plans
             /\ \/ Fails(st, t)
                \/ Concludes(MarkDone(credited, t.id), handler)
                \/ rest \in Task /\ rest.id = t.id /\ Fails(credited, rest)
                \/ /\ rest \in Task /\ rest.id = t.id
                   /\ ~Exhausted(Attempts(st, t))
                   /\ \E pos \in 1 .. Len(st.pending) + 1 :
                         Concludes(Fail(credited, rest, pos), handler)
<1> DEFINE t == handler.task
           retry == RetryVolume(t)
           credited == Credit(st, t.side, handler.ok)
           rest == [t EXCEPT !.amt = retry]
<1>1. t \in Task /\ handler.ok \in Nat /\ st \in State
  BY DEF ExecutionEnds, Executing, TypeInv, EngineOK, Handlers
<1>2. credited \in State /\ SameRun(credited, st) /\ credited.status = st.status
  BY <1>1, CreditState, QueueSameRun DEF Task
<1>3. /\ credited.pending = st.pending /\ credited.paused = st.paused
      /\ credited.snap = st.snap /\ credited.plans = st.plans
  BY <1>1 DEF Credit, State
<1>4. retry > 0 => rest \in Task /\ rest.id = t.id
  BY <1>1 DEF RetryVolume, Task
<1>5. \/ FailAndEnd(st, t, TRUE)
      \/ Conclude(MarkDone(credited, t.id))
      \/ retry > 0 /\ FailAndEnd(credited, rest, FALSE)
      \/ /\ retry > 0 /\ ~Exhausted(Attempts(st, t))
         /\ \E pos \in 1 .. Len(st.pending) + 1 : Conclude(Fail(credited, rest, pos))
  BY DEF ExecutionEnds
<1> HIDE DEF t, retry, credited, rest
<1>6. CASE FailAndEnd(st, t, TRUE)
  BY <1>1, <1>2, <1>3, <1>6, FailuresEnd DEF t, credited
<1>7. CASE Conclude(MarkDone(credited, t.id))
  BY <1>1, <1>2, <1>3, <1>7, StepsGoOn DEF t, credited
<1>8. CASE retry > 0 /\ FailAndEnd(credited, rest, FALSE)
  BY <1>1, <1>2, <1>3, <1>4, <1>8, FailuresEnd DEF t, credited, rest, retry
<1>9. CASE /\ retry > 0 /\ ~Exhausted(Attempts(st, t))
           /\ \E pos \in 1 .. Len(st.pending) + 1 : Conclude(Fail(credited, rest, pos))
  BY <1>1, <1>2, <1>3, <1>4, <1>9, StepsGoOn DEF t, credited, rest, retry
<1> QED
  BY <1>5, <1>6, <1>7, <1>8, <1>9

-----------------------------------------------------------------------------
(* What a step of alarm() does to the run.                                  *)

\* The run and its events stay, its status changes only when the handler ends,
\* and what is stored is what was or what is in memory.
Steady ==
    /\ SameRun(st', st)
    /\ disk' \in {disk, st'}
    /\ \/ st'.status = st.status
       \/ /\ Ends /\ disk' = st'
          /\ st'.status \in {"completed", "aborted", "paused"}

\* Going on from a state with the run and the status of the present one.
LEMMA GoingOnSteady ==
  ASSUME NEW s \in State, NEW h, Concludes(s, h) \/ GoesOn(s, h),
         SameRun(s, st), s.status = st.status
  PROVE  Steady
<1>1. CASE st' = Completed(s) /\ disk' = st' /\ Ends
  BY <1>1, CompletedState, QueueSameRun DEF Steady, SameRun
<1>2. CASE st' = s /\ (disk' = s \/ UNCHANGED disk)
  BY <1>2 DEF Steady
<1>3. CASE st' = [s EXCEPT !.pending = Tail(@)] /\ UNCHANGED disk
  BY <1>3 DEF Steady, SameRun, State
<1> QED
  BY <1>1, <1>2, <1>3 DEF GoesOn, Concludes

\* Failing from such a state.
LEMMA FailingSteady ==
  ASSUME NEW s \in State, NEW t \in Task, Fails(s, t),
         SameRun(s, st), s.status = st.status
  PROVE  Steady
<1>1. PICK pos \in 1 .. Len(s.pending) + 1 :
        /\ st' = Fail(s, t, pos)
        /\ disk' = st' \/ (UNCHANGED disk /\ ~Exhausted(Attempts(s, t)))
        /\ Ends
  BY DEF Fails
<1>2. SameRun(Fail(s, t, pos), s)
  BY QueueSameRun
<1>3. IF Exhausted(Attempts(s, t)) THEN Fail(s, t, pos).status = "paused"
      ELSE Fail(s, t, pos).status = s.status
  BY FailState
<1> QED
  BY <1>1, <1>2, <1>3 DEF Steady, SameRun

\* Every step of alarm().
LEMMA HandlerSteady ==
  ASSUME TypeInv, AlarmHandler
  PROVE  /\ Steady
         /\ handler.pc # "idle" \/ st.status = "running" \/ UNCHANGED <<st, disk, handler>>
         /\ UNCHANGED <<inflight, used>>
<1>1. st \in State
  BY DEF TypeInv, EngineOK
<1>2. SameRun(st, st)
  BY DEF SameRun
<1>3. UNCHANGED <<st, disk>> => Steady
  BY <1>2 DEF Steady, SameRun
<1>4. CASE AlarmIgnored
  BY <1>3, <1>4 DEF AlarmIgnored
<1>5. CASE AlarmRuns
  BY <1>1, <1>2, <1>5, StepsGoOn, GoingOnSteady DEF AlarmRuns
<1>6. CASE AlarmReplans
  <2> DEFINE s == [st EXCEPT !.replan = NoTx]
  <2>1. s \in State /\ SameRun(s, st) /\ s.status = st.status
    BY <1>1 DEF State, SameRun
  <2>2. Complete(s) \/ UNCHANGED <<st, disk>>
    BY <1>6 DEF AlarmReplans
  <2> HIDE DEF s
  <2>3. Complete(s) => Concludes(s, handler)
    BY DEF Complete, SaveWith, Concludes
  <2>4. Steady
    BY <1>3, <2>1, <2>2, <2>3, GoingOnSteady
  <2> QED
    BY <1>6, <2>4 DEF AlarmReplans
<1>7. CASE ReplanReady
  BY <1>7, ReplanGoesOn, GoingOnSteady DEF ReplanReady, Replanned
<1>8. CASE BasePlanReady
  BY <1>8, BasePlanGoesOn, GoingOnSteady DEF BasePlanReady, Replanned
<1>9. CASE PlanFails
  BY <1>3, <1>9 DEF PlanFails
<1>10. CASE AccountsReady \/ SliceFills \/ SliceFails
  BY <1>3, <1>10 DEF AccountsReady, SliceFills, SliceFails
<1>11. CASE NoAccounts
  BY <1>1, <1>11 DEF NoAccounts, SaveWith, Steady, SameRun, State
<1>12. CASE ExecutionThrows
  <2>1. handler.task \in Task /\ handler.pc # "idle"
    BY <1>12 DEF ExecutionThrows, KeyUnreadable, Executing, TypeInv, EngineOK
  <2> QED
    BY <1>1, <1>2, <1>12, <2>1, FailuresEnd, FailingSteady DEF ExecutionThrows
<1>13. CASE ExecutionEnds
  <2> DEFINE t == handler.task
             credited == Credit(st, t.side, handler.ok)
             rest == [t EXCEPT !.amt = RetryVolume(t)]
  <2>1. /\ t \in Task
        /\ credited \in State
        /\ SameRun(credited, st) /\ credited.status = st.status
        /\ credited.pending = st.pending
        /\ \/ Fails(st, t)
           \/ Concludes(MarkDone(credited, t.id), handler)
           \/ rest \in Task /\ Fails(credited, rest)
           \/ /\ rest \in Task /\ rest.id = t.id
              /\ ~Exhausted(Attempts(st, t)) /\ credited.snap = st.snap
              /\ \E pos \in 1 .. Len(st.pending) + 1 :
                    Concludes(Fail(credited, rest, pos), handler)
    BY <1>13, ExecutionGoesOn
  <2> HIDE DEF t, credited, rest
  <2>2. Fails(st, t) \/ (rest \in Task /\ Fails(credited, rest)) => Steady
    BY <1>1, <1>2, <2>1, FailingSteady
  <2>3. ASSUME Concludes(MarkDone(credited, t.id), handler) PROVE Steady
    <3>1. /\ MarkDone(credited, t.id) \in State
          /\ MarkDone(credited, t.id).status = credited.status
          /\ SameRun(MarkDone(credited, t.id), credited)
      BY <2>1, MarkDoneState, QueueSameRun DEF Task
    <3> QED
      BY <2>1, <2>3, <3>1, GoingOnSteady DEF SameRun
  <2>4. ASSUME rest \in Task, rest.id = t.id, ~Exhausted(Attempts(st, t)),
               credited.snap = st.snap,
               NEW pos \in 1 .. Len(st.pending) + 1,
               Concludes(Fail(credited, rest, pos), handler)
        PROVE  Steady
    <3>1. ~Exhausted(Attempts(credited, rest))
      BY <2>4 DEF Attempts
    <3>2. /\ Fail(credited, rest, pos) \in State
          /\ Fail(credited, rest, pos).status = credited.status
          /\ SameRun(Fail(credited, rest, pos), credited)
      BY <2>1, <2>4, <3>1, FailState, QueueSameRun
    <3> QED
      BY <2>1, <2>4, <3>2, GoingOnSteady DEF SameRun
  <2>5. Steady
    BY <2>1, <2>2, <2>3, <2>4
  <2> QED
    BY <1>13, <2>5 DEF ExecutionEnds
<1> QED
  BY <1>4, <1>5, <1>6, <1>7, <1>8, <1>9, <1>10, <1>11, <1>12, <1>13 DEF AlarmHandler

-----------------------------------------------------------------------------
(* The promise to the queue service.                                        *)

(* A crash brings back what is stored, so the stored copy must never report *)
(* another run or another status than memory does.                          *)

StoredReport == disk.status = st.status /\ disk.cfg = st.cfg

LifeInv == TypeInv /\ StoredReport

\* What a step makes of the report.
Makes(s, r, w, a) ==
    Report' = [status |-> s, run |-> r, working |-> w, answering |-> a]

\* A step of the abstract object, by what it makes of the report.
LEMMA ReportSteps ==
  /\ \A r \in Runs : Makes("running", r, Report.working, Report.answering) => Lifecycle!Next
  /\ \A s \in {"aborted", "paused", "running"} :
     /\ s = "paused" => Report.status = "running"
     /\ s = "running" => Report.status = "paused"
     /\ Makes(s, Report.run, Report.working, Report.answering)
     => Lifecycle!Next
  /\ Makes("idle", NoRun, Report.working, Report.answering) => Lifecycle!Next
  /\ \A a \in BOOLEAN :
     /\ a => Report.answering \/ Report.status = "running"
     /\ Report.answering => a
     /\ Makes(Report.status, NoRun, Report.working, a)
     => Lifecycle!Next
  /\ \A s \in {Report.status, "paused"}, a \in BOOLEAN :
     /\ Report.answering
     /\ Makes(s, Report.run, Report.working, a)
     => Lifecycle!Next
  /\ /\ Report.status = "running"
     /\ Makes(Report.status, Report.run, TRUE, Report.answering)
     => Lifecycle!Next
  /\ \A s \in {Report.status, "completed", "aborted", "paused"} :
     /\ Report.working \/ Report.status = "running"
     /\ Makes(s, Report.run, FALSE, Report.answering)
     => Lifecycle!Next
  /\ Makes(Report.status, Report.run, FALSE, FALSE) => Lifecycle!Next
<1> DEFINE objs == [o \in {"object"} |-> Report]
<1>1. objs["object"] = Report
  OBVIOUS
<1>2. \A y : Report' = y => Lifecycle!To("object", y)
  BY DEF Lifecycle!To
<1>3. Lifecycle!Next <=>
        \/ \E r \in Runs : Lifecycle!Start("object", r)
        \/ Lifecycle!Abort("object") \/ Lifecycle!Pause("object")
        \/ Lifecycle!Resume("object") \/ Lifecycle!Clear("object")
        \/ Lifecycle!Webhook("object") \/ Lifecycle!Answer("object")
        \/ Lifecycle!Work("object") \/ Lifecycle!Rest("object")
        \/ Lifecycle!Crash("object")
  BY DEF Lifecycle!Next
<1>4. Report = [status |-> Report.status, run |-> Report.run,
                working |-> Report.working, answering |-> Report.answering]
  BY DEF Report
<1>5. ASSUME NEW r \in Runs,
             Makes("running", r, Report.working, Report.answering)
      PROVE  Lifecycle!Next
  <2> DEFINE once == [Report EXCEPT !.status = "running"]
  <2>1. once = [status |-> "running", run |-> Report.run, working |-> Report.working, answering |-> Report.answering]
    BY <1>4
  <2>2. [Report EXCEPT !.status = "running", !.run = r] = [once EXCEPT !.run = r]
    OBVIOUS
  <2> HIDE DEF once
  <2>3. [once EXCEPT !.run = r]
          = [status |-> "running", run |-> r, working |-> Report.working, answering |-> Report.answering]
    BY <2>1
  <2> QED
    BY <1>1, <1>2, <1>3, <1>5, <2>2, <2>3 DEF Makes, Lifecycle!Start
<1>6. ASSUME NEW s \in {"aborted", "paused", "running"},
             s = "paused" => Report.status = "running",
             s = "running" => Report.status = "paused",
             Makes(s, Report.run, Report.working, Report.answering)
      PROVE  Lifecycle!Next
  <2>1. [Report EXCEPT !.status = s]
          = [status |-> s, run |-> Report.run, working |-> Report.working, answering |-> Report.answering]
    BY <1>4
  <2> QED
    BY <1>1, <1>2, <1>3, <1>6, <2>1
    DEF Makes, Lifecycle!Abort, Lifecycle!Pause, Lifecycle!Resume, Lifecycle!SetStatus
<1>7. ASSUME Makes("idle", NoRun, Report.working, Report.answering)
      PROVE  Lifecycle!Next
  <2> DEFINE once == [Report EXCEPT !.status = "idle"]
  <2>1. once = [status |-> "idle", run |-> Report.run, working |-> Report.working, answering |-> Report.answering]
    BY <1>4
  <2>2. [Report EXCEPT !.status = "idle", !.run = NoRun] = [once EXCEPT !.run = NoRun]
    OBVIOUS
  <2> HIDE DEF once
  <2>3. [once EXCEPT !.run = NoRun]
          = [status |-> "idle", run |-> NoRun, working |-> Report.working, answering |-> Report.answering]
    BY <2>1
  <2> QED
    BY <1>1, <1>2, <1>3, <1>7, <2>2, <2>3 DEF Makes, Lifecycle!Clear
<1>8. ASSUME NEW a \in BOOLEAN,
             a => Report.answering \/ Report.status = "running",
             Report.answering => a,
             Makes(Report.status, NoRun, Report.working, a)
      PROVE  Lifecycle!Next
  <2> DEFINE once == [Report EXCEPT !.run = NoRun]
  <2>1. once = [status |-> Report.status, run |-> NoRun, working |-> Report.working, answering |-> Report.answering]
    BY <1>4
  <2>2. [Report EXCEPT !.run = NoRun, !.answering = a] = [once EXCEPT !.answering = a]
    OBVIOUS
  <2> HIDE DEF once
  <2>3. [once EXCEPT !.answering = a]
          = [status |-> Report.status, run |-> NoRun, working |-> Report.working, answering |-> a]
    BY <2>1
  <2> QED
    BY <1>1, <1>2, <1>3, <1>8, <2>2, <2>3 DEF Makes, Lifecycle!Webhook
<1>9. ASSUME NEW s \in {Report.status, "paused"}, NEW a \in BOOLEAN,
             Report.answering,
             Makes(s, Report.run, Report.working, a)
      PROVE  Lifecycle!Next
  <2> DEFINE once == [Report EXCEPT !.status = s]
  <2>1. once = [status |-> s, run |-> Report.run, working |-> Report.working, answering |-> Report.answering]
    BY <1>4
  <2>2. [Report EXCEPT !.status = s, !.answering = a] = [once EXCEPT !.answering = a]
    OBVIOUS
  <2> HIDE DEF once
  <2>3. [once EXCEPT !.answering = a]
          = [status |-> s, run |-> Report.run, working |-> Report.working, answering |-> a]
    BY <2>1
  <2> QED
    BY <1>1, <1>2, <1>3, <1>9, <2>2, <2>3 DEF Makes, Lifecycle!Answer
<1>10. ASSUME Report.status = "running",
             Makes(Report.status, Report.run, TRUE, Report.answering)
      PROVE  Lifecycle!Next
  <2>1. \A w : [Report EXCEPT !.working = w]
                 = [status |-> Report.status, run |-> Report.run, working |-> w,
                    answering |-> Report.answering]
    BY <1>4
  <2> QED
    BY <1>1, <1>2, <1>3, <1>10, <2>1
    DEF Makes, Lifecycle!Work
<1>11. ASSUME NEW s \in {Report.status, "completed", "aborted", "paused"},
             Report.working \/ Report.status = "running",
             Makes(s, Report.run, FALSE, Report.answering)
      PROVE  Lifecycle!Next
  <2> DEFINE once == [Report EXCEPT !.status = s]
  <2>1. once = [status |-> s, run |-> Report.run, working |-> Report.working, answering |-> Report.answering]
    BY <1>4
  <2>2. [Report EXCEPT !.status = s, !.working = FALSE] = [once EXCEPT !.working = FALSE]
    OBVIOUS
  <2> HIDE DEF once
  <2>3. \A w : [once EXCEPT !.working = w]
                 = [status |-> s, run |-> Report.run, working |-> w,
                    answering |-> Report.answering]
    BY <2>1
  <2> QED
    BY <1>1, <1>2, <1>3, <1>11, <2>2, <2>3 DEF Makes, Lifecycle!Rest
<1>12. ASSUME Makes(Report.status, Report.run, FALSE, FALSE)
      PROVE  Lifecycle!Next
  <2>1. ASSUME NEW w, NEW a
        PROVE  [Report EXCEPT !.working = w, !.answering = a]
                 = [status |-> Report.status, run |-> Report.run, working |-> w,
                    answering |-> a]
    <3> DEFINE once == [Report EXCEPT !.working = w]
    <3>1. once = [status |-> Report.status, run |-> Report.run, working |-> w,
                  answering |-> Report.answering]
      BY <1>4
    <3>2. [Report EXCEPT !.working = w, !.answering = a] = [once EXCEPT !.answering = a]
      OBVIOUS
    <3> HIDE DEF once
    <3>3. [once EXCEPT !.answering = a]
            = [status |-> Report.status, run |-> Report.run, working |-> w,
               answering |-> a]
      BY <3>1
    <3> QED
      BY <3>2, <3>3
  <2> QED
    BY <1>1, <1>2, <1>3, <1>12, <2>1 DEF Makes, Lifecycle!Crash
<1> QED
  BY <1>5, <1>6, <1>7, <1>8, <1>9, <1>10, <1>11, <1>12

\* The requests.
LEMMA RequestKeepsLife ==
  ASSUME LifeInv,
         \/ \E r \in Runs : Start(r)
         \/ Abort \/ Pause \/ Resume \/ Clear
  PROVE  StoredReport' /\ Lifecycle!Next
<1> DEFINE w == handler.pc # "idle"
           a == \E x \in Txs : inflight[x] > 0
<1>1. Report = [status |-> st.status, run |-> st.cfg.run, working |-> w, answering |-> a]
  BY DEF Report
<1>2. Report' = [status |-> st'.status, run |-> st'.cfg.run,
                 working |-> w', answering |-> a']
  BY DEF Report
<1>3. UNCHANGED inflight => a' = a
  OBVIOUS
<1>4. handler'.pc = handler.pc => w' = w
  OBVIOUS
<1>5. st \in State /\ handler \in Handlers
  BY DEF LifeInv, TypeInv, EngineOK
<1> HIDE DEF w, a
<1>6. ASSUME NEW r \in Runs, Start(r) PROVE StoredReport' /\ Lifecycle!Next
  <2>1. st'.status = "running" /\ st'.cfg.run = r /\ disk' = st'
    BY <1>6 DEF Start, SaveWith, Started, EnqueueAll, Idle
  <2>2. w' = w /\ a' = a
    BY <1>3, <1>4, <1>6 DEF Start
  <2>3. Makes("running", r, Report.working, Report.answering)
    BY <1>1, <1>2, <2>1, <2>2 DEF Makes
  <2> QED
    BY <2>1, <2>3, ReportSteps DEF StoredReport
<1>7. CASE Abort
  <2>1. st'.status = "aborted" /\ st'.cfg = st.cfg /\ disk' = st' /\ w' = w /\ a' = a
    BY <1>3, <1>4, <1>5, <1>7 DEF Abort, SaveWith, State
  <2>2. Makes("aborted", Report.run, Report.working, Report.answering)
    BY <1>1, <1>2, <2>1 DEF Makes
  <2> QED
    BY <2>1, <2>2, ReportSteps DEF StoredReport
<1>8. CASE Pause
  <2>1. /\ st'.status = "paused" /\ st'.cfg = st.cfg /\ disk' = st' /\ w' = w /\ a' = a
        /\ st.status = "running"
    BY <1>3, <1>4, <1>5, <1>8 DEF Pause, SaveWith, State
  <2>2. Makes("paused", Report.run, Report.working, Report.answering) /\ Report.status = "running"
    BY <1>1, <1>2, <2>1 DEF Makes
  <2> QED
    BY <2>1, <2>2, ReportSteps DEF StoredReport
<1>9. CASE Resume
  <2>1. PICK pos \in 1 .. Len(st.pending) + 1 : st' = Resumed(st, pos) /\ disk' = st'
    BY <1>9 DEF Resume, Save, SaveWith
  <2>2. Resumed(st, pos).status = "running"
    BY <1>5, ResumedState
  <2>3. Resumed(st, pos).cfg = st.cfg
    BY <1>5 DEF Resumed, Enqueue, State
  <2>4. st.status = "paused" /\ w' = w /\ a' = a
    BY <1>3, <1>4, <1>9 DEF Resume
  <2>5. Makes("running", Report.run, Report.working, Report.answering) /\ Report.status = "paused"
    BY <1>1, <1>2, <2>1, <2>2, <2>3, <2>4 DEF Makes
  <2> QED
    BY <2>1, <2>5, ReportSteps DEF StoredReport
<1>10. CASE Clear
  <2>1. st'.status = "idle" /\ st'.cfg.run = NoRun /\ disk' = st'
    BY <1>10 DEF Clear, SaveWith, Idle, NoConfig
  <2>2. handler'.pc = handler.pc /\ UNCHANGED inflight
    BY <1>5, <1>10 DEF Clear, Handlers
  <2>3. w' = w /\ a' = a
    BY <1>3, <1>4, <2>2
  <2>4. Makes("idle", NoRun, Report.working, Report.answering)
    BY <1>1, <1>2, <2>1, <2>3 DEF Makes
  <2> QED
    BY <2>1, <2>4, ReportSteps DEF StoredReport
<1> QED
  BY <1>6, <1>7, <1>8, <1>9, <1>10

\* A webhook, before and after its await of D1.
LEMMA WebhookKeepsLife ==
  ASSUME LifeInv, NEW x \in Txs, WebhookArrives(x) \/ WebhookApplies(x)
  PROVE  StoredReport' /\ Lifecycle!Next
<1> DEFINE w == handler.pc # "idle"
           a == \E y \in Txs : inflight[y] > 0
<1>1. Report = [status |-> st.status, run |-> st.cfg.run, working |-> w, answering |-> a]
  BY DEF Report
<1>2. Report' = [status |-> st'.status, run |-> st'.cfg.run,
                 working |-> w', answering |-> a']
  BY DEF Report
<1>3. w' = w /\ a \in BOOLEAN /\ a' \in BOOLEAN
  BY DEF WebhookArrives, WebhookApplies
<1>4. st \in State /\ inflight \in [Txs -> Nat]
  BY DEF LifeInv, TypeInv, EngineOK, CountersOK
<1>5. CASE WebhookArrives(x)
  <2> DEFINE s == Configured(st, WebhookConfig)
             seen == Remember(s, x)
  <2>1. s \in State /\ s.status = st.status /\ s.cfg = WebhookConfig
    BY <1>4, ConfiguredState, WebhookConfigConfig
  <2>2. seen.status = s.status /\ seen.cfg = s.cfg
    <3> HIDE DEF s
    <3> QED
      BY <2>1 DEF Remember, State
  <2>3. /\ st' \in {s, seen} /\ disk' \in {s, seen}
        /\ \/ UNCHANGED inflight
           \/ s.status = "running" /\ inflight' = [inflight EXCEPT ![x] = @ + 1]
    BY <1>5 DEF WebhookArrives, Save, SaveWith
  <2> HIDE DEF s, seen
  <2>4. (a' => a \/ st.status = "running") /\ (a => a')
    BY <1>4, <2>1, <2>3
  <2>5. st'.status = st.status /\ st'.cfg.run = NoRun
    BY <2>1, <2>2, <2>3 DEF WebhookConfig
  <2> HIDE DEF w, a
  <2>6. Makes(Report.status, NoRun, Report.working, a')
    BY <1>1, <1>2, <1>3, <2>5 DEF Makes
  <2>7. (a' => Report.answering \/ Report.status = "running") /\ (Report.answering => a')
    BY <1>1, <2>4
  <2>8. StoredReport'
    BY <2>1, <2>2, <2>3 DEF StoredReport
  <2> QED
    BY <1>3, <2>6, <2>7, <2>8, ReportSteps
<1>6. CASE WebhookApplies(x)
  <2> DEFINE s == Observed(st, x)
  <2>1. s \in State /\ s.status = st.status /\ s.cfg = st.cfg
    <3>1. s.cfg = st.cfg
      BY <1>4 DEF Observed, State
    <3> QED
      BY <1>4, <3>1, ObservedState
  <2>2. /\ inflight[x] > 0 /\ disk' = st'
        /\ \/ st' = [s EXCEPT !.status = "paused", !.pending = <<>>]
           \/ st' = [Supersede(s) EXCEPT !.replan = x]
           \/ st' = s
    BY <1>6 DEF WebhookApplies, Save, SaveWith
  <2> HIDE DEF s
  <2>3. Supersede(s) \in State /\ Supersede(s).status = s.status /\ Supersede(s).cfg = s.cfg
    BY <2>1, SupersedeState, QueueSameRun DEF SameRun
  <2>4. st'.status \in {st.status, "paused"} /\ st'.cfg = st.cfg
    BY <2>1, <2>2, <2>3 DEF State
  <2>5. a
    BY <2>2
  <2> HIDE DEF w, a
  <2>6. Makes(st'.status, Report.run, Report.working, a')
    BY <1>1, <1>2, <1>3, <2>4 DEF Makes
  <2>7. Report.answering /\ st'.status \in {Report.status, "paused"}
    BY <1>1, <2>4, <2>5
  <2> QED
    BY <1>3, <2>2, <2>6, <2>7, ReportSteps DEF StoredReport
<1> QED
  BY <1>5, <1>6

\* A step of alarm() is the beginning or the end of its work, or not seen.
LEMMA HandlerKeepsLife ==
  ASSUME LifeInv, AlarmHandler
  PROVE  StoredReport' /\ (Lifecycle!Next \/ Report' = Report)
<1> DEFINE w == handler.pc # "idle"
           a == \E x \in Txs : inflight[x] > 0
<1>1. Report = [status |-> st.status, run |-> st.cfg.run, working |-> w, answering |-> a]
  BY DEF Report
<1>2. Report' = [status |-> st'.status, run |-> st'.cfg.run,
                 working |-> w', answering |-> a']
  BY DEF Report
<1>3. /\ Steady
      /\ w \/ st.status = "running" \/ UNCHANGED <<st, disk, handler>>
      /\ UNCHANGED inflight
  BY HandlerSteady DEF LifeInv
<1>4. a' = a /\ w \in BOOLEAN /\ w' \in BOOLEAN
  BY <1>3
<1>5. StoredReport'
  BY <1>3 DEF Steady, SameRun, LifeInv, StoredReport
<1>6. Ends => w' = FALSE
  BY EndsAttached
<1>7. UNCHANGED handler => w' = w
  OBVIOUS
<1> HIDE DEF w, a
<1>8. st'.cfg = st.cfg
  BY <1>3 DEF Steady, SameRun
<1>9. CASE UNCHANGED <<st, disk, handler>>
  BY <1>1, <1>2, <1>4, <1>5, <1>7, <1>9
<1>10. CASE w' = FALSE /\ (w \/ st.status = "running")
  <2>1. st'.status \in {st.status, "completed", "aborted", "paused"}
    BY <1>3 DEF Steady
  <2>2. Makes(st'.status, Report.run, FALSE, Report.answering)
    BY <1>1, <1>2, <1>4, <1>8, <1>10 DEF Makes
  <2>3. /\ Report.working \/ Report.status = "running"
        /\ st'.status \in {Report.status, "completed", "aborted", "paused"}
    BY <1>1, <1>10, <2>1
  <2> QED
    BY <1>5, <2>2, <2>3, ReportSteps
<1>11. CASE w' = TRUE /\ w = TRUE
  <2>1. st'.status = st.status
    BY <1>3, <1>6, <1>11 DEF Steady
  <2> QED
    BY <1>1, <1>2, <1>4, <1>5, <1>8, <1>11, <2>1
<1>12. CASE w' = TRUE /\ st.status = "running"
  <2>1. st'.status = st.status
    BY <1>3, <1>6, <1>12 DEF Steady
  <2>2. Makes(Report.status, Report.run, TRUE, Report.answering) /\ Report.status = "running"
    BY <1>1, <1>2, <1>4, <1>8, <1>12, <2>1 DEF Makes
  <2> QED
    BY <1>5, <2>2, ReportSteps
<1> QED
  BY <1>3, <1>4, <1>9, <1>10, <1>11, <1>12

\* A crash, which brings back the stored copy.
LEMMA CrashKeepsLife ==
  ASSUME LifeInv, Crash
  PROVE  StoredReport' /\ Lifecycle!Next
<1>1. st' = disk /\ disk' = disk
  BY DEF Crash
<1>2. st'.status = st.status /\ st'.cfg = st.cfg
  BY <1>1 DEF LifeInv, StoredReport
<1>3. (handler'.pc # "idle") = FALSE
  BY RestingHandler DEF Crash
<1>4. (\E x \in Txs : inflight'[x] > 0) = FALSE
  BY DEF Crash
<1>5. Report' = [status |-> st.status, run |-> st.cfg.run,
                 working |-> FALSE, answering |-> FALSE]
  BY <1>2, <1>3, <1>4 DEF Report
<1>6. Makes(Report.status, Report.run, FALSE, FALSE)
  BY <1>5 DEF Report, Makes
<1> QED
  BY <1>1, <1>6, ReportSteps DEF StoredReport

\* Every step is a step of the abstract object or leaves its report alone.
LEMMA LifeStep ==
  LifeInv /\ [Next]_vars => LifeInv' /\ (Lifecycle!Next \/ Report' = Report)
<1> SUFFICES ASSUME LifeInv, [Next]_vars
             PROVE  LifeInv' /\ (Lifecycle!Next \/ Report' = Report)
  OBVIOUS
<1>1. TypeInv'
  BY TypeStep DEF LifeInv
<1>2. CASE UNCHANGED vars
  <2>1. Report' = Report
    BY <1>2 DEF vars, Report
  <2>2. StoredReport'
    BY <1>2 DEF vars, LifeInv, StoredReport
  <2> QED
    BY <1>1, <2>1, <2>2 DEF LifeInv
<1> QED
  BY <1>1, <1>2, RequestKeepsLife, WebhookKeepsLife, HandlerKeepsLife, CrashKeepsLife
  DEF Next, LifeInv

\* The engine object implements RunLifecycle, the promise the queue service
\* is built on: under every interleaving of requests, webhooks and alarm(),
\* and through every crash, only /start and /resume set a run running, only
\* alarm() ends one, and the run it reports is the one started, until a
\* webhook or /clear forgets it.
THEOREM ImplementsLifecycle == Spec => KeepsLifecycle
<1>1. Init => LifeInv /\ Lifecycle!Init
  <2> SUFFICES ASSUME Init PROVE LifeInv /\ Lifecycle!Init
    OBVIOUS
  <2>1. LifeInv
    BY TypeInit DEF Init, LifeInv, StoredReport
  <2>2. (handler.pc # "idle") = FALSE
    BY RestingHandler DEF Init
  <2>3. (\E x \in Txs : inflight[x] > 0) = FALSE
    BY DEF Init
  <2>4. Report = Lifecycle!New
    BY <2>2, <2>3 DEF Init, Report, Lifecycle!New, Idle, NoConfig
  <2> QED
    BY <2>1, <2>4 DEF Lifecycle!Init
<1>2. LifeInv /\ [Next]_vars => LifeInv'
  BY LifeStep
<1>3. LifeInv /\ [Next]_vars
        => [Lifecycle!Next]_([o \in {"object"} |-> Report])
  BY LifeStep
<1> QED
  BY <1>1, <1>2, <1>3, PTL DEF Spec, KeepsLifecycle, Lifecycle!Spec

-----------------------------------------------------------------------------
(* One run at a time.                                                       *)

(* What follows holds of a run that begins with alarm() at rest.  The next  *)
(* run may begin while alarm() still executes a task of the one before it   *)
(* only when that one was aborted or cleared under the execution: its fills *)
(* are then counted for the next run.  The theorems below are about one run *)
(* of the object, or about runs that are neither aborted nor cleared.       *)

StartsAlone ==
    (\A r, q \in Runs : r = q) \/ UserOps \cap {"abort", "clear"} = {}

\* Before the first start nothing is under way.
Quiet ==
    used.runs = {} =>
        /\ st.status = "idle" /\ disk.status = "idle"
        /\ handler.pc = "idle"
        /\ \A x \in Txs : inflight[x] = 0

\* A run is started only while alarm() rests.
Undisturbed ==
    handler.pc = "idle" \/ st.status \in {"running", "paused"} \/ Runs \subseteq used.runs

RunsInv == TypeInv /\ Quiet /\ Undisturbed

\* Before the first start every request leaves the object quiet.
LEMMA QuietStep ==
  ASSUME TypeInv, Quiet, [Next]_vars
  PROVE  Quiet'
<1>1. st \in State /\ handler \in Handlers /\ inflight \in [Txs -> Nat]
  BY DEF TypeInv, EngineOK, CountersOK
<1>2. SUFFICES ASSUME used'.runs = {}
               PROVE  /\ st'.status = "idle" /\ disk'.status = "idle"
                      /\ handler'.pc = "idle"
                      /\ \A x \in Txs : inflight'[x] = 0
  BY DEF Quiet
<1>3. used.runs \subseteq used'.runs
  BY DEF Next, AlarmHandler, Start, Abort, Pause, Resume, Clear, UseOp, WebhookArrives,
     WebhookApplies, AlarmIgnored, AlarmRuns, AlarmReplans, ReplanReady, BasePlanReady,
     PlanFails, AccountsReady, NoAccounts, SliceFills, SliceFails, ExecutionThrows,
     ExecutionEnds, Crash, vars, TypeInv, CountersOK
<1>4. /\ st.status = "idle" /\ disk.status = "idle" /\ handler.pc = "idle"
      /\ used.runs = {} /\ \A x \in Txs : inflight[x] = 0
  BY <1>2, <1>3 DEF Quiet
<1>5. ASSUME NEW r \in Runs, Start(r) PROVE FALSE
  BY <1>2, <1>5 DEF Start, TypeInv, CountersOK
<1>6. ~Abort /\ ~Pause /\ ~Resume
  BY <1>4 DEF Abort, Pause, Resume
<1>7. CASE Clear
  BY <1>1, <1>4, <1>7 DEF Clear, SaveWith, Idle
<1>8. ASSUME NEW x \in Txs, WebhookArrives(x)
      PROVE  /\ st'.status = "idle" /\ disk'.status = "idle"
             /\ UNCHANGED <<handler, inflight>>
  <2> DEFINE s == Configured(st, WebhookConfig)
  <2>1. s.status = "idle"
    BY <1>1, <1>4, ConfiguredState, WebhookConfigConfig
  <2>2. SaveWith(s, alarm) /\ UNCHANGED <<handler, inflight>>
    BY <1>8, <2>1 DEF WebhookArrives
  <2> QED
    BY <2>1, <2>2 DEF SaveWith
<1>9. ASSUME NEW x \in Txs, WebhookApplies(x) PROVE FALSE
  BY <1>4, <1>9 DEF WebhookApplies
<1>10. CASE AlarmHandler
  BY <1>4, <1>10, HandlerSteady
<1>11. CASE Crash
  BY <1>4, <1>11, RestingHandler DEF Crash
<1>12. CASE UNCHANGED vars
  BY <1>4, <1>12 DEF vars
<1> QED
  BY <1>4, <1>5, <1>6, <1>7, <1>8, <1>9, <1>10, <1>11, <1>12 DEF Next

\* One step keeps the run to itself.
LEMMA RunsStep ==
  ASSUME StartsAlone, RunsInv, [Next]_vars
  PROVE  RunsInv'
<1>1. TypeInv' /\ Quiet'
  BY TypeStep, QuietStep DEF RunsInv
<1>2. /\ st \in State /\ handler \in Handlers /\ used.runs \subseteq Runs
      /\ Quiet /\ Undisturbed
  BY DEF RunsInv, TypeInv, EngineOK, CountersOK
<1> SUFFICES Undisturbed'
  BY <1>1 DEF RunsInv
<1>3. used.runs # {} /\ ~(UserOps \cap {"abort", "clear"} = {}) => Runs \subseteq used.runs
  BY <1>2 DEF StartsAlone
<1>4. ASSUME NEW r \in Runs, Start(r) PROVE Undisturbed'
  BY <1>4 DEF Start, SaveWith, Started, EnqueueAll, Idle, Undisturbed
<1>5. CASE Abort
  <2>1. Runs \subseteq used.runs /\ used'.runs = used.runs
    BY <1>3, <1>5 DEF Abort, UseOp, RunsInv, TypeInv, CountersOK
  <2> QED
    BY <2>1 DEF Undisturbed
<1>6. CASE Pause
  <2>1. st'.status = "paused"
    BY <1>2, <1>6 DEF Pause, SaveWith, State
  <2> QED
    BY <2>1 DEF Undisturbed
<1>7. CASE Resume
  <2>1. st'.status = "running"
    BY <1>2, <1>7, ResumedState DEF Resume, Save, SaveWith
  <2> QED
    BY <2>1 DEF Undisturbed
<1>8. CASE Clear
  <2>1. handler'.pc = handler.pc /\ used'.runs = used.runs /\ "clear" \in UserOps
    BY <1>2, <1>8 DEF Clear, UseOp, Handlers, RunsInv, TypeInv, CountersOK
  <2>2. handler.pc = "idle" \/ Runs \subseteq used.runs
    BY <1>2, <1>3, <2>1 DEF Quiet
  <2> QED
    BY <2>1, <2>2 DEF Undisturbed
<1>9. ASSUME NEW x \in Txs, WebhookArrives(x) PROVE Undisturbed'
  <2> DEFINE s == Configured(st, WebhookConfig)
             seen == Remember(s, x)
  <2>1. s \in State /\ s.status = st.status /\ seen.status = s.status
    BY <1>2, ConfiguredState, WebhookConfigConfig, RememberState
  <2>2. st' \in {s, seen} /\ UNCHANGED handler
    BY <1>9 DEF WebhookArrives, Save, SaveWith
  <2>3. used'.runs = used.runs
    BY <1>9 DEF WebhookArrives, RunsInv, TypeInv, CountersOK
  <2> HIDE DEF s, seen
  <2> QED
    BY <1>2, <2>1, <2>2, <2>3 DEF Undisturbed
<1>10. ASSUME NEW x \in Txs, WebhookApplies(x) PROVE Undisturbed'
  <2> DEFINE s == Observed(st, x)
  <2>1. s \in State /\ s.status = st.status
    BY <1>2, ObservedState
  <2>2. /\ UNCHANGED <<handler, used>>
        /\ \/ st' = [s EXCEPT !.status = "paused", !.pending = <<>>]
           \/ st' = [Supersede(s) EXCEPT !.replan = x]
           \/ st' = s
    BY <1>10 DEF WebhookApplies, Save, SaveWith
  <2> HIDE DEF s
  <2>3. Supersede(s) \in State /\ Supersede(s).status = s.status
    BY <2>1, SupersedeState
  <2>4. st'.status \in {st.status, "paused"}
    BY <2>1, <2>2, <2>3 DEF State
  <2> QED
    BY <1>2, <2>2, <2>4 DEF Undisturbed
<1>11. CASE AlarmHandler
  <2>1. /\ Steady /\ UNCHANGED used
        /\ handler.pc # "idle" \/ st.status = "running" \/ UNCHANGED <<st, disk, handler>>
    BY <1>11, HandlerSteady DEF RunsInv
  <2> QED
    BY <1>2, <2>1, EndsAttached DEF Steady, Undisturbed
<1>12. CASE Crash
  BY <1>12, RestingHandler DEF Crash, Undisturbed
<1>13. CASE UNCHANGED vars
  BY <1>2, <1>13 DEF vars, Undisturbed
<1> QED
  BY <1>4, <1>5, <1>6, <1>7, <1>8, <1>9, <1>10, <1>11, <1>12, <1>13 DEF Next

\* Nothing is under way in the beginning.
LEMMA RunsInit == Init => RunsInv
  BY TypeInit, RestingHandler DEF Init, Idle, RunsInv, Quiet, Undisturbed

-----------------------------------------------------------------------------
(* Queues and the ids in them.                                              *)

Distinct(q) == \A j, k \in DOMAIN q : q[j].id = q[k].id => j = k

\* A queue without its first task.
LEMMA TailIds ==
  ASSUME NEW q \in Seq(Task), q # <<>>
  PROVE  /\ Tail(q) \in Seq(Task) /\ Head(q) \in Task
         /\ IdsOf(q) = IdsOf(Tail(q)) \cup {Head(q).id}
         /\ Distinct(q) => Distinct(Tail(q)) /\ Head(q).id \notin IdsOf(Tail(q))
<1>1. /\ Tail(q) \in Seq(Task) /\ Head(q) \in Task /\ Head(q) = q[1]
      /\ Len(q) \in Nat /\ Len(q) >= 1
      /\ Len(Tail(q)) = Len(q) - 1
      /\ \A k \in 1 .. Len(q) - 1 : Tail(q)[k] = q[k + 1]
  BY HeadTailProperties, EmptySeq
<1>2. DOMAIN q = 1 .. Len(q) /\ DOMAIN Tail(q) = 1 .. Len(q) - 1
  BY <1>1
<1> DEFINE tail == Tail(q)
           first == Head(q)
<1> HIDE DEF tail, first
<1>3. /\ DOMAIN tail = 1 .. Len(q) - 1 /\ first = q[1]
      /\ \A k \in 1 .. Len(q) - 1 : tail[k] = q[k + 1]
  BY <1>1, <1>2 DEF tail, first
<1>4. IdsOf(q) = IdsOf(tail) \cup {first.id}
  <2>1. ASSUME NEW k \in DOMAIN q PROVE q[k].id \in IdsOf(tail) \cup {first.id}
    <3>1. CASE k = 1
      BY <1>3, <3>1
    <3>2. CASE k # 1
      <4>1. k - 1 \in 1 .. Len(q) - 1 /\ (k - 1) + 1 = k
        BY <1>1, <1>2, <3>2
      <4>2. tail[k - 1].id = q[k].id /\ k - 1 \in DOMAIN tail
        BY <1>3, <4>1
      <4> QED
        BY <4>2 DEF IdsOf
    <3> QED
      BY <3>1, <3>2
  <2>2. ASSUME NEW k \in DOMAIN tail PROVE tail[k].id \in IdsOf(q)
    BY <1>1, <1>2, <1>3 DEF IdsOf
  <2>3. first.id \in IdsOf(q)
    BY <1>1, <1>2, <1>3 DEF IdsOf
  <2> QED
    BY <2>1, <2>2, <2>3 DEF IdsOf
<1>5. ASSUME NEW k \in DOMAIN tail PROVE k + 1 \in DOMAIN q /\ tail[k] = q[k + 1] /\ k \in Nat
  BY <1>1, <1>2, <1>3
<1>6. Distinct(q) => Distinct(tail)
  <2> SUFFICES ASSUME Distinct(q), NEW j \in DOMAIN tail, NEW k \in DOMAIN tail,
                      tail[j].id = tail[k].id
               PROVE  j = k
    BY DEF Distinct
  <2>1. j + 1 = k + 1
    BY <1>5 DEF Distinct
  <2> QED
    BY <1>5, <2>1
<1>7. Distinct(q) => first.id \notin IdsOf(tail)
  <2> SUFFICES ASSUME Distinct(q), NEW k \in DOMAIN tail, tail[k].id = first.id
               PROVE  FALSE
    BY DEF IdsOf
  <2>1. 1 \in DOMAIN q /\ first = q[1]
    BY <1>1, <1>2, <1>3
  <2>2. k + 1 = 1
    BY <1>5, <2>1 DEF Distinct
  <2> QED
    BY <1>5, <2>2
<1> QED
  BY <1>1, <1>4, <1>6, <1>7 DEF tail, first

\* Two queues in a row.
LEMMA ConcatIds ==
  ASSUME NEW p \in Seq(Task), NEW q \in Seq(Task)
  PROVE  /\ p \o q \in Seq(Task)
         /\ IdsOf(p \o q) = IdsOf(p) \cup IdsOf(q)
         /\ Distinct(p) /\ Distinct(q) /\ IdsOf(p) \cap IdsOf(q) = {} => Distinct(p \o q)
<1> DEFINE c == p \o q
<1>1. /\ c \in Seq(Task) /\ Len(p) \in Nat /\ Len(q) \in Nat
      /\ DOMAIN c = 1 .. Len(p) + Len(q)
      /\ DOMAIN p = 1 .. Len(p) /\ DOMAIN q = 1 .. Len(q)
      /\ \A k \in 1 .. Len(p) + Len(q) :
            c[k] = IF k <= Len(p) THEN p[k] ELSE q[k - Len(p)]
  BY ConcatProperties
<1> HIDE DEF c
<1>2. IdsOf(c) = IdsOf(p) \cup IdsOf(q)
  <2>1. ASSUME NEW k \in DOMAIN c PROVE c[k].id \in IdsOf(p) \cup IdsOf(q)
    <3>1. k \in Nat /\ k >= 1 /\ k <= Len(p) + Len(q)
      BY <1>1
    <3>2. CASE k <= Len(p)
      BY <1>1, <3>1, <3>2 DEF IdsOf
    <3>3. CASE ~(k <= Len(p))
      <4>1. k - Len(p) \in DOMAIN q /\ c[k] = q[k - Len(p)]
        BY <1>1, <3>1, <3>3
      <4> QED
        BY <4>1 DEF IdsOf
    <3> QED
      BY <3>2, <3>3
  <2>2. ASSUME NEW k \in DOMAIN p PROVE p[k].id \in IdsOf(c)
    BY <1>1 DEF IdsOf
  <2>3. ASSUME NEW k \in DOMAIN q PROVE q[k].id \in IdsOf(c)
    <3>1. /\ k + Len(p) \in DOMAIN c /\ ~(k + Len(p) <= Len(p))
          /\ (k + Len(p)) - Len(p) = k
      BY <1>1
    <3>2. c[k + Len(p)] = q[k]
      BY <1>1, <3>1
    <3> QED
      BY <3>1, <3>2 DEF IdsOf
  <2> QED
    BY <2>1, <2>2, <2>3 DEF IdsOf
<1>3. ASSUME Distinct(p), Distinct(q), IdsOf(p) \cap IdsOf(q) = {},
             NEW j \in DOMAIN c, NEW k \in DOMAIN c, c[j].id = c[k].id
      PROVE  j = k
  <2>1. ASSUME NEW m \in DOMAIN c
        PROVE  IF m <= Len(p) THEN m \in DOMAIN p /\ c[m] = p[m]
               ELSE m - Len(p) \in DOMAIN q /\ c[m] = q[m - Len(p)]
    BY <1>1
  <2>2. CASE j <= Len(p) /\ k <= Len(p)
    BY <1>3, <2>1, <2>2 DEF Distinct
  <2>3. CASE ~(j <= Len(p)) /\ ~(k <= Len(p))
    <3>1. j - Len(p) = k - Len(p)
      BY <1>3, <2>1, <2>3 DEF Distinct
    <3> QED
      BY <1>1, <3>1
  <2>4. CASE (j <= Len(p)) # (k <= Len(p))
    BY <1>3, <2>1, <2>4 DEF IdsOf
  <2> QED
    BY <2>2, <2>3, <2>4
<1>4. Distinct(p) /\ Distinct(q) /\ IdsOf(p) \cap IdsOf(q) = {} => Distinct(c)
  BY <1>3 DEF Distinct
<1> QED
  BY <1>1, <1>2, <1>4 DEF c

\* One task is a queue of one id, none a queue of none.
LEMMA SmallIds ==
  /\ <<>> \in Seq(Task) /\ IdsOf(<<>>) = {} /\ Distinct(<<>>)
  /\ \A t \in Task : <<t>> \in Seq(Task) /\ IdsOf(<<t>>) = {t.id} /\ Distinct(<<t>>)
<1>1. <<>> \in Seq(Task) /\ IdsOf(<<>>) = {} /\ Distinct(<<>>)
  BY DEF IdsOf, Distinct
<1>2. ASSUME NEW t \in Task
      PROVE  <<t>> \in Seq(Task) /\ IdsOf(<<t>>) = {t.id} /\ Distinct(<<t>>)
  <2>1. <<t>> \in Seq(Task) /\ DOMAIN <<t>> = {1} /\ <<t>>[1] = t
    OBVIOUS
  <2> QED
    BY <2>1 DEF IdsOf, Distinct
<1> QED
  BY <1>1, <1>2

\* A task inserted where its time falls.
LEMMA InsertIds ==
  ASSUME NEW q \in Seq(Task), NEW t \in Task, NEW pos \in 1 .. Len(q) + 1
  PROVE  /\ IdsOf(InsertAt(q, pos, t)) = IdsOf(q) \cup {t.id}
         /\ Distinct(q) /\ t.id \notin IdsOf(q) => Distinct(InsertAt(q, pos, t))
<1> DEFINE front == SubSeq(q, 1, pos - 1)
           back == SubSeq(q, pos, Len(q))
<1>1. /\ front \in Seq(Task) /\ back \in Seq(Task) /\ Len(q) \in Nat /\ pos \in Nat
      /\ DOMAIN front = 1 .. pos - 1 /\ DOMAIN back = 1 .. Len(q) - pos + 1
      /\ DOMAIN q = 1 .. Len(q)
      /\ \A k \in 1 .. pos - 1 : front[k] = q[k]
      /\ \A k \in 1 .. Len(q) - pos + 1 : back[k] = q[k + pos - 1]
  OBVIOUS
<1>2. InsertAt(q, pos, t) = (front \o <<t>>) \o back
  BY DEF InsertAt
<1> HIDE DEF front, back
<1>3. IdsOf(front) \cup IdsOf(back) = IdsOf(q)
  <2>1. ASSUME NEW k \in DOMAIN q PROVE q[k].id \in IdsOf(front) \cup IdsOf(back)
    <3>1. k \in Nat /\ k >= 1 /\ k <= Len(q)
      BY <1>1
    <3>2. CASE k < pos
      <4>1. k \in DOMAIN front /\ front[k] = q[k]
        BY <1>1, <3>1, <3>2
      <4> QED
        BY <4>1 DEF IdsOf
    <3>3. CASE ~(k < pos)
      <4> DEFINE m == k - pos + 1
      <4>1. m \in 1 .. Len(q) - pos + 1 /\ m + pos - 1 = k
        BY <1>1, <3>1, <3>3
      <4> HIDE DEF m
      <4>2. m \in DOMAIN back /\ back[m] = q[k]
        BY <1>1, <4>1
      <4> QED
        BY <4>2 DEF IdsOf
    <3> QED
      BY <3>2, <3>3
  <2>2. ASSUME NEW k \in DOMAIN front PROVE front[k].id \in IdsOf(q)
    BY <1>1 DEF IdsOf
  <2>3. ASSUME NEW k \in DOMAIN back PROVE back[k].id \in IdsOf(q)
    <3>1. k \in Nat /\ k >= 1 /\ k <= Len(q) - pos + 1 /\ pos >= 1
      BY <1>1
    <3>2. k + pos - 1 \in 1 .. Len(q) /\ k \in 1 .. Len(q) - pos + 1
      BY <1>1, <3>1
    <3> QED
      BY <1>1, <3>2 DEF IdsOf
  <2> QED
    BY <2>1, <2>2, <2>3 DEF IdsOf
<1>4. Distinct(q) => Distinct(front) /\ Distinct(back) /\ IdsOf(front) \cap IdsOf(back) = {}
  <2> SUFFICES ASSUME Distinct(q)
               PROVE  Distinct(front) /\ Distinct(back) /\ IdsOf(front) \cap IdsOf(back) = {}
    OBVIOUS
  <2>1. Distinct(front)
    BY <1>1 DEF Distinct
  <2>2. Distinct(back)
    <3> SUFFICES ASSUME NEW j \in DOMAIN back, NEW k \in DOMAIN back, back[j].id = back[k].id
                 PROVE  j = k
      BY DEF Distinct
    <3>1. j + pos - 1 \in DOMAIN q /\ k + pos - 1 \in DOMAIN q
      BY <1>1
    <3>2. j + pos - 1 = k + pos - 1
      BY <1>1, <3>1 DEF Distinct
    <3> QED
      BY <1>1, <3>2
  <2>3. ASSUME NEW j \in DOMAIN front, NEW k \in DOMAIN back PROVE front[j].id # back[k].id
    <3>1. j \in DOMAIN q /\ k + pos - 1 \in DOMAIN q /\ j # k + pos - 1
      BY <1>1
    <3> QED
      BY <1>1, <3>1 DEF Distinct
  <2> QED
    BY <2>1, <2>2, <2>3 DEF IdsOf
<1>5. <<t>> \in Seq(Task) /\ IdsOf(<<t>>) = {t.id} /\ Distinct(<<t>>)
  BY SmallIds
<1>6. /\ front \o <<t>> \in Seq(Task)
      /\ IdsOf(front \o <<t>>) = IdsOf(front) \cup {t.id}
      /\ Distinct(front) /\ t.id \notin IdsOf(front) => Distinct(front \o <<t>>)
  BY <1>1, <1>5, ConcatIds
<1> DEFINE start == front \o <<t>>
<1> HIDE DEF start
<1>7. /\ start \in Seq(Task) /\ IdsOf(start) = IdsOf(front) \cup {t.id}
      /\ Distinct(front) /\ t.id \notin IdsOf(front) => Distinct(start)
      /\ InsertAt(q, pos, t) = start \o back
  BY <1>2, <1>6 DEF start
<1> QED
  BY <1>1, <1>3, <1>4, <1>7, ConcatIds

\* The ids of a plan are its own.
LEMMA PlanIds ==
  ASSUME NEW plan \in 0 .. MaxPlans
  PROVE  /\ Distinct(BaseTasks(plan))
         /\ \A i \in IdsOf(BaseTasks(plan)) : i \in TaskIds /\ i[1] = plan
         /\ \A rem \in [Sides -> Nat] :
               /\ Distinct(ReplanTasks(rem, plan))
               /\ \A i \in IdsOf(ReplanTasks(rem, plan)) : i \in TaskIds /\ i[1] = plan
<1>1. BaseTasks(plan) \in Seq(Task)
  BY BaseTasksSeq
<1>2. /\ DOMAIN BaseTasks(plan) = DOMAIN BasePlan
      /\ \A k \in DOMAIN BasePlan : BaseTasks(plan)[k].id = <<plan, k>>
  BY DEF BaseTasks, BaseTask
<1>3. Distinct(BaseTasks(plan))
  BY <1>2 DEF Distinct
<1>4. ASSUME NEW q \in Seq(Task), NEW i \in IdsOf(q) PROVE i \in TaskIds
  <2>1. PICK k \in DOMAIN q : i = q[k].id
    BY DEF IdsOf
  <2>2. k \in 1 .. Len(q)
    BY <2>1
  <2>3. q[k] \in Task
    BY <2>2, ElementOfSeq
  <2> QED
    BY <2>1, <2>3 DEF Task
<1>5. \A i \in IdsOf(BaseTasks(plan)) : i \in TaskIds /\ i[1] = plan
  BY <1>1, <1>2, <1>4 DEF IdsOf
<1>6. ASSUME NEW rem \in [Sides -> Nat]
      PROVE  /\ Distinct(ReplanTasks(rem, plan))
             /\ \A i \in IdsOf(ReplanTasks(rem, plan)) : i \in TaskIds /\ i[1] = plan
  <2> DEFINE sells == ReplanTask(1, "sell", rem["sell"], plan)
             buys == ReplanTask(2, "buy", rem["buy"], plan)
  <2>1. ASSUME NEW k \in 1 .. 2, NEW d \in Sides
        PROVE  /\ ReplanTask(k, d, rem[d], plan) \in Seq(Task)
               /\ Distinct(ReplanTask(k, d, rem[d], plan))
               /\ IdsOf(ReplanTask(k, d, rem[d], plan)) \subseteq {<<plan, k>>}
    <3> DEFINE t == [id |-> <<plan, k>>, side |-> d, amt |-> rem[d], source |-> "tactic"]
    <3>1. <<plan, k>> \in TaskIds
      BY PlanAssumption DEF TaskIds, MaxTasks
    <3>2. rem[d] > 0 => t \in Task
      BY <3>1 DEF Task, Sources
    <3>3. ReplanTask(k, d, rem[d], plan) = IF rem[d] > 0 THEN <<t>> ELSE <<>>
      BY DEF ReplanTask
    <3>4. t.id = <<plan, k>>
      OBVIOUS
    <3> HIDE DEF t
    <3> QED
      BY <3>2, <3>3, <3>4, SmallIds
  <2>2. /\ sells \in Seq(Task) /\ Distinct(sells) /\ IdsOf(sells) \subseteq {<<plan, 1>>}
        /\ buys \in Seq(Task) /\ Distinct(buys) /\ IdsOf(buys) \subseteq {<<plan, 2>>}
    <3>1. 1 \in 1 .. 2 /\ 2 \in 1 .. 2
      OBVIOUS
    <3>2. "sell" \in Sides /\ "buy" \in Sides
      BY DEF Sides
    <3> QED
      BY <2>1, <3>1, <3>2
  <2>3. ReplanTasks(rem, plan) = sells \o buys
    BY DEF ReplanTasks
  <2> HIDE DEF sells, buys
  <2>4. IdsOf(sells) \cap IdsOf(buys) = {}
    BY <2>2
  <2>5. Distinct(sells \o buys) /\ sells \o buys \in Seq(Task)
    BY <2>2, <2>4, ConcatIds
  <2>6. IdsOf(sells \o buys) \subseteq {<<plan, 1>>, <<plan, 2>>}
    BY <2>2, ConcatIds
  <2>7. \A i \in {<<plan, 1>>, <<plan, 2>>} : i[1] = plan
    OBVIOUS
  <2> QED
    BY <1>4, <2>3, <2>5, <2>6, <2>7
<1> QED
  BY <1>3, <1>5, <1>6
-----------------------------------------------------------------------------
(* A task is in one place.                                                  *)

\* The ids of the tasks queued or held.
Taken(s) == IdsOf(s.pending) \cup (IF s.paused = NoTask THEN {} ELSE {s.paused.id})

\* Each of them is there once, is still to be traded, and is of a plan made
\* already; a plan to come has no snapshots.
Tidy(s) ==
    /\ Distinct(s.pending)
    /\ s.paused # NoTask => s.paused.id \notin IdsOf(s.pending)
    /\ \A i \in Taken(s) :
          s.snap[i].status \notin {"done", "superseded"} /\ i[1] <= s.plans
    /\ \A i \in TaskIds : i[1] > s.plans => s.snap[i].status = "none"

\* An id that may be executed, and queued again.
Free(s, i) ==
    /\ i \in TaskIds
    /\ i \notin Taken(s)
    /\ s.snap[i].status \notin {"done", "superseded"}
    /\ i[1] <= s.plans

\* The task being executed is such a task.
HandOK == Executing => Free(st, handler.task.id)

TasksInv == RunsInv /\ Tidy(st) /\ Tidy(disk) /\ HandOK

\* What is taken is an id; its plan and every state's plan count are numbers.
LEMMA TakenIds ==
  ASSUME NEW s \in State
  PROVE  /\ IdsOf(s.pending) \subseteq TaskIds
         /\ Taken(s) \subseteq TaskIds
         /\ \A i \in TaskIds : i[1] \in Nat
         /\ s.plans \in Nat
<1>1. s.pending \in Seq(Task)
  BY DEF State
<1>2. IdsOf(s.pending) \subseteq TaskIds
  <2> SUFFICES ASSUME NEW k \in DOMAIN s.pending PROVE s.pending[k].id \in TaskIds
    BY DEF IdsOf
  <2>1. k \in 1 .. Len(s.pending)
    BY <1>1
  <2>2. s.pending[k] \in Task
    BY <1>1, <2>1, ElementOfSeq
  <2> QED
    BY <2>2 DEF Task
<1>3. s.paused # NoTask => s.paused.id \in TaskIds
  BY DEF State, Task
<1>4. \A i \in TaskIds : i[1] \in Nat
  BY DEF TaskIds
<1>5. s.plans \in Nat
  BY BoundsAssumption DEF State
<1> QED
  BY <1>2, <1>3, <1>4, <1>5 DEF Taken

\* Emptying the queue or letting the held task go keeps the rest tidy.
LEMMA ShrinkTidy ==
  ASSUME NEW s \in State, NEW t \in State,
         t.snap = s.snap, t.plans = s.plans,
         t.paused \in {s.paused, NoTask}, t.pending \in {s.pending, <<>>}
  PROVE  /\ Tidy(s) => Tidy(t)
         /\ \A i : Free(s, i) => Free(t, i)
<1>1. IdsOf(t.pending) \subseteq IdsOf(s.pending) /\ (Distinct(s.pending) => Distinct(t.pending))
  BY SmallIds
<1>2. Taken(t) \subseteq Taken(s)
  BY <1>1 DEF Taken
<1> QED
  BY <1>1, <1>2 DEF Tidy, Free

\* A free task can be queued.
LEMMA EnqueueTidy ==
  ASSUME NEW s \in State, NEW t \in Task, NEW pos \in 1 .. Len(s.pending) + 1,
         Tidy(s), Free(s, t.id)
  PROVE  /\ Tidy(Enqueue(s, t, pos))
         /\ Taken(Enqueue(s, t, pos)) = Taken(s) \cup {t.id}
         /\ \A i \in TaskIds :
               Enqueue(s, t, pos).snap[i].status \in {s.snap[i].status, "pending"}
         /\ Enqueue(s, t, pos).plans = s.plans
<1> DEFINE e == Enqueue(s, t, pos)
<1>1. s.pending \in Seq(Task) /\ s.snap \in [TaskIds -> Snapshot]
  BY DEF State
<1>2. /\ e.pending = InsertAt(s.pending, pos, t) /\ e.paused = s.paused
      /\ e.plans = s.plans /\ e.snap = WithSnapshots(s.snap, {t.id})
  BY DEF Enqueue, State
<1>3. /\ IdsOf(e.pending) = IdsOf(s.pending) \cup {t.id}
      /\ t.id \notin IdsOf(s.pending) => (Distinct(s.pending) => Distinct(e.pending))
  BY <1>1, <1>2, InsertIds
<1>4. \A i \in TaskIds :
        e.snap[i].status = IF i = t.id /\ s.snap[i].status = "none"
                           THEN "pending" ELSE s.snap[i].status
  BY <1>1, <1>2 DEF WithSnapshots
<1> HIDE DEF e
<1>5. Taken(e) = Taken(s) \cup {t.id}
  BY <1>2, <1>3 DEF Taken
<1>6. t.id \notin IdsOf(s.pending) /\ (s.paused # NoTask => s.paused.id # t.id)
  BY DEF Free, Taken
<1>7. \A i \in Taken(e) : i \in TaskIds
  BY <1>5, TakenIds DEF Free
<1>8. Tidy(e)
  <2>1. Distinct(e.pending) /\ (e.paused # NoTask => e.paused.id \notin IdsOf(e.pending))
    BY <1>2, <1>3, <1>6 DEF Tidy
  <2>2. ASSUME NEW i \in Taken(e)
        PROVE  e.snap[i].status \notin {"done", "superseded"} /\ i[1] <= e.plans
    <3>1. s.snap[i].status \notin {"done", "superseded"} /\ i[1] <= s.plans
      BY <1>5 DEF Tidy, Free
    <3> QED
      BY <1>2, <1>4, <1>7, <3>1
  <2>3. ASSUME NEW i \in TaskIds, i[1] > e.plans PROVE e.snap[i].status = "none"
    <3>1. t.id \in TaskIds /\ t.id[1] <= s.plans
      BY DEF Free
    <3>2. i # t.id
      BY <1>2, <2>3, <3>1, TakenIds
    <3> QED
      BY <1>2, <1>4, <2>3, <3>2 DEF Tidy
  <2> QED
    BY <2>1, <2>2, <2>3 DEF Tidy
<1> QED
  BY <1>2, <1>4, <1>5, <1>8 DEF e

\* A failed attempt queues the task in hand again or holds it.
LEMMA FailTidy ==
  ASSUME NEW s \in State, NEW t \in Task, NEW pos \in 1 .. Len(s.pending) + 1,
         Tidy(s), Free(s, t.id)
  PROVE  Tidy(Fail(s, t, pos))
<1> DEFINE retried == Enqueue(s, t, pos)
           held == [s EXCEPT !.paused = t, !.status = "paused"]
           next == IF Exhausted(Attempts(s, t)) THEN held ELSE retried
           entry == [status |-> "failed", attempts |-> Attempts(s, t)]
<1>1. retried \in State /\ Tidy(retried)
  BY EnqueueState, EnqueueTidy
<1>2. held \in State /\ Tidy(held)
  <2>1. /\ held \in State /\ held.pending = s.pending /\ held.paused = t
        /\ held.plans = s.plans /\ held.snap = s.snap
    BY DEF State, Statuses
  <2>2. Taken(held) \subseteq Taken(s) \cup {t.id}
    BY <2>1 DEF Taken
  <2>3. t.id \notin IdsOf(s.pending)
    BY DEF Free, Taken
  <2> HIDE DEF held
  <2> QED
    BY <2>1, <2>2, <2>3 DEF Tidy, Free
<1>3. next \in State /\ Tidy(next)
  BY <1>1, <1>2
<1>4. Fail(s, t, pos) = IF next.snap[t.id].status # "none"
                        THEN [next EXCEPT !.snap[t.id] = entry] ELSE next
  BY DEF Fail
<1>5. entry.status = "failed"
  OBVIOUS
<1> HIDE DEF next, entry
<1> DEFINE failed == [next EXCEPT !.snap[t.id] = entry]
<1>6. ASSUME next.snap[t.id].status # "none"
      PROVE  Tidy(failed)
  <2>1. /\ failed.pending = next.pending /\ failed.paused = next.paused
        /\ failed.plans = next.plans
        /\ \A i \in TaskIds : failed.snap[i] = IF i = t.id THEN entry ELSE next.snap[i]
    BY <1>3 DEF State
  <2> HIDE DEF failed
  <2>2. Taken(failed) = Taken(next)
    BY <2>1 DEF Taken
  <2> QED
    BY <1>3, <1>5, <1>6, <2>1, <2>2, TakenIds DEF Tidy
<1> QED
  BY <1>3, <1>4, <1>6

\* Superseding what is queued leaves what is held or executed to be traded.
LEMMA SupersedeTidy ==
  ASSUME NEW s \in State, Tidy(s)
  PROVE  /\ Tidy(Supersede(s))
         /\ \A i : Free(s, i) => Free(Supersede(s), i)
         /\ Tidy(Completed(s))
<1> DEFINE u == Supersede(s)
<1>1. /\ u \in State /\ u.pending = <<>> /\ u.paused = s.paused /\ u.plans = s.plans
      /\ \A i \in TaskIds : u.snap[i].status = IF i \in IdsOf(s.pending) THEN "superseded"
                                               ELSE s.snap[i].status
  <2>1. s.snap \in [TaskIds -> Snapshot]
    BY DEF State
  <2>2. \A i \in TaskIds : u.snap[i] = IF i \in IdsOf(s.pending)
                                       THEN [s.snap[i] EXCEPT !.status = "superseded"]
                                       ELSE s.snap[i]
    BY DEF Supersede, State
  <2>3. u.paused = s.paused /\ u.plans = s.plans
    BY DEF Supersede, State
  <2> HIDE DEF u
  <2>4. ASSUME NEW i \in TaskIds
        PROVE  u.snap[i].status = IF i \in IdsOf(s.pending) THEN "superseded"
                                  ELSE s.snap[i].status
    BY <2>1, <2>2 DEF Snapshot
  <2> QED
    BY <2>3, <2>4, SupersedeState DEF u
<1>2. Completed(s) = [u EXCEPT !.status = "completed"]
  BY DEF Completed
<1> HIDE DEF u
<1>3. Taken(u) = IF s.paused = NoTask THEN {} ELSE {s.paused.id}
  BY <1>1, SmallIds DEF Taken
<1>4. Taken(u) \subseteq Taken(s) /\ Taken(u) \cap IdsOf(s.pending) = {}
  BY <1>3 DEF Taken, Tidy
<1>5. Tidy(u)
  <2>1. Distinct(u.pending) /\ IdsOf(u.pending) = {}
    BY <1>1, SmallIds
  <2>2. ASSUME NEW i \in Taken(u)
        PROVE  u.snap[i].status \notin {"done", "superseded"} /\ i[1] <= u.plans
    BY <1>1, <1>4, TakenIds DEF Tidy
  <2>3. ASSUME NEW i \in TaskIds, i[1] > u.plans PROVE u.snap[i].status = "none"
    <3>1. i \notin Taken(s)
      BY <1>1, <2>3, TakenIds DEF Tidy
    <3> QED
      BY <1>1, <2>3, <3>1 DEF Tidy, Taken
  <2> QED
    BY <2>1, <2>2, <2>3 DEF Tidy
<1>6. ASSUME NEW i, Free(s, i) PROVE Free(u, i)
  <2>1. i \in TaskIds /\ i \notin Taken(s) /\ i \notin IdsOf(s.pending)
    BY <1>6 DEF Free, Taken
  <2> QED
    BY <1>1, <1>4, <1>6, <2>1 DEF Free
<1>7. Tidy([u EXCEPT !.status = "completed"])
  <2> DEFINE c == [u EXCEPT !.status = "completed"]
  <2>1. /\ c \in State /\ c.snap = u.snap /\ c.plans = u.plans
        /\ c.paused = u.paused /\ c.pending = u.pending
    BY <1>1 DEF State, Statuses
  <2> HIDE DEF c
  <2> QED
    BY <1>1, <1>5, <2>1, ShrinkTidy DEF c
<1> QED
  BY <1>2, <1>5, <1>6, <1>7 DEF u

\* A task done is in no queue.
LEMMA MarkDoneTidy ==
  ASSUME NEW s \in State, NEW i, Tidy(s), Free(s, i)
  PROVE  Tidy(MarkDone(s, i))
<1> DEFINE m == MarkDone(s, i)
<1>1. i \in TaskIds /\ s.snap \in [TaskIds -> Snapshot]
  BY DEF Free, State
<1>2. /\ m.pending = s.pending /\ m.paused = s.paused /\ m.plans = s.plans
      /\ \A j \in TaskIds : j # i \/ s.snap[j].status = "none" => m.snap[j] = s.snap[j]
  BY <1>1 DEF MarkDone, State
<1> HIDE DEF m
<1>3. Taken(m) = Taken(s)
  BY <1>2 DEF Taken
<1> QED
  BY <1>1, <1>2, <1>3, TakenIds DEF Tidy, Free, m
\* A new plan's ids are new: it can be queued, or replace the queue.
LEMMA PlanTidy ==
  ASSUME NEW s \in State, NEW q \in Seq(Task), NEW t \in State,
         Tidy(s), Distinct(q), \A i \in IdsOf(q) : i[1] = s.plans + 1,
         t.pending \in {q, s.pending \o q}, t.paused = s.paused,
         t.plans = s.plans + 1, t.snap = WithSnapshots(s.snap, IdsOf(q))
  PROVE  Tidy(t)
<1>1. s.pending \in Seq(Task) /\ s.snap \in [TaskIds -> Snapshot]
  BY DEF State
<1>2. IdsOf(q) \cap Taken(s) = {}
  BY TakenIds DEF Tidy
<1>3. IdsOf(t.pending) \subseteq IdsOf(s.pending) \cup IdsOf(q) /\ Distinct(t.pending)
  <2>1. IdsOf(s.pending) \cap IdsOf(q) = {}
    BY <1>2 DEF Taken
  <2> QED
    BY <1>1, <2>1, ConcatIds DEF Tidy
<1>4. Taken(t) \subseteq Taken(s) \cup IdsOf(q)
  BY <1>3 DEF Taken
<1>5. t.paused # NoTask => t.paused.id \notin IdsOf(t.pending)
  BY <1>2, <1>3 DEF Tidy, Taken
<1>6. \A i \in TaskIds : t.snap[i].status = IF i \in IdsOf(q) /\ s.snap[i].status = "none"
                                            THEN "pending" ELSE s.snap[i].status
  BY <1>1 DEF WithSnapshots
<1>7. ASSUME NEW i \in Taken(t)
      PROVE  t.snap[i].status \notin {"done", "superseded"} /\ i[1] <= t.plans
  <2>1. i \in TaskIds
    BY TakenIds
  <2>2. CASE i \in Taken(s)
    <3>1. s.snap[i].status \notin {"done", "superseded"} /\ i[1] <= s.plans
      BY <2>2 DEF Tidy
    <3> QED
      BY <1>6, <2>1, <3>1, TakenIds
  <2>3. CASE i \in IdsOf(q)
    <3>1. i[1] = s.plans + 1
      BY <2>3
    <3>2. i[1] > s.plans /\ i[1] <= t.plans
      BY <3>1, TakenIds
    <3>3. s.snap[i].status = "none"
      BY <2>1, <3>2 DEF Tidy
    <3> QED
      BY <1>6, <2>1, <3>2, <3>3
  <2> QED
    BY <1>4, <2>2, <2>3
<1>8. ASSUME NEW i \in TaskIds, i[1] > t.plans PROVE t.snap[i].status = "none"
  <2>1. i[1] > s.plans + 1
    BY <1>8
  <2>2. i[1] > s.plans /\ i[1] # s.plans + 1
    BY <2>1, TakenIds
  <2>3. s.snap[i].status = "none" /\ i \notin IdsOf(q)
    BY <2>2 DEF Tidy
  <2> QED
    BY <1>6, <2>3
<1> QED
  BY <1>3, <1>5, <1>7, <1>8 DEF Tidy

\* start() queues the reviewed plan on an empty object.
LEMMA StartedTidy ==
  ASSUME NEW s \in State, NEW r \in Runs
  PROVE  Tidy(Started(s, r))
<1> DEFINE c == [set |-> TRUE, run |-> r, reviewed |-> TRUE]
           fresh == [Idle EXCEPT !.cfg = c, !.status = "running", !.plans = s.plans]
           q == BaseTasks(0)
           t == Started(s, r)
<1>1. 0 \in 0 .. MaxPlans
  BY BoundsAssumption
<1>2. q \in Seq(Task)
  BY <1>1, BaseTasksSeq
<1>3. Distinct(q) /\ \A i \in IdsOf(q) : i \in TaskIds /\ i[1] = 0
  BY <1>1, PlanIds
<1> HIDE DEF q, c
<1>4. /\ t.pending = <<>> \o q /\ t.paused = NoTask /\ t.plans = s.plans
      /\ t.snap = WithSnapshots(Idle.snap, IdsOf(q))
  BY DEF Started, EnqueueAll, Idle, q
<1>5. t.pending = q
  BY <1>2, <1>4
<1> HIDE DEF t, fresh
<1>6. \A i \in TaskIds : t.snap[i].status = IF i \in IdsOf(q) THEN "pending" ELSE "none"
  BY <1>4 DEF WithSnapshots, Idle, NoSnapshot
<1>7. Taken(t) = IdsOf(q)
  BY <1>4, <1>5 DEF Taken
<1>8. s.plans \in Nat
  BY TakenIds
<1>9. \A i \in IdsOf(q) : i[1] <= t.plans
  BY <1>3, <1>4, <1>8
<1>10. \A i \in TaskIds : i[1] > t.plans => i \notin IdsOf(q)
  BY <1>3, <1>4, <1>8
<1>11. \A i \in Taken(t) : t.snap[i].status \notin {"done", "superseded"} /\ i[1] <= t.plans
  BY <1>3, <1>6, <1>7, <1>9
<1>12. \A i \in TaskIds : i[1] > t.plans => t.snap[i].status = "none"
  BY <1>6, <1>10
<1> HIDE DEF t
<1> QED
  BY <1>3, <1>4, <1>5, <1>11, <1>12 DEF Tidy, t

\* resume() queues the held task again.
LEMMA ResumedTidy ==
  ASSUME NEW s \in State, NEW pos \in 1 .. Len(s.pending) + 1, Tidy(s)
  PROVE  Tidy(Resumed(s, pos)) /\ \A i : Free(s, i) => Free(Resumed(s, pos), i)
<1> DEFINE woken == [s EXCEPT !.status = "running", !.paused = NoTask]
           i0 == s.paused.id
           back == Enqueue(woken, s.paused, pos)
<1>1. /\ woken \in State /\ woken.snap = s.snap /\ woken.plans = s.plans
      /\ woken.paused = NoTask /\ woken.pending = s.pending
  BY DEF State, Statuses
<1>2. Tidy(woken) /\ \A i : Free(s, i) => Free(woken, i)
  BY <1>1, ShrinkTidy
<1>3. Resumed(s, pos) = IF s.paused = NoTask THEN woken
                        ELSE [back EXCEPT !.snap[i0].status = "pending"]
  BY DEF Resumed
<1> HIDE DEF woken
<1>4. ASSUME s.paused # NoTask
      PROVE  /\ Tidy([back EXCEPT !.snap[i0].status = "pending"])
             /\ \A i : Free(s, i) => Free([back EXCEPT !.snap[i0].status = "pending"], i)
  <2>1. s.paused \in Task
    BY <1>4 DEF State
  <2>2. i0 \in TaskIds /\ i0 \in Taken(s) /\ i0 \notin IdsOf(s.pending)
    BY <1>4, <2>1 DEF Task, Taken, Tidy
  <2>3. Taken(woken) = IdsOf(s.pending) /\ Taken(s) = Taken(woken) \cup {i0}
    BY <1>1, <1>4 DEF Taken
  <2>4. Free(woken, i0)
    BY <1>1, <2>2, <2>3 DEF Free, Tidy
  <2>5. /\ back \in State /\ Tidy(back) /\ Taken(back) = Taken(woken) \cup {i0}
        /\ \A i \in TaskIds : back.snap[i].status \in {woken.snap[i].status, "pending"}
        /\ back.plans = woken.plans
    BY <1>1, <1>2, <2>1, <2>4, EnqueueState, EnqueueTidy
  <2> DEFINE b == [back EXCEPT !.snap[i0].status = "pending"]
  <2> HIDE DEF back, i0
  <2>6. /\ b.pending = back.pending /\ b.paused = back.paused /\ b.plans = back.plans
        /\ \A i \in TaskIds :
              b.snap[i].status = IF i = i0 THEN "pending" ELSE back.snap[i].status
    <3>1. back.snap \in [TaskIds -> Snapshot]
      BY <2>5 DEF State
    <3>2. [back.snap EXCEPT ![i0].status = "pending"]
            = [back.snap EXCEPT ![i0] = [back.snap[i0] EXCEPT !.status = "pending"]]
      OBVIOUS
    <3>3. b = [back EXCEPT !.snap = [back.snap EXCEPT ![i0].status = "pending"]]
      BY <2>5 DEF State
    <3>4. ASSUME NEW i \in TaskIds
          PROVE  [back.snap EXCEPT ![i0].status = "pending"][i].status
                   = IF i = i0 THEN "pending" ELSE back.snap[i].status
      BY <3>1, <3>2 DEF Snapshot
    <3> QED
      BY <2>5, <3>3, <3>4 DEF State
  <2> HIDE DEF b
  <2>7. Taken(b) = Taken(back)
    BY <2>6 DEF Taken
  <2>8. Tidy(b)
    <3>1. \A i \in TaskIds : i[1] > back.plans => i # i0
      BY <1>1, <2>2, <2>4, <2>5, TakenIds DEF Free
    <3>2. Taken(b) \subseteq TaskIds
      BY <2>5, <2>7, TakenIds
    <3> QED
      BY <2>5, <2>6, <2>7, <3>1, <3>2 DEF Tidy
  <2>9. ASSUME NEW i, Free(s, i) PROVE Free(b, i)
    BY <1>1, <2>3, <2>5, <2>6, <2>7, <2>9 DEF Free
  <2> QED
    BY <2>8, <2>9 DEF b
<1> QED
  BY <1>2, <1>3, <1>4

\* The state's other changes, by the requests.
LEMMA RequestTidy ==
  ASSUME NEW s \in State, Tidy(s)
  PROVE  /\ \A new \in Statuses :
               /\ Tidy([s EXCEPT !.status = new])
               /\ Tidy([s EXCEPT !.status = new, !.pending = <<>>])
               /\ \A i : Free(s, i) =>
                     /\ Free([s EXCEPT !.status = new], i)
                     /\ Free([s EXCEPT !.status = new, !.pending = <<>>], i)
         /\ Tidy(Configured(s, WebhookConfig))
         /\ \A i : Free(s, i) => Free(Configured(s, WebhookConfig), i)
         /\ \A x \in Txs :
               /\ Tidy(Remember(s, x)) /\ Tidy(Observed(s, x))
               /\ \A i : Free(s, i) => Free(Remember(s, x), i) /\ Free(Observed(s, x), i)
<1>1. ASSUME NEW new \in Statuses
      PROVE  /\ Tidy([s EXCEPT !.status = new])
             /\ \A i : Free(s, i) => Free([s EXCEPT !.status = new], i)
  <2> DEFINE t == [s EXCEPT !.status = new]
  <2>1. /\ t \in State /\ t.snap = s.snap /\ t.plans = s.plans
        /\ t.paused = s.paused /\ t.pending = s.pending
    BY DEF State
  <2> HIDE DEF t
  <2> QED
    BY <2>1, ShrinkTidy DEF t
<1>2. ASSUME NEW new \in Statuses
      PROVE  /\ Tidy([s EXCEPT !.status = new, !.pending = <<>>])
             /\ \A i : Free(s, i) => Free([s EXCEPT !.status = new, !.pending = <<>>], i)
  <2> DEFINE t == [s EXCEPT !.status = new, !.pending = <<>>]
  <2>1. t \in State
    BY EmptiedState
  <2>2. /\ t.snap = s.snap /\ t.plans = s.plans
        /\ t.paused = s.paused /\ t.pending = <<>>
    BY DEF State
  <2> HIDE DEF t
  <2> QED
    BY <2>1, <2>2, ShrinkTidy DEF t
<1>3. /\ Tidy(Configured(s, WebhookConfig))
      /\ \A i : Free(s, i) => Free(Configured(s, WebhookConfig), i)
  <2> DEFINE t == Configured(s, WebhookConfig)
  <2>1. t \in State
    BY ConfiguredState, WebhookConfigConfig
  <2>2. /\ t.snap = s.snap /\ t.plans = s.plans
        /\ t.paused = s.paused /\ t.pending \in {s.pending, <<>>}
    BY WebhookConfigConfig DEF Configured, State
  <2> HIDE DEF t
  <2> QED
    BY <2>1, <2>2, ShrinkTidy DEF t
<1>4. ASSUME NEW x \in Txs
      PROVE  /\ Tidy(Remember(s, x)) /\ \A i : Free(s, i) => Free(Remember(s, x), i)
  <2> DEFINE t == Remember(s, x)
  <2>1. t \in State
    BY RememberState
  <2>2. /\ t.snap = s.snap /\ t.plans = s.plans
        /\ t.paused = s.paused /\ t.pending = s.pending
    BY DEF Remember, State
  <2> HIDE DEF t
  <2> QED
    BY <2>1, <2>2, ShrinkTidy DEF t
<1>5. ASSUME NEW x \in Txs
      PROVE  /\ Tidy(Observed(s, x)) /\ \A i : Free(s, i) => Free(Observed(s, x), i)
  <2> DEFINE t == Observed(s, x)
  <2>1. t \in State
    BY ObservedState
  <2>2. /\ t.snap = s.snap /\ t.plans = s.plans
        /\ t.paused = s.paused /\ t.pending = s.pending
    BY DEF Observed, State
  <2> HIDE DEF t
  <2> QED
    BY <2>1, <2>2, ShrinkTidy DEF t
<1> QED
  BY <1>1, <1>2, <1>3, <1>4, <1>5
\* Going on from a tidy state leaves one, and the task it pops is free.
LEMMA GoingOnTidy ==
  ASSUME NEW s \in State, NEW h \in Handlers, Tidy(s), GoesOn(s, h) \/ Concludes(s, h)
  PROVE  Tidy(st') /\ HandOK'
<1>1. CASE st' = Completed(s) /\ Ends
  BY <1>1, SupersedeTidy, EndsTyped DEF HandOK
<1>2. CASE st' = s /\ Ends
  BY <1>2, EndsTyped DEF HandOK
<1>3. ASSUME NEW p \in {"plan_before", "plan_after"},
             st' = s, handler' = [h EXCEPT !.pc = p]
      PROVE  Tidy(st') /\ HandOK'
  <2>1. handler'.pc = p
    BY <1>3 DEF Handlers
  <2> QED
    BY <1>3, <2>1 DEF HandOK, Executing
<1>4. CASE /\ s.pending # <<>>
           /\ st' = [s EXCEPT !.pending = Tail(@)]
           /\ handler' = [h EXCEPT !.pc = "allocate", !.task = Head(s.pending)]
  <2> DEFINE t == [s EXCEPT !.pending = Tail(@)]
             first == Head(s.pending)
             rest == Tail(s.pending)
  <2>1. s.pending \in Seq(Task)
    BY DEF State
  <2>2. /\ rest \in Seq(Task) /\ first \in Task
        /\ IdsOf(s.pending) = IdsOf(rest) \cup {first.id}
        /\ Distinct(rest) /\ first.id \notin IdsOf(rest)
    BY <1>4, <2>1, TailIds DEF Tidy
  <2> HIDE DEF rest
  <2>3. /\ t.pending = rest /\ t.snap = s.snap /\ t.plans = s.plans /\ t.paused = s.paused
    BY DEF State, rest
  <2>4. handler'.task = first
    BY <1>4 DEF Handlers
  <2> HIDE DEF t, first
  <2>5. Taken(t) \subseteq Taken(s) /\ first.id \in Taken(s) /\ first.id \notin Taken(t)
    BY <2>2, <2>3 DEF Taken, Tidy
  <2>6. Tidy(t)
    BY <2>2, <2>3, <2>5 DEF Tidy
  <2>7. first.id \in TaskIds
    BY <2>2 DEF Task
  <2>8. Free(t, first.id)
    BY <2>3, <2>5, <2>7 DEF Tidy, Free
  <2> QED
    BY <1>4, <2>4, <2>6, <2>8 DEF HandOK, t
<1> QED
  BY <1>1, <1>2, <1>3, <1>4 DEF GoesOn, Concludes

\* Failing from a tidy state too, if the task that fails is free there.
LEMMA FailingTidy ==
  ASSUME NEW s \in State, NEW t \in Task, Tidy(s), Free(s, t.id), Fails(s, t)
  PROVE  Tidy(st') /\ HandOK'
  BY FailTidy, EndsTyped DEF Fails, HandOK

\* Every step of alarm() keeps each task in one place.
LEMMA HandlerTidy ==
  ASSUME TasksInv, AlarmHandler
  PROVE  Tidy(st') /\ Tidy(disk') /\ HandOK'
<1>1. /\ TypeInv /\ st \in State /\ handler \in Handlers
      /\ Tidy(st) /\ Tidy(disk) /\ HandOK
  BY DEF TasksInv, RunsInv, TypeInv, EngineOK
<1>2. disk' \in {disk, st'}
  BY <1>1, HandlerSteady DEF Steady
<1>3. SUFFICES Tidy(st') /\ HandOK'
  BY <1>1, <1>2
<1>4. CASE AlarmIgnored
  BY <1>1, <1>4 DEF AlarmIgnored, HandOK, Executing
<1>5. CASE AlarmRuns
  <2>1. [Resting EXCEPT !.reviewed = st.cfg.reviewed] \in Handlers
    BY <1>1, RestingHandler DEF State, Config, Handlers
  <2> QED
    BY <1>1, <1>5, <2>1, StepsGoOn, GoingOnTidy DEF AlarmRuns
<1>6. CASE AlarmReplans
  <2> DEFINE s == [st EXCEPT !.replan = NoTx]
  <2>1. /\ s \in State /\ s.snap = st.snap /\ s.plans = st.plans
        /\ s.paused = st.paused /\ s.pending = st.pending
    BY <1>1 DEF State
  <2>2. \/ Complete(s)
        \/ /\ handler' = [Resting EXCEPT !.pc = "replan", !.rem = Remaining(st),
                                         !.reviewed = st.cfg.reviewed]
           /\ UNCHANGED st
    BY <1>6 DEF AlarmReplans
  <2> HIDE DEF s
  <2>3. ASSUME Complete(s) PROVE Tidy(st') /\ HandOK'
    <3>1. Tidy(s)
      BY <1>1, <2>1, ShrinkTidy
    <3>2. Concludes(s, handler)
      BY <2>3 DEF Complete, SaveWith, Concludes
    <3> QED
      BY <1>1, <2>1, <3>1, <3>2, GoingOnTidy
  <2>4. ASSUME handler' = [Resting EXCEPT !.pc = "replan", !.rem = Remaining(st),
                                          !.reviewed = st.cfg.reviewed]
        PROVE  ~Executing'
    BY <2>4 DEF Executing, Resting
  <2> QED
    BY <1>1, <2>2, <2>3, <2>4 DEF HandOK
<1>7. CASE ReplanReady
  <2> DEFINE q == ReplanTasks(handler.rem, st.plans + 1)
  <2>1. q \in Seq(Task) /\ \E s : Replanned(s, q) /\ s.pending = q /\ GoesOn(s, handler)
    BY <1>1, <1>7, ReplanGoesOn
  <2>2. st.plans + 1 \in 0 .. MaxPlans
    <3>1. st.plans + 1 <= MaxPlans
      BY <1>7 DEF ReplanReady
    <3> QED
      BY <1>1, <3>1, TakenIds, BoundsAssumption
  <2>3. Distinct(q) /\ \A i \in IdsOf(q) : i[1] = st.plans + 1
    BY <1>1, <2>2, PlanIds DEF Handlers
  <2> HIDE DEF q
  <2>4. PICK s : Replanned(s, q) /\ s.pending = q /\ GoesOn(s, handler)
    BY <2>1
  <2>5. Tidy(s)
    BY <1>1, <2>1, <2>3, <2>4, PlanTidy DEF Replanned
  <2> QED
    BY <1>1, <2>4, <2>5, GoingOnTidy DEF Replanned
<1>8. CASE BasePlanReady
  <2> DEFINE q == BaseTasks(st.plans + 1)
  <2>1. /\ q \in Seq(Task)
        /\ \E s : Replanned(s, q) /\ s.pending = st.pending \o q /\ GoesOn(s, handler)
    BY <1>1, <1>8, BasePlanGoesOn
  <2>2. st.plans + 1 \in 0 .. MaxPlans
    <3>1. st.plans + 1 <= MaxPlans
      BY <1>8 DEF BasePlanReady
    <3> QED
      BY <1>1, <3>1, TakenIds, BoundsAssumption
  <2>3. Distinct(q) /\ \A i \in IdsOf(q) : i[1] = st.plans + 1
    BY <2>2, PlanIds
  <2> HIDE DEF q
  <2>4. PICK s : Replanned(s, q) /\ s.pending = st.pending \o q /\ GoesOn(s, handler)
    BY <2>1
  <2>5. Tidy(s)
    BY <1>1, <2>1, <2>3, <2>4, PlanTidy DEF Replanned
  <2> QED
    BY <1>1, <2>4, <2>5, GoingOnTidy DEF Replanned
<1>9. CASE PlanFails
  BY <1>1, <1>9, EndsTyped DEF PlanFails, HandOK
<1>10. CASE AccountsReady
  <2>1. UNCHANGED st /\ handler'.task = handler.task /\ Executing
    BY <1>1, <1>10 DEF AccountsReady, Handlers, Executing
  <2> QED
    BY <1>1, <2>1 DEF HandOK
<1>11. CASE SliceFills \/ SliceFails
  <2>1. UNCHANGED st /\ handler'.task = handler.task /\ Executing
    BY <1>1, <1>11 DEF SliceFills, SliceFails, Handlers, Executing
  <2> QED
    BY <1>1, <2>1 DEF HandOK
<1>12. CASE NoAccounts
  <2>1. st' = [st EXCEPT !.status = "aborted", !.pending = <<>>] /\ Ends
    BY <1>12 DEF NoAccounts, SaveWith
  <2> QED
    BY <1>1, <2>1, RequestTidy, EndsTyped DEF HandOK, Statuses
<1>13. CASE ExecutionThrows
  <2>1. Executing /\ handler.task \in Task
    BY <1>1, <1>13 DEF ExecutionThrows, KeyUnreadable, Executing, TypeInv, EngineOK
  <2>2. Fails(st, handler.task)
    BY <1>13, FailuresEnd DEF ExecutionThrows
  <2> QED
    BY <1>1, <2>1, <2>2, FailingTidy DEF HandOK
<1>14. CASE ExecutionEnds
  <2> DEFINE t == handler.task
             credited == Credit(st, t.side, handler.ok)
             rest == [t EXCEPT !.amt = RetryVolume(t)]
  <2>1. /\ t \in Task
        /\ credited \in State
        /\ credited.pending = st.pending /\ credited.paused = st.paused
        /\ credited.snap = st.snap /\ credited.plans = st.plans
        /\ \/ Fails(st, t)
           \/ Concludes(MarkDone(credited, t.id), handler)
           \/ rest \in Task /\ rest.id = t.id /\ Fails(credited, rest)
           \/ /\ rest \in Task /\ rest.id = t.id
              /\ \E pos \in 1 .. Len(st.pending) + 1 :
                    Concludes(Fail(credited, rest, pos), handler)
    BY <1>1, <1>14, ExecutionGoesOn
  <2>2. Free(st, t.id)
    BY <1>1, <1>14 DEF ExecutionEnds, HandOK, Executing
  <2> HIDE DEF t, credited, rest
  <2>3. Tidy(credited) /\ Free(credited, t.id)
    BY <1>1, <2>1, <2>2, ShrinkTidy
  <2>4. ASSUME Fails(st, t) PROVE Tidy(st') /\ HandOK'
    BY <1>1, <2>1, <2>2, <2>4, FailingTidy
  <2>5. ASSUME Concludes(MarkDone(credited, t.id), handler) PROVE Tidy(st') /\ HandOK'
    <3>1. MarkDone(credited, t.id) \in State
      BY <2>1, MarkDoneState DEF Task
    <3>2. Tidy(MarkDone(credited, t.id))
      BY <2>1, <2>3, MarkDoneTidy
    <3> QED
      BY <1>1, <2>5, <3>1, <3>2, GoingOnTidy
  <2>6. ASSUME rest \in Task, rest.id = t.id, Fails(credited, rest)
        PROVE  Tidy(st') /\ HandOK'
    BY <2>1, <2>3, <2>6, FailingTidy
  <2>7. ASSUME rest \in Task, rest.id = t.id, NEW pos \in 1 .. Len(st.pending) + 1,
               Concludes(Fail(credited, rest, pos), handler)
        PROVE  Tidy(st') /\ HandOK'
    <3>1. Fail(credited, rest, pos) \in State
      BY <2>1, <2>7, FailState
    <3>2. Tidy(Fail(credited, rest, pos))
      BY <2>1, <2>3, <2>7, FailTidy
    <3> QED
      BY <1>1, <2>7, <3>1, <3>2, GoingOnTidy
  <2> QED
    BY <2>1, <2>4, <2>5, <2>6, <2>7
<1> QED
  BY <1>4, <1>5, <1>6, <1>7, <1>8, <1>9, <1>10, <1>11, <1>12, <1>13, <1>14
  DEF AlarmHandler
\* So does every request: what it changes leaves the task in hand free.
LEMMA RequestKeepsTidy ==
  ASSUME StartsAlone, TasksInv,
         \/ \E r \in Runs : Start(r)
         \/ Abort \/ Pause \/ Resume \/ Clear
         \/ \E x \in Txs : WebhookArrives(x) \/ WebhookApplies(x)
  PROVE  Tidy(st') /\ Tidy(disk') /\ HandOK'
<1>1. /\ st \in State /\ handler \in Handlers
      /\ Tidy(st) /\ Tidy(disk) /\ HandOK /\ Undisturbed
      /\ Executing => handler.task \in Task
  BY DEF TasksInv, RunsInv, TypeInv, EngineOK
<1>2. Executing => handler.pc # "idle"
  BY DEF Executing
<1>3. ASSUME NEW r \in Runs, Start(r) PROVE Tidy(st') /\ Tidy(disk') /\ HandOK'
  <2>1. ~Executing /\ UNCHANGED handler
    BY <1>1, <1>2, <1>3 DEF Start, Undisturbed
  <2>2. st' = Started(st, r) /\ disk' = st'
    BY <1>3 DEF Start, SaveWith
  <2> QED
    BY <1>1, <2>1, <2>2, StartedTidy DEF HandOK, Executing
<1>4. ASSUME UNCHANGED handler, Tidy(st'), Free(st, handler.task.id) => Free(st', handler.task.id)
      PROVE  HandOK'
  BY <1>1, <1>4 DEF HandOK, Executing
<1>5. CASE Abort \/ Pause
  <2>1. /\ \/ st' = [st EXCEPT !.status = "aborted", !.pending = <<>>]
           \/ st' = [st EXCEPT !.status = "paused"]
        /\ disk' = st' /\ UNCHANGED handler
    BY <1>5 DEF Abort, Pause, SaveWith
  <2>2. Tidy(st') /\ (Free(st, handler.task.id) => Free(st', handler.task.id))
    BY <1>1, <2>1, RequestTidy DEF Statuses
  <2> QED
    BY <1>4, <2>1, <2>2
<1>6. CASE Resume
  <2>1. PICK pos \in 1 .. Len(st.pending) + 1 : st' = Resumed(st, pos) /\ disk' = st'
    BY <1>6 DEF Resume, Save, SaveWith
  <2>2. UNCHANGED handler
    BY <1>6 DEF Resume
  <2> QED
    BY <1>1, <1>4, <2>1, <2>2, ResumedTidy
<1>7. CASE Clear
  <2> DEFINE t == [Idle EXCEPT !.plans = st.plans]
  <2>1. /\ t.pending = <<>> /\ t.paused = NoTask /\ t.plans = st.plans
        /\ \A i \in TaskIds : t.snap[i].status = "none"
    BY DEF Idle, NoSnapshot
  <2>2. st' = t /\ disk' = t
    BY <1>7 DEF Clear, SaveWith
  <2>3. handler'.pc = handler.pc /\ handler'.task = handler.task
    BY <1>1, <1>7 DEF Clear, Handlers
  <2> HIDE DEF t
  <2>4. Taken(t) = {} /\ Tidy(t)
    BY <2>1, SmallIds DEF Taken, Tidy
  <2>5. Free(st, handler.task.id) => Free(t, handler.task.id)
    BY <2>1, <2>4 DEF Free
  <2> QED
    BY <1>1, <2>2, <2>3, <2>4, <2>5 DEF HandOK, Executing
<1>8. ASSUME NEW x \in Txs, WebhookArrives(x) PROVE Tidy(st') /\ Tidy(disk') /\ HandOK'
  <2> DEFINE s == Configured(st, WebhookConfig)
             seen == Remember(s, x)
  <2>1. st' \in {s, seen} /\ disk' \in {s, seen} /\ UNCHANGED handler
    BY <1>8 DEF WebhookArrives, Save, SaveWith
  <2>2. s \in State /\ Tidy(s) /\ (Free(st, handler.task.id) => Free(s, handler.task.id))
    BY <1>1, RequestTidy, ConfiguredState, WebhookConfigConfig
  <2> HIDE DEF s
  <2>3. Tidy(seen) /\ (Free(s, handler.task.id) => Free(seen, handler.task.id))
    BY <2>2, RequestTidy
  <2> HIDE DEF seen
  <2> QED
    BY <1>4, <2>1, <2>2, <2>3
<1>9. ASSUME NEW x \in Txs, WebhookApplies(x) PROVE Tidy(st') /\ Tidy(disk') /\ HandOK'
  <2> DEFINE s == Observed(st, x)
             u == Supersede(s)
             i == handler.task.id
  <2>1. s \in State /\ Tidy(s) /\ (Free(st, i) => Free(s, i))
    BY <1>1, ObservedState, RequestTidy
  <2>2. /\ UNCHANGED handler /\ disk' = st'
        /\ \/ st' = [s EXCEPT !.status = "paused", !.pending = <<>>]
           \/ st' = [u EXCEPT !.replan = x]
           \/ st' = s
    BY <1>9 DEF WebhookApplies, Save, SaveWith
  <2> HIDE DEF s, i
  <2>3. ASSUME st' = [s EXCEPT !.status = "paused", !.pending = <<>>]
        PROVE  Tidy(st') /\ (Free(st, i) => Free(st', i))
    BY <2>1, <2>3, RequestTidy DEF Statuses
  <2>4. ASSUME st' = [u EXCEPT !.replan = x]
        PROVE  Tidy(st') /\ (Free(st, i) => Free(st', i))
    <3>1. u \in State /\ Tidy(u) /\ (Free(s, i) => Free(u, i))
      BY <2>1, SupersedeState, SupersedeTidy
    <3> HIDE DEF u
    <3>2. /\ st' \in State /\ st'.snap = u.snap /\ st'.plans = u.plans
          /\ st'.paused = u.paused /\ st'.pending = u.pending
      BY <2>4, <3>1 DEF State
    <3> QED
      BY <2>1, <3>1, <3>2, ShrinkTidy
  <2>5. Tidy(st') /\ (Free(st, i) => Free(st', i))
    BY <2>1, <2>2, <2>3, <2>4
  <2> QED
    BY <1>4, <2>2, <2>5 DEF i
<1> QED
  BY <1>3, <1>5, <1>6, <1>7, <1>8, <1>9

\* One step keeps each task in one place.
LEMMA TasksStep ==
  ASSUME StartsAlone, TasksInv, [Next]_vars
  PROVE  TasksInv'
<1>1. RunsInv'
  BY RunsStep DEF TasksInv
<1>2. CASE AlarmHandler
  BY <1>1, <1>2, HandlerTidy DEF TasksInv
<1>3. CASE Crash
  BY <1>1, <1>3, RestingHandler DEF Crash, TasksInv, HandOK, Executing
<1>4. CASE UNCHANGED vars
  BY <1>1, <1>4 DEF vars, TasksInv, HandOK, Executing
<1> QED
  BY <1>1, <1>2, <1>3, <1>4, RequestKeepsTidy DEF Next, TasksInv

\* Nothing is queued in the beginning.
LEMMA TasksInit == Init => TasksInv
<1>1. IdsOf(<<>>) = {} /\ Distinct(<<>>)
  BY SmallIds
<1>2. Taken(Idle) = {}
  BY <1>1 DEF Taken, Idle
<1>3. Tidy(Idle)
  BY <1>1, <1>2 DEF Tidy, Idle, NoSnapshot
<1> QED
  BY <1>3, RunsInit, RestingHandler DEF Init, TasksInv, HandOK, Executing

\* Each task in one place is no task twice.
LEMMA TidyOnce == TasksInv => NoTaskTwice
<1> SUFFICES ASSUME TasksInv PROVE NoTaskTwice
  OBVIOUS
<1>1. /\ st \in State /\ Tidy(st)
      /\ Executing => handler.task \in Task /\ Free(st, handler.task.id)
  BY DEF TasksInv, RunsInv, TypeInv, EngineOK, HandOK
<1>2. /\ st.pending \in Seq(Task)
      /\ st.paused = NoTask \/ st.paused \in Task
  BY <1>1 DEF State
<1>3. /\ InHand \in Seq(Task) /\ Distinct(InHand)
      /\ IdsOf(InHand) = IF Executing THEN {handler.task.id} ELSE {}
  BY <1>1, SmallIds DEF InHand
<1>4. /\ Held \in Seq(Task) /\ Distinct(Held)
      /\ IdsOf(Held) = IF st.paused = NoTask THEN {} ELSE {st.paused.id}
  BY <1>2, SmallIds DEF Held
<1>5. /\ IdsOf(st.pending) \cap IdsOf(InHand) = {}
      /\ (IdsOf(st.pending) \cup IdsOf(InHand)) \cap IdsOf(Held) = {}
  BY <1>1, <1>3, <1>4 DEF Tidy, Free, Taken
<1> HIDE DEF InHand, Held
<1> DEFINE front == st.pending \o InHand
<1>6. front \in Seq(Task) /\ Distinct(front) /\ IdsOf(front) = IdsOf(st.pending) \cup IdsOf(InHand)
  BY <1>1, <1>2, <1>3, <1>5, ConcatIds DEF Tidy
<1> HIDE DEF front
<1>7. /\ Distinct(front \o Held)
      /\ IdsOf(front \o Held) = IdsOf(st.pending) \cup IdsOf(InHand) \cup IdsOf(Held)
  BY <1>4, <1>5, <1>6, ConcatIds
<1>8. AllTasks = front \o Held
  BY DEF AllTasks, front
<1>9. \A i \in IdsOf(AllTasks) : st.snap[i].status # "done"
  BY <1>1, <1>3, <1>4, <1>7, <1>8 DEF Tidy, Taken, Free
<1> QED
  BY <1>7, <1>8, <1>9 DEF NoTaskTwice, Distinct, IdsOf

\* In a run that begins with alarm() at rest, no task is twice among the queue,
\* the execution and the held task, and none of them is done: whatever
\* retries, pauses, replans and crashes come between, popNextDueTask,
\* enqueueTask, handleTaskFailure and resume never leave a volume to be traded
\* twice.
THEOREM TradesEachTaskOnce ==
  ASSUME StartsAlone
  PROVE  Spec => []NoTaskTwice
<1>1. Init => TasksInv
  BY TasksInit
<1>2. TasksInv /\ [Next]_vars => TasksInv'
  BY TasksStep
<1>3. TasksInv => NoTaskTwice
  BY TidyOnce
<1> QED
  BY <1>1, <1>2, <1>3, PTL DEF Spec

\* Nor is the task being executed one an event superseded: an event supersedes
\* what is queued, and the task in hand is not.
THEOREM ExecutesNothingSuperseded ==
  ASSUME StartsAlone
  PROVE  Spec => []SupersededNotExecuted
<1>1. Init => TasksInv
  BY TasksInit
<1>2. TasksInv /\ [Next]_vars => TasksInv'
  BY TasksStep
<1>3. TasksInv => SupersededNotExecuted
  BY DEF TasksInv, HandOK, Free, SupersededNotExecuted
<1> QED
  BY <1>1, <1>2, <1>3, PTL DEF Spec
-----------------------------------------------------------------------------
(* What the metrics count was traded.                                       *)

\* Fills of the task in hand that the metrics will count when it ends.
Earned(d) == IF handler.pc = "trade" /\ handler.task.side = d THEN handler.ok ELSE 0

\* What is counted, here or in storage, or will be, was traded.
Covered ==
    \A d \in Sides : st.exec[d] + Earned(d) <= chain[d] /\ disk.exec[d] <= chain[d]

\* Before the trading nothing has been filled.
Unearned == handler.pc \in {"replan", "plan_before", "allocate"} => handler.ok = 0

CreditInv == RunsInv /\ Covered /\ Unearned

\* alarm() going on counts nothing, and begins no trading.
LEMMA GoingOnCounts ==
  ASSUME NEW s \in State, NEW h \in Handlers, GoesOn(s, h) \/ Concludes(s, h)
  PROVE  /\ st'.exec = s.exec
         /\ handler'.pc # "trade"
         /\ h.ok = 0 => handler'.ok = 0 \/ handler'.pc = "idle"
<1>1. CASE st' = Completed(s) /\ Ends
  BY <1>1, QueueVolumes, EndsTyped DEF SameVolumes
<1>2. CASE st' = s /\ Ends
  BY <1>2, EndsTyped
<1>3. ASSUME NEW p \in {"plan_before", "plan_after"},
             st' = s, handler' = [h EXCEPT !.pc = p]
      PROVE  st'.exec = s.exec /\ handler'.pc # "trade" /\ handler'.ok = h.ok
  BY <1>3 DEF Handlers
<1>4. CASE /\ st' = [s EXCEPT !.pending = Tail(@)]
           /\ handler' = [h EXCEPT !.pc = "allocate", !.task = Head(s.pending)]
  <2>1. st'.exec = s.exec
    BY <1>4 DEF State
  <2>2. handler'.pc = "allocate" /\ handler'.ok = h.ok
    BY <1>4 DEF Handlers
  <2> QED
    BY <2>1, <2>2
<1> QED
  BY <1>1, <1>2, <1>3, <1>4 DEF GoesOn, Concludes

\* A failed attempt counts nothing.
LEMMA FailingCounts ==
  ASSUME NEW s \in State, NEW t \in Task, Fails(s, t)
  PROVE  st'.exec = s.exec /\ handler'.pc = "idle"
  BY QueueVolumes, EndsTyped DEF Fails, SameVolumes

\* applyExecutedTask counts on the task's side, and at most what was filled.
LEMMA CreditExec ==
  ASSUME NEW s \in State, NEW side \in Sides, NEW vol \in Nat
  PROVE  \A d \in Sides :
            Credit(s, side, vol).exec[d] <= s.exec[d] + (IF d = side THEN vol ELSE 0)
<1> DEFINE room == Monus(ManagedTarget(s), Volume(s))
           counted == IF vol < room THEN vol ELSE room
<1>1. counted \in Nat /\ counted <= vol
  BY MonusNat, VolumesNat
<1>2. Credit(s, side, vol) = [s EXCEPT !.exec[side] = @ + counted]
  BY DEF Credit
<1> HIDE DEF room, counted
<1>3. s.exec \in [Sides -> Nat]
  BY DEF State
<1>4. Credit(s, side, vol).exec = [s.exec EXCEPT ![side] = @ + counted]
  BY <1>2 DEF State
<1> QED
  BY <1>1, <1>3, <1>4

\* The steps of alarm() that trade: a fill is traded before it is counted.
LEMMA TradingCovered ==
  ASSUME TypeInv, Covered, Unearned, AccountsReady \/ SliceFills \/ SliceFails
  PROVE  Covered' /\ Unearned'
<1>1. /\ st \in State /\ disk \in State /\ handler \in Handlers
      /\ chain \in [Sides -> Nat] /\ lost \in [Sides -> Nat]
      /\ Executing => handler.task \in Task
  BY DEF TypeInv, EngineOK, CountersOK
<1>2. \A d \in Sides : st.exec[d] \in Nat /\ disk.exec[d] \in Nat /\ chain[d] \in Nat
  BY <1>1 DEF State
<1>3. handler.ok \in Nat /\ (Executing => handler.task.side \in Sides)
  BY <1>1 DEF Handlers, Task
<1>4. CASE AccountsReady
  <2>1. /\ UNCHANGED <<st, disk, chain>> /\ handler'.ok = handler.ok
        /\ handler'.pc = "trade" /\ handler.pc = "allocate"
    BY <1>1, <1>4 DEF AccountsReady, Handlers
  <2>2. handler.ok = 0
    BY <2>1 DEF Unearned
  <2>3. \A d \in Sides : Earned(d)' = 0 /\ Earned(d) = 0
    BY <2>1, <2>2 DEF Earned
  <2> QED
    BY <2>1, <2>3 DEF Covered, Unearned
<1>5. CASE SliceFills
  <2> DEFINE side == handler.task.side
  <2>1. /\ UNCHANGED <<st, disk>> /\ handler'.ok = handler.ok + 1
        /\ handler'.pc = "trade" /\ handler.pc = "trade"
        /\ handler'.task = handler.task
        /\ chain' = [chain EXCEPT ![side] = @ + 1]
    BY <1>1, <1>5 DEF SliceFills, Swaps, Handlers
  <2>2. side \in Sides
    BY <1>3, <2>1 DEF Executing
  <2>3. \A d \in Sides : /\ Earned(d) = IF side = d THEN handler.ok ELSE 0
                         /\ Earned(d)' = IF side = d THEN handler.ok + 1 ELSE 0
    BY <2>1 DEF Earned
  <2> HIDE DEF side
  <2>4. ASSUME NEW d \in Sides
        PROVE  st.exec[d] + Earned(d)' <= chain'[d] /\ disk.exec[d] <= chain'[d]
    BY <1>1, <1>2, <1>3, <2>1, <2>2, <2>3 DEF Covered
  <2>5. Covered'
    BY <2>1, <2>4 DEF Covered
  <2> QED
    BY <2>1, <2>5 DEF Unearned
<1>6. CASE SliceFails
  <2> DEFINE side == handler.task.side
  <2>1. /\ UNCHANGED <<st, disk>> /\ handler'.ok = handler.ok
        /\ handler'.pc = "trade" /\ handler.pc = "trade"
        /\ handler'.task = handler.task
        /\ chain' = chain \/ chain' = [chain EXCEPT ![side] = @ + 1]
    BY <1>1, <1>6 DEF SliceFails, NotSized, NotOrdered, NotConfirmed, Swaps, Handlers
  <2>2. side \in Sides
    BY <1>3, <2>1 DEF Executing
  <2>3. \A d \in Sides : /\ Earned(d)' = Earned(d) /\ Earned(d) \in Nat
                         /\ chain'[d] \in Nat /\ chain[d] <= chain'[d]
    BY <1>1, <1>3, <2>1, <2>2 DEF Earned
  <2> HIDE DEF side
  <2>4. ASSUME NEW d \in Sides
        PROVE  st.exec[d] + Earned(d)' <= chain'[d] /\ disk.exec[d] <= chain'[d]
    BY <1>2, <2>3 DEF Covered
  <2>5. Covered'
    BY <2>1, <2>4 DEF Covered
  <2> QED
    BY <2>1, <2>5 DEF Unearned
<1> QED
  BY <1>4, <1>5, <1>6

\* The steps of alarm() that only plan, begin or end.
LEMMA HandlerCounts ==
  ASSUME TypeInv, Unearned, AlarmHandler, ~(AccountsReady \/ SliceFills \/ SliceFails)
  PROVE  /\ handler'.pc # "trade" \/ UNCHANGED <<st, handler>>
         /\ \A d \in Sides : st'.exec[d] <= st.exec[d] + Earned(d)
         /\ Unearned'
         /\ UNCHANGED chain
<1>1. /\ st \in State /\ handler \in Handlers
      /\ Executing => handler.task \in Task
  BY DEF TypeInv, EngineOK
<1>2. \A d \in Sides : st.exec[d] \in Nat /\ Earned(d) \in Nat
  BY <1>1 DEF State, Handlers, Earned
<1>3. ASSUME st'.exec = st.exec
      PROVE  \A d \in Sides : st'.exec[d] <= st.exec[d] + Earned(d)
  BY <1>2, <1>3
<1>4. CASE AlarmIgnored
  BY <1>3, <1>4 DEF AlarmIgnored, Unearned
<1>5. CASE AlarmRuns
  <2> DEFINE h == [Resting EXCEPT !.reviewed = st.cfg.reviewed]
  <2>1. h \in Handlers /\ h.ok = 0
    BY <1>1, RestingHandler DEF State, Config, Handlers, Resting
  <2>2. GoesOn(st, h) /\ UNCHANGED chain
    BY <1>5, StepsGoOn DEF AlarmRuns
  <2> HIDE DEF h
  <2> QED
    BY <1>1, <1>3, <2>1, <2>2, GoingOnCounts DEF Unearned
<1>6. CASE AlarmReplans
  <2> DEFINE s == [st EXCEPT !.replan = NoTx]
  <2>1. s \in State /\ s.exec = st.exec
    BY <1>1 DEF State
  <2>2. /\ UNCHANGED chain
        /\ \/ Complete(s)
           \/ /\ handler' = [Resting EXCEPT !.pc = "replan", !.rem = Remaining(st),
                                            !.reviewed = st.cfg.reviewed]
              /\ UNCHANGED st
    BY <1>6 DEF AlarmReplans
  <2> HIDE DEF s
  <2>3. Complete(s) => st'.exec = st.exec /\ handler'.pc = "idle"
    BY <2>1, QueueVolumes, EndsTyped DEF Complete, SaveWith, SameVolumes
  <2>4. handler' = [Resting EXCEPT !.pc = "replan", !.rem = Remaining(st),
                                   !.reviewed = st.cfg.reviewed]
          => handler'.pc = "replan" /\ handler'.ok = 0
    BY DEF Resting
  <2> QED
    BY <1>3, <2>2, <2>3, <2>4 DEF Unearned
<1>7. CASE ReplanReady
  <2>1. PICK s : Replanned(s, ReplanTasks(handler.rem, st.plans + 1)) /\ GoesOn(s, handler)
    BY <1>7, ReplanGoesOn
  <2>2. handler.ok = 0 /\ UNCHANGED chain
    BY <1>7 DEF ReplanReady, Unearned
  <2>3. s \in State /\ s.exec = st.exec
    BY <2>1 DEF Replanned
  <2> QED
    BY <1>1, <1>3, <2>1, <2>2, <2>3, GoingOnCounts DEF Unearned
<1>8. CASE BasePlanReady
  <2>1. PICK s : /\ Replanned(s, BaseTasks(st.plans + 1)) /\ GoesOn(s, handler)
                 /\ handler.pc = "plan_after" => Ends
    BY <1>8, BasePlanGoesOn
  <2>2. handler.ok = 0 \/ Ends
    BY <1>8, <2>1 DEF BasePlanReady, Unearned
  <2>3. s \in State /\ s.exec = st.exec
    BY <2>1 DEF Replanned
  <2>4. UNCHANGED chain
    BY <1>8 DEF BasePlanReady
  <2> QED
    BY <1>1, <1>3, <2>1, <2>2, <2>3, <2>4, GoingOnCounts, EndsTyped DEF Unearned
<1>9. CASE PlanFails
  BY <1>3, <1>9, EndsTyped DEF PlanFails, Unearned
<1>10. CASE NoAccounts
  <2>1. st'.exec = st.exec /\ Ends /\ UNCHANGED chain
    BY <1>1, <1>10 DEF NoAccounts, SaveWith, State
  <2> QED
    BY <1>3, <2>1, EndsTyped DEF Unearned
<1>11. CASE ExecutionThrows
  <2>1. handler.task \in Task /\ UNCHANGED chain
    BY <1>1, <1>11 DEF ExecutionThrows, KeyUnreadable, Executing
  <2>2. Fails(st, handler.task)
    BY <1>11, FailuresEnd DEF ExecutionThrows
  <2> QED
    BY <1>1, <1>3, <2>1, <2>2, FailingCounts DEF Unearned
<1>12. CASE ExecutionEnds
  <2> DEFINE t == handler.task
             credited == Credit(st, t.side, handler.ok)
             rest == [t EXCEPT !.amt = RetryVolume(t)]
  <2>1. /\ t \in Task /\ credited \in State
        /\ credited.pending = st.pending
        /\ \/ Fails(st, t)
           \/ Concludes(MarkDone(credited, t.id), handler)
           \/ rest \in Task /\ Fails(credited, rest)
           \/ /\ rest \in Task
              /\ \E pos \in 1 .. Len(st.pending) + 1 :
                    Concludes(Fail(credited, rest, pos), handler)
    BY <1>12, ExecutionGoesOn
  <2>2. handler'.pc \in {"idle", "plan_after"} /\ UNCHANGED chain
    <3>1. Ends => handler'.pc = "idle"
      BY EndsTyped
    <3>2. ASSUME NEW s, Conclude(s) PROVE handler'.pc \in {"idle", "plan_after"}
      BY <1>1, <3>1, <3>2 DEF Conclude, Complete, Handlers
    <3>3. \A s, u, b : FailAndEnd(s, u, b) => Ends
      BY DEF FailAndEnd
    <3> QED
      BY <1>12, <3>1, <3>2, <3>3 DEF ExecutionEnds
  <2>3. \A d \in Sides : credited.exec[d] <= st.exec[d] + Earned(d)
    BY <1>1, <1>12, <2>1, CreditExec DEF ExecutionEnds, Earned, Handlers, Task
  <2> HIDE DEF t, credited, rest
  <2>4. st'.exec \in {st.exec, credited.exec}
    <3>1. Fails(st, t) => st'.exec = st.exec
      BY <1>1, <2>1, FailingCounts
    <3>2. rest \in Task /\ Fails(credited, rest) => st'.exec = credited.exec
      BY <2>1, FailingCounts
    <3>3. ASSUME Concludes(MarkDone(credited, t.id), handler) PROVE st'.exec = credited.exec
      <4>1. MarkDone(credited, t.id) \in State
        BY <2>1, MarkDoneState DEF Task
      <4>2. MarkDone(credited, t.id).exec = credited.exec
        BY <2>1, QueueVolumes DEF Task, SameVolumes
      <4> QED
        BY <1>1, <3>3, <4>1, <4>2, GoingOnCounts
    <3>4. ASSUME rest \in Task, NEW pos \in 1 .. Len(st.pending) + 1,
                 Concludes(Fail(credited, rest, pos), handler)
          PROVE  st'.exec = credited.exec
      <4>1. Fail(credited, rest, pos) \in State
        BY <2>1, <3>4, FailState
      <4>2. Fail(credited, rest, pos).exec = credited.exec
        BY <2>1, <3>4, QueueVolumes DEF SameVolumes
      <4> QED
        BY <1>1, <3>4, <4>1, <4>2, GoingOnCounts
    <3> QED
      BY <2>1, <3>1, <3>2, <3>3, <3>4
  <2> QED
    BY <1>3, <2>2, <2>3, <2>4 DEF Unearned
<1> QED
  BY <1>4, <1>5, <1>6, <1>7, <1>8, <1>9, <1>10, <1>11, <1>12 DEF AlarmHandler
\* One step counts only what was traded.
LEMMA CreditStep ==
  ASSUME StartsAlone, CreditInv, [Next]_vars
  PROVE  CreditInv'
<1>1. RunsInv'
  BY RunsStep DEF CreditInv
<1>2. /\ TypeInv /\ st \in State /\ disk \in State /\ handler \in Handlers
      /\ st' \in State /\ disk' \in State
      /\ chain \in [Sides -> Nat] /\ Undisturbed /\ Covered /\ Unearned
  BY <1>1 DEF CreditInv, RunsInv, TypeInv, EngineOK, CountersOK
<1>3. \A d \in Sides : /\ st.exec[d] \in Nat /\ disk.exec[d] \in Nat /\ chain[d] \in Nat
                       /\ st'.exec[d] \in Nat /\ disk'.exec[d] \in Nat
                       /\ Earned(d) \in Nat
  BY <1>2 DEF State, Handlers, Earned
<1> SUFFICES Covered' /\ Unearned'
  BY <1>1 DEF CreditInv
<1>4. ASSUME \/ handler'.pc = handler.pc /\ handler'.task = handler.task
                /\ handler'.ok = handler.ok
             \/ handler'.pc = "idle",
             UNCHANGED chain,
             \A d \in Sides : st'.exec[d] <= st.exec[d] \/ st'.exec[d] <= disk.exec[d],
             handler'.pc = "idle" \/ (\A d \in Sides : st'.exec[d] <= st.exec[d]),
             disk'.exec \in {disk.exec, st'.exec}
      PROVE  Covered' /\ Unearned'
  <2>1. \A d \in Sides :
           Earned(d)' = IF handler'.pc = "idle" THEN 0 ELSE Earned(d)
    BY <1>4 DEF Earned
  <2>2. ASSUME NEW d \in Sides
        PROVE  st'.exec[d] + Earned(d)' <= chain'[d] /\ disk'.exec[d] <= chain'[d]
    <3>1. st.exec[d] + Earned(d) <= chain[d] /\ disk.exec[d] <= chain[d] /\ chain'[d] = chain[d]
      BY <1>2, <1>4 DEF Covered
    <3>2. st'.exec[d] + Earned(d)' <= chain'[d]
      BY <1>3, <1>4, <2>1, <3>1
    <3>3. Earned(d)' \in Nat
      BY <1>3, <2>1
    <3>4. disk'.exec[d] \in {disk.exec[d], st'.exec[d]}
      BY <1>4
    <3> QED
      BY <1>3, <3>1, <3>2, <3>3, <3>4
  <2>3. Unearned'
    BY <1>2, <1>4 DEF Unearned
  <2> QED
    BY <2>2, <2>3 DEF Covered
<1>5. ASSUME NEW r \in Runs, Start(r) PROVE Covered' /\ Unearned'
  <2>1. handler.pc = "idle" /\ UNCHANGED handler
    BY <1>2, <1>5 DEF Start, Undisturbed
  <2>2. /\ \A d \in Sides : st'.exec[d] = 0 /\ chain'[d] = 0
        /\ disk' = st'
    BY <1>5 DEF Start, SaveWith, Started, EnqueueAll, Idle
  <2> QED
    BY <2>1, <2>2 DEF Covered, Unearned, Earned
<1>6. CASE Abort \/ Pause
  <2>1. st'.exec = st.exec /\ disk' = st' /\ UNCHANGED <<handler, chain>>
    BY <1>2, <1>6 DEF Abort, Pause, SaveWith, State
  <2> QED
    BY <1>3, <1>4, <2>1
<1>7. CASE Resume
  <2>1. st'.exec = st.exec /\ disk' = st' /\ UNCHANGED <<handler, chain>>
    BY <1>2, <1>7, RequestVolumes DEF Resume, Save, SaveWith
  <2> QED
    BY <1>3, <1>4, <2>1
<1>8. CASE Clear
  <2>1. \A d \in Sides : st'.exec[d] = 0
    BY <1>8 DEF Clear, SaveWith, Idle
  <2>2. disk' = st' /\ UNCHANGED chain
    BY <1>8 DEF Clear, SaveWith
  <2>3. /\ handler'.pc = handler.pc /\ handler'.task = handler.task
        /\ handler'.ok = handler.ok
    BY <1>2, <1>8 DEF Clear, Handlers
  <2> QED
    BY <1>3, <1>4, <2>1, <2>2, <2>3
<1>9. ASSUME NEW x \in Txs, WebhookArrives(x) PROVE Covered' /\ Unearned'
  <2> DEFINE s == Configured(st, WebhookConfig)
             seen == Remember(s, x)
  <2>1. s \in State /\ s.exec = st.exec
    BY <1>2, ConfiguredState, RequestVolumes, WebhookConfigConfig
  <2>2. st' \in {s, seen} /\ disk' \in {s, seen} /\ UNCHANGED <<handler, chain>>
    BY <1>9 DEF WebhookArrives, Save, SaveWith
  <2> HIDE DEF s
  <2>3. seen.exec = s.exec
    BY <2>1, RequestVolumes
  <2> HIDE DEF seen
  <2> QED
    BY <1>3, <1>4, <2>1, <2>2, <2>3
<1>10. ASSUME NEW x \in Txs, WebhookApplies(x) PROVE Covered' /\ Unearned'
  <2> DEFINE s == Observed(st, x)
             u == Supersede(s)
  <2>1. s \in State /\ s.exec = st.exec
    BY <1>2, ObservedState, RequestVolumes
  <2>2. /\ UNCHANGED <<handler, chain>> /\ disk' = st'
        /\ \/ st' = [s EXCEPT !.status = "paused", !.pending = <<>>]
           \/ st' = [u EXCEPT !.replan = x]
           \/ st' = s
    BY <1>10 DEF WebhookApplies, Save, SaveWith
  <2> HIDE DEF s
  <2>3. u \in State /\ u.exec = s.exec
    BY <2>1, SupersedeState, QueueVolumes DEF SameVolumes
  <2> HIDE DEF u
  <2>4. st'.exec = st.exec
    BY <2>1, <2>2, <2>3 DEF State
  <2> QED
    BY <1>3, <1>4, <2>2, <2>4
<1>11. CASE AccountsReady \/ SliceFills \/ SliceFails
  BY <1>2, <1>11, TradingCovered
<1>12. CASE AlarmHandler /\ ~(AccountsReady \/ SliceFills \/ SliceFails)
  <2>1. /\ handler'.pc # "trade" \/ UNCHANGED <<st, handler>>
        /\ \A d \in Sides : st'.exec[d] <= st.exec[d] + Earned(d)
        /\ Unearned'
        /\ UNCHANGED chain
    BY <1>2, <1>12, HandlerCounts
  <2>2. disk' \in {disk, st'}
    BY <1>2, <1>12, HandlerSteady DEF Steady
  <2>3. ASSUME NEW d \in Sides
        PROVE  st'.exec[d] + Earned(d)' <= chain'[d] /\ disk'.exec[d] <= chain'[d]
    <3>1. CASE handler'.pc # "trade"
      <4>1. Earned(d)' = 0
        BY <3>1 DEF Earned
      <4> QED
        BY <1>2, <1>3, <2>1, <2>2, <4>1 DEF Covered
    <3>2. CASE UNCHANGED <<st, handler>>
      <4>1. Earned(d)' = Earned(d)
        BY <3>2 DEF Earned
      <4> QED
        BY <1>2, <1>3, <2>1, <2>2, <3>2, <4>1 DEF Covered
    <3> QED
      BY <2>1, <3>1, <3>2
  <2> QED
    BY <2>1, <2>3 DEF Covered
<1>13. CASE Crash
  <2>1. /\ st' = disk /\ UNCHANGED <<disk, chain>> /\ handler'.pc = "idle"
    BY <1>13, RestingHandler DEF Crash
  <2> QED
    BY <1>3, <1>4, <2>1
<1>14. CASE UNCHANGED vars
  BY <1>2, <1>14 DEF vars, Covered, Unearned, Earned
<1> QED
  BY <1>5, <1>6, <1>7, <1>8, <1>9, <1>10, <1>11, <1>12, <1>13, <1>14 DEF Next

\* In a run that begins with alarm() at rest, the metrics never count a volume
\* that was not traded, in memory or in storage: not for a task tried again,
\* nor for one that fails or crashes between its fills and its end.
THEOREM CountsOnlyTrades ==
  ASSUME StartsAlone
  PROVE  Spec => []CreditedWasTraded
<1>1. Init => CreditInv
  <2>1. Init => Covered /\ Unearned
    BY RestingHandler DEF Init, Idle, Covered, Unearned, Earned
  <2> QED
    BY <2>1, RunsInit DEF CreditInv
<1>2. CreditInv /\ [Next]_vars => CreditInv'
  BY CreditStep
<1>3. CreditInv => CreditedWasTraded
  <2> SUFFICES ASSUME CreditInv, NEW d \in Sides
               PROVE  st.exec[d] <= chain[d] /\ disk.exec[d] <= chain[d]
    BY DEF CreditedWasTraded
  <2>1. /\ st \in State /\ handler \in Handlers /\ chain \in [Sides -> Nat]
        /\ Covered
    BY DEF CreditInv, RunsInv, TypeInv, EngineOK, CountersOK
  <2>2. st.exec[d] \in Nat /\ chain[d] \in Nat /\ Earned(d) \in Nat
    BY <2>1 DEF State, Handlers, Earned
  <2> QED
    BY <2>1, <2>2 DEF Covered
<1> QED
  BY <1>1, <1>2, <1>3, PTL DEF Spec
-----------------------------------------------------------------------------
(* An event counts once.                                                    *)

(* Of one run, which /clear does not wipe, with no more transactions than   *)
(* dedupedTxHashes holds.  A run that /clear wiped while a pause_strategy   *)
(* event was kept, and a webhook that awaits D1 while the next run starts,  *)
(* each let a redelivered transaction be counted again.                     *)

OneRun == (\A r, q \in Runs : r = q) /\ "clear" \notin UserOps
AllRemembered == IsFiniteSet(Txs) /\ Cardinality(Txs) <= MaxDeduped

\* The hashes remembered are different ones, what is counted is among them, and
\* a state the webhook would wipe has counted nothing.
Fresh(s) == ~s.cfg.set \/ s.cfg.run # NoRun
Known(s) ==
    /\ IsInjective(s.dedup)
    /\ \A x \in Txs : s.obs[x] <= 1
    /\ \A x \in Txs : s.obs[x] > 0 => x \in Range(s.dedup)
    /\ Fresh(s) => \A x \in Txs : s.obs[x] = 0

\* A webhook awaiting D1 is remembered, not counted yet, and will not be wiped.
Awaited(s) ==
    \A x \in Txs : inflight[x] > 0 =>
        x \in Range(s.dedup) /\ ~Fresh(s) /\ s.obs[x] = 0 /\ inflight[x] = 1

EventInv == TypeInv /\ Quiet /\ Known(st) /\ Known(disk) /\ Awaited(st)

\* A hash that is new is remembered and none is forgotten.
LEMMA RememberKeeps ==
  ASSUME AllRemembered, NEW s \in State, NEW x \in Txs,
         IsInjective(s.dedup), x \notin Range(s.dedup)
  PROVE  /\ IsInjective(Remember(s, x).dedup)
         /\ Range(Remember(s, x).dedup) = Range(s.dedup) \cup {x}
         /\ Remember(s, x).obs = s.obs /\ Remember(s, x).cfg = s.cfg
<1> DEFINE old == s.dedup
           all == Append(old, x)
           n == Len(old)
<1>1. old \in Seq(Txs)
  BY DEF State
<1>2. /\ all \in Seq(Txs) /\ n \in Nat /\ Len(all) = n + 1
      /\ DOMAIN old = 1 .. n /\ DOMAIN all = 1 .. n + 1
      /\ \A k \in 1 .. n : all[k] = old[k]
      /\ all[n + 1] = x
      /\ all \in [1 .. n + 1 -> Txs]
  <2>1. n \in Nat /\ DOMAIN old = 1 .. n
    BY <1>1
  <2> HIDE DEF old
  <2>2. all \in Seq(Txs) /\ Len(all) = n + 1 /\ all[n + 1] = x
    BY <1>1, AppendProperties
  <2>3. \A k \in 1 .. n : all[k] = old[k]
    BY <1>1, AppendProperties
  <2> HIDE DEF all, n
  <2>4. DOMAIN all = 1 .. n + 1 /\ all \in [1 .. n + 1 -> Txs]
    BY <2>2
  <2> QED
    BY <2>1, <2>2, <2>3, <2>4
<1> HIDE DEF old, all, n
<1>3. IsInjective(old) /\ x \notin Range(old)
  BY DEF old
<1>4. IsInjective(all)
  <2> SUFFICES ASSUME NEW j \in 1 .. n + 1, NEW k \in 1 .. n + 1, all[j] = all[k]
               PROVE  j = k
    BY <1>2 DEF IsInjective
  <2>1. CASE j \in 1 .. n /\ k \in 1 .. n
    BY <1>2, <1>3, <2>1 DEF IsInjective
  <2>2. ASSUME NEW m \in 1 .. n PROVE all[m] # x
    BY <1>2, <1>3 DEF Range
  <2>3. (j \in 1 .. n \/ j = n + 1) /\ (k \in 1 .. n \/ k = n + 1)
    BY <1>2
  <2> QED
    BY <1>2, <2>1, <2>2, <2>3
<1>5. Range(all) = Range(old) \cup {x}
  <2>1. \A k \in 1 .. n + 1 : k \in 1 .. n \/ k = n + 1
    BY <1>2
  <2>2. \A k \in 1 .. n : k \in 1 .. n + 1
    BY <1>2
  <2>3. n + 1 \in 1 .. n + 1
    BY <1>2
  <2> QED
    BY <1>2, <2>1, <2>2, <2>3 DEF Range
<1>6. Len(all) <= MaxDeduped
  <2> SUFFICES ASSUME ~(Len(all) <= MaxDeduped) PROVE FALSE
    OBVIOUS
  <2>1. IsFiniteSet(1 .. n + 1) /\ Cardinality(1 .. n + 1) = n + 1
    BY <1>2, FS_Interval
  <2>2. IsFiniteSet(Txs) /\ Cardinality(Txs) \in Nat /\ Cardinality(Txs) <= MaxDeduped
    BY FS_CardinalityType DEF AllRemembered
  <2>3. Cardinality(Txs) < Cardinality(1 .. n + 1)
    BY <1>2, <2>1, <2>2, BoundsAssumption
  <2>4. \E j, k \in 1 .. n + 1 : j # k /\ all[j] = all[k]
    BY <1>2, <2>1, <2>2, <2>3, FS_PigeonHole
  <2> QED
    BY <1>2, <1>4, <2>4 DEF IsInjective
<1>7. Remember(s, x) = [s EXCEPT !.dedup = SubSeq(all, 1 + Monus(Len(all), MaxDeduped), Len(all))]
  BY DEF Remember, all, old
<1>8. Monus(Len(all), MaxDeduped) = 0
  BY <1>2, <1>6, BoundsAssumption DEF Monus
<1>9. SubSeq(all, 1, Len(all)) = all
  BY <1>2
<1>10. SubSeq(all, 1 + Monus(Len(all), MaxDeduped), Len(all)) = all
  BY <1>8, <1>9
<1>11. Remember(s, x) = [s EXCEPT !.dedup = all]
  BY <1>7, <1>10
<1>12. Remember(s, x).dedup = all /\ Remember(s, x).obs = s.obs /\ Remember(s, x).cfg = s.cfg
  BY <1>11 DEF State
<1> QED
  BY <1>4, <1>5, <1>12 DEF old

\* What keeps the run and its events keeps what is known of them.
LEMMA SameRunKnown ==
  ASSUME NEW s, NEW t, SameRun(s, t)
  PROVE  (Known(t) => Known(s)) /\ (Awaited(t) => Awaited(s)) /\ (Fresh(s) <=> Fresh(t))
  BY DEF SameRun, Known, Awaited, Fresh

\* configure() keeps it too: what it wipes had counted nothing.
LEMMA ConfiguredKnown ==
  ASSUME NEW s \in State, Known(s), Awaited(s)
  PROVE  /\ Known(Configured(s, WebhookConfig))
         /\ Awaited(Configured(s, WebhookConfig))
         /\ ~Fresh(Configured(s, WebhookConfig))
<1> DEFINE c == Configured(s, WebhookConfig)
<1>1. c \in State /\ c.cfg = WebhookConfig
  BY ConfiguredState, WebhookConfigConfig
<1>2. ~Fresh(c)
  BY <1>1 DEF Fresh, WebhookConfig
<1>3. Fresh(s) <=> ~s.cfg.set \/ s.cfg.run # WebhookConfig.run
  BY DEF Fresh, WebhookConfig
<1>4. CASE Fresh(s) /\ s.status # "running"
  <2>1. c.obs = Idle.obs /\ c.dedup = <<>>
    BY <1>3, <1>4 DEF Configured, State
  <2>2. \A x \in Txs : c.obs[x] = 0
    BY <2>1 DEF Idle
  <2>3. \A x \in Txs : ~(inflight[x] > 0)
    BY <1>4 DEF Awaited
  <2>4. IsInjective(c.dedup)
    BY <2>1 DEF IsInjective
  <2> HIDE DEF c
  <2> QED
    BY <1>2, <2>2, <2>3, <2>4 DEF Known, Awaited, c
<1>5. CASE ~(Fresh(s) /\ s.status # "running")
  <2>1. c.obs = s.obs /\ c.dedup = s.dedup
    BY <1>3, <1>5 DEF Configured, State
  <2> HIDE DEF c
  <2> QED
    BY <1>2, <2>1 DEF Known, Awaited, c
<1> QED
  BY <1>4, <1>5
\* One step counts no event twice.
LEMMA EventStep ==
  ASSUME OneRun, AllRemembered, EventInv, [Next]_vars
  PROVE  EventInv'
<1>1. TypeInv' /\ Quiet'
  BY TypeStep, QuietStep DEF EventInv
<1>2. /\ TypeInv /\ Quiet /\ Known(st) /\ Known(disk) /\ Awaited(st)
      /\ st \in State /\ disk \in State /\ inflight \in [Txs -> Nat]
      /\ used.runs \subseteq Runs
  BY DEF EventInv, TypeInv, EngineOK, CountersOK
<1> SUFFICES Known(st') /\ Known(disk') /\ Awaited(st)'
  BY <1>1 DEF EventInv
<1>3. ASSUME SameRun(st', st), disk' \in {disk, st'}, UNCHANGED inflight
      PROVE  Known(st') /\ Known(disk') /\ Awaited(st)'
  <2>1. Known(st') /\ Awaited(st')
    BY <1>2, <1>3, SameRunKnown
  <2>2. Awaited(st)'
    BY <1>3, <2>1 DEF Awaited, Fresh
  <2> QED
    BY <1>2, <1>3, <2>1, <2>2
<1>4. ASSUME NEW r \in Runs, Start(r) PROVE Known(st') /\ Known(disk') /\ Awaited(st)'
  <2>1. used.runs = {}
    BY <1>2, <1>4 DEF Start, OneRun
  <2>2. UNCHANGED inflight /\ \A x \in Txs : inflight[x] = 0
    BY <1>2, <1>4, <2>1 DEF Start, Quiet
  <2>3. disk' = st' /\ st'.dedup = <<>> /\ \A x \in Txs : st'.obs[x] = 0
    BY <1>4 DEF Start, SaveWith, Started, EnqueueAll, Idle
  <2>4. IsInjective(st'.dedup)
    BY <2>3 DEF IsInjective
  <2> QED
    BY <2>2, <2>3, <2>4 DEF Known, Awaited
<1>5. CASE Abort \/ Pause
  <2>1. SameRun(st', st) /\ disk' = st' /\ UNCHANGED inflight
    BY <1>2, <1>5 DEF Abort, Pause, SaveWith, State, SameRun
  <2> QED
    BY <1>3, <2>1
<1>6. CASE Resume
  <2>1. \A pos \in 1 .. Len(st.pending) + 1 : SameRun(Resumed(st, pos), st)
    BY <1>2 DEF Resumed, Enqueue, State, SameRun
  <2> QED
    BY <1>3, <1>6, <2>1 DEF Resume, Save, SaveWith
<1>7. ~Clear
  BY DEF Clear, UseOp, OneRun
<1>8. ASSUME NEW x \in Txs, WebhookArrives(x)
      PROVE  Known(st') /\ Known(disk') /\ Awaited(st)'
  <2> DEFINE s == Configured(st, WebhookConfig)
             seen == Remember(s, x)
  <2>1. s \in State /\ Known(s) /\ Awaited(s) /\ ~Fresh(s)
    BY <1>2, ConfiguredState, WebhookConfigConfig, ConfiguredKnown
  <2>2. \/ st' = s /\ disk' = s /\ UNCHANGED inflight
        \/ /\ x \notin Range(s.dedup) /\ st' = seen
           /\ disk' = seen \/ disk' = s
           /\ UNCHANGED inflight \/ inflight' = [inflight EXCEPT ![x] = @ + 1]
    BY <1>8 DEF WebhookArrives, Save, SaveWith
  <2> HIDE DEF s
  <2>3. CASE st' = s /\ disk' = s /\ UNCHANGED inflight
    BY <2>1, <2>3 DEF Awaited, Fresh
  <2>4. CASE /\ x \notin Range(s.dedup) /\ st' = seen
             /\ disk' = seen \/ disk' = s
             /\ UNCHANGED inflight \/ inflight' = [inflight EXCEPT ![x] = @ + 1]
    <3>1. /\ IsInjective(seen.dedup) /\ Range(seen.dedup) = Range(s.dedup) \cup {x}
          /\ seen.obs = s.obs /\ seen.cfg = s.cfg
      BY <2>1, <2>4, RememberKeeps DEF Known
    <3> HIDE DEF seen
    <3>2. Known(seen)
      BY <2>1, <3>1 DEF Known, Fresh
    <3>3. s.obs[x] = 0 /\ inflight[x] = 0
      <4>1. s.obs[x] \in Nat /\ inflight[x] \in Nat
        BY <1>2, <2>1 DEF State
      <4>2. ~(s.obs[x] > 0) /\ ~(inflight[x] > 0)
        BY <2>1, <2>4 DEF Known, Awaited
      <4> QED
        BY <4>1, <4>2
    <3>4. ASSUME NEW y \in Txs, inflight'[y] > 0
          PROVE  /\ y \in Range(seen.dedup) /\ ~Fresh(seen)
                 /\ seen.obs[y] = 0 /\ inflight'[y] = 1
      <4>1. CASE y = x
        BY <1>2, <2>1, <2>4, <3>1, <3>3, <3>4, <4>1 DEF Fresh
      <4>2. CASE y # x
        <5>1. inflight'[y] = inflight[y]
          BY <1>2, <2>4, <4>2
        <5> QED
          BY <2>1, <3>1, <3>4, <5>1 DEF Awaited, Fresh
      <4> QED
        BY <4>1, <4>2
    <3>5. Awaited(st)'
      BY <2>4, <3>4 DEF Awaited, Fresh
    <3> QED
      BY <2>1, <2>4, <3>2, <3>5
  <2> QED
    BY <2>2, <2>3, <2>4
<1>9. ASSUME NEW x \in Txs, WebhookApplies(x)
      PROVE  Known(st') /\ Known(disk') /\ Awaited(st)'
  <2> DEFINE s == Observed(st, x)
             u == Supersede(s)
  <2>1. /\ inflight[x] > 0 /\ inflight' = [inflight EXCEPT ![x] = @ - 1]
        /\ disk' = st'
        /\ \/ st' = [s EXCEPT !.status = "paused", !.pending = <<>>]
           \/ st' = [u EXCEPT !.replan = x]
           \/ st' = s
    BY <1>9 DEF WebhookApplies, Save, SaveWith
  <2>2. /\ x \in Range(st.dedup) /\ ~Fresh(st) /\ st.obs[x] = 0 /\ inflight[x] = 1
    BY <1>2, <2>1 DEF Awaited
  <2>3. /\ s \in State /\ s.cfg = st.cfg /\ s.dedup = st.dedup
        /\ s.obs = [st.obs EXCEPT ![x] = st.obs[x] + 1]
    <3> DEFINE o == [st.obs EXCEPT ![x] = st.obs[x] + 1]
               r == IF EventKind[x] = "reduce_target" THEN st.red + EventVolume[x] ELSE st.red
               p == [d \in Sides |-> st.resp[d] + Response(x, d)]
    <3>1. s = [[[st EXCEPT !.obs = o] EXCEPT !.red = r] EXCEPT !.resp = p]
      BY DEF Observed
    <3>2. s \in State
      BY <1>2, ObservedState
    <3> HIDE DEF s, o, r, p
    <3>3. s.cfg = st.cfg /\ s.dedup = st.dedup /\ s.obs = o
      BY <1>2, <3>1 DEF State
    <3> QED
      BY <3>2, <3>3 DEF o
  <2> HIDE DEF s
  <2>4. u \in State /\ SameRun(u, s)
    BY <2>3, SupersedeState, QueueSameRun
  <2> HIDE DEF u
  <2>5. SameRun(st', s)
    BY <2>1, <2>3, <2>4 DEF SameRun, State
  <2>6. \A y \in Txs : s.obs[y] = IF y = x THEN 1 ELSE st.obs[y]
    <3>1. st.obs \in [Txs -> Nat]
      BY <1>2 DEF State
    <3> QED
      BY <2>2, <2>3, <3>1
  <2>7. Known(s)
    BY <1>2, <2>2, <2>3, <2>6 DEF Known, Fresh
  <2>8. \A y \in Txs : inflight'[y] = IF y = x THEN 0 ELSE inflight[y]
    BY <1>2, <2>1, <2>2
  <2>9. ASSUME NEW y \in Txs, inflight'[y] > 0
        PROVE  /\ y \in Range(st'.dedup) /\ ~Fresh(st')
               /\ st'.obs[y] = 0 /\ inflight'[y] = 1
    <3>1. y # x /\ inflight'[y] = inflight[y]
      BY <2>8, <2>9
    <3>2. /\ y \in Range(st.dedup) /\ ~Fresh(st) /\ st.obs[y] = 0 /\ inflight[y] = 1
      BY <1>2, <2>9, <3>1 DEF Awaited
    <3> QED
      BY <2>3, <2>5, <2>6, <3>1, <3>2 DEF SameRun, Fresh
  <2>10. Awaited(st)'
    BY <2>9 DEF Awaited, Fresh
  <2> QED
    BY <2>1, <2>5, <2>7, <2>10, SameRunKnown
<1>10. CASE AlarmHandler
  BY <1>2, <1>3, <1>10, HandlerSteady DEF Steady
<1>11. CASE Crash
  <2>1. st' = disk /\ disk' = disk /\ \A x \in Txs : inflight'[x] = 0
    BY <1>11 DEF Crash
  <2> QED
    BY <1>2, <2>1 DEF Awaited
<1>12. CASE UNCHANGED vars
  BY <1>2, <1>3, <1>12 DEF vars, SameRun
<1> QED
  BY <1>4, <1>5, <1>6, <1>7, <1>8, <1>9, <1>10, <1>11, <1>12 DEF Next

\* In one run that is not cleared, with no more transactions than
\* dedupedTxHashes holds, a transaction's response counts at most once,
\* in memory and in storage, however often its webhook is delivered: also
\* when the second delivery overtakes the first one's await of D1 or follows a
\* crash that lost the first.
THEOREM EventsCountOnce ==
  ASSUME OneRun, AllRemembered
  PROVE  Spec => []EventCountsOnce
<1>1. Init => EventInv
  <2> SUFFICES ASSUME Init PROVE EventInv
    OBVIOUS
  <2>1. TypeInv /\ Quiet
    BY RunsInit DEF RunsInv
  <2>2. Idle.dedup = <<>> /\ \A x \in Txs : Idle.obs[x] = 0
    BY DEF Idle
  <2>3. Known(Idle)
    BY <2>2 DEF Known, IsInjective
  <2> QED
    BY <2>1, <2>3 DEF Init, EventInv, Awaited
<1>2. EventInv /\ [Next]_vars => EventInv'
  BY EventStep
<1>3. EventInv => EventCountsOnce
  BY DEF EventInv, Known, EventCountsOnce
<1> QED
  BY <1>1, <1>2, <1>3, PTL DEF Spec
-----------------------------------------------------------------------------
(* What a run may still trade.                                              *)

(* A ledger of one side: b[k] is what the first k reviewed tasks may still  *)
(* trade there.  A task it allows is a reviewed one, for no more than its   *)
(* own part of it.                                                          *)

Ledgers ==
    {b \in [0 .. Len(BasePlan) -> Nat] :
        \A j, k \in 0 .. Len(BasePlan) : j <= k => b[j] <= b[k]}
Allows(b, t) == \E k \in Slots : t.id = <<0, k>> /\ b[k - 1] + t.amt <= b[k]
Allowed(b, d) == {t \in Task : t.side = d => Allows(b, t)}

\* The ledger is kept: what is counted and what it allows come to no more than
\* the plan, and it allows every task that is queued or held, and the one in hand.
Keeps(b, d, s) ==
    /\ s.exec[d] + b[Len(BasePlan)] <= BaseVolume(d)
    /\ s.pending \in Seq(Allowed(b, d))
    /\ s.paused \in Allowed(b, d) \cup {NoTask}
Budgeted(s, hand) ==
    \A d \in Sides : \E b \in Ledgers : Keeps(b, d, s) /\ hand \subseteq Allowed(b, d)

\* The ledger of a new run allows each task of the plan, and the plan's volume.
LEMMA FirstLedger ==
  ASSUME NEW d \in Sides
  PROVE  \E b \in Ledgers :
            /\ b[Len(BasePlan)] = BaseVolume(d)
            /\ \A k \in Slots : BaseTask(k, 0) \in Task => BaseTask(k, 0) \in Allowed(b, d)
<1>1. PICK h : AddsUp(h, d, Slots)
  BY SharesAddUp
<1> DEFINE n == Len(BasePlan)
           b == [k \in 0 .. n |-> h[1 .. k]]
<1>2. /\ n \in Nat /\ \A k \in Slots : Share(k, d) \in Nat
      /\ \A k \in Slots : BasePlan[k] \in [side : Sides, amt : Nat \ {0}]
  BY ShareNat
<1>3. b \in [0 .. n -> Nat]
  <2>1. \A k \in 0 .. n : 1 .. k \in SUBSET Slots
    BY <1>2 DEF Slots
  <2> QED
    BY <1>1, <2>1 DEF AddsUp
<1>4. ASSUME NEW k \in Slots
      PROVE  k - 1 \in 0 .. n /\ k \in 0 .. n /\ b[k] = b[k - 1] + Share(k, d)
  <2>1. k \in 0 .. n /\ k - 1 \in 0 .. n
    BY <1>2 DEF Slots
  <2>2. k \in 1 .. k /\ (1 .. k) \ {k} = 1 .. k - 1 /\ 1 .. k \in SUBSET Slots
    BY <1>2, <2>1 DEF Slots
  <2>3. h[1 .. k] = h[(1 .. k) \ {k}] + Share(k, d)
    BY <1>1, <2>2 DEF AddsUp
  <2>4. b[k] = h[1 .. k] /\ b[k - 1] = h[1 .. k - 1]
    BY <2>1
  <2> HIDE DEF b
  <2> QED
    BY <2>1, <2>2, <2>3, <2>4
<1>5. b[n] = BaseVolume(d)
  BY <1>1, <1>2, BaseVolumeAddsUp DEF Slots
<1> HIDE DEF b
<1>6. ASSUME NEW j \in 0 .. n, NEW k \in 0 .. n, j <= k PROVE b[j] <= b[k]
  <2> DEFINE R == {p \in Nat \X Nat : p[1] < p[2]}
             C == {m \in 0 .. n : j <= m /\ b[m] < b[j]}
  <2>1. SUFFICES C = {}
    BY <1>3, <1>6
  <2>2. SUFFICES ASSUME C # {} PROVE FALSE
    OBVIOUS
  <2>3. PICK m \in C : \A l \in C : ~(<<l, m>> \in R)
    <3>1. IsWellFoundedOn(R, Nat)
      BY NatLessThanWellFounded DEF OpToRel
    <3>2. C \subseteq Nat
      OBVIOUS
    <3> HIDE DEF R, C
    <3> QED
      BY <2>2, <3>1, <3>2, WFMin
  <2>4. m \in 0 .. n /\ j <= m /\ b[m] < b[j] /\ m # j
    BY <1>3
  <2>5. m \in Slots /\ m - 1 \in 0 .. n /\ j <= m - 1 /\ m - 1 < m
    BY <1>2, <2>4 DEF Slots
  <2>6. b[m] = b[m - 1] + Share(m, d) /\ b[m - 1] \in Nat /\ b[j] \in Nat
    BY <1>3, <1>4, <2>5
  <2>7. b[m - 1] < b[j]
    BY <1>2, <1>3, <2>4, <2>5, <2>6
  <2>8. m - 1 \in C
    BY <2>5, <2>7
  <2>9. m - 1 \in Nat /\ m \in Nat
    BY <1>2, <2>5 DEF Slots
  <2>10. <<m - 1, m>> \in R
    BY <2>5, <2>9
  <2> HIDE DEF R, C
  <2> QED
    BY <2>3, <2>8, <2>10
<1>7. b \in Ledgers
  BY <1>3, <1>6 DEF Ledgers
<1>8. ASSUME NEW k \in Slots, BaseTask(k, 0) \in Task PROVE BaseTask(k, 0) \in Allowed(b, d)
  <2> DEFINE t == BaseTask(k, 0)
  <2>1. t.id = <<0, k>> /\ t.side = BasePlan[k].side /\ t.amt = BasePlan[k].amt
    BY DEF BaseTask
  <2> HIDE DEF t
  <2>2. t.side = d => b[k - 1] + t.amt <= b[k]
    <3>1. t.side = d => Share(k, d) = t.amt
      BY <2>1 DEF Share
    <3>2. b[k] \in Nat
      BY <1>3, <1>4
    <3> QED
      BY <1>4, <3>1, <3>2
  <2> QED
    BY <1>8, <2>1, <2>2 DEF Allowed, Allows, t
<1> QED
  BY <1>5, <1>7, <1>8

\* n units of task k are crossed off: the other tasks are allowed as before, and
\* so is what is left of it.
Spent(b, k, n) == [j \in 0 .. Len(BasePlan) |-> IF j < k THEN b[j] ELSE b[j] - n]

LEMMA SpendLedger ==
  ASSUME NEW b \in Ledgers, NEW k \in Slots, NEW n \in Nat, b[k - 1] + n <= b[k]
  PROVE  /\ Spent(b, k, n) \in Ledgers
         /\ Spent(b, k, n)[Len(BasePlan)] = b[Len(BasePlan)] - n
         /\ \A d \in Sides : \A t \in Allowed(b, d) :
               t.id # <<0, k>> => t \in Allowed(Spent(b, k, n), d)
         /\ \A d \in Sides : \A t \in Task :
               t.id = <<0, k>> /\ b[k - 1] + n + t.amt <= b[k]
                  => t \in Allowed(Spent(b, k, n), d)
<1> DEFINE len == Len(BasePlan)
           c == Spent(b, k, n)
<1>1. /\ len \in Nat /\ k \in 1 .. len /\ k - 1 \in 0 .. len
      /\ b \in [0 .. len -> Nat]
      /\ \A i, j \in 0 .. len : i <= j => b[i] <= b[j]
  BY ShareNat DEF Ledgers, Slots
<1>2. \A j \in 0 .. len : c[j] = IF j < k THEN b[j] ELSE b[j] - n
  BY DEF Spent
<1>3. \A j \in 0 .. len : b[j] \in Nat /\ (~(j < k) => n <= b[j])
  <2> SUFFICES ASSUME NEW j \in 0 .. len, ~(j < k) PROVE n <= b[j]
    BY <1>1
  <2>1. b[k] <= b[j] /\ b[k - 1] \in Nat /\ b[k] \in Nat /\ b[j] \in Nat
    BY <1>1
  <2> QED
    BY <2>1
<1>4. c \in [0 .. len -> Nat]
  <2>1. \A j \in 0 .. len : c[j] \in Nat
    BY <1>1, <1>2, <1>3
  <2> QED
    BY <2>1 DEF Spent
<1> HIDE DEF c
<1>5. ASSUME NEW i \in 0 .. len, NEW j \in 0 .. len, i <= j PROVE c[i] <= c[j]
  <2>1. b[i] <= b[j] /\ b[i] \in Nat /\ b[j] \in Nat
    BY <1>1, <1>5
  <2>2. CASE j < k \/ ~(i < k)
    BY <1>1, <1>2, <1>3, <1>5, <2>1, <2>2
  <2>3. CASE i < k /\ ~(j < k)
    <3>1. b[i] <= b[k - 1] /\ b[k] <= b[j] /\ b[k - 1] \in Nat /\ b[k] \in Nat
      BY <1>1, <2>3
    <3> QED
      BY <1>2, <2>1, <2>3, <3>1
  <2> QED
    BY <2>2, <2>3
<1>6. c \in Ledgers
  BY <1>4, <1>5 DEF Ledgers
<1>7. c[len] = b[len] - n
  BY <1>1, <1>2
<1>8. ASSUME NEW d \in Sides, NEW t \in Allowed(b, d), t.id # <<0, k>>
      PROVE  t \in Allowed(c, d)
  <2> SUFFICES ASSUME t.side = d PROVE Allows(c, t)
    BY DEF Allowed
  <2>1. t.amt \in Nat
    BY DEF Allowed, Task
  <2>2. PICK j \in Slots : t.id = <<0, j>> /\ b[j - 1] + t.amt <= b[j]
    BY DEF Allowed, Allows
  <2>3. j # k /\ j \in 0 .. len /\ j - 1 \in 0 .. len
    BY <1>1, <1>8, <2>2 DEF Slots
  <2>4. /\ j \in Nat /\ k \in Nat
        /\ b[j - 1] \in Nat /\ b[j] \in Nat
        /\ j - 1 < k <=> j < k
        /\ ~(j - 1 < k) => n <= b[j - 1]
        /\ ~(j < k) => n <= b[j]
    BY <1>1, <1>3, <2>3
  <2>5. /\ c[j - 1] = IF j - 1 < k THEN b[j - 1] ELSE b[j - 1] - n
        /\ c[j] = IF j < k THEN b[j] ELSE b[j] - n
    BY <1>2, <2>3
  <2>6. c[j - 1] + t.amt <= c[j]
    BY <2>1, <2>2, <2>4, <2>5
  <2> QED
    BY <2>2, <2>6 DEF Allows
<1>9. ASSUME NEW d \in Sides, NEW t \in Task, t.id = <<0, k>>, b[k - 1] + n + t.amt <= b[k]
      PROVE  t \in Allowed(c, d)
  <2>1. t.amt \in Nat
    BY DEF Task
  <2>2. c[k - 1] = b[k - 1] /\ c[k] = b[k] - n /\ b[k - 1] \in Nat /\ b[k] \in Nat
    BY <1>1, <1>2
  <2>3. c[k - 1] + t.amt <= c[k]
    BY <1>9, <2>1, <2>2
  <2> QED
    BY <1>9, <2>3 DEF Allowed, Allows
<1> QED
  BY <1>6, <1>7, <1>8, <1>9 DEF c

\* Whatever the tasks of a queue are among, inserting one of them keeps that.
LEMMA InsertAmong ==
  ASSUME NEW S, NEW q \in Seq(S), NEW t \in S, NEW pos \in 1 .. Len(q) + 1
  PROVE  InsertAt(q, pos, t) \in Seq(S)
<1> DEFINE front == SubSeq(q, 1, pos - 1)
           back == SubSeq(q, pos, Len(q))
<1>1. front \in Seq(S) /\ back \in Seq(S) /\ <<t>> \in Seq(S)
  OBVIOUS
<1> HIDE DEF front, back
<1>2. (front \o <<t>>) \o back \in Seq(S)
  BY <1>1, ConcatProperties
<1> QED
  BY <1>2 DEF InsertAt, front, back

\* A queue whose tasks are all among those of another set.
LEMMA QueueAmong ==
  ASSUME NEW S, NEW q \in Seq(S), NEW T, \A k \in DOMAIN q : q[k] \in T
  PROVE  q \in Seq(T)
<1>1. DOMAIN q = 1 .. Len(q) /\ Len(q) \in Nat /\ q = [k \in 1 .. Len(q) |-> q[k]]
  OBVIOUS
<1>2. q \in [1 .. Len(q) -> T]
  BY <1>1
<1> QED
  BY <1>1, <1>2

\* A failed attempt counts nothing; it leaves the task in the queue, or held, and
\* no other snapshot changes.
LEMMA FailPlaces ==
  ASSUME NEW s \in State, NEW t \in Task, NEW pos \in 1 .. Len(s.pending) + 1
  PROVE  /\ Fail(s, t, pos).exec = s.exec
         /\ \A i \in TaskIds : i # t.id => Fail(s, t, pos).snap[i] = s.snap[i]
         /\ IF Exhausted(Attempts(s, t))
            THEN /\ Fail(s, t, pos).pending = s.pending
                 /\ Fail(s, t, pos).paused = t
            ELSE /\ Fail(s, t, pos).pending = InsertAt(s.pending, pos, t)
                 /\ Fail(s, t, pos).paused = s.paused
<1> DEFINE held == [s EXCEPT !.paused = t, !.status = "paused"]
           retried == Enqueue(s, t, pos)
           next == IF Exhausted(Attempts(s, t)) THEN held ELSE retried
           entry == [status |-> "failed", attempts |-> Attempts(s, t)]
<1>1. t.id \in TaskIds /\ s.snap \in [TaskIds -> Snapshot]
  BY DEF Task, State
<1>2. /\ held \in State /\ held.exec = s.exec /\ held.snap = s.snap
      /\ held.pending = s.pending /\ held.paused = t
  BY DEF State, Statuses
<1>3. /\ retried \in State /\ retried.exec = s.exec
      /\ retried.snap = WithSnapshots(s.snap, {t.id})
      /\ retried.pending = InsertAt(s.pending, pos, t) /\ retried.paused = s.paused
  BY EnqueueState DEF Enqueue, State
<1>4. \A i \in TaskIds : i # t.id => WithSnapshots(s.snap, {t.id})[i] = s.snap[i]
  BY DEF WithSnapshots
<1>5. Fail(s, t, pos) = IF next.snap[t.id].status # "none"
                        THEN [next EXCEPT !.snap[t.id] = entry] ELSE next
  BY DEF Fail
<1> HIDE DEF held, retried, entry
<1>6. /\ next \in State /\ next.exec = s.exec
      /\ \A i \in TaskIds : i # t.id => next.snap[i] = s.snap[i]
      /\ IF Exhausted(Attempts(s, t))
         THEN next.pending = s.pending /\ next.paused = t
         ELSE next.pending = InsertAt(s.pending, pos, t) /\ next.paused = s.paused
  BY <1>2, <1>3, <1>4
<1> HIDE DEF next
<1> DEFINE failed == [next EXCEPT !.snap[t.id] = entry]
<1>7. /\ failed.exec = next.exec /\ failed.pending = next.pending
      /\ failed.paused = next.paused
      /\ \A i \in TaskIds : i # t.id => failed.snap[i] = next.snap[i]
  BY <1>6 DEF State
<1> HIDE DEF failed
<1> QED
  BY <1>5, <1>6, <1>7 DEF failed

\* resume() counts nothing and holds nothing; a held task is queued, and no
\* other snapshot changes.
LEMMA ResumedPlaces ==
  ASSUME NEW s \in State, NEW pos \in 1 .. Len(s.pending) + 1
  PROVE  /\ Resumed(s, pos).exec = s.exec
         /\ Resumed(s, pos).cfg = s.cfg
         /\ Resumed(s, pos).paused = NoTask
         /\ IF s.paused = NoTask
            THEN Resumed(s, pos).pending = s.pending /\ Resumed(s, pos).snap = s.snap
            ELSE /\ Resumed(s, pos).pending = InsertAt(s.pending, pos, s.paused)
                 /\ \A i \in TaskIds : i # s.paused.id => Resumed(s, pos).snap[i] = s.snap[i]
<1> DEFINE woken == [s EXCEPT !.status = "running", !.paused = NoTask]
           i0 == s.paused.id
           back == Enqueue(woken, s.paused, pos)
           b == [back EXCEPT !.snap[i0].status = "pending"]
<1>1. /\ woken \in State /\ woken.exec = s.exec /\ woken.cfg = s.cfg
      /\ woken.paused = NoTask /\ woken.pending = s.pending /\ woken.snap = s.snap
  BY DEF State, Statuses
<1>2. Resumed(s, pos) = IF s.paused = NoTask THEN woken ELSE b
  BY DEF Resumed
<1> HIDE DEF woken
<1>3. ASSUME s.paused # NoTask
      PROVE  /\ b.exec = s.exec /\ b.cfg = s.cfg /\ b.paused = NoTask
             /\ b.pending = InsertAt(s.pending, pos, s.paused)
             /\ \A i \in TaskIds : i # i0 => b.snap[i] = s.snap[i]
  <2>1. s.paused \in Task
    BY <1>3 DEF State
  <2>2. back \in State
    BY <1>1, <2>1, EnqueueState
  <2>3. /\ back.exec = s.exec /\ back.cfg = s.cfg /\ back.paused = NoTask
        /\ back.pending = InsertAt(s.pending, pos, s.paused)
        /\ back.snap = WithSnapshots(s.snap, {i0})
    BY <1>1 DEF Enqueue, State
  <2>4. \A i \in TaskIds : i # i0 => WithSnapshots(s.snap, {i0})[i] = s.snap[i]
    BY DEF WithSnapshots
  <2> HIDE DEF back, i0
  <2>5. /\ b.exec = back.exec /\ b.cfg = back.cfg /\ b.paused = back.paused
        /\ b.pending = back.pending
        /\ \A i \in TaskIds : i # i0 => b.snap[i] = back.snap[i]
    BY <2>2 DEF State
  <2> HIDE DEF b
  <2> QED
    BY <2>3, <2>4, <2>5
<1> HIDE DEF b, i0
<1> QED
  BY <1>1, <1>2, <1>3 DEF i0

\* start() queues the plan and counts nothing.
LEMMA StartedPlaces ==
  ASSUME NEW s \in State, NEW r \in Runs
  PROVE  /\ Started(s, r).exec = [d \in Sides |-> 0]
         /\ Started(s, r).pending = BaseTasks(0)
         /\ Started(s, r).paused = NoTask
         /\ Started(s, r).cfg = [set |-> TRUE, run |-> r, reviewed |-> TRUE]
         /\ \A i \in TaskIds : Started(s, r).snap[i].status \notin {"none", "done"}
               => i \in IdsOf(BaseTasks(0))
<1> DEFINE q == BaseTasks(0)
           c == [set |-> TRUE, run |-> r, reviewed |-> TRUE]
           fresh == [Idle EXCEPT !.cfg = c, !.status = "running", !.plans = s.plans]
<1>1. q \in Seq(Task)
  BY BaseTasksSeq, BoundsAssumption
<1>2. Started(s, r) = EnqueueAll(fresh, q)
  BY DEF Started
<1> HIDE DEF q, c
<1>3. /\ fresh.exec = [d \in Sides |-> 0] /\ fresh.pending = <<>> /\ fresh.paused = NoTask
      /\ fresh.cfg = c /\ fresh.snap = Idle.snap
  BY DEF Idle
<1>4. /\ Started(s, r).exec = fresh.exec /\ Started(s, r).pending = <<>> \o q
      /\ Started(s, r).paused = fresh.paused /\ Started(s, r).cfg = fresh.cfg
      /\ Started(s, r).snap = WithSnapshots(Idle.snap, IdsOf(q))
  BY <1>2 DEF EnqueueAll, Idle
<1>5. <<>> \o q = q
  BY <1>1
<1>6. \A i \in TaskIds : WithSnapshots(Idle.snap, IdsOf(q))[i].status \notin {"none", "done"}
                            => i \in IdsOf(q)
  BY DEF WithSnapshots, Idle, NoSnapshot
<1> HIDE DEF fresh
<1> QED
  BY <1>3, <1>4, <1>5, <1>6 DEF q, c

-----------------------------------------------------------------------------
(* How each change of the state keeps the ledger.                           *)

\* A queue that is emptied or left, a held task that is let go or left, and no
\* more in hand.
LEMMA BudgetShrinks ==
  ASSUME NEW s, NEW t, NEW hand, NEW less \in SUBSET hand, Budgeted(s, hand),
         t.exec = s.exec, t.pending \in {s.pending, <<>>}, t.paused \in {s.paused, NoTask}
  PROVE  Budgeted(t, less)
<1> SUFFICES ASSUME NEW d \in Sides
             PROVE  \E b \in Ledgers : Keeps(b, d, t) /\ less \subseteq Allowed(b, d)
  BY DEF Budgeted
<1>1. PICK b \in Ledgers : Keeps(b, d, s) /\ hand \subseteq Allowed(b, d)
  BY DEF Budgeted
<1>2. Keeps(b, d, t)
  <2>1. <<>> \in Seq(Allowed(b, d))
    OBVIOUS
  <2> QED
    BY <1>1, <2>1 DEF Keeps
<1> QED
  BY <1>1, <1>2

\* The task that is popped is in hand.
LEMMA BudgetPops ==
  ASSUME NEW s \in State, s.pending # <<>>, NEW hand, Budgeted(s, hand)
  PROVE  Budgeted([s EXCEPT !.pending = Tail(@)], {Head(s.pending)})
<1> DEFINE t == [s EXCEPT !.pending = Tail(@)]
<1>1. t.exec = s.exec /\ t.pending = Tail(s.pending) /\ t.paused = s.paused
  BY DEF State
<1> HIDE DEF t
<1> SUFFICES ASSUME NEW d \in Sides
             PROVE  \E b \in Ledgers : Keeps(b, d, t) /\ {Head(s.pending)} \subseteq Allowed(b, d)
  BY DEF Budgeted, t
<1>2. PICK b \in Ledgers : Keeps(b, d, s)
  BY DEF Budgeted
<1>3. Tail(s.pending) \in Seq(Allowed(b, d)) /\ Head(s.pending) \in Allowed(b, d)
  BY <1>2, HeadTailProperties DEF Keeps
<1> QED
  BY <1>1, <1>2, <1>3 DEF Keeps

\* A task that fails goes from the hand to the queue, or is held.
LEMMA BudgetFails ==
  ASSUME NEW s \in State, NEW t \in Task, NEW pos \in 1 .. Len(s.pending) + 1,
         Budgeted(s, {t})
  PROVE  Budgeted(Fail(s, t, pos), {})
<1> DEFINE f == Fail(s, t, pos)
<1>1. /\ f.exec = s.exec
      /\ \/ f.pending = s.pending /\ f.paused = t
         \/ f.pending = InsertAt(s.pending, pos, t) /\ f.paused = s.paused
  BY FailPlaces
<1> HIDE DEF f
<1> SUFFICES ASSUME NEW d \in Sides PROVE \E b \in Ledgers : Keeps(b, d, f)
  BY DEF Budgeted, f
<1>2. PICK b \in Ledgers : Keeps(b, d, s) /\ t \in Allowed(b, d)
  BY DEF Budgeted
<1>3. InsertAt(s.pending, pos, t) \in Seq(Allowed(b, d))
  BY <1>2, InsertAmong DEF Keeps
<1> QED
  BY <1>1, <1>2, <1>3 DEF Keeps

\* resume() puts the held task back.
LEMMA BudgetResumes ==
  ASSUME NEW s \in State, NEW pos \in 1 .. Len(s.pending) + 1, NEW hand, Budgeted(s, hand)
  PROVE  Budgeted(Resumed(s, pos), hand)
<1> DEFINE f == Resumed(s, pos)
<1>1. /\ f.exec = s.exec /\ f.paused = NoTask
      /\ IF s.paused = NoTask THEN f.pending = s.pending
         ELSE f.pending = InsertAt(s.pending, pos, s.paused)
  BY ResumedPlaces
<1> HIDE DEF f
<1> SUFFICES ASSUME NEW d \in Sides
             PROVE  \E b \in Ledgers : Keeps(b, d, f) /\ hand \subseteq Allowed(b, d)
  BY DEF Budgeted, f
<1>2. PICK b \in Ledgers : Keeps(b, d, s) /\ hand \subseteq Allowed(b, d)
  BY DEF Budgeted
<1>3. s.paused # NoTask => InsertAt(s.pending, pos, s.paused) \in Seq(Allowed(b, d))
  BY <1>2, InsertAmong DEF Keeps
<1> QED
  BY <1>1, <1>2, <1>3 DEF Keeps

\* A new run has counted nothing, and its queue is the plan.
LEMMA BudgetStarts ==
  ASSUME NEW s \in State, NEW r \in Runs
  PROVE  Budgeted(Started(s, r), {})
<1> DEFINE f == Started(s, r)
<1>1. f.exec = [d \in Sides |-> 0] /\ f.pending = BaseTasks(0) /\ f.paused = NoTask
  BY StartedPlaces
<1> HIDE DEF f
<1> SUFFICES ASSUME NEW d \in Sides PROVE \E b \in Ledgers : Keeps(b, d, f)
  BY DEF Budgeted, f
<1>2. PICK b \in Ledgers :
         /\ b[Len(BasePlan)] = BaseVolume(d)
         /\ \A k \in Slots : BaseTask(k, 0) \in Task => BaseTask(k, 0) \in Allowed(b, d)
  BY FirstLedger
<1>3. BaseTasks(0) \in Seq(Task)
  BY BaseTasksSeq, BoundsAssumption
<1>4. ASSUME NEW k \in DOMAIN BaseTasks(0) PROVE BaseTasks(0)[k] \in Allowed(b, d)
  <2>1. k \in Slots /\ BaseTasks(0)[k] = BaseTask(k, 0)
    BY ShareNat DEF BaseTasks
  <2>2. BaseTasks(0)[k] \in Task
    BY <1>3
  <2> QED
    BY <1>2, <2>1, <2>2
<1>5. BaseTasks(0) \in Seq(Allowed(b, d))
  BY <1>3, <1>4, QueueAmong
<1>6. f.exec[d] + b[Len(BasePlan)] <= BaseVolume(d)
  BY <1>1, <1>2, BaseVolumeNat
<1> QED
  BY <1>1, <1>5, <1>6 DEF Keeps

\* n units of the task in hand are counted at most, and crossed off: the rest of
\* it is still allowed.
LEMMA BudgetSpends ==
  ASSUME NEW s \in State, NEW t \in Task, Free(s, t.id), Budgeted(s, {t}),
         NEW n \in 0 .. t.amt, NEW u \in State,
         u.pending = s.pending, u.paused = s.paused,
         \A d \in Sides : u.exec[d] <= s.exec[d] + (IF d = t.side THEN n ELSE 0)
  PROVE  /\ Budgeted(u, {})
         /\ n < t.amt => Budgeted(u, {[t EXCEPT !.amt = t.amt - n]})
<1> DEFINE rest == [t EXCEPT !.amt = t.amt - n]
           left == IF n < t.amt THEN {rest} ELSE {}
<1>1. t.amt \in Nat \ {0} /\ n \in Nat /\ n <= t.amt
  BY DEF Task
<1>2. /\ n < t.amt => rest \in Task /\ rest.id = t.id /\ rest.side = t.side
                      /\ rest.amt = t.amt - n
  BY <1>1 DEF Task
<1> HIDE DEF rest
<1>3. ASSUME NEW d \in Sides
      PROVE  \E b \in Ledgers : Keeps(b, d, u) /\ left \subseteq Allowed(b, d)
  <2>1. PICK b \in Ledgers : Keeps(b, d, s) /\ t \in Allowed(b, d)
    BY DEF Budgeted
  <2>2. /\ s.exec[d] \in Nat /\ u.exec[d] \in Nat
        /\ b[Len(BasePlan)] \in Nat /\ BaseVolume(d) \in Nat
    <3>1. s.exec[d] \in Nat /\ u.exec[d] \in Nat
      BY DEF State
    <3>2. Len(BasePlan) \in 0 .. Len(BasePlan)
      BY ShareNat
    <3>3. b[Len(BasePlan)] \in Nat
      BY <3>2 DEF Ledgers
    <3>4. BaseVolume(d) \in Nat
      BY BaseVolumeNat
    <3> QED
      BY <3>1, <3>3, <3>4
  <2>3. CASE d # t.side
    <3>1. u.exec[d] <= s.exec[d]
      BY <2>2, <2>3
    <3>2. Keeps(b, d, u)
      BY <2>1, <2>2, <3>1 DEF Keeps
    <3>3. left \subseteq Allowed(b, d)
      BY <1>2, <2>3 DEF Allowed
    <3> QED
      BY <3>2, <3>3
  <2>4. CASE d = t.side
    <3>1. PICK k \in Slots : t.id = <<0, k>> /\ b[k - 1] + t.amt <= b[k]
      BY <2>1, <2>4 DEF Allowed, Allows
    <3>2. b[k - 1] \in Nat /\ b[k] \in Nat
      <4>1. k - 1 \in 0 .. Len(BasePlan) /\ k \in 0 .. Len(BasePlan)
        BY ShareNat DEF Slots
      <4> QED
        BY <4>1 DEF Ledgers
    <3>3. b[k - 1] + n <= b[k]
      BY <1>1, <3>1, <3>2
    <3> DEFINE c == Spent(b, k, n)
    <3>4. /\ c \in Ledgers
          /\ c[Len(BasePlan)] = b[Len(BasePlan)] - n
          /\ \A p \in Allowed(b, d) : p.id # t.id => p \in Allowed(c, d)
          /\ \A p \in Task : p.id = t.id /\ b[k - 1] + n + p.amt <= b[k]
                                => p \in Allowed(c, d)
      BY <1>1, <3>1, <3>3, SpendLedger
    <3> HIDE DEF c
    <3>5. u.exec[d] + c[Len(BasePlan)] <= BaseVolume(d)
      <4>1. s.exec[d] + b[Len(BasePlan)] <= BaseVolume(d)
        BY <2>1 DEF Keeps
      <4>2. u.exec[d] <= s.exec[d] + n
        BY <2>4
      <4> QED
        BY <1>1, <2>2, <3>4, <4>1, <4>2
    <3>6. u.pending \in Seq(Allowed(c, d))
      <4>1. s.pending \in Seq(Allowed(b, d))
        BY <2>1 DEF Keeps
      <4>2. ASSUME NEW j \in DOMAIN s.pending PROVE s.pending[j] \in Allowed(c, d)
        <5>1. s.pending[j] \in Allowed(b, d)
          BY <4>1
        <5>2. s.pending[j].id # t.id
          BY DEF Free, Taken, IdsOf
        <5> QED
          BY <3>4, <5>1, <5>2
      <4> QED
        BY <4>1, <4>2, QueueAmong
    <3>7. u.paused \in Allowed(c, d) \cup {NoTask}
      <4>1. s.paused \in Allowed(b, d) \cup {NoTask}
        BY <2>1 DEF Keeps
      <4>2. s.paused # NoTask => s.paused.id # t.id
        BY DEF Free, Taken
      <4> QED
        BY <3>4, <4>1, <4>2
    <3>8. left \subseteq Allowed(c, d)
      <4>1. n < t.amt => b[k - 1] + n + rest.amt <= b[k]
        BY <1>1, <1>2, <3>1, <3>2
      <4> QED
        BY <1>2, <3>4, <4>1
    <3> QED
      BY <3>4, <3>5, <3>6, <3>7, <3>8 DEF Keeps
  <2> QED
    BY <2>3, <2>4
<1> HIDE DEF left
<1>4. Budgeted(u, left)
  BY <1>3 DEF Budgeted
<1>5. Budgeted(u, {})
  BY <1>4 DEF Budgeted
<1> QED
  BY <1>4, <1>5 DEF left, rest

-----------------------------------------------------------------------------
(* A run that no event touches.                                             *)

\* No external trade is reported, and the object is not cleared.
Unreported == Txs = {} /\ "clear" \notin UserOps

\* Such a run has its reviewed plan, and alarm() plans nothing.
OwnPlan(s) == (s.cfg.set => s.cfg.reviewed) /\ (s.status = "running" => s.cfg.set)
Plain ==
    /\ OwnPlan(st) /\ OwnPlan(disk)
    /\ handler.pc \in {"idle", "allocate", "trade"}
    /\ handler.pc # "idle" => handler.reviewed
    /\ ~handler.detached

PlainInv == TypeInv /\ Plain

\* How alarm() goes on there: it completes the run, saves it, or pops a task.
Finishes(s) ==
    /\ Volume(s) >= ManagedTarget(s) \/ s.pending = <<>>
    /\ st' = Completed(s) /\ disk' = st' /\ Ends
Saves(s) == st' = s /\ disk' = s /\ Ends
Pops(s) ==
    /\ s.pending # <<>>
    /\ st' = [s EXCEPT !.pending = Tail(@)]
    /\ UNCHANGED disk
    /\ handler' = [Resting EXCEPT !.reviewed = TRUE, !.pc = "allocate",
                                  !.task = Head(s.pending)]

\* alarm() begins.
Begins ==
    /\ handler.pc = "idle" /\ st.status = "running"
    /\ UNCHANGED <<chain, lost>>
    /\ Finishes(st) \/ Saves(st) \/ Pops(st)

\* The parts of alarm() before and after the execution.
LEMMA OwnPlanGoesOn ==
  ASSUME PlainInv
  PROVE  /\ AlarmRuns => Begins
         /\ \A s : handler.pc = "trade" /\ Conclude(s) => Finishes(s) \/ Saves(s)
<1>1. ASSUME NEW s, Complete(s), Volume(s) >= ManagedTarget(s) \/ s.pending = <<>>
      PROVE  Finishes(s)
  BY <1>1 DEF Complete, SaveWith, Finishes
<1>2. ASSUME NEW s, Save(s), Ends PROVE Saves(s)
  BY <1>2 DEF Save, SaveWith, Saves
<1>3. \A s : CapturedVolume(s) = Volume(s) /\ CapturedEmpty(s) = (s.pending = <<>>)
  BY DEF PlainInv, Plain, CapturedVolume, CapturedEmpty
<1>4. ASSUME AlarmRuns PROVE Begins
  <2> DEFINE h == [Resting EXCEPT !.reviewed = st.cfg.reviewed]
  <2>1. /\ handler.pc = "idle" /\ st.status = "running" /\ UNCHANGED <<chain, lost>>
        /\ Proceed(st, h, Delivered, alarm.at = "head")
    BY <1>4 DEF AlarmRuns, Rings
  <2>2. st.cfg.reviewed
    BY <2>1 DEF PlainInv, Plain, OwnPlan
  <2>3. h = [Resting EXCEPT !.reviewed = TRUE] /\ h.reviewed
    BY <2>2 DEF PlainInv, TypeInv, EngineOK, State, Config, Resting
  <2> HIDE DEF h
  <2>4. \/ /\ Volume(st) >= ManagedTarget(st) \/ st.pending = <<>>
           /\ Complete(st)
        \/ PopDue(st, h, Delivered, alarm.at = "head")
    BY <1>3, <2>1, <2>2, <2>3 DEF Proceed, NeedsBasePlan
  <2>5. ASSUME PopDue(st, h, Delivered, alarm.at = "head")
        PROVE  Saves(st) \/ Pops(st)
    <3>1. CASE Save(st) /\ Ends
      BY <1>2, <3>1
    <3>2. CASE /\ st.pending # <<>>
               /\ st' = [st EXCEPT !.pending = Tail(@)]
               /\ handler' = [h EXCEPT !.pc = "allocate", !.task = Head(st.pending)]
               /\ UNCHANGED disk
      BY <2>3, <3>2 DEF Pops, Resting
    <3> QED
      BY <2>5, <3>1, <3>2 DEF PopDue
  <2> QED
    BY <1>1, <2>1, <2>4, <2>5 DEF Begins
<1>5. ASSUME NEW s, handler.pc = "trade", Conclude(s) PROVE Finishes(s) \/ Saves(s)
  <2>1. handler.reviewed
    BY <1>5 DEF PlainInv, Plain
  <2>2. \/ /\ Volume(s) >= ManagedTarget(s) \/ s.pending = <<>>
           /\ Complete(s)
        \/ Save(s) /\ Ends
    BY <1>3, <1>5, <2>1 DEF Conclude
  <2> QED
    BY <1>1, <1>2, <2>2
<1> QED
  BY <1>4, <1>5

\* What an execution leaves there.
PlainEnd(t, credited, rest) ==
    \/ ~st.cfg.set /\ Fails(st, t)
    \/ /\ handler.ok = t.amt
       /\ Finishes(MarkDone(credited, t.id)) \/ Saves(MarkDone(credited, t.id))
    \/ handler.ok < t.amt /\ Fails(credited, rest)
    \/ /\ handler.ok < t.amt
       /\ ~Exhausted(Attempts(st, t))
       /\ st.status # "paused"
       /\ \E pos \in 1 .. Len(st.pending) + 1 :
             Finishes(Fail(credited, rest, pos)) \/ Saves(Fail(credited, rest, pos))

Slices == handler.pc = "trade" => handler.ok + handler.left <= handler.task.amt

LEMMA PlainEnds ==
  ASSUME PlainInv, Slices, ExecutionEnds
  PROVE  LET t == handler.task
             credited == Credit(st, t.side, handler.ok)
             rest == [t EXCEPT !.amt = t.amt - handler.ok]
         IN  /\ handler.ok \in 0 .. t.amt
             /\ handler.pc = "trade"
             /\ UNCHANGED chain
             /\ LosesFills(handler.ok - (Volume(credited) - Volume(st)))
             /\ PlainEnd(t, credited, rest)
<1> DEFINE t == handler.task
           credited == Credit(st, t.side, handler.ok)
           rest == [t EXCEPT !.amt = t.amt - handler.ok]
           retry == RetryVolume(t)
<1>1. /\ t \in Task /\ handler.ok \in Nat /\ handler.left \in Nat
      /\ handler.pc = "trade" /\ UNCHANGED chain
      /\ LosesFills(handler.ok - (Volume(credited) - Volume(st)))
  BY DEF ExecutionEnds, Executing, PlainInv, TypeInv, EngineOK, Handlers
<1>2. t.amt \in Nat /\ handler.ok <= t.amt
  BY <1>1 DEF Slices, Task
<1>3. retry = t.amt - handler.ok
  BY DEF RetryVolume
<1>4. rest = [t EXCEPT !.amt = retry]
  BY <1>3
<1>5. \/ ~st.cfg.set /\ FailAndEnd(st, t, TRUE)
      \/ retry = 0 /\ Conclude(MarkDone(credited, t.id))
      \/ retry > 0 /\ FailAndEnd(credited, rest, FALSE)
      \/ /\ retry > 0 /\ ~Exhausted(Attempts(st, t)) /\ st.status # "paused"
         /\ \E pos \in 1 .. Len(st.pending) + 1 : Conclude(Fail(credited, rest, pos))
  BY <1>4 DEF ExecutionEnds
<1>6. (retry = 0 => handler.ok = t.amt) /\ (retry > 0 => handler.ok < t.amt)
  BY <1>1, <1>2, <1>3
<1> HIDE DEF credited, rest, retry, t
<1>7. PlainEnd(t, credited, rest)
  <2>1. CASE ~st.cfg.set /\ FailAndEnd(st, t, TRUE)
    BY <2>1, FailuresEnd DEF PlainEnd
  <2>2. CASE retry = 0 /\ Conclude(MarkDone(credited, t.id))
    BY <1>1, <1>6, <2>2, OwnPlanGoesOn DEF PlainEnd
  <2>3. CASE retry > 0 /\ FailAndEnd(credited, rest, FALSE)
    BY <1>6, <2>3, FailuresEnd DEF PlainEnd
  <2>4. CASE /\ retry > 0 /\ ~Exhausted(Attempts(st, t)) /\ st.status # "paused"
             /\ \E pos \in 1 .. Len(st.pending) + 1 : Conclude(Fail(credited, rest, pos))
    BY <1>1, <1>6, <2>4, OwnPlanGoesOn DEF PlainEnd
  <2> QED
    BY <1>5, <2>1, <2>2, <2>3, <2>4
<1> QED
  BY <1>1, <1>2, <1>7 DEF t, credited, rest

\* Every step of alarm() there.
LEMMA PlainHandler ==
  ASSUME Unreported, PlainInv, AlarmHandler
  PROVE  \/ UNCHANGED <<st, disk, handler, chain, lost>>
         \/ Begins
         \/ AccountsReady \/ NoAccounts \/ SliceFills \/ SliceFails
         \/ ExecutionThrows \/ ExecutionEnds
<1>1. st.replan = NoTx
  BY DEF Unreported, PlainInv, TypeInv, EngineOK, State
<1>2. ~AlarmReplans
  BY <1>1 DEF AlarmReplans
<1>3. ~ReplanReady /\ ~BasePlanReady /\ ~PlanFails
  BY DEF ReplanReady, BasePlanReady, PlanFails, PlainInv, Plain
<1>4. AlarmIgnored => UNCHANGED <<st, disk, handler, chain, lost>>
  BY DEF AlarmIgnored
<1> QED
  BY <1>2, <1>3, <1>4, OwnPlanGoesOn DEF AlarmHandler

\* One step keeps the run to its own plan.
LEMMA PlainStep ==
  ASSUME Unreported, PlainInv, Slices, [Next]_vars
  PROVE  Plain'
<1>1. /\ TypeInv /\ Plain /\ st \in State /\ disk \in State /\ handler \in Handlers
  BY DEF PlainInv, TypeInv, EngineOK
<1>2. ASSUME OwnPlan(st'), disk' \in {disk, st'},
             \/ UNCHANGED handler
             \/ Ends
             \/ /\ handler'.pc \in {"allocate", "trade"} /\ handler'.reviewed
                /\ ~handler'.detached
      PROVE  Plain'
  <2>1. OwnPlan(disk')
    BY <1>1, <1>2 DEF Plain
  <2>2. Ends => handler'.pc = "idle" /\ ~handler'.detached
    BY RestingHandler DEF Ends
  <2> QED
    BY <1>1, <1>2, <2>1, <2>2 DEF Plain
<1>3. ASSUME NEW r \in Runs, Start(r) PROVE Plain'
  <2>1. st' = Started(st, r) /\ disk' = st' /\ UNCHANGED handler
    BY <1>3 DEF Start, SaveWith
  <2>2. Started(st, r).cfg = [set |-> TRUE, run |-> r, reviewed |-> TRUE]
    BY ONLY <1>1, StartedPlaces, r \in Runs
  <2>3. st'.cfg.set /\ st'.cfg.reviewed
    BY <2>1, <2>2
  <2>4. OwnPlan(st')
    BY <2>3 DEF OwnPlan
  <2> QED
    BY <1>2, <2>1, <2>4
<1>4. CASE Abort \/ Pause
  <2>1. /\ \/ st' = [st EXCEPT !.status = "aborted", !.pending = <<>>]
           \/ st' = [st EXCEPT !.status = "paused"]
        /\ disk' = st' /\ UNCHANGED handler
    BY <1>4 DEF Abort, Pause, SaveWith
  <2>2. st'.cfg = st.cfg /\ st'.status # "running"
    BY <1>1, <2>1 DEF State
  <2>3. OwnPlan(st')
    BY <1>1, <2>2 DEF Plain, OwnPlan
  <2> QED
    BY <1>2, <2>1, <2>3
<1>5. CASE Resume
  <2>1. PICK pos \in 1 .. Len(st.pending) + 1 : st' = Resumed(st, pos) /\ disk' = st'
    BY <1>5 DEF Resume, Save, SaveWith
  <2>2. st.cfg.set /\ UNCHANGED handler
    BY <1>5 DEF Resume
  <2>3. st'.cfg = st.cfg
    BY <1>1, <2>1, ResumedPlaces
  <2>4. OwnPlan(st')
    BY <1>1, <2>2, <2>3 DEF Plain, OwnPlan
  <2> QED
    BY <1>2, <2>1, <2>2, <2>4
<1>6. ~Clear
  BY DEF Clear, UseOp, Unreported
<1>7. CASE AlarmHandler
  <2>1. Steady
    BY <1>1, <1>7, HandlerSteady
  <2>2. OwnPlan(st') /\ disk' \in {disk, st'}
    BY <1>1, <2>1 DEF Steady, SameRun, Plain, OwnPlan
  <2>3. CASE UNCHANGED handler
    BY <1>2, <2>2, <2>3
  <2>4. CASE Begins
    <3>1. CASE Pops(st)
      <4>1. handler'.pc = "allocate" /\ handler'.reviewed /\ ~handler'.detached
        BY <3>1 DEF Pops, Resting
      <4> QED
        BY <1>2, <2>2, <4>1
    <3>2. CASE Ends
      BY <1>2, <2>2, <3>2
    <3> QED
      BY <2>4, <3>1, <3>2 DEF Begins, Finishes, Saves
  <2>5. CASE AccountsReady \/ SliceFills \/ SliceFails
    <3>1. /\ handler'.pc = "trade" /\ handler.pc # "idle"
          /\ handler'.reviewed = handler.reviewed /\ handler'.detached = handler.detached
      BY <1>1, <2>5 DEF AccountsReady, SliceFills, SliceFails, Handlers
    <3> QED
      BY <1>1, <1>2, <2>2, <3>1 DEF Plain
  <2>6. CASE NoAccounts
    BY <1>2, <2>2, <2>6 DEF NoAccounts
  <2>7. CASE ExecutionThrows
    BY <1>2, <2>2, <2>7 DEF ExecutionThrows, FailAndEnd
  <2>8. CASE ExecutionEnds
    <3>1. Ends
      BY <2>8, PlainEnds DEF PlainEnd, Fails, Finishes, Saves
    <3> QED
      BY <1>2, <2>2, <3>1
  <2> QED
    BY <1>7, <2>3, <2>4, <2>5, <2>6, <2>7, <2>8, PlainHandler
<1>8. CASE Crash
  BY <1>1, <1>2, <1>8 DEF Crash, Ends, Plain
<1>9. CASE UNCHANGED vars
  BY <1>1, <1>2, <1>9 DEF vars, Plain
<1>10. ~ \E x \in Txs : WebhookArrives(x) \/ WebhookApplies(x)
  BY DEF Unreported
<1> QED
  BY <1>3, <1>4, <1>5, <1>6, <1>7, <1>8, <1>9, <1>10 DEF Next
-----------------------------------------------------------------------------
(* The plan and no more.                                                    *)

\* What was traded is counted, will be when the task in hand ends, or is lost.
Accounted == \A d \in Sides : chain[d] <= st.exec[d] + lost[d] + Earned(d)

\* The task in hand is allowed as well as those queued or held; so are those the
\* stored copy brings back.
Hand == IF Executing THEN {handler.task} ELSE {}
WithinPlan == Budgeted(st, Hand) /\ Budgeted(disk, {})

BudgetInv ==
    /\ TasksInv /\ CreditInv /\ Plain
    /\ Slices /\ Accounted /\ WithinPlan

\* applyExecutedTask counts some of what was filled, and without a configuration
\* nothing.
LEMMA CreditCounts ==
  ASSUME NEW s \in State, NEW side \in Sides, NEW vol \in Nat
  PROVE  LET u == Credit(s, side, vol)
             n == Volume(u) - Volume(s)
         IN  /\ n \in 0 .. vol
             /\ u.exec = [s.exec EXCEPT ![side] = @ + n]
             /\ ~s.cfg.set => n = 0
<1> DEFINE room == Monus(ManagedTarget(s), Volume(s))
           counted == IF vol < room THEN vol ELSE room
           u == Credit(s, side, vol)
<1>1. ManagedTarget(s) \in Nat /\ Volume(s) \in Nat
  BY VolumesNat
<1>2. ~s.cfg.set => ManagedTarget(s) = 0
  BY DEF ManagedTarget
<1>3. counted \in Nat /\ counted <= vol /\ (~s.cfg.set => counted = 0)
  BY <1>1, <1>2 DEF Monus
<1>4. u = [s EXCEPT !.exec[side] = @ + counted]
  BY DEF Credit
<1> HIDE DEF room, counted, u
<1>5. s.exec \in [Sides -> Nat]
  BY DEF State
<1>6. u.exec = [s.exec EXCEPT ![side] = @ + counted]
  BY <1>4 DEF State
<1>7. Volume(u) = Volume(s) + counted
  BY <1>3, <1>5, <1>6 DEF Volume, Sides
<1>8. Volume(u) - Volume(s) = counted
  BY <1>1, <1>3, <1>7
<1> QED
  BY <1>3, <1>6, <1>8 DEF u

\* A step after which nothing is in hand, and nothing was traded, must count what
\* was filled or lose it.
LEMMA EndAccounted ==
  ASSUME BudgetInv, TypeInv', handler'.pc # "trade", UNCHANGED chain,
         \A d \in Sides : st.exec[d] + lost[d] + Earned(d) <= st'.exec[d] + lost'[d]
  PROVE  Slices' /\ Accounted'
<1>1. Slices' /\ \A d \in Sides : Earned(d)' = 0
  BY DEF Slices, Earned
<1>2. /\ TypeInv /\ Accounted
  BY DEF BudgetInv, TasksInv, RunsInv
<1>3. \A d \in Sides : /\ chain[d] \in Nat /\ lost[d] \in Nat /\ st.exec[d] \in Nat
                       /\ lost'[d] \in Nat /\ st'.exec[d] \in Nat /\ Earned(d) \in Nat
  BY <1>2 DEF TypeInv, EngineOK, CountersOK, State, Handlers, Earned
<1>4. ASSUME NEW d \in Sides PROVE chain'[d] <= st'.exec[d] + lost'[d] + Earned(d)'
  <2>1. chain[d] <= st.exec[d] + lost[d] + Earned(d)
    BY <1>2 DEF Accounted
  <2>2. st.exec[d] + lost[d] + Earned(d) <= st'.exec[d] + lost'[d]
    OBVIOUS
  <2>3. Earned(d)' = 0 /\ chain'[d] = chain[d]
    BY <1>1
  <2> QED
    BY <1>3, <2>1, <2>2, <2>3
<1>5. Accounted'
  BY <1>4 DEF Accounted
<1> QED
  BY <1>1, <1>5

\* The steps that trade.
LEMMA TradingAccounted ==
  ASSUME BudgetInv, AccountsReady \/ SliceFills \/ SliceFails
  PROVE  Slices' /\ Accounted' /\ WithinPlan'
<1>1. /\ st \in State /\ handler \in Handlers /\ chain \in [Sides -> Nat]
      /\ lost \in [Sides -> Nat] /\ Slices /\ Accounted /\ WithinPlan /\ Unearned
      /\ Executing => handler.task \in Task
  BY DEF BudgetInv, TasksInv, RunsInv, CreditInv, TypeInv, EngineOK, CountersOK
<1>2. \A d \in Sides : st.exec[d] \in Nat /\ chain[d] \in Nat /\ lost[d] \in Nat
  BY <1>1 DEF State
<1>3. /\ UNCHANGED <<st, disk>> /\ Executing /\ Executing'
      /\ handler'.task = handler.task
  BY <1>1 DEF AccountsReady, SliceFills, SliceFails, Executing, Handlers
<1>4. WithinPlan'
  BY <1>1, <1>3 DEF WithinPlan, Hand
<1> DEFINE t == handler.task
           side == t.side
<1>5. t \in Task /\ side \in Sides /\ t.amt \in Nat
  BY <1>1, <1>3 DEF Task
<1>6. handler.ok \in Nat /\ handler.left \in Nat
  BY <1>1 DEF Handlers
<1>7. CASE AccountsReady
  <2>1. PICK n \in 1 .. t.amt : handler' = [handler EXCEPT !.pc = "trade", !.left = n]
    BY <1>7 DEF AccountsReady
  <2>2. /\ handler.pc = "allocate" /\ handler'.pc = "trade" /\ handler'.left = n
        /\ handler'.ok = 0 /\ handler.ok = 0 /\ UNCHANGED <<chain, lost>>
    BY <1>1, <1>7, <2>1 DEF AccountsReady, Handlers, Unearned
  <2>3. \A d \in Sides : Earned(d) = 0 /\ Earned(d)' = 0
    BY <2>2 DEF Earned
  <2>4. Accounted'
    BY <1>1, <1>3, <2>2, <2>3 DEF Accounted
  <2>5. Slices'
    BY <1>3, <1>5, <2>2 DEF Slices
  <2> QED
    BY <1>4, <2>4, <2>5
<1>8. CASE SliceFills \/ SliceFails
  <2>1. PICK f, c, l \in {0, 1} :
          /\ handler.pc = "trade" /\ handler'.pc = "trade" /\ handler.left > 0
          /\ handler'.left = handler.left - 1 /\ handler'.ok = handler.ok + f
          /\ chain' = [chain EXCEPT ![side] = @ + c]
          /\ lost' = [lost EXCEPT ![side] = @ + l]
          /\ c = f + l
    <3>1. chain = [chain EXCEPT ![side] = @ + 0] /\ lost = [lost EXCEPT ![side] = @ + 0]
      BY <1>1, <1>2, <1>5
    <3>2. CASE SliceFills
      <4>1. /\ handler.pc = "trade" /\ handler'.pc = "trade" /\ handler.left > 0
            /\ handler'.left = handler.left - 1 /\ handler'.ok = handler.ok + 1
            /\ chain' = [chain EXCEPT ![side] = @ + 1] /\ lost' = lost
        BY <1>1, <3>2 DEF SliceFills, Swaps, Handlers
      <4> QED
        BY <3>1, <4>1
    <3>3. CASE SliceFails
      <4>1. /\ handler.pc = "trade" /\ handler'.pc = "trade" /\ handler.left > 0
            /\ handler'.left = handler.left - 1 /\ handler'.ok = handler.ok
            /\ \/ UNCHANGED <<chain, lost>>
               \/ /\ chain' = [chain EXCEPT ![side] = @ + 1]
                  /\ lost' = [lost EXCEPT ![side] = @ + 1]
        BY <1>1, <3>3 DEF SliceFails, NotSized, NotOrdered, NotConfirmed, Swaps, Handlers
      <4>2. handler'.ok = handler.ok + 0
        BY <1>6, <4>1
      <4> QED
        BY <3>1, <4>1, <4>2
    <3> QED
      BY <1>8, <3>2, <3>3
  <2>2. Slices'
    BY <1>1, <1>3, <1>5, <1>6, <2>1 DEF Slices
  <2>3. \A d \in Sides : /\ Earned(d) = IF side = d THEN handler.ok ELSE 0
                         /\ Earned(d)' = IF side = d THEN handler.ok + f ELSE 0
    BY <1>3, <2>1 DEF Earned
  <2> HIDE DEF side
  <2>4. ASSUME NEW d \in Sides PROVE chain'[d] <= st'.exec[d] + lost'[d] + Earned(d)'
    <3>1. chain[d] <= st.exec[d] + lost[d] + Earned(d)
      BY <1>1 DEF Accounted
    <3>2. CASE d = side
      <4>1. chain'[d] = chain[d] + c /\ lost'[d] = lost[d] + l
        BY <1>1, <2>1, <3>2
      <4> QED
        BY <1>2, <1>3, <1>6, <2>1, <2>3, <3>1, <3>2, <4>1
    <3>3. CASE d # side
      <4>1. chain'[d] = chain[d] /\ lost'[d] = lost[d]
        BY <1>1, <2>1, <3>3
      <4> QED
        BY <1>2, <1>3, <2>3, <3>1, <3>3, <4>1
    <3> QED
      BY <3>2, <3>3
  <2> QED
    BY <1>4, <2>2, <2>4 DEF Accounted
<1> QED
  BY <1>7, <1>8

\* markCompleted supersedes what is queued and leaves the held task.
LEMMA CompletedPlaces ==
  ASSUME NEW s \in State
  PROVE  /\ Completed(s).pending = <<>>
         /\ Completed(s).paused = s.paused
         /\ Completed(s).cfg = s.cfg
         /\ \A i \in TaskIds : i \notin IdsOf(s.pending) => Completed(s).snap[i] = s.snap[i]
<1> DEFINE table == [i \in TaskIds |-> IF i \in IdsOf(s.pending)
                                       THEN [s.snap[i] EXCEPT !.status = "superseded"]
                                       ELSE s.snap[i]]
<1>1. Supersede(s) = [[s EXCEPT !.snap = table] EXCEPT !.pending = <<>>]
  BY DEF Supersede
<1>2. \A i \in TaskIds : i \notin IdsOf(s.pending) => table[i] = s.snap[i]
  OBVIOUS
<1> HIDE DEF table
<1>3. /\ Supersede(s).pending = <<>> /\ Supersede(s).paused = s.paused
      /\ Supersede(s).cfg = s.cfg /\ Supersede(s).snap = table /\ Supersede(s) \in State
  BY <1>1, SupersedeState DEF State
<1>4. /\ Completed(s).pending = <<>> /\ Completed(s).paused = s.paused
      /\ Completed(s).cfg = s.cfg /\ Completed(s).snap = table
  BY <1>3 DEF Completed, State
<1> QED
  BY <1>2, <1>4

\* markTaskDone changes one snapshot: the task is done, or was never queued.
LEMMA MarkDonePlaces ==
  ASSUME NEW s \in State, NEW i \in TaskIds
  PROVE  /\ MarkDone(s, i).pending = s.pending
         /\ MarkDone(s, i).paused = s.paused
         /\ MarkDone(s, i).cfg = s.cfg
         /\ MarkDone(s, i).snap[i].status \in {"none", "done"}
         /\ \A j \in TaskIds : j # i => MarkDone(s, i).snap[j] = s.snap[j]
<1> DEFINE entry == IF s.snap[i].status = "none" THEN s.snap[i]
                    ELSE [status |-> "done", attempts |-> s.snap[i].attempts + 1]
<1>1. s.snap \in [TaskIds -> Snapshot]
  BY DEF State
<1>2. entry.status \in {"none", "done"}
  OBVIOUS
<1>3. MarkDone(s, i) = [s EXCEPT !.snap[i] = entry]
  BY DEF MarkDone
<1> HIDE DEF entry
<1>4. /\ MarkDone(s, i).pending = s.pending /\ MarkDone(s, i).paused = s.paused
      /\ MarkDone(s, i).cfg = s.cfg /\ MarkDone(s, i).snap = [s.snap EXCEPT ![i] = entry]
  BY <1>3 DEF State
<1> QED
  BY <1>1, <1>2, <1>4

\* alarm() saves, completes or pops, in a state that holds some tasks.
LEMMA BeginningWithin ==
  ASSUME NEW s \in State, NEW hand, Budgeted(s, hand), Budgeted(disk, {}),
         Finishes(s) \/ Saves(s)
  PROVE  WithinPlan' /\ st'.exec = s.exec /\ handler'.pc = "idle"
<1>1. handler'.pc = "idle" /\ ~Executing'
  BY RestingHandler DEF Finishes, Saves, Ends, Executing
<1>2. Completed(s).exec = s.exec
  BY QueueVolumes DEF SameVolumes
<1>3. Completed(s).pending = <<>> /\ Completed(s).paused = s.paused
  BY CompletedPlaces
<1>4. /\ st'.exec = s.exec /\ st'.pending \in {s.pending, <<>>}
      /\ st'.paused \in {s.paused, NoTask} /\ disk' = st'
  BY <1>2, <1>3 DEF Finishes, Saves
<1>5. Budgeted(st', {})
  <2>1. {} \in SUBSET hand
    OBVIOUS
  <2> QED
    BY <1>4, <2>1, BudgetShrinks
<1> QED
  BY <1>1, <1>4, <1>5 DEF WithinPlan, Hand

\* A task in hand fails.
LEMMA FailingWithin ==
  ASSUME NEW s \in State, NEW t \in Task, Budgeted(s, {t}), Budgeted(disk, {}), Fails(s, t)
  PROVE  WithinPlan' /\ st'.exec = s.exec /\ handler'.pc = "idle"
<1>1. PICK pos \in 1 .. Len(s.pending) + 1 :
        st' = Fail(s, t, pos) /\ disk' \in {disk, st'} /\ Ends
  BY DEF Fails
<1>2. handler'.pc = "idle" /\ ~Executing'
  BY <1>1, RestingHandler DEF Ends, Executing
<1>3. Budgeted(st', {})
  BY <1>1, BudgetFails
<1>4. st'.exec = s.exec
  BY <1>1, FailPlaces
<1> QED
  BY <1>1, <1>2, <1>3, <1>4 DEF WithinPlan, Hand

\* An execution ends: what is counted of it is crossed off, and what is not is
\* lost.
LEMMA EndingAccounted ==
  ASSUME BudgetInv, TypeInv', ExecutionEnds
  PROVE  Slices' /\ Accounted' /\ WithinPlan'
<1> DEFINE t == handler.task
           credited == Credit(st, t.side, handler.ok)
           rest == [t EXCEPT !.amt = t.amt - handler.ok]
           n == Volume(credited) - Volume(st)
<1>1. /\ st \in State /\ handler \in Handlers /\ lost \in [Sides -> Nat]
      /\ PlainInv /\ Slices /\ WithinPlan /\ HandOK
      /\ Executing => handler.task \in Task
  BY DEF BudgetInv, TasksInv, RunsInv, TypeInv, EngineOK, CountersOK, PlainInv
<1>2. /\ handler.ok \in 0 .. t.amt /\ handler.pc = "trade" /\ UNCHANGED chain
      /\ LosesFills(handler.ok - n) /\ PlainEnd(t, credited, rest)
  BY <1>1, PlainEnds
<1>3. t \in Task /\ t.amt \in Nat \ {0} /\ t.side \in Sides /\ t.id \in TaskIds
  BY <1>1, <1>2 DEF Executing, Task
<1>4. /\ Free(st, t.id) /\ Budgeted(st, {t}) /\ Budgeted(disk, {})
  BY <1>1, <1>2 DEF HandOK, Executing, WithinPlan, Hand
<1>5. handler.ok \in Nat
  BY <1>1 DEF Handlers
<1>6. /\ n \in 0 .. handler.ok
      /\ credited.exec = [st.exec EXCEPT ![t.side] = @ + n]
      /\ ~st.cfg.set => n = 0
  BY <1>1, <1>3, <1>5, CreditCounts
<1>7. credited \in State /\ credited.pending = st.pending /\ credited.paused = st.paused
  BY <1>1, <1>2, ExecutionGoesOn DEF PlainInv
<1>8. handler.ok < t.amt => rest \in Task
  BY <1>2, <1>3, <1>5 DEF Task
<1>9. LosesFills(handler.ok - n)
  BY <1>2
<1> HIDE DEF n
<1>10. /\ Budgeted(credited, {})
       /\ handler.ok < t.amt => Budgeted(credited, {rest})
  <2>1. \A d \in Sides :
           credited.exec[d] <= st.exec[d] + (IF d = t.side THEN handler.ok ELSE 0)
    BY <1>1, <1>3, <1>5, CreditExec
  <2> HIDE DEF credited, t
  <2> QED
    BY <1>1, <1>2, <1>3, <1>4, <1>7, <2>1, BudgetSpends DEF rest
<1>11. credited.exec = st.exec \/ st.cfg.set
  <2>1. st.exec \in [Sides -> Nat]
    BY <1>1 DEF State
  <2>2. n = 0 => [st.exec EXCEPT ![t.side] = @ + n] = st.exec
    BY <1>3, <2>1
  <2> QED
    BY <1>6, <2>2
<1> HIDE DEF credited, rest
<1>12. WithinPlan' /\ st'.exec = credited.exec /\ handler'.pc = "idle"
  <2> HIDE DEF t
  <2>1. CASE ~st.cfg.set /\ Fails(st, t)
    BY <1>1, <1>3, <1>4, <1>11, <2>1, FailingWithin
  <2>2. CASE Finishes(MarkDone(credited, t.id)) \/ Saves(MarkDone(credited, t.id))
    <3> DEFINE u == MarkDone(credited, t.id)
    <3>1. u \in State
      BY <1>3, <1>7, MarkDoneState
    <3>2. u.exec = credited.exec
      BY <1>3, <1>7, QueueVolumes DEF SameVolumes
    <3>3. u.pending = credited.pending /\ u.paused = credited.paused
      BY <1>3, <1>7, MarkDonePlaces
    <3> HIDE DEF u
    <3>4. {} \in SUBSET {}
      OBVIOUS
    <3>5. Budgeted(u, {})
      BY <1>10, <3>2, <3>3, <3>4, BudgetShrinks
    <3>6. Finishes(u) \/ Saves(u)
      BY <2>2 DEF u
    <3> QED
      BY <1>4, <3>1, <3>2, <3>5, <3>6, BeginningWithin
  <2>3. CASE handler.ok < t.amt /\ Fails(credited, rest)
    BY <1>4, <1>7, <1>8, <1>10, <2>3, FailingWithin
  <2>4. CASE /\ handler.ok < t.amt
             /\ \E pos \in 1 .. Len(st.pending) + 1 :
                   Finishes(Fail(credited, rest, pos)) \/ Saves(Fail(credited, rest, pos))
    <3>1. PICK pos \in 1 .. Len(credited.pending) + 1 :
             Finishes(Fail(credited, rest, pos)) \/ Saves(Fail(credited, rest, pos))
      BY <1>7, <2>4
    <3>2. rest \in Task
      BY <1>8, <2>4
    <3>3. Fail(credited, rest, pos) \in State
      BY <1>7, <3>2, FailState
    <3>4. Fail(credited, rest, pos).exec = credited.exec
      BY <1>7, <3>2, FailPlaces
    <3>5. Budgeted(Fail(credited, rest, pos), {})
      BY <1>7, <1>10, <2>4, <3>2, BudgetFails
    <3> QED
      BY <1>4, <3>1, <3>3, <3>4, <3>5, BeginningWithin
  <2> QED
    BY <1>2, <2>1, <2>2, <2>3, <2>4 DEF PlainEnd
<1>13. ASSUME NEW d \in Sides
       PROVE  st.exec[d] + lost[d] + Earned(d) <= st'.exec[d] + lost'[d]
  <2>1. st.exec[d] \in Nat /\ lost[d] \in Nat /\ n \in Nat /\ n <= handler.ok
    BY <1>1, <1>5, <1>6 DEF State
  <2>2. Earned(d) = IF d = t.side THEN handler.ok ELSE 0
    BY <1>2 DEF Earned
  <2>3. st'.exec[d] = IF d = t.side THEN st.exec[d] + n ELSE st.exec[d]
    <3>1. st.exec \in [Sides -> Nat]
      BY <1>1 DEF State
    <3> QED
      BY <1>3, <1>6, <1>12, <3>1
  <2>4. lost'[d] = IF d = t.side THEN lost[d] + (handler.ok - n) ELSE lost[d]
    BY <1>1, <1>3, <1>9 DEF LosesFills
  <2> HIDE DEF t
  <2> QED
    BY <1>5, <2>1, <2>2, <2>3, <2>4
<1> QED
  BY <1>2, <1>12, <1>13, EndAccounted

\* The other steps of alarm().
LEMMA HandlerAccounted ==
  ASSUME Unreported, BudgetInv, TypeInv', AlarmHandler
  PROVE  Slices' /\ Accounted' /\ WithinPlan'
<1>1. /\ TypeInv /\ st \in State /\ disk \in State /\ handler \in Handlers
      /\ chain \in [Sides -> Nat] /\ lost \in [Sides -> Nat]
      /\ Executing => handler.task \in Task /\ Free(st, handler.task.id)
      /\ PlainInv /\ Slices /\ Accounted /\ WithinPlan
  BY DEF BudgetInv, TasksInv, HandOK, RunsInv, TypeInv, EngineOK, CountersOK, PlainInv
<1>2. \A d \in Sides : st.exec[d] \in Nat /\ lost[d] \in Nat /\ Earned(d) \in Nat
  BY <1>1 DEF State, Handlers, Earned
<1>3. Budgeted(disk, {}) /\ Budgeted(st, Hand)
  BY <1>1 DEF WithinPlan
<1>4. CASE UNCHANGED <<st, disk, handler, chain, lost>>
  <2>1. \A d : Earned(d)' = Earned(d)
    BY <1>4 DEF Earned
  <2>2. Hand' = Hand
    BY <1>4 DEF Hand, Executing
  <2> QED
    BY <1>1, <1>4, <2>1, <2>2 DEF Slices, Accounted, WithinPlan
<1>5. CASE Begins
  <2>1. \A d \in Sides : Earned(d) = 0
    BY <1>5 DEF Begins, Earned
  <2>2. WithinPlan' /\ st'.exec = st.exec /\ handler'.pc # "trade"
    <3>1. CASE Finishes(st) \/ Saves(st)
      BY <1>1, <1>3, <3>1, BeginningWithin
    <3>2. CASE Pops(st)
      <4>1. /\ handler'.pc = "allocate" /\ handler'.task = Head(st.pending)
            /\ disk' = disk /\ st' = [st EXCEPT !.pending = Tail(@)]
            /\ st.pending # <<>>
        BY <3>2 DEF Pops, Resting
      <4>2. Hand' = {Head(st.pending)}
        BY <4>1 DEF Hand, Executing
      <4>3. Budgeted(st', Hand')
        BY <1>1, <1>3, <4>1, <4>2, BudgetPops
      <4>4. st'.exec = st.exec
        BY <1>1, <4>1 DEF State
      <4> QED
        BY <1>3, <4>1, <4>3, <4>4 DEF WithinPlan
    <3> QED
      BY <1>5, <3>1, <3>2 DEF Begins
  <2>3. \A d \in Sides : st.exec[d] + lost[d] + Earned(d) <= st'.exec[d] + lost'[d]
    BY <1>2, <1>5, <2>1, <2>2 DEF Begins
  <2>4. UNCHANGED chain
    BY <1>5 DEF Begins
  <2> QED
    BY <2>2, <2>3, <2>4, EndAccounted
<1>6. CASE NoAccounts
  <2>1. /\ st' = [st EXCEPT !.status = "aborted", !.pending = <<>>] /\ disk' = st'
        /\ Ends /\ UNCHANGED <<chain, lost>> /\ handler.pc = "allocate"
    BY <1>6 DEF NoAccounts, SaveWith
  <2>2. st'.exec = st.exec /\ st'.pending = <<>> /\ st'.paused = st.paused
    BY <1>1, <2>1 DEF State
  <2>3. handler'.pc = "idle" /\ ~Executing'
    BY <2>1, RestingHandler DEF Ends, Executing
  <2>4. {} \in SUBSET Hand
    OBVIOUS
  <2>5. Budgeted(st', {})
    BY <1>3, <2>2, <2>4, BudgetShrinks
  <2>6. WithinPlan'
    BY <2>1, <2>3, <2>5 DEF WithinPlan, Hand
  <2>7. \A d \in Sides : Earned(d) = 0
    BY <2>1 DEF Earned
  <2>8. \A d \in Sides : st.exec[d] + lost[d] + Earned(d) <= st'.exec[d] + lost'[d]
    BY <1>2, <2>1, <2>2, <2>7
  <2> QED
    BY <2>1, <2>3, <2>6, <2>8, EndAccounted
<1>7. CASE ExecutionThrows
  <2> DEFINE t == handler.task
  <2>1. Executing /\ t \in Task /\ Hand = {t}
    BY <1>1, <1>7 DEF ExecutionThrows, KeyUnreadable, Executing, Hand
  <2>2. Fails(st, t) /\ LosesFills(handler.ok) /\ UNCHANGED chain
    BY <1>7, FailuresEnd DEF ExecutionThrows
  <2> HIDE DEF t
  <2>3. WithinPlan' /\ st'.exec = st.exec /\ handler'.pc = "idle"
    BY <1>1, <1>3, <2>1, <2>2, FailingWithin
  <2>4. \A d \in Sides : st.exec[d] + lost[d] + Earned(d) <= st'.exec[d] + lost'[d]
    <3>1. handler.ok \in Nat
      BY <1>1 DEF Handlers
    <3>2. \A d \in Sides : lost'[d] = IF d = t.side THEN lost[d] + handler.ok ELSE lost[d]
      BY <1>1, <2>1, <2>2 DEF LosesFills, t
    <3> QED
      BY <1>2, <2>3, <3>1, <3>2 DEF Earned, t
  <2> QED
    BY <2>2, <2>3, <2>4, EndAccounted
<1>8. CASE ExecutionEnds
  BY <1>8, <1>1, EndingAccounted
<1> QED
  BY <1>1, <1>4, <1>5, <1>6, <1>7, <1>8, PlainHandler, TradingAccounted

\* What no event touches stays within the plan: one step.
LEMMA BudgetStep ==
  ASSUME StartsAlone, Unreported, BudgetInv, [Next]_vars
  PROVE  BudgetInv'
<1>1. /\ TypeInv /\ st \in State /\ disk \in State /\ handler \in Handlers
      /\ chain \in [Sides -> Nat] /\ lost \in [Sides -> Nat] /\ Undisturbed
      /\ PlainInv /\ Slices /\ Accounted /\ WithinPlan
  BY DEF BudgetInv, TasksInv, RunsInv, TypeInv, EngineOK, CountersOK, PlainInv
<1>2. TasksInv' /\ CreditInv' /\ Plain'
  BY <1>1, TasksStep, CreditStep, PlainStep DEF BudgetInv
<1>3. TypeInv'
  BY <1>2 DEF TasksInv, RunsInv
<1> SUFFICES Slices' /\ Accounted' /\ WithinPlan'
  BY <1>2 DEF BudgetInv
<1>4. \A d \in Sides : /\ st.exec[d] \in Nat /\ disk.exec[d] \in Nat /\ lost[d] \in Nat
                       /\ chain[d] \in Nat /\ Earned(d) \in Nat
  BY <1>1 DEF State, Handlers, Earned
<1>5. Budgeted(st, Hand) /\ Budgeted(disk, {}) /\ {} \in SUBSET Hand /\ Hand \in SUBSET Hand
  BY <1>1 DEF WithinPlan
<1>6. ASSUME UNCHANGED <<handler, chain, lost>>, st'.exec = st.exec, disk' = st',
             Budgeted(st', Hand), Budgeted(st', {})
      PROVE  Slices' /\ Accounted' /\ WithinPlan'
  <2>1. \A d : Earned(d)' = Earned(d)
    BY <1>6 DEF Earned
  <2>2. Hand' = Hand
    BY <1>6 DEF Hand, Executing
  <2> QED
    BY <1>1, <1>6, <2>1, <2>2 DEF Slices, Accounted, WithinPlan
<1>7. ASSUME NEW r \in Runs, Start(r) PROVE Slices' /\ Accounted' /\ WithinPlan'
  <2>1. handler.pc = "idle" /\ UNCHANGED handler
    BY <1>1, <1>7 DEF Start, Undisturbed
  <2>2. /\ st' = Started(st, r) /\ disk' = st'
        /\ \A d \in Sides : chain'[d] = 0 /\ lost'[d] = 0
    BY <1>7 DEF Start, SaveWith
  <2>3. Budgeted(st', {})
    BY <1>1, <2>2, BudgetStarts
  <2>4. st'.exec = [d \in Sides |-> 0]
    BY <1>1, <2>2, StartedPlaces
  <2>5. \A d \in Sides : Earned(d)' = 0
    BY <2>1 DEF Earned
  <2>6. Accounted'
    BY <2>2, <2>4, <2>5 DEF Accounted
  <2>7. WithinPlan'
    BY <2>1, <2>2, <2>3 DEF WithinPlan, Hand, Executing
  <2>8. Slices'
    BY <2>1 DEF Slices
  <2> QED
    BY <2>6, <2>7, <2>8
<1>8. CASE Abort \/ Pause
  <2>1. /\ \/ st' = [st EXCEPT !.status = "aborted", !.pending = <<>>]
           \/ st' = [st EXCEPT !.status = "paused"]
        /\ disk' = st' /\ UNCHANGED <<handler, chain, lost>>
    BY <1>8 DEF Abort, Pause, SaveWith
  <2>2. /\ st'.exec = st.exec /\ st'.pending \in {st.pending, <<>>}
        /\ st'.paused \in {st.paused, NoTask}
    BY <1>1, <2>1 DEF State
  <2>3. Budgeted(st', Hand) /\ Budgeted(st', {})
    BY <1>5, <2>2, BudgetShrinks
  <2> QED
    BY <1>6, <2>1, <2>2, <2>3
<1>9. CASE Resume
  <2>1. PICK pos \in 1 .. Len(st.pending) + 1 : st' = Resumed(st, pos) /\ disk' = st'
    BY <1>9 DEF Resume, Save, SaveWith
  <2>2. UNCHANGED <<handler, chain, lost>>
    BY <1>9 DEF Resume
  <2>3. st'.exec = st.exec
    BY <1>1, <2>1, ResumedPlaces
  <2>4. st'.pending \in {st'.pending, <<>>} /\ st'.paused \in {st'.paused, NoTask}
    OBVIOUS
  <2>5. Budgeted(st', Hand)
    BY <1>1, <1>5, <2>1, BudgetResumes
  <2>6. Budgeted(st', {})
    BY <1>5, <2>4, <2>5, BudgetShrinks
  <2> QED
    BY <1>6, <2>1, <2>2, <2>3, <2>5, <2>6
<1>10. CASE AlarmHandler
  BY <1>3, <1>10, HandlerAccounted
<1>11. CASE Crash
  <2>1. /\ st' = disk /\ UNCHANGED <<disk, chain>> /\ handler'.pc = "idle"
        /\ \A d \in Sides : lost'[d] = lost[d] + Unsaved(d)
    BY <1>11, RestingHandler DEF Crash
  <2>2. ASSUME NEW d \in Sides
        PROVE  st.exec[d] + lost[d] + Earned(d) <= st'.exec[d] + lost'[d]
    <3> DEFINE filled == IF Executing /\ handler.task.side = d THEN handler.ok ELSE 0
    <3>1. Earned(d) <= filled /\ filled \in Nat
      BY <1>1 DEF Earned, Executing, Handlers
    <3>2. Unsaved(d) = Monus(st.exec[d], disk.exec[d]) + filled
      BY DEF Unsaved
    <3> HIDE DEF filled
    <3>3. /\ Monus(st.exec[d], disk.exec[d]) \in Nat
          /\ st.exec[d] <= disk.exec[d] + Monus(st.exec[d], disk.exec[d])
      BY <1>4 DEF Monus
    <3>4. lost'[d] = lost[d] + Unsaved(d) /\ st'.exec[d] = disk.exec[d]
      BY <2>1
    <3> QED
      BY <1>4, <3>1, <3>2, <3>3, <3>4
  <2>3. Slices' /\ Accounted'
    BY <1>3, <2>1, <2>2, EndAccounted
  <2>4. WithinPlan'
    BY <1>5, <2>1 DEF WithinPlan, Hand, Executing
  <2> QED
    BY <2>3, <2>4
<1>12. CASE UNCHANGED vars
  <2>1. /\ \A d : Earned(d)' = Earned(d)
        /\ Hand' = Hand /\ UNCHANGED <<st, disk, handler, chain, lost>>
    BY <1>12 DEF vars, Earned, Hand, Executing
  <2> QED
    BY <1>1, <2>1 DEF Slices, Accounted, WithinPlan
<1>13. ~Clear /\ ~ \E x \in Txs : WebhookArrives(x) \/ WebhookApplies(x)
  BY DEF Clear, UseOp, Unreported
<1> QED
  BY <1>7, <1>8, <1>9, <1>10, <1>11, <1>12, <1>13 DEF Next

\* Nothing was traded, and nothing may be, in the beginning.
LEMMA BudgetInit == Init => BudgetInv
<1> SUFFICES ASSUME Init PROVE BudgetInv
  OBVIOUS
<1>1. TasksInv
  BY TasksInit
<1>2. /\ st = Idle /\ disk = Idle /\ handler = Resting
      /\ \A d \in Sides : chain[d] = 0 /\ lost[d] = 0
  BY DEF Init
<1>3. handler.pc = "idle" /\ ~handler.detached
  BY <1>2 DEF Resting
<1>4. /\ Idle.exec = [d \in Sides |-> 0] /\ Idle.pending = <<>> /\ Idle.paused = NoTask
      /\ Idle.cfg.set = FALSE /\ Idle.status = "idle"
  BY DEF Idle, NoConfig
<1>5. Plain
  BY <1>2, <1>3, <1>4 DEF Plain, OwnPlan
<1>6. CreditInv
  BY <1>1, <1>2, <1>3, <1>4 DEF TasksInv, CreditInv, Covered, Unearned, Earned
<1>7. Slices /\ Accounted
  BY <1>2, <1>3, <1>4 DEF Slices, Accounted, Earned
<1>8. Budgeted(Idle, {})
  <2> SUFFICES ASSUME NEW d \in Sides PROVE \E b \in Ledgers : Keeps(b, d, Idle)
    BY DEF Budgeted
  <2>1. PICK b \in Ledgers : b[Len(BasePlan)] = BaseVolume(d)
    BY FirstLedger
  <2>2. <<>> \in Seq(Allowed(b, d)) /\ BaseVolume(d) \in Nat
    BY BaseVolumeNat
  <2>3. 0 + BaseVolume(d) <= BaseVolume(d)
    BY <2>2
  <2> QED
    BY <1>4, <2>1, <2>2, <2>3 DEF Keeps
<1>9. WithinPlan
  BY <1>2, <1>3, <1>8 DEF WithinPlan, Hand, Executing
<1> QED
  BY <1>1, <1>5, <1>6, <1>7, <1>9 DEF BudgetInv

\* What was traded and not lost is counted, or is a part of the task in hand that
\* the ledger allows.
LEMMA BudgetHolds == BudgetInv => \A d \in Sides : chain[d] <= BaseVolume(d) + lost[d]
<1> SUFFICES ASSUME BudgetInv, NEW d \in Sides PROVE chain[d] <= BaseVolume(d) + lost[d]
  OBVIOUS
<1>1. /\ st \in State /\ handler \in Handlers /\ chain \in [Sides -> Nat]
      /\ lost \in [Sides -> Nat] /\ Slices /\ Accounted /\ WithinPlan
      /\ Executing => handler.task \in Task
  BY DEF BudgetInv, TasksInv, RunsInv, TypeInv, EngineOK, CountersOK
<1>2. PICK b \in Ledgers : Keeps(b, d, st) /\ Hand \subseteq Allowed(b, d)
  BY <1>1 DEF WithinPlan, Budgeted
<1>3. Len(BasePlan) \in 0 .. Len(BasePlan)
  BY ShareNat
<1>4. /\ st.exec[d] \in Nat /\ b[Len(BasePlan)] \in Nat /\ BaseVolume(d) \in Nat
      /\ chain[d] \in Nat /\ lost[d] \in Nat /\ handler.ok \in Nat /\ handler.left \in Nat
  <2>1. st.exec[d] \in Nat
    BY <1>1 DEF State
  <2>2. b[Len(BasePlan)] \in Nat
    BY <1>3 DEF Ledgers
  <2>3. BaseVolume(d) \in Nat
    BY BaseVolumeNat
  <2>4. handler.ok \in Nat /\ handler.left \in Nat
    BY <1>1 DEF Handlers
  <2> QED
    BY <1>1, <2>1, <2>2, <2>3, <2>4
<1>5. Earned(d) \in Nat /\ Earned(d) <= b[Len(BasePlan)]
  <2>1. CASE handler.pc = "trade" /\ handler.task.side = d
    <3>1. handler.task \in Allowed(b, d) /\ handler.task \in Task
      BY <1>1, <1>2, <2>1 DEF Hand, Executing
    <3>2. handler.task.amt \in Nat
      BY <3>1 DEF Task
    <3>3. PICK k \in Slots : b[k - 1] + handler.task.amt <= b[k]
      BY <2>1, <3>1 DEF Allowed, Allows
    <3>4. /\ k - 1 \in 0 .. Len(BasePlan) /\ k \in 0 .. Len(BasePlan)
          /\ k <= Len(BasePlan)
      BY ShareNat DEF Slots
    <3>5. b[k - 1] \in Nat /\ b[k] \in Nat /\ b[k] <= b[Len(BasePlan)]
      BY <1>3, <3>4 DEF Ledgers
    <3>6. handler.ok <= handler.task.amt
      BY <1>1, <1>4, <2>1, <3>2 DEF Slices
    <3>7. Earned(d) = handler.ok
      BY <2>1 DEF Earned
    <3> QED
      BY <1>4, <3>2, <3>3, <3>5, <3>6, <3>7
  <2>2. CASE ~(handler.pc = "trade" /\ handler.task.side = d)
    BY <1>4, <2>2 DEF Earned
  <2> QED
    BY <2>1, <2>2
<1>6. st.exec[d] + b[Len(BasePlan)] <= BaseVolume(d)
  BY <1>2 DEF Keeps
<1>7. chain[d] <= st.exec[d] + lost[d] + Earned(d)
  BY <1>1 DEF Accounted
<1> QED
  BY <1>4, <1>5, <1>6, <1>7

\* Runs that are not cleared, and either never share the object or are never
\* aborted, trade their plan and no more: through retries of what a slice did
\* not fill, pauses, resumes, crashes and starts, whatever is traded past the
\* plan was traded again for a fill that was lost.
THEOREM TradesPlanOnly ==
  ASSUME StartsAlone, "clear" \notin UserOps
  PROVE  Spec => []TradesItsPlan
<1>1. CASE Txs = {}
  <2>1. Unreported
    BY <1>1 DEF Unreported
  <2>2. Init => BudgetInv
    BY BudgetInit
  <2>3. BudgetInv /\ [Next]_vars => BudgetInv'
    BY <2>1, BudgetStep
  <2>4. BudgetInv => TradesItsPlan
    BY BudgetHolds DEF TradesItsPlan
  <2> QED
    BY <2>2, <2>3, <2>4, PTL DEF Spec
<1>2. CASE Txs # {}
  <2>1. TradesItsPlan
    BY <1>2 DEF TradesItsPlan
  <2> QED
    BY <2>1, PTL
<1> QED
  BY <1>1, <1>2
-----------------------------------------------------------------------------
(* A completed run is done.                                                 *)

\* A plan's task that was queued and is not done is still there while the run is
\* not over, but for the tasks in hand.
Unfinished(s) == {i \in TaskIds : s.snap[i].status \notin {"none", "done"}}
Kept(s, inHand) ==
    s.status \in {"running", "paused"} => Unfinished(s) \subseteq Taken(s) \cup inHand

\* A completed run has traded its target, or has nothing unfinished.
DoneWith(s) ==
    s.status = "completed" => Volume(s) >= ManagedTarget(s) \/ Unfinished(s) = {}

HeldPaused(s) == s.paused # NoTask => s.status = "paused"

\* alarm() at work has its run running, or paused by the user, and no task held.
Attended ==
    handler.pc # "idle" =>
        /\ st.paused = NoTask
        /\ st.status = "running" \/ ("pause" \in UserOps /\ st.status = "paused")

HandIds == IF Executing THEN {handler.task.id} ELSE {}

\* A pause saves the state without the task in hand; what is stored has all the
\* tasks where there are no pauses.
Retained ==
    /\ Kept(st, HandIds)
    /\ "pause" \in UserOps \/ Kept(disk, {})
    /\ DoneWith(st) /\ DoneWith(disk)
    /\ HeldPaused(st) /\ HeldPaused(disk)
    /\ Attended

DoneInv == BudgetInv /\ Retained

\* Nobody stops the run but a user who pauses it, and then nothing crashes.
Uninterrupted ==
    /\ UserOps \cap {"abort", "clear"} = {}
    /\ "pause" \in UserOps => MaxCrashes = 0

\* A step after which alarm() is at rest and every task is in the queue or held.
LEMMA RestRetained ==
  ASSUME Retained, handler'.pc = "idle", disk' \in {disk, st'},
         Kept(st', {}), DoneWith(st'), HeldPaused(st')
  PROVE  Retained'
<1>1. HandIds' = {}
  BY DEF HandIds, Executing
<1>2. Attended'
  BY DEF Attended
<1>3. /\ "pause" \in UserOps \/ Kept(disk', {})
      /\ DoneWith(disk') /\ HeldPaused(disk')
  BY DEF Retained
<1>4. Kept(st', HandIds')
  BY <1>1
<1> QED
  BY <1>2, <1>3, <1>4 DEF Retained

\* alarm() saves or completes a run that has all its tasks.
LEMMA FinishRetained ==
  ASSUME NEW s \in State, Kept(s, {}), s.status \in {"running", "paused"},
         s.paused = NoTask, Retained, Finishes(s) \/ Saves(s)
  PROVE  Retained'
<1>1. handler'.pc = "idle" /\ disk' = st'
  BY RestingHandler DEF Finishes, Saves, Ends
<1>2. CASE Saves(s)
  <2>1. st' = s
    BY <1>2 DEF Saves
  <2>2. Kept(st', {}) /\ DoneWith(st') /\ HeldPaused(st')
    BY <2>1 DEF DoneWith, HeldPaused
  <2> QED
    BY <1>1, <2>2, RestRetained
<1>3. CASE Finishes(s)
  <2>1. st' = Completed(s) /\ (Volume(s) >= ManagedTarget(s) \/ s.pending = <<>>)
    BY <1>3 DEF Finishes
  <2> DEFINE u == Completed(s)
  <2>2. u \in State /\ u.status = "completed"
    BY CompletedState
  <2>3. u.paused = NoTask /\ \A i \in TaskIds : i \notin IdsOf(s.pending) => u.snap[i] = s.snap[i]
    BY CompletedPlaces
  <2>4. SameVolumes(u, s)
    BY QueueVolumes
  <2> HIDE DEF u
  <2>5. Volume(u) = Volume(s) /\ ManagedTarget(u) = ManagedTarget(s)
    BY <2>2, <2>4, VolumesDecide
  <2>6. s.pending = <<>> => Unfinished(u) = {}
    <3> SUFFICES ASSUME s.pending = <<>>, NEW i \in Unfinished(u) PROVE FALSE
      OBVIOUS
    <3>1. IdsOf(s.pending) = {}
      BY SmallIds
    <3>2. Taken(s) = {}
      BY <3>1 DEF Taken
    <3>3. i \in TaskIds /\ u.snap[i] = s.snap[i] /\ u.snap[i].status \notin {"none", "done"}
      BY <2>3, <3>1 DEF Unfinished
    <3>4. i \in Unfinished(s)
      BY <3>3 DEF Unfinished
    <3> QED
      BY <3>2, <3>4 DEF Kept
  <2>7. DoneWith(u)
    BY <2>1, <2>5, <2>6 DEF DoneWith
  <2>8. Kept(u, {}) /\ HeldPaused(u)
    BY <2>2, <2>3 DEF Kept, HeldPaused
  <2>9. st' = u
    BY <2>1 DEF u
  <2> QED
    BY <1>1, <2>7, <2>8, <2>9, RestRetained
<1> QED
  BY <1>2, <1>3

\* The task in hand fails: it is queued again, or held.
LEMMA FailRetains ==
  ASSUME NEW s \in State, NEW t \in Task, NEW pos \in 1 .. Len(s.pending) + 1,
         Kept(s, {t.id}), s.status \in {"running", "paused"}, s.paused = NoTask
  PROVE  /\ Fail(s, t, pos) \in State
         /\ Kept(Fail(s, t, pos), {})
         /\ Fail(s, t, pos).status \in {"running", "paused"}
         /\ HeldPaused(Fail(s, t, pos))
         /\ ~Exhausted(Attempts(s, t)) => Fail(s, t, pos).paused = NoTask
<1> DEFINE u == Fail(s, t, pos)
           out == Exhausted(Attempts(s, t))
<1>1. /\ u \in State
      /\ out => u.status = "paused"
      /\ ~out => u.status = s.status
  BY FailState
<1>2. /\ \A i \in TaskIds : i # t.id => u.snap[i] = s.snap[i]
      /\ out => u.pending = s.pending /\ u.paused = t
      /\ ~out => u.pending = InsertAt(s.pending, pos, t) /\ u.paused = s.paused
  BY FailPlaces
<1>3. s.pending \in Seq(Task)
  BY DEF State
<1>4. IdsOf(InsertAt(s.pending, pos, t)) = IdsOf(s.pending) \cup {t.id}
  BY <1>3, InsertIds
<1> HIDE DEF u, out
<1>5. t # NoTask
  BY NoTaskNotTask
<1>6. Taken(u) = IdsOf(s.pending) \cup {t.id}
  BY <1>2, <1>4, <1>5 DEF Taken
<1>7. Taken(s) = IdsOf(s.pending)
  BY DEF Taken
<1>8. Unfinished(u) \subseteq Unfinished(s) \cup {t.id}
  BY <1>2 DEF Unfinished
<1>9. Kept(u, {})
  BY <1>6, <1>7, <1>8 DEF Kept
<1> QED
  BY <1>1, <1>2, <1>9 DEF HeldPaused, u, out

\* alarm() ends so.
LEMMA FailRetained ==
  ASSUME NEW s \in State, NEW t \in Task, Kept(s, {t.id}),
         s.status \in {"running", "paused"}, s.paused = NoTask, Retained, Fails(s, t)
  PROVE  Retained'
<1>1. PICK pos \in 1 .. Len(s.pending) + 1 :
        st' = Fail(s, t, pos) /\ disk' \in {disk, st'} /\ Ends
  BY DEF Fails
<1>2. handler'.pc = "idle"
  BY <1>1, RestingHandler DEF Ends
<1>3. Kept(st', {}) /\ st'.status \in {"running", "paused"} /\ HeldPaused(st')
  BY <1>1, FailRetains
<1>4. DoneWith(st')
  BY <1>3 DEF DoneWith
<1> QED
  BY <1>1, <1>2, <1>3, <1>4, RestRetained

\* An execution ends: what it did is done, the rest of the task is queued or held.
LEMMA EndingRetained ==
  ASSUME DoneInv, ExecutionEnds
  PROVE  Retained'
<1> DEFINE t == handler.task
           credited == Credit(st, t.side, handler.ok)
           rest == [t EXCEPT !.amt = t.amt - handler.ok]
<1>1. /\ st \in State /\ handler \in Handlers /\ PlainInv /\ Slices /\ Retained
      /\ Executing => handler.task \in Task
  BY DEF DoneInv, BudgetInv, TasksInv, RunsInv, TypeInv, EngineOK, PlainInv
<1>2. /\ handler.ok \in 0 .. t.amt /\ handler.pc = "trade"
      /\ PlainEnd(t, credited, rest)
  BY <1>1, PlainEnds
<1>3. t \in Task /\ t.id \in TaskIds /\ t.amt \in Nat \ {0} /\ handler.ok \in Nat
  BY <1>1, <1>2 DEF Executing, Task, Handlers
<1>4. /\ Kept(st, {t.id}) /\ st.paused = NoTask /\ st.status \in {"running", "paused"}
  BY <1>1, <1>2 DEF Retained, HandIds, Attended, Executing
<1>5. /\ credited \in State /\ credited.status = st.status
      /\ credited.pending = st.pending /\ credited.paused = st.paused
      /\ credited.snap = st.snap
  BY <1>1, ExecutionGoesOn DEF PlainInv
<1>6. handler.ok < t.amt => rest \in Task /\ rest.id = t.id
  BY <1>3 DEF Task
<1> HIDE DEF credited, rest, t
<1>7. Kept(credited, {t.id})
  <2>1. Unfinished(credited) = Unfinished(st) /\ Taken(credited) = Taken(st)
    BY <1>5 DEF Unfinished, Taken
  <2> QED
    BY <1>4, <1>5, <2>1 DEF Kept
<1>8. CASE Fails(st, t)
  BY <1>1, <1>3, <1>4, <1>8, FailRetained
<1>9. CASE Finishes(MarkDone(credited, t.id)) \/ Saves(MarkDone(credited, t.id))
  <2> DEFINE u == MarkDone(credited, t.id)
  <2>1. u \in State /\ u.status = credited.status
    BY <1>3, <1>5, MarkDoneState
  <2>2. /\ u.pending = credited.pending /\ u.paused = credited.paused
        /\ u.snap[t.id].status \in {"none", "done"}
        /\ \A j \in TaskIds : j # t.id => u.snap[j] = credited.snap[j]
    BY <1>3, <1>5, MarkDonePlaces
  <2> HIDE DEF u
  <2>3. Unfinished(u) \subseteq Unfinished(credited) \ {t.id}
    BY <2>2 DEF Unfinished
  <2>4. Taken(u) = Taken(credited)
    BY <2>2 DEF Taken
  <2>5. Kept(u, {})
    BY <1>7, <2>1, <2>3, <2>4 DEF Kept
  <2>6. Finishes(u) \/ Saves(u)
    BY <1>9 DEF u
  <2> QED
    BY <1>1, <1>4, <1>5, <2>1, <2>2, <2>5, <2>6, FinishRetained
<1>10. CASE handler.ok < t.amt /\ Fails(credited, rest)
  <2>1. rest \in Task /\ Kept(credited, {rest.id})
    BY <1>6, <1>7, <1>10
  <2> QED
    BY <1>1, <1>4, <1>5, <1>10, <2>1, FailRetained
<1>11. CASE /\ handler.ok < t.amt
            /\ ~Exhausted(Attempts(st, t))
            /\ \E pos \in 1 .. Len(st.pending) + 1 :
                  Finishes(Fail(credited, rest, pos)) \/ Saves(Fail(credited, rest, pos))
  <2>1. PICK pos \in 1 .. Len(credited.pending) + 1 :
           Finishes(Fail(credited, rest, pos)) \/ Saves(Fail(credited, rest, pos))
    BY <1>5, <1>11
  <2>2. rest \in Task /\ rest.id = t.id /\ Kept(credited, {rest.id})
    BY <1>6, <1>7, <1>11
  <2>3. ~Exhausted(Attempts(credited, rest))
    BY <1>5, <1>11, <2>2 DEF Attempts
  <2> DEFINE u == Fail(credited, rest, pos)
  <2>4. /\ u \in State /\ Kept(u, {}) /\ u.status \in {"running", "paused"}
        /\ u.paused = NoTask
    BY <1>4, <1>5, <2>2, <2>3, FailRetains
  <2>5. Finishes(u) \/ Saves(u)
    BY <2>1
  <2> HIDE DEF u
  <2> QED
    BY <1>1, <2>4, <2>5, FinishRetained
<1> QED
  BY <1>2, <1>8, <1>9, <1>10, <1>11 DEF PlainEnd

\* Every step of alarm() keeps what it has not done.
LEMMA HandlerRetained ==
  ASSUME Unreported, DoneInv, AlarmHandler
  PROVE  Retained'
<1>1. /\ st \in State /\ handler \in Handlers /\ PlainInv /\ Retained
      /\ Executing => handler.task \in Task
  BY DEF DoneInv, BudgetInv, TasksInv, RunsInv, TypeInv, EngineOK, PlainInv
<1>2. ASSUME UNCHANGED <<st, disk>>, Executing' = Executing, handler'.task = handler.task,
             handler'.pc # "idle" => handler.pc # "idle"
      PROVE  Retained'
  <2>1. HandIds' = HandIds
    BY <1>2 DEF HandIds
  <2>2. Attended'
    BY <1>1, <1>2 DEF Retained, Attended
  <2> QED
    BY <1>1, <1>2, <2>1, <2>2 DEF Retained
<1>3. CASE UNCHANGED <<st, disk, handler, chain, lost>>
  BY <1>2, <1>3 DEF Executing
<1>4. CASE Begins
  <2>1. handler.pc = "idle" /\ st.status = "running"
    BY <1>4 DEF Begins
  <2>2. Kept(st, {}) /\ st.paused = NoTask
    BY <1>1, <2>1 DEF Retained, HandIds, Executing, HeldPaused
  <2>3. CASE Finishes(st) \/ Saves(st)
    BY <1>1, <2>1, <2>2, <2>3, FinishRetained
  <2>4. CASE Pops(st)
    <3>1. /\ st.pending # <<>> /\ st' = [st EXCEPT !.pending = Tail(@)] /\ disk' = disk
          /\ handler'.pc = "allocate" /\ handler'.task = Head(st.pending)
      BY <2>4 DEF Pops, Resting
    <3>2. /\ st'.pending = Tail(st.pending) /\ st'.paused = NoTask
          /\ st'.status = "running" /\ st'.snap = st.snap
      BY <1>1, <2>1, <2>2, <3>1 DEF State
    <3>3. IdsOf(st.pending) = IdsOf(Tail(st.pending)) \cup {Head(st.pending).id}
      BY <1>1, <3>1, TailIds DEF State
    <3>4. HandIds' = {Head(st.pending).id}
      BY <3>1 DEF HandIds, Executing
    <3>5. Taken(st) = IdsOf(st.pending) /\ Taken(st') = IdsOf(Tail(st.pending))
      BY <2>2, <3>2 DEF Taken
    <3>6. Unfinished(st') = Unfinished(st)
      BY <3>2 DEF Unfinished
    <3>7. Kept(st', HandIds')
      BY <2>1, <2>2, <3>3, <3>4, <3>5, <3>6 DEF Kept
    <3>8. DoneWith(st') /\ HeldPaused(st') /\ Attended'
      BY <3>2 DEF DoneWith, HeldPaused, Attended
    <3> QED
      BY <1>1, <3>1, <3>7, <3>8 DEF Retained
  <2> QED
    BY <1>4, <2>3, <2>4 DEF Begins
<1>5. CASE AccountsReady \/ SliceFills \/ SliceFails
  <2>1. /\ UNCHANGED <<st, disk>> /\ Executing /\ Executing'
        /\ handler'.task = handler.task /\ handler.pc # "idle"
    BY <1>1, <1>5 DEF AccountsReady, SliceFills, SliceFails, Executing, Handlers
  <2> QED
    BY <1>2, <2>1
<1>6. CASE NoAccounts
  <2>1. /\ st' = [st EXCEPT !.status = "aborted", !.pending = <<>>] /\ disk' = st'
        /\ Ends /\ handler.pc = "allocate"
    BY <1>6 DEF NoAccounts, SaveWith
  <2>2. st'.status = "aborted" /\ st'.paused = NoTask
    BY <1>1, <2>1 DEF State, Retained, Attended
  <2>3. Kept(st', {}) /\ DoneWith(st') /\ HeldPaused(st')
    BY <2>2 DEF Kept, DoneWith, HeldPaused
  <2>4. handler'.pc = "idle"
    BY <2>1, RestingHandler DEF Ends
  <2> QED
    BY <1>1, <2>1, <2>3, <2>4, RestRetained
<1>7. CASE ExecutionThrows
  <2>1. Executing /\ handler.pc # "idle" /\ handler.task \in Task
    BY <1>1, <1>7 DEF ExecutionThrows, KeyUnreadable, Executing
  <2>2. Fails(st, handler.task)
    BY <1>7, FailuresEnd DEF ExecutionThrows
  <2>3. /\ Kept(st, {handler.task.id}) /\ st.paused = NoTask
        /\ st.status \in {"running", "paused"}
    BY <1>1, <2>1 DEF Retained, HandIds, Attended
  <2> QED
    BY <1>1, <2>1, <2>2, <2>3, FailRetained
<1>8. CASE ExecutionEnds
  BY <1>8, EndingRetained
<1> QED
  BY <1>1, <1>3, <1>4, <1>5, <1>6, <1>7, <1>8, PlainHandler

\* Where nobody interrupts the run, so does every step.
LEMMA DoneStep ==
  ASSUME Uninterrupted, Unreported, DoneInv, [Next]_vars
  PROVE  DoneInv'
<1>1. /\ st \in State /\ disk \in State /\ handler \in Handlers
      /\ Retained /\ Undisturbed
  BY DEF DoneInv, BudgetInv, TasksInv, RunsInv, TypeInv, EngineOK
<1>2. BudgetInv'
  <2>1. StartsAlone
    BY DEF Uninterrupted, StartsAlone
  <2> QED
    BY <2>1, BudgetStep DEF DoneInv
<1> SUFFICES Retained'
  BY <1>2 DEF DoneInv
<1>3. ASSUME NEW r \in Runs, Start(r) PROVE Retained'
  <2>1. handler'.pc = "idle" /\ st' = Started(st, r) /\ disk' = st'
    BY <1>1, <1>3 DEF Start, SaveWith, Undisturbed
  <2> DEFINE u == Started(st, r)
  <2>2. /\ u.status = "running" /\ u.paused = NoTask /\ u.pending = BaseTasks(0)
        /\ \A i \in TaskIds : u.snap[i].status \notin {"none", "done"}
              => i \in IdsOf(BaseTasks(0))
    BY <1>1, StartedState, StartedPlaces
  <2> HIDE DEF u
  <2>3. Taken(u) = IdsOf(BaseTasks(0))
    BY <2>2 DEF Taken
  <2>4. Kept(u, {})
    BY <2>2, <2>3 DEF Kept, Unfinished
  <2>5. DoneWith(u) /\ HeldPaused(u)
    BY <2>2 DEF DoneWith, HeldPaused
  <2>6. st' = u
    BY <2>1 DEF u
  <2> QED
    BY <1>1, <2>1, <2>4, <2>5, <2>6, RestRetained
<1>4. ~Abort /\ ~Clear /\ ~ \E x \in Txs : WebhookArrives(x) \/ WebhookApplies(x)
  BY DEF Abort, Clear, UseOp, Uninterrupted, Unreported
<1>5. CASE Pause
  <2>1. /\ st' = [st EXCEPT !.status = "paused"] /\ disk' = st' /\ UNCHANGED handler
        /\ st.status = "running" /\ "pause" \in UserOps
    BY <1>5 DEF Pause, SaveWith, UseOp
  <2>2. /\ st'.status = "paused" /\ st'.paused = st.paused
        /\ st'.pending = st.pending /\ st'.snap = st.snap
    BY <1>1, <2>1 DEF State
  <2>3. Unfinished(st') = Unfinished(st) /\ Taken(st') = Taken(st)
    BY <2>2 DEF Unfinished, Taken
  <2>4. HandIds' = HandIds
    BY <2>1 DEF HandIds, Executing
  <2>5. Kept(st', HandIds')
    BY <1>1, <2>1, <2>3, <2>4 DEF Retained, Kept
  <2>6. DoneWith(st') /\ HeldPaused(st')
    BY <2>2 DEF DoneWith, HeldPaused
  <2>7. Attended'
    BY <1>1, <2>1, <2>2 DEF Retained, Attended
  <2> QED
    BY <2>1, <2>5, <2>6, <2>7 DEF Retained
<1>6. CASE Resume
  <2>1. PICK pos \in 1 .. Len(st.pending) + 1 : st' = Resumed(st, pos) /\ disk' = st'
    BY <1>6 DEF Resume, Save, SaveWith
  <2>2. st.status = "paused" /\ UNCHANGED handler
    BY <1>6 DEF Resume
  <2> DEFINE u == Resumed(st, pos)
  <2>3. /\ u.status = "running" /\ u.paused = NoTask
        /\ IF st.paused = NoTask
           THEN u.pending = st.pending /\ u.snap = st.snap
           ELSE /\ u.pending = InsertAt(st.pending, pos, st.paused)
                /\ \A i \in TaskIds : i # st.paused.id => u.snap[i] = st.snap[i]
    BY <1>1, ResumedState, ResumedPlaces
  <2> HIDE DEF u
  <2>4. Taken(u) = Taken(st) /\ Unfinished(u) \subseteq Unfinished(st) \cup Taken(st)
    <3>1. CASE st.paused = NoTask
      BY <2>3, <3>1 DEF Taken, Unfinished
    <3>2. CASE st.paused # NoTask
      <4>1. st.pending \in Seq(Task) /\ st.paused \in Task
        BY <1>1, <3>2 DEF State
      <4>2. IdsOf(u.pending) = IdsOf(st.pending) \cup {st.paused.id}
        BY <2>3, <3>2, <4>1, InsertIds
      <4>3. Taken(u) = Taken(st) /\ st.paused.id \in Taken(st)
        BY <2>3, <3>2, <4>2 DEF Taken
      <4>4. \A i \in TaskIds : i # st.paused.id => u.snap[i] = st.snap[i]
        BY <2>3, <3>2
      <4> QED
        BY <4>3, <4>4 DEF Unfinished
    <3> QED
      BY <3>1, <3>2
  <2>5. Kept(u, HandIds)
    BY <1>1, <2>2, <2>4 DEF Retained, Kept
  <2>6. DoneWith(u) /\ HeldPaused(u)
    BY <2>3 DEF DoneWith, HeldPaused
  <2>7. HandIds' = HandIds /\ st' = u
    BY <2>1, <2>2 DEF HandIds, Executing, u
  <2>8. Attended'
    BY <2>3, <2>7 DEF Attended
  <2>9. "pause" \in UserOps \/ Kept(u, {})
    <3>1. CASE handler.pc = "idle"
      BY <2>5, <3>1 DEF HandIds, Executing
    <3>2. CASE handler.pc # "idle"
      BY <1>1, <2>2, <3>2 DEF Retained, Attended
    <3> QED
      BY <3>1, <3>2
  <2> QED
    BY <2>1, <2>5, <2>6, <2>7, <2>8, <2>9 DEF Retained
<1>7. CASE AlarmHandler
  BY <1>7, HandlerRetained
<1>8. CASE Crash
  <2>1. st' = disk /\ disk' = disk /\ handler'.pc = "idle" /\ MaxCrashes # 0
    BY <1>8, RestingHandler DEF Crash, DoneInv, BudgetInv, TasksInv, RunsInv, TypeInv, CountersOK
  <2>2. Kept(disk, {}) /\ DoneWith(disk) /\ HeldPaused(disk)
    BY <1>1, <2>1 DEF Retained, Uninterrupted
  <2> QED
    BY <1>1, <2>1, <2>2, RestRetained
<1>9. CASE UNCHANGED vars
  <2>1. UNCHANGED <<st, disk, handler>> /\ HandIds' = HandIds
    BY <1>9 DEF vars, HandIds, Executing
  <2> QED
    BY <1>1, <2>1 DEF Retained, Attended
<1> QED
  BY <1>3, <1>4, <1>5, <1>6, <1>7, <1>8, <1>9 DEF Next

\* There is nothing to do in the beginning.
LEMMA DoneInit == Init => DoneInv
<1> SUFFICES ASSUME Init PROVE DoneInv
  OBVIOUS
<1>1. BudgetInv
  BY BudgetInit
<1>2. st = Idle /\ disk = Idle /\ handler.pc = "idle"
  BY RestingHandler DEF Init
<1>3. Idle.status = "idle" /\ Idle.paused = NoTask
  BY DEF Idle
<1>4. \A ids : Kept(Idle, ids)
  BY <1>3 DEF Kept
<1>5. DoneWith(Idle) /\ HeldPaused(Idle)
  BY <1>3 DEF DoneWith, HeldPaused
<1> QED
  BY <1>1, <1>2, <1>4, <1>5 DEF DoneInv, Retained, Attended

\* A run nobody aborts or clears, and that is either never paused or never
\* crashes, completes only when its target is reached or every task of its
\* plan is done: a retry, a failure, a resume or a crash drops none of them.
THEOREM CompletesWhenDone ==
  ASSUME UserOps \cap {"abort", "clear"} = {}, "pause" \in UserOps => MaxCrashes = 0,
         Txs = {}
  PROVE  Spec => []CompletedIsDone
<1>1. Uninterrupted /\ Unreported
  BY DEF Uninterrupted, Unreported
<1>2. Init => DoneInv
  BY DoneInit
<1>3. DoneInv /\ [Next]_vars => DoneInv'
  BY <1>1, DoneStep
<1>4. DoneInv => CompletedIsDone
  <2> SUFFICES ASSUME DoneInv, st.status = "completed", Volume(st) < ManagedTarget(st)
               PROVE  \A i \in TaskIds : st.snap[i].status \in {"none", "done"}
    <3>1. DoneInv => Volume(st) \in Nat /\ ManagedTarget(st) \in Nat
      BY VolumesNat DEF DoneInv, BudgetInv, TasksInv, RunsInv, TypeInv, EngineOK
    <3> QED
      BY <3>1 DEF CompletedIsDone
  <2>1. Volume(st) \in Nat /\ ManagedTarget(st) \in Nat
    BY VolumesNat DEF DoneInv, BudgetInv, TasksInv, RunsInv, TypeInv, EngineOK
  <2>2. Unfinished(st) = {}
    BY <2>1 DEF DoneInv, Retained, DoneWith
  <2> QED
    BY <2>2 DEF Unfinished
<1> QED
  BY <1>2, <1>3, <1>4, PTL DEF Spec
=============================================================================
