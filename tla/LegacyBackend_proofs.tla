------------------------ MODULE LegacyBackend_proofs ------------------------
(***************************************************************************)
(* Of the Rust back end: the types of its tables and channels, that a task *)
(* is traded once, and that no order of a superseded plan is traded.       *)
(***************************************************************************)
EXTENDS LegacyBackend, SequenceTheorems, WellFoundedInduction, TLAPS

-----------------------------------------------------------------------------
(* Numbers and sequences.                                                   *)

\* A set of naturals has a least element, by the well-foundedness of <.
LEMMA LeastNat ==
  ASSUME NEW S, S \subseteq Nat, S # {}
  PROVE  \E n \in S : \A m \in S : n <= m
<1> DEFINE R == {p \in Nat \X Nat : p[1] < p[2]}
<1>1. IsWellFoundedOn(R, Nat)
  BY NatLessThanWellFounded DEF OpToRel
<1>2. PICK n \in S : \A m \in S : ~(<<m, n>> \in R)
  BY <1>1, WFMin
<1>3. ASSUME NEW m \in S PROVE n <= m
  <2>1. m \in Nat /\ n \in Nat /\ <<m, n>> \notin R
    BY <1>2
  <2>2. ~(m < n)
    BY <2>1
  <2> QED
    BY <2>1, <2>2
<1> QED
  BY <1>3

IsSeq(s) == \E S : s \in Seq(S)

\* Two sequences in a row are one, whatever their elements.
LEMMA ConcatIsSeq ==
  ASSUME NEW s, NEW t, IsSeq(s), IsSeq(t)
  PROVE  /\ IsSeq(s \o t)
         /\ DOMAIN (s \o t) = 1 .. (Len(s) + Len(t))
         /\ DOMAIN s = 1 .. Len(s) /\ Len(s) \in Nat
         /\ DOMAIN t = 1 .. Len(t) /\ Len(t) \in Nat
         /\ \A i \in DOMAIN s : (s \o t)[i] = s[i]
         /\ \A i \in 1 .. Len(t) : (s \o t)[Len(s) + i] = t[i]
<1>1. PICK S : s \in Seq(S)
  BY DEF IsSeq
<1>2. PICK T : t \in Seq(T)
  BY DEF IsSeq
<1>3. s \in Seq(S \cup T) /\ t \in Seq(S \cup T)
  BY <1>1, <1>2, SeqMonotonic
<1>4. s \o t \in Seq(S \cup T)
  BY <1>3, ConcatProperties
<1> QED
  BY <1>3, <1>4, ConcatProperties, LenProperties DEF IsSeq

\* The state of the rounds of cycling.
Work(b, q, r, f, s) ==
    [base |-> b, quote |-> q, remaining |-> r, failed |-> f, intents |-> s]
IsWork(w) == \E b, q, r, f, s : w = Work(b, q, r, f, s) /\ IsSeq(s)

LEMMA PairIsSeq == \A x, y : IsSeq(<<x, y>>)
<1> TAKE x, y
<1>1. <<x, y>> \in Seq({x, y})
  OBVIOUS
<1> QED
  BY <1>1 DEF IsSeq

\* Each of its fields can be set.
LEMMA SetWork ==
  ASSUME NEW w, IsWork(w), NEW v
  PROVE  /\ IsWork([w EXCEPT !.base = v])
         /\ IsWork([w EXCEPT !.quote = v])
         /\ IsWork([w EXCEPT !.remaining = v])
         /\ IsWork([w EXCEPT !.failed = v])
         /\ IsSeq(v) => IsWork([w EXCEPT !.intents = v])
<1>1. PICK b, q, r, f, s : w = Work(b, q, r, f, s) /\ IsSeq(s)
  BY DEF IsWork
<1>2. [w EXCEPT !.base = v] = Work(v, q, r, f, s)
  BY <1>1 DEF Work
<1>3. [w EXCEPT !.quote = v] = Work(b, v, r, f, s)
  BY <1>1 DEF Work
<1>4. [w EXCEPT !.remaining = v] = Work(b, q, v, f, s)
  BY <1>1 DEF Work
<1>5. [w EXCEPT !.failed = v] = Work(b, q, r, v, s)
  BY <1>1 DEF Work
<1>6. [w EXCEPT !.intents = v] = Work(b, q, r, f, v)
  BY <1>1 DEF Work
<1> QED
  BY <1>1, <1>2, <1>3, <1>4, <1>5, <1>6 DEF IsWork

LEMMA CycleIsWork ==
  ASSUME NEW w, NEW hint, IsWork(w)
  PROVE  IsWork(Cycle(w, hint))
<1>1. IsSeq(w.intents)
  BY DEF IsWork, Work
<1>2. \A x, y : IsSeq(w.intents \o <<x, y>>)
  BY <1>1, PairIsSeq, ConcatIsSeq
<1>3. IsWork([w EXCEPT !.failed = TRUE])
  BY SetWork
<1>4. ASSUME NEW i, NEW j, NEW a, NEW x, NEW y
      PROVE  IsWork([w EXCEPT !.quote[i] = @ - a, !.base[j] = @ - a,
                              !.remaining = @ - 2 * a, !.intents = @ \o <<x, y>>])
  <2> DEFINE w1 == [w EXCEPT !.quote = [w.quote EXCEPT ![i] = @ - a]]
             w2 == [w1 EXCEPT !.base = [w.base EXCEPT ![j] = @ - a]]
             w3 == [w2 EXCEPT !.remaining = w.remaining - 2 * a]
             w4 == [w3 EXCEPT !.intents = w.intents \o <<x, y>>]
  <2>1. IsWork(w1)
    BY SetWork
  <2>2. IsWork(w2)
    BY <2>1, SetWork
  <2>3. IsWork(w3)
    BY <2>2, SetWork
  <2>4. IsWork(w4)
    BY <1>2, <2>3, SetWork
  <2>5. w4 = [w EXCEPT !.quote[i] = @ - a, !.base[j] = @ - a,
                       !.remaining = @ - 2 * a, !.intents = @ \o <<x, y>>]
    BY SMT DEF IsWork, Work
  <2> QED
    BY <2>4, <2>5
<1> QED
  BY <1>3, <1>4 DEF Cycle

\* h gives the state after each of the first k rounds.
IsRounds(h, start, hint, k) ==
    h = [n \in 0 .. k |-> IF n = 0 THEN start ELSE Cycle(h[n - 1], hint)]

\* There is such a function, so that the one the planner takes is one.
LEMMA RoundsAreFunction ==
  ASSUME NEW start, NEW hint, NEW k \in Nat
  PROVE  \E h : IsRounds(h, start, hint, k)
<1> DEFINE T == {j \in Nat : ~ \E h : IsRounds(h, start, hint, j)}
<1>1. SUFFICES ASSUME T # {} PROVE FALSE
  OBVIOUS
<1>2. PICK j \in T : \A m \in T : j <= m
  BY <1>1, LeastNat
<1>3. CASE j = 0
  <2> DEFINE h == [n \in 0 .. 0 |-> start]
  <2>1. IsRounds(h, start, hint, 0)
    BY DEF IsRounds
  <2> QED
    BY <1>2, <1>3, <2>1
<1>4. CASE j # 0
  <2>1. j - 1 \in Nat /\ j - 1 \notin T
    BY <1>2, <1>4
  <2>2. PICK g : IsRounds(g, start, hint, j - 1)
    BY <2>1
  <2> DEFINE h == [n \in 0 .. j |-> IF n = j THEN Cycle(g[j - 1], hint) ELSE g[n]]
  <2>3. \A n \in 0 .. j : h[n] = IF n = 0 THEN start ELSE Cycle(h[n - 1], hint)
    BY <1>4, <2>1, <2>2 DEF IsRounds
  <2>4. IsRounds(h, start, hint, j)
    BY <2>3 DEF IsRounds
  <2> QED
    BY <1>2, <2>4
<1> QED
  BY <1>3, <1>4

-----------------------------------------------------------------------------
(* What the planner returns.                                                *)

\* Every round of cycling leaves its state well formed.
LEMMA RoundsAreWork ==
  ASSUME NEW start, IsWork(start), NEW hint, NEW k \in Nat, NEW h,
         IsRounds(h, start, hint, k)
  PROVE  \A n \in 0 .. k : IsWork(h[n])
<1> DEFINE T == {n \in 0 .. k : ~ IsWork(h[n])}
<1>1. SUFFICES ASSUME T # {} PROVE FALSE
  OBVIOUS
<1>2. PICK n \in T : \A m \in T : n <= m
  <2>1. T \subseteq Nat
    OBVIOUS
  <2> HIDE DEF T
  <2> QED
    BY <1>1, <2>1, LeastNat
<1>3. h[n] = IF n = 0 THEN start ELSE Cycle(h[n - 1], hint)
  BY <1>2 DEF IsRounds
<1>4. n # 0
  BY <1>2, <1>3
<1>5. n - 1 \in 0 .. k /\ n - 1 \notin T
  BY <1>2, <1>4
<1>6. IsWork(h[n - 1])
  BY <1>5
<1> QED
  BY <1>2, <1>3, <1>4, <1>6, CycleIsWork

\* The cycling orders are a sequence.
LEMMA CyclingIsSeq == \A gap, hint : IsSeq(CyclingIntents(gap, hint))
<1> TAKE gap, hint
<1> DEFINE start == [base |-> [i \in DOMAIN Pool |-> Pool[i].base],
                     quote |-> [i \in DOMAIN Pool |-> Pool[i].quote],
                     remaining |-> gap, failed |-> FALSE, intents |-> <<>>]
           k == MaxMicroTasks + 1
           round[n \in 0 .. k] == IF n = 0 THEN start ELSE Cycle(round[n - 1], hint)
<1>1. k \in Nat
  BY PoolAssumption
<1>2. IsWork(start)
  <2>1. IsSeq(<<>>)
    BY EmptySeq DEF IsSeq
  <2> QED
    BY <2>1 DEF IsWork, Work
<1>3. \E h : IsRounds(h, start, hint, k)
  <2> HIDE DEF start, k
  <2> QED
    BY <1>1, RoundsAreFunction
<1>4. IsRounds(round, start, hint, k)
  <2> HIDE DEF start, k
  <2> QED
    BY <1>3 DEF IsRounds
<1>5. IsWork(round[k])
  <2> HIDE DEF start, round, k
  <2> QED
    BY <1>1, <1>2, <1>4, RoundsAreWork
<1>6. IsSeq(round[k].intents)
  BY <1>5 DEF IsWork, Work
<1>7. IsSeq(NoPlan)
  <2>1. NoPlan \in Seq({[type |-> "error"]})
    BY DEF NoPlan
  <2> QED
    BY <2>1 DEF IsSeq
<1>8. CyclingIntents(gap, hint) = IF round[k].failed THEN NoPlan ELSE round[k].intents
  BY DEF CyclingIntents
<1> QED
  BY <1>6, <1>7, <1>8

\* A volume is cut into a sequence.
LEMMA SlicesAreSeq ==
  ASSUME NEW v \in Int, NEW h \in Nat \ {0}
  PROVE  IsSeq(SliceTargetVolume(v, h))
<1> DEFINE whole == [i \in 1 .. (v \div h) |-> h]
           rest == IF v % h > 0 THEN <<v % h>> ELSE <<>>
<1>1. v \div h \in Int /\ v % h \in Int
  OBVIOUS
<1>2. PICK n \in Nat : 1 .. (v \div h) = 1 .. n
  <2>1. CASE v \div h >= 0
    BY <1>1, <2>1
  <2>2. CASE v \div h < 0
    BY <1>1, <2>2
  <2> QED
    BY <1>1, <2>1, <2>2
<1>3. whole \in Seq({h})
  BY <1>2, IsASeq
<1>4. rest \in Seq({v % h})
  <2>1. <<v % h>> \in Seq({v % h}) /\ <<>> \in Seq({v % h})
    OBVIOUS
  <2> QED
    BY <2>1
<1>5. IsSeq(whole) /\ IsSeq(rest)
  BY <1>3, <1>4 DEF IsSeq
<1> QED
  BY <1>5, ConcatIsSeq DEF SliceTargetVolume

\* The net orders are as many as the slices.
LEMMA NetIsSeq ==
  ASSUME NEW side, NEW s, IsSeq(s)
  PROVE  IsSeq(NetIntents(side, s))
<1>1. PICK S : s \in Seq(S)
  BY DEF IsSeq
<1>2. DOMAIN s = 1 .. Len(s) /\ Len(s) \in Nat
  BY <1>1, LenProperties
<1> DEFINE intent(n) == [type |-> "NetPosition", side |-> side, amount |-> s[n],
                         account |-> CHOOSE i \in Selected(side, s[n]) : TRUE]
           q == [n \in 1 .. Len(s) |-> intent(n)]
<1> DEFINE Q == {intent(n) : n \in 1 .. Len(s)}
<1>3. \A n \in 1 .. Len(s) : intent(n) \in Q
  OBVIOUS
<1>4. q \in Seq(Q)
  <2> HIDE DEF intent, Q
  <2> QED
    BY <1>2, <1>3, IsASeq
<1>5. IsSeq(q)
  BY <1>4 DEF IsSeq
<1>6. q = NetIntents(side, s)
  BY <1>2 DEF NetIntents
<1> QED
  BY <1>5, <1>6

\* A plan for integer volumes is a sequence of orders.
LEMMA PlanIsSeq ==
  ASSUME NEW input, input.buy \in Int, input.sell \in Int, input.hint \in Int
  PROVE  IsSeq(GeneratePlan(input))
<1>1. Hint(input) \in Nat \ {0}
  BY DEF Hint, Most
<1>2. /\ IsSeq(SliceTargetVolume(input.buy, Hint(input)))
      /\ IsSeq(SliceTargetVolume(input.sell, Hint(input)))
  BY <1>1, SlicesAreSeq
<1>3. /\ IsSeq(NetIntents("Buy", SliceTargetVolume(input.buy, Hint(input))))
      /\ IsSeq(NetIntents("Sell", SliceTargetVolume(input.sell, Hint(input))))
  BY <1>2, NetIsSeq
<1>4. \A gap : IsSeq(CyclingIntents(gap, Hint(input)))
  BY CyclingIsSeq
<1>5. IsSeq(NoPlan)
  <2>1. NoPlan \in Seq({[type |-> "error"]})
    BY DEF NoPlan
  <2> QED
    BY <2>1 DEF IsSeq
<1> QED
  BY <1>3, <1>4, <1>5, ConcatIsSeq DEF GeneratePlan

-----------------------------------------------------------------------------
(* The tables, the channels and the job.                                    *)

RunStatuses == {"planned", "replanned", "executing", "completed", "failed"}
RunRow == [status : RunStatuses, version : Nat, updated : Nat]
TaskRow ==
    [run : Nat, version : Nat, intent : Nat,
     status : {"pending", "executed", "failed", "deleted"}]
Swap == [task : Nat, crashes : Nat]
Attempt == [task : Nat, run : Nat, status : {"executed", "failed"}]
Directive ==
    [run : Nat, net : Int, volume : Int, min : Int, max : Int, execute : BOOLEAN]
Execution == [run : Nat]
Message ==
    [type : {"OrderFilled"}, run : Nat, status : {"executed", "failed"}]
    \cup [type : {"ExternalTrade"}, event : ExternalTradeEvent]
    \cup [type : {"SettingsUpdated"}, settings : SettingsState]

TablesOK ==
    /\ settings \in SettingsState
    /\ runs \in Seq(RunRow)
    /\ tasks \in Seq(TaskRow)
    /\ now \in Nat
    /\ swaps \in Seq(Swap)
    /\ crashes \in Nat

\* Messages name runs that exist.
ChannelsOK ==
    /\ bus \in Seq(Message)
    /\ directives \in Seq(Directive)
    /\ \A i \in DOMAIN directives : directives[i].run \in DOMAIN runs
    /\ engine # Nothing => engine \in Directive /\ engine.run \in DOMAIN runs
    /\ executions \in Seq(Execution)
    /\ \A i \in DOMAIN executions : executions[i].run \in DOMAIN runs
    /\ planner # Nothing => planner \in Execution /\ planner.run \in DOMAIN runs

PlanJob(by, r, v, plan, at, status, again, execute) ==
    [type |-> "plan", by |-> by, run |-> r, version |-> v, plan |-> plan, at |-> at,
     status |-> status, again |-> again, execute |-> execute]
Planning(j) ==
    \E by, r, v, plan, at, status, again, execute :
        /\ j = PlanJob(by, r, v, plan, at, status, again, execute)
        /\ r \in DOMAIN runs /\ v \in Nat /\ IsSeq(plan) /\ status \in RunStatuses

Batch ==
    [type : {"consume"}, by : {"http", "gateway"}, run : Nat, version : Nat,
     rows : SUBSET Nat, outcome : {Nothing, "executed", "failed"},
     at : {"trade", "task", "attempt"}, done : Seq(Attempt)]
InBatch(j) ==
    /\ j \in Batch
    /\ j.run \in DOMAIN runs /\ j.rows \subseteq DOMAIN tasks
    /\ j.at # "trade" => j.rows # {} /\ j.outcome \in {"executed", "failed"}

JobOK == job = NoJob \/ Planning(job) \/ InBatch(job)

TypeInv == TablesOK /\ ChannelsOK /\ JobOK

\* A batch works on pending rows of the plan in force.
BatchFits ==
    InBatch(job) =>
        /\ job.version = runs[job.run].version
        /\ \A id \in job.rows :
               /\ tasks[id].run = job.run /\ tasks[id].version = job.version
               /\ tasks[id].status = "pending" \/ (job.at = "attempt" /\ id = Current)

\* A task swapped since the last crash is marked, or is about to be.
SwapsFit ==
    \A i \in DOMAIN swaps :
        /\ swaps[i].task \in DOMAIN tasks
        /\ swaps[i].crashes <= crashes
        /\ swaps[i].crashes = crashes =>
               \/ tasks[swaps[i].task].status # "pending"
               \/ InBatch(job) /\ job.at = "task" /\ swaps[i].task = Current

LegacyInv == TypeInv /\ BatchFits /\ SwapsFit /\ TradedOnce

-----------------------------------------------------------------------------
(* Jobs.                                                                    *)

\* The three kinds of jobs are told apart by their type.
LEMMA JobKinds ==
  \A j : /\ Planning(j) => j.type = "plan" /\ j # NoJob
         /\ InBatch(j) => j.type = "consume" /\ j # NoJob
<1>1. ASSUME NEW j, Planning(j) PROVE j.type = "plan" /\ j # NoJob
  BY <1>1 DEF Planning, PlanJob, NoJob
<1>2. ASSUME NEW j, InBatch(j) PROVE j.type = "consume" /\ j # NoJob
  BY <1>2 DEF InBatch, Batch, NoJob
<1> QED
  BY <1>1, <1>2

\* What a guard on the type of the job says of it.
LEMMA JobIs ==
  ASSUME JobOK
  PROVE  /\ job = NoJob <=> Free
         /\ ~ Free /\ job.type = "plan" => Planning(job)
         /\ ~ Free /\ job.type = "consume" <=> InBatch(job)
  BY JobKinds DEF JobOK, Free

\* The row in hand is one of the batch's.
LEMMA CurrentInBatch ==
  ASSUME InBatch(job), job.rows # {}
  PROVE  Current \in job.rows
<1>1. job.rows \subseteq Nat
  BY DEF InBatch, Batch
<1> QED
  BY <1>1, LeastNat DEF Current

\* Each field of a planning job can be set.
LEMMA SetPlanJob ==
  ASSUME NEW j, Planning(j), NEW x
  PROVE  /\ Planning([j EXCEPT !.at = x])
         /\ Planning([j EXCEPT !.again = x])
         /\ x \in Nat => Planning([j EXCEPT !.version = x])
         /\ x \in RunStatuses => Planning([j EXCEPT !.status = x])
<1>1. PICK by, r, v, plan, at, status, again, execute :
         /\ j = PlanJob(by, r, v, plan, at, status, again, execute)
         /\ r \in DOMAIN runs /\ v \in Nat /\ IsSeq(plan) /\ status \in RunStatuses
  BY DEF Planning
<1>2. [j EXCEPT !.at = x] = PlanJob(by, r, v, plan, x, status, again, execute)
  BY <1>1 DEF PlanJob
<1>3. [j EXCEPT !.again = x] = PlanJob(by, r, v, plan, at, status, x, execute)
  BY <1>1 DEF PlanJob
<1>4. [j EXCEPT !.version = x] = PlanJob(by, r, x, plan, at, status, again, execute)
  BY <1>1 DEF PlanJob
<1>5. [j EXCEPT !.status = x] = PlanJob(by, r, v, plan, at, x, again, execute)
  BY <1>1 DEF PlanJob
<1> QED
  BY <1>1, <1>2, <1>3, <1>4, <1>5 DEF Planning

-----------------------------------------------------------------------------
(* The latest run, and the directives for it.                               *)

\* Among times one is the last, and of those that are alike the one furthest on.
LEMMA LastOfTimes ==
  ASSUME NEW n \in Nat \ {0}, NEW u \in [1 .. n -> Nat]
  PROVE  \E r \in 1 .. n : \A s \in (1 .. n) \ {r} :
            u[r] > u[s] \/ (u[r] = u[s] /\ r > s)
<1> DEFINE Newer(r, s) == u[r] > u[s] \/ (u[r] = u[s] /\ r > s)
           HasLast(k) == \E r \in 1 .. k : \A s \in 1 .. k : s # r => Newer(r, s)
           T == {k \in 1 .. n : ~ HasLast(k)}
<1>1. \A s \in 1 .. n : u[s] \in Nat
  OBVIOUS
<1>2. ASSUME T # {} PROVE FALSE
  <2>1. T \subseteq Nat
    OBVIOUS
  <2>2. PICK k \in T : \A m \in T : k <= m
    <3> HIDE DEF T
    <3> QED
      BY <1>2, <2>1, LeastNat
  <2>3. k \in 1 .. n /\ ~ HasLast(k)
    BY <2>2
  <2>4. k # 1
    BY <2>3
  <2>5. k - 1 \in 1 .. n /\ k - 1 \notin T
    <3>1. k - 1 \in 1 .. n /\ k \in Nat
      BY <2>3, <2>4
    <3> HIDE DEF T
    <3> QED
      BY <2>2, <3>1
  <2>6. HasLast(k - 1)
    BY <2>5
  <2>7. PICK r \in 1 .. (k - 1) : \A s \in 1 .. (k - 1) : s # r => Newer(r, s)
    BY <2>6
  <2>8. \A s \in 1 .. k : s = k \/ s \in 1 .. (k - 1)
    BY <2>3
  <2>9. r \in Nat /\ k \in Nat /\ r < k /\ r \in 1 .. n /\ r \in 1 .. k /\ k \in 1 .. k
    BY <2>3, <2>7
  <2>10. u[r] \in Nat /\ u[k] \in Nat
    BY <1>1, <2>3, <2>9
  <2>11. CASE u[r] > u[k]
    <3>1. \A s \in 1 .. k : s # r => Newer(r, s)
      BY <2>7, <2>8, <2>11
    <3> QED
      BY <2>3, <2>9, <3>1
  <2>12. CASE ~(u[r] > u[k])
    <3>1. ASSUME NEW s \in 1 .. k, s # k PROVE Newer(k, s)
      <4>1. s \in 1 .. (k - 1) /\ s \in 1 .. n /\ s < k /\ s \in Nat
        BY <2>3, <2>8, <3>1
      <4>2. s = r \/ Newer(r, s)
        BY <2>7, <4>1
      <4>3. u[s] \in Nat
        BY <1>1, <4>1
      <4>4. u[s] <= u[r]
        BY <2>10, <4>2, <4>3
      <4> QED
        BY <2>9, <2>10, <2>12, <4>1, <4>3, <4>4
    <3> QED
      BY <2>3, <2>9, <3>1
  <2> QED
    BY <2>11, <2>12
<1>3. n \in 1 .. n /\ n \notin T
  <2> HIDE DEF T
  <2> QED
    BY <1>2
<1>4. HasLast(n)
  BY <1>3
<1> QED
  BY <1>4

\* Where there are runs one is the latest.
LEMMA LatestIsRun ==
  ASSUME runs \in Seq(RunRow), HasRun
  PROVE  Latest \in DOMAIN runs
<1> DEFINE u == [r \in 1 .. Len(runs) |-> runs[r].updated]
<1>1. DOMAIN runs = 1 .. Len(runs) /\ Len(runs) \in Nat \ {0}
  BY DEF HasRun
<1>2. \A r \in 1 .. Len(runs) : runs[r] \in RunRow
  BY <1>1
<1>3. u \in [1 .. Len(runs) -> Nat]
  BY <1>2 DEF RunRow
<1>4. PICK r \in 1 .. Len(runs) : \A s \in (1 .. Len(runs)) \ {r} :
         u[r] > u[s] \/ (u[r] = u[s] /\ r > s)
  <2> HIDE DEF u
  <2> QED
    BY <1>1, <1>3, LastOfTimes
<1>5. \A s \in (1 .. Len(runs)) \ {r} :
         \/ runs[r].updated > runs[s].updated
         \/ runs[r].updated = runs[s].updated /\ r > s
  BY <1>4
<1> QED
  BY <1>1, <1>5 DEF Latest

\* The directive for a trade, or for new settings, names the latest run.
LEMMA DirectivesTyped ==
  ASSUME TablesOK
  PROVE  /\ \A e \in ExternalTradeEvent :
               DirectiveForTrade(e) # Nothing =>
                   /\ DirectiveForTrade(e) \in Directive
                   /\ DirectiveForTrade(e).run \in DOMAIN runs
         /\ \A s \in SettingsState :
               DirectiveForSettings(s) # Nothing =>
                   /\ DirectiveForSettings(s) \in Directive
                   /\ DirectiveForSettings(s).run \in DOMAIN runs
<1>1. HasRun => Latest \in DOMAIN runs /\ Latest \in Nat
  BY LatestIsRun DEF TablesOK
<1>2. \A x \in Int : Abs(x) \in Int
  BY DEF Abs, Most
<1>3. ASSUME NEW e \in ExternalTradeEvent, DirectiveForTrade(e) # Nothing
      PROVE  /\ DirectiveForTrade(e) \in Directive
             /\ DirectiveForTrade(e).run \in DOMAIN runs
  <2>1. TargetNetPos(settings, e) \in Int
    <3>1. /\ settings.absorb \in Int /\ settings.follow \in Int /\ settings.dump \in Int
          /\ settings.objective \in {"accumulation", "distribution", "shakeout"}
          /\ e.amount \in Int
      BY DEF TablesOK, SettingsState, ExternalTradeEvent
    <3>2. /\ e.amount * settings.absorb \in Int
          /\ e.amount * settings.follow \in Int
          /\ e.amount * settings.dump \in Int
      BY <3>1
    <3>3. 0 - e.amount * settings.follow \in Int /\ 0 - e.amount * settings.dump \in Int
      BY <3>2
    <3> QED
      BY <3>1, <3>2, <3>3 DEF TargetNetPos
  <2>2. HasRun
    BY <1>3 DEF DirectiveForTrade
  <2>3. DirectiveForTrade(e) =
           [run |-> Latest, net |-> TargetNetPos(settings, e),
            volume |-> Abs(TargetNetPos(settings, e)), min |-> settings.min,
            max |-> settings.max, execute |-> e.execute]
    BY <1>3 DEF DirectiveForTrade
  <2> QED
    BY <1>1, <1>2, <2>1, <2>2, <2>3
    DEF Directive, TablesOK, SettingsState, ExternalTradeEvent
<1>4. ASSUME NEW s \in SettingsState, DirectiveForSettings(s) # Nothing
      PROVE  /\ DirectiveForSettings(s) \in Directive
             /\ DirectiveForSettings(s).run \in DOMAIN runs
  <2>1. Most(s.volume, Abs(s.net)) \in Int
    BY <1>2 DEF SettingsState, Most
  <2>2. HasRun
    BY <1>4 DEF DirectiveForSettings
  <2>3. DirectiveForSettings(s) =
           [run |-> Latest, net |-> s.net, volume |-> Most(s.volume, Abs(s.net)),
            min |-> s.min, max |-> s.max, execute |-> FALSE]
    BY <1>4 DEF DirectiveForSettings
  <2> QED
    BY <1>1, <2>1, <2>2, <2>3 DEF Directive, SettingsState
<1> QED
  BY <1>3, <1>4

\* The plan for a directive is a sequence.
LEMMA DirectivePlan ==
  ASSUME NEW d \in Directive
  PROVE  IsSeq(GeneratePlan(PlanningInput(d)))
<1>1. /\ PlanningInput(d).buy \in Int /\ PlanningInput(d).sell \in Int
      /\ PlanningInput(d).hint \in Int
  BY DEF PlanningInput, Most, Directive
<1> QED
  BY <1>1, PlanIsSeq

-----------------------------------------------------------------------------
(* The bus.                                                                 *)

\* Publishing keeps the bus a sequence of messages, though it may lose one.
LEMMA PublishTyped ==
  ASSUME NEW b \in Seq(Message), NEW m \in Message
  PROVE  Publish(b, m) \in Seq(Message)
<1>1. CASE Len(b) = EventBusCapacity
  <2>1. b # <<>>
    BY <1>1, ActorAssumption
  <2>2. Tail(b) \in Seq(Message)
    BY <2>1
  <2> QED
    BY <1>1, <2>2 DEF Publish
<1>2. CASE Len(b) # EventBusCapacity
  BY <1>2 DEF Publish
<1> QED
  BY <1>1, <1>2

Fill(a) == [type |-> "OrderFilled", run |-> a.run, status |-> a.status]

\* h gives the bus after each of the first k fills.
IsTold(h, s, q, k) ==
    h = [n \in 0 .. k |-> IF n = 0 THEN s ELSE Publish(h[n - 1], Fill(q[n]))]

\* There is such a function, so that the one taken is one.
LEMMA ToldIsFunction ==
  ASSUME NEW s, NEW q, NEW k \in Nat
  PROVE  \E h : IsTold(h, s, q, k)
<1> DEFINE T == {j \in Nat : ~ \E h : IsTold(h, s, q, j)}
<1>1. SUFFICES ASSUME T # {} PROVE FALSE
  OBVIOUS
<1>2. PICK j \in T : \A m \in T : j <= m
  BY <1>1, LeastNat
<1>3. CASE j = 0
  <2> DEFINE h == [n \in 0 .. 0 |-> s]
  <2>1. IsTold(h, s, q, 0)
    BY DEF IsTold
  <2> QED
    BY <1>2, <1>3, <2>1
<1>4. CASE j # 0
  <2>1. j - 1 \in Nat /\ j - 1 \notin T
    BY <1>2, <1>4
  <2>2. PICK g : IsTold(g, s, q, j - 1)
    BY <2>1
  <2> DEFINE h == [n \in 0 .. j |-> IF n = j THEN Publish(g[j - 1], Fill(q[j]))
                                             ELSE g[n]]
  <2>3. \A n \in 0 .. j : h[n] = IF n = 0 THEN s ELSE Publish(h[n - 1], Fill(q[n]))
    BY <1>4, <2>1, <2>2 DEF IsTold
  <2>4. IsTold(h, s, q, j)
    BY <2>3 DEF IsTold
  <2> QED
    BY <1>2, <2>4
<1> QED
  BY <1>3, <1>4

\* Telling the bus of a batch's fills keeps it a sequence of messages.
LEMMA FillsTyped ==
  ASSUME NEW b \in Seq(Message), NEW q \in Seq(Attempt)
  PROVE  PublishFills(b, q) \in Seq(Message)
<1> DEFINE k == Len(q)
           told[n \in 0 .. k] ==
               IF n = 0 THEN b
               ELSE Publish(told[n - 1], [type |-> "OrderFilled", run |-> q[n].run,
                                          status |-> q[n].status])
<1>1. k \in Nat /\ \A n \in 1 .. k : Fill(q[n]) \in Message
  <2>1. k \in Nat /\ \A n \in 1 .. k : q[n] \in Attempt
    OBVIOUS
  <2>2. \A a \in Attempt : Fill(a) \in Message
    BY DEF Fill, Message, Attempt
  <2> QED
    BY <2>1, <2>2
<1>2. \E h : IsTold(h, b, q, k)
  <2> HIDE DEF k
  <2> QED
    BY <1>1, ToldIsFunction
<1>3. IsTold(told, b, q, k)
  <2> HIDE DEF k
  <2> QED
    BY <1>2 DEF IsTold, Fill
<1> DEFINE T == {n \in 0 .. k : told[n] \notin Seq(Message)}
<1>4. T = {}
  <2> HIDE DEF k, told
  <2>1. SUFFICES ASSUME T # {} PROVE FALSE
    OBVIOUS
  <2>2. PICK n \in T : \A m \in T : n <= m
    <3>1. T \subseteq Nat
      BY <1>1
    <3> HIDE DEF T
    <3> QED
      BY <2>1, <3>1, LeastNat
  <2>3. told[n] = IF n = 0 THEN b ELSE Publish(told[n - 1], Fill(q[n]))
    BY <1>3, <2>2 DEF IsTold
  <2>4. n # 0
    BY <2>2, <2>3
  <2>5. n - 1 \in 0 .. k /\ n - 1 \notin T /\ n \in 1 .. k
    BY <1>1, <2>2, <2>4
  <2>6. told[n - 1] \in Seq(Message)
    BY <2>5
  <2> QED
    BY <1>1, <2>2, <2>3, <2>4, <2>5, <2>6, PublishTyped
<1>5. told[k] \in Seq(Message)
  BY <1>1, <1>4
<1> QED
  BY <1>5 DEF PublishFills

-----------------------------------------------------------------------------
(* Types.                                                                   *)

\* Nothing has happened yet.
LEMMA InitTyped == Init => TypeInv
<1> SUFFICES ASSUME Init PROVE TypeInv
  OBVIOUS
<1>1. TablesOK
  BY RequestAssumption DEF Init, TablesOK
<1>2. ChannelsOK
  BY DEF Init, ChannelsOK
<1> QED
  BY <1>1, <1>2 DEF Init, TypeInv, JobOK

\* What holds of the channels holds on where no run is removed and they are
\* left alone.
LEMMA ChannelsKept ==
  ASSUME ChannelsOK, DOMAIN runs \subseteq DOMAIN runs', UNCHANGED actors
  PROVE  ChannelsOK'
<1>1. UNCHANGED <<bus, directives, executions, engine, planner>>
  BY DEF actors
<1> QED
  BY <1>1 DEF ChannelsOK

\* What holds of the job holds on where it, the runs and the tasks are left alone.
LEMMA JobKept ==
  ASSUME JobOK, UNCHANGED <<runs, tasks, job>>
  PROVE  JobOK'
  BY DEF JobOK, Planning, InBatch

\* A request of the user keeps the types.
LEMMA RequestsTyped ==
  ASSUME TypeInv, SaveSettings \/ ExternalTrade
  PROVE  TypeInv'
<1>1. CASE SaveSettings
  <2>1. PICK s \in SettingsStates :
           settings' = s /\ bus' = Publish(bus, [type |-> "SettingsUpdated", settings |-> s])
    BY <1>1 DEF SaveSettings
  <2>2. s \in SettingsState /\ [type |-> "SettingsUpdated", settings |-> s] \in Message
    BY RequestAssumption DEF Message
  <2>3. bus' \in Seq(Message)
    BY <2>1, <2>2, PublishTyped DEF TypeInv, ChannelsOK
  <2>4. UNCHANGED <<runs, tasks, attempts, job, directives, executions, engine, planner,
                    now, swaps, crashes>>
    BY <1>1 DEF SaveSettings
  <2> QED
    BY <2>1, <2>2, <2>3, <2>4, JobKept DEF TypeInv, TablesOK, ChannelsOK
<1>2. CASE ExternalTrade
  <2>1. PICK e \in Events :
           LET contract == IF e.contract = "" THEN settings.contract ELSE e.contract
           IN  bus' = Publish(bus, [type |-> "ExternalTrade",
                                    event |-> [e EXCEPT !.contract = contract]])
    BY <1>2 DEF ExternalTrade
  <2>2. \A c \in STRING : [e EXCEPT !.contract = c] \in ExternalTradeEvent
    BY RequestAssumption DEF ExternalTradeEvent
  <2>3. settings.contract \in STRING /\ e.contract \in STRING
    BY RequestAssumption DEF TypeInv, TablesOK, SettingsState, ExternalTradeEvent
  <2>4. \A v \in ExternalTradeEvent : [type |-> "ExternalTrade", event |-> v] \in Message
    BY DEF Message
  <2>5. bus' \in Seq(Message)
    BY <2>1, <2>2, <2>3, <2>4, PublishTyped DEF TypeInv, ChannelsOK
  <2>6. UNCHANGED <<settings, runs, tasks, attempts, job, directives, executions, engine,
                    planner, now, swaps, crashes>>
    BY <1>2 DEF ExternalTrade, db
  <2> QED
    BY <2>5, <2>6, JobKept DEF TypeInv, TablesOK, ChannelsOK
<1> QED
  BY <1>1, <1>2

\* A trade's run is created and its plan is to be written.
LEMMA CreateRunTyped ==
  ASSUME TypeInv, CreateRun
  PROVE  TypeInv' /\ Planning(job)'
<1>1. PICK t \in Trades :
         /\ runs' = Append(runs, [status |-> "planned", version |-> 1, updated |-> now])
         /\ job' = PlanJob("trade", Len(runs) + 1, 1, GeneratePlan(t), "replace",
                           "executing", t.delayed, FALSE)
  BY DEF CreateRun, PlanJob
<1>2. UNCHANGED <<settings, tasks, attempts, actors, now, swaps, crashes>>
  BY DEF CreateRun
<1>3. IsSeq(GeneratePlan(t))
  BY RequestAssumption, PlanIsSeq DEF TradeRequest
<1>4. [status |-> "planned", version |-> 1, updated |-> now] \in RunRow
  BY DEF TypeInv, TablesOK, RunRow, RunStatuses
<1>5. /\ runs' \in Seq(RunRow) /\ DOMAIN runs \subseteq DOMAIN runs'
      /\ Len(runs) + 1 \in DOMAIN runs'
  BY <1>1, <1>4, AppendProperties DEF TypeInv, TablesOK
<1>6. TablesOK'
  BY <1>2, <1>5 DEF TypeInv, TablesOK
<1>7. ChannelsOK'
  BY <1>2, <1>5, ChannelsKept DEF TypeInv
<1>8. Planning(job)'
  <2>1. PICK no : no = FALSE
    OBVIOUS
  <2>2. job' = PlanJob("trade", Len(runs) + 1, 1, GeneratePlan(t), "replace",
                       "executing", t.delayed, no)
    BY <1>1, <2>1
  <2> QED
    BY <1>3, <1>5, <2>2 DEF Planning, RunStatuses
<1> QED
  BY <1>6, <1>7, <1>8 DEF TypeInv, JobOK

\* A batch is taken from the pending rows of the plan in force.
LEMMA StartTyped ==
  ASSUME TablesOK, NEW r \in DOMAIN runs, NEW max, NEW by \in {"http", "gateway"},
         StartConsuming(r, max, by), UNCHANGED <<runs, tasks>>
  PROVE  /\ InBatch(job)'
         /\ job'.run = r /\ job'.version = runs[r].version /\ job'.at = "trade"
         /\ job'.rows \subseteq Pending(r, runs[r].version)
<1> DEFINE rows == OldestPending(r, runs[r].version, max)
<1>1. rows \subseteq Pending(r, runs[r].version)
  BY DEF OldestPending
<1>2. Pending(r, runs[r].version) \subseteq DOMAIN tasks /\ DOMAIN tasks \subseteq Nat
  BY DEF Pending, RowsOf, TablesOK
<1>3. r \in Nat /\ runs[r].version \in Nat
  <2>1. r \in Nat /\ runs[r] \in RunRow
    BY DEF TablesOK
  <2> QED
    BY <2>1 DEF RunRow
<1>4. <<>> \in Seq(Attempt)
  OBVIOUS
<1>5. job' = [type |-> "consume", by |-> by, run |-> r, version |-> runs[r].version,
              rows |-> rows, outcome |-> Nothing, at |-> "trade", done |-> <<>>]
  BY DEF StartConsuming
<1> HIDE DEF rows
<1>6. job' \in Batch
  BY <1>1, <1>2, <1>3, <1>4, <1>5 DEF Batch
<1>7. InBatch(job)'
  BY <1>1, <1>2, <1>5, <1>6 DEF InBatch
<1> QED
  BY <1>1, <1>5, <1>7

\* Replacing the rows of a plan appends its rows, pending, and brings no row back.
LEMMA ReplaceLeaves ==
  ASSUME TypeInv, ReplaceTasks
  PROVE  /\ tasks' \in Seq(TaskRow)
         /\ DOMAIN tasks \subseteq DOMAIN tasks'
         /\ \A id \in DOMAIN tasks :
               tasks[id].status # "pending" => tasks'[id].status # "pending"
         /\ Planning(job) /\ Planning(job')
         /\ UNCHANGED <<settings, runs, attempts, actors, history>>
<1>1. Planning(job)
  BY JobIs DEF ReplaceTasks, TypeInv
<1>2. job' = [job EXCEPT !.at = "adopt"]
  BY DEF ReplaceTasks
<1>3. Planning(job')
  BY <1>1, <1>2, SetPlanJob
<1>4. job.run \in Nat /\ job.version \in Nat /\ IsSeq(job.plan)
  BY <1>1 DEF Planning, PlanJob, TypeInv, TablesOK
<1> DEFINE old == [id \in DOMAIN tasks |->
                      IF id \in RowsOf(job.run, job.version)
                      THEN [tasks[id] EXCEPT !.status = "deleted"] ELSE tasks[id]]
           new == NewRows(job.run, job.version, job.plan)
<1>5. DOMAIN tasks = 1 .. Len(tasks) /\ Len(tasks) \in Nat
      /\ \A id \in DOMAIN tasks : tasks[id] \in TaskRow
  BY DEF TypeInv, TablesOK
<1>6. \A t \in TaskRow : [t EXCEPT !.status = "deleted"] \in TaskRow
                         /\ [t EXCEPT !.status = "deleted"].status = "deleted"
  BY DEF TaskRow
<1>7. \A id \in DOMAIN tasks :
         old[id] \in TaskRow
         /\ (tasks[id].status # "pending" => old[id].status # "pending")
  BY <1>5, <1>6
<1>8. old \in Seq(TaskRow) /\ Len(old) = Len(tasks)
  <2>1. old = [id \in 1 .. Len(tasks) |-> old[id]]
    BY <1>5
  <2>2. old \in Seq(TaskRow)
    <3> HIDE DEF old
    <3> QED
      BY <1>5, <1>7, <2>1, IsASeq
  <2> QED
    BY <1>5, <2>2
<1>9. new \in Seq(TaskRow)
  <2>1. PICK S : job.plan \in Seq(S)
    BY <1>4 DEF IsSeq
  <2>2. DOMAIN job.plan = 1 .. Len(job.plan) /\ Len(job.plan) \in Nat
    BY <2>1
  <2>3. \A n \in 1 .. Len(job.plan) :
           [run |-> job.run, version |-> job.version, intent |-> n,
            status |-> "pending"] \in TaskRow
    BY <1>4, <2>2 DEF TaskRow
  <2> QED
    BY <2>2, <2>3, IsASeq DEF NewRows
<1>10. tasks' = old \o new
  BY DEF ReplaceTasks, ReplaceStrategyExecutionTasks
<1> HIDE DEF old, new
<1>11. /\ tasks' \in Seq(TaskRow)
       /\ \A id \in DOMAIN tasks : id \in DOMAIN tasks' /\ tasks'[id] = old[id]
  BY <1>5, <1>8, <1>9, <1>10, ConcatProperties
<1>12. UNCHANGED <<settings, runs, attempts, actors, history>>
  BY DEF ReplaceTasks
<1> QED
  BY <1>1, <1>3, <1>7, <1>11, <1>12

\* A row can be put in the place of another.
LEMMA SetRow ==
  ASSUME NEW S, NEW q \in Seq(S), NEW i \in DOMAIN q, NEW e \in S
  PROVE  /\ [q EXCEPT ![i] = e] \in Seq(S)
         /\ DOMAIN [q EXCEPT ![i] = e] = DOMAIN q
<1>1. i \in 1 .. Len(q)
  OBVIOUS
<1> QED
  BY <1>1, ExceptSeq

\* Planning goes on whatever becomes of the runs' rows.
LEMMA PlanningKept ==
  ASSUME DOMAIN runs \subseteq DOMAIN runs', Planning(job')
  PROVE  Planning(job)'
  BY DEF Planning

\* The new plan is adopted: no run goes away, and nothing is being traded.
LEMMA AdoptTyped ==
  ASSUME TypeInv, AdoptPlan
  PROVE  /\ TypeInv'
         /\ Planning(job)
         /\ job' = NoJob \/ Planning(job)'
<1>1. Planning(job)
  BY JobIs DEF AdoptPlan, TypeInv
<1>2. job.run \in DOMAIN runs /\ job.version \in Nat /\ job.status \in RunStatuses
      /\ job.version + 1 \in Nat
  BY <1>1 DEF Planning, PlanJob
<1>3. [status |-> job.status, version |-> job.version, updated |-> now] \in RunRow
  BY <1>2 DEF TypeInv, TablesOK, RunRow
<1>4. runs' \in Seq(RunRow) /\ DOMAIN runs' = DOMAIN runs
  <2>1. runs' = [runs EXCEPT ![job.run] = [status |-> job.status, version |-> job.version,
                                           updated |-> now]]
    BY DEF AdoptPlan, UpdateRun
  <2>2. runs \in Seq(RunRow)
    BY DEF TypeInv, TablesOK
  <2> QED
    BY <1>2, <1>3, <2>1, <2>2, SetRow
<1>5. UNCHANGED <<settings, tasks, attempts, bus, directives, executions, engine, history>>
  BY DEF AdoptPlan
<1>6. job' = NoJob \/ Planning(job)'
  <2> DEFINE j1 == [job EXCEPT !.again = FALSE]
             j2 == [j1 EXCEPT !.version = job.version + 1]
             j3 == [j2 EXCEPT !.at = "replace"]
             j4 == [j3 EXCEPT !.status = "replanned"]
  <2>1. Planning(j1)
    BY <1>1, SetPlanJob
  <2>2. Planning(j2)
    BY <1>2, <2>1, SetPlanJob
  <2>3. Planning(j3)
    BY <2>2, SetPlanJob
  <2>4. Planning(j4)
    BY <2>3, SetPlanJob DEF RunStatuses
  <2>5. j4 = [job EXCEPT !.again = FALSE, !.version = @ + 1, !.at = "replace",
                         !.status = "replanned"]
    BY <1>1 DEF Planning, PlanJob
  <2>6. job' = NoJob \/ job' = j4
    BY <2>5 DEF AdoptPlan
  <2> HIDE DEF j4
  <2> QED
    BY <1>4, <2>4, <2>6, PlanningKept
<1>7. planner' = planner \/ (planner' \in Execution /\ planner'.run \in DOMAIN runs)
  <2>1. job.run \in Nat
    BY <1>2 DEF TypeInv, TablesOK
  <2>2. [run |-> job.run] \in Execution /\ [run |-> job.run].run = job.run
    BY <2>1 DEF Execution
  <2> QED
    BY <1>2, <2>2 DEF AdoptPlan
<1>8. TablesOK'
  BY <1>4, <1>5 DEF TypeInv, TablesOK, history
<1>9. ChannelsOK'
  BY <1>4, <1>5, <1>7 DEF TypeInv, ChannelsOK
<1> QED
  BY <1>1, <1>6, <1>8, <1>9 DEF TypeInv, JobOK

\* The steps of a batch: the trade, the task's row, the attempt's row.
LEMMA BatchTyped ==
  ASSUME TypeInv, Execute \/ UpdateTask \/ InsertAttempt
  PROVE  /\ TypeInv' /\ InBatch(job) /\ InBatch(job)'
         /\ Current \in job.rows
         /\ job'.run = job.run /\ job'.version = job.version
<1>1. InBatch(job) /\ job.rows # {}
  <2>1. ~ Free /\ job.type = "consume"
    BY DEF Execute, UpdateTask, InsertAttempt, Consuming
  <2>2. InBatch(job)
    BY <2>1, JobIs DEF TypeInv
  <2>3. job.rows # {}
    BY <2>2 DEF Execute, UpdateTask, InsertAttempt, Consuming, InBatch
  <2> QED
    BY <2>2, <2>3
<1>2. Current \in job.rows
  BY <1>1, CurrentInBatch
<1>3. job \in Batch /\ job.run \in DOMAIN runs /\ job.rows \subseteq DOMAIN tasks
      /\ Current \in DOMAIN tasks /\ Current \in Nat
  BY <1>1, <1>2 DEF InBatch, Batch
<1>4. CASE Execute
  <2>1. PICK sent \in BOOLEAN, seen \in BOOLEAN :
           /\ swaps' = IF sent THEN Append(swaps, [task |-> Current, crashes |-> crashes])
                       ELSE swaps
           /\ job' = [job EXCEPT !.at = "task",
                          !.outcome = IF seen THEN "executed" ELSE "failed"]
    BY <1>4 DEF Execute
  <2>2. PICK o \in {"executed", "failed"} : job' = [job EXCEPT !.at = "task", !.outcome = o]
    BY <2>1
  <2>3. job' \in Batch /\ job'.rows = job.rows /\ job'.outcome = o
        /\ job'.run = job.run /\ job'.version = job.version
    BY <1>3, <2>2 DEF Batch
  <2>4. [task |-> Current, crashes |-> crashes] \in Swap
    BY <1>3 DEF TypeInv, TablesOK, Swap
  <2>5. swaps' \in Seq(Swap)
    BY <2>1, <2>4 DEF TypeInv, TablesOK
  <2>6. UNCHANGED <<settings, runs, tasks, attempts, actors, now, requests, crashes>>
    BY <1>4 DEF Execute, db
  <2>7. InBatch(job)'
    BY <1>1, <1>3, <2>3, <2>6 DEF InBatch
  <2>8. TablesOK' /\ ChannelsOK'
    BY <2>5, <2>6, ChannelsKept DEF TypeInv, TablesOK
  <2> QED
    BY <1>1, <1>2, <2>3, <2>7, <2>8 DEF TypeInv, JobOK
<1>5. CASE UpdateTask
  <2>1. job.at = "task" /\ job.outcome \in {"executed", "failed"}
    BY <1>1, <1>5 DEF UpdateTask, Consuming, InBatch
  <2>2. tasks[Current] \in TaskRow
    BY <1>3 DEF TypeInv, TablesOK
  <2>3. [tasks[Current] EXCEPT !.status = job.outcome] \in TaskRow
    BY <2>1, <2>2 DEF TaskRow
  <2>4. tasks' = [tasks EXCEPT ![Current] = [tasks[Current] EXCEPT !.status = job.outcome]]
    BY <1>5 DEF UpdateTask
  <2>5. tasks' \in Seq(TaskRow) /\ DOMAIN tasks' = DOMAIN tasks
    <3>1. tasks \in Seq(TaskRow)
      BY DEF TypeInv, TablesOK
    <3> QED
      BY <1>3, <2>3, <2>4, <3>1, SetRow
  <2>6. job' = [job EXCEPT !.at = "attempt"]
    BY <1>5 DEF UpdateTask
  <2>7. job' \in Batch /\ job'.rows = job.rows /\ job'.outcome = job.outcome
        /\ job'.run = job.run /\ job'.version = job.version
    BY <1>3, <2>6 DEF Batch
  <2>8. UNCHANGED <<settings, runs, attempts, actors, history>>
    BY <1>5 DEF UpdateTask
  <2>9. InBatch(job)'
    BY <1>1, <1>3, <2>1, <2>5, <2>7, <2>8 DEF InBatch
  <2>10. TablesOK' /\ ChannelsOK'
    BY <2>5, <2>8, ChannelsKept DEF TypeInv, TablesOK, history
  <2> QED
    BY <1>1, <1>2, <2>7, <2>9, <2>10 DEF TypeInv, JobOK
<1>6. CASE InsertAttempt
  <2> DEFINE a == [task |-> Current, run |-> job.run, status |-> job.outcome]
  <2>1. job.at = "attempt" /\ job.outcome \in {"executed", "failed"}
    BY <1>1, <1>6 DEF InsertAttempt, Consuming, InBatch
  <2>2. a \in Attempt
    BY <1>3, <2>1 DEF Attempt, Batch
  <2>3. job' = [job EXCEPT !.at = "trade", !.rows = @ \ {Current},
                           !.outcome = Nothing, !.done = Append(@, a)]
    BY <1>6 DEF InsertAttempt
  <2>4. Append(job.done, a) \in Seq(Attempt)
    BY <1>3, <2>2 DEF Batch
  <2> HIDE DEF a
  <2>5. job' \in Batch /\ job'.rows = job.rows \ {Current} /\ job'.at = "trade"
        /\ job'.run = job.run /\ job'.version = job.version
    BY <1>3, <2>3, <2>4 DEF Batch
  <2>6. UNCHANGED <<settings, runs, tasks, actors, history>>
    BY <1>6 DEF InsertAttempt
  <2>7. InBatch(job)'
    BY <1>3, <2>5, <2>6 DEF InBatch
  <2>8. TablesOK' /\ ChannelsOK'
    BY <2>6, ChannelsKept DEF TypeInv, TablesOK, history
  <2> QED
    BY <1>1, <1>2, <2>5, <2>7, <2>8 DEF TypeInv, JobOK
<1> QED
  BY <1>4, <1>5, <1>6

\* A batch is asked for by a user, or by the planner's directive.
LEMMA ConsumeTyped ==
  ASSUME TypeInv, ConsumeRequest \/ ReadExecution
  PROVE  /\ TypeInv' /\ InBatch(job)' /\ job = NoJob
         /\ job'.version = runs[job'.run].version /\ job'.at = "trade"
         /\ job'.rows \subseteq Pending(job'.run, job'.version)
         /\ UNCHANGED <<runs, tasks, swaps, crashes>>
<1>1. CASE ConsumeRequest
  <2>1. PICK max \in {1, BatchSize} : StartConsuming(Latest, max, "http")
    BY <1>1 DEF ConsumeRequest
  <2>2. UNCHANGED <<settings, runs, tasks, attempts, actors, now, swaps, crashes>> /\ HasRun
    BY <1>1 DEF ConsumeRequest, db
  <2>3. Latest \in DOMAIN runs
    BY <2>2, LatestIsRun DEF TypeInv, TablesOK
  <2>4. /\ InBatch(job)'
        /\ job'.run = Latest /\ job'.version = runs[Latest].version /\ job'.at = "trade"
        /\ job'.rows \subseteq Pending(Latest, runs[Latest].version)
    BY <2>1, <2>2, <2>3, StartTyped DEF TypeInv
  <2>5. TablesOK' /\ ChannelsOK'
    BY <2>2, ChannelsKept DEF TypeInv, TablesOK
  <2> QED
    BY <1>1, <2>2, <2>4, <2>5 DEF TypeInv, JobOK, ConsumeRequest, Free
<1>2. CASE ReadExecution
  <2> DEFINE r == Head(executions).run
  <2>1. /\ executions \in Seq(Execution) /\ executions # <<>>
        /\ \A i \in DOMAIN executions : executions[i].run \in DOMAIN runs
    BY <1>2 DEF ReadExecution, TypeInv, ChannelsOK
  <2>2. r \in DOMAIN runs
    BY <2>1
  <2>3. executions' \in Seq(Execution)
        /\ \A i \in DOMAIN executions' : executions'[i].run \in DOMAIN runs
    BY <1>2, <2>1 DEF ReadExecution
  <2>4. UNCHANGED <<settings, runs, tasks, attempts, bus, directives, engine, planner,
                    now, swaps, requests, crashes>>
    BY <1>2 DEF ReadExecution, db, history
  <2>5. StartConsuming(r, BatchSize, "gateway")
    BY <1>2 DEF ReadExecution
  <2> HIDE DEF r
  <2>6. /\ InBatch(job)'
        /\ job'.run = r /\ job'.version = runs[r].version /\ job'.at = "trade"
        /\ job'.rows \subseteq Pending(r, runs[r].version)
    BY <2>2, <2>4, <2>5, StartTyped DEF TypeInv
  <2>7. TablesOK' /\ ChannelsOK'
    BY <2>3, <2>4 DEF TypeInv, TablesOK, ChannelsOK
  <2> QED
    BY <1>2, <2>4, <2>6, <2>7 DEF TypeInv, JobOK, ReadExecution, Free
<1> QED
  BY <1>1, <1>2

\* The last step of a batch writes its run's row, and tells the bus.
LEMMA EndTyped ==
  ASSUME TypeInv, EndBatch
  PROVE  /\ TypeInv' /\ InBatch(job) /\ job.at = "trade"
         /\ job' = NoJob /\ UNCHANGED <<tasks, swaps, crashes>>
<1>1. InBatch(job) /\ job.at = "trade"
  BY JobIs DEF EndBatch, Consuming, TypeInv
<1>2. /\ job.run \in DOMAIN runs /\ job.version \in Nat /\ job.done \in Seq(Attempt)
  BY <1>1 DEF InBatch, Batch
<1>3. StatusAfter \in RunStatuses
  BY DEF StatusAfter, RunStatuses
<1>4. [status |-> StatusAfter, version |-> job.version, updated |-> now] \in RunRow
  BY <1>2, <1>3 DEF TypeInv, TablesOK, RunRow
<1>5. runs' \in Seq(RunRow) /\ DOMAIN runs' = DOMAIN runs
  <2>1. runs' = [runs EXCEPT ![job.run] = [status |-> StatusAfter, version |-> job.version,
                                           updated |-> now]]
    BY DEF EndBatch, UpdateRun
  <2>2. runs \in Seq(RunRow)
    BY DEF TypeInv, TablesOK
  <2> QED
    BY <1>2, <1>4, <2>1, <2>2, SetRow
<1>6. bus' \in Seq(Message)
  BY <1>2, FillsTyped DEF EndBatch, TypeInv, ChannelsOK
<1>7. UNCHANGED <<settings, tasks, attempts, directives, executions, engine, planner,
                  now, swaps, requests, crashes>> /\ job' = NoJob
  BY DEF EndBatch, history
<1>8. TablesOK' /\ ChannelsOK'
  BY <1>5, <1>6, <1>7 DEF TypeInv, TablesOK, ChannelsOK
<1> QED
  BY <1>1, <1>7, <1>8 DEF TypeInv, JobOK

\* What the actors pass on is typed, and names a run that exists.
LEMMA ActorsTyped ==
  ASSUME TypeInv, ReadEvent \/ SendDirective \/ SendExecution
  PROVE  TypeInv' /\ UNCHANGED <<runs, tasks, job, swaps, crashes>>
<1>1. CASE ReadEvent
  <2>1. UNCHANGED <<settings, runs, tasks, attempts, job, directives, executions, planner,
                    now, swaps, requests, crashes>>
    BY <1>1 DEF ReadEvent, db, history
  <2> DEFINE e == Head(bus)
  <2>2. e \in Message /\ Tail(bus) \in Seq(Message)
    BY <1>1 DEF ReadEvent, TypeInv, ChannelsOK
  <2>3. e.type \in {"OrderFilled", "ExternalTrade", "SettingsUpdated"}
    BY <2>2 DEF Message
  <2>4. /\ e.type = "ExternalTrade" => e.event \in ExternalTradeEvent
        /\ e.type = "SettingsUpdated" => e.settings \in SettingsState
    BY <2>2 DEF Message
  <2>5. engine' = CASE e.type = "ExternalTrade" -> DirectiveForTrade(e.event)
                    [] e.type = "SettingsUpdated" -> DirectiveForSettings(e.settings)
                    [] e.type = "OrderFilled" -> Nothing
    BY <1>1 DEF ReadEvent
  <2> HIDE DEF e
  <2>6. engine' # Nothing => engine' \in Directive /\ engine'.run \in DOMAIN runs
    <3>1. CASE e.type = "ExternalTrade"
      <4>1. engine' = DirectiveForTrade(e.event)
        BY <2>5, <3>1
      <4> QED
        BY <2>4, <3>1, <4>1, DirectivesTyped DEF TypeInv
    <3>2. CASE e.type = "SettingsUpdated"
      <4>1. engine' = DirectiveForSettings(e.settings)
        BY <2>5, <3>2
      <4> QED
        BY <2>4, <3>2, <4>1, DirectivesTyped DEF TypeInv
    <3>3. CASE e.type = "OrderFilled"
      <4>1. e.type # "ExternalTrade" /\ e.type # "SettingsUpdated"
        BY <3>3
      <4>2. engine' = Nothing
        BY <2>5, <3>3, <4>1
      <4> QED
        BY <4>2
    <3> QED
      BY <2>3, <3>1, <3>2, <3>3
  <2>7. TablesOK'
    BY <2>1 DEF TypeInv, TablesOK
  <2>8. bus' \in Seq(Message)
    BY <1>1, <2>2 DEF ReadEvent
  <2>9. ChannelsOK'
    BY <2>1, <2>6, <2>8 DEF TypeInv, ChannelsOK
  <2> QED
    BY <2>1, <2>7, <2>9, JobKept DEF TypeInv
<1>2. CASE SendDirective
  <2>1. UNCHANGED <<settings, runs, tasks, attempts, job, bus, executions, planner,
                    now, swaps, requests, crashes>>
    BY <1>2 DEF SendDirective, db, history
  <2>2. /\ directives' = Append(directives, engine) /\ engine' = Nothing
        /\ engine \in Directive /\ engine.run \in DOMAIN runs
        /\ directives \in Seq(Directive)
        /\ \A i \in DOMAIN directives : directives[i].run \in DOMAIN runs
    BY <1>2 DEF SendDirective, TypeInv, ChannelsOK
  <2>3. /\ directives' \in Seq(Directive)
        /\ \A i \in DOMAIN directives' : directives'[i].run \in DOMAIN runs
    BY <2>2, AppendProperties
  <2>4. TablesOK' /\ ChannelsOK'
    BY <2>1, <2>2, <2>3 DEF TypeInv, TablesOK, ChannelsOK
  <2> QED
    BY <2>1, <2>4, JobKept DEF TypeInv
<1>3. CASE SendExecution
  <2>1. UNCHANGED <<settings, runs, tasks, attempts, job, bus, directives, engine,
                    now, swaps, requests, crashes>>
    BY <1>3 DEF SendExecution, db, history
  <2>2. /\ executions' = Append(executions, planner) /\ planner' = Nothing
        /\ planner \in Execution /\ planner.run \in DOMAIN runs
        /\ executions \in Seq(Execution)
        /\ \A i \in DOMAIN executions : executions[i].run \in DOMAIN runs
    BY <1>3 DEF SendExecution, TypeInv, ChannelsOK
  <2>3. /\ executions' \in Seq(Execution)
        /\ \A i \in DOMAIN executions' : executions'[i].run \in DOMAIN runs
    BY <2>2, AppendProperties
  <2>4. TablesOK' /\ ChannelsOK'
    BY <2>1, <2>2, <2>3 DEF TypeInv, TablesOK, ChannelsOK
  <2> QED
    BY <2>1, <2>4, JobKept DEF TypeInv
<1> QED
  BY <1>1, <1>2, <1>3

\* A directive is dropped, or a plan for its run is to be written.
LEMMA DirectiveTyped ==
  ASSUME TypeInv, ReadDirective
  PROVE  /\ TypeInv' /\ job = NoJob
         /\ job' = NoJob \/ Planning(job)'
         /\ UNCHANGED <<runs, tasks, swaps, crashes>>
<1> DEFINE d == Head(directives)
           plan == GeneratePlan(PlanningInput(d))
<1>1. UNCHANGED <<settings, runs, tasks, attempts, bus, executions, engine, planner,
                  now, swaps, requests, crashes>>
  BY DEF ReadDirective, db, history
<1>2. /\ directives \in Seq(Directive) /\ directives # <<>>
      /\ \A i \in DOMAIN directives : directives[i].run \in DOMAIN runs
  BY DEF ReadDirective, TypeInv, ChannelsOK
<1>3. d \in Directive /\ d.run \in DOMAIN runs
  BY <1>2
<1>4. /\ directives' \in Seq(Directive)
      /\ \A i \in DOMAIN directives' : directives'[i].run \in DOMAIN runs
  BY <1>2 DEF ReadDirective
<1>5. job = NoJob
  BY DEF ReadDirective, Free
<1>6. job' = job \/ job' = PlanJob("planner", d.run, runs[d.run].version + 1, plan, "replace",
                                   "replanned", FALSE, d.execute)
  BY DEF ReadDirective, PlanJob
<1>7. IsSeq(plan)
  BY <1>3, DirectivePlan
<1>8. runs[d.run].version + 1 \in Nat
  <2>1. runs[d.run] \in RunRow
    BY <1>3 DEF TypeInv, TablesOK
  <2> QED
    BY <2>1 DEF RunRow
<1> HIDE DEF d, plan
<1>9. job' = NoJob \/ Planning(job)'
  <2>1. PICK no : no = FALSE
    OBVIOUS
  <2>2. job' = job \/ job' = PlanJob("planner", d.run, runs[d.run].version + 1, plan,
                                     "replace", "replanned", no, d.execute)
    BY <1>6, <2>1
  <2> QED
    BY <1>1, <1>3, <1>5, <1>7, <1>8, <2>2 DEF Planning, RunStatuses
<1>10. TablesOK' /\ ChannelsOK'
  BY <1>1, <1>4 DEF TypeInv, TablesOK, ChannelsOK
<1> QED
  BY <1>1, <1>5, <1>9, <1>10 DEF TypeInv, JobOK

-----------------------------------------------------------------------------
(* What a step does to a batch and to what was swapped.                     *)

\* Nothing the invariant speaks of changes.
LEMMA QuietStep ==
  ASSUME LegacyInv, TypeInv', UNCHANGED <<runs, tasks, job, swaps, crashes>>
  PROVE  LegacyInv' /\ swaps' = swaps
<1>1. InBatch(job)' <=> InBatch(job)
  BY DEF InBatch
<1>2. Current' = Current
  BY DEF Current
<1>3. BatchFits'
  BY <1>1, <1>2 DEF LegacyInv, BatchFits
<1>4. SwapsFit'
  BY <1>1, <1>2 DEF LegacyInv, SwapsFit
<1>5. TradedOnce'
  BY DEF LegacyInv, TradedOnce
<1> QED
  BY <1>3, <1>4, <1>5 DEF LegacyInv

\* After the step no batch is under way, no row is pending that was not, and a
\* batch that ends without a crash was between two trades.
LEMMA NoBatchStep ==
  ASSUME LegacyInv, TypeInv', job' = NoJob \/ Planning(job)',
         UNCHANGED swaps, DOMAIN tasks \subseteq DOMAIN tasks',
         \A id \in DOMAIN tasks :
            tasks[id].status # "pending" => tasks'[id].status # "pending",
         crashes' = crashes + 1 \/ (crashes' = crashes
                                    /\ ~(InBatch(job) /\ job.at = "task"))
  PROVE  LegacyInv' /\ swaps' = swaps
<1>1. ~ InBatch(job)'
  <2>1. (job' = NoJob \/ Planning(job)') => ~ InBatch(job)'
    <3>1. Planning(job)' => job'.type = "plan"
      BY DEF Planning, PlanJob
    <3>2. InBatch(job)' => job'.type = "consume"
      BY DEF InBatch, Batch
    <3> QED
      BY <3>1, <3>2 DEF NoJob
  <2> QED
    BY <2>1
<1>2. BatchFits'
  BY <1>1 DEF BatchFits
<1>3. SwapsFit'
  <2> SUFFICES ASSUME NEW i \in DOMAIN swaps
               PROVE  /\ swaps[i].task \in DOMAIN tasks'
                      /\ swaps[i].crashes <= crashes'
                      /\ swaps[i].crashes = crashes' =>
                            tasks'[swaps[i].task].status # "pending"
    BY DEF SwapsFit
  <2>1. /\ swaps[i].task \in DOMAIN tasks
        /\ swaps[i].crashes <= crashes
        /\ swaps[i].crashes = crashes =>
              \/ tasks[swaps[i].task].status # "pending"
              \/ InBatch(job) /\ job.at = "task" /\ swaps[i].task = Current
    BY DEF LegacyInv, SwapsFit
  <2>2. crashes \in Nat /\ swaps[i].crashes \in Nat
    <3>1. swaps[i] \in Swap /\ crashes \in Nat
      BY DEF LegacyInv, TypeInv, TablesOK
    <3> QED
      BY <3>1 DEF Swap
  <2>3. CASE crashes' = crashes + 1
    BY <2>1, <2>2, <2>3
  <2>4. CASE crashes' = crashes /\ ~(InBatch(job) /\ job.at = "task")
    BY <2>1, <2>2, <2>4
  <2> QED
    BY <2>3, <2>4
<1>4. TradedOnce'
  BY DEF LegacyInv, TradedOnce
<1> QED
  BY <1>2, <1>3, <1>4 DEF LegacyInv

\* A batch starts where there was no job, on pending rows of the plan in force.
LEMMA StartStep ==
  ASSUME LegacyInv, ConsumeRequest \/ ReadExecution
  PROVE  LegacyInv' /\ swaps' = swaps
<1>1. /\ TypeInv' /\ InBatch(job)' /\ job = NoJob
      /\ job'.version = runs[job'.run].version /\ job'.at = "trade"
      /\ job'.rows \subseteq Pending(job'.run, job'.version)
      /\ UNCHANGED <<runs, tasks, swaps, crashes>>
  BY ConsumeTyped DEF LegacyInv
<1>2. BatchFits'
  BY <1>1 DEF BatchFits, Pending, RowsOf
<1>3. ~ InBatch(job)
  BY <1>1, JobKinds
<1>4. SwapsFit'
  BY <1>1, <1>3 DEF LegacyInv, SwapsFit
<1>5. TradedOnce'
  BY <1>1 DEF LegacyInv, TradedOnce
<1> QED
  BY <1>1, <1>2, <1>4, <1>5 DEF LegacyInv

\* The trade: the row in hand is pending, so that it was not swapped since the last
\* crash, and its version is the one in force.
LEMMA ExecuteStep ==
  ASSUME LegacyInv, Execute
  PROVE  /\ LegacyInv'
         /\ UNCHANGED <<runs, tasks>>
         /\ \A i \in DOMAIN swaps' \ DOMAIN swaps :
               tasks[swaps'[i].task].version = runs[tasks[swaps'[i].task].run].version
<1>1. /\ TypeInv' /\ InBatch(job) /\ InBatch(job)' /\ Current \in job.rows
      /\ job'.run = job.run /\ job'.version = job.version
  BY BatchTyped DEF LegacyInv
<1>2. job.at = "trade" /\ UNCHANGED <<runs, tasks, crashes>>
  BY DEF Execute, Consuming, db
<1>3. job'.at = "task" /\ job'.rows = job.rows
  BY <1>1 DEF Execute, InBatch, Batch
<1>4. Current' = Current
  BY <1>3 DEF Current
<1>5. /\ tasks[Current].status = "pending"
      /\ tasks[Current].run = job.run /\ tasks[Current].version = job.version
      /\ job.version = runs[job.run].version
  BY <1>1, <1>2 DEF LegacyInv, BatchFits
<1>6. BatchFits'
  BY <1>1, <1>2, <1>3, <1>4 DEF LegacyInv, BatchFits
<1> DEFINE t == [task |-> Current, crashes |-> crashes]
<1>7. swaps' = swaps \/ swaps' = Append(swaps, t)
  BY DEF Execute
<1>8. /\ swaps \in Seq(Swap) /\ crashes \in Nat /\ DOMAIN swaps = 1 .. Len(swaps)
      /\ Len(swaps) \in Nat /\ Current \in DOMAIN tasks
      /\ t.task = Current /\ t.crashes = crashes /\ t \in Swap
  <2>1. swaps \in Seq(Swap) /\ crashes \in Nat
    BY DEF LegacyInv, TypeInv, TablesOK
  <2>2. Current \in Nat /\ Current \in DOMAIN tasks
    BY <1>1 DEF InBatch, Batch
  <2> QED
    BY <2>1, <2>2 DEF Swap
<1> HIDE DEF t
<1>9. \A i \in DOMAIN swaps' : \/ i \in DOMAIN swaps /\ swaps'[i] = swaps[i]
                               \/ /\ i = Len(swaps) + 1 /\ i \notin DOMAIN swaps
                                  /\ swaps'[i] = t
  BY <1>7, <1>8, AppendProperties
<1>10. \A i \in DOMAIN swaps : swaps[i].task = Current => swaps[i].crashes # crashes
  <2> SUFFICES ASSUME NEW i \in DOMAIN swaps, swaps[i].task = Current,
                      swaps[i].crashes = crashes
               PROVE  FALSE
    OBVIOUS
  <2> QED
    BY <1>2, <1>5 DEF LegacyInv, SwapsFit
<1>11. SwapsFit'
  <2> SUFFICES ASSUME NEW i \in DOMAIN swaps'
               PROVE  /\ swaps'[i].task \in DOMAIN tasks
                      /\ swaps'[i].crashes <= crashes
                      /\ swaps'[i].crashes = crashes =>
                            \/ tasks[swaps'[i].task].status # "pending"
                            \/ InBatch(job)' /\ job'.at = "task"
                               /\ swaps'[i].task = Current'
    BY <1>2 DEF SwapsFit
  <2>1. CASE i \in DOMAIN swaps /\ swaps'[i] = swaps[i]
    BY <1>2, <2>1 DEF LegacyInv, SwapsFit
  <2>2. CASE swaps'[i] = t
    BY <1>1, <1>3, <1>4, <1>8, <2>2
  <2> QED
    BY <1>9, <2>1, <2>2
<1>12. TradedOnce'
  <2> SUFFICES ASSUME NEW i \in DOMAIN swaps', NEW j \in DOMAIN swaps', i # j,
                      swaps'[i].task = swaps'[j].task
               PROVE  swaps'[i].crashes # swaps'[j].crashes
    BY DEF TradedOnce
  <2>1. CASE i \in DOMAIN swaps /\ j \in DOMAIN swaps
    BY <1>9, <2>1 DEF LegacyInv, TradedOnce
  <2>2. CASE i \in DOMAIN swaps /\ j \notin DOMAIN swaps
    BY <1>8, <1>9, <1>10, <2>2
  <2>3. CASE i \notin DOMAIN swaps /\ j \in DOMAIN swaps
    BY <1>8, <1>9, <1>10, <2>3
  <2>4. CASE i \notin DOMAIN swaps /\ j \notin DOMAIN swaps
    BY <1>9, <2>4
  <2> QED
    BY <2>1, <2>2, <2>3, <2>4
<1>13. \A i \in DOMAIN swaps' \ DOMAIN swaps :
         tasks[swaps'[i].task].version = runs[tasks[swaps'[i].task].run].version
  BY <1>5, <1>8, <1>9
<1> QED
  BY <1>1, <1>2, <1>6, <1>11, <1>12, <1>13 DEF LegacyInv

\* The task's row is marked: it stays in hand, and is pending no more.
LEMMA UpdateTaskStep ==
  ASSUME LegacyInv, UpdateTask
  PROVE  LegacyInv' /\ swaps' = swaps
<1>1. /\ TypeInv' /\ InBatch(job) /\ InBatch(job)' /\ Current \in job.rows
      /\ job'.run = job.run /\ job'.version = job.version
  BY BatchTyped DEF LegacyInv
<1>2. job.at = "task" /\ UNCHANGED <<runs, swaps, crashes>>
  BY DEF UpdateTask, Consuming, history
<1>3. job'.at = "attempt" /\ job'.rows = job.rows
  BY <1>1 DEF UpdateTask, InBatch, Batch
<1>4. Current' = Current
  BY <1>3 DEF Current
<1>5. /\ tasks \in Seq(TaskRow) /\ Current \in DOMAIN tasks
      /\ tasks[Current] \in TaskRow /\ job.outcome \in {"executed", "failed"}
      /\ job.rows \subseteq DOMAIN tasks
  <2>1. tasks \in Seq(TaskRow) /\ job.rows \subseteq DOMAIN tasks
        /\ job.outcome \in {"executed", "failed"}
    BY <1>1, <1>2 DEF LegacyInv, TypeInv, TablesOK, InBatch
  <2>2. Current \in DOMAIN tasks /\ Current \in 1 .. Len(tasks)
    BY <1>1, <2>1
  <2> QED
    BY <2>1, <2>2
<1> DEFINE row == [tasks[Current] EXCEPT !.status = job.outcome]
<1>6. tasks' = [tasks EXCEPT ![Current] = row]
  BY DEF UpdateTask
<1>7. /\ row.run = tasks[Current].run /\ row.version = tasks[Current].version
      /\ row.status # "pending"
  BY <1>5 DEF TaskRow
<1> HIDE DEF row
<1>8. /\ DOMAIN tasks' = DOMAIN tasks
      /\ \A id \in DOMAIN tasks : tasks'[id] = IF id = Current THEN row ELSE tasks[id]
  BY <1>5, <1>6
<1>9. BatchFits'
  <2>1. job'.version = runs'[job'.run].version
    BY <1>1, <1>2 DEF LegacyInv, BatchFits
  <2>2. ASSUME NEW id \in job'.rows
        PROVE  /\ tasks'[id].run = job'.run /\ tasks'[id].version = job'.version
               /\ \/ tasks'[id].status = "pending"
                  \/ job'.at = "attempt" /\ id = Current'
    <3>1. /\ tasks[id].run = job.run /\ tasks[id].version = job.version
          /\ tasks[id].status = "pending"
      BY <1>1, <1>2, <1>3, <2>2 DEF LegacyInv, BatchFits
    <3>2. id \in DOMAIN tasks
      BY <1>3, <1>5, <2>2
    <3> QED
      BY <1>1, <1>3, <1>4, <1>7, <1>8, <3>1, <3>2
  <2> QED
    BY <2>1, <2>2 DEF BatchFits
<1>10. SwapsFit'
  <2> SUFFICES ASSUME NEW i \in DOMAIN swaps
               PROVE  /\ swaps[i].task \in DOMAIN tasks'
                      /\ swaps[i].crashes <= crashes
                      /\ swaps[i].crashes = crashes =>
                            tasks'[swaps[i].task].status # "pending"
    BY <1>2 DEF SwapsFit
  <2>1. /\ swaps[i].task \in DOMAIN tasks
        /\ swaps[i].crashes <= crashes
        /\ swaps[i].crashes = crashes =>
              tasks[swaps[i].task].status # "pending" \/ swaps[i].task = Current
    BY DEF LegacyInv, SwapsFit
  <2> QED
    BY <1>7, <1>8, <2>1
<1>11. TradedOnce'
  BY <1>2 DEF LegacyInv, TradedOnce
<1> QED
  BY <1>1, <1>2, <1>9, <1>10, <1>11 DEF LegacyInv

\* The attempt's row: the task leaves the batch.
LEMMA InsertAttemptStep ==
  ASSUME LegacyInv, InsertAttempt
  PROVE  LegacyInv' /\ swaps' = swaps
<1>1. /\ TypeInv' /\ InBatch(job) /\ InBatch(job)'
      /\ job'.run = job.run /\ job'.version = job.version
  BY BatchTyped DEF LegacyInv
<1>2. job.at = "attempt" /\ UNCHANGED <<runs, tasks, swaps, crashes>>
  BY DEF InsertAttempt, Consuming, history
<1>3. job'.at = "trade" /\ job'.rows = job.rows \ {Current}
  <2>1. job \in Batch
    BY <1>1 DEF InBatch
  <2> QED
    BY <2>1 DEF InsertAttempt, Batch
<1>4. BatchFits'
  BY <1>1, <1>2, <1>3 DEF LegacyInv, BatchFits
<1>5. SwapsFit'
  BY <1>2 DEF LegacyInv, SwapsFit
<1>6. TradedOnce'
  BY <1>2 DEF LegacyInv, TradedOnce
<1> QED
  BY <1>1, <1>2, <1>4, <1>5, <1>6 DEF LegacyInv

\* A step keeps the invariant, and swaps only what is of the plan in force.
LEMMA LegacyStep ==
  ASSUME LegacyInv, Next
  PROVE  /\ LegacyInv'
         /\ \A i \in DOMAIN swaps' \ DOMAIN swaps :
               tasks[swaps'[i].task].version = runs[tasks[swaps'[i].task].run].version
<1>1. CASE SaveSettings \/ ExternalTrade
  <2>1. TypeInv' /\ UNCHANGED <<runs, tasks, job, swaps, crashes>>
    BY <1>1, RequestsTyped DEF LegacyInv, SaveSettings, ExternalTrade, db
  <2> QED
    BY <2>1, QuietStep
<1>2. CASE ReadEvent \/ SendDirective \/ SendExecution
  BY <1>2, ActorsTyped, QuietStep DEF LegacyInv
<1>3. CASE Tick
  <2>1. UNCHANGED <<settings, runs, tasks, attempts, job, actors, swaps, requests, crashes>>
        /\ now' = now + 1
    BY <1>3 DEF Tick, db
  <2>2. TablesOK' /\ ChannelsOK'
    BY <2>1, ChannelsKept DEF LegacyInv, TypeInv, TablesOK
  <2>3. TypeInv'
    BY <2>1, <2>2, JobKept DEF LegacyInv, TypeInv
  <2> QED
    BY <2>1, <2>3, QuietStep
<1>4. CASE CreateRun
  <2>1. TypeInv' /\ Planning(job)' /\ UNCHANGED <<tasks, swaps, crashes>> /\ job = NoJob
    BY <1>4, CreateRunTyped DEF LegacyInv, CreateRun, Free
  <2> QED
    BY <2>1, JobKinds, NoBatchStep
<1>5. CASE ReplaceTasks
  <2>1. /\ tasks' \in Seq(TaskRow) /\ DOMAIN tasks \subseteq DOMAIN tasks'
        /\ \A id \in DOMAIN tasks :
              tasks[id].status # "pending" => tasks'[id].status # "pending"
        /\ Planning(job) /\ Planning(job')
        /\ UNCHANGED <<settings, runs, attempts, actors, history>>
    BY <1>5, ReplaceLeaves DEF LegacyInv
  <2>2. Planning(job)'
    BY <2>1, PlanningKept
  <2>3. TablesOK' /\ ChannelsOK'
    BY <2>1, ChannelsKept DEF LegacyInv, TypeInv, TablesOK, history
  <2>4. TypeInv' /\ UNCHANGED <<swaps, crashes>>
    BY <2>1, <2>2, <2>3 DEF TypeInv, JobOK, history
  <2>5. ~ InBatch(job)
    BY <2>1, JobKinds
  <2> QED
    BY <2>1, <2>2, <2>4, <2>5, NoBatchStep
<1>6. CASE AdoptPlan
  <2>1. TypeInv' /\ Planning(job) /\ (job' = NoJob \/ Planning(job)')
        /\ UNCHANGED <<tasks, swaps, crashes>>
    BY <1>6, AdoptTyped DEF LegacyInv, AdoptPlan, history
  <2>2. ~ InBatch(job)
    BY <2>1, JobKinds
  <2> QED
    BY <2>1, <2>2, NoBatchStep
<1>7. CASE ReadDirective
  <2>1. TypeInv' /\ job = NoJob /\ (job' = NoJob \/ Planning(job)')
        /\ UNCHANGED <<runs, tasks, swaps, crashes>>
    BY <1>7, DirectiveTyped DEF LegacyInv
  <2>2. ~ InBatch(job)
    BY <2>1, JobKinds
  <2> QED
    BY <2>1, <2>2, NoBatchStep
<1>8. CASE EndBatch
  <2>1. TypeInv' /\ InBatch(job) /\ job.at = "trade" /\ job' = NoJob
        /\ UNCHANGED <<tasks, swaps, crashes>>
    BY <1>8, EndTyped DEF LegacyInv
  <2> QED
    BY <2>1, NoBatchStep
<1>9. CASE WalletFails
  <2>1. job.at = "trade" /\ job' = NoJob
        /\ UNCHANGED <<settings, runs, tasks, attempts, actors, now, swaps, requests, crashes>>
    BY <1>9 DEF WalletFails, Consuming, db, history
  <2>2. TablesOK' /\ ChannelsOK'
    BY <2>1, ChannelsKept DEF LegacyInv, TypeInv, TablesOK
  <2>3. TypeInv'
    BY <2>1, <2>2 DEF TypeInv, JobOK
  <2> QED
    BY <2>1, <2>3, NoBatchStep
<1>10. CASE Crash
  <2>1. /\ UNCHANGED <<settings, runs, tasks, attempts, now, swaps, requests>>
        /\ crashes' = crashes + 1 /\ job' = NoJob /\ engine' = Nothing
        /\ planner' = Nothing /\ bus' = <<>> /\ directives' = <<>> /\ executions' = <<>>
    BY <1>10 DEF Crash, db
  <2>2. TablesOK'
    BY <2>1 DEF LegacyInv, TypeInv, TablesOK
  <2>3. ChannelsOK'
    BY <2>1 DEF ChannelsOK
  <2>4. TypeInv'
    BY <2>1, <2>2, <2>3 DEF TypeInv, JobOK
  <2> QED
    BY <2>1, <2>4, NoBatchStep
<1>11. CASE ConsumeRequest \/ ReadExecution
  BY <1>11, StartStep
<1>12. CASE Execute
  BY <1>12, ExecuteStep
<1>13. CASE UpdateTask
  BY <1>13, UpdateTaskStep
<1>14. CASE InsertAttempt
  BY <1>14, InsertAttemptStep
<1> QED
  BY <1>1, <1>2, <1>3, <1>4, <1>5, <1>6, <1>7, <1>8, <1>9, <1>10, <1>11, <1>12, <1>13,
     <1>14 DEF Next, Jobs, Actors

\* The invariant holds from the first start of the process on.
LEMMA LegacyAlways == Spec => []LegacyInv
<1>1. Init => LegacyInv
  <2>1. ASSUME Init PROVE BatchFits /\ SwapsFit /\ TradedOnce
    BY <2>1, JobKinds DEF Init, BatchFits, SwapsFit, TradedOnce
  <2> QED
    BY <2>1, InitTyped DEF LegacyInv
<1>2. LegacyInv /\ [Next]_vars => LegacyInv'
  <2>1. ASSUME LegacyInv, UNCHANGED vars PROVE LegacyInv'
    <3>1. UNCHANGED <<settings, runs, tasks, job, actors, now, swaps, crashes>>
      BY <2>1 DEF vars, actors
    <3>2. TablesOK' /\ ChannelsOK' /\ JobOK'
      BY <2>1, <3>1, ChannelsKept, JobKept DEF LegacyInv, TypeInv, TablesOK
    <3> QED
      BY <2>1, <3>1, <3>2, QuietStep DEF TypeInv
  <2> QED
    BY <2>1, LegacyStep
<1> QED
  BY <1>1, <1>2, PTL DEF Spec

\* The tables, the channels and the job in hand always have their types: what the
\* actors pass on names a run that exists, and a batch is of rows that exist.
THEOREM LegacyTyped == Spec => []TypeInv
<1>1. LegacyInv => TypeInv
  BY DEF LegacyInv
<1> QED
  BY <1>1, LegacyAlways, PTL

\* No task is traded twice but after a crash of the process, and then once more for
\* each crash (consume_strategy_execution_tasks).
THEOREM LegacyTradedOnce == Spec => []TradedOnce
<1>1. LegacyInv => TradedOnce
  BY DEF LegacyInv
<1> QED
  BY <1>1, LegacyAlways, PTL

\* Once a plan is replaced no task of the old one is traded.
THEOREM LegacySupersededNotTraded == Spec => SupersededNotTraded
<1>1. LegacyInv /\ [Next]_vars =>
        [\A i \in DOMAIN swaps' \ DOMAIN swaps :
            tasks[swaps'[i].task].version = runs[tasks[swaps'[i].task].run].version]_vars
  BY LegacyStep
<1> QED
  BY <1>1, LegacyAlways, PTL DEF Spec, SupersededNotTraded
=============================================================================
