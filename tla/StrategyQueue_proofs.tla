------------------------- MODULE StrategyQueue_proofs -------------------------
(***************************************************************************)
(* While requests do not overlap, the queue is serial, and a run recorded  *)
(* as completed is one its object completed: for any number of deploys, of *)
(* documents and of tokens, whatever request dies wherever.                *)
(***************************************************************************)
EXTENDS StrategyQueue, FiniteSetTheorems, SequenceTheorems, WellFoundedInduction, TLAPS

\* One request at a time.  Two requests at once may promote two runs, each
\* having read the table before the other's UPDATE.
OneClient == \A c, d \in Clients : c = d

-----------------------------------------------------------------------------
(* Types.                                                                   *)

RowStatuses == {"pending", "running", "deleted"} \cup Final
Row == [status : RowStatuses, version : Nat, ended : Nat]

\* Where a request is: at the first it relies on what it has read.
Reading ==
    {"fetch", "complete", "mark_completed", "pick", "check", "promote", "save", "insert"}
Plain ==
    {"done", "metrics", "mark_aborted", "start", "settle", "settle_forced", "list",
     "launch", "mark_failed", "clear", "abort", "abort_send",
     "pause", "pause_send", "resume", "resume_fetch", "resume_send", "start_forced",
     "delete", "forward", "forward_send"}
Positions == Reading \cup Plain
\* What a call may return to.
Backs == {"settle", "settle_forced", "clear", "forward", "start_forced"}

Request ==
    [pc : Positions, act : Nat, force : BOOLEAN, returns : Seq(Backs),
     doc : Docs \cup {NoRun}, prev : Docs \cup {NoRun}]

Reported == [status : Statuses, run : Nat, working : BOOLEAN, answering : BOOLEAN]

QueueTypes ==
    /\ objs \in [Objects -> Reported]
    /\ rows \in Seq(Row)
    /\ versions \in Seq(Docs)
    /\ \A k \in DOMAIN rows : rows[k].version \in 1 .. Len(versions)
    /\ req \in [Clients -> Request]

\* The empty request is one.
LEMMA DoneRequest == Done \in Request /\ Done.pc \in Plain
<1>1. NoRun = 0
  BY QueueAssumption
<1>2. <<>> \in Seq(Backs)
  OBVIOUS
<1> QED
  BY <1>1, <1>2 DEF Done, Request, Positions, Plain

\* What each way to go on makes of a request.
LEMMA Takes ==
  ASSUME req \in [Clients -> Request], NEW c \in Clients, NEW p \in Positions,
         NEW a \in Nat, req' = [req EXCEPT ![c].pc = p, ![c].act = a]
  PROVE  /\ req' \in [Clients -> Request]
         /\ req'[c].pc = p /\ req'[c].act = a /\ req'[c].force = req[c].force
<1> DEFINE moved == [req[c] EXCEPT !.pc = p]
           taken == [moved EXCEPT !.act = a]
<1>1. moved \in Request /\ moved.pc = p /\ moved.force = req[c].force
  BY DEF Request
<1>2. req' = [req EXCEPT ![c] = taken]
  OBVIOUS
<1> HIDE DEF moved
<1>3. taken \in Request /\ taken.pc = p /\ taken.act = a /\ taken.force = req[c].force
  BY <1>1 DEF Request
<1> HIDE DEF taken
<1> QED
  BY <1>2, <1>3

\* What moving a request to a position says.
LEMMA Moves ==
  ASSUME req \in [Clients -> Request], NEW c \in Clients, NEW p \in Positions
  PROVE  /\ Go(c, p) => /\ req' \in [Clients -> Request]
                        /\ req'[c].pc = p /\ req'[c].act = req[c].act
                        /\ req'[c].force = req[c].force
         /\ \A b \in BOOLEAN :
               req' = [req EXCEPT ![c].pc = p, ![c].force = b] =>
                  /\ req' \in [Clients -> Request] /\ req'[c].pc = p
         /\ \A back \in Backs :
               Call(c, p, back) =>
                  /\ req' \in [Clients -> Request] /\ req'[c].pc = p
<1> DEFINE moved == [req[c] EXCEPT !.pc = p]
<1>1. moved \in Request /\ moved.pc = p /\ moved.act = req[c].act
      /\ moved.returns = req[c].returns /\ moved.force = req[c].force
  BY DEF Request
<1>2. ASSUME Go(c, p) PROVE req' = [req EXCEPT ![c] = moved]
  BY <1>2 DEF Go
<1>3. ASSUME NEW b \in BOOLEAN, req' = [req EXCEPT ![c].pc = p, ![c].force = b]
      PROVE  req' = [req EXCEPT ![c] = [moved EXCEPT !.force = b]]
  BY <1>3
<1>4. ASSUME NEW back \in Backs, Call(c, p, back)
      PROVE  req' = [req EXCEPT ![c] = [moved EXCEPT !.returns = <<back>> \o req[c].returns]]
  BY <1>4 DEF Call
<1> HIDE DEF moved
<1>5. ASSUME NEW b \in BOOLEAN
      PROVE  [moved EXCEPT !.force = b] \in Request /\ [moved EXCEPT !.force = b].pc = p
  BY <1>1 DEF Request
<1>6. ASSUME NEW back \in Backs
      PROVE  /\ [moved EXCEPT !.returns = <<back>> \o req[c].returns] \in Request
             /\ [moved EXCEPT !.returns = <<back>> \o req[c].returns].pc = p
  <2>1. req[c].returns \in Seq(Backs) /\ <<back>> \in Seq(Backs)
    BY DEF Request
  <2>2. <<back>> \o req[c].returns \in Seq(Backs)
    BY <2>1
  <2> QED
    BY <1>1, <2>2 DEF Request
<1>7. ASSUME NEW x \in Request, x.pc = p, req' = [req EXCEPT ![c] = x]
      PROVE  req' \in [Clients -> Request] /\ req'[c] = x
  BY <1>7
<1>8. ASSUME Go(c, p)
      PROVE  /\ req' \in [Clients -> Request]
             /\ req'[c].pc = p /\ req'[c].act = req[c].act
             /\ req'[c].force = req[c].force
  BY <1>1, <1>2, <1>7, <1>8
<1>9. ASSUME NEW b \in BOOLEAN, req' = [req EXCEPT ![c].pc = p, ![c].force = b]
      PROVE  req' \in [Clients -> Request] /\ req'[c].pc = p
  BY <1>3, <1>5, <1>7, <1>9
<1>10. ASSUME NEW back \in Backs, Call(c, p, back)
       PROVE  req' \in [Clients -> Request] /\ req'[c].pc = p
  BY <1>4, <1>6, <1>7, <1>10
<1> QED
  BY <1>8, <1>9, <1>10

\* A request that ends or returns relies on nothing any more.
LEMMA EndsPlain ==
  ASSUME req \in [Clients -> Request], NEW c \in Clients
  PROVE  /\ Over(c) \/ Fail(c) => req' \in [Clients -> Request] /\ req'[c].pc \in Plain
         /\ Return(c) => req' \in [Clients -> Request] /\ req'[c].pc \in Plain
<1>1. Over(c) \/ Fail(c) => req' \in [Clients -> Request] /\ req'[c].pc \in Plain
  BY DoneRequest DEF Over, Fail
<1>2. ASSUME Return(c), req[c].returns # <<>>
      PROVE  req' \in [Clients -> Request] /\ req'[c].pc \in Plain
  <2> DEFINE back == Head(req[c].returns)
             others == Tail(req[c].returns)
             moved == [req[c] EXCEPT !.pc = back]
             left == [moved EXCEPT !.returns = others]
  <2>1. req[c].returns \in Seq(Backs) /\ req[c] \in Request
    BY DEF Request
  <2>2. back \in Backs /\ others \in Seq(Backs)
    BY <1>2, <2>1, HeadTailProperties
  <2>3. back \in Positions /\ back \in Plain
    BY <2>2 DEF Backs, Positions, Plain
  <2>4. req' = [req EXCEPT ![c] = left]
    BY <1>2 DEF Return
  <2> HIDE DEF back, others
  <2>5. moved \in Request /\ moved.pc = back
    BY <2>1, <2>3 DEF Request
  <2> HIDE DEF moved
  <2>6. left \in Request /\ left.pc = back
    BY <2>2, <2>5 DEF Request
  <2> QED
    BY <2>3, <2>4, <2>6
<1> QED
  BY <1>1, <1>2 DEF Return
-----------------------------------------------------------------------------
(* The table.                                                               *)

\* At most one row is running.
OneActive == \A a, b \in Active : a = b

\* What a completed object reports was added to ran, unless a webhook or
\* /clear took the name of its run.
ReportsRan ==
    \A o \in Objects :
        objs[o].status = "completed" /\ objs[o].run # NoRun => objs[o].run \in ran

\* What a request relies on when it goes on: between two of its steps no other
\* request has changed the table.
Relies(c) ==
    LET r == req[c].act
    IN  /\ At(c, "fetch") => r \in Active
        /\ At(c, "complete") => Active \subseteq ran
        /\ At(c, "mark_completed") => r \in ran
        /\ At(c, "pick") \/ At(c, "check") \/ At(c, "promote") =>
              req[c].force \/ ~QueuePaused
        /\ At(c, "promote") => Active = {}
        /\ At(c, "save") => req[c].doc \in Docs
        /\ At(c, "insert") => versions # <<>>

QueueInv ==
    /\ QueueTypes
    /\ OneActive
    /\ CompletedWasRun
    /\ ReportsRan
    /\ \A c \in Clients : Relies(c)

\* A plain position relies on nothing.
LEMMA PlainRelies == ASSUME NEW c, req'[c].pc \in Plain PROVE Relies(c)'
  BY DEF Relies, At, Plain

\* Cardinality, as ReadActive and SerialQueue count.
LEMMA ActiveCount ==
  ASSUME OneActive
  PROVE  /\ Active = {} \/ \E r : Active = {r}
         /\ Cardinality(Active) <= 1
<1>1. Active = {} \/ \E r : Active = {r}
  BY DEF OneActive
<1>2. ASSUME Active = {} PROVE Cardinality(Active) = 0
  BY <1>2, FS_EmptySet
<1>3. ASSUME NEW r, Active = {r} PROVE Cardinality(Active) = 1
  BY <1>3, FS_Singleton
<1>4. Cardinality(Active) = 0 \/ Cardinality(Active) = 1
  BY <1>1, <1>2, <1>3
<1> QED
  BY <1>1, <1>4

\* An update of a row's status and time keeps the table's type, and every other
\* row.
LEMMA EditRows ==
  ASSUME QueueTypes, NEW r, NEW status \in RowStatuses, NEW e \in Nat,
         rows' = [rows EXCEPT ![r].status = status, ![r].ended = e]
  PROVE  /\ rows' \in Seq(Row) /\ DOMAIN rows' = DOMAIN rows
         /\ \A k \in DOMAIN rows :
               /\ rows'[k].version = rows[k].version
               /\ rows'[k].status = IF k = r THEN status ELSE rows[k].status
<1> DEFINE edited == [rows[r] EXCEPT !.status = status]
           new == [edited EXCEPT !.ended = e]
<1>1. rows' = [rows EXCEPT ![r] = new]
  OBVIOUS
<1>2. rows \in Seq(Row) /\ Len(rows) \in Nat /\ DOMAIN rows = 1 .. Len(rows)
  BY DEF QueueTypes
<1>3. ASSUME r \in DOMAIN rows
      PROVE  new \in Row /\ new.status = status /\ new.version = rows[r].version
  <2>1. rows[r] \in Row
    BY <1>2, <1>3, ElementOfSeq
  <2>2. edited \in Row /\ edited.status = status /\ edited.version = rows[r].version
    BY <2>1 DEF Row
  <2> HIDE DEF edited
  <2> QED
    BY <2>2 DEF Row
<1> HIDE DEF new
<1>4. [rows EXCEPT ![r] = new] \in Seq(Row) /\ DOMAIN [rows EXCEPT ![r] = new] = DOMAIN rows
  <2>1. rows \in [1 .. Len(rows) -> Row]
    BY <1>2
  <2>2. [rows EXCEPT ![r] = new] \in [1 .. Len(rows) -> Row]
    BY <1>2, <1>3, <2>1
  <2> QED
    BY <1>2, <2>2, SeqDef
<1>5. ASSUME NEW k \in DOMAIN rows
      PROVE  [rows EXCEPT ![r] = new][k] = IF k = r THEN new ELSE rows[k]
  BY <1>2
<1> QED
  BY <1>1, <1>2, <1>3, <1>4, <1>5

\* A mark changes the status of its row to the given one, unless it is deleted.
LEMMA MarkRows ==
  ASSUME QueueTypes, NEW r, NEW status \in {"running"} \cup Final, Mark(r, status)
  PROVE  /\ rows' \in Seq(Row) /\ DOMAIN rows' = DOMAIN rows
         /\ \A k \in DOMAIN rows :
               /\ rows'[k].version = rows[k].version
               /\ rows'[k].status \in {rows[k].status} \cup
                                      (IF k = r THEN {status} ELSE {})
         /\ r \in DOMAIN rows => rows'[r].status \in {status, "deleted"}
<1>1. PICK t \in LastSecond .. LastSecond + 1 :
        /\ t > 0
        /\ rows' = IF rows[r].status = "deleted" THEN rows
                   ELSE [rows EXCEPT ![r].status = status,
                                     ![r].ended = IF status \in Final THEN t ELSE 0]
  BY DEF Mark
<1> DEFINE e == IF status \in Final THEN t ELSE 0
<1>2. e \in Nat /\ status \in RowStatuses
  BY <1>1 DEF RowStatuses, Final
<1> DEFINE edit == rows' = [rows EXCEPT ![r].status = status, ![r].ended = e]
<1>3. edit \/ (rows' = rows /\ rows[r].status = "deleted")
  BY <1>1
<1>4. ASSUME edit
      PROVE  /\ rows' \in Seq(Row) /\ DOMAIN rows' = DOMAIN rows
             /\ \A k \in DOMAIN rows :
                   /\ rows'[k].version = rows[k].version
                   /\ rows'[k].status = IF k = r THEN status ELSE rows[k].status
  <2> HIDE DEF e
  <2> QED
    BY <1>2, <1>4, EditRows
<1> HIDE DEF edit
<1>5. CASE edit
  BY <1>4, <1>5
<1>6. CASE rows' = rows /\ rows[r].status = "deleted"
  BY <1>6 DEF QueueTypes
<1> QED
  BY <1>3, <1>5, <1>6

\* Marking an ended row leaves no more running ones.
LEMMA MarkEnded ==
  ASSUME QueueTypes, NEW r, NEW status \in Final, Mark(r, status)
  PROVE  /\ Active' \subseteq Active \ {r}
         /\ (WithStatus("completed"))' \subseteq
               WithStatus("completed") \cup (IF status = "completed" THEN {r} ELSE {})
<1>1. status \in {"running"} \cup Final
  OBVIOUS
<1>2. /\ rows' \in Seq(Row) /\ DOMAIN rows' = DOMAIN rows
      /\ \A k \in DOMAIN rows :
            /\ rows'[k].version = rows[k].version
            /\ rows'[k].status \in {rows[k].status} \cup
                                   (IF k = r THEN {status} ELSE {})
      /\ r \in DOMAIN rows => rows'[r].status \in {status, "deleted"}
  BY <1>1, MarkRows
<1> QED
  BY <1>2 DEF Active, WithStatus, Final

\* Promoting a row, when none is running, leaves one.
LEMMA MarkRunning ==
  ASSUME QueueTypes, NEW r, Mark(r, "running")
  PROVE  /\ Active' \subseteq Active \cup {r}
         /\ (WithStatus("completed"))' \subseteq WithStatus("completed")
<1>1. /\ rows' \in Seq(Row) /\ DOMAIN rows' = DOMAIN rows
      /\ \A k \in DOMAIN rows :
            /\ rows'[k].version = rows[k].version
            /\ rows'[k].status \in {rows[k].status} \cup
                                   (IF k = r THEN {"running"} ELSE {})
      /\ r \in DOMAIN rows => rows'[r].status \in {"running", "deleted"}
  BY MarkRows
<1> QED
  BY <1>1 DEF Active, WithStatus
\* A finite set of rows has a last one to end: the smallest set of them after
\* none of which another ends has one member.
LEMMA LastToEnd ==
  ASSUME NEW S, IsFiniteSet(S), S # {}, NEW f \in [S -> Nat]
  PROVE  \E m \in S : \A k \in S : f[k] <= f[m]
<1> DEFINE Covers(U) == \A k \in S : \E m \in U : f[k] <= f[m]
           T == {U \in SUBSET S : Covers(U)}
<1>1. T \subseteq FiniteSubsetsOf(S) /\ S \in T
  BY FS_Subset DEF FiniteSubsetsOf
<1>2. PICK U \in T : \A V \in T : ~(<<V, U>> \in StrictSubsetOrdering(S))
  BY <1>1, FS_StrictSubsetOrderingWellFounded, WFMin
<1>3. \A V \in SUBSET S : V \subseteq U /\ V # U => ~Covers(V)
  BY <1>1, <1>2 DEF StrictSubsetOrdering
<1>4. PICK m \in U : TRUE
  BY <1>2
<1>5. ASSUME NEW n \in U, n # m PROVE FALSE
  <2>1. ASSUME NEW a \in U, NEW b \in U, a # b, f[a] <= f[b] PROVE FALSE
    <3>1. Covers(U \ {a})
      <4> SUFFICES ASSUME NEW k \in S PROVE \E l \in U \ {a} : f[k] <= f[l]
        OBVIOUS
      <4>1. PICK l \in U : f[k] <= f[l]
        BY <1>2
      <4>2. CASE l = a
        <5>1. f[k] \in Nat /\ f[a] \in Nat /\ f[b] \in Nat
          BY <1>2
        <5>2. f[k] <= f[b]
          BY <2>1, <4>1, <4>2, <5>1
        <5> QED
          BY <2>1, <5>2
      <4> QED
        BY <4>1, <4>2
    <3> QED
      BY <1>2, <1>3, <3>1
  <2>2. f[m] \in Nat /\ f[n] \in Nat
    BY <1>2
  <2>3. f[m] <= f[n] \/ f[n] <= f[m]
    BY <2>2
  <2> QED
    BY <1>5, <2>1, <2>3
<1>6. \A k \in S : f[k] <= f[m]
  BY <1>2, <1>5
<1> QED
  BY <1>2, <1>6

\* A set of rows has a first one.
LEMMA LeastRow ==
  ASSUME NEW S \in SUBSET Nat, S # {}
  PROVE  Min(S) \in S /\ \A k \in S : Min(S) <= k
<1>1. PICK n \in S : TRUE
  OBVIOUS
<1> DEFINE below == {k \in S : k <= n}
           f == [k \in below |-> n - k]
<1>2. IsFiniteSet(below) /\ below # {}
  <2>1. below \subseteq 0 .. n
    <3> SUFFICES ASSUME NEW k \in S, k <= n PROVE k \in 0 .. n
      OBVIOUS
    <3>1. k \in Nat /\ n \in Nat
      BY <1>1
    <3> QED
      BY <3>1
  <2>2. IsFiniteSet(0 .. n)
    BY <1>1, FS_Interval
  <2>3. IsFiniteSet(below)
    BY <2>1, <2>2, FS_Subset
  <2> QED
    BY <1>1, <2>3
<1>3. f \in [below -> Nat]
  <2>1. ASSUME NEW k \in below PROVE n - k \in Nat
    <3>1. k \in Nat /\ n \in Nat /\ k <= n
      BY <1>1, <2>1
    <3> QED
      BY <3>1
  <2> QED
    BY <2>1
<1> HIDE DEF f
<1>4. PICK m \in below : \A k \in below : f[k] <= f[m]
  <2> HIDE DEF below
  <2> QED
    BY <1>2, <1>3, LastToEnd
<1>5. \A k \in below : m <= k
  BY <1>1, <1>4 DEF f
<1>6. m \in S /\ \A k \in S : m <= k
  BY <1>1, <1>4, <1>5
<1> QED
  BY <1>6 DEF Min

-----------------------------------------------------------------------------
(* Steps that only read.                                                    *)

\* What is asked of the table depends on nothing but its rows.
LEMMA SameTable ==
  ASSUME UNCHANGED rows
  PROVE  /\ Active' = Active /\ QueuePaused' = QueuePaused
         /\ WithStatus("completed")' = WithStatus("completed")
  BY DEF Active, QueuePaused, WithStatus, Ended, LastSecond

\* A step of the one client that leaves the table and the objects alone.
LEMMA ReadsKeep ==
  ASSUME OneClient, QueueInv, NEW c \in Clients, UNCHANGED <<objs, rows, versions, ran>>,
         req' \in [Clients -> Request], Relies(c)'
  PROVE  QueueInv'
<1>1. QueueTypes'
  BY DEF QueueInv, QueueTypes
<1>2. OneActive' /\ CompletedWasRun'
  BY SameTable DEF QueueInv, OneActive, CompletedWasRun
<1>3. ReportsRan'
  BY DEF QueueInv, ReportsRan
<1>4. \A d \in Clients : Relies(d)'
  BY DEF OneClient
<1> QED
  BY <1>1, <1>2, <1>3, <1>4 DEF QueueInv

\* ... and goes to a plain position.
LEMMA PlainKeeps ==
  ASSUME OneClient, QueueInv, NEW c \in Clients, UNCHANGED <<objs, rows, versions, ran>>,
         req' \in [Clients -> Request], req'[c].pc \in Plain
  PROVE  QueueInv'
  BY ReadsKeep, PlainRelies

\* What a read of the running row comes to, when it does not throw.
LEMMA ReadsOne ==
  ASSUME QueueInv, NEW c \in Clients, NEW p \in Positions, NEW r \in Active,
         req' = [req EXCEPT ![c].pc = p, ![c].act = r]
  PROVE  req' \in [Clients -> Request] /\ req'[c].pc = p /\ req'[c].act = r
<1>1. r \in Nat /\ req \in [Clients -> Request]
  BY DEF QueueInv, QueueTypes, Active, WithStatus
<1> QED
  BY <1>1, Takes

\* getCurrentMetrics.
LEMMA MetricsKeep ==
  ASSUME OneClient, QueueInv, NEW c \in Clients,
         ReadMetrics(c) \/ Fetch(c) \/ ReadCompleted(c)
  PROVE  QueueInv'
<1> USE DEF OnlyReads, Rest1
<1>1. req \in [Clients -> Request] /\ UNCHANGED <<objs, rows, versions, ran>>
  BY DEF QueueInv, QueueTypes, ReadMetrics, Fetch, ReadCompleted
<1>2. ASSUME Fail(c) \/ Return(c) PROVE QueueInv'
  BY <1>1, <1>2, EndsPlain, PlainKeeps
<1>3. ASSUME ReadMetrics(c) PROVE QueueInv'
  <2>1. ASSUME NEW r \in Active, req' = [req EXCEPT ![c].pc = "fetch", ![c].act = r]
        PROVE  QueueInv'
    <3>1. /\ req' \in [Clients -> Request] /\ req'[c].pc = "fetch" /\ req'[c].act = r
      BY <2>1, ReadsOne DEF Positions, Reading
    <3>2. Relies(c)'
      BY <1>1, <3>1, SameTable DEF Relies, At
    <3> QED
      BY <1>1, <3>1, <3>2, ReadsKeep
  <2> QED
    BY <1>2, <1>3, <2>1 DEF ReadMetrics, ReadActive
<1>4. ASSUME Fetch(c) PROVE QueueInv'
  <2> DEFINE r == req[c].act
             o == objs[ObjectFor(r)]
  <2>1. r \in Active /\ r \in DOMAIN rows
    BY <1>4 DEF Fetch, QueueInv, Relies, Active, WithStatus
  <2>2. ObjectFor(r) \in Objects
    <3>1. rows[r].version \in DOMAIN versions /\ versions \in Seq(Docs)
      BY <2>1 DEF QueueInv, QueueTypes
    <3>2. versions[rows[r].version] \in Docs
      BY <3>1, ElementOfSeq
    <3> QED
      BY <3>2, QueueAssumption DEF ObjectFor
  <2>3. ASSUME o.run = r, o.status = "completed", Go(c, "complete") PROVE QueueInv'
    <3>1. r \in ran
      <4>1. r # NoRun
        BY <2>1, QueueAssumption DEF QueueInv, QueueTypes
      <4> QED
        BY <2>2, <2>3, <4>1 DEF QueueInv, ReportsRan
    <3>2. Active \subseteq ran
      BY <2>1, <3>1 DEF QueueInv, OneActive
    <3>3. req' \in [Clients -> Request] /\ req'[c].pc = "complete"
      BY <1>1, <2>3, Moves DEF Positions, Reading
    <3>4. Relies(c)'
      BY <1>1, <3>2, <3>3, SameTable DEF Relies, At
    <3> QED
      BY <1>1, <3>3, <3>4, ReadsKeep
  <2>4. ASSUME Go(c, "mark_aborted") PROVE QueueInv'
    <3>1. req' \in [Clients -> Request] /\ req'[c].pc \in Plain
      BY <1>1, <2>4, Moves DEF Positions, Plain
    <3> QED
      BY <1>1, <3>1, PlainKeeps
  <2> QED
    BY <1>2, <1>4, <2>3, <2>4 DEF Fetch
<1>5. ASSUME ReadCompleted(c) PROVE QueueInv'
  <2>1. ASSUME NEW r \in Active, req' = [req EXCEPT ![c].pc = "mark_completed", ![c].act = r]
        PROVE  QueueInv'
    <3>1. r \in ran
      BY <1>5, <2>1 DEF ReadCompleted, QueueInv, Relies
    <3>2. /\ req' \in [Clients -> Request] /\ req'[c].pc = "mark_completed"
          /\ req'[c].act = r
      BY <2>1, ReadsOne DEF Positions, Reading
    <3>3. Relies(c)'
      BY <1>1, <3>1, <3>2 DEF Relies, At
    <3> QED
      BY <1>1, <3>2, <3>3, ReadsKeep
  <2> QED
    BY <1>2, <1>5, <2>1 DEF ReadCompleted, ReadActive
<1> QED
  BY <1>3, <1>4, <1>5

\* startNextStrategy, up to the UPDATE.
LEMMA StartKeeps ==
  ASSUME OneClient, QueueInv, NEW c \in Clients,
         ReadRunning(c) \/ Settle(c) \/ List(c) \/ Pick(c) \/ Check(c)
  PROVE  QueueInv'
<1> USE DEF OnlyReads, Rest1
<1>1. req \in [Clients -> Request] /\ UNCHANGED <<objs, rows, versions, ran>>
  BY DEF QueueInv, QueueTypes, ReadRunning, Settle, List, Pick, Check
<1>2. ASSUME Fail(c) \/ Return(c) PROVE QueueInv'
  BY <1>1, <1>2, EndsPlain, PlainKeeps
<1>3. ASSUME NEW p \in Plain, Go(c, p) PROVE QueueInv'
  <2>1. req' \in [Clients -> Request] /\ req'[c].pc \in Plain
    BY <1>1, <1>3, Moves DEF Positions
  <2> QED
    BY <1>1, <2>1, PlainKeeps
<1>4. ASSUME NEW back \in Backs, Call(c, "metrics", back) PROVE QueueInv'
  <2>1. req' \in [Clients -> Request] /\ req'[c].pc \in Plain
    BY <1>1, <1>4, Moves DEF Positions, Plain
  <2> QED
    BY <1>1, <2>1, PlainKeeps
<1>5. ASSUME ReadRunning(c) PROVE QueueInv'
  <2>1. CASE Call(c, "metrics", IF req[c].force THEN "settle_forced" ELSE "settle")
    BY <1>4, <2>1 DEF Backs
  <2> QED
    BY <1>2, <1>3, <1>5, <2>1 DEF ReadRunning, Plain
<1>6. ASSUME Settle(c) PROVE QueueInv'
  <2>1. CASE req' = [req EXCEPT ![c].pc = "list", ![c].force = At(c, "settle_forced")]
    <3>1. At(c, "settle_forced") \in BOOLEAN /\ "list" \in Positions /\ "list" \in Plain
      BY DEF At, Positions, Plain
    <3>2. req' \in [Clients -> Request] /\ req'[c].pc = "list"
      BY <1>1, <2>1, <3>1, Moves
    <3> QED
      BY <1>1, <3>1, <3>2, PlainKeeps
  <2> QED
    BY <1>2, <1>6, <2>1 DEF Settle
<1>7. ASSUME List(c), Go(c, "pick"), req[c].force \/ ~QueuePaused PROVE QueueInv'
  <2>1. /\ req' \in [Clients -> Request] /\ req'[c].pc = "pick"
        /\ req'[c].force = req[c].force
    BY <1>1, <1>7, Moves DEF Positions, Reading
  <2>2. Relies(c)'
    BY <1>1, <1>7, <2>1, SameTable DEF Relies, At
  <2> QED
    BY <1>1, <2>1, <2>2, ReadsKeep
<1>8. ASSUME Pick(c), WithStatus("pending") # {},
             req' = [req EXCEPT ![c].pc = "check", ![c].act = NextPending]
      PROVE  QueueInv'
  <2>1. NextPending \in Nat
    <3>1. WithStatus("pending") \subseteq Nat
      BY DEF QueueInv, QueueTypes, WithStatus
    <3>2. NextPending \in WithStatus("pending")
      BY <1>8, <3>1, LeastRow DEF NextPending
    <3> QED
      BY <3>1, <3>2
  <2>2. /\ req' \in [Clients -> Request] /\ req'[c].pc = "check"
        /\ req'[c].force = req[c].force
    BY <1>1, <1>8, <2>1, Takes DEF Positions, Reading
  <2>3. req[c].force \/ ~QueuePaused
    BY <1>8 DEF Pick, QueueInv, Relies
  <2>4. Relies(c)'
    BY <1>1, <2>2, <2>3, SameTable DEF Relies, At
  <2> QED
    BY <1>1, <2>2, <2>4, ReadsKeep
<1>9. ASSUME Check(c), Active = {}, Go(c, "promote") PROVE QueueInv'
  <2>1. /\ req' \in [Clients -> Request] /\ req'[c].pc = "promote"
        /\ req'[c].force = req[c].force
    BY <1>1, <1>9, Moves DEF Positions, Reading
  <2>2. req[c].force \/ ~QueuePaused
    BY <1>9 DEF Check, QueueInv, Relies
  <2>3. Relies(c)'
    BY <1>1, <1>9, <2>1, <2>2, SameTable DEF Relies, At
  <2> QED
    BY <1>1, <2>1, <2>3, ReadsKeep
<1>10. ASSUME List(c) PROVE QueueInv'
  BY <1>2, <1>7, <1>10 DEF List
<1>11. ASSUME Pick(c) PROVE QueueInv'
  BY <1>2, <1>8, <1>11 DEF Pick
<1>12. ASSUME Check(c) PROVE QueueInv'
  BY <1>2, <1>3, <1>9, <1>12 DEF Check, Plain
<1> QED
  BY <1>5, <1>6, <1>10, <1>11, <1>12
-----------------------------------------------------------------------------
(* Steps that write the tables.                                             *)

\* A step that writes rows, and goes on to a plain position.
LEMMA TableKeeps ==
  ASSUME OneClient, QueueInv, NEW c \in Clients, UNCHANGED <<objs, versions, ran>>,
         req' \in [Clients -> Request], req'[c].pc \in Plain,
         rows' \in Seq(Row), \A k \in DOMAIN rows' : rows'[k].version \in 1 .. Len(versions),
         OneActive', WithStatus("completed")' \subseteq ran
  PROVE  QueueInv'
<1>1. QueueTypes'
  BY DEF QueueInv, QueueTypes
<1>2. ReportsRan' /\ CompletedWasRun'
  BY DEF QueueInv, ReportsRan, CompletedWasRun
<1>3. \A d \in Clients : Relies(d)'
  BY PlainRelies DEF OneClient
<1> QED
  BY <1>1, <1>2, <1>3 DEF QueueInv

\* The ways a row ends, and the start of the run after it.
LEMMA MarksKeep ==
  ASSUME OneClient, QueueInv, NEW c \in Clients,
         Complete(c) \/ MarkAborted(c) \/ MarkFailed(c) \/ Promote(c)
  PROVE  QueueInv'
<1> DEFINE r == req[c].act
<1>1. /\ QueueTypes /\ OneActive /\ WithStatus("completed") \subseteq ran
      /\ req \in [Clients -> Request] /\ UNCHANGED <<objs, versions, ran>>
  BY DEF QueueInv, QueueTypes, CompletedWasRun, Complete, MarkAborted, MarkFailed, Promote, Rest1
<1>2. ASSUME NEW status \in {"running"} \cup Final, Mark(r, status)
      PROVE  rows' \in Seq(Row) /\ \A k \in DOMAIN rows' : rows'[k].version \in 1 .. Len(versions)
  <2>1. /\ rows' \in Seq(Row) /\ DOMAIN rows' = DOMAIN rows
        /\ \A k \in DOMAIN rows : rows'[k].version = rows[k].version
    BY <1>1, <1>2, MarkRows
  <2> QED
    BY <1>1, <2>1 DEF QueueTypes
<1>3. ASSUME NEW status \in Final, Mark(r, status), status = "completed" => r \in ran
      PROVE  OneActive' /\ WithStatus("completed")' \subseteq ran
  BY <1>1, <1>3, MarkEnded DEF OneActive
<1>4. ASSUME Complete(c) PROVE QueueInv'
  <2>1. Mark(r, "completed") /\ r \in ran /\ "completed" \in Final
    BY <1>4 DEF Complete, QueueInv, Relies, Final
  <2>2. req' \in [Clients -> Request] /\ req'[c].pc = "start"
    <3>1. "start" \in Positions /\ req' = [req EXCEPT ![c].pc = "start", ![c].force = FALSE]
      BY <1>4 DEF Complete, Positions, Plain
    <3> QED
      BY <1>1, <3>1, Moves
  <2>3. req'[c].pc \in Plain
    BY <2>2 DEF Plain
  <2> QED
    BY <1>1, <1>2, <1>3, <2>1, <2>2, <2>3, TableKeeps
<1>5. ASSUME MarkAborted(c) PROVE QueueInv'
  <2>1. Mark(r, "aborted") /\ "aborted" \in Final
    BY <1>5 DEF MarkAborted, Final
  <2>2. req' \in [Clients -> Request] /\ req'[c].pc \in Plain
    BY <1>1, <1>5, EndsPlain DEF MarkAborted
  <2> QED
    BY <1>1, <1>2, <1>3, <2>1, <2>2, TableKeeps
<1>6. ASSUME MarkFailed(c) PROVE QueueInv'
  <2>1. Mark(r, "failed") /\ "failed" \in Final
    BY <1>6 DEF MarkFailed, Final
  <2>2. req' \in [Clients -> Request] /\ req'[c].pc \in Plain
    BY <1>1, <1>6, EndsPlain DEF MarkFailed
  <2> QED
    BY <1>1, <1>2, <1>3, <2>1, <2>2, TableKeeps
<1>7. ASSUME Promote(c) PROVE QueueInv'
  <2>1. Mark(r, "running") /\ Active = {}
    BY <1>7 DEF Promote, QueueInv, Relies
  <2>2. OneActive' /\ WithStatus("completed")' \subseteq ran
    BY <1>1, <2>1, MarkRunning DEF OneActive
  <2>3. req' \in [Clients -> Request] /\ req'[c].pc \in Plain
    <3>1. Fail(c) \/ Go(c, "launch")
      BY <1>7 DEF Promote
    <3>2. "launch" \in Plain /\ "launch" \in Positions
      BY DEF Plain, Positions
    <3> QED
      BY <1>1, <3>1, <3>2, EndsPlain, Moves
  <2> QED
    BY <1>1, <1>2, <2>1, <2>2, <2>3, TableKeeps
<1> QED
  BY <1>4, <1>5, <1>6, <1>7

\* The version and the row of a deploy, and the removal of a pending row.
LEMMA RowsKeep ==
  ASSUME OneClient, QueueInv, NEW c \in Clients, Save(c) \/ Insert(c) \/ Delete(c)
  PROVE  QueueInv'
<1>1. /\ QueueTypes /\ OneActive /\ WithStatus("completed") \subseteq ran
      /\ req \in [Clients -> Request] /\ UNCHANGED <<objs, ran>>
  BY DEF QueueInv, QueueTypes, CompletedWasRun, Save, Insert, Delete, Rest1
<1>2. "start" \in Positions /\ "start" \in Plain /\ "insert" \in Positions /\ "clear" \in Backs
  BY DEF Positions, Plain, Reading, Backs
<1>3. ASSUME Save(c) PROVE QueueInv'
  <2> DEFINE d == req[c].doc
  <2>1. d \in Docs /\ UNCHANGED rows
    BY <1>3 DEF Save, QueueInv, Relies
  <2>2. /\ versions' \in Seq(Docs) /\ versions' # <<>>
        /\ Len(versions') \in Nat /\ Len(versions) \in Nat /\ Len(versions') >= Len(versions)
    BY <1>1, <1>3, <2>1 DEF Save, Saves, QueueTypes
  <2>3. /\ req' \in [Clients -> Request]
        /\ req'[c].pc = "start" \/ req'[c].pc = "insert"
    BY <1>1, <1>2, <1>3, Moves DEF Save
  <2>4. QueueTypes'
    <3>1. \A k \in DOMAIN rows : rows[k].version \in 1 .. Len(versions')
      BY <1>1, <2>2 DEF QueueTypes
    <3> QED
      BY <1>1, <2>1, <2>2, <2>3, <3>1 DEF QueueTypes
  <2>5. OneActive' /\ CompletedWasRun' /\ ReportsRan'
    BY <1>1, <2>1, SameTable DEF OneActive, CompletedWasRun, QueueInv, ReportsRan
  <2>6. Relies(c)'
    BY <2>2, <2>3 DEF Relies, At
  <2> QED
    BY <2>4, <2>5, <2>6 DEF QueueInv, OneClient
<1>4. ASSUME Insert(c) PROVE QueueInv'
  <2> DEFINE new == [status |-> "pending", version |-> Len(versions), ended |-> 0]
  <2>1. rows' = Append(rows, new) /\ UNCHANGED versions
    BY <1>4 DEF Insert, Rest1
  <2>2. versions # <<>> /\ versions \in Seq(Docs) /\ Len(versions) \in 1 .. Len(versions)
    BY <1>1, <1>4 DEF Insert, QueueInv, Relies, QueueTypes
  <2>3. new \in Row /\ new.version = Len(versions) /\ new.status = "pending"
    BY <2>2 DEF Row, RowStatuses
  <2> HIDE DEF new
  <2>4. /\ rows' \in Seq(Row) /\ DOMAIN rows \subseteq DOMAIN rows'
        /\ \A k \in DOMAIN rows' : \/ k \in DOMAIN rows /\ rows'[k] = rows[k]
                                   \/ rows'[k] = new
    BY <1>1, <2>1, <2>3 DEF QueueTypes
  <2>5. \A k \in DOMAIN rows' : rows'[k].version \in 1 .. Len(versions)
    BY <1>1, <2>2, <2>3, <2>4 DEF QueueTypes
  <2>6. /\ Active' \subseteq Active
        /\ WithStatus("completed")' \subseteq WithStatus("completed")
    BY <2>3, <2>4 DEF Active, WithStatus
  <2>7. OneActive' /\ WithStatus("completed")' \subseteq ran
    BY <1>1, <2>6 DEF OneActive
  <2>8. req' \in [Clients -> Request] /\ req'[c].pc = "start"
    BY <1>1, <1>2, <1>4, Moves DEF Insert
  <2> QED
    BY <1>1, <1>2, <2>1, <2>4, <2>5, <2>7, <2>8, TableKeeps
<1>5. ASSUME Delete(c) PROVE QueueInv'
  <2> DEFINE r == req[c].act
  <2>1. rows' = [rows EXCEPT ![r].status = "deleted", ![r].ended = 0] /\ UNCHANGED versions
    BY <1>5 DEF Delete, Rest1
  <2>2. "deleted" \in RowStatuses
    BY DEF RowStatuses
  <2>3. /\ rows' \in Seq(Row) /\ DOMAIN rows' = DOMAIN rows
        /\ \A k \in DOMAIN rows :
              /\ rows'[k].version = rows[k].version
              /\ rows'[k].status = IF k = r THEN "deleted" ELSE rows[k].status
    BY <1>1, <2>1, <2>2, EditRows
  <2>4. /\ Active' \subseteq Active
        /\ WithStatus("completed")' \subseteq WithStatus("completed")
    BY <2>3 DEF Active, WithStatus
  <2>5. OneActive' /\ WithStatus("completed")' \subseteq ran
    BY <1>1, <2>4 DEF OneActive
  <2>6. \A k \in DOMAIN rows' : rows'[k].version \in 1 .. Len(versions)
    BY <1>1, <2>3 DEF QueueTypes
  <2>7. req' \in [Clients -> Request] /\ req'[c].pc \in Plain
    BY <1>1, <1>5, EndsPlain DEF Delete
  <2> QED
    BY <1>1, <2>1, <2>3, <2>5, <2>6, <2>7, TableKeeps
<1> QED
  BY <1>3, <1>4, <1>5
-----------------------------------------------------------------------------
(* Steps of the objects, and of requests that call them.                    *)

\* What each operation on an object leaves of it: a completed object reports a
\* run it had completed before, or none, unless it has just rested.
LEMMA ObjectMoves ==
  ASSUME objs \in [Objects -> Reported], NEW o, NEW r \in Nat,
         \/ Start(o, r) \/ Abort(o) \/ Pause(o) \/ Resume(o) \/ Clear(o) \/ Webhook(o)
         \/ Answer(o) \/ Work(o) \/ Crash(o)
  PROVE  /\ objs' \in [Objects -> Reported]
         /\ \A q \in Objects :
               \/ objs'[q].status # "completed"
               \/ objs'[q].run = NoRun
               \/ objs[q].status = "completed" /\ objs'[q].run = objs[q].run
<1> DEFINE Kept(x) == \/ x.status # "completed"
                      \/ x.run = NoRun
                      \/ objs[o].status = "completed" /\ x.run = objs[o].run
<1>1. ASSUME NEW x, To(o, x), o \in Objects => x \in Reported /\ Kept(x)
      PROVE  /\ objs' \in [Objects -> Reported]
             /\ \A q \in Objects :
                   \/ objs'[q].status # "completed"
                   \/ objs'[q].run = NoRun
                   \/ objs[q].status = "completed" /\ objs'[q].run = objs[q].run
  BY <1>1 DEF To
<1>2. o \in Objects => objs[o] \in Reported
  OBVIOUS
<1>3. NoRun \in Nat
  BY QueueAssumption
<1>4. CASE Start(o, r)
  <2> DEFINE x == [objs[o] EXCEPT !.status = "running", !.run = r]
  <2>1. o \in Objects => x \in Reported /\ Kept(x)
    BY <1>2 DEF Reported, Statuses
  <2> QED
    BY <1>1, <1>4, <2>1 DEF Start
<1>5. ASSUME NEW s \in Statuses \ {"completed"}, SetStatus(o, s)
      PROVE  /\ objs' \in [Objects -> Reported]
             /\ \A q \in Objects :
                   \/ objs'[q].status # "completed"
                   \/ objs'[q].run = NoRun
                   \/ objs[q].status = "completed" /\ objs'[q].run = objs[q].run
  <2> DEFINE x == [objs[o] EXCEPT !.status = s]
  <2>1. o \in Objects => x \in Reported /\ Kept(x)
    BY <1>2 DEF Reported
  <2> QED
    BY <1>1, <1>5, <2>1 DEF SetStatus
<1>6. CASE Abort(o) \/ Pause(o) \/ Resume(o)
  BY <1>5, <1>6 DEF Abort, Pause, Resume, Statuses
<1>7. CASE Clear(o)
  <2> DEFINE x == [objs[o] EXCEPT !.status = "idle", !.run = NoRun]
  <2>1. o \in Objects => x \in Reported /\ Kept(x)
    BY <1>2, <1>3 DEF Reported, Statuses
  <2> QED
    BY <1>1, <1>7, <2>1 DEF Clear
<1>8. CASE Webhook(o)
  <2>1. PICK a \in BOOLEAN : To(o, [objs[o] EXCEPT !.run = NoRun, !.answering = a])
    BY <1>8 DEF Webhook
  <2> DEFINE x == [objs[o] EXCEPT !.run = NoRun, !.answering = a]
  <2>2. o \in Objects => x \in Reported /\ Kept(x)
    BY <1>2, <1>3 DEF Reported
  <2> QED
    BY <1>1, <2>1, <2>2
<1>9. CASE Answer(o)
  <2>1. PICK s \in {objs[o].status, "paused"}, a \in BOOLEAN :
          To(o, [objs[o] EXCEPT !.status = s, !.answering = a])
    BY <1>9 DEF Answer
  <2> DEFINE x == [objs[o] EXCEPT !.status = s, !.answering = a]
  <2>2. o \in Objects => s \in Statuses
    BY <1>2 DEF Reported, Statuses
  <2>3. o \in Objects => x \in Reported /\ Kept(x)
    BY <1>2, <2>1, <2>2 DEF Reported
  <2> QED
    BY <1>1, <2>1, <2>3
<1>10. CASE Work(o)
  <2> DEFINE x == [objs[o] EXCEPT !.working = TRUE]
  <2>1. o \in Objects => x \in Reported /\ Kept(x)
    BY <1>2 DEF Reported
  <2> QED
    BY <1>1, <1>10, <2>1 DEF Work
<1>11. CASE Crash(o)
  <2> DEFINE x == [objs[o] EXCEPT !.working = FALSE, !.answering = FALSE]
  <2>1. o \in Objects => x \in Reported /\ Kept(x)
    BY <1>2 DEF Reported
  <2> QED
    BY <1>1, <1>11, <2>1 DEF Crash
<1> QED
  BY <1>4, <1>6, <1>7, <1>8, <1>9, <1>10, <1>11

\* A step of a request that calls an object and goes on to a plain position.
LEMMA CallsKeep ==
  ASSUME OneClient, QueueInv, NEW c \in Clients,
         \/ Launch(c) \/ ClearPrevious(c) \/ SendAbort(c) \/ SendPause(c)
         \/ SendResume(c) \/ Forward(c)
  PROVE  QueueInv'
<1>1. /\ objs \in [Objects -> Reported] /\ req \in [Clients -> Request]
      /\ req[c].act \in Nat /\ 0 \in Nat /\ UNCHANGED <<rows, versions, ran>>
  BY DEF QueueInv, QueueTypes, Request, Rest1, Launch, ClearPrevious, SendAbort, SendPause,
         SendResume, Forward
<1>2. ASSUME NEW o, NEW r \in Nat,
             Start(o, r) \/ Abort(o) \/ Pause(o) \/ Resume(o) \/ Clear(o) \/ Webhook(o)
      PROVE  objs' \in [Objects -> Reported] /\ ReportsRan'
  <2>1. /\ objs' \in [Objects -> Reported]
        /\ \A q \in Objects :
              \/ objs'[q].status # "completed"
              \/ objs'[q].run = NoRun
              \/ objs[q].status = "completed" /\ objs'[q].run = objs[q].run
    BY <1>1, <1>2, ObjectMoves
  <2> QED
    BY <1>1, <2>1 DEF QueueInv, ReportsRan
<1>3. objs' \in [Objects -> Reported] /\ ReportsRan'
  <2>1. CASE UNCHANGED objs
    BY <1>1, <2>1 DEF QueueInv, ReportsRan
  <2>2. CASE \E o : \E r \in Nat : Start(o, r) \/ Abort(o) \/ Pause(o) \/ Resume(o)
                                    \/ Clear(o) \/ Webhook(o)
    BY <1>2, <2>2
  <2>3. CASE Launch(c)
    BY <1>1, <2>1, <2>2, <2>3 DEF Launch
  <2>4. CASE ClearPrevious(c)
    BY <1>1, <2>1, <2>2, <2>4 DEF ClearPrevious
  <2>5. CASE SendAbort(c)
    BY <1>1, <2>2, <2>5 DEF SendAbort
  <2>6. CASE SendPause(c)
    BY <1>1, <2>1, <2>2, <2>6 DEF SendPause
  <2>7. CASE SendResume(c)
    BY <1>1, <2>1, <2>2, <2>7 DEF SendResume
  <2>8. CASE Forward(c)
    BY <1>1, <2>2, <2>8 DEF Forward
  <2> QED
    BY <2>3, <2>4, <2>5, <2>6, <2>7, <2>8
<1>4. req' \in [Clients -> Request] /\ req'[c].pc \in Plain
  <2>1. /\ "mark_failed" \in Plain /\ "mark_failed" \in Positions
        /\ "mark_aborted" \in Plain /\ "mark_aborted" \in Positions
    BY DEF Plain, Positions
  <2>2. Return(c) \/ Over(c) \/ Go(c, "mark_failed") \/ Go(c, "mark_aborted")
    BY DEF Launch, ClearPrevious, SendAbort, SendPause, SendResume, Forward
  <2> QED
    BY <1>1, <2>1, <2>2, Moves, EndsPlain
<1>5. QueueTypes'
  BY <1>1, <1>3, <1>4 DEF QueueInv, QueueTypes
<1>6. OneActive' /\ CompletedWasRun'
  BY <1>1, SameTable DEF QueueInv, OneActive, CompletedWasRun
<1>7. \A d \in Clients : Relies(d)'
  BY <1>4, PlainRelies DEF OneClient
<1> QED
  BY <1>3, <1>5, <1>6, <1>7 DEF QueueInv

\* What an object does by itself: what it completes is added to ran.
LEMMA ObjectsKeep ==
  ASSUME QueueInv, NEW o \in Objects, ObjectStep(o)
  PROVE  QueueInv'
<1>1. /\ objs \in [Objects -> Reported] /\ UNCHANGED <<rows, versions, req>>
      /\ ran' = IF objs'[o].status = "completed" THEN ran \cup {objs[o].run} ELSE ran
      /\ Answer(o) \/ Work(o) \/ Rest(o) \/ Crash(o)
  BY DEF QueueInv, QueueTypes, ObjectStep
<1>2. objs' \in [Objects -> Reported] /\ ReportsRan'
  <2>1. CASE Answer(o) \/ Work(o) \/ Crash(o)
    <3>1. 0 \in Nat
      OBVIOUS
    <3>2. /\ objs' \in [Objects -> Reported]
          /\ \A q \in Objects :
                \/ objs'[q].status # "completed"
                \/ objs'[q].run = NoRun
                \/ objs[q].status = "completed" /\ objs'[q].run = objs[q].run
      BY <1>1, <2>1, <3>1, ObjectMoves
    <3> QED
      BY <1>1, <3>2 DEF QueueInv, ReportsRan
  <2>2. CASE Rest(o)
    <3>1. PICK s \in {objs[o].status, "completed", "aborted", "paused"} :
            To(o, [objs[o] EXCEPT !.status = s, !.working = FALSE])
      BY <2>2 DEF Rest
    <3> DEFINE x == [objs[o] EXCEPT !.status = s, !.working = FALSE]
    <3>2. s \in Statuses /\ objs[o] \in Reported
      BY <1>1, <3>1 DEF Reported, Statuses
    <3>3. x \in Reported /\ x.run = objs[o].run /\ x.status = s
      BY <3>2 DEF Reported
    <3>4. objs' = [objs EXCEPT ![o] = x]
      BY <3>1 DEF To
    <3> HIDE DEF x
    <3>5. /\ objs' \in [Objects -> Reported]
          /\ \A q \in Objects : objs'[q] = IF q = o THEN x ELSE objs[q]
      BY <1>1, <3>3, <3>4
    <3>6. ran \subseteq ran' /\ (s = "completed" => objs[o].run \in ran')
      BY <1>1, <3>3, <3>5
    <3> QED
      BY <3>3, <3>5, <3>6 DEF QueueInv, ReportsRan
  <2> QED
    BY <1>1, <2>1, <2>2
<1>3. QueueTypes'
  BY <1>1, <1>2 DEF QueueInv, QueueTypes
<1>4. ran \subseteq ran' /\ OneActive' /\ CompletedWasRun'
  BY <1>1, SameTable DEF QueueInv, OneActive, CompletedWasRun
<1>5. ASSUME NEW c \in Clients PROVE Relies(c)'
  BY <1>1, <1>4, SameTable DEF QueueInv, Relies, At
<1> QED
  BY <1>2, <1>3, <1>4, <1>5 DEF QueueInv
-----------------------------------------------------------------------------
(* The other steps of a request, and its beginning and end.                 *)

\* The routes of the user, up to their call of the object.
LEMMA RoutesKeep ==
  ASSUME OneClient, QueueInv, NEW c \in Clients,
         \/ ReadForAbort(c) \/ ReadForPause(c) \/ ReadForResume(c) \/ FetchForResume(c)
         \/ StartForced(c) \/ ReadForForward(c)
  PROVE  QueueInv'
<1>1. req \in [Clients -> Request] /\ UNCHANGED <<objs, rows, versions, ran>>
  BY DEF QueueInv, QueueTypes, OnlyReads, Rest1, ReadForAbort, ReadForPause, ReadForResume,
         FetchForResume, StartForced, ReadForForward
<1>2. ASSUME Over(c) \/ Fail(c) PROVE QueueInv'
  BY <1>1, <1>2, EndsPlain, PlainKeeps
<1>3. ASSUME NEW p \in Plain, NEW r \in Active, req' = [req EXCEPT ![c].pc = p, ![c].act = r]
      PROVE  QueueInv'
  <2>1. p \in Positions
    BY DEF Positions
  <2>2. req' \in [Clients -> Request] /\ req'[c].pc = p
    BY <1>3, <2>1, ReadsOne
  <2> QED
    BY <1>1, <2>2, PlainKeeps
<1>4. ASSUME Call(c, "metrics", "start_forced") PROVE QueueInv'
  <2>1. "metrics" \in Positions /\ "metrics" \in Plain /\ "start_forced" \in Backs
    BY DEF Positions, Plain, Backs
  <2>2. req' \in [Clients -> Request] /\ req'[c].pc = "metrics"
    BY <1>1, <1>4, <2>1, Moves
  <2> QED
    BY <1>1, <2>1, <2>2, PlainKeeps
<1>5. {"abort_send", "pause_send", "resume_fetch", "forward_send"} \subseteq Plain
  BY DEF Plain
<1>6. CASE ReadForAbort(c)
  BY <1>2, <1>3, <1>5, <1>6 DEF ReadForAbort, ReadActive
<1>7. CASE ReadForPause(c)
  BY <1>2, <1>3, <1>5, <1>7 DEF ReadForPause, ReadActive
<1>8. CASE ReadForForward(c)
  BY <1>2, <1>3, <1>5, <1>8 DEF ReadForForward, ReadActive
<1>9. CASE ReadForResume(c)
  BY <1>2, <1>3, <1>4, <1>5, <1>9 DEF ReadForResume, ReadActive
<1>10. CASE FetchForResume(c)
  <2>1. "resume_send" \in Positions /\ "resume_send" \in Plain
    BY DEF Positions, Plain
  <2>2. ASSUME Go(c, "resume_send") PROVE QueueInv'
    <3>1. req' \in [Clients -> Request] /\ req'[c].pc = "resume_send"
      BY <1>1, <2>1, <2>2, Moves
    <3> QED
      BY <1>1, <2>1, <3>1, PlainKeeps
  <2> QED
    BY <1>4, <1>10, <2>2 DEF FetchForResume
<1>11. CASE StartForced(c)
  <2>1. "start" \in Positions /\ "start" \in Plain
    BY DEF Positions, Plain
  <2>2. req' = [req EXCEPT ![c].pc = "start", ![c].force = TRUE]
    BY <1>11 DEF StartForced
  <2>3. req' \in [Clients -> Request] /\ req'[c].pc = "start"
    BY <1>1, <2>1, <2>2, Moves
  <2> QED
    BY <1>1, <2>1, <2>3, PlainKeeps
<1> QED
  BY <1>6, <1>7, <1>8, <1>9, <1>10, <1>11

\* A request begins, or dies.
LEMMA BeginsKeep ==
  ASSUME OneClient, QueueInv, NEW c \in Clients,
         \/ BeginPoll(c) \/ BeginDeploy(c) \/ BeginOp(c) \/ BeginCancel(c)
         \/ BeginWebhook(c) \/ Dies(c)
  PROVE  QueueInv'
<1>1. req \in [Clients -> Request] /\ UNCHANGED <<objs, rows, versions, ran>>
  BY DEF QueueInv, QueueTypes, OnlyReads, Rest1, BeginPoll, BeginDeploy, BeginOp, BeginCancel,
         BeginWebhook, Dies
<1>2. ASSUME NEW x \in Request, x.pc \in Plain, Begin(c, x) PROVE QueueInv'
  <2>1. req' \in [Clients -> Request] /\ req'[c] = x
    BY <1>1, <1>2 DEF Begin
  <2> QED
    BY <1>1, <1>2, <2>1, PlainKeeps
<1>3. ASSUME NEW p \in Plain
      PROVE  [Done EXCEPT !.pc = p] \in Request /\ [Done EXCEPT !.pc = p].pc = p
  BY DoneRequest DEF Request, Positions
<1>4. {"metrics", "resume", "abort", "pause", "delete"} \subseteq Plain
  BY DEF Plain
<1>5. CASE BeginPoll(c)
  BY <1>2, <1>3, <1>4, <1>5 DEF BeginPoll
<1>6. CASE BeginOp(c)
  BY <1>2, <1>3, <1>4, <1>6 DEF BeginOp
<1>7. CASE BeginCancel(c)
  <2>1. PICK r \in WithStatus("pending") : Begin(c, [Done EXCEPT !.pc = "delete", !.act = r])
    BY <1>7 DEF BeginCancel
  <2> DEFINE plain == [Done EXCEPT !.pc = "delete"]
             x == [plain EXCEPT !.act = r]
  <2>2. r \in Nat
    BY DEF QueueInv, QueueTypes, WithStatus
  <2>3. plain \in Request /\ plain.pc = "delete"
    BY <1>3, <1>4
  <2>4. Begin(c, x)
    BY <2>1
  <2> HIDE DEF plain
  <2>5. x \in Request /\ x.pc = "delete"
    BY <2>2, <2>3 DEF Request
  <2> HIDE DEF x
  <2> QED
    BY <1>2, <1>4, <2>4, <2>5
<1>8. CASE BeginWebhook(c)
  <2> DEFINE plain == [Done EXCEPT !.pc = "metrics"]
             x == [plain EXCEPT !.returns = <<"forward">>]
  <2>1. plain \in Request /\ plain.pc = "metrics"
    BY <1>3, <1>4
  <2>2. Begin(c, x)
    BY <1>8 DEF BeginWebhook
  <2>3. <<"forward">> \in Seq(Backs)
    BY DEF Backs
  <2> HIDE DEF plain
  <2>4. x \in Request /\ x.pc = "metrics"
    BY <2>1, <2>3 DEF Request
  <2> HIDE DEF x
  <2> QED
    BY <1>2, <1>4, <2>2, <2>4
<1>9. CASE BeginDeploy(c)
  <2> DEFINE last == IF versions = <<>> THEN NoRun ELSE versions[Len(versions)]
  <2>1. PICK d \in Docs : Begin(c, [Done EXCEPT !.pc = "save", !.doc = d, !.prev = last])
    BY <1>9 DEF BeginDeploy
  <2>2. last \in Docs \cup {NoRun}
    BY DEF QueueInv, QueueTypes
  <2> HIDE DEF last
  <2> DEFINE saving == [Done EXCEPT !.pc = "save"]
             of == [saving EXCEPT !.doc = d]
             x == [of EXCEPT !.prev = last]
  <2>3. Begin(c, x)
    BY <2>1
  <2>4. "save" \in Positions
    BY DEF Positions, Reading
  <2>5. saving \in Request /\ saving.pc = "save"
    BY <2>4, DoneRequest DEF Request
  <2> HIDE DEF saving
  <2>6. of \in Request /\ of.pc = "save" /\ of.doc = d
    BY <2>5 DEF Request
  <2> HIDE DEF of
  <2>7. x \in Request /\ x.pc = "save" /\ x.doc = d
    BY <2>2, <2>6 DEF Request
  <2> HIDE DEF x
  <2>8. req' \in [Clients -> Request] /\ req'[c] = x
    BY <1>1, <2>3, <2>7 DEF Begin
  <2>9. Relies(c)'
    BY <2>7, <2>8 DEF Relies, At
  <2> QED
    BY <1>1, <2>8, <2>9, ReadsKeep
<1>10. CASE Dies(c)
  BY <1>1, <1>10, EndsPlain, PlainKeeps DEF Dies
<1> QED
  BY <1>5, <1>6, <1>7, <1>8, <1>9, <1>10

-----------------------------------------------------------------------------
(* Theorems.                                                                *)

\* The inductive invariant of the queue.
THEOREM Invariant == ASSUME OneClient PROVE QueueSpec => []QueueInv
<1>1. ASSUME QueueInit PROVE QueueInv
  <2>1. objs \in [Objects -> Reported]
    BY <1>1, QueueAssumption DEF QueueInit, Init, New, Reported, Statuses
  <2>2. \A o \in Objects : objs[o].status = "idle"
    BY <1>1 DEF QueueInit, Init, New
  <2>3. req \in [Clients -> Request] /\ \A c \in Clients : req[c].pc = "done"
    BY <1>1, DoneRequest DEF QueueInit, Done
  <2>4. rows = <<>> /\ versions = <<>> /\ DOMAIN rows = {}
    BY <1>1 DEF QueueInit
  <2>5. QueueTypes
    BY <2>1, <2>3, <2>4 DEF QueueTypes
  <2>6. OneActive /\ CompletedWasRun /\ ReportsRan
    BY <2>2, <2>4 DEF OneActive, CompletedWasRun, ReportsRan, Active, WithStatus
  <2>7. \A c \in Clients : Relies(c)
    BY <2>3 DEF Relies, At
  <2> QED
    BY <2>5, <2>6, <2>7 DEF QueueInv
<1>2. ASSUME OneClient, QueueInv, [QueueNext]_queueVars PROVE QueueInv'
  <2>1. CASE UNCHANGED queueVars
    <3>1. UNCHANGED <<objs, rows, versions, req, ran>>
      BY <2>1 DEF queueVars
    <3> QED
      BY <1>2, <3>1, SameTable
         DEF QueueInv, QueueTypes, OneActive, CompletedWasRun, ReportsRan, Relies, At
  <2>2. CASE \E o \in Objects : ObjectStep(o)
    BY <1>2, <2>2, ObjectsKeep
  <2>3. ASSUME NEW c \in Clients, Continues(c) PROVE QueueInv'
    BY <1>2, <2>3, MetricsKeep, StartKeeps, MarksKeep, RowsKeep, CallsKeep, RoutesKeep
       DEF Continues
  <2>4. ASSUME NEW c \in Clients,
               \/ BeginPoll(c) \/ BeginDeploy(c) \/ BeginOp(c) \/ BeginCancel(c)
               \/ BeginWebhook(c) \/ Dies(c)
        PROVE  QueueInv'
    BY <1>2, <2>4, BeginsKeep
  <2> QED
    BY <1>2, <2>1, <2>2, <2>3, <2>4 DEF QueueNext
<1> QED
  BY <1>1, <1>2, PTL DEF QueueSpec

\* startNextStrategy reads the running row before it promotes another, so that
\* one request at a time never leaves two running, wherever a request dies.
THEOREM QueueIsSerial == ASSUME OneClient PROVE QueueSpec => []SerialQueue
<1>1. QueueInv => SerialQueue
  BY ActiveCount DEF QueueInv, SerialQueue
<1> QED
  BY <1>1, Invariant, PTL

\* completeCurrentStrategy marks the running row of a second read: while requests
\* do not overlap, it is the row the object answered for.
THEOREM CompletedRan == ASSUME OneClient PROVE QueueSpec => []CompletedWasRun
<1>1. QueueInv => CompletedWasRun
  BY DEF QueueInv
<1> QED
  BY <1>1, Invariant, PTL

\* Of a queue that is not paused, the last row to end is not an aborted one.
LEMMA NotPaused ==
  ASSUME QueueTypes, Active = {}, WithStatus("pending") # {}, ~QueuePaused,
         NEW a \in WithStatus("aborted")
  PROVE  \E e \in Ended \ {a} : rows[e].ended >= rows[a].ended
<1> DEFINE f == [r \in Ended |-> rows[r].ended]
           last == {r \in Ended : rows[r].ended = LastSecond}
<1>1. a \in Ended /\ Ended \subseteq DOMAIN rows
  BY DEF Ended, WithStatus, Final
<1>2. DOMAIN rows \subseteq Nat /\ \A r \in DOMAIN rows : rows[r].ended \in Nat
  <2>1. \A r \in DOMAIN rows : rows[r] \in Row
    BY DEF QueueTypes
  <2> QED
    BY <2>1 DEF QueueTypes, Row
<1>3. IsFiniteSet(Ended)
  <2>1. Len(rows) \in Int /\ DOMAIN rows = 1 .. Len(rows)
    BY DEF QueueTypes
  <2>2. IsFiniteSet(DOMAIN rows)
    BY <2>1, FS_Interval
  <2> QED
    BY <1>1, <2>2, FS_Subset
<1>4. f \in [Ended -> Nat]
  BY <1>1, <1>2
<1>5. PICK m \in Ended : \A k \in Ended : f[k] <= f[m]
  <2> HIDE DEF f
  <2> QED
    BY <1>1, <1>3, <1>4, LastToEnd
<1>6. /\ rows[m].ended \in Nat
      /\ \A k \in Ended : rows[k].ended \in Nat /\ rows[k].ended <= rows[m].ended
  BY <1>1, <1>2, <1>5
<1>7. LastSecond = rows[m].ended
  <2> DEFINE S == {0} \cup {rows[r].ended : r \in Ended}
  <2>1. rows[m].ended \in S /\ \A y \in S : rows[m].ended >= y
    BY <1>6
  <2>2. \A x \in S : x \in Nat
    BY <1>6
  <2> HIDE DEF S
  <2>3. ASSUME NEW x \in S, \A y \in S : x >= y PROVE x = rows[m].ended
    <3>1. x \in Nat /\ rows[m].ended \in Nat /\ x >= rows[m].ended /\ rows[m].ended >= x
      BY <2>1, <2>2, <2>3
    <3> QED
      BY <3>1
  <2>4. Max(S) = rows[m].ended
    BY <2>1, <2>3 DEF Max
  <2> QED
    BY <2>4 DEF LastSecond, S
<1>8. last # {} /\ last \subseteq Nat
  BY <1>1, <1>2, <1>7
<1>9. Min(last) \in last
  <2> HIDE DEF last
  <2> QED
    BY <1>8, LeastRow
<1>10. rows[Min(last)].status # "aborted"
  BY <1>1 DEF QueuePaused
<1>11. Min(last) \in Ended /\ Min(last) # a /\ rows[Min(last)].ended >= rows[a].ended
  BY <1>1, <1>6, <1>7, <1>9, <1>10 DEF WithStatus
<1> QED
  BY <1>11

\* The run that startNextStrategy promotes without force was pending when the
\* queue was found not paused, so an abort that ended the last run stops it.
THEOREM AbortsStop == ASSUME OneClient PROVE QueueSpec => AbortStopsQueue
<1> DEFINE Allowed ==
      \A r \in DOMAIN rows, c \in Clients :
          /\ rows[r].status = "pending" /\ rows'[r].status = "running"
          /\ At(c, "promote") /\ req[c].act = r /\ ~req[c].force
          => \A a \in WithStatus("aborted") :
                \E e \in Ended \ {a} : rows[e].ended >= rows[a].ended
<1>1. QueueInv => Allowed
  <2> SUFFICES ASSUME QueueInv, NEW r \in DOMAIN rows, NEW c \in Clients,
                      rows[r].status = "pending", At(c, "promote"), ~req[c].force,
                      NEW a \in WithStatus("aborted")
               PROVE  \E e \in Ended \ {a} : rows[e].ended >= rows[a].ended
    OBVIOUS
  <2>1. Active = {} /\ ~QueuePaused /\ QueueTypes
    BY DEF QueueInv, Relies
  <2>2. WithStatus("pending") # {}
    BY DEF WithStatus
  <2> QED
    BY <2>1, <2>2, NotPaused
<1>2. QueueInv /\ [QueueNext]_queueVars => [Allowed]_queueVars
  BY <1>1
<1>3. [][Allowed]_queueVars => AbortStopsQueue
  BY PTL DEF AbortStopsQueue
<1> QED
  BY <1>2, <1>3, Invariant, PTL DEF QueueSpec
=============================================================================
