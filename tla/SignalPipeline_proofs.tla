----------------------- MODULE SignalPipeline_proofs -----------------------
(***************************************************************************)
(* Proofs about SignalPipeline, for any number of deliveries of any        *)
(* providers, any rows, any event and any number of errors and deaths.     *)
(*                                                                         *)
(* A row is claimed by one UPDATE or INSERT, but it is let go of by one    *)
(* that does not look at its state (dbMarkSignalProcessed,                 *)
(* dbMarkSignalFailed), and some deliveries work on it without a claim.    *)
(* SignalInv says who may be at which of these statements: a delivery that *)
(* may still write the row holds it or has found it shared (WritesIts), a  *)
(* held row is there, and failed only if it is shared (HeldRow), and what  *)
(* is claimed is held by a delivery that has not marked it yet (Unmarked). *)
(***************************************************************************)
EXTENDS SignalPipeline, TLAPS

\* The deliveries' handlers, their rows and the log keep their types.
SignalTypeOK ==
    /\ event \in Events
    /\ signals \in [Keys -> RowStates]
    /\ oldest \in Keys \cup {NoKey}
    /\ log \in LogRow \cup {NoLog}
    /\ handler \in [Deliveries -> Handler]
    /\ holds \subseteq Deliveries
    /\ abandoned \subseteq Keys
    /\ shared \subseteq Keys
    /\ faults \in Nat

\* A handler of Alchemy or the node has a row as soon as it has looked for it,
\* a refresh when it is about to write it; each has its own statements.
\* One that has failed only writes the log.
HasRow(d) ==
    /\ Provider[d] # "rpc" /\ pc(d) \notin {"find", "over"} => row(d) \in Keys
    /\ pc(d) \in {"select", "insert", "claim", "evaluate", "mark", "fail"} => row(d) \in Keys
    /\ pc(d) \in {"claim", "evaluate", "fail"} => Provider[d] # "rpc"
    /\ pc(d) = "evaluate" => Provider[d] = "alchemy"
    /\ handler[d].ok \/ pc(d) \in {"read", "write"}

\* Who may still write the row: it holds it, or the row is shared.
WritesIts(d) ==
    \/ pc(d) \in {"mark", "fail", "evaluate"}
    \/ Provider[d] # "rpc" /\ pc(d) \in {"enrich", "read", "write"} /\ handler[d].ok
    => d \in holds \/ row(d) \in shared

\* Alchemy's handler writes the log before it marks the row.
LogFirst(d) == Provider[d] = "alchemy" /\ pc(d) \in {"evaluate", "mark"} => log # NoLog

\* Where a delivery is that holds a row; what has failed holds none.
HolderIsAt(d) ==
    /\ handler[d].ok
    /\ row(d) \in Keys
    /\ IF Provider[d] = "rpc" THEN pc(d) \in {"mark", "read", "write"}
       ELSE pc(d) \in {"enrich", "read", "write", "evaluate", "mark", "fail"}

Places ==
    /\ \A d \in Deliveries : HasRow(d) /\ WritesIts(d) /\ LogFirst(d)
    /\ \A d \in holds : HolderIsAt(d)

\* A row that is held exists, and has not failed unless it is shared.
HeldRow ==
    \A d \in holds :
        /\ signals[row(d)] # "none"
        /\ signals[row(d)] = "failed" => row(d) \in shared

\* A holder that will still mark its row as processed or failed.
Unmarked(d) == Provider[d] = "alchemy" \/ pc(d) \in {"enrich", "mark", "fail"}
ClaimedIsUnmarked ==
    \A k \in Keys :
        signals[k] = "claimed" =>
            k \in abandoned \/ \E d \in holds : row(d) = k /\ Unmarked(d)

Claims == HeldRow /\ ProcessedOnce /\ ClaimedIsUnmarked /\ ProcessedIsLogged

SignalInv == SignalTypeOK /\ Places /\ Claims

-----------------------------------------------------------------------------
(* Details: what the merges return.                                         *)

\* What is known of a transaction are details.
LEMMA KnownType ==
  ASSUME NEW a \in Actions, NEW f \in DetailSources, NEW t \in Statuses
  PROVE  Known(a, f, t) \in Details
  BY DEF Known, Details

\* So is what two details are joined to.
LEMMA JoinedType ==
  ASSUME NEW p \in Details, NEW s \in Details
  PROVE  Joined(p, s) \in Details
  BY DEF Joined, Known, Details, DetailSources

\* So are details that the chain corrects.
LEMMA CorrectedType ==
  ASSUME NEW f, NEW details \in Details
  PROVE  Corrected(f, details) \in Details
  BY DEF Corrected, Details, Actions

\* The rank of what two details are joined to is at least the first's.
LEMMA JoinedIsBetter ==
  ASSUME NEW p \in Details, NEW s \in Details
  PROVE  /\ p.action # "none" /\ Joined(p, s).action = p.action
            => Score(Joined(p, s)) >= Score(p)
         /\ p.action = "none" => Score(Joined(p, s)) >= Score(p)
  BY DEF Joined, Known, Details, DetailSources, Actions, Score, ActionRank, SourceRank

\* Merging never loses against what was there.
LEMMA MergedIsBetter ==
  ASSUME NEW old \in Details, NEW new \in Details
  PROVE  /\ Merged(old, new) \in Details
         /\ Score(Merged(old, new)) >= Score(old)
<1> DEFINE primary == IF Score(new) >= Score(old) THEN new ELSE old
           secondary == IF primary = new THEN old ELSE new
           joined == Joined(primary, secondary)
<1>1. primary \in Details /\ secondary \in Details
  OBVIOUS
<1>2. joined \in Details
  BY <1>1, JoinedType
<1>3. Score(old) \in Nat /\ Score(new) \in Nat /\ Score(primary) >= Score(old)
  BY DEF Score, ActionRank, SourceRank
<1>4. CASE primary.action = "none"
  <2>1. Merged(old, new) = joined
    BY <1>4 DEF Merged
  <2>2. Score(joined) >= Score(primary)
    BY <1>1, <1>4, JoinedIsBetter
  <2> QED
    BY <1>1, <1>2, <1>3, <2>1, <2>2 DEF Score, ActionRank, SourceRank
<1>5. CASE primary.action # "none"
  <2>1. Merged(old, new) = [joined EXCEPT !.action = primary.action]
    BY <1>5 DEF Merged
  <2>2. Merged(old, new) \in Details
    BY <1>1, <1>2, <2>1 DEF Details
  <2>3. Score([joined EXCEPT !.action = primary.action]) >= Score(primary)
    BY <1>1, <1>5 DEF Joined, Known, Details, DetailSources, Actions, Score, ActionRank, SourceRank
  <2> QED
    BY <1>1, <1>3, <2>1, <2>2, <2>3 DEF Score, ActionRank, SourceRank
<1> QED
  BY <1>4, <1>5

\* A row of the log is replaced by one that knows no less.
LEMMA LoggedType ==
  ASSUME NEW old \in LogRow \cup {NoLog}, NEW details \in Details, NEW processed \in BOOLEAN
  PROVE  /\ Logged(old, details, processed) \in LogRow
         /\ old # NoLog => Score(Logged(old, details, processed).details) >= Score(old.details)
<1> DEFINE merged == IF old = NoLog THEN details ELSE Merged(old.details, details)
<1>1. old # NoLog => old.details \in Details
  BY DEF LogRow
<1>2. merged \in Details /\ (old # NoLog => Score(merged) >= Score(old.details))
  BY <1>1, MergedIsBetter
<1>3. LogStatus(merged, processed) \in Statuses
  BY <1>2 DEF LogStatus, Details, Statuses
<1>4. Logged(old, details, processed) = [details |-> merged, status |-> LogStatus(merged, processed)]
  BY DEF Logged
<1> QED
  BY <1>2, <1>3, <1>4 DEF LogRow

\* Whatever a delivery finds are details.
LEMMA OutcomesType ==
  ASSUME event \in Events, NEW d \in Deliveries
  PROVE  Outcomes(d) \subseteq Details /\ Nothing \in Details
<1>1. event.chain \in {"trade", "transfer", "none", "failed"}
  BY DeliveryAssumption
<1>2. FromBalances \in Details /\ Nothing \in Details
  BY <1>1 DEF FromBalances, Known, Nothing, Details, Actions, DetailSources, Statuses
<1>3. Discovered \subseteq Details /\ Fetched \subseteq Details
  BY <1>2 DEF Discovered, ByAlchemy, ByHelius, BySignature, Fetched, FromHelius, FromMeta
<1>4. ASSUME NEW f PROVE Enriched(f) \subseteq Details
  <2> DEFINE said == Corrected(f, Known(Extracted(f), "payload", "PENDING"))
  <2>1. Known(Extracted(f), "payload", "PENDING") \in Details
    BY DEF Extracted, Known, Details, Actions, DetailSources, Statuses
  <2>2. said \in Details
    BY <2>1, CorrectedType
  <2>3. \A fetched \in Fetched : Corrected(f, Joined(said, fetched)) \in Details
    BY <2>2, <1>3, JoinedType, CorrectedType
  <2> QED
    BY <2>2, <2>3 DEF Enriched
<1> QED
  BY <1>2, <1>3, <1>4 DEF Outcomes

-----------------------------------------------------------------------------
(* Types.                                                                   *)

\* A delivery's signal has a key.
LEMMA KeyIsKey == \A d \in Deliveries : Key[d] \in Keys
  BY DEF Keys

\* The variables of a delivery that begins.
LEMMA StartType == ASSUME NEW d \in Deliveries PROVE Start(d) \in Handler
  BY DEF Start, Handler, Known, Nothing, Details, Actions, DetailSources, Statuses, Pcs

\* The invariant holds at first.
LEMMA InitInv == Init => SignalInv
<1> SUFFICES ASSUME Init PROVE SignalInv
  OBVIOUS
<1>1. \A d \in Deliveries :
        handler[d] = Start(d) /\ handler[d].pc = "find" /\ handler[d].ok
  BY DEF Init, Start
<1>2. SignalTypeOK
  BY StartType, DeliveryAssumption DEF Init, SignalTypeOK, RowStates
<1> QED
  BY <1>1, <1>2 DEF Init, SignalInv, Places, HasRow, HolderIsAt, WritesIts, LogFirst,
     Claims, HeldRow, ProcessedOnce, ClaimedIsUnmarked, ProcessedIsLogged, pc, RowStates

\* The state that another handler's step may read is one of these.
LEMMA Goto ==
  ASSUME SignalTypeOK, NEW d \in Deliveries, NEW to \in Pcs, Goes(d, to)
  PROVE  handler' \in [Deliveries -> Handler]
  BY DEF SignalTypeOK, Goes, Handler

\* Going on with a row keeps the types,
LEMMA GotoRow ==
  ASSUME SignalTypeOK, NEW d \in Deliveries, NEW to \in Pcs, NEW k \in Keys \cup {NoKey},
         GoesOn(d, to, k)
  PROVE  handler' \in [Deliveries -> Handler]
  BY DEF SignalTypeOK, GoesOn, Handler

\* ending keeps them,
LEMMA EndType ==
  ASSUME SignalTypeOK, NEW d \in Deliveries, Ends(d)
  PROVE  handler' \in [Deliveries -> Handler]
<1>1. [Start(d) EXCEPT !.pc = "over"] \in Handler
  BY StartType DEF Handler, Pcs
<1> QED
  BY <1>1 DEF SignalTypeOK, Ends

\* setting what is known of the transaction keeps them,
LEMMA SetHandler ==
  ASSUME SignalTypeOK, NEW d \in Deliveries, NEW to \in Pcs, NEW got \in Details
  PROVE  [handler EXCEPT ![d].got = got, ![d].pc = to] \in [Deliveries -> Handler]
<1>1. handler[d] \in Handler
  BY DEF SignalTypeOK
<1>2. [handler[d] EXCEPT !.got = got, !.pc = to] \in Handler
  BY <1>1 DEF Handler
<1>3. [handler EXCEPT ![d].got = got, ![d].pc = to]
        = [handler EXCEPT ![d] = [handler[d] EXCEPT !.got = got, !.pc = to]]
  BY DEF SignalTypeOK
<1> QED
  BY <1>2, <1>3 DEF SignalTypeOK

\* remembering the row of the log that was read keeps them,
LEMMA SetSeen ==
  ASSUME SignalTypeOK, NEW d \in Deliveries, NEW to \in Pcs,
         NEW seen \in LogRow \cup {NoLog}
  PROVE  [handler EXCEPT ![d].seen = seen, ![d].pc = to] \in [Deliveries -> Handler]
<1>1. handler[d] \in Handler
  BY DEF SignalTypeOK
<1>2. [handler[d] EXCEPT !.seen = seen, !.pc = to] \in Handler
  BY <1>1 DEF Handler
<1>3. [handler EXCEPT ![d].seen = seen, ![d].pc = to]
        = [handler EXCEPT ![d] = [handler[d] EXCEPT !.seen = seen, !.pc = to]]
  BY DEF SignalTypeOK
<1> QED
  BY <1>2, <1>3 DEF SignalTypeOK

\* and failing keeps them.
LEMMA SetFailed ==
  ASSUME SignalTypeOK, NEW d \in Deliveries, Nothing \in Details
  PROVE  [handler EXCEPT ![d].pc = "read", ![d].ok = FALSE,
                         ![d].got = IF Provider[d] = "alchemy" THEN Nothing ELSE @]
           \in [Deliveries -> Handler]
<1> DEFINE got == IF Provider[d] = "alchemy" THEN Nothing ELSE handler[d].got
           h == [handler[d] EXCEPT !.pc = "read", !.ok = FALSE, !.got = got]
<1>1. handler[d] \in Handler
  BY DEF SignalTypeOK
<1>2. h \in Handler
  BY <1>1 DEF Handler, Pcs
<1>3. [handler EXCEPT ![d].pc = "read", ![d].ok = FALSE,
                      ![d].got = IF Provider[d] = "alchemy" THEN Nothing ELSE @]
        = [handler EXCEPT ![d] = h]
  BY <1>1 DEF SignalTypeOK, Handler
<1> QED
  BY <1>2, <1>3 DEF SignalTypeOK

\* Every step keeps the types.
LEMMA TypeStep == SignalInv /\ [Next]_vars => SignalTypeOK'
<1> SUFFICES ASSUME SignalTypeOK, Places, [Next]_vars PROVE SignalTypeOK'
  BY DEF SignalInv
<1>0. CASE UNCHANGED vars
  BY <1>0 DEF vars, SignalTypeOK
<1> SUFFICES ASSUME NEW d \in Deliveries,
                    (Proceeds(d) /\ UNCHANGED faults) \/ Throws(d) \/ Dies(d)
             PROVE  SignalTypeOK'
  BY <1>0 DEF Next
<1>f. faults' \in Nat
  BY DEF SignalTypeOK, Throws, ThrowsTo, Dies, Fault
<1>1. CASE Find(d)
  <2>1. handler' \in [Deliveries -> Handler] /\ shared' \subseteq Keys
    <3>1. CASE ~Elsewhere(d)
      BY <1>1, <3>1, KeyIsKey, GotoRow DEF Find, Pcs, SignalTypeOK
    <3>2. CASE Elsewhere(d) 
      <4>1. oldest \in Keys
        BY <3>2 DEF Elsewhere, SignalTypeOK
      <4> QED
        BY <1>1, <3>2, <4>1, GotoRow DEF Find, Pcs, SignalTypeOK
    <3> QED
      BY <3>1, <3>2
  <2> QED
    BY <1>1, <1>f, <2>1 DEF Find, tables, SignalTypeOK
<1>2. CASE Exists(d)
  <2>1. handler' \in [Deliveries -> Handler]
    BY <1>2, KeyIsKey, GotoRow DEF Exists, Pcs
  <2> QED
    BY <1>2, <1>f, <2>1 DEF Exists, tables, SignalTypeOK
<1>3. CASE Select(d)
  <2>1. handler' \in [Deliveries -> Handler]
    BY <1>3, Goto, EndType DEF Select, Pcs
  <2>2. row(d) \in Keys
    BY <1>3 DEF Select, Places, HasRow
  <2> QED
    BY <1>3, <1>f, <2>1, <2>2 DEF Select, tables, SignalTypeOK
<1>4. CASE Insert(d)
  <2>1. handler' \in [Deliveries -> Handler]
    BY <1>4, Goto, EndType DEF Insert, Pcs
  <2>2. row(d) \in Keys
    BY <1>4 DEF Insert, Places, HasRow
  <2> QED
    BY <1>4, <1>f, <2>1, <2>2 DEF Insert, Becomes, RowStates, SignalTypeOK
<1>5. CASE Claim(d)
  <2>1. handler' \in [Deliveries -> Handler]
    BY <1>5, Goto, EndType DEF Claim, ClaimIf, Pcs
  <2> QED
    BY <1>5, <1>f, <2>1 DEF Claim, ClaimIf, Becomes, RowStates, SignalTypeOK
<1>6. CASE Skip(d)
  BY <1>6, <1>f, EndType DEF Skip, tables, SignalTypeOK
<1>7. CASE Enrich(d)
  <2>1. PICK details \in Outcomes(d) :
          handler' = [handler EXCEPT
              ![d].got = details,
              ![d].pc = CASE Provider[d] = "alchemy" -> "read"
                          [] Provider[d] = "node" -> "mark"
                          [] OTHER -> IF row(d) = NoKey THEN "read" ELSE "select"]
    BY <1>7 DEF Enrich
  <2>2. details \in Details
    BY <2>1, OutcomesType DEF SignalTypeOK
  <2> DEFINE to == CASE Provider[d] = "alchemy" -> "read"
                     [] Provider[d] = "node" -> "mark"
                     [] OTHER -> IF row(d) = NoKey THEN "read" ELSE "select"
  <2>3. handler' \in [Deliveries -> Handler]
    <3>1. to \in Pcs
      BY DEF Pcs
    <3>2. handler' = [handler EXCEPT ![d].got = details, ![d].pc = to]
      BY <2>1
    <3> HIDE DEF to
    <3> QED
      BY <2>2, <3>1, <3>2, SetHandler
  <2> QED
    BY <1>7, <1>f, <2>3 DEF Enrich, tables, SignalTypeOK
<1>8. CASE ReadLog(d)
  <2>1. handler' \in [Deliveries -> Handler]
    BY <1>8, SetSeen DEF ReadLog, SignalTypeOK, Pcs
  <2> QED
    BY <1>8, <1>f, <2>1 DEF ReadLog, tables, SignalTypeOK
<1>9. CASE WriteLog(d)
  <2>1. handler' \in [Deliveries -> Handler]
    BY <1>9, Goto, EndType DEF WriteLog, Pcs
  <2>2. log' \in LogRow
    BY <1>9, LoggedType DEF WriteLog, SignalTypeOK, Handler
  <2> QED
    BY <1>9, <1>f, <2>1, <2>2 DEF WriteLog, SignalTypeOK
<1>10. CASE Evaluate(d)
  BY <1>10, <1>f, Goto DEF Evaluate, tables, SignalTypeOK, Pcs
<1>11. CASE Mark(d)
  <2>1. handler' \in [Deliveries -> Handler]
    BY <1>11, Goto, EndType DEF Mark, Pcs
  <2> QED
    BY <1>11, <1>f, <2>1 DEF Mark, Becomes, RowStates, SignalTypeOK
<1>12. CASE Throws(d)
  BY <1>12, <1>f, Goto DEF Throws, ThrowsTo, tables, SignalTypeOK, Pcs
<1>13. CASE Fail(d)
  <2>1. handler' \in [Deliveries -> Handler]
    BY <1>13, OutcomesType, SetFailed DEF Fail, FailTo, SignalTypeOK
  <2> QED
    BY <1>13, <1>f, <2>1 DEF Fail, FailTo, Becomes, RowStates, SignalTypeOK
<1>14. CASE Dies(d)
  <2>1. d \in holds => row(d) \in Keys
    BY DEF Places, HolderIsAt
  <2> QED
    BY <1>14, <1>f, <2>1, EndType DEF Dies, tables, SignalTypeOK
<1> QED
  BY <1>1, <1>2, <1>3, <1>4, <1>5, <1>6, <1>7, <1>8, <1>9, <1>10, <1>11, <1>12,
     <1>13, <1>14 DEF Proceeds, ActivitySignal, RustNodeWebhook, Reconcile

-----------------------------------------------------------------------------
(* Where the steps leave a handler.                                         *)

\* What going to a statement says,
LEMMA Gone ==
  ASSUME SignalTypeOK, NEW d \in Deliveries, NEW to \in Pcs, Goes(d, to)
  PROVE  /\ pc(d)' = to /\ row(d)' = row(d) /\ handler'[d].ok = handler[d].ok
         /\ \A e \in Deliveries \ {d} : handler'[e] = handler[e]
  BY DEF SignalTypeOK, Goes, Handler, pc, row

\* what going on with a row says,
LEMMA GoneOn ==
  ASSUME SignalTypeOK, NEW d \in Deliveries, NEW to, NEW k, GoesOn(d, to, k)
  PROVE  /\ pc(d)' = to /\ row(d)' = k /\ handler'[d].ok = handler[d].ok
         /\ \A e \in Deliveries \ {d} : handler'[e] = handler[e]
  BY DEF SignalTypeOK, GoesOn, Handler, pc, row

\* and what ending says.
LEMMA Ended ==
  ASSUME SignalTypeOK, NEW d \in Deliveries, Ends(d)
  PROVE  /\ pc(d)' = "over" /\ row(d)' = NoKey /\ handler'[d].ok
         /\ \A e \in Deliveries \ {d} : handler'[e] = handler[e]
  BY DEF SignalTypeOK, Ends, Start, pc, row

-----------------------------------------------------------------------------
(* Each statement keeps the invariant.                                      *)

Others(d) ==
    \A e \in Deliveries \ {d} :
        pc(e)' = pc(e) /\ row(e)' = row(e) /\ handler'[e].ok = handler[e].ok

\* A step that moves a handler, and finds at most that its row is shared or
\* writes the log.
LEMMA MoveKeeps ==
  ASSUME SignalInv, NEW d \in Deliveries, Others(d),
         UNCHANGED <<signals, holds, abandoned>>,
         log' = log \/ log' # NoLog, shared \subseteq shared',
         HasRow(d)', WritesIts(d)', LogFirst(d)',
         d \in holds => HolderIsAt(d)' /\ row(d)' = row(d) /\ (Unmarked(d) => Unmarked(d)')
  PROVE  Places' /\ Claims'
<1> USE DEF SignalInv, SignalTypeOK, Others
<1>1. Places'
  BY DEF Places, HasRow, WritesIts, LogFirst, HolderIsAt
<1>2. \A e \in holds : row(e)' = row(e)
  OBVIOUS
<1>3. HeldRow' /\ ProcessedOnce'
  BY <1>2 DEF Claims, HeldRow, ProcessedOnce
<1>4. \A e \in holds : Unmarked(e) => Unmarked(e)'
  BY DEF Unmarked
<1>5. ClaimedIsUnmarked'
  BY <1>2, <1>4 DEF Claims, ClaimedIsUnmarked
<1>6. ProcessedIsLogged'
  BY <1>2 DEF Claims, ProcessedIsLogged
<1> QED
  BY <1>1, <1>3, <1>5, <1>6 DEF Claims

\* A step that writes one delivery's variables leaves the others where they are.
LEMMA GoneOthers ==
  ASSUME NEW d \in Deliveries, \A e \in Deliveries \ {d} : handler'[e] = handler[e]
  PROVE  Others(d)
  BY DEF Others, pc, row

\* A delivery that is not at one of a holder's statements holds nothing.
LEMMA HoldsNothing ==
  ASSUME SignalInv, NEW d \in Deliveries,
         pc(d) \in {"find", "select", "insert", "claim", "over"}
           \/ (Provider[d] = "rpc" /\ pc(d) = "enrich") \/ ~handler[d].ok
  PROVE  d \notin holds
  BY DEF SignalInv, Places, HolderIsAt

\* Before it has written anything, nothing has failed it.
LEMMA NotFailed ==
  ASSUME SignalInv, NEW d \in Deliveries, pc(d) \notin {"read", "write"}
  PROVE  handler[d].ok
  BY DEF SignalInv, Places, HasRow

\* The delivery looks for its signal's row.
LEMMA FindKeeps ==
  ASSUME SignalInv, NEW d \in Deliveries, Find(d) PROVE Places' /\ Claims'
<1>1. d \notin holds /\ handler[d].ok
  BY HoldsNothing, NotFailed DEF Find
<1>2. CASE ~Elsewhere(d)
  BY <1>1, <1>2, GoneOn, GoneOthers, MoveKeeps, KeyIsKey
     DEF Find, tables, HasRow, WritesIts, LogFirst, SignalInv
<1>3. CASE Elsewhere(d) /\ Provider[d] = "node" /\ signals[oldest] # "processed"
  <2>1. oldest \in Keys
    BY <1>3 DEF Elsewhere, SignalInv, SignalTypeOK
  <2> QED
    BY <1>1, <1>3, <2>1, GoneOn, GoneOthers, MoveKeeps
       DEF Find, tables, HasRow, WritesIts, LogFirst, SignalInv
<1>4. CASE Elsewhere(d) /\ ~(Provider[d] = "node" /\ signals[oldest] # "processed")
  <2>1. oldest \in Keys
    BY <1>4 DEF Elsewhere, SignalInv, SignalTypeOK
  <2> QED
    BY <1>1, <1>4, <2>1, GoneOn, GoneOthers, MoveKeeps
       DEF Find, tables, HasRow, WritesIts, LogFirst, SignalInv
<1> QED
  BY <1>2, <1>3, <1>4

\* A refresh asks whether there is a row.
LEMMA ExistsKeeps ==
  ASSUME SignalInv, NEW d \in Deliveries, Exists(d) PROVE Places' /\ Claims'
<1>1. d \notin holds
  BY HoldsNothing DEF Exists
<1>2. pc(d)' = "enrich" /\ handler'[d].ok /\ Others(d)
  BY GoneOn, GoneOthers, NotFailed DEF Exists, SignalInv
<1> QED
  BY <1>1, <1>2, MoveKeeps DEF Exists, tables, HasRow, WritesIts, LogFirst

\* The status of the row is read.
LEMMA SelectKeeps ==
  ASSUME SignalInv, NEW d \in Deliveries, Select(d) PROVE Places' /\ Claims'
<1>1. d \notin holds /\ row(d) \in Keys
  BY HoldsNothing DEF Select, SignalInv, Places, HasRow
<1>2. /\ pc(d)' \in {"insert", "mark", "over", "claim"} /\ Others(d)
      /\ pc(d)' # "over" => row(d)' = row(d)
      /\ pc(d)' = "mark" => Provider[d] = "rpc"
      /\ pc(d)' = "claim" => Provider[d] # "rpc"
      /\ handler'[d].ok
  BY Gone, Ended, GoneOthers, NotFailed DEF Select, SignalInv, Pcs
<1>3. UNCHANGED <<signals, log, holds, abandoned>>
  BY DEF Select, tables
<1>4. shared \subseteq shared' /\ (pc(d)' = "mark" => row(d) \in shared')
  BY DEF Select
<1>5. HasRow(d)' /\ WritesIts(d)' /\ LogFirst(d)'
  BY <1>1, <1>2, <1>4 DEF HasRow, WritesIts, LogFirst
<1> QED
  BY <1>1, <1>2, <1>3, <1>4, <1>5, MoveKeeps

\* The delivery has nothing to do.
LEMMA SkipKeeps ==
  ASSUME SignalInv, NEW d \in Deliveries, Skip(d) PROVE Places' /\ Claims'
<1>1. d \notin holds
  BY HoldsNothing DEF Skip
<1>2. pc(d)' = "over" /\ handler'[d].ok /\ Others(d)
  BY Ended, GoneOthers DEF Skip, SignalInv
<1> QED
  BY <1>1, <1>2, MoveKeeps DEF Skip, tables, HasRow, WritesIts, LogFirst

\* A wallet webhook has the strategy evaluated.
LEMMA EvaluateKeeps ==
  ASSUME SignalInv, NEW d \in Deliveries, Provider[d] = "alchemy", Evaluate(d)
  PROVE  Places' /\ Claims'
<1>1. pc(d)' = "mark" /\ row(d)' = row(d) /\ handler'[d].ok = handler[d].ok /\ Others(d)
  BY Gone, GoneOthers DEF Evaluate, SignalInv, Pcs
<1>2. HasRow(d) /\ WritesIts(d) /\ LogFirst(d) /\ (d \in holds => HolderIsAt(d))
  BY DEF SignalInv, Places
<1>3. UNCHANGED <<signals, log, holds, abandoned, shared>>
  BY DEF Evaluate, tables
<1>4. HasRow(d)' /\ WritesIts(d)' /\ LogFirst(d)'
  BY <1>1, <1>2, <1>3 DEF Evaluate, HasRow, WritesIts, LogFirst
<1>5. d \in holds => HolderIsAt(d)' /\ (Unmarked(d) => Unmarked(d)')
  BY <1>1, <1>2 DEF Evaluate, HolderIsAt, Unmarked
<1> QED
  BY <1>1, <1>3, <1>4, <1>5, MoveKeeps

\* A statement throws.
LEMMA ThrowsKeeps ==
  ASSUME SignalInv, NEW d \in Deliveries, Throws(d) PROVE Places' /\ Claims'
<1>1. pc(d)' = "fail" /\ row(d)' = row(d) /\ handler'[d].ok = handler[d].ok /\ Others(d)
  BY Gone, GoneOthers DEF Throws, ThrowsTo, SignalInv, Pcs
<1>2. HasRow(d) /\ WritesIts(d) /\ LogFirst(d) /\ (d \in holds => HolderIsAt(d))
  BY DEF SignalInv, Places
<1>3. UNCHANGED <<signals, log, holds, abandoned, shared>>
  BY DEF Throws, ThrowsTo, tables
<1>4. HasRow(d)' /\ WritesIts(d)' /\ LogFirst(d)'
  BY <1>1, <1>2, <1>3 DEF Throws, ThrowsTo, HasRow, WritesIts, LogFirst
<1>5. d \in holds => HolderIsAt(d)' /\ Unmarked(d)'
  BY <1>1, <1>2 DEF Throws, ThrowsTo, HolderIsAt, Unmarked
<1> QED
  BY <1>1, <1>3, <1>4, <1>5, MoveKeeps

\* The log's row is read.
LEMMA ReadLogKeeps ==
  ASSUME SignalInv, NEW d \in Deliveries, ReadLog(d) PROVE Places' /\ Claims'
<1>1. pc(d)' = "write" /\ row(d)' = row(d) /\ handler'[d].ok = handler[d].ok /\ Others(d)
  BY DEF ReadLog, SignalInv, SignalTypeOK, Handler, Others, pc, row
<1>2. HasRow(d) /\ WritesIts(d) /\ (d \in holds => HolderIsAt(d))
  BY DEF SignalInv, Places
<1>3. UNCHANGED <<signals, log, holds, abandoned, shared>>
  BY DEF ReadLog, tables
<1>4. HasRow(d)' /\ WritesIts(d)' /\ LogFirst(d)'
  BY <1>1, <1>2, <1>3 DEF ReadLog, HasRow, WritesIts, LogFirst
<1>5. d \in holds => HolderIsAt(d)' /\ (Unmarked(d) => Unmarked(d)')
  BY <1>1, <1>2 DEF ReadLog, HolderIsAt, Unmarked
<1> QED
  BY <1>1, <1>3, <1>4, <1>5, MoveKeeps

\* The details are asked of the chain.
LEMMA EnrichKeeps ==
  ASSUME SignalInv, NEW d \in Deliveries, Enrich(d) PROVE Places' /\ Claims'
<1>1. /\ pc(d)' = CASE Provider[d] = "alchemy" -> "read"
                    [] Provider[d] = "node" -> "mark"
                    [] OTHER -> IF row(d) = NoKey THEN "read" ELSE "select"
      /\ row(d)' = row(d) /\ handler'[d].ok = handler[d].ok /\ Others(d)
  BY DEF Enrich, SignalInv, SignalTypeOK, Handler, Others, pc, row
<1>2. /\ Provider[d] = "alchemy" => pc(d)' = "read"
      /\ Provider[d] = "node" => pc(d)' = "mark"
      /\ Provider[d] = "rpc" => pc(d)' \in {"read", "select"}
      /\ pc(d)' = "select" => row(d) # NoKey
      /\ Provider[d] \in {"alchemy", "node", "rpc"}
  BY <1>1, DeliveryAssumption
<1>3. HasRow(d) /\ WritesIts(d) /\ (d \in holds => HolderIsAt(d))
  BY DEF SignalInv, Places
<1>4. UNCHANGED <<signals, log, holds, abandoned, shared>>
  BY DEF Enrich, tables
<1>5. row(d) \in Keys \cup {NoKey}
  BY DEF SignalInv, SignalTypeOK, Handler, row
<1>6. Provider[d] = "rpc" => d \notin holds
  BY HoldsNothing DEF Enrich
<1>7. HasRow(d)' /\ WritesIts(d)' /\ LogFirst(d)'
  BY <1>1, <1>2, <1>3, <1>4, <1>5 DEF Enrich, HasRow, WritesIts, LogFirst
<1>8. d \in holds => HolderIsAt(d)' /\ (Unmarked(d) => Unmarked(d)')
  BY <1>1, <1>2, <1>3, <1>6 DEF Enrich, HolderIsAt, Unmarked
<1> QED
  BY <1>1, <1>4, <1>7, <1>8, MoveKeeps

\* A delivery inserts a row, or claims one that has failed: whoever holds the
\* row already holds a shared one.
LEMMA TakeKeeps ==
  ASSUME SignalInv, NEW d \in Deliveries, d \notin holds,
         NEW k \in Keys, row(d) = k, signals[k] \in {"none", "failed"},
         Others(d), row(d)' = k, handler'[d].ok,
         pc(d)' = IF Provider[d] = "rpc" THEN "mark" ELSE "enrich",
         Becomes(k, "claimed"), holds' = holds \cup {d},
         UNCHANGED <<log, abandoned, shared>>
  PROVE  Places' /\ Claims'
<1> USE DEF Others
<1>1. signals' = [signals EXCEPT ![k] = "claimed"] /\ signals \in [Keys -> RowStates]
  BY DEF Becomes, SignalInv, SignalTypeOK
<1>2. \A e \in holds : e \in Deliveries /\ e # d /\ row(e)' = row(e)
  BY DEF SignalInv, SignalTypeOK
<1>3. \A e \in holds : row(e) = k => k \in shared
  BY DEF SignalInv, Claims, HeldRow
<1>4. Places'
  BY <1>2 DEF SignalInv, Places, HasRow, WritesIts, LogFirst, HolderIsAt
<1>5. HeldRow'
  BY <1>1, <1>2 DEF SignalInv, Places, HolderIsAt, Claims, HeldRow
<1>6. ProcessedOnce'
  BY <1>2, <1>3 DEF SignalInv, Claims, ProcessedOnce
<1>7. \A e \in holds : Unmarked(e) => Unmarked(e)'
  BY <1>2 DEF Unmarked
<1>8. Unmarked(d)'
  BY DEF Unmarked
<1>9. ClaimedIsUnmarked'
  BY <1>1, <1>2, <1>7, <1>8 DEF SignalInv, Claims, ClaimedIsUnmarked
<1>10. ProcessedIsLogged'
  BY <1>1, <1>2 DEF SignalInv, Claims, ProcessedIsLogged
<1> QED
  BY <1>4, <1>5, <1>6, <1>9, <1>10 DEF Claims

\* The row is inserted, unless another delivery has inserted it.
LEMMA InsertKeeps ==
  ASSUME SignalInv, NEW d \in Deliveries, Insert(d) PROVE Places' /\ Claims'
<1>1. d \notin holds /\ handler[d].ok /\ row(d) \in Keys
  BY HoldsNothing, NotFailed DEF Insert, SignalInv, Places, HasRow
<1>2. CASE signals[row(d)] = "none"
  <2>1. /\ pc(d)' = IF Provider[d] = "rpc" THEN "mark" ELSE "enrich"
        /\ row(d)' = row(d) /\ handler'[d].ok /\ Others(d)
    BY <1>1, <1>2, Gone, GoneOthers DEF Insert, SignalInv, Pcs
  <2> QED
    BY <1>1, <1>2, <2>1, TakeKeeps DEF Insert
<1>3. CASE signals[row(d)] # "none"
  <2>1. pc(d)' = "over" /\ handler'[d].ok /\ Others(d)
    BY <1>3, Ended, GoneOthers DEF Insert, SignalInv
  <2> QED
    BY <1>1, <1>3, <2>1, MoveKeeps DEF Insert, HasRow, WritesIts, LogFirst
<1> QED
  BY <1>2, <1>3

\* The row is claimed, unless another delivery has claimed it.
LEMMA ClaimKeeps ==
  ASSUME SignalInv, NEW d \in Deliveries, Claim(d) PROVE Places' /\ Claims'
<1>1. d \notin holds /\ handler[d].ok /\ row(d) \in Keys /\ Provider[d] # "rpc"
  BY HoldsNothing, NotFailed DEF Claim, ClaimIf, SignalInv, Places, HasRow
<1>2. CASE signals[row(d)] \in {"failed"}
  <2>1. pc(d)' = "enrich" /\ row(d)' = row(d) /\ handler'[d].ok /\ Others(d)
    BY <1>1, <1>2, Gone, GoneOthers DEF Claim, ClaimIf, SignalInv, Pcs
  <2> QED
    BY <1>1, <1>2, <2>1, TakeKeeps DEF Claim, ClaimIf
<1>3. CASE signals[row(d)] \notin {"failed"}
  <2>1. pc(d)' = "over" /\ handler'[d].ok /\ Others(d)
    BY <1>3, Ended, GoneOthers DEF Claim, ClaimIf, SignalInv
  <2> QED
    BY <1>1, <1>3, <2>1, MoveKeeps DEF Claim, ClaimIf, HasRow, WritesIts, LogFirst
<1> QED
  BY <1>2, <1>3

\* A delivery lets its row go, and leaves it in a state that it has set, or
\* with its worker's death on record.
LEMMA LeaveKeeps ==
  ASSUME SignalInv, NEW d \in Deliveries, Others(d), holds' = holds \ {d},
         HasRow(d)', WritesIts(d)', LogFirst(d)',
         signals' = signals, log' = log \/ log' # NoLog, shared' = shared,
         abandoned \subseteq abandoned',
         d \in holds /\ Unmarked(d) => row(d) \in abandoned',
         d \in holds => row(d) \in abandoned' \/ log' # NoLog
  PROVE  Places' /\ Claims'
<1> USE DEF Others
<1>1. \A e \in holds' : e \in holds /\ e \in Deliveries /\ e # d /\ row(e)' = row(e)
  BY DEF SignalInv, SignalTypeOK
<1>2. \A e \in Deliveries \ {d} : LogFirst(e) => LogFirst(e)'
  BY DEF LogFirst
<1>3. Places'
  BY <1>1, <1>2 DEF SignalInv, Places, HasRow, WritesIts, HolderIsAt
<1>4. HeldRow' /\ ProcessedOnce'
  BY <1>1 DEF SignalInv, Claims, HeldRow, ProcessedOnce
<1>5. \A e \in holds' : Unmarked(e) => Unmarked(e)'
  BY <1>1 DEF Unmarked
<1>6. ClaimedIsUnmarked'
  BY <1>1, <1>5 DEF SignalInv, Claims, ClaimedIsUnmarked
<1>7. ProcessedIsLogged'
  BY <1>1 DEF SignalInv, Claims, ProcessedIsLogged
<1> QED
  BY <1>3, <1>4, <1>6, <1>7 DEF Claims

\* The log is written.
LEMMA WriteLogKeeps ==
  ASSUME SignalInv, SignalTypeOK', NEW d \in Deliveries, WriteLog(d)
  PROVE  Places' /\ Claims'
<1>1. HasRow(d) /\ WritesIts(d) /\ (d \in holds => HolderIsAt(d))
  BY DEF SignalInv, Places
<1>2. log' # NoLog
  <2>1. handler[d] \in Handler /\ log \in LogRow \cup {NoLog}
    BY DEF SignalInv, SignalTypeOK
  <2>2. log' \in LogRow
    BY <2>1, LoggedType DEF WriteLog, Handler
  <2> QED
    BY <2>2, LogAssumption
<1>3. CASE Provider[d] = "alchemy" /\ handler[d].ok
  <2>1. pc(d)' = "evaluate" /\ row(d)' = row(d) /\ handler'[d].ok = handler[d].ok /\ Others(d)
    BY <1>3, Gone, GoneOthers DEF WriteLog, SignalInv, Pcs
  <2>2. UNCHANGED <<signals, holds, abandoned, shared>>
    BY <1>3 DEF WriteLog
  <2>3. HasRow(d)' /\ WritesIts(d)' /\ LogFirst(d)'
    BY <1>1, <1>2, <1>3, <2>1, <2>2 DEF WriteLog, HasRow, WritesIts, LogFirst
  <2>4. d \in holds => HolderIsAt(d)' /\ Unmarked(d)'
    BY <1>1, <1>3, <2>1 DEF HolderIsAt, Unmarked
  <2> QED
    BY <1>2, <2>1, <2>2, <2>3, <2>4, MoveKeeps
<1>4. CASE ~(Provider[d] = "alchemy" /\ handler[d].ok)
  <2>1. pc(d)' = "over" /\ handler'[d].ok /\ Others(d)
    BY <1>4, Ended, GoneOthers DEF WriteLog, SignalInv
  <2>2. /\ UNCHANGED <<signals, abandoned, shared>> /\ holds' = holds \ {d}
    BY <1>4 DEF WriteLog
  <2>3. HasRow(d)' /\ WritesIts(d)' /\ LogFirst(d)'
    BY <2>1 DEF HasRow, WritesIts, LogFirst
  <2>4. d \in holds => ~Unmarked(d)
    BY <1>1, <1>4 DEF WriteLog, HolderIsAt, Unmarked
  <2> QED
    BY <1>2, <2>1, <2>2, <2>3, <2>4, LeaveKeeps
<1> QED
  BY <1>3, <1>4

\* The worker of a delivery dies.
LEMMA DiesKeeps ==
  ASSUME SignalInv, NEW d \in Deliveries, Dies(d) PROVE Places' /\ Claims'
<1>1. pc(d)' = "over" /\ handler'[d].ok /\ Others(d)
  BY Ended, GoneOthers DEF Dies, SignalInv
<1>2. UNCHANGED <<signals, log, shared>> /\ holds' = holds \ {d}
  BY DEF Dies, tables
<1>3. abandoned \subseteq abandoned' /\ (d \in holds => row(d) \in abandoned')
  BY DEF Dies
<1>4. HasRow(d)' /\ WritesIts(d)' /\ LogFirst(d)'
  BY <1>1 DEF HasRow, WritesIts, LogFirst
<1> QED
  BY <1>1, <1>2, <1>3, <1>4, LeaveKeeps

\* dbMarkSignalFailed: what the others hold of the row is shared.
LEMMA FailKeeps ==
  ASSUME SignalInv, NEW d \in Deliveries, Fail(d) PROVE Places' /\ Claims'
<1> DEFINE k == row(d)
<1>1. /\ pc(d)' = "read" /\ row(d)' = k /\ ~handler'[d].ok /\ Others(d)
  BY DEF Fail, FailTo, SignalInv, SignalTypeOK, Handler, Others, pc, row
<1>2. /\ k \in Keys /\ Provider[d] # "rpc"
      /\ signals' = [signals EXCEPT ![k] = "failed"] /\ signals \in [Keys -> RowStates]
      /\ holds' = holds \ {d} /\ UNCHANGED <<log, abandoned, shared>>
  BY DEF Fail, FailTo, Becomes, SignalInv, SignalTypeOK, Places, HasRow
<1>3. \A e \in holds' : e \in holds /\ e \in Deliveries /\ e # d /\ row(e)' = row(e)
  BY <1>1, <1>2 DEF Others, SignalInv, SignalTypeOK
<1>4. \A e \in holds' : row(e) = k => k \in shared
  <2>1. d \in holds \/ k \in shared
    BY DEF SignalInv, Places, WritesIts, Fail, FailTo
  <2> QED
    BY <2>1, <1>3 DEF SignalInv, Claims, ProcessedOnce
<1> HIDE DEF k
<1>5. Places'
  BY <1>1, <1>2, <1>3
     DEF Others, SignalInv, Places, HasRow, WritesIts, LogFirst, HolderIsAt
<1>6. HeldRow' /\ ProcessedOnce'
  BY <1>2, <1>3, <1>4 DEF SignalInv, Claims, HeldRow, ProcessedOnce, Places, HolderIsAt
<1>7. \A e \in holds' : Unmarked(e) => Unmarked(e)'
  BY <1>1, <1>3 DEF Others, Unmarked
<1>8. ClaimedIsUnmarked'
  BY <1>2, <1>3, <1>7 DEF SignalInv, Claims, ClaimedIsUnmarked, k
<1>9. ProcessedIsLogged'
  BY <1>2, <1>3 DEF SignalInv, Claims, ProcessedIsLogged, k
<1> QED
  BY <1>5, <1>6, <1>8, <1>9 DEF Claims

\* dbMarkSignalProcessed: the log is written, or still will be by the holder.
LEMMA MarkKeeps ==
  ASSUME SignalInv, NEW d \in Deliveries, Mark(d) PROVE Places' /\ Claims'
<1> DEFINE k == row(d)
<1>1. /\ k \in Keys
      /\ signals' = [signals EXCEPT ![k] = "processed"] /\ signals \in [Keys -> RowStates]
      /\ UNCHANGED <<log, abandoned, shared>>
  BY DEF Mark, Becomes, SignalInv, SignalTypeOK, Places, HasRow
<1>2. /\ WritesIts(d) /\ LogFirst(d) /\ (d \in holds => HolderIsAt(d)) /\ handler[d].ok
      /\ d \in holds \/ k \in shared
  BY NotFailed DEF Mark, SignalInv, Places, WritesIts
<1>3. CASE Provider[d] = "alchemy"
  <2>1. pc(d)' = "over" /\ handler'[d].ok /\ Others(d) /\ holds' = holds \ {d}
    BY <1>3, Ended, GoneOthers DEF Mark, SignalInv
  <2>2. \A e \in holds' : e \in holds /\ e \in Deliveries /\ e # d /\ row(e)' = row(e)
    BY <2>1 DEF Others, SignalInv, SignalTypeOK
  <2>3. Places'
    BY <1>1, <2>1, <2>2
       DEF Others, SignalInv, Places, HasRow, WritesIts, LogFirst, HolderIsAt
  <2>4. HeldRow' /\ ProcessedOnce'
    BY <1>1, <2>2 DEF SignalInv, Claims, HeldRow, ProcessedOnce, Places, HolderIsAt
  <2>5. \A e \in holds' : Unmarked(e) => Unmarked(e)'
    BY <2>1, <2>2 DEF Others, Unmarked
  <2>6. ClaimedIsUnmarked'
    BY <1>1, <2>1, <2>2, <2>5 DEF SignalInv, Claims, ClaimedIsUnmarked
  <2>7. ProcessedIsLogged'
    BY <1>1, <1>2, <1>3, <2>1, <2>2
       DEF SignalInv, Claims, ProcessedIsLogged, LogFirst, Mark
  <2> QED
    BY <2>3, <2>4, <2>6, <2>7 DEF Claims
<1>4. CASE Provider[d] # "alchemy"
  <2>1. /\ pc(d)' = "read" /\ row(d)' = k /\ handler'[d].ok /\ Others(d) /\ holds' = holds
    BY <1>2, <1>4, Gone, GoneOthers DEF Mark, SignalInv, Pcs
  <2>2. \A e \in holds : e \in Deliveries /\ row(e)' = row(e)
    BY <2>1 DEF Others, SignalInv, SignalTypeOK
  <2>3. Places'
    BY <1>1, <1>2, <1>4, <2>1, <2>2
       DEF Others, SignalInv, Places, HasRow, WritesIts, LogFirst, HolderIsAt
  <2>4. HeldRow' /\ ProcessedOnce'
    BY <1>1, <2>1, <2>2 DEF SignalInv, Claims, HeldRow, ProcessedOnce, Places, HolderIsAt
  <2>5. \A e \in holds \ {d} : Unmarked(e) => Unmarked(e)'
    BY <2>1, <2>2 DEF Others, Unmarked
  <2>6. ClaimedIsUnmarked'
    BY <1>1, <2>1, <2>2, <2>5 DEF SignalInv, Claims, ClaimedIsUnmarked
  <2>7. ProcessedIsLogged'
    BY <1>1, <1>2, <2>1, <2>2 DEF SignalInv, Claims, ProcessedIsLogged
  <2> QED
    BY <2>3, <2>4, <2>6, <2>7 DEF Claims
<1> QED
  BY <1>3, <1>4

-----------------------------------------------------------------------------

\* Every step keeps the invariant.
LEMMA InvStep == SignalInv /\ [Next]_vars => SignalInv'
<1> SUFFICES ASSUME SignalInv, [Next]_vars PROVE SignalInv'
  OBVIOUS
<1>1. SignalTypeOK'
  BY TypeStep
<1>2. CASE UNCHANGED vars
  BY <1>2 DEF vars, SignalInv, SignalTypeOK, Places, HasRow, WritesIts, LogFirst,
     HolderIsAt, Claims, HeldRow, ProcessedOnce, ClaimedIsUnmarked, Unmarked,
     ProcessedIsLogged, pc, row
<1>3. ASSUME NEW d \in Deliveries,
             (Proceeds(d) /\ UNCHANGED faults) \/ Throws(d) \/ Dies(d)
      PROVE  Places' /\ Claims'
  BY <1>1, <1>3, FindKeeps, ExistsKeeps, SelectKeeps, InsertKeeps, ClaimKeeps, SkipKeeps,
     EnrichKeeps, ReadLogKeeps, WriteLogKeeps, EvaluateKeeps, MarkKeeps, ThrowsKeeps,
     FailKeeps, DiesKeeps
     DEF Proceeds, ActivitySignal, RustNodeWebhook, Reconcile
<1> QED
  BY <1>1, <1>2, <1>3 DEF Next, SignalInv

\* In every state each delivery is where its row, the log and the claims say it
\* is: who may still write a row, and what was logged before it was marked.
THEOREM Invariant == Spec => []SignalInv
<1> QED
  BY InitInv, InvStep, PTL DEF Spec

\* The tables and the deliveries keep their types: what is stored of a
\* transaction are details, whoever reports it and whatever the chain says.
THEOREM TypeCorrect == Spec => []SignalTypeOK
<1>1. SignalInv => SignalTypeOK
  BY DEF SignalInv
<1> QED
  BY <1>1, Invariant, PTL

\* A row is processed by one delivery at a time, unless one found it by its
\* transaction and worked on it without a claim.
THEOREM RowProcessedOnce == Spec => []ProcessedOnce
<1>1. SignalInv => ProcessedOnce
  BY DEF SignalInv, Claims
<1> QED
  BY <1>1, Invariant, PTL

\* What is processed, and worked on by nobody, is in the log, unless a worker
\* died or the row was shared.
THEOREM RowProcessedIsLogged == Spec => []ProcessedIsLogged
<1>1. SignalInv => ProcessedIsLogged
  BY DEF SignalInv, Claims
<1> QED
  BY <1>1, Invariant, PTL

\* A claimed row has a delivery that will end it, unless its worker died.
THEOREM ClaimedIsHeld == Spec => []ClaimHeld
<1>1. SignalInv => ClaimHeld
  BY DEF SignalInv, Claims, ClaimedIsUnmarked, ClaimHeld
<1> QED
  BY <1>1, Invariant, PTL

\* A delivery that has read the current row of the log replaces it by details
\* that rank no lower.
THEOREM LogNeverWorse == Spec => LogKeepsDetail
<1> DEFINE Kept == log # NoLog /\ log' # log
                     => \/ Score(log'.details) >= Score(log.details)
                        \/ \E d \in Deliveries : WriteLog(d) /\ handler[d].seen # log
<1>1. SignalInv /\ [Next]_vars => [Kept]_vars
  <2> SUFFICES ASSUME SignalInv, Next, log # NoLog, log' # log PROVE Kept
    OBVIOUS
  <2>1. PICK d \in Deliveries : WriteLog(d)
    BY DEF Next, Proceeds, ActivitySignal, RustNodeWebhook, Reconcile, Find, Exists, Select,
       Insert, Claim, ClaimIf, Skip, Enrich, ReadLog, Evaluate, Mark, Throws, ThrowsTo,
       Fail, FailTo, Dies, tables
  <2>2. CASE handler[d].seen = log
    <3>1. handler[d] \in Handler /\ log \in LogRow \cup {NoLog}
      BY DEF SignalInv, SignalTypeOK
    <3>2. Score(log'.details) >= Score(log.details)
      BY <2>1, <2>2, <3>1, LoggedType DEF WriteLog, Handler
    <3> QED
      BY <3>2
  <2> QED
    BY <2>1, <2>2
<1> QED
  BY <1>1, Invariant, PTL DEF Spec, LogKeepsDetail
=============================================================================
