------------------------ MODULE RefreshLease_proofs ------------------------
(***************************************************************************)
(* Proofs about RefreshLease and the console over it (WebConsole), for any *)
(* number of requests, pages, edits and queries.                           *)
(*                                                                         *)
(* The lease is exclusive because only a stale or finished row is taken    *)
(* over: a request that works held the row once, and each step that takes  *)
(* the row from it either follows its expiry or is its own end.  LeaseInv  *)
(* says so of the row itself: what is stale has expired, what a poll will  *)
(* reset has expired, what completes has finished, and a completed row is  *)
(* the row of a request that is over.                                      *)
(*                                                                         *)
(* Each step of the console is a step of the lease or none, so all of that *)
(* holds of the console too.  Of the console itself: DraftInv is why no    *)
(* edit of the strategy is lost, ListInv why a list is of what is selected.*)
(***************************************************************************)
EXTENDS WebConsole, TLAPS

\* A row that was ever written is some request's.
RowIsHeld == row.status # "none" => row.id \in Requests

\* What a status poll or an UPSERT may take from a request has expired.
StaleExpired ==
    /\ row.status = "running" /\ row.stale => row.id \in expired
    /\ peek # NoRequest => peek \in expired

\* A request completes the row only after its work.
CompletesFinished == \A w \in Requests : req[w] = "complete" => w \in finished

\* The request in the row began, and is over once the row says completed.
HolderBegan ==
    /\ row.id \in Requests => req[row.id] # "new"
    /\ row.status = "completed" => req[row.id] = "over"

LeaseInv ==
    /\ TypeOK /\ RowIsHeld /\ StaleExpired /\ Exclusive
    /\ CompletesFinished /\ HolderBegan /\ OutcomeIsOwn

-----------------------------------------------------------------------------

\* The invariant holds at first.
LEMMA InitInv == Init => LeaseInv
  BY RequestAssumption
  DEF Init, LeaseInv, TypeOK, Row, Status, Pcs, RowIsHeld, StaleExpired,
      Exclusive, Working, CompletesFinished, HolderBegan, OutcomeIsOwn

\* Each step keeps the types, and the row of a request a request's.
LEMMA TypeStep == LeaseInv /\ [Next]_vars => TypeOK' /\ RowIsHeld'
<1> SUFFICES ASSUME TypeOK, RowIsHeld, [Next]_vars PROVE TypeOK' /\ RowIsHeld'
  BY DEF LeaseInv
<1> USE DEF TypeOK, RowIsHeld, Row, Status, Pcs, Goes
<1>1. ASSUME NEW w \in Requests, TryStart(w) PROVE TypeOK' /\ RowIsHeld'
  BY <1>1 DEF TryStart, Take
<1>2. ASSUME NEW w \in Requests, ReadBack(w) PROVE TypeOK' /\ RowIsHeld'
  <2>1. UNCHANGED <<kind, peek, finished, expired, cancelled>>
    BY <1>2 DEF ReadBack
  <2>2. req' \in [Requests -> Pcs]
    BY <1>2 DEF ReadBack
  <2>3. row' \in Row /\ RowIsHeld'
    BY <1>2 DEF ReadBack, End
  <2> QED
    BY <2>1, <2>2, <2>3
<1>3. ASSUME NEW w \in Requests, Check(w) PROVE TypeOK' /\ RowIsHeld'
  BY <1>3 DEF Check
<1>4. ASSUME NEW w \in Requests, WorkSucceeds(w) PROVE TypeOK' /\ RowIsHeld'
  BY <1>4 DEF WorkSucceeds
<1>5. ASSUME NEW w \in Requests, WorkThrows(w) PROVE TypeOK' /\ RowIsHeld'
  BY <1>5 DEF WorkThrows
<1>6. ASSUME NEW w \in Requests, Complete(w) PROVE TypeOK' /\ RowIsHeld'
  BY <1>6 DEF Complete, End
<1>7. ASSUME NEW w \in Requests, Fail(w) PROVE TypeOK' /\ RowIsHeld'
  BY <1>7 DEF Fail, End
<1>8. ASSUME NEW w \in Requests, Dies(w) PROVE TypeOK' /\ RowIsHeld'
  BY <1>8 DEF Dies
<1>9. ASSUME NEW w \in Requests, Cancel(w) PROVE TypeOK' /\ RowIsHeld'
  BY <1>9 DEF Cancel, End
<1>10. CASE Expire
  BY <1>10 DEF Expire
<1>11. CASE Poll
  BY <1>11 DEF Poll
<1>12. CASE Reset
  BY <1>12 DEF Reset, Holds
<1>13. CASE UNCHANGED vars
  BY <1>13 DEF vars
<1> QED
  BY <1>1, <1>2, <1>3, <1>4, <1>5, <1>6, <1>7, <1>8, <1>9, <1>10, <1>11,
     <1>12, <1>13 DEF Next, Proceeds

-----------------------------------------------------------------------------
(* What a step does to the row that a request holds.                        *)

\* Only an expiry, a cancel or the request's own end takes the row from it:
\* what else a step does, it leaves every other holder alone.
LEMMA ExclusiveStep == LeaseInv /\ [Next]_vars => Exclusive' /\ StaleExpired'
<1> SUFFICES ASSUME LeaseInv, [Next]_vars PROVE Exclusive' /\ StaleExpired'
  OBVIOUS
<1> USE DEF LeaseInv, Exclusive, StaleExpired, Working, Holds, Goes, TypeOK, Row,
            RowIsHeld, Status
<1>1. ASSUME NEW w \in Requests, TryStart(w) PROVE Exclusive' /\ StaleExpired'
  BY <1>1 DEF TryStart, Take
<1>2. ASSUME NEW w \in Requests, ReadBack(w) PROVE Exclusive' /\ StaleExpired'
  <2>1. CASE kind = "log" /\ row.status = "running" /\ row.stale
    BY <1>2, <2>1 DEF ReadBack, End
  <2>2. CASE ~(kind = "log" /\ row.status = "running" /\ row.stale)
    BY <1>2, <2>2 DEF ReadBack
  <2> QED
    BY <2>1, <2>2
<1>3. ASSUME NEW w \in Requests, Check(w) PROVE Exclusive' /\ StaleExpired'
  BY <1>3 DEF Check
<1>4. ASSUME NEW w \in Requests, WorkSucceeds(w) PROVE Exclusive' /\ StaleExpired'
  BY <1>4 DEF WorkSucceeds
<1>5. ASSUME NEW w \in Requests, WorkThrows(w) PROVE Exclusive' /\ StaleExpired'
  BY <1>5 DEF WorkThrows
<1>6. ASSUME NEW w \in Requests, Complete(w) PROVE Exclusive' /\ StaleExpired'
  BY <1>6 DEF Complete, End
<1>7. ASSUME NEW w \in Requests, Fail(w) PROVE Exclusive' /\ StaleExpired'
  BY <1>7 DEF Fail, End
<1>8. ASSUME NEW w \in Requests, Dies(w) PROVE Exclusive' /\ StaleExpired'
  BY <1>8 DEF Dies
<1>9. ASSUME NEW w \in Requests, Cancel(w) PROVE Exclusive' /\ StaleExpired'
  BY <1>9 DEF Cancel, End
<1>10. CASE Expire
  BY <1>10 DEF Expire
<1>11. CASE Poll
  BY <1>11 DEF Poll
<1>12. CASE Reset
  BY <1>12 DEF Reset
<1>13. CASE UNCHANGED vars
  BY <1>13 DEF vars
<1> QED
  BY <1>1, <1>2, <1>3, <1>4, <1>5, <1>6, <1>7, <1>8, <1>9, <1>10, <1>11,
     <1>12, <1>13 DEF Next, Proceeds

\* The row says completed only by the request's own last step.
LEMMA OwnStep ==
    LeaseInv /\ [Next]_vars => CompletesFinished' /\ HolderBegan' /\ OutcomeIsOwn'
<1> DEFINE Truthful == CompletesFinished /\ HolderBegan /\ OutcomeIsOwn
<1> SUFFICES ASSUME LeaseInv, [Next]_vars PROVE Truthful'
  OBVIOUS
<1> USE DEF LeaseInv, CompletesFinished, HolderBegan, OutcomeIsOwn, Holds, Goes,
            TypeOK, Row, RowIsHeld, Status
<1>1. ASSUME NEW w \in Requests, TryStart(w) PROVE Truthful'
  BY <1>1 DEF TryStart, Take
<1>2. ASSUME NEW w \in Requests, ReadBack(w) PROVE Truthful'
  <2>1. CASE kind = "log" /\ row.status = "running" /\ row.stale
    BY <1>2, <2>1 DEF ReadBack, End
  <2>2. CASE ~(kind = "log" /\ row.status = "running" /\ row.stale)
    BY <1>2, <2>2 DEF ReadBack
  <2> QED
    BY <2>1, <2>2
<1>3. ASSUME NEW w \in Requests, Check(w) PROVE Truthful'
  BY <1>3 DEF Check
<1>4. ASSUME NEW w \in Requests, WorkSucceeds(w) PROVE Truthful'
  BY <1>4 DEF WorkSucceeds
<1>5. ASSUME NEW w \in Requests, WorkThrows(w) PROVE Truthful'
  BY <1>5 DEF WorkThrows
<1>6. ASSUME NEW w \in Requests, Complete(w) PROVE Truthful'
  BY <1>6 DEF Complete, End
<1>7. ASSUME NEW w \in Requests, Fail(w) PROVE Truthful'
  BY <1>7 DEF Fail, End
<1>8. ASSUME NEW w \in Requests, Dies(w) PROVE Truthful'
  BY <1>8 DEF Dies
<1>9. ASSUME NEW w \in Requests, Cancel(w) PROVE Truthful'
  BY <1>9 DEF Cancel, End
<1>10. CASE Expire
  BY <1>10 DEF Expire
<1>11. CASE Poll
  BY <1>11 DEF Poll
<1>12. CASE Reset
  BY <1>12 DEF Reset
<1>13. CASE UNCHANGED vars
  BY <1>13 DEF vars
<1> QED
  BY <1>1, <1>2, <1>3, <1>4, <1>5, <1>6, <1>7, <1>8, <1>9, <1>10, <1>11,
     <1>12, <1>13 DEF Next, Proceeds

\* LeaseInv is inductive.
LEMMA StepInv == LeaseInv /\ [Next]_vars => LeaseInv'
  BY TypeStep, ExclusiveStep, OwnStep DEF LeaseInv

\* Every state of the lease keeps it.
LEMMA AlwaysInv == Spec => []LeaseInv
  BY InitInv, StepInv, PTL DEF Spec

-----------------------------------------------------------------------------

\* Every state of the specification has its type.
THEOREM TypeCorrect == Spec => []TypeOK
<1>1. LeaseInv => TypeOK
  BY DEF LeaseInv
<1> QED
  BY <1>1, AlwaysInv, PTL

\* A request that works holds the lease, unless it expired or was cancelled.
THEOREM LeaseExclusive == Spec => []Exclusive
<1>1. LeaseInv => Exclusive
  BY DEF LeaseInv
<1> QED
  BY <1>1, AlwaysInv, PTL

\* The row says completed only of a request whose own work succeeded.
THEOREM CompletedIsOwn == Spec => []OutcomeIsOwn
<1>1. LeaseInv => OutcomeIsOwn
  BY DEF LeaseInv
<1> QED
  BY <1>1, AlwaysInv, PTL

\* An outcome is overwritten only for a request that expired or was cancelled.
THEOREM ReportedIsStable == Spec => OutcomeStable
<1> DEFINE Stable ==
      row.status \in {"completed", "failed"} /\ row'.id = row.id
         => row'.status = row.status \/ row.id \in expired \cup cancelled'
<1>1. ASSUME LeaseInv, [Next]_vars PROVE [Stable]_vars
  <2> USE DEF LeaseInv, TypeOK, Row, Status, RowIsHeld, HolderBegan, Exclusive,
              Working, Holds, Goes
  <2>1. ASSUME NEW w \in Requests, TryStart(w) PROVE Stable
    BY <1>1, <2>1 DEF TryStart, Take
  <2>2. ASSUME NEW w \in Requests, ReadBack(w) PROVE Stable
    BY <1>1, <2>2 DEF ReadBack
  <2>3. ASSUME NEW w \in Requests, Complete(w) PROVE Stable
    BY <1>1, <2>3 DEF Complete, End
  <2>4. ASSUME NEW w \in Requests, Fail(w) PROVE Stable
    BY <1>1, <2>4 DEF Fail, End
  <2>5. ASSUME NEW w \in Requests, Cancel(w) PROVE Stable
    BY <1>1, <2>5 DEF Cancel, End
  <2>6. ASSUME NEW w \in Requests,
               Check(w) \/ WorkSucceeds(w) \/ WorkThrows(w) \/ Dies(w)
        PROVE  Stable
    BY <1>1, <2>6 DEF Check, WorkSucceeds, WorkThrows, Dies
  <2>7. CASE Expire \/ Poll \/ Reset
    BY <1>1, <2>7 DEF Expire, Poll, Reset
  <2>8. CASE UNCHANGED vars
    BY <2>8
  <2> QED
    BY <1>1, <2>1, <2>2, <2>3, <2>4, <2>5, <2>6, <2>7, <2>8 DEF Next, Proceeds
<1> QED
  BY <1>1, AlwaysInv, PTL DEF Spec, OutcomeStable
-----------------------------------------------------------------------------
(* The console.  What it shows of a refresh, and what it sends back when it *)
(* is closed, came from the row; so each of its steps is a step of the      *)
(* lease, or none.                                                          *)

\* A status of the row that a page may show.
Reports ==
    {s \in [id : Requests \cup {NoRequest}, status : Status] :
        s.status = "running" => s.id \in Requests}
Loading == [by : Loaders, doc : SUBSET Edits, seen : Reports, query : Queries,
            live : BOOLEAN]

PageTypes ==
    /\ part \in Parts /\ ready \in BOOLEAN /\ dirty \in BOOLEAN
    /\ doc \subseteq Edits /\ draft \subseteq Edits /\ sent \subseteq Edits
    /\ query \in Queries /\ loads \subseteq Loading
    /\ seen \in Reports \cup {Nothing} /\ posted \in Reports \cup {Nothing}
    /\ polled \in Reports \cup {Nothing}

\* No step of the console changes the lease but by an action of the lease.
LEMMA LeaseStep ==
  ASSUME PageTypes, [ConsoleNext]_allVars PROVE [Next]_vars
<1>1. ASSUME Elsewhere PROVE Next
  BY <1>1 DEF Elsewhere, Next, Proceeds
<1>2. ASSUME NEW w \in Requests, Press(w) \/ Answer(w) PROVE Next
  BY <1>2 DEF Press, Answer, Next, Proceeds
<1>3. ASSUME Hide PROVE Next
  <2>1. seen.id \in Requests
    BY <1>3 DEF Hide, Running, PageTypes, Reports
  <2> QED
    BY <1>3, <2>1 DEF Hide, Next
<1>4. ASSUME UNCHANGED allVars PROVE UNCHANGED vars
  BY <1>4 DEF allVars
<1>5. ASSUME Posted \/ PollStatus \/ PollArrives \/ PollFails PROVE UNCHANGED vars
  BY <1>5 DEF Posted, PollStatus, PollArrives, PollFails
<1>6. ASSUME DraftStep PROVE UNCHANGED vars
  BY <1>6 DEF DraftStep, Edit, Submit, ServerSaves, SaveAnswered, PairAnswered,
              AccountAnswered, Answered, DeleteAnswered, LogoutAnswered, SubmitFails
<1>7. ASSUME StateStep PROVE UNCHANGED vars
  BY <1>7 DEF StateStep, Open, PollState, BeginChain, StateArrives, StateFails
<1>8. ASSUME ListStep PROVE UNCHANGED vars
  BY <1>8 DEF ListStep, Select, Reload, RowsChange, Arrive, AskFails
<1> QED
  BY <1>1, <1>2, <1>3, <1>4, <1>5, <1>6, <1>7, <1>8 DEF ConsoleNext, StatusStep

\* What a page reads of the row is a status of it.
LEMMA ReadIsReport ==
  ASSUME TypeOK, RowIsHeld
  PROVE  Reported \in Reports /\ [id |-> row.id, status |-> row.status] \in Reports
  BY DEF TypeOK, Row, RowIsHeld, Reported, Reports

\* A load that begins is one of the loads of the page.
LEMMA LoadIsLoading ==
  ASSUME LeaseInv, PageTypes, NEW l \in Loaders
  PROVE  /\ Load(l) \in Loading /\ Load(l).by = l /\ Load(l).doc = doc
         /\ Load(l).query = query
<1>1. Reported \in Reports
  BY ReadIsReport DEF LeaseInv
<1> QED
  BY <1>1 DEF Load, Loading, PageTypes

\* The types of the page's variables are kept.
LEMMA PageTypesStep ==
  ASSUME LeaseInv, LeaseInv', PageTypes, [ConsoleNext]_allVars PROVE PageTypes'
<1> USE DEF PageTypes, draftVars, statusVars, listVars
<1>1. /\ Load("poll") \in Loading /\ Load("reload") \in Loading /\ Load("ended") \in Loading
      /\ Load("admin") \in Loading
  BY LoadIsLoading DEF Loaders
<1>2. ASSUME UNCHANGED <<part, ready, draftVars, seen, posted, polled, query>>,
             loads' \subseteq Loading
      PROVE  PageTypes'
  BY <1>2
<1>3. ASSUME NEW q \in Queries, Select(q) PROVE PageTypes'
  <2>1. ASSUME NEW x \in loads PROVE [x EXCEPT !.live = FALSE] \in Loading
    BY DEF Loading
  <2> QED
    BY <1>3, <2>1 DEF Select
<1>4. ASSUME Reload \/ RowsChange PROVE PageTypes'
  BY <1>4 DEF Reload, RowsChange
<1>5. ASSUME NEW a \in asks, Arrive(a) \/ AskFails(a) PROVE PageTypes'
  BY <1>5 DEF Arrive, AskFails
<1>6. ASSUME Open \/ PollState \/ BeginChain PROVE PageTypes'
  <2>1. CASE Open \/ PollState
    BY <1>1, <2>1 DEF Open, PollState, Reloads
  <2>2. CASE BeginChain
    <3>1. After[part] \in {"ended", "admin"}
      BY <2>2 DEF BeginChain, After
    <3> QED
      BY <1>1, <2>2, <3>1 DEF BeginChain
  <2> QED
    BY <1>6, <2>1, <2>2
<1>7. ASSUME NEW x \in loads, StateArrives(x) PROVE PageTypes'
  <2>1. x.doc \subseteq Edits /\ x.seen \in Reports
    BY DEF Loading
  <2> QED
    BY <1>7, <2>1 DEF StateArrives, SyncDraft
<1>8. ASSUME NEW x \in loads, StateFails(x) PROVE PageTypes'
  BY <1>8 DEF StateFails
<1>9. ASSUME NEW e \in Edits, Edit(e) PROVE PageTypes'
  BY <1>9 DEF Edit
<1>10. ASSUME NEW name, Submit(name) PROVE PageTypes'
  BY <1>10 DEF Submit
<1>11. ASSUME ServerSaves PROVE PageTypes'
  BY <1>11 DEF ServerSaves
<1>12. ASSUME SaveAnswered \/ PairAnswered \/ AccountAnswered PROVE PageTypes'
  BY <1>1, <1>12 DEF SaveAnswered, PairAnswered, AccountAnswered, Answered, Reloads
<1>13. ASSUME DeleteAnswered PROVE PageTypes'
  BY <1>1, <1>13 DEF DeleteAnswered, Reloads
<1>14. ASSUME LogoutAnswered PROVE PageTypes'
  BY <1>14 DEF LogoutAnswered
<1>15. ASSUME SubmitFails PROVE PageTypes'
  BY <1>15 DEF SubmitFails
<1>16. ASSUME NEW w \in Requests, Press(w) PROVE PageTypes'
  BY <1>16 DEF Press
<1>17. ASSUME NEW w \in Requests, Answer(w) PROVE PageTypes'
  <2>1. [id |-> row.id, status |-> row.status]' \in Reports
    BY DEF LeaseInv, TypeOK, Row, RowIsHeld, Reports
  <2> QED
    BY <1>17, <2>1 DEF Answer
<1>18. ASSUME Posted PROVE PageTypes'
  BY <1>18 DEF Posted
<1>19. ASSUME PollStatus PROVE PageTypes'
  <2>1. Reported \in Reports
    BY ReadIsReport DEF LeaseInv
  <2> QED
    BY <1>19, <2>1 DEF PollStatus
<1>20. ASSUME PollArrives PROVE PageTypes'
  BY <1>1, <1>20 DEF PollArrives
<1>21. ASSUME PollFails \/ Hide PROVE PageTypes'
  BY <1>21 DEF PollFails, Hide
<1>22. ASSUME Elsewhere \/ UNCHANGED allVars PROVE PageTypes'
  BY <1>22 DEF Elsewhere, pageVars, allVars
<1> QED
  BY <1>3, <1>4, <1>5, <1>6, <1>7, <1>8, <1>9, <1>10, <1>11, <1>12, <1>13, <1>14, <1>15,
     <1>16, <1>17, <1>18, <1>19, <1>20, <1>21, <1>22
     DEF ConsoleNext, ListStep, StateStep, DraftStep, StatusStep

\* The types of the page and the invariant of the lease go together.
LEMMA ConsoleTypes == ConsoleSpec => [](LeaseInv /\ PageTypes)
<1>1. ASSUME ConsoleInit PROVE LeaseInv /\ PageTypes
  <2>1. LeaseInv
    BY <1>1, InitInv DEF ConsoleInit
  <2>2. PageTypes
    BY <1>1 DEF ConsoleInit, PageTypes
  <2> QED
    BY <2>1, <2>2
<1>2. ASSUME LeaseInv, PageTypes, [ConsoleNext]_allVars PROVE (LeaseInv /\ PageTypes)'
  <2>1. [Next]_vars
    BY <1>2, LeaseStep
  <2>2. LeaseInv'
    BY <1>2, <2>1, StepInv
  <2> QED
    BY <1>2, <2>2, PageTypesStep
<1> QED
  BY <1>1, <1>2, PTL DEF ConsoleSpec

\* The console drives the lease by the lease's own actions only, so what is
\* proved of Spec holds of the console: pressing the button, polling and closing
\* the page add nothing.
THEOREM ConsoleUsesLease == ConsoleSpec => Spec
<1>1. ConsoleInit => Init
  BY DEF ConsoleInit
<1>2. PageTypes /\ [ConsoleNext]_allVars => [Next]_vars
  BY LeaseStep
<1> QED
  BY <1>1, <1>2, ConsoleTypes, PTL DEF ConsoleSpec, Spec
-----------------------------------------------------------------------------
(* The draft.                                                               *)

\* What may be lost: edits made during a save, and those that an older state
\* took from the draft.
Free == tardy \cup reverted

\* Who is under way where: the actions on the draft only on its part of the
\* page, a reload only once.
Acting ==
    /\ submitting \in Kept \cup {"save", "delete", "logout"} => part = "draft" /\ ready
    /\ part = "refresh" => ready /\ submitting # "reload"
    /\ part # "refresh" => asker = NoRequest
    /\ part # "draft" => doc = {} /\ draft = {} /\ sent = {} /\ \A x \in loads : x.doc = {}
    /\ ~ready => ~dirty
    /\ \A x \in loads : x.by = "reload" => submitting = "reload" /\ x.doc = doc
    /\ \A x, y \in loads : x.by = "reload" /\ y.by = "reload" => x = y

\* The server and the draft agree up to what is free, once the page is ready;
\* a save sends what the draft holds, and a state read earlier has no more than
\* the server has now.
Agree ==
    /\ \A x \in loads : x.doc \subseteq doc \cup Free
    /\ ready => doc \subseteq draft \cup Free
    /\ ~dirty => draft \subseteq doc \cup Free
    /\ submitting = "save" => /\ doc \subseteq sent \cup Free
                              /\ draft \subseteq sent \cup Free
                              /\ sent \subseteq draft \cup Free

DraftInv == PageTypes /\ Acting /\ Agree

Lossless ==
    /\ ready' => draft \ draft' \subseteq doc' \cup Free
    /\ doc \ doc' \subseteq Free

\* Steps that leave the draft, the document and the page's readiness alone, and
\* load nothing new but the document as it is.
LEMMA DraftUntouched ==
  ASSUME DraftInv, UNCHANGED <<part, ready, draftVars>>,
         asker' = asker \/ part = "refresh",
         part = "refresh" => submitting' # "reload",
         submitting' \notin Kept \cup {"save", "delete", "logout"} \/ submitting' = submitting,
         \A x \in loads' : (\E y \in loads : x.doc = y.doc /\ x.by = y.by)
                           \/ x.doc = doc,
         \A x \in loads' : x.by = "reload" => submitting' = "reload",
         \A x, y \in loads' : x.by = "reload" /\ y.by = "reload" => x = y
  PROVE  Acting' /\ Agree' /\ Lossless
<1>1. UNCHANGED <<part, ready, doc, draft, dirty, sent, tardy, reverted>> /\ UNCHANGED Free
  BY DEF draftVars, Free
<1>2. Acting'
  BY <1>1 DEF DraftInv, Acting
<1>3. Agree'
  BY <1>1 DEF DraftInv, Agree
<1> QED
  BY <1>1, <1>2, <1>3 DEF Lossless
\* A list, a poll, an answer to a poll and the lease leave the draft alone.
LEMMA DraftElsewhere ==
  ASSUME LeaseInv, DraftInv,
         \/ ListStep \/ StatusStep \/ Elsewhere \/ PollState \/ BeginChain
         \/ \E x \in loads : StateFails(x)
         \/ SubmitFails
         \/ UNCHANGED allVars
  PROVE  Acting' /\ Agree' /\ Lossless
<1> USE DEF DraftInv
<1> DEFINE Same == Acting' /\ Agree' /\ Lossless
<1>1. /\ \A x, y \in loads : x.by = "reload" /\ y.by = "reload" => x = y
      /\ \A x \in loads : x.by = "reload" => submitting = "reload"
      /\ part = "refresh" => submitting # "reload"
  BY DEF Acting
<1>2. ASSUME UNCHANGED <<part, ready, draftVars, asker, submitting, loads>> PROVE Same
  BY <1>1, <1>2, DraftUntouched
<1>3. ASSUME NEW q \in Queries, Select(q) PROVE Same
  <2>1. UNCHANGED <<part, ready, draftVars, asker, submitting>>
    BY <1>3 DEF Select, statusVars
  <2>2. loads' = {[x EXCEPT !.live = FALSE] : x \in loads}
    BY <1>3 DEF Select
  <2>3. ASSUME NEW x \in loads
        PROVE  [x EXCEPT !.live = FALSE].doc = x.doc /\ [x EXCEPT !.live = FALSE].by = x.by
    BY DEF PageTypes, Loading
  <2>4. \A x \in loads' : \E y \in loads :
           x.doc = y.doc /\ x.by = y.by /\ x = [y EXCEPT !.live = FALSE]
    BY <2>2, <2>3
  <2>5. \A x \in loads' : x.by = "reload" => submitting' = "reload"
    BY <1>1, <2>1, <2>4
  <2>6. ASSUME NEW x \in loads', NEW y \in loads', x.by = "reload", y.by = "reload"
        PROVE  x = y
    <3>1. PICK u \in loads : x.by = u.by /\ x = [u EXCEPT !.live = FALSE]
      BY <2>4
    <3>2. PICK v \in loads : y.by = v.by /\ y = [v EXCEPT !.live = FALSE]
      BY <2>4
    <3>3. u = v
      BY <1>1, <2>6, <3>1, <3>2
    <3> QED
      BY <3>1, <3>2, <3>3
  <2> QED
    BY <1>1, <2>1, <2>4, <2>5, <2>6, DraftUntouched
<1>4. ASSUME Reload \/ RowsChange PROVE Same
  BY <1>2, <1>4 DEF Reload, RowsChange, statusVars
<1>5. ASSUME NEW a \in asks, Arrive(a) \/ AskFails(a) PROVE Same
  BY <1>2, <1>5 DEF Arrive, AskFails, statusVars
<1>6. ASSUME NEW l \in {"poll", "ended", "admin"}, loads' = loads \cup {Load(l)},
             UNCHANGED <<part, ready, draftVars, asker, submitting>>
      PROVE  Same
  <2>1. Load(l).by = l /\ Load(l).doc = doc
    BY LoadIsLoading DEF Loaders
  <2>2. \A x \in loads' : x \in loads \/ (x.by # "reload" /\ x.doc = doc)
    BY <1>6, <2>1
  <2> QED
    BY <1>1, <1>6, <2>2, DraftUntouched
<1>7. ASSUME PollState \/ BeginChain PROVE Same
  <2>1. CASE PollState
    BY <1>6, <2>1 DEF PollState, statusVars
  <2>2. CASE BeginChain
    <3>1. After[part] \in {"poll", "ended", "admin"}
      BY <2>2 DEF BeginChain, After
    <3> QED
      BY <1>6, <2>2, <3>1 DEF BeginChain, statusVars
  <2> QED
    BY <1>7, <2>1, <2>2
<1>8. ASSUME PollArrives PROVE Same
  BY <1>2, <1>6, <1>8 DEF PollArrives
<1>9. ASSUME NEW x \in loads, StateFails(x) PROVE Same
  <2>1. /\ UNCHANGED <<part, ready, draftVars, asker>> /\ loads' = loads \ {x}
        /\ submitting' = IF x.by = "reload" THEN "none" ELSE submitting
    BY <1>9 DEF StateFails, statusVars
  <2>2. /\ \A z \in loads' : z.by = "reload" => submitting' = "reload"
        /\ \A z, y \in loads' : z.by = "reload" /\ y.by = "reload" => z = y
    BY <1>1, <2>1
  <2>3. submitting' \notin Kept \cup {"save", "delete", "logout"} \/ submitting' = submitting
    BY <2>1 DEF Kept
  <2> QED
    BY <1>1, <2>1, <2>2, <2>3, DraftUntouched
<1>10. ASSUME SubmitFails PROVE Same
  <2>1. /\ UNCHANGED <<part, ready, draftVars, asker, loads>> /\ submitting' = "none"
        /\ submitting # "reload"
    BY <1>10 DEF SubmitFails, statusVars, Kept
  <2>2. \A x \in loads : x.by # "reload"
    BY <1>1, <2>1
  <2> QED
    BY <2>1, <2>2, DraftUntouched DEF Kept
<1>11. ASSUME part = "refresh", UNCHANGED <<part, ready, draftVars>>, loads' \subseteq loads,
              submitting' \in {submitting, "none", "refresh"}
       PROVE  Same
  <2>1. \A x \in loads : x.by # "reload"
    BY <1>1, <1>11
  <2> QED
    BY <1>1, <1>11, <2>1, DraftUntouched DEF Kept
<1>12. ASSUME NEW w \in Requests, Press(w) \/ Answer(w) PROVE Same
  BY <1>11, <1>12 DEF Press, Answer
<1>13. ASSUME PollStatus \/ PollFails PROVE Same
  BY <1>2, <1>13 DEF PollStatus, PollFails
<1>14. ASSUME Posted PROVE Same
  <2>1. part = "refresh"
    BY <1>14 DEF Posted, Acting
  <2> QED
    BY <1>11, <1>14, <2>1 DEF Posted
<1>15. ASSUME Hide PROVE Same
  BY <1>11, <1>15 DEF Hide
<1>16. ASSUME Elsewhere \/ UNCHANGED allVars PROVE Same
  <2>1. UNCHANGED pageVars
    BY <1>16 DEF Elsewhere, allVars
  <2> QED
    BY <1>2, <2>1 DEF pageVars, statusVars
<1> QED
  BY <1>3, <1>4, <1>5, <1>7, <1>8, <1>9, <1>10, <1>12, <1>13, <1>14, <1>15, <1>16
     DEF ListStep, StatusStep

\* The steps that do touch it.
LEMMA DraftSteps ==
  ASSUME LeaseInv, DraftInv,
         \/ \E e \in Edits : Edit(e)
         \/ \E name \in Kept \cup {"save", "delete", "logout"} : Submit(name)
         \/ ServerSaves \/ SaveAnswered \/ PairAnswered \/ AccountAnswered
         \/ DeleteAnswered \/ LogoutAnswered \/ Open
         \/ \E x \in loads : StateArrives(x)
  PROVE  Acting' /\ Agree' /\ Lossless
<1> DEFINE Same == Acting' /\ Agree' /\ Lossless
<1> USE DEF DraftInv, statusVars
<1>1. Load("reload").by = "reload" /\ Load("reload").doc = doc
  BY LoadIsLoading DEF Loaders
<1>2. ASSUME NEW e \in Edits, Edit(e) PROVE Same
  <2>1. /\ UNCHANGED <<part, submitting, loads, ready, doc, sent, reverted, asker>>
        /\ ready /\ part = "draft" /\ dirty' = TRUE /\ draft' = draft \cup {e}
        /\ tardy \subseteq tardy' /\ (submitting = "save" => e \in tardy')
    BY <1>2 DEF Edit
  <2>2. Acting'
    BY <2>1 DEF Acting
  <2>3. Agree'
    BY <2>1 DEF Agree, Free
  <2> QED
    BY <2>1, <2>2, <2>3 DEF Lossless
<1>3. ASSUME NEW name \in Kept \cup {"save", "delete", "logout"}, Submit(name) PROVE Same
  <2>1. /\ UNCHANGED <<part, loads, ready, doc, draft, dirty, tardy, reverted, asker>>
        /\ part = "draft" /\ ready /\ submitting = "none" /\ submitting' = name
        /\ sent' = IF name = "save" THEN draft ELSE sent
    BY <1>3 DEF Submit
  <2>2. Acting'
    BY <2>1 DEF Acting
  <2>3. Agree'
    BY <2>1 DEF Agree, Free
  <2> QED
    BY <2>1, <2>2, <2>3 DEF Lossless
<1>4. ASSUME ServerSaves PROVE Same
  <2>1. /\ UNCHANGED <<part, submitting, loads, ready, draft, dirty, sent, tardy, reverted, asker>>
        /\ submitting = "save" /\ doc' = sent
    BY <1>4 DEF ServerSaves
  <2>2. Acting'
    BY <2>1 DEF Acting
  <2>3. Agree'
    BY <2>1 DEF Agree, Free, Acting
  <2> QED
    BY <2>1, <2>2, <2>3 DEF Lossless, Free, Agree
<1>5. ASSUME Reloads, submitting # "reload", part # "refresh", dirty' \in BOOLEAN,
             UNCHANGED <<part, ready, doc, sent, tardy, reverted, asker>>,
             draft \subseteq draft', draft' = draft \/ (dirty' /\ part = "draft"),
             dirty' => dirty \/ ready, ~dirty' => draft' \subseteq doc \cup Free
      PROVE  Same
  <2>1. submitting' = "reload" /\ loads' = loads \cup {Load("reload")}
    BY <1>5 DEF Reloads
  <2>2. \A x \in loads : x.by # "reload"
    BY <1>5 DEF Acting
  <2>3. Acting'
    BY <1>1, <1>5, <2>1, <2>2 DEF Acting, Kept
  <2>4. Agree'
    BY <1>1, <1>5, <2>1 DEF Agree, Free
  <2> QED
    BY <1>5, <2>3, <2>4 DEF Lossless
<1>6. ASSUME SaveAnswered PROVE Same
  <2>1. Reloads /\ submitting = "save" /\ doc = sent /\ dirty' = FALSE
        /\ UNCHANGED <<part, ready, doc, draft, sent, tardy, reverted, asker>>
    BY <1>6 DEF SaveAnswered
  <2>2. part = "draft" /\ draft \subseteq doc \cup Free
    BY <2>1 DEF Acting, Agree
  <2> QED
    BY <1>5, <2>1, <2>2
<1>7. ASSUME PairAnswered \/ AccountAnswered PROVE Same
  <2>1. Reloads /\ submitting \in Kept
        /\ UNCHANGED <<part, ready, doc, draft, dirty, sent, tardy, reverted, asker>>
    BY <1>7 DEF PairAnswered, AccountAnswered, Answered, Kept, draftVars
  <2>2. part = "draft" /\ ready /\ submitting # "reload" /\ dirty \in BOOLEAN
    BY <2>1 DEF Acting, PageTypes, Kept
  <2>3. ~dirty => draft \subseteq doc \cup Free
    BY DEF Agree
  <2> QED
    BY <1>5, <2>1, <2>2, <2>3
<1>8. ASSUME DeleteAnswered PROVE Same
  <2>1. Reloads /\ submitting = "delete"
        /\ UNCHANGED <<part, ready, doc, sent, tardy, reverted, asker>>
        /\ \/ draft \subseteq draft' /\ dirty' = TRUE
           \/ UNCHANGED <<draft, dirty>>
    BY <1>8 DEF DeleteAnswered
  <2>2. part = "draft" /\ ready /\ dirty \in BOOLEAN
    BY <2>1 DEF Acting, PageTypes
  <2>3. ~dirty => draft \subseteq doc \cup Free
    BY DEF Agree
  <2> QED
    BY <1>5, <2>1, <2>2, <2>3
<1>9. ASSUME LogoutAnswered PROVE Same
  <2>1. /\ UNCHANGED <<part, loads, doc, sent, tardy, reverted, asker>>
        /\ submitting = "logout" /\ submitting' = "none" /\ dirty' = FALSE
        /\ draft' = {} /\ ready' = FALSE
    BY <1>9 DEF LogoutAnswered
  <2>2. part = "draft" /\ \A x \in loads : x.by # "reload"
    BY <2>1 DEF Acting
  <2>3. Acting'
    BY <2>1, <2>2 DEF Acting, Kept
  <2>4. Agree'
    BY <2>1 DEF Agree, Free
  <2> QED
    BY <2>1, <2>3, <2>4 DEF Lossless
<1>10. ASSUME Open PROVE Same
  <2>1. Reloads /\ submitting = "none" /\ ~ready
        /\ UNCHANGED <<part, ready, doc, draft, dirty, sent, tardy, reverted, asker>>
    BY <1>10 DEF Open, draftVars
  <2>2. part # "refresh" /\ dirty \in BOOLEAN
    BY <2>1 DEF Acting, PageTypes
  <2>3. ~dirty => draft \subseteq doc \cup Free
    BY DEF Agree
  <2> QED
    BY <1>5, <2>1, <2>2, <2>3
<1>11. ASSUME NEW x \in loads, StateArrives(x) PROVE Same
  <2>1. /\ UNCHANGED <<part, doc, dirty, sent, tardy, asker>>
        /\ loads' = loads \ {x}
        /\ SyncDraft(x.doc)
        /\ ready' = (ready \/ x.by = "reload")
        /\ submitting' = IF x.by = "reload" THEN "none" ELSE submitting
    BY <1>11 DEF StateArrives
  <2>2. x.doc \subseteq doc \cup Free /\ (part # "draft" => x.doc = {} /\ doc = {})
    BY DEF Agree, Acting
  <2>3. x.by = "reload" => x.doc = doc /\ submitting = "reload"
    BY DEF Acting
  <2>4. Acting'
    BY <2>1, <2>2, <2>3 DEF Acting, SyncDraft, Kept
  <2>5. Agree'
    BY <2>1, <2>2, <2>3 DEF Agree, Free, SyncDraft, Acting
  <2>6. Lossless
    BY <2>1 DEF Agree, Free, SyncDraft, Lossless
  <2> QED
    BY <2>4, <2>5, <2>6
<1> QED
  BY <1>2, <1>3, <1>4, <1>6, <1>7, <1>8, <1>9, <1>10, <1>11

\* Every step keeps the drafts, and takes away none that is not saved.
LEMMA DraftAlways ==
  ASSUME LeaseInv, PageTypes', DraftInv, [ConsoleNext]_allVars PROVE DraftInv' /\ Lossless
<1>1. \/ ListStep \/ StatusStep \/ Elsewhere \/ UNCHANGED allVars
      \/ StateStep \/ DraftStep
  BY DEF ConsoleNext
<1> QED
  BY <1>1, DraftElsewhere, DraftSteps DEF StateStep, DraftStep, DraftInv

\* handleSaveConfig clears the mark of an edited draft when the answer comes, and
\* the reload then replaces the draft.  For any number of edits, loads in any
\* order and actions: what leaves the draft is on the server, unless it was
\* edited during a save or an older state had taken it from the draft before.
THEOREM NoEditIsLost == ConsoleSpec => EditsKept
<1> DEFINE Kept1 == LET free == tardy \cup reverted IN
                       /\ ready' => draft \ draft' \subseteq doc' \cup free
                       /\ doc \ doc' \subseteq free
<1>1. ASSUME ConsoleInit PROVE DraftInv
  <2>1. PageTypes
    BY <1>1 DEF ConsoleInit, PageTypes
  <2>2. Acting
    BY <1>1 DEF ConsoleInit, Acting, Kept
  <2>3. Agree
    BY <1>1 DEF ConsoleInit, Agree
  <2> QED
    BY <2>1, <2>2, <2>3 DEF DraftInv
<1>2. LeaseInv /\ PageTypes' /\ DraftInv /\ [ConsoleNext]_allVars => DraftInv'
  BY DraftAlways
<1>3. LeaseInv /\ PageTypes' /\ DraftInv /\ [ConsoleNext]_allVars => [Kept1]_allVars
  BY DraftAlways DEF Lossless, Free
<1>4. ConsoleSpec => []DraftInv
  BY <1>1, <1>2, ConsoleTypes, PTL DEF ConsoleSpec
<1>5. [][Kept1]_allVars => EditsKept
  BY PTL DEF EditsKept
<1> QED
  BY <1>3, <1>4, <1>5, ConsoleTypes, PTL DEF ConsoleSpec

-----------------------------------------------------------------------------
(* The lists.                                                               *)

Pages == [query : Queries, rows : 0 .. MaxRows]
Asks == [n : Nat, page : Pages, unchanged : BOOLEAN, after : BOOLEAN]

ListTypes ==
    /\ part \in Parts /\ ready \in BOOLEAN /\ query \in Queries /\ rows \in 0 .. MaxRows
    /\ asked \in Nat /\ failed \in Nat /\ crossed \in BOOLEAN /\ strayed \in BOOLEAN
    /\ asks \subseteq Asks
    /\ shown \in Pages \cup {Nothing} /\ meta \in Pages \cup {Nothing}
    /\ submitting = "logout" => part = "draft"

\* Each request has a number of its own, none after the last.
Numbered ==
    /\ \A a \in asks : a.n <= asked
    /\ \A a, b \in asks : a.n = b.n => a = b
    /\ failed <= asked

\* Only the holders' page sends a token, so only they may be unchanged; the profit
\* is asked for again only when it came, so that it is told from its own query.
Separate ==
    /\ part # "holders" => meta = Nothing /\ \A a \in asks : ~a.unchanged
    /\ part \in Guarded /\ ~ready => shown = Nothing
    /\ part \notin Lists => shown = Nothing /\ asks = {}
    /\ part = "profit" => shown = Nothing \/ shown.query = query

\* A load whose function is still the page's will ask for what is selected.
Current == \A x \in loads : x.live => x.query = query

\* The last request asks for what is selected, or has strayed.
AskedLast ==
    /\ \A a \in asks : a.n = asked => part = "profit" \/ strayed \/ a.page.query = query
    /\ part \in {"logs", "profit"} => ~strayed

\* While requests do not cross there is one at a time, the last.
OneAsk == ~crossed => \A a \in asks : a.n = asked

\* Of the holders, what the page holds is what its token is of, and an answer
\* that they are unchanged is about that.
TokenIsShown ==
    ~crossed => meta \in {Nothing, shown} /\ \A a \in asks : a.unchanged => meta = a.page

ShownIsAsked ==
    (part \in Guarded \/ ~crossed) /\ part # "profit" /\ ~strayed /\ LastAnswered
        => shown = Nothing \/ shown.query = query

ListInv ==
    /\ ListTypes /\ Numbered /\ Separate /\ Current /\ AskedLast /\ OneAsk
    /\ TokenIsShown /\ ShownIsAsked

\* What the lists keep says what they promise.
LEMMA ListInvImplies == ListInv => ListIsAsked
  BY DEF ListInv, Separate, TokenIsShown, ShownIsAsked, LastAnswered, AskedLast, ListIsAsked, Guarded

\* Steps that leave the lists alone.
LEMMA ListUntouched ==
  ASSUME ListInv, UNCHANGED <<part, listVars>>, ready' = ready \/ part \notin Guarded,
         ready' \in BOOLEAN, submitting' = "logout" => part = "draft",
         \A x \in loads' : x \in loads \/ x.query = query
  PROVE  ListInv'
<1> USE DEF listVars, askVars
<1>1. ListTypes'
  BY DEF ListInv, ListTypes
<1>2. Separate'
  BY DEF ListInv, Separate
<1>3. Numbered' /\ AskedLast' /\ OneAsk' /\ TokenIsShown' /\ ShownIsAsked'
  BY DEF ListInv, Numbered, AskedLast, OneAsk, TokenIsShown, ShownIsAsked, LastAnswered
<1>4. Current'
  BY DEF ListInv, Current
<1> QED
  BY <1>1, <1>2, <1>3, <1>4 DEF ListInv

\* What a request for a list of query q finds, and what it is numbered.
LEMMA AskServed ==
  ASSUME ListTypes, NEW q \in Queries, NEW after \in BOOLEAN
  PROVE  LET a == Served(asked + 1, q, after)
         IN  /\ a \in Asks /\ a.n = asked + 1 /\ a.page = Page(q) /\ a.page.query = q
             /\ a.unchanged => meta = a.page
             /\ Page(q) \in Pages /\ Page(q) # Nothing
<1>1. Page(q) \in Pages /\ Page(q).query = q /\ asked + 1 \in Nat
  BY DEF Page, Pages, ListTypes
<1>2. Page(q) # Nothing
  BY <1>1, ConsoleAssumption DEF Pages
<1> HIDE DEF Page
<1>3. Unchanged(q) \in BOOLEAN /\ (Unchanged(q) => meta = Page(q))
  BY DEF Unchanged, ChangeToken
<1> QED
  BY <1>1, <1>2, <1>3 DEF Served, Asks

\* A request for query q, which is selected from then on or which strays.
LEMMA AskKeeps ==
  ASSUME ListInv, NEW q \in Queries, NEW after \in BOOLEAN, Ask(q, after),
         query' = IF after THEN query ELSE q,
         part \in Lists, part \in {"logs", "profit"} => query' = q,
         UNCHANGED <<part, rows, meta, failed>>, ready' \in BOOLEAN, ready => ready',
         shown' \in {Nothing, shown}, part = "holders" => shown' = shown,
         part = "profit" /\ q # query => shown' = Nothing,
         submitting' = "logout" => part = "draft", Current'
  PROVE  ListInv'
<1> DEFINE new == Served(asked + 1, q, after)
<1>1. /\ new \in Asks /\ new.n = asked + 1 /\ new.page.query = q
      /\ new.unchanged => meta = new.page
      /\ new.page # Nothing
  BY AskServed DEF ListInv
<1>2. /\ ListTypes /\ Numbered /\ Separate /\ AskedLast /\ OneAsk /\ TokenIsShown
      /\ asked \in Nat /\ \A a \in asks : a.n \in Nat
  BY DEF ListInv, ListTypes, Asks
<1>3. CASE part = "profit" /\ asks # {}
  <2>1. UNCHANGED <<asked, asks, crossed, strayed>>
    BY <1>3 DEF Ask, askVars
  <2>2. ListTypes' /\ Numbered' /\ AskedLast' /\ OneAsk' /\ ShownIsAsked'
    BY <1>2, <1>3, <2>1 DEF ListTypes, Numbered, AskedLast, OneAsk, ShownIsAsked
  <2>3. Separate' /\ TokenIsShown'
    BY <1>2, <1>3, <2>1 DEF Separate, TokenIsShown, Guarded
  <2> QED
    BY <2>2, <2>3 DEF ListInv
<1>4. CASE ~(part = "profit" /\ asks # {})
  <2>1. /\ asked' = asked + 1 /\ asks' = asks \cup {new} /\ crossed' = (crossed \/ asks # {})
        /\ strayed' = (after /\ q # query)
    BY <1>4 DEF Ask
  <2> HIDE DEF new
  <2>2. ListTypes'
    BY <1>1, <1>2, <2>1 DEF ListTypes
  <2>3. Numbered'
    <3>1. \A a \in asks' : a = new \/ (a \in asks /\ a.n <= asked)
      BY <1>2, <2>1 DEF Numbered
    <3>2. \A a, b \in asks' : a.n = b.n => a = b
      BY <1>1, <1>2, <2>1, <3>1 DEF Numbered
    <3>3. \A a \in asks' : a.n <= asked'
      BY <1>1, <1>2, <2>1, <3>1
    <3>4. failed' <= asked'
      BY <1>2, <2>1 DEF Numbered, ListTypes
    <3> QED
      BY <3>2, <3>3, <3>4 DEF Numbered
  <2>4. AskedLast'
    <3>1. strayed' \/ query' = q
      BY <2>1
    <3>2. \A a \in asks' : a.n = asked' => a = new
      BY <1>1, <1>2, <2>1 DEF Numbered
    <3>3. part \in {"logs", "profit"} => ~strayed'
      BY <2>1
    <3> QED
      BY <1>1, <3>1, <3>2, <3>3 DEF AskedLast
  <2>5. OneAsk'
    BY <1>1, <2>1 DEF OneAsk
  <2>6. part # "holders" => ~new.unchanged
    BY <1>1, <1>2 DEF Separate
  <2>7. Separate'
    BY <1>2, <2>1, <2>6 DEF Separate, Guarded, Lists
  <2>8. TokenIsShown'
    BY <1>1, <1>2, <2>1 DEF TokenIsShown, Separate
  <2>9. ShownIsAsked'
    BY <1>1, <2>1 DEF ShownIsAsked, LastAnswered
  <2> QED
    BY <2>2, <2>3, <2>4, <2>5, <2>7, <2>8, <2>9 DEF ListInv
<1> QED
  BY <1>3, <1>4

\* A list's answer arrives,
LEMMA ArriveKeeps == ASSUME ListInv, NEW a \in asks, Arrive(a) PROVE ListInv'
<1>1. /\ asks' = asks \ {a}
      /\ shown' = IF Late(a) \/ OtherToken(a) \/ a.unchanged THEN shown ELSE a.page
      /\ meta' = IF part = "holders" THEN a.page ELSE meta
      /\ UNCHANGED <<part, submitting, loads, ready, query, rows, asked, failed, crossed, strayed>>
  BY DEF Arrive
<1>2. /\ ListTypes /\ Numbered /\ Separate /\ AskedLast /\ OneAsk /\ TokenIsShown /\ ShownIsAsked
      /\ a.page \in Pages /\ a.n \in Nat
  BY DEF ListInv, ListTypes, Asks
<1>3. ListTypes'
  BY <1>1, <1>2 DEF ListTypes
<1>4. Numbered' /\ AskedLast' /\ OneAsk' /\ Current'
  BY <1>1, <1>2 DEF Numbered, AskedLast, OneAsk, ListInv, Current
<1>5. Separate'
  BY <1>1, <1>2 DEF Separate, Late, OtherToken, Guarded, Lists, ListTypes
<1>6. TokenIsShown'
  <2> SUFFICES ASSUME ~crossed
               PROVE  meta' \in {Nothing, shown'} /\ \A b \in asks' : b.unchanged => meta' = b.page
    BY <1>1 DEF TokenIsShown
  <2>1. asks' = {}
    BY <1>1, <1>2 DEF OneAsk, Numbered
  <2>2. CASE part = "holders"
    <3>1. ~Late(a) /\ ~OtherToken(a) /\ meta' = a.page
      BY <1>1, <2>2 DEF Late, OtherToken, Guarded
    <3>2. a.unchanged => shown = a.page
      <4>1. a.page # Nothing
        BY <1>2, ConsoleAssumption DEF Pages
      <4> QED
        BY <1>2, <4>1 DEF TokenIsShown
    <3> QED
      BY <1>1, <2>1, <3>1, <3>2
  <2>3. CASE part # "holders"
    BY <1>1, <1>2, <2>1, <2>3 DEF Separate
  <2> QED
    BY <2>2, <2>3
<1>7. ShownIsAsked'
  <2> SUFFICES ASSUME part \in Guarded \/ ~crossed, part # "profit", ~strayed, failed # asked,
                      \A b \in asks' : b.n # asked
               PROVE  shown' = Nothing \/ shown'.query = query
    BY <1>1 DEF ShownIsAsked, LastAnswered
  <2>1. CASE a.n = asked
    <3>1. a.page.query = query
      BY <1>2, <2>1 DEF AskedLast
    <3>2. a.unchanged => ~crossed /\ shown = a.page
      <4>1. a.page # Nothing
        BY <1>2, ConsoleAssumption DEF Pages
      <4> QED
        BY <1>2, <4>1 DEF TokenIsShown, Separate, Guarded
    <3>3. Late(a) => shown = Nothing
      BY <1>2, <2>1 DEF Late, Separate
    <3> QED
      BY <1>1, <3>1, <3>2, <3>3 DEF OtherToken
  <2>2. CASE a.n # asked
    <3>1. part \in Guarded /\ Late(a)
      BY <1>2, <2>2 DEF OneAsk, Late
    <3>2. LastAnswered
      BY <1>1, <2>2 DEF LastAnswered
    <3> QED
      BY <1>1, <1>2, <3>1, <3>2 DEF ShownIsAsked
  <2> QED
    BY <2>1, <2>2
<1> QED
  BY <1>3, <1>4, <1>5, <1>6, <1>7 DEF ListInv

\* or its request fails.
LEMMA AskFailsKeeps == ASSUME ListInv, NEW a \in asks, AskFails(a) PROVE ListInv'
<1>1. /\ asks' = asks \ {a}
      /\ shown' = IF part \in {"accounts", "holders"} THEN Nothing ELSE shown
      /\ meta' = Nothing
      /\ failed' = IF a.n > failed THEN a.n ELSE failed
      /\ UNCHANGED <<part, submitting, loads, ready, query, rows, asked, crossed, strayed>>
  BY DEF AskFails
<1>2. /\ ListTypes /\ Numbered /\ Separate /\ AskedLast /\ OneAsk /\ TokenIsShown /\ ShownIsAsked
      /\ a.n \in Nat /\ a.n <= asked /\ failed \in Nat /\ failed <= asked /\ asked \in Nat
  BY DEF ListInv, ListTypes, Asks, Numbered
<1>3. ListTypes'
  BY <1>1, <1>2 DEF ListTypes
<1>4. Numbered' /\ AskedLast' /\ OneAsk' /\ Current'
  BY <1>1, <1>2 DEF Numbered, AskedLast, OneAsk, ListInv, Current
<1>5. Separate'
  BY <1>1, <1>2 DEF Separate, Guarded
<1>6. TokenIsShown'
  <2>1. ~crossed => asks' = {}
    BY <1>1, <1>2 DEF OneAsk, Numbered
  <2> QED
    BY <1>1, <2>1 DEF TokenIsShown
<1>7. ShownIsAsked'
  <2> SUFFICES ASSUME part \in Guarded \/ ~crossed, part # "profit", ~strayed, failed' # asked,
                      \A b \in asks' : b.n # asked
               PROVE  shown' = Nothing \/ shown'.query = query
    BY <1>1 DEF ShownIsAsked, LastAnswered
  <2>1. a.n # asked
    BY <1>1, <1>2
  <2>2. failed # asked
    BY <1>1, <1>2
  <2>3. LastAnswered
    BY <1>1, <2>1, <2>2 DEF LastAnswered
  <2> QED
    BY <1>1, <1>2, <2>3 DEF ShownIsAsked
<1> QED
  BY <1>3, <1>4, <1>5, <1>6, <1>7 DEF ListInv

\* An answer to a load: the page goes on to the list, by a function that is of the
\* query selected if it looked, and the history is wiped.
LEMMA LoadKeepsLists ==
  ASSUME ListInv, PageTypes, NEW x \in loads, StateArrives(x) PROVE ListInv'
<1>1. /\ UNCHANGED <<part, query, rows, meta, failed>>
      /\ ready' \in BOOLEAN /\ (ready => ready') /\ loads' = loads \ {x}
      /\ shown' = IF part = "history" THEN Nothing ELSE shown
      /\ submitting' = "logout" => part = "draft"
      /\ query \in Queries
  BY DEF StateArrives, ListInv, ListTypes
<1>2. Current' /\ x.query \in Queries
  BY <1>1 DEF ListInv, Current, PageTypes, Loading
<1>3. CASE GoesOn(x) /\ Ask(x.query, TRUE)
  <2>1. part \in {"logs", "history", "accounts", "holders"}
    BY <1>3 DEF GoesOn, After
  <2>2. part = "logs" => x.query = query
    BY <1>3 DEF GoesOn, ListInv, Current
  <2> QED
    BY <1>1, <1>2, <1>3, <2>1, <2>2, AskKeeps DEF Lists, Guarded
<1>4. CASE UNCHANGED askVars
  <2>1. UNCHANGED <<asked, asks, crossed, strayed>>
    BY <1>4 DEF askVars
  <2>2. ListTypes'
    BY <1>1, <2>1 DEF ListInv, ListTypes
  <2>3. Separate'
    BY <1>1, <2>1 DEF ListInv, Separate
  <2>4. Numbered' /\ AskedLast' /\ OneAsk' /\ ShownIsAsked'
    BY <1>1, <2>1 DEF ListInv, Numbered, AskedLast, OneAsk, ShownIsAsked, LastAnswered
  <2>5. TokenIsShown'
    BY <1>1, <2>1 DEF ListInv, TokenIsShown, Separate
  <2> QED
    BY <1>2, <2>2, <2>3, <2>4, <2>5 DEF ListInv
<1> QED
  BY <1>3, <1>4 DEF StateArrives

\* Every step keeps what the lists promise.
LEMMA ListSteps ==
  ASSUME LeaseInv, ListInv, PageTypes, [ConsoleNext]_allVars PROVE ListInv'
<1> DEFINE Calm == submitting' = "logout" => part = "draft"
           NoneOther == \A x \in loads' : x \in loads \/ x.query = query
<1>1. ASSUME UNCHANGED <<part, listVars, ready>>, Calm, NoneOther PROVE ListInv'
  BY <1>1, ListUntouched DEF ListInv, ListTypes
<1>2. /\ submitting = "logout" => part = "draft"
      /\ \A l \in Loaders : Load(l).query = query
  BY LoadIsLoading DEF ListInv, ListTypes
<1>3. ASSUME NEW q \in Queries, Select(q) PROVE ListInv'
  <2>1. /\ query' = q /\ part \in Lists /\ Ask(q, FALSE)
        /\ UNCHANGED <<part, submitting, ready, rows, meta, failed>>
        /\ loads' = {[x EXCEPT !.live = FALSE] : x \in loads}
        /\ shown' = IF part = "profit" THEN Nothing ELSE shown
    BY <1>3 DEF Select
  <2>2. Current'
    BY <2>1 DEF Current, PageTypes, Loading
  <2>3. ready \in BOOLEAN
    BY DEF ListInv, ListTypes
  <2> QED
    BY <1>2, <2>1, <2>2, <2>3, AskKeeps
<1>4. ASSUME Reload PROVE ListInv'
  <2>1. query \in Queries /\ ready \in BOOLEAN
    BY DEF ListInv, ListTypes
  <2>2. /\ part \in Lists /\ Ask(query, FALSE)
        /\ UNCHANGED <<part, submitting, loads, ready, query, rows, shown, meta, failed>>
    BY <1>4 DEF Reload
  <2>3. Current'
    BY <2>2 DEF ListInv, Current
  <2> QED
    BY <1>2, <2>1, <2>2, <2>3, AskKeeps
<1>5. ASSUME RowsChange PROVE ListInv'
  <2>1. /\ rows' = rows + 1 /\ rows < MaxRows
        /\ UNCHANGED <<part, submitting, loads, ready, query, asked, asks, shown, meta,
                       failed, crossed, strayed>>
    BY <1>5 DEF RowsChange, askVars
  <2>2. ListTypes'
    BY <2>1, ConsoleAssumption DEF ListInv, ListTypes
  <2> QED
    BY <2>1, <2>2 DEF ListInv, Numbered, Separate, Current, AskedLast, OneAsk, TokenIsShown,
                      ShownIsAsked, LastAnswered
<1>6. ASSUME LogoutAnswered PROVE ListInv'
  <2>1. /\ part = "draft" /\ ready' = FALSE /\ submitting' = "none"
        /\ UNCHANGED <<part, loads, listVars>>
    BY <1>2, <1>6 DEF LogoutAnswered
  <2> QED
    BY <2>1, ListUntouched DEF Guarded
<1>7. ASSUME \/ Open \/ PollState \/ BeginChain \/ \E x \in loads : StateFails(x)
             \/ \E e \in Edits : Edit(e)
             \/ \E name \in Kept \cup {"save", "delete", "logout"} : Submit(name)
             \/ ServerSaves \/ SaveAnswered \/ PairAnswered \/ AccountAnswered
             \/ DeleteAnswered \/ SubmitFails
      PROVE  ListInv'
  <2> USE DEF Open, PollState, BeginChain, StateFails, Edit, Submit, ServerSaves, SaveAnswered,
              PairAnswered, AccountAnswered, Answered, DeleteAnswered, SubmitFails, Reloads
  <2>1. UNCHANGED <<part, listVars, ready>>
    BY <1>7
  <2>2. Calm
    BY <1>2, <1>7
  <2>3. BeginChain => After[part] \in Loaders
    BY DEF After, Loaders
  <2>4. loads' \subseteq loads \/ \E l \in Loaders : loads' = loads \cup {Load(l)}
    BY <1>7, <2>3 DEF Loaders
  <2>5. NoneOther
    BY <1>2, <2>4
  <2> QED
    BY <1>1, <2>1, <2>2, <2>5
<1>8. ASSUME StatusStep \/ Elsewhere \/ UNCHANGED allVars PROVE ListInv'
  <2>1. UNCHANGED <<part, listVars, ready>> /\ Calm
    BY <1>2, <1>8 DEF StatusStep, Elsewhere, allVars, pageVars, Press, Answer, Posted,
                      PollStatus, PollArrives, PollFails, Hide
  <2>2. loads' \subseteq loads \cup {Load("ended")}
    BY <1>8 DEF StatusStep, Elsewhere, allVars, pageVars, Press, Answer, Posted,
                PollStatus, PollArrives, PollFails, Hide
  <2>3. NoneOther
    BY <1>2, <2>2 DEF Loaders
  <2> QED
    BY <1>1, <2>1, <2>3
<1>9. ASSUME ListStep PROVE ListInv'
  BY <1>3, <1>4, <1>5, <1>9, ArriveKeeps, AskFailsKeeps DEF ListStep
<1>10. ASSUME StateStep PROVE ListInv'
  BY <1>7, <1>10, LoadKeepsLists DEF StateStep
<1>11. ASSUME DraftStep PROVE ListInv'
  BY <1>6, <1>7, <1>11 DEF DraftStep
<1> QED
  BY <1>8, <1>9, <1>10, <1>11 DEF ConsoleNext

\* loadTransactionLogs and loadMarketSnapshotHistory number their requests and
\* the profit compares its token: however late other answers come, for any
\* number of requests and queries, the list is of the query selected last once
\* its request is answered; and so are the accounts and the holders, which do
\* neither, while no two requests cross.  The poll of the logs drops out when its
\* function is replaced; the history, the accounts and the holders are exempt
\* while the last request for them came from a function that had been.
THEOREM ListFollowsQuery == ConsoleSpec => []ListIsAsked
<1>1. ASSUME ConsoleInit PROVE ListInv
  <2>1. /\ part \in Parts /\ query \in Queries /\ rows = 0 /\ asked = 0 /\ asks = {}
        /\ shown = Nothing /\ meta = Nothing /\ failed = 0 /\ crossed = FALSE
        /\ strayed = FALSE /\ loads = {}
        /\ submitting = "none" /\ ready \in BOOLEAN
    BY <1>1 DEF ConsoleInit
  <2>2. ListTypes
    <3>1. 0 \in 0 .. MaxRows /\ 0 \in Nat
      BY ConsoleAssumption
    <3> QED
      BY <2>1, <3>1 DEF ListTypes
  <2>3. /\ Numbered /\ Separate /\ Current /\ AskedLast /\ OneAsk /\ TokenIsShown
        /\ ShownIsAsked
    BY <2>1 DEF Numbered, Separate, Current, AskedLast, OneAsk, TokenIsShown, ShownIsAsked
  <2> QED
    BY <2>2, <2>3 DEF ListInv
<1>2. LeaseInv /\ PageTypes /\ ListInv /\ [ConsoleNext]_allVars => ListInv'
  BY ListSteps
<1> QED
  BY <1>1, <1>2, ConsoleTypes, ListInvImplies, PTL DEF ConsoleSpec
=============================================================================
