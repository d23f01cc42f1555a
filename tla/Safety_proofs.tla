--------------------------- MODULE Safety_proofs ----------------------------
(***************************************************************************)
(* That the machines of MCSafety keep, for every value of the constants,   *)
(* what TLC checks of them on a small instance.  Each has its inductive    *)
(* invariant; at the end, the theorems about the whole.                    *)
(***************************************************************************)
EXTENDS MCSafety, Replies_proofs, Recall_proofs

-----------------------------------------------------------------------------
(* MemoryEvents: Consolidation events and their rows                        *)

(***************************************************************************)
(* The invariant holds of the rows the connection sees as well as of the   *)
(* committed ones, since either thread may commit at any point; between    *)
(* the two writes the row is there for the ref that follows.               *)
(***************************************************************************)
RowFirst ==
    /\ "ref" \in Visible => "row" \in Visible
    /\ step = "second" => "row" \in Visible

EventInv == EventTypeOK /\ RefMeansRow /\ RowFirst

(*************************************************************************)
(* With nothing written nothing is missing.                              *)
(*************************************************************************)
LEMMA EventInitInv == EventInit => EventInv
BY DEF EventInit, EventInv, EventTypeOK, RefMeansRow, RowFirst, Visible, Parts

(*************************************************************************)
(* No statement, commit or rollback of either thread leaves the ref      *)
(* without its row.                                                      *)
(*************************************************************************)
LEMMA EventStepInv == EventInv /\ [EventNext]_eventVars => EventInv'
<1> SUFFICES ASSUME EventInv, [EventNext]_eventVars PROVE EventInv'
  OBVIOUS
<1> USE DEF EventInv, EventTypeOK, RefMeansRow, RowFirst, Visible, Parts
<1>1. CASE CheckRef \/ Embedded
  BY <1>1 DEF CheckRef, Embedded, NoSql, GoTo
<1>2. ASSUME NEW commits \in BOOLEAN, GivenUp(commits) PROVE EventInv'
  BY <1>2 DEF GivenUp, Commit, NoSql
<1>3. CASE Begin
  BY <1>3 DEF Begin, GoTo, NoSql
<1>4. CASE Look
  BY <1>4 DEF Look, GoTo, NoSql, Commit
<1>5. CASE WriteFirst
  BY <1>5 DEF WriteFirst, Writes, Write
<1>6. CASE WriteSecond
  BY <1>6 DEF WriteSecond, Writes, Write, GoTo
<1>7. CASE CommitEvent
  BY <1>7 DEF CommitEvent, GoTo, NoSql, Commit
<1>8. CASE WriteVec \/ CommitVec
  BY <1>8 DEF WriteVec, CommitVec, GoTo, Write, Commit
<1>9. CASE StatementFails
  BY <1>9 DEF StatementFails, Rollback
<1>10. ASSUME NEW succeeds \in BOOLEAN, Advance(succeeds) PROVE EventInv'
  BY <1>10 DEF Advance, NoSql
<1>11. CASE TouchItems \/ CommitTouch
  BY <1>11 DEF TouchItems, CommitTouch, Commit
<1>12. CASE EventCrash
  BY <1>12 DEF EventCrash
<1>13. CASE UNCHANGED eventVars
  BY <1>13 DEF eventVars
<1> QED
  BY <1>1, <1>2, <1>3, <1>4, <1>5, <1>6, <1>7, <1>8, <1>9, <1>10, <1>11, <1>12, <1>13
  DEF EventNext

(***************************************************************************)
(* A committed source_ref has its row at every step of both threads and    *)
(* after every crash: a later run that skips the entry because of its ref  *)
(* skips nothing (upsert_consolidation_event).                             *)
(***************************************************************************)
THEOREM RefHasRow == EventSpec => [](EventTypeOK /\ RefMeansRow)
<1>1. EventInv => EventTypeOK /\ RefMeansRow
  BY DEF EventInv
<1> QED BY <1>1, EventInitInv, EventStepInv, PTL DEF EventSpec

-----------------------------------------------------------------------------
(* HttpRequests: The requests of RetryingHttpClient                         *)

Outcomes == {"ok", "busy", "error", "raised"}

\* The error that is remembered is one of a try, the response that of the last status.
TriedSoFar ==
    /\ {"ok", "raised"} \cap ToSet(attempts) = {} /\ Len(attempts) < MaxAttempts
    /\ response = IF "busy" \in ToSet(attempts) THEN "busy" ELSE "none"

HttpInv ==
    /\ budget \in Nat /\ clock \in Nat /\ dripped \in Nat /\ carriedOut \in Nat
    /\ attempts \in Seq(Outcomes)
    /\ lastError <=> "error" \in ToSet(attempts)
    /\ HttpTypeOK
    /\ RequestsEndInTime
    /\ httpAnswer = "none" => TriedSoFar

\* No request has begun.
LEMMA HttpBegins == HttpInit => HttpInv
<1> SUFFICES ASSUME HttpInit PROVE HttpInv
  OBVIOUS
<1>1. attempts = <<>> /\ budget \in Nat /\ attempts \in Seq(Outcomes) /\ Len(attempts) = 0
  BY HttpAssumption DEF HttpInit
<1>2. ToSet(attempts) = {} /\ ToSet(SubSeq(attempts, 1, Len(attempts) - 1)) = {}
  BY <1>1 DEF ToSet
<1> QED
  BY <1>1, <1>2, HttpAssumption DEF HttpInit, HttpInv, HttpTypeOK, RequestsEndInTime, BudgetHolds,
     AnswerIsOfLastTry, TriesAreUsed, TriedSoFar

\* Whatever a request does keeps the invariant.
LEMMA HttpStep == HttpInv /\ [HttpNext]_httpVars => HttpInv'
<1> SUFFICES ASSUME HttpInv, [HttpNext]_httpVars PROVE HttpInv'
  OBVIOUS
<1>a. MaxAttempts \in Nat /\ TryTimeout \in Nat /\ MaxDrip \in Nat /\ MaxAttempts >= 1
  BY HttpAssumption
<1>t. /\ budget \in Nat /\ clock \in Nat /\ dripped \in Nat /\ carriedOut \in Nat
      /\ attempts \in Seq(Outcomes) /\ Len(attempts) \in Nat
      /\ carriedOut <= Len(attempts)
  BY DEF HttpInv, HttpTypeOK
<1>1. CASE Tries
  <2>n. /\ httpAnswer = "none" /\ Remaining(clock) > 0 /\ TriedSoFar
        /\ (lastError <=> "error" \in ToSet(attempts)) /\ clock <= budget + dripped
    BY <1>1 DEF HttpInv, Tries, RequestsEndInTime, BudgetHolds
  <2> DEFINE attempt == Len(attempts) + 1
             isRetried(outcome) == outcome \in {"busy", "error"} /\ attempt < MaxAttempts
  <2>1. PICK outcome \in Outcomes, late \in 0..MaxDrip, done \in {0, 1} :
        \E took \in 0..Least(TryTimeout, Remaining(clock)) :
            /\ outcome = "ok" => done = 1
            /\ attempts' = Append(attempts, outcome)
            /\ response' = IF outcome \in {"error", "raised"} THEN response ELSE outcome
            /\ lastError' = (lastError \/ outcome = "error")
            /\ carriedOut' = carriedOut + done
            /\ dripped' = dripped + late
            /\ httpAnswer' = IF isRetried(outcome) THEN "none" ELSE outcome
            /\ \E pause \in IF isRetried(outcome) THEN Pauses(clock + took + late, attempt) ELSE {0} :
                   clock' = clock + took + late + pause
            /\ budget' = budget
    BY <1>1 DEF Tries, Outcomes
  <2>2. PICK took \in 0..Least(TryTimeout, Remaining(clock)) :
            /\ outcome = "ok" => done = 1
            /\ attempts' = Append(attempts, outcome)
            /\ response' = IF outcome \in {"error", "raised"} THEN response ELSE outcome
            /\ lastError' = (lastError \/ outcome = "error")
            /\ carriedOut' = carriedOut + done
            /\ dripped' = dripped + late
            /\ httpAnswer' = IF isRetried(outcome) THEN "none" ELSE outcome
            /\ \E pause \in IF isRetried(outcome) THEN Pauses(clock + took + late, attempt) ELSE {0} :
                   clock' = clock + took + late + pause
            /\ budget' = budget
    BY <2>1
  <2>3. clock < budget /\ took \in Nat /\ took <= budget - clock
    BY <1>a, <1>t, <2>n DEF Remaining, Least
  <2> DEFINE time == clock + took + late
  <2>4. late \in Nat /\ time \in Nat /\ time <= budget + late
    BY <1>a, <1>t, <2>3
  <2>5. PICK pause \in IF isRetried(outcome) THEN Pauses(time, attempt) ELSE {0} : clock' = time + pause
    BY <2>2
  <2>6. pause \in Nat /\ (pause <= Remaining(time) \/ pause = 0)
    <3>1. CASE isRetried(outcome)
      <4>1. PICK p \in Backoff(attempt) : pause = Least(p, Remaining(time))
        BY <2>5, <3>1 DEF Pauses
      <4>2. p \in Int /\ p >= 0
        BY <4>1 DEF Backoff
      <4>3. Remaining(time) \in Nat
        BY <1>t, <2>4 DEF Remaining
      <4> QED BY <4>1, <4>2, <4>3 DEF Least
    <3>2. CASE ~isRetried(outcome)
      BY <2>5, <3>2
    <3> QED BY <3>1, <3>2
  <2>7. clock' \in Nat /\ clock' <= budget' + dripped' /\ dripped' \in Nat /\ budget' \in Nat
    <3>1. Remaining(time) \in Nat /\ (Remaining(time) = 0 \/ time + Remaining(time) = budget)
      BY <1>t, <2>4 DEF Remaining
    <3>2. pause \in Nat /\ (pause = 0 \/ time + pause <= budget)
      BY <1>t, <2>4, <2>6, <3>1
    <3> HIDE DEF time
    <3> QED BY <1>t, <2>2, <2>4, <2>5, <3>2
  <2>8. /\ attempts' \in Seq(Outcomes) /\ Len(attempts') = attempt /\ attempts' # <<>>
        /\ Last(attempts') = outcome
        /\ SubSeq(attempts', 1, Len(attempts') - 1) = attempts
    <3>1. attempts' \in Seq(Outcomes) /\ Len(attempts') = attempt /\ attempts'[attempt] = outcome
      BY <1>t, <2>2
    <3>2. SubSeq(attempts', 1, Len(attempts') - 1) = attempts
      BY <1>t, <2>2, <3>1
    <3> QED BY <1>t, <3>1, <3>2 DEF Last
  <2>9. ToSet(attempts') = ToSet(attempts) \cup {outcome}
    BY <1>t, <2>2, <2>8 DEF ToSet
  <2>10. carriedOut' \in Nat /\ carriedOut' <= Len(attempts') /\ (outcome = "ok" => carriedOut' >= 1)
    BY <1>t, <2>2, <2>8
  <2>11. (lastError <=> "error" \in ToSet(attempts))'
    BY <2>2, <2>9, <2>n
  <2>12. httpAnswer' = "none" => TriedSoFar'
    BY <1>a, <1>t, <2>2, <2>8, <2>9, <2>n DEF TriedSoFar, Outcomes
  <2>13. httpAnswer' # "none" => httpAnswer' = outcome /\ ~isRetried(outcome)
    BY <2>2
  <2>14. AnswerIsOfLastTry'
    BY <2>8, <2>9, <2>10, <2>13, <2>n DEF AnswerIsOfLastTry, TriedSoFar, Outcomes
  <2>15. TriesAreUsed'
    BY <1>a, <1>t, <2>8, <2>13, <2>n DEF TriesAreUsed, TriedSoFar
  <2>16. HttpTypeOK'
    <3>1. Len(attempts') <= MaxAttempts
      BY <1>a, <1>t, <2>8, <2>n DEF TriedSoFar
    <3>2. httpAnswer' \in {"none", "ok", "busy", "error", "raised", "exhausted"}
      BY <2>2 DEF Outcomes
    <3> QED BY <2>7, <2>10, <3>1, <3>2 DEF HttpTypeOK
  <2> QED
    BY <2>7, <2>8, <2>10, <2>11, <2>12, <2>14, <2>15, <2>16 DEF HttpInv, RequestsEndInTime, BudgetHolds
<1>2. CASE BudgetEnds
  <2>1. /\ httpAnswer = "none" /\ Remaining(clock) = 0 /\ TriedSoFar
        /\ (lastError <=> "error" \in ToSet(attempts))
        /\ httpAnswer' = CASE lastError -> "error"
                           [] ~lastError /\ response = "none" -> "exhausted"
                           [] OTHER -> response
        /\ UNCHANGED <<budget, clock, attempts, lastError, response, carriedOut, dripped>>
    BY <1>2 DEF HttpInv, BudgetEnds
  <2>2. attempts # <<>> => Last(attempts) \in ToSet(attempts) /\ Last(attempts) \in {"busy", "error"}
    <3> SUFFICES ASSUME attempts # <<>> PROVE Last(attempts) \in ToSet(attempts) /\ Last(attempts) \in {"busy", "error"}
      OBVIOUS
    <3>1. Len(attempts) \in 1..Len(attempts)
      BY <1>t
    <3>2. Last(attempts) \in ToSet(attempts) /\ Last(attempts) \in Outcomes
      BY <1>t, <3>1 DEF Last, ToSet
    <3> QED BY <2>1, <3>2 DEF TriedSoFar, Outcomes
  <2>3. attempts = <<>> => ToSet(attempts) = {}
    BY DEF ToSet
  <2>4. response \in {"none", "busy"} /\ (response = "none" <=> "busy" \notin ToSet(attempts))
    BY <2>1 DEF TriedSoFar
  <2>5. httpAnswer' \in {"error", "busy", "exhausted"}
    BY <2>1, <2>4
  <2>6. AnswerIsOfLastTry'
    <3>1. {"ok", "raised"} \cap ToSet(SubSeq(attempts, 1, Len(attempts) - 1)) = {}
      BY DEF HttpInv, RequestsEndInTime, AnswerIsOfLastTry
    <3>2. CASE lastError
      <4>1. attempts # <<>> /\ httpAnswer' = "error"
        BY <2>1, <2>3, <3>2
      <4> QED BY <2>1, <2>2, <3>1, <3>2, <4>1 DEF AnswerIsOfLastTry, TriedSoFar
    <3>3. CASE ~lastError /\ response = "none"
      <4>1. httpAnswer' = "exhausted"
        BY <2>1, <3>3
      <4>2. attempts = <<>>
        BY <2>1, <2>2, <2>4, <3>3
      <4> QED BY <2>1, <3>1, <4>1, <4>2 DEF AnswerIsOfLastTry
    <3>4. CASE ~lastError /\ response = "busy"
      <4>1. httpAnswer' = "busy" /\ attempts # <<>>
        BY <2>1, <2>3, <2>4, <3>4
      <4>2. Last(attempts) = "busy"
        BY <2>1, <2>2, <3>4, <4>1
      <4> QED BY <2>1, <3>1, <4>1, <4>2 DEF AnswerIsOfLastTry
    <3> QED BY <2>4, <3>2, <3>3, <3>4
  <2>7. TriesAreUsed'
    <3>1. Remaining(clock)' = 0
      BY <2>1 DEF Remaining
    <3> QED BY <3>1 DEF TriesAreUsed
  <2> QED
    BY <2>1, <2>5, <2>6, <2>7 DEF HttpInv, HttpTypeOK, RequestsEndInTime, BudgetHolds
<1>3. CASE UNCHANGED httpVars
  BY <1>3 DEF httpVars, HttpInv, HttpTypeOK, RequestsEndInTime, BudgetHolds, AnswerIsOfLastTry,
     TriesAreUsed, TriedSoFar, Remaining
<1> QED BY <1>1, <1>2, <1>3 DEF HttpNext

-----------------------------------------------------------------------------
(* AppRuntime: The start and the end of the process                         *)

EndSteps == {EndOrder[i] : i \in 1..8}

AppTypes ==
    /\ AppTypeOK
    /\ config \subseteq Optional /\ appStep \in 1..8 /\ appFaults \in Nat
    /\ held \subseteq {"core", "ipc", "telegram", "qq", "observe", "dashboard"}
    /\ raisedTasks \subseteq {"observe", "dashboard"}
    /\ failures \in Seq(EndSteps)

\* Until it ends: what each nextEnd of start has brought, and what it gave a handle of.
StartInv ==
    appPhase \in {"starting", "running"} =>
        /\ cause = "none" /\ untidy = {} /\ "http" \in up
        /\ "memory" \in up <=> appStep > 1
        /\ "poller" \in up => appStep > 2
        /\ \A part \in TelegramParts : part \in up => appStep > 3 /\ "telegram" \in config
        /\ "qq" \in up => appStep > 4 /\ "qq" \in config
        /\ "observe" \in up => appStep > 5
        /\ "dashboard" \in up => appStep > 6
        /\ \A part \in {"loop", "tasks", "work", "peer"} : part \in up => appPhase = "running"
        /\ "core" \in held <=> appStep > 1
        /\ \A channel \in {"telegram", "qq"} : channel \in held <=> appStep > 4 /\ channel \in config
        /\ "observe" \in held <=> appStep > 5
        /\ "dashboard" \in held <=> appStep > 6
        /\ "dashboard" \notin raisedTasks
        /\ "observe" \in raisedTasks => appPhase = "running"
        /\ appPhase = "running" => appStep = 8

\* Shutdown has gone through its first steps, up to this one.
Passed(nextEnd) == (appPhase \in {"ending", "cut"} /\ appStep > nextEnd) \/ (appPhase = "over" /\ raisedTasks = {})

\* When it ends: the handles there are, and which tasks go on.
HeldInv ==
    /\ \A part \in TelegramParts : part \in up => "telegram" \in held \/ part \in Unheld
    /\ "qq" \in up => "qq" \in held \/ "qq" \in Unheld
    /\ "memory" \in up => "core" \in held \/ cause = "core"
    /\ \A part \in {"poller", "peer"} : part \in up => "core" \in held
    /\ \A part \in {"observe", "dashboard"} : part \in up => part \in held
    /\ raisedTasks \subseteq held
    /\ \A part \in {"loop", "tasks", "work"} : part \in up => "core" \in held
    /\ "tasks" \in up => cause = "task" \/ "dashboard" \in raisedTasks
    /\ "loop" \in up => cause \in {"task", "swallowed"} \/ "dashboard" \in raisedTasks
    /\ "memory" \notin up =>
        Passed(7) \/ \A part \in {"telegram", "polling", "qq", "loop", "tasks", "work", "dashboard"} : part \notin up
    /\ "http" \notin up => appPhase = "over" /\ raisedTasks = {}

\* What is behind it.
PastInv ==
    /\ appPhase \in {"ending", "cut"} /\ "dashboard" \in raisedTasks => appStep = 1
    /\ appPhase \in {"ending", "cut"} /\ "observe" \in raisedTasks => appStep <= 2
    /\ appPhase = "cut" => appStep > 2
    /\ Passed(1) => "dashboard" \notin up
    /\ Passed(2) => "observe" \notin up
    /\ Passed(3) => "poller" \notin up /\ ("peer" \in up => "peer" \in untidy \cup belated)
    /\ Passed(5) => \A part \in TelegramParts : part \in up => part \in untidy \cup Unheld
    /\ Passed(6) => ("qq" \in up => "qq" \in untidy \cup Unheld)
    /\ Passed(7) => ("memory" \in up => "memory" \in untidy \cup Unheld)
    /\ Passed(8) => ("http" \in up => "http" \in untidy)
    /\ \A part \in untidy : part = "peer" \/ failures # <<>>
    /\ untidy \subseteq {"peer", "telegram", "polling", "qq", "memory", "http"}
    /\ \A part \in TelegramParts : part \in untidy => appPhase = "over" \/ appStep > 5
    /\ "qq" \in untidy => appPhase = "over" \/ appStep > 6
    /\ "memory" \in untidy => appPhase = "over" \/ appStep > 7
    /\ "http" \in untidy => appPhase = "over"

EndInv == appPhase \in {"ending", "over", "cut"} => HeldInv /\ PastInv

AppInv == AppTypes /\ StartInv /\ EndInv

\* The orders, spelled out.
LEMMA StepNames ==
  /\ Len(StartOrder) = 7 /\ Len(EndOrder) = 8
  /\ StartOrder[1] = "core" /\ StartOrder[2] = "core.start" /\ StartOrder[3] = "telegram"
  /\ StartOrder[4] = "qq" /\ StartOrder[5] = "observe" /\ StartOrder[6] = "dashboard"
  /\ StartOrder[7] = "proactive"
  /\ EndOrder[1] = "dashboard" /\ EndOrder[2] = "observe" /\ EndOrder[3] = "core.stop"
  /\ EndOrder[4] = "ipc.stop" /\ EndOrder[5] = "telegram.stop" /\ EndOrder[6] = "qq.stop"
  /\ EndOrder[7] = "memory" /\ EndOrder[8] = "http"
BY DEF StartOrder, EndOrder

\* A process that has not begun.
LEMMA AppBegins == AppInit => AppInv
<1> SUFFICES ASSUME AppInit PROVE AppInv
  OBVIOUS
<1>1. AppTypes
  BY AppAssumption DEF AppInit, AppTypes, AppTypeOK
<1>2. StartInv
  BY DEF AppInit, StartInv, TelegramParts
<1> QED BY <1>1, <1>2 DEF AppInit, AppInv, EndInv, HeldInv, PastInv

\* What the invariant is for.
LEMMA EndInvIsEnough == AppInv => EndIsClean
<1> SUFFICES ASSUME AppInv PROVE EndIsClean
  OBVIOUS
<1>t. /\ appPhase \in {"starting", "running", "ending", "over", "cut"}
      /\ up \subseteq {"http", "memory", "mcp", "poller", "peer", "telegram", "polling", "qq",
                     "observe", "dashboard", "loop", "tasks", "work"}
      /\ appStep \in 1..8
  BY DEF AppInv, AppTypes, AppTypeOK
<1>1. CASE appPhase \in {"starting", "running"}
  <2>1. /\ "http" \in up 
        /\ "memory" \notin up =>
            \A part \in {"loop", "tasks", "work", "telegram", "polling", "qq", "dashboard"} : part \notin up
    BY <1>1, <1>t DEF AppInv, StartInv, TelegramParts
  <2> QED BY <1>1, <2>1 DEF EndIsClean, NothingElseIsLeft, UsersEndFirst, FailuresAreTold
<1>2. CASE appPhase \in {"ending", "over", "cut"}
  <2> USE DEF AppInv, EndInv, HeldInv, PastInv, Passed, TelegramParts
  <2>1. NothingElseIsLeft
    BY <1>2, <1>t DEF NothingElseIsLeft, Unended
  <2>2. UsersEndFirst
    BY <1>2, <1>t DEF UsersEndFirst, Unended
  <2>3. FailuresAreTold
    BY <1>2 DEF FailuresAreTold
  <2> QED BY <2>1, <2>2, <2>3 DEF EndIsClean
<1> QED BY <1>1, <1>2, <1>t

\* Whatever the process does keeps the invariant.
LEMMA AppStep == AppInv /\ [AppNext]_appVars => AppInv'
<1> SUFFICES ASSUME AppInv, [AppNext]_appVars PROVE AppInv'
  OBVIOUS
<1>t. AppTypes /\ StartInv /\ EndInv
  BY DEF AppInv
<1>s. appStep \in 1..8 /\ failures \in Seq(EndSteps)
  BY <1>t DEF AppTypes
<1>f. appFaults \in Nat /\ appFaults <= MaxAppFaults /\ MaxAppFaults \in Nat
  BY <1>t, AppAssumption DEF AppTypes, AppTypeOK
<1>1. CASE StartStep
  <2>1. AppTypes'
    BY <1>1, <1>t, StepNames DEF StartStep, AppTypes, AppTypeOK, Brings, Handles, Optional, TelegramParts
  <2>2. StartInv'
    BY <1>1, <1>t, StepNames DEF StartStep, AppTypes, StartInv, Brings, Handles, Optional, TelegramParts
  <2>3. EndInv'
    BY <1>1 DEF StartStep, EndInv
  <2> QED BY <2>1, <2>2, <2>3 DEF AppInv
<1>2. CASE StartFails
  <2>1. AppTypes'
    BY <1>2, <1>t, AppAssumption, StepNames DEF StartFails, AppTypes, AppTypeOK, Brings, Optional, TelegramParts
  <2>2. StartInv'
    BY <1>2 DEF StartFails, StartInv
  <2>3. EndInv'
    BY <1>2, <1>t, StepNames DEF StartFails, AppTypes, StartInv, EndInv, HeldInv, PastInv, Brings, Optional, TelegramParts, Unheld, Passed
  <2> QED BY <2>1, <2>2, <2>3 DEF AppInv
<1>3. CASE Started
  <2>1. AppTypes'
    BY <1>3, <1>t, StepNames DEF Started, AppTypes, AppTypeOK
  <2>2. StartInv'
    BY <1>3, <1>t, StepNames DEF Started, AppTypes, StartInv, TelegramParts
  <2>3. EndInv'
    BY <1>3 DEF Started, EndInv, HeldInv, PastInv
  <2> QED BY <2>1, <2>2, <2>3 DEF AppInv
<1>4. CASE PeerSpawns
  <2>1. AppTypes'
    BY <1>4, <1>t DEF PeerSpawns, AppTypes, AppTypeOK
  <2>2. StartInv'
    BY <1>4, <1>t DEF PeerSpawns, TurnsRun, AppTypes, AppTypeOK, StartInv, TelegramParts
  <2>3. EndInv'
    BY <1>4, <1>t DEF PeerSpawns, TurnsRun, AppTypes, AppTypeOK, EndInv, HeldInv, PastInv, TelegramParts, Unheld, Passed
  <2> QED BY <2>1, <2>2, <2>3 DEF AppInv
<1>a. CASE WorkBegins \/ WorkEnds
  <2>u. /\ up' \in {up \cup {"work"}, up \ {"work"}} /\ (up' = up \/ TurnsRun \/ "work" \notin up')
        /\ UNCHANGED <<config, appPhase, appStep, held, raisedTasks, cause, failures, untidy, belated, appFaults>>
    BY <1>a DEF WorkBegins, WorkEnds
  <2>1. AppTypes'
    BY <1>t, <2>u DEF AppTypes, AppTypeOK, EndInv, HeldInv, PastInv, StartInv
  <2>2. StartInv'
    BY <1>t, <2>u DEF TurnsRun, AppTypes, AppTypeOK, StartInv, TelegramParts
  <2>3. EndInv'
    BY <1>t, <2>u DEF TurnsRun, AppTypes, AppTypeOK, EndInv, HeldInv, PastInv, TelegramParts, Unheld, Passed
  <2> QED BY <2>1, <2>2, <2>3 DEF AppInv
<1>b. CASE CleanupCut
  <2>u. /\ appPhase = "ending" /\ appStep > 2 /\ appPhase' = "cut"
        /\ UNCHANGED <<config, appStep, up, held, raisedTasks, cause, failures, untidy, belated, appFaults>>
    BY <1>b DEF CleanupCut
  <2>1. AppTypes'
    BY <1>t, <2>u DEF AppTypes, AppTypeOK
  <2>2. StartInv'
    BY <2>u DEF StartInv
  <2>3. EndInv'
    BY <1>t, <2>u DEF AppTypes, EndInv, HeldInv, PastInv, TelegramParts, Unheld, Passed
  <2> QED BY <2>1, <2>2, <2>3 DEF AppInv
<1>5. CASE PollingConflicts
  <2>0. untidy = {}
    BY <1>5, <1>t DEF PollingConflicts, StartInv
  <2>f. appFaults' \in Nat /\ appFaults' <= MaxAppFaults
    BY <1>5, <1>t, AppAssumption DEF PollingConflicts, AppTypes, AppTypeOK
  <2>u. up' \subseteq up /\ UNCHANGED <<config, appPhase, appStep, held, raisedTasks, failures, untidy, belated>>
    BY <1>5 DEF PollingConflicts
  <2>1. AppTypes'
    BY <2>0, <2>f, <2>u, <1>t DEF AppTypes, AppTypeOK
  <2>2. StartInv'
    BY <1>5, <1>t DEF PollingConflicts, AppTypes, StartInv, TelegramParts
  <2>3. EndInv'
    BY <1>5 DEF PollingConflicts, EndInv, HeldInv, PastInv
  <2> QED BY <2>1, <2>2, <2>3 DEF AppInv
<1>6. CASE ObserveDies
  <2>1. AppTypes'
    BY <1>6, <1>t, AppAssumption DEF ObserveDies, AppTypes, AppTypeOK, StartInv, EndInv, HeldInv, PastInv
  <2>2. StartInv'
    BY <1>6, <1>t DEF ObserveDies, AppTypes, StartInv, TelegramParts
  <2>3. EndInv'
    BY <1>6, <1>t DEF ObserveDies, AppTypes, AppTypeOK, EndInv, HeldInv, PastInv, TelegramParts, Unheld, Passed
  <2> QED BY <2>1, <2>2, <2>3 DEF AppInv
<1>7. CASE RunCancelled
  <2>u. /\ untidy = {} /\ up' \subseteq up /\ appPhase' = "ending" /\ appStep' = 1
        /\ UNCHANGED <<config, held, raisedTasks, failures, untidy, belated, appFaults>>
    BY <1>7, <1>t DEF RunCancelled, EndBegins, StartInv
  <2>1. AppTypes'
    BY <1>t, <2>u DEF AppTypes, AppTypeOK
  <2>2. StartInv'
    BY <1>7 DEF RunCancelled, EndBegins, StartInv
  <2>3. EndInv'
    BY <1>7, <1>t DEF RunCancelled, EndBegins, AppTypes, AppTypeOK, StartInv, EndInv, HeldInv, PastInv, TelegramParts, Unheld, Passed, Optional
  <2> QED BY <2>1, <2>2, <2>3 DEF AppInv
<1>8. CASE TaskFails
  <2>0. untidy = {}
    BY <1>8, <1>t DEF TaskFails, StartInv
  <2>f. appFaults' \in Nat /\ appFaults' <= MaxAppFaults
    BY <1>8, <1>t, AppAssumption DEF TaskFails, AppTypes, AppTypeOK
  <2>u. /\ up' \subseteq up /\ raisedTasks' \subseteq raisedTasks \cup {"dashboard"}
        /\ appPhase' = "ending" /\ appStep' = 1 /\ UNCHANGED <<config, held, failures, untidy, belated>>
    BY <1>8 DEF TaskFails, EndBegins
  <2>1. AppTypes'
    BY <2>0, <2>f, <2>u, <1>t DEF AppTypes, AppTypeOK
  <2>2. StartInv'
    BY <1>8 DEF TaskFails, EndBegins, StartInv
  <2>3. EndInv'
    BY <1>8, <1>t DEF TaskFails, EndBegins, AppTypes, AppTypeOK, StartInv, EndInv, HeldInv, PastInv, TelegramParts, Unheld, Passed, Optional
  <2> QED BY <2>1, <2>2, <2>3 DEF AppInv
<1>9. CASE AwaitsTask
  <2> DEFINE task == EndOrder[appStep]
  <2>0. /\ appPhase = "ending" /\ ((appStep = 1 /\ task = "dashboard") \/ (appStep = 2 /\ task = "observe"))
        /\ UNCHANGED <<config, held, cause, untidy, belated>>
    <3>1. /\ appPhase = "ending" /\ appStep <= 2
          /\ UNCHANGED <<config, held, cause, untidy, belated>>
      BY <1>9 DEF AwaitsTask
    <3>2. appStep = 1 \/ appStep = 2
      BY <1>s, <3>1
    <3> QED BY <3>1, <3>2, StepNames
  <2>f. appFaults' \in Nat /\ appFaults' <= MaxAppFaults
    <3>1. appFaults' = appFaults \/ (appFaults < MaxAppFaults /\ appFaults' = appFaults + 1)
      BY <1>9 DEF AwaitsTask
    <3> QED BY <1>f, <3>1
  <2>u. /\ up' \subseteq up /\ \A part \in up \ up' : part = task
        /\ raisedTasks' \subseteq raisedTasks \cup {task}
        /\ failures' \in {failures, Append(failures, task)} /\ appPhase' \in {"ending", "over"}
        /\ appStep' \in {appStep, appStep + 1}
    BY <1>9, <2>0 DEF AwaitsTask, ShutdownOver
  <2>1. AppTypes'
    <3>1. untidy' \subseteq up' \cup {"peer"}
      BY <1>t, <2>0, <2>u DEF AppTypes, AppTypeOK, EndInv, HeldInv, PastInv
    <3>2. failures' \in Seq(EndSteps)
      <4>1. failures \in Seq(EndSteps) /\ task \in EndSteps
        BY <1>s DEF EndSteps
      <4> QED BY <2>u, <4>1
    <3>3. appStep' \in 1..8
      BY <1>t, <2>0, <2>u DEF AppTypes
    <3>4. raisedTasks' \subseteq {"observe", "dashboard"}
      BY <1>t, <2>0, <2>u DEF AppTypes
    <3> QED BY <1>t, <2>0, <2>f, <2>u, <3>1, <3>2, <3>3, <3>4 DEF AppTypes, AppTypeOK
  <2>2. StartInv'
    BY <2>u DEF StartInv
  <2>3. EndInv'
    <3>1. CASE /\ task \notin held \/ task \notin raisedTasks
               /\ up' = IF task \in held THEN up \ {task} ELSE up
               /\ appStep' = appStep + 1 /\ UNCHANGED <<appPhase, failures, raisedTasks, appFaults>>
      BY <1>t, <2>0, <3>1 DEF AppTypes, AppTypeOK, EndInv, HeldInv, PastInv, TelegramParts, Unheld, Passed
    <3>2. CASE /\ task \in held \cap raisedTasks
               /\ failures' = Append(failures, task) /\ ShutdownOver /\ UNCHANGED <<up, raisedTasks, appFaults>>
      BY <1>t, <2>0, <3>2 DEF ShutdownOver, AppTypes, AppTypeOK, EndInv, HeldInv, PastInv, TelegramParts, Unheld, Passed
    <3>3. CASE /\ task = "dashboard" /\ task \in up
               /\ failures' = Append(failures, task) /\ ShutdownOver
               /\ up' = up \ {task} /\ raisedTasks' = raisedTasks \cup {task}
      BY <1>t, <2>0, <3>3 DEF ShutdownOver, AppTypes, AppTypeOK, EndInv, HeldInv, PastInv, TelegramParts, Unheld, Passed
    <3> QED BY <1>9, <3>1, <3>2, <3>3 DEF AwaitsTask
  <2> QED BY <2>1, <2>2, <2>3 DEF AppInv
<1>10. CASE CleanupStep
  <2> DEFINE nextEnd == EndOrder[appStep]
             last == appStep = 8
  <2>0. /\ appPhase = "ending" /\ appStep \in 3..8 /\ raisedTasks = {}
        /\ UNCHANGED <<config, held, raisedTasks, cause, belated, pollingConflict>>
    BY <1>10, <1>t DEF CleanupStep, AppTypes, EndInv, HeldInv, PastInv
  <2>f. appFaults' \in Nat /\ appFaults' <= MaxAppFaults
    <3>1. appFaults' = appFaults \/ (appFaults < MaxAppFaults /\ appFaults' = appFaults + 1)
      BY <1>10 DEF CleanupStep
    <3> QED BY <1>f, <3>1
  <2>s. nextEnd \in EndSteps /\ failures \in Seq(EndSteps)
    BY <1>s DEF EndSteps
  <2>u. \/ /\ ~(nextEnd = "ipc.stop" /\ "ipc" \in held)
           /\ up' = up \ Ends(nextEnd) /\ UNCHANGED <<failures, untidy>>
        \/ /\ nextEnd = "ipc.stop" /\ failures' = Append(failures, nextEnd) /\ UNCHANGED <<up, untidy>>
        \/ /\ \E rest \in SUBSET (Ends(nextEnd) \cap up) :
                /\ nextEnd = "core.stop" => rest = {"peer"}
                /\ up' = (up \ Ends(nextEnd)) \cup rest /\ untidy' = untidy \cup rest
           /\ failures' = IF nextEnd = "core.stop" THEN failures ELSE Append(failures, nextEnd)
    BY <1>10 DEF CleanupStep, GoesOn, ShutdownOver
  <2>g. /\ last => appPhase' = "over" /\ appStep' = appStep
        /\ ~last => appPhase' = "ending" /\ appStep' = appStep + 1
    BY <1>10, <2>0, StepNames DEF CleanupStep, GoesOn, ShutdownOver
  <2>e. /\ nextEnd = "core.stop" => appStep = 3 /\ Ends(nextEnd) \subseteq {"poller", "peer"}
        /\ nextEnd = "ipc.stop" => appStep = 4 /\ Ends(nextEnd) = {}
        /\ nextEnd = "core.stop" \/ Ends(nextEnd) \subseteq {"telegram", "polling", "qq", "memory", "http"}
    BY <2>0, StepNames DEF Ends, TelegramParts
  <2>1. AppTypes'
    <3>1. untidy \subseteq up \cup {"peer"} /\ untidy \cap Ends(nextEnd) \subseteq {"peer"}
      BY <1>t, <2>0, StepNames DEF AppTypes, AppTypeOK, EndInv, HeldInv, PastInv, Ends
    <3>2. up' \subseteq up
      BY <2>u
    <3>3. untidy' \subseteq up' \cup {"peer"}
      <4> HIDE DEF nextEnd
      <4>1. CASE UNCHANGED <<up, untidy>>
        BY <3>1, <4>1
      <4>2. CASE up' = up \ Ends(nextEnd) /\ UNCHANGED untidy
        BY <3>1, <4>2
      <4>3. ASSUME NEW rest \in SUBSET (Ends(nextEnd) \cap up),
                   up' = (up \ Ends(nextEnd)) \cup rest, untidy' = untidy \cup rest
            PROVE  untidy' \subseteq up' \cup {"peer"}
        BY <3>1, <4>3
      <4> QED BY <2>u, <4>1, <4>2, <4>3
    <3>4. failures' \in Seq(EndSteps)
      <4> HIDE DEF nextEnd
      <4>1. failures' = failures \/ failures' = Append(failures, nextEnd)
        BY <2>u
      <4> QED BY <2>s, <4>1
    <3>5. appPhase' \in {"ending", "over"} /\ appStep' \in 1..8
      BY <2>0, <2>g
    <3> HIDE DEF nextEnd, last
    <3>6. AppTypeOK'
      BY <1>t, <2>0, <2>f, <3>2, <3>3, <3>5 DEF AppTypes, AppTypeOK
    <3> QED BY <1>t, <2>0, <2>f, <3>4, <3>5, <3>6 DEF AppTypes
  <2>2. StartInv'
    BY <2>g DEF StartInv
  <2>3. EndInv'
    <3>1. CASE appStep = 3
      <4>1. nextEnd = "core.stop" /\ Ends(nextEnd) = IF "core" \in held THEN {"poller", "peer"} ELSE {}
        BY <3>1, StepNames DEF Ends
      <4>2. failures' = failures /\ appPhase' = "ending" /\ appStep' = 4
        BY <2>u, <2>g, <3>1, <4>1
      <4>3. /\ up' \subseteq up /\ up \subseteq up' \cup {"poller", "peer"}
            /\ "core" \in held => "poller" \notin up'
            /\ "peer" \in up' => "peer" \in up /\ ("peer" \in untidy' \/ "core" \notin held)
            /\ "poller" \in up' => "poller" \in up
            /\ untidy \subseteq untidy' /\ untidy' \subseteq untidy \cup {"peer"}
        BY <2>u, <4>1
      <4>4. appPhase' = "ending" /\ raisedTasks' = {} /\ held' = held /\ cause' = cause /\ belated' = belated
        BY <2>0, <4>2
      <4>5. ~Passed(5)' /\ ~Passed(6)' /\ ~Passed(7)' /\ ~Passed(8)' /\ ~Passed(7) /\ Passed(2) /\ Passed(1)
        BY <2>0, <3>1, <4>2 DEF Passed
      <4> HIDE DEF nextEnd
      <4> QED BY <1>t, <2>0, <3>1, <4>2, <4>3, <4>4, <4>5 DEF EndInv, HeldInv, PastInv, TelegramParts, Unheld
    <3>2. CASE appStep = 4
      <4>1. nextEnd = "ipc.stop" /\ Ends(nextEnd) = {} /\ appPhase' = "ending" /\ appStep' = 5
        BY <2>g, <3>2, StepNames DEF Ends
      <4>2. up' = up /\ untidy' = untidy /\ failures' \in {failures, Append(failures, nextEnd)}
        BY <2>u, <4>1
      <4>3. failures # <<>> => failures' # <<>>
        BY <2>s, <4>2
      <4> HIDE DEF nextEnd
      <4> QED BY <1>t, <2>0, <3>2, <4>1, <4>2, <4>3 DEF EndInv, HeldInv, PastInv, TelegramParts, Unheld, Passed
    <3>3. CASE appStep = 5
      BY <1>t, <1>s, <2>0, <2>u, <2>g, <3>3, StepNames DEF Ends, EndInv, HeldInv, PastInv, TelegramParts, Unheld, Passed
    <3>4. CASE appStep = 6
      BY <1>t, <1>s, <2>0, <2>u, <2>g, <3>4, StepNames DEF Ends, EndInv, HeldInv, PastInv, TelegramParts, Unheld, Passed
    <3>5. CASE appStep = 7
      BY <1>t, <1>s, <2>0, <2>u, <2>g, <3>5, StepNames DEF Ends, EndInv, HeldInv, PastInv, TelegramParts, Unheld, Passed
    <3>6. CASE appStep = 8
      BY <1>t, <1>s, <2>0, <2>u, <2>g, <3>6, StepNames DEF Ends, EndInv, HeldInv, PastInv, TelegramParts, Unheld, Passed
    <3> QED BY <2>0, <3>1, <3>2, <3>3, <3>4, <3>5, <3>6
  <2> QED BY <2>1, <2>2, <2>3 DEF AppInv
<1>11. CASE UNCHANGED appVars
  BY <1>11, <1>t DEF appVars, AppInv, AppTypes, AppTypeOK, StartInv, EndInv, HeldInv, PastInv, TelegramParts, Unheld, Passed
<1> QED
  BY <1>1, <1>2, <1>3, <1>4, <1>a, <1>b, <1>5, <1>6, <1>7, <1>8, <1>9, <1>10, <1>11 DEF AppNext

-----------------------------------------------------------------------------
(* SubAgentLoop: The loop of a subagent                                     *)

-----------------------------------------------------------------------------
(* The protocol of the messages                                             *)

SubMessage == [kind : {"note", "calls", "result"}, n : Nat]

\* What a run's messages are: no result is cleared in them, and a round has calls.
Sound(s) == s \in Seq(SubMessage) /\ \A i \in DOMAIN s : s[i].kind = "calls" => s[i].n >= 1

EndsWithNote(s) == Len(s) >= 1 /\ s[Len(s)].kind = "note"

\* The last round still lacks k results.
Lacking(s, k) ==
    /\ Len(s) >= 1 /\ s[Len(s)].kind # "note"
    /\ \A i \in DOMAIN s :
        /\ s[i].kind = "calls" =>
            /\ i + s[i].n < Len(s) \/ i + s[i].n = Len(s) + k
            /\ \A d \in 1..s[i].n : i + d <= Len(s) => s[i + d].kind = "result"
            /\ i + s[i].n + 1 <= Len(s) => s[i + s[i].n + 1].kind = "note"
        /\ s[i].kind = "note" /\ i + 1 <= Len(s) => s[i + 1].kind \in {"note", "calls"}

\* In a run's own messages every result is still there.
Answered(s) ==
    \A i \in DOMAIN s :
        /\ s[i].kind = "calls" =>
            /\ i + s[i].n <= Len(s)
            /\ \A d \in 1..s[i].n : s[i + d].kind = "result"
            /\ i + s[i].n + 1 <= Len(s) => s[i + s[i].n + 1].kind = "note"
        /\ s[i].kind = "note" /\ i + 1 <= Len(s) => s[i + 1].kind \in {"note", "calls"}

\* A message more.
LEMMA OneMore ==
  ASSUME NEW s \in Seq(SubMessage), NEW m \in SubMessage
  PROVE  /\ Append(s, m) \in Seq(SubMessage) /\ Len(Append(s, m)) = Len(s) + 1 /\ Len(s) \in Nat
         /\ Append(s, m)[Len(s) + 1] = m /\ DOMAIN s = 1..Len(s)
         /\ DOMAIN Append(s, m) = 1..(Len(s) + 1)
         /\ \A i \in 1..Len(s) : Append(s, m)[i] = s[i] /\ s[i] \in SubMessage
OBVIOUS

\* What messages there are.
LEMMA KindsOfMessages ==
  /\ Say("note") \in SubMessage /\ Say("note").kind = "note"
  /\ \A p \in Nat : ResultWith(p) \in SubMessage /\ ResultWith(p).kind = "result"
  /\ \A k \in Nat : Asks(k) \in SubMessage /\ Asks(k).kind = "calls" /\ Asks(k).n = k
BY DEF Say, Asks, ResultWith, SubMessage

\* Two at once are one after the other.
LEMMA TwoMore ==
  ASSUME NEW s \in Seq(SubMessage), NEW a \in SubMessage, NEW b \in SubMessage
  PROVE  s \o <<a, b>> = Append(Append(s, a), b)
OBVIOUS

\* Three at once, too.
LEMMA ThreeMore ==
  ASSUME NEW s \in Seq(SubMessage), NEW a \in SubMessage, NEW b \in SubMessage, NEW c \in SubMessage
  PROVE  s \o <<a, b, c>> = Append(Append(Append(s, a), b), c)
OBVIOUS

\* Calls that are asked for lack their results.
LEMMA RoundOpens ==
  ASSUME NEW s, Sound(s), Answered(s), EndsWithNote(s), NEW k \in Nat \ {0}
  PROVE  Sound(Append(s, Asks(k))) /\ Lacking(Append(s, Asks(k)), k)
<1> DEFINE m == Asks(k)
           t == Append(s, m)
<1>1. m \in SubMessage /\ m.kind = "calls" /\ m.n = k /\ k >= 1
  BY KindsOfMessages
<1> HIDE DEF m
<1>2. /\ s \in Seq(SubMessage) /\ t \in Seq(SubMessage) /\ Len(t) = Len(s) + 1 /\ Len(s) \in Nat
      /\ t[Len(s) + 1] = m /\ DOMAIN s = 1..Len(s) /\ DOMAIN t = 1..(Len(s) + 1)
      /\ \A i \in 1..Len(s) : t[i] = s[i] /\ s[i] \in SubMessage
  BY <1>1, OneMore DEF Sound
<1> HIDE DEF t
<1>3. Sound(t)
  BY <1>1, <1>2 DEF Sound
<1>4. ASSUME NEW i \in 1..Len(s)
      PROVE  /\ t[i].kind = "calls" =>
                  /\ i + t[i].n < Len(t)
                  /\ \A d \in 1..t[i].n : i + d <= Len(t) => t[i + d].kind = "result"
                  /\ i + t[i].n + 1 <= Len(t) => t[i + t[i].n + 1].kind = "note"
             /\ t[i].kind = "note" /\ i + 1 <= Len(t) => t[i + 1].kind \in {"note", "calls"}
  <2>1. CASE s[i].kind = "calls"
    <3> DEFINE n == s[i].n
    <3>a. i \in DOMAIN s /\ t[i] = s[i] /\ s[i] \in SubMessage
      BY <1>2
    <3>b. n \in Nat /\ n >= 1
      BY <2>1, <3>a DEF Sound, SubMessage
    <3>c. /\ i + n <= Len(s) /\ \A d \in 1..n : s[i + d].kind = "result"
          /\ i + n + 1 <= Len(s) => s[i + n + 1].kind = "note"
      BY <2>1, <3>a DEF Answered
    <3>d. t[i].n = n
      BY <3>a
    <3> HIDE DEF n
    <3>1. \A d \in 1..n : i + d \in 1..Len(s)
      BY <1>2, <3>b, <3>c
    <3>2. i + n # Len(s)
      <4>1. n \in 1..n
        BY <3>b
      <4> QED BY <3>c, <4>1 DEF EndsWithNote
    <3>3. \A d \in 1..n : i + d <= Len(t) => t[i + d].kind = "result"
      BY <1>2, <3>1, <3>c
    <3>4. i + n < Len(t) /\ i + n + 1 <= Len(s)
      BY <1>2, <3>b, <3>c, <3>2
    <3>5. i + n + 1 <= Len(t) => t[i + n + 1].kind = "note"
      BY <1>2, <3>b, <3>c, <3>4
    <3> QED BY <2>1, <3>a, <3>d, <3>3, <3>4, <3>5
  <2>2. CASE s[i].kind = "note"
    BY <1>1, <1>2, <2>2 DEF Answered
  <2>3. CASE s[i].kind \notin {"calls", "note"}
    BY <1>2, <2>3
  <2> QED BY <2>1, <2>2, <2>3
<1>5. Lacking(t, k)
  BY <1>1, <1>2, <1>4 DEF Lacking
<1> QED BY <1>3, <1>5 DEF m, t

\* A result comes, and one fewer is lacking.
LEMMA ResultComes ==
  ASSUME NEW s, Sound(s), NEW k \in Nat \ {0}, Lacking(s, k), NEW pictures \in 0..1
  PROVE  /\ Sound(Append(s, ResultWith(pictures)))
         /\ k > 1 => Lacking(Append(s, ResultWith(pictures)), k - 1)
         /\ k = 1 => Answered(Append(s, ResultWith(pictures)))
<1> DEFINE m == ResultWith(pictures)
           t == Append(s, m)
<1>1. m \in SubMessage /\ m.kind = "result"
  BY KindsOfMessages
<1> HIDE DEF m
<1>2. /\ s \in Seq(SubMessage) /\ t \in Seq(SubMessage) /\ Len(t) = Len(s) + 1 /\ Len(s) \in Nat
      /\ t[Len(s) + 1] = m /\ DOMAIN s = 1..Len(s) /\ DOMAIN t = 1..(Len(s) + 1)
      /\ \A i \in 1..Len(s) : t[i] = s[i] /\ s[i] \in SubMessage
  BY <1>1, OneMore DEF Sound
<1> HIDE DEF t
<1>3. Sound(t)
  BY <1>1, <1>2 DEF Sound
<1>4. ASSUME NEW i \in 1..Len(s)
      PROVE  /\ t[i].kind = "calls" =>
                  /\ i + t[i].n < Len(s) \/ i + t[i].n = Len(s) + k
                  /\ t[i].n \in Nat
                  /\ \A d \in 1..t[i].n : i + d <= Len(t) => t[i + d].kind = "result"
                  /\ i + t[i].n + 1 <= Len(t) => t[i + t[i].n + 1].kind = "note"
             /\ t[i].kind = "note" /\ i + 1 <= Len(t) => t[i + 1].kind \in {"note", "calls"}
  <2>1. CASE s[i].kind = "calls"
    <3> DEFINE n == s[i].n
    <3>a. i \in DOMAIN s /\ t[i] = s[i] /\ s[i] \in SubMessage
      BY <1>2
    <3>b. n \in Nat
      BY <2>1, <3>a DEF SubMessage
    <3>c. /\ i + n < Len(s) \/ i + n = Len(s) + k
          /\ \A d \in 1..n : i + d <= Len(s) => s[i + d].kind = "result"
          /\ i + n + 1 <= Len(s) => s[i + n + 1].kind = "note"
      BY <2>1, <3>a DEF Lacking
    <3>d. t[i].n = n
      BY <3>a
    <3> HIDE DEF n
    <3>1. \A d \in 1..n : i + d <= Len(t) => t[i + d].kind = "result"
      <4> SUFFICES ASSUME NEW d \in 1..n, i + d <= Len(t) PROVE t[i + d].kind = "result"
        OBVIOUS
      <4>1. i + d \in 1..(Len(s) + 1)
        BY <1>2, <3>b
      <4>2. CASE i + d \in 1..Len(s)
        BY <1>2, <3>c, <4>2
      <4>3. CASE i + d = Len(s) + 1
        BY <1>1, <1>2, <4>3
      <4> QED BY <1>2, <4>1, <4>2, <4>3
    <3>2. i + n + 1 <= Len(t) => t[i + n + 1].kind = "note"
      BY <1>2, <3>b, <3>c
    <3> QED BY <2>1, <3>a, <3>b, <3>c, <3>d, <3>1, <3>2
  <2>2. CASE s[i].kind = "note"
    BY <1>1, <1>2, <2>2 DEF Lacking
  <2>3. CASE s[i].kind \notin {"calls", "note"}
    BY <1>2, <2>3
  <2> QED BY <2>1, <2>2, <2>3
<1>5. ASSUME k > 1 PROVE Lacking(t, k - 1)
  <2>1. Len(t) >= 1 /\ t[Len(t)].kind # "note"
    BY <1>1, <1>2
  <2>2. ASSUME NEW i \in DOMAIN t
        PROVE  /\ t[i].kind = "calls" =>
                    /\ i + t[i].n < Len(t) \/ i + t[i].n = Len(t) + (k - 1)
                    /\ \A d \in 1..t[i].n : i + d <= Len(t) => t[i + d].kind = "result"
                    /\ i + t[i].n + 1 <= Len(t) => t[i + t[i].n + 1].kind = "note"
               /\ t[i].kind = "note" /\ i + 1 <= Len(t) => t[i + 1].kind \in {"note", "calls"}
    <3>1. CASE i \in 1..Len(s)
      <4>1. t[i].kind = "calls" => i + t[i].n < Len(t) \/ i + t[i].n = Len(t) + (k - 1)
        BY <1>1, <1>2, <1>4, <3>1
      <4> QED BY <1>4, <3>1, <4>1
    <3>2. CASE i \notin 1..Len(s)
      BY <1>1, <1>2, <3>2
    <3> QED BY <3>1, <3>2
  <2> QED BY <2>1, <2>2 DEF Lacking
<1>6. ASSUME k = 1 PROVE Answered(t)
  <2>1. ASSUME NEW i \in DOMAIN t
        PROVE  /\ t[i].kind = "calls" =>
                    /\ i + t[i].n <= Len(t)
                    /\ \A d \in 1..t[i].n : t[i + d].kind = "result"
                    /\ i + t[i].n + 1 <= Len(t) => t[i + t[i].n + 1].kind = "note"
               /\ t[i].kind = "note" /\ i + 1 <= Len(t) => t[i + 1].kind \in {"note", "calls"}
    <3>1. CASE i \in 1..Len(s)
      <4>1. ASSUME t[i].kind = "calls"
            PROVE  i + t[i].n <= Len(t) /\ \A d \in 1..t[i].n : i + d <= Len(t)
        BY <1>2, <1>4, <1>6, <3>1, <4>1
      <4> QED BY <1>4, <3>1, <4>1
    <3>2. CASE i \notin 1..Len(s)
      BY <1>1, <1>2, <3>2
    <3> QED BY <3>1, <3>2
  <2> QED BY <2>1 DEF Answered
<1> QED BY <1>3, <1>5, <1>6 DEF m, t

\* A note may follow whatever is answered.
LEMMA NoteComes ==
  ASSUME NEW s, Sound(s), Answered(s)
  PROVE  /\ Sound(Append(s, Say("note"))) /\ Answered(Append(s, Say("note")))
         /\ EndsWithNote(Append(s, Say("note")))
<1> DEFINE m == Say("note")
           t == Append(s, m)
<1>1. m \in SubMessage /\ m.kind = "note"
  BY KindsOfMessages
<1> HIDE DEF m
<1>2. /\ s \in Seq(SubMessage) /\ t \in Seq(SubMessage) /\ Len(t) = Len(s) + 1 /\ Len(s) \in Nat
      /\ t[Len(s) + 1] = m /\ DOMAIN s = 1..Len(s) /\ DOMAIN t = 1..(Len(s) + 1)
      /\ \A i \in 1..Len(s) : t[i] = s[i] /\ s[i] \in SubMessage
  BY <1>1, OneMore DEF Sound
<1> HIDE DEF t
<1>3. Sound(t) /\ EndsWithNote(t)
  BY <1>1, <1>2 DEF Sound, EndsWithNote
<1>4. ASSUME NEW i \in 1..Len(s)
      PROVE  /\ t[i].kind = "calls" =>
                  /\ i + t[i].n <= Len(t)
                  /\ \A d \in 1..t[i].n : t[i + d].kind = "result"
                  /\ i + t[i].n + 1 <= Len(t) => t[i + t[i].n + 1].kind = "note"
             /\ t[i].kind = "note" /\ i + 1 <= Len(t) => t[i + 1].kind \in {"note", "calls"}
  <2>1. CASE s[i].kind = "calls"
    <3> DEFINE n == s[i].n
    <3>a. i \in DOMAIN s /\ t[i] = s[i] /\ s[i] \in SubMessage
      BY <1>2
    <3>b. n \in Nat /\ n >= 1
      BY <2>1, <3>a DEF Sound, SubMessage
    <3>c. /\ i + n <= Len(s) /\ \A d \in 1..n : s[i + d].kind = "result"
          /\ i + n + 1 <= Len(s) => s[i + n + 1].kind = "note"
      BY <2>1, <3>a DEF Answered
    <3>d. t[i].n = n
      BY <3>a
    <3> HIDE DEF n
    <3>1. \A d \in 1..n : i + d \in 1..Len(s)
      BY <1>2, <3>b, <3>c
    <3>3. \A d \in 1..n : t[i + d].kind = "result"
      BY <1>2, <3>1, <3>c
    <3>4. i + n + 1 <= Len(t) => t[i + n + 1].kind = "note"
      BY <1>1, <1>2, <3>b, <3>c
    <3> QED BY <1>2, <2>1, <3>a, <3>b, <3>c, <3>d, <3>3, <3>4
  <2>2. CASE s[i].kind = "note"
    BY <1>1, <1>2, <2>2 DEF Answered
  <2>3. CASE s[i].kind \notin {"calls", "note"}
    BY <1>2, <2>3
  <2> QED BY <2>1, <2>2, <2>3
<1>5. Answered(t)
  BY <1>1, <1>2, <1>4 DEF Answered
<1> QED BY <1>3, <1>5 DEF m, t

\* The first message.
LEMMA FirstNote ==
  Sound(<<Say("note")>>) /\ Answered(<<Say("note")>>) /\ EndsWithNote(<<Say("note")>>)
<1> DEFINE m == Say("note")
<1>1. m \in SubMessage /\ m.kind = "note"
  BY KindsOfMessages
<1> HIDE DEF m
<1>2. Sound(<<m>>) /\ EndsWithNote(<<m>>)
  BY <1>1 DEF Sound, EndsWithNote
<1>3. Answered(<<m>>)
  BY <1>1 DEF Answered
<1> QED BY <1>2, <1>3 DEF m
-----------------------------------------------------------------------------
(* The newest rounds                                                        *)

\* A set of numbers up to n has a greatest one.
LEMMA GreatestOf ==
  ASSUME NEW n \in Nat, NEW S \in SUBSET (1..n), S # {}
  PROVE  \E x \in S : \A m \in S : m <= x
<1> DEFINE D == {n - x : x \in S}
<1>1. D \in SUBSET Nat /\ D # {}
  <2>1. \A x \in S : x \in Int /\ n - x \in Nat
    OBVIOUS
  <2>2. D \in SUBSET Nat
    BY <2>1
  <2>3. PICK x \in S : TRUE
    OBVIOUS
  <2>4. n - x \in D
    BY <2>3
  <2> QED BY <2>2, <2>4
<1>2. PICK d \in D : \A e \in D : d <= e
  <2> HIDE DEF D
  <2> QED BY <1>1, LeastOf
<1>3. PICK x \in S : d = n - x
  BY <1>2
<1>4. \A m \in S : n - x <= n - m /\ m \in Int
  BY <1>2, <1>3
<1> QED BY <1>3, <1>4

AtOrAbove(R, i) == {q \in R : q > i}
Newest(R, k) == {r \in R : Cardinality(AtOrAbove(R, r)) < k}

\* The newest k rounds are k, or all.
LEMMA NewestAreCounted ==
  ASSUME NEW n \in Nat, NEW R \in SUBSET (1..n), NEW k \in Nat \ {0}
  PROVE  /\ Cardinality(Newest(R, k)) = IF Cardinality(R) < k THEN Cardinality(R) ELSE k
         /\ \A r \in Newest(R, k), q \in R \ Newest(R, k) : q < r
<1> DEFINE T == Newest(R, k)
<1>1. IsFiniteSet(1..n) /\ n \in Int /\ 1 \in Int
  BY FS_Interval
<1>2. IsFiniteSet(R)
  BY <1>1, FS_Subset
<1>3. \A A \in SUBSET R : IsFiniteSet(A) /\ Cardinality(A) \in Nat /\ Cardinality(A) <= Cardinality(R)
  BY <1>2, FS_Subset, FS_CardinalityType
<1>4. \A i : AtOrAbove(R, i) \in SUBSET R
  BY DEF AtOrAbove
<1>5. T \in SUBSET R /\ Cardinality(R) \in Nat
  BY <1>3 DEF Newest
<1>6. \A r \in R : r \in T <=> Cardinality(AtOrAbove(R, r)) < k
  BY DEF Newest
<1> HIDE DEF T
<1>7. ASSUME NEW r \in T, NEW q \in R \ T PROVE q < r
  <2>1. r \in R /\ r \in Nat /\ q \in Nat
    BY <1>5
  <2>2. SUFFICES ASSUME r <= q PROVE FALSE
    BY <2>1
  <2>3. AtOrAbove(R, q) \in SUBSET AtOrAbove(R, r)
    <3>1. \A x \in R : x > q => x > r
      BY <2>1, <2>2
    <3> QED BY <3>1 DEF AtOrAbove
  <2>4. IsFiniteSet(AtOrAbove(R, r)) /\ Cardinality(AtOrAbove(R, r)) \in Nat
        /\ Cardinality(AtOrAbove(R, q)) \in Nat
    BY <1>3, <1>4
  <2>5. Cardinality(AtOrAbove(R, q)) <= Cardinality(AtOrAbove(R, r))
    BY <2>3, <2>4, FS_Subset
  <2> QED BY <1>6, <1>7, <2>1, <2>4, <2>5
<1>8. Cardinality(T) <= k
  <2>1. CASE T = {}
    BY <2>1, FS_EmptySet
  <2>2. CASE T # {}
    <3>1. T \in SUBSET Nat
      BY <1>5
    <3>2. PICK t \in T : \A m \in T : t <= m
      BY <2>2, <3>1, LeastOf
    <3>3. T \in SUBSET (AtOrAbove(R, t) \cup {t})
      BY <1>5, <3>1, <3>2 DEF AtOrAbove
    <3>4. IsFiniteSet(AtOrAbove(R, t)) /\ Cardinality(AtOrAbove(R, t)) \in Nat
      BY <1>3, <1>4
    <3>5. t \notin AtOrAbove(R, t)
      BY <3>1 DEF AtOrAbove
    <3>6. /\ IsFiniteSet(AtOrAbove(R, t) \cup {t})
          /\ Cardinality(AtOrAbove(R, t) \cup {t}) = Cardinality(AtOrAbove(R, t)) + 1
      BY <3>4, <3>5, FS_AddElement
    <3> DEFINE U == AtOrAbove(R, t) \cup {t}
    <3>7. Cardinality(T) <= Cardinality(U)
      <4>1. IsFiniteSet(U) /\ T \in SUBSET U
        BY <3>3, <3>6
      <4> HIDE DEF U
      <4> QED BY <4>1, FS_Subset
    <3>8. Cardinality(T) \in Nat
      BY <1>3, <1>5
    <3> QED BY <1>5, <1>6, <3>2, <3>4, <3>6, <3>7, <3>8
  <2> QED BY <2>1, <2>2
<1>9. Cardinality(T) <= Cardinality(R) /\ Cardinality(T) \in Nat
  BY <1>3, <1>5
<1>10. T = R \/ Cardinality(T) >= k
  <2> SUFFICES ASSUME T # R PROVE Cardinality(T) >= k
    OBVIOUS
  <2>1. R \ T \in SUBSET (1..n) /\ R \ T # {}
    BY <1>5
  <2>2. PICK m \in R \ T : \A q \in R \ T : q <= m
    BY <2>1, GreatestOf
  <2>3. AtOrAbove(R, m) \in SUBSET T
    BY <2>1, <2>2 DEF AtOrAbove
  <2>4. Cardinality(AtOrAbove(R, m)) <= Cardinality(T) /\ Cardinality(AtOrAbove(R, m)) \in Nat
    BY <1>3, <1>4, <1>5, <2>3, FS_Subset
  <2> QED BY <1>6, <1>9, <2>2, <2>4
<1>11. T = R => Cardinality(T) = Cardinality(R)
  OBVIOUS
<1>12. Cardinality(T) = IF Cardinality(R) < k THEN Cardinality(R) ELSE k
  BY <1>5, <1>8, <1>9, <1>10, <1>11
<1> QED BY <1>7, <1>12 DEF T

\* A request is what the API takes, with the newest rounds in full.
LEMMA RequestsAreTrimmed ==
  ASSUME NEW s, Sound(s), Answered(s)
  PROVE  LET request == Trimmed(s) IN
         /\ AnsweredInPlace(s) /\ AnsweredInPlace(request)
         /\ \A i \in DOMAIN s : request[i].n = s[i].n
         /\ Cardinality(InFull(request)) = (IF Cardinality(CallRounds(request)) < RecentRounds
                                         THEN Cardinality(CallRounds(request)) ELSE RecentRounds)
         /\ \A r \in InFull(request), q \in CallRounds(request) \ InFull(request) : q < r
<1> DEFINE request == Trimmed(s)
           R == CallRounds(s)
<1>1. s \in Seq(SubMessage) /\ DOMAIN s = 1..Len(s) /\ Len(s) \in Nat /\ RecentRounds \in Nat \ {0}
  BY SubAgentAssumption DEF Sound
<1>2. R \in SUBSET (1..Len(s)) /\ \A r \in 1..Len(s) : r \in R <=> s[r].kind = "calls"
  BY <1>1 DEF CallRounds
<1>3. /\ DOMAIN request = 1..Len(s)
      /\ \A i \in 1..Len(s) :
           request[i] = IF s[i].kind = "result" /\ ~(Cardinality(AtOrAbove(R, i)) < RecentRounds)
                     THEN [s[i] EXCEPT !.kind = "cleared"] ELSE s[i]
  <2>1. \A i \in 1..Len(s) : Cardinality(AtOrAbove(R, i)) \in Nat
    <3>1. IsFiniteSet(R)
      <4>1. 1 \in Int /\ Len(s) \in Int
        BY <1>1
      <4>2. IsFiniteSet(1..Len(s))
        BY <4>1, FS_Interval
      <4> HIDE DEF R
      <4> QED BY <1>2, <4>2, FS_Subset
    <3>2. \A i : AtOrAbove(R, i) \in SUBSET R
      BY DEF AtOrAbove
    <3> HIDE DEF R
    <3> QED BY <3>1, <3>2, FS_Subset, FS_CardinalityType
  <2>2. request = [i \in 1..Len(s) |-> IF s[i].kind = "result" /\ Cardinality(AtOrAbove(R, i)) >= RecentRounds
                                    THEN [s[i] EXCEPT !.kind = "cleared"] ELSE s[i]]
    BY <1>1 DEF Trimmed, AtOrAbove
  <2> HIDE DEF R, request
  <2> QED BY <1>1, <2>1, <2>2
<1>4. \A m \in SubMessage : [m EXCEPT !.kind = "cleared"].kind = "cleared" /\ [m EXCEPT !.kind = "cleared"].n = m.n
  BY DEF SubMessage
<1> HIDE DEF request, R
<1>5. \A i \in 1..Len(s) :
        /\ s[i] \in SubMessage /\ s[i].n \in Nat /\ s[i].kind \in {"note", "calls", "result"}
        /\ request[i].kind = "calls" <=> s[i].kind = "calls"
        /\ request[i].kind = "note" <=> s[i].kind = "note"
        /\ s[i].kind = "calls" => request[i] = s[i]
        /\ request[i].n = s[i].n
        /\ s[i].kind = "result" => request[i].kind \in {"result", "cleared"}
        /\ s[i].kind = "result" =>
             (request[i].kind = "result" <=> Cardinality(AtOrAbove(R, i)) < RecentRounds)
  <2> SUFFICES ASSUME NEW i \in 1..Len(s)
               PROVE  /\ s[i] \in SubMessage /\ s[i].n \in Nat /\ s[i].kind \in {"note", "calls", "result"}
                      /\ request[i].kind = "calls" <=> s[i].kind = "calls"
                      /\ request[i].kind = "note" <=> s[i].kind = "note"
                      /\ s[i].kind = "calls" => request[i] = s[i]
                      /\ request[i].n = s[i].n
                      /\ s[i].kind = "result" => request[i].kind \in {"result", "cleared"}
                      /\ s[i].kind = "result" =>
                           (request[i].kind = "result" <=> Cardinality(AtOrAbove(R, i)) < RecentRounds)
    OBVIOUS
  <2>1. s[i] \in SubMessage
    BY <1>1
  <2>2. s[i].n \in Nat /\ s[i].kind \in {"note", "calls", "result"}
    BY <2>1 DEF SubMessage
  <2> QED BY <1>3, <1>4, <2>1, <2>2
<1>6. \A i \in 1..Len(s) : s[i].kind = "calls" =>
        /\ s[i].n \in Nat /\ s[i].n >= 1
        /\ \A d \in 1..s[i].n : i + d \in 1..Len(s) /\ s[i + d].kind = "result"
        /\ i + s[i].n + 1 \in 1..Len(s) => s[i + s[i].n + 1].kind = "note"
  <2> SUFFICES ASSUME NEW i \in 1..Len(s), s[i].kind = "calls"
               PROVE  /\ s[i].n \in Nat /\ s[i].n >= 1
                      /\ \A d \in 1..s[i].n : i + d \in 1..Len(s) /\ s[i + d].kind = "result"
                      /\ i + s[i].n + 1 \in 1..Len(s) => s[i + s[i].n + 1].kind = "note"
    OBVIOUS
  <2> DEFINE n == s[i].n
  <2>1. n \in Nat /\ n >= 1
    BY <1>1, <1>5 DEF Sound
  <2>2. /\ i + n <= Len(s) /\ \A d \in 1..n : s[i + d].kind = "result"
        /\ i + n + 1 <= Len(s) => s[i + n + 1].kind = "note"
    BY <1>1 DEF Answered
  <2> HIDE DEF n
  <2>3. \A d \in 1..n : i + d \in 1..Len(s)
    BY <1>1, <2>1, <2>2
  <2>4. i + n + 1 \in 1..Len(s) => s[i + n + 1].kind = "note"
    BY <1>1, <2>1, <2>2
  <2> QED BY <2>1, <2>2, <2>3, <2>4 DEF n
<1>7. \A i \in 1..Len(s) : s[i].kind = "note" /\ i + 1 \in 1..Len(s) => s[i + 1].kind \in {"note", "calls"}
  BY <1>1 DEF Answered
<1>8. AnsweredInPlace(s)
  BY <1>1, <1>6, <1>7 DEF AnsweredInPlace
<1>9. AnsweredInPlace(request)
  <2>1. ASSUME NEW i \in 1..Len(s), request[i].kind = "calls"
        PROVE  /\ \A d \in 1..request[i].n : i + d \in 1..Len(s) /\ request[i + d].kind \in {"result", "cleared"}
               /\ i + request[i].n + 1 \in 1..Len(s) => request[i + request[i].n + 1].kind = "note"
    <3>1. s[i].kind = "calls" /\ request[i].n = s[i].n
      BY <1>5, <2>1
    <3>2. ASSUME NEW d \in 1..s[i].n
          PROVE  i + d \in 1..Len(s) /\ request[i + d].kind \in {"result", "cleared"}
      <4>1. i + d \in 1..Len(s) /\ s[i + d].kind = "result"
        BY <1>6, <3>1
      <4> QED BY <1>5, <4>1
    <3>3. ASSUME i + s[i].n + 1 \in 1..Len(s) PROVE request[i + s[i].n + 1].kind = "note"
      <4>1. s[i + s[i].n + 1].kind = "note"
        BY <1>6, <3>1, <3>3
      <4> QED BY <1>5, <3>3, <4>1
    <3> QED BY <3>1, <3>2, <3>3
  <2>2. ASSUME NEW i \in 1..Len(s), request[i].kind = "note", i + 1 \in 1..Len(s)
        PROVE  request[i + 1].kind \in {"note", "calls"}
    BY <1>5, <1>7, <2>2
  <2> QED BY <1>3, <2>1, <2>2 DEF AnsweredInPlace
<1>10. CallRounds(request) = R
  BY <1>1, <1>2, <1>3, <1>5 DEF CallRounds
<1>11. InFull(request) = Newest(R, RecentRounds)
  <2>1. ASSUME NEW r \in R
        PROVE  request[r + 1].kind = "result" <=> Cardinality(AtOrAbove(R, r)) < RecentRounds
    <3>1. r \in 1..Len(s) /\ s[r].kind = "calls" /\ R \in SUBSET Int
      BY <1>2
    <3>2. 1 \in 1..s[r].n
      BY <1>6, <3>1
    <3>3. r + 1 \in 1..Len(s) /\ s[r + 1].kind = "result"
      BY <1>6, <3>1, <3>2
    <3>4. r + 1 \notin R
      BY <1>2, <3>3
    <3>5. AtOrAbove(R, r) = AtOrAbove(R, r + 1)
      <4>1. \A q \in R : q > r <=> q > r + 1
        BY <3>1, <3>4
      <4> QED BY <4>1 DEF AtOrAbove
    <3> QED BY <1>5, <3>3, <3>5
  <2>2. InFull(request) = {r \in R : request[r + 1].kind = "result"}
    BY <1>10 DEF InFull
  <2> QED BY <2>1, <2>2 DEF Newest
<1>12. /\ Cardinality(Newest(R, RecentRounds)) = IF Cardinality(R) < RecentRounds THEN Cardinality(R) ELSE RecentRounds
       /\ \A r \in Newest(R, RecentRounds), q \in R \ Newest(R, RecentRounds) : q < r
  BY <1>1, <1>2, NewestAreCounted
<1> QED BY <1>1, <1>5, <1>8, <1>9, <1>10, <1>11, <1>12 DEF request

-----------------------------------------------------------------------------
(* The subagent                                                             *)

AllCalls == UNION {ToSet(b) : b \in CallBatches}

SubInv ==
    /\ at \in {"none", "ask", "exec", "exit", "sum", "final", "done"} /\ after \in {"sum", "final"}
    /\ Sound(messages)
    /\ at \in {"ask", "exit", "sum", "final"} => Answered(messages)
    /\ at = "ask" => EndsWithNote(messages)
    /\ at = "exec" => callsLeft \in Seq(AllCalls) /\ callsLeft # <<>> /\ Lacking(messages, Len(callsLeft))
    /\ at \notin {"none", "done"} => reason \in {"running", "tool_loop"}
    /\ at \in {"none", "done"} =>
        /\ reason = "completed" <=> text = "answer"
        /\ reason \notin {"completed", "error", "idle"} => text \in {"summary", "default"}
    /\ at = "done" => reason # "idle"
    /\ at # "none" => report = "none"
    /\ report # "none" => report = StatusOf(reason) /\ reason # "idle"
    /\ ran = called \cup forced

\* What the invariant is for.
LEMMA SubInvIsEnough == SubInv => RequestsAreSound /\ ReportIsHonest
<1> SUFFICES ASSUME SubInv PROVE RequestsAreSound /\ ReportIsHonest
  OBVIOUS
<1>1. ReportIsHonest
  BY DEF SubInv, ReportIsHonest, StatusOf
<1>2. at \in {"ask", "exit", "sum", "final"} => Sound(messages) /\ Answered(messages)
  BY DEF SubInv
<1>3. RequestsAreSound
  BY <1>2, RequestsAreTrimmed DEF RequestsAreSound
<1> QED BY <1>1, <1>3

\* No run yet.
LEMMA SubBeginsIt == SubInit => SubInv
<1> SUFFICES ASSUME SubInit PROVE SubInv
  OBVIOUS
<1>1. Sound(messages)
  BY DEF SubInit, Sound
<1> QED BY <1>1 DEF SubInit, SubInv

\* Whatever the loop does keeps the invariant.
LEMMA SubStepInv == SubInv /\ [SubNext]_subVars => SubInv'
<1> SUFFICES ASSUME SubInv, [SubNext]_subVars PROVE SubInv'
  OBVIOUS
<1> USE DEF looping, tools, ending, owner
<1>1. CASE SubBegins
  <2>1. (Sound(messages) /\ Answered(messages) /\ EndsWithNote(messages))'
    BY <1>1, FirstNote DEF SubBegins
  <2> QED BY <1>1, <2>1 DEF SubBegins, SubInv
<1>2. CASE SubRequestFails
  BY <1>2 DEF SubRequestFails, End, SubInv
<1>3. CASE SubAnswers
  BY <1>3 DEF SubAnswers, End, SubInv
<1>4. ASSUME NEW batch \in CallBatches, SubCalls(batch) PROVE SubInv'
  <2>1. batch \in Seq(AllCalls) /\ batch # <<>> /\ Len(batch) \in Nat \ {0}
    <3>1. batch # <<>> /\ batch \in Seq(ToSet(batch))
      BY SubAgentAssumption
    <3>2. \A i \in 1..Len(batch) : batch[i] \in AllCalls
      BY <3>1 DEF AllCalls, ToSet
    <3>3. batch \in [1..Len(batch) -> AllCalls] /\ Len(batch) \in Nat
      BY <3>1, <3>2
    <3> QED BY <3>1, <3>3
  <2>2. Sound(messages) /\ Answered(messages) /\ EndsWithNote(messages) /\ at = "ask"
    BY <1>4 DEF SubCalls, SubInv
  <2>3. Sound(Append(messages, Asks(Len(batch)))) /\ Lacking(Append(messages, Asks(Len(batch))), Len(batch))
    BY <2>1, <2>2, RoundOpens
  <2>4. /\ \/ /\ at' \in {"sum", "exit"} /\ after' = "sum" /\ reason' = "tool_loop" /\ messages' = messages
           \/ /\ at' = "exec" /\ callsLeft' = batch /\ UNCHANGED <<after, reason>>
              /\ messages' = Append(messages, Asks(Len(batch)))
        /\ UNCHANGED <<text, report, called, ran, forced>>
    BY <1>4 DEF SubCalls, WindUp
  <2> QED BY <2>1, <2>2, <2>3, <2>4 DEF SubInv
<1>5. CASE SubCallReturns
  <2>0. PICK status \in Endings, pictures \in 0..1 :
          LET name == Head(callsLeft).tool
          IN  /\ Runs(name, status, pictures) /\ forced' = forced
              /\ called' = IF status = "success" THEN called \cup {name} ELSE called
              /\ messages' = IF callsLeft' # <<>> THEN Append(messages, ResultWith(pictures))
                             ELSE messages \o <<ResultWith(pictures), Say("note")>>
    BY <1>5 DEF SubCallReturns
  <2> DEFINE k == Len(callsLeft)
             one == Append(messages, ResultWith(pictures))
             two == Append(one, Say("note"))
  <2>1. /\ at = "exec" /\ callsLeft \in Seq(AllCalls) /\ callsLeft # <<>> /\ Sound(messages)
        /\ Lacking(messages, k)
    BY <1>5 DEF SubCallReturns, SubInv
  <2>2. k \in Nat \ {0} /\ callsLeft' \in Seq(AllCalls) /\ Len(callsLeft') = k - 1
        /\ (callsLeft' = <<>> <=> k = 1)
    <3>1. callsLeft' = Tail(callsLeft)
      BY <1>5 DEF SubCallReturns
    <3>2. callsLeft' \in Seq(AllCalls) /\ Len(callsLeft') = k - 1 /\ k \in Nat \ {0}
      BY <2>1, <3>1
    <3> HIDE DEF k
    <3>3. callsLeft' = <<>> <=> Len(callsLeft') = 0
      BY <3>2
    <3> QED BY <3>2, <3>3
  <2> HIDE DEF k
  <2>3. Sound(one) /\ (k > 1 => Lacking(one, k - 1)) /\ (k = 1 => Answered(one))
    BY <2>1, <2>2, ResultComes
  <2>4. k = 1 => Sound(two) /\ Answered(two) /\ EndsWithNote(two)
    BY <2>3, NoteComes
  <2>5. messages \o <<ResultWith(pictures), Say("note")>> = two
    <3>1. messages \in Seq(SubMessage) /\ ResultWith(pictures) \in SubMessage /\ Say("note") \in SubMessage
      BY <2>1, KindsOfMessages DEF Sound
    <3> QED BY <3>1, TwoMore
  <2>6. (ran = called \cup forced)'
    <3>1. ran = called \cup forced
      BY DEF SubInv
    <3> QED BY <2>0, <3>1 DEF Runs, Executed, PreHooks
  <2> HIDE DEF one, two
  <2>7. /\ \/ callsLeft' # <<>> /\ messages' = one /\ UNCHANGED <<at, after>>
           \/ /\ callsLeft' = <<>> /\ messages' = two
              /\ \/ at' = "ask" /\ UNCHANGED after
                 \/ at' \in {"final", "exit"} /\ after' = "final"
        /\ UNCHANGED <<reason, text, report>>
    BY <1>5, <2>0, <2>5 DEF SubCallReturns, WindUp, one
  <2> QED BY <2>1, <2>2, <2>3, <2>4, <2>6, <2>7 DEF SubInv
<1>6. CASE ExitTool
  <2>1. at = "exit" /\ Sound(messages) /\ Answered(messages) /\ after \in {"sum", "final"}
    BY <1>6 DEF ExitTool, SubInv
  <2> DEFINE one == Append(messages, Say("note"))
             two == Append(one, Asks(1))
             three(p) == Append(two, ResultWith(p))
  <2>2. Sound(one) /\ Answered(one) /\ EndsWithNote(one)
    BY <2>1, NoteComes
  <2>3. Sound(two) /\ Lacking(two, 1)
    <3> HIDE DEF one
    <3> QED BY <2>2, RoundOpens
  <2>4. ASSUME NEW p \in 0..1
        PROVE  /\ Sound(three(p)) /\ Answered(three(p))
               /\ messages \o <<Say("note"), Asks(1), ResultWith(p)>> = three(p)
    <3>1. Sound(three(p)) /\ Answered(three(p))
      <4> HIDE DEF two
      <4> QED BY <2>3, ResultComes
    <3>2. messages \in Seq(SubMessage) /\ ResultWith(p) \in SubMessage /\ Say("note") \in SubMessage /\ Asks(1) \in SubMessage
      BY <2>1, KindsOfMessages DEF Sound
    <3>3. messages \o <<Say("note"), Asks(1), ResultWith(p)>> = three(p)
      BY <3>2, ThreeMore
    <3> HIDE DEF three
    <3> QED BY <3>1, <3>3
  <2>5. /\ at' \in {"sum", "final", "exit"}
        /\ UNCHANGED <<after, called, reason, text, report>>
    BY <1>6, <2>1 DEF ExitTool
  <2> HIDE DEF one, two, three
  <2>6. CASE messages' = Append(messages, Say("note")) /\ UNCHANGED <<ran, forced>>
    BY <2>1, <2>2, <2>5, <2>6 DEF SubInv, one
  <2>7. ASSUME NEW name, NEW status \in Endings, NEW p \in 0..1, Runs(name, status, p),
               forced' = (IF status = "success" THEN forced \cup {name} ELSE forced),
               messages' = messages \o <<Say("note"), Asks(1), ResultWith(p)>>
        PROVE  SubInv'
    <3>1. Sound(messages') /\ Answered(messages')
      BY <2>4, <2>7
    <3>2. (ran = called \cup forced)'
      <4>1. ran = called \cup forced
        BY DEF SubInv
      <4> QED BY <2>5, <2>7, <4>1 DEF Runs, Executed, PreHooks
    <3> QED BY <2>1, <2>5, <3>1, <3>2 DEF SubInv
  <2> QED BY <1>6, <2>6, <2>7 DEF ExitTool
<1>7. CASE Summarises
  BY <1>7 DEF Summarises, End, SubInv
<1>8. CASE ForcesSummary
  BY <1>8 DEF ForcesSummary, End, SubInv
<1>9. CASE SubRaises
  BY <1>9 DEF SubRaises, End, SubInv
<1>10. CASE SubReports
  BY <1>10 DEF SubReports, SubInv
<1>11. CASE UNCHANGED subVars
  BY <1>11 DEF subVars, SubInv
<1> QED
  BY <1>1, <1>2, <1>3, <1>4, <1>5, <1>6, <1>7, <1>8, <1>9, <1>10, <1>11 DEF SubNext, SubSteps

\* The third repetition ends the loop; only what must be called before the end is left to call.
SubTypes ==
    /\ profile \in Profiles /\ iteration \in 0..MaxSteps
    /\ streak \in 0..CallLimit /\ (at \in {"ask", "exec"} => streak < CallLimit)
    /\ callsLeft \in Seq(AllCalls)
    /\ exits \subseteq ExitsToRun /\ (at # "exit" => exits = {})
    /\ signature \in {NamesOf(b) : b \in CallBatches} \cup {<<>>}
    /\ reason \in Reasons /\ text \in Texts /\ report \in Statuses
    /\ {called, ran, forced} \subseteq SUBSET KnownTools /\ jobCount \in 0..MaxJobs

\* No run yet.
LEMMA SubTypesBegin == SubInit => SubTypes
<1> SUFFICES ASSUME SubInit PROVE SubTypes
  OBVIOUS
<1>1. callsLeft \in Seq(AllCalls) /\ MaxSteps \in Nat /\ MaxJobs \in Nat
  BY SubAgentAssumption DEF SubInit
<1> QED BY <1>1 DEF SubInit, SubTypes, Profiles, CallLimit, Reasons, Texts, Statuses

\* What the invariant is for.
LEMMA SubTypesAreEnough == SubInv /\ SubTypes => SubTypeOK
<1> SUFFICES ASSUME SubInv, SubTypes PROVE SubTypeOK
  OBVIOUS
<1>1. messages \in Seq([kind : {"note", "calls", "result", "cleared"}, n : Nat])
  <2>1. messages \in Seq(SubMessage)
    BY DEF SubInv, Sound
  <2>2. SubMessage \subseteq [kind : {"note", "calls", "result", "cleared"}, n : Nat]
    BY DEF SubMessage
  <2> DEFINE AnyMessage == [kind : {"note", "calls", "result", "cleared"}, n : Nat]
  <2>3. SubMessage \subseteq AnyMessage
    BY <2>2
  <2> HIDE DEF AnyMessage
  <2>4. messages \in Seq(AnyMessage)
    BY <2>1, <2>3
  <2> QED BY <2>4 DEF AnyMessage
<1>2. ASSUME NEW c \in ToSet(callsLeft) PROVE \E b \in CallBatches : c \in ToSet(b)
  <2>1. callsLeft \in Seq(AllCalls)
    BY DEF SubTypes
  <2>2. c \in AllCalls
    BY <1>2, <2>1 DEF ToSet
  <2> QED BY <2>2 DEF AllCalls
<1> QED BY <1>1, <1>2 DEF SubInv, SubTypes, SubTypeOK

\* Whatever the loop does keeps the types.
LEMMA SubTypesStep == SubInv /\ SubTypes /\ [SubNext]_subVars => SubTypes'
<1> SUFFICES ASSUME SubInv, SubTypes, [SubNext]_subVars PROVE SubTypes'
  OBVIOUS
<1> USE DEF looping, tools, ending, owner, SubTypes
<1>0. MaxSteps \in Nat \ {0} /\ MaxJobs \in Nat
  BY SubAgentAssumption
<1>1. CASE SubBegins
  <2>1. UNCHANGED <<callsLeft, exits>> /\ exits = {}
    BY <1>1 DEF SubBegins
  <2>2. called' = {} /\ ran' = {} /\ forced' = {} /\ profile' \in Profiles /\ iteration' = 1 /\ streak' = 0
        /\ signature' = <<>> /\ reason' = "running" /\ text' = "none" /\ report' = "none" /\ jobCount' \in 0..MaxJobs
    BY <1>0, <1>1 DEF SubBegins
  <2> QED BY <1>0, <2>1, <2>2 DEF CallLimit, Reasons, Texts, Statuses
<1>2. CASE SubRequestFails \/ SubAnswers \/ Summarises \/ ForcesSummary
  <2>1. /\ UNCHANGED <<profile, iteration, streak, callsLeft, exits, signature, report, called, ran, forced, jobCount>>
        /\ at' = "done" /\ at # "exit"
        /\ text' \in {"answer", "summary", "default", "empty"}
        /\ reason' \in {reason, "error", "completed", "forced_summary", "forced_summary_fallback"}
    BY <1>2 DEF SubRequestFails, SubAnswers, Summarises, ForcesSummary, End
  <2>2. reason' \in Reasons /\ text' \in Texts
    BY <2>1 DEF Reasons, Texts
  <2> QED BY <2>1, <2>2 DEF KnownTools, ExitsToRun
<1>3. ASSUME NEW batch \in CallBatches, SubCalls(batch) PROVE SubTypes'
  <2>1. batch \in Seq(AllCalls)
    <3>1. batch \in Seq(ToSet(batch)) /\ ToSet(batch) \subseteq AllCalls
      BY SubAgentAssumption DEF AllCalls
    <3> QED BY <3>1
  <2>2. /\ signature' = NamesOf(batch) /\ at = "ask" /\ streak' \in {1, streak + 1} /\ exits = {}
        /\ UNCHANGED <<profile, iteration, text, report, called, ran, forced, jobCount>>
    BY <1>3 DEF SubCalls
  <2>3. streak' \in 0..CallLimit
    BY <2>2 DEF CallLimit
  <2>4. \/ /\ streak' >= CallLimit /\ exits' = ExitsToRun /\ at' = (IF exits' = {} THEN "sum" ELSE "exit")
           /\ reason' = "tool_loop" /\ callsLeft' = callsLeft
        \/ /\ ~(streak' >= CallLimit) /\ at' = "exec" /\ callsLeft' = batch /\ UNCHANGED <<exits, reason>>
    BY <1>3 DEF SubCalls, WindUp
  <2>5. KnownTools' = KnownTools /\ ExitsToRun' = ExitsToRun
    BY <2>2 DEF KnownTools, ExitsToRun
  <2>6. streak' < CallLimit \/ at' \notin {"ask", "exec"}
    BY <2>3, <2>4 DEF CallLimit
  <2>7. reason' \in Reasons /\ callsLeft' \in Seq(AllCalls)
    BY <2>1, <2>4 DEF Reasons
  <2>8. exits' \subseteq ExitsToRun' /\ (at' # "exit" => exits' = {})
    BY <2>2, <2>4, <2>5
  <2> QED BY <2>2, <2>3, <2>5, <2>6, <2>7, <2>8
<1>4. CASE SubCallReturns
  <2>1. /\ at = "exec" /\ callsLeft # <<>> /\ callsLeft' = Tail(callsLeft)
        /\ UNCHANGED <<profile, streak, signature, reason, text, report, jobCount>>
    BY <1>4 DEF SubCallReturns, SubInv
  <2>2. callsLeft' \in Seq(AllCalls)
    BY <2>1
  <2>3. {called', ran', forced'} \subseteq SUBSET KnownTools
    <3>1. PICK status \in Endings, pictures \in 0..1 :
            /\ Runs(Head(callsLeft).tool, status, pictures) /\ forced' = forced
            /\ called' = IF status = "success" THEN called \cup {Head(callsLeft).tool} ELSE called
      BY <1>4 DEF SubCallReturns
    <3> QED BY <3>1 DEF Runs, Executed, PreHooks
  <2>4. \/ UNCHANGED <<at, iteration, exits>>
        \/ iteration' = iteration + 1 /\ iteration < MaxSteps /\ at' = "ask" /\ exits' = exits
        \/ exits' = ExitsToRun /\ at' = (IF exits' = {} THEN "final" ELSE "exit") /\ iteration' = iteration
    BY <1>4 DEF SubCallReturns, WindUp
  <2>5. KnownTools' = KnownTools /\ ExitsToRun' = ExitsToRun
    BY <2>1 DEF KnownTools, ExitsToRun
  <2>6. iteration' \in 0..MaxSteps /\ exits' \subseteq ExitsToRun' /\ (at' # "exit" => exits' = {})
        /\ (at' \in {"ask", "exec"} => streak' < CallLimit)
    BY <1>0, <2>1, <2>4, <2>5
  <2> QED BY <2>1, <2>2, <2>3, <2>5, <2>6
<1>5. CASE ExitTool
  <2>1. /\ UNCHANGED <<profile, iteration, streak, callsLeft, signature, reason, text, report, called, jobCount>>
        /\ exits' \subseteq exits /\ (at' # "exit" => exits' = {}) /\ at' \in {"exit", "sum", "final"}
    BY <1>5 DEF ExitTool, SubInv
  <2>2. KnownTools' = KnownTools /\ ExitsToRun' = ExitsToRun
    BY <2>1 DEF KnownTools, ExitsToRun
  <2>3. {ran', forced'} \subseteq SUBSET KnownTools
    <3>1. CASE UNCHANGED <<ran, forced>>
      BY <3>1
    <3>2. ASSUME NEW name, NEW status \in Endings, NEW p \in 0..1, Runs(name, status, p),
                 forced' = (IF status = "success" THEN forced \cup {name} ELSE forced)
          PROVE  {ran', forced'} \subseteq SUBSET KnownTools
      BY <3>2 DEF Runs, Executed, PreHooks
    <3> QED BY <1>5, <3>1, <3>2 DEF ExitTool
  <2> QED BY <2>1, <2>2, <2>3
<1>6. CASE SubRaises
  <2>1. /\ UNCHANGED <<profile, iteration, streak, signature, report, called, ran, forced, jobCount>>
        /\ exits' = {} /\ callsLeft' = <<>> /\ at' = "done" /\ reason' = "error" /\ text' = "exception"
    BY <1>6 DEF SubRaises, End
  <2>2. KnownTools' = KnownTools /\ ExitsToRun' = ExitsToRun /\ callsLeft' \in Seq(AllCalls)
    BY <2>1 DEF KnownTools, ExitsToRun
  <2> QED BY <2>1, <2>2 DEF Reasons, Texts
<1>7. CASE SubReports
  <2>1. /\ UNCHANGED <<profile, iteration, streak, callsLeft, exits, signature, reason, text, called, ran, forced, jobCount>>
        /\ at = "done" /\ at' = "none" /\ report' \in Statuses
    BY <1>7 DEF SubReports, StatusOf, Statuses
  <2>2. KnownTools' = KnownTools /\ ExitsToRun' = ExitsToRun
    BY <2>1 DEF KnownTools, ExitsToRun
  <2> QED BY <2>1, <2>2
<1>8. CASE UNCHANGED subVars
  BY <1>8 DEF subVars, KnownTools, ExitsToRun
<1> QED
  BY <1>1, <1>2, <1>3, <1>4, <1>5, <1>6, <1>7, <1>8 DEF SubNext, SubSteps

-----------------------------------------------------------------------------
(* Drift: A drift run                                                       *)

-----------------------------------------------------------------------------
(* recent_runs                                                              *)

\* A entries that takes one more at its end and loses its first when it is full.
LEMMA LastNOfAppend ==
  ASSUME NEW s \in Seq(Entry), NEW e \in Entry, Len(s) <= RecentCap
  PROVE  LET new == LastN(Append(s, e), RecentCap) IN
         /\ new \in Seq(Entry) /\ Len(new) \in 1..RecentCap /\ new[Len(new)] = e
         /\ Len(s) < RecentCap => new = Append(s, e) /\ Len(new) = Len(s) + 1
         /\ Len(s) = RecentCap => Len(new) = RecentCap /\ \A i \in 1..(RecentCap - 1) : new[i] = s[i + 1]
<1> DEFINE t == Append(s, e)
           new == LastN(t, RecentCap)
<1> HIDE DEF new
<1>0. RecentCap \in Nat \ {0}
  BY DriftAssumption
<1>1. /\ t \in Seq(Entry) /\ Len(t) = Len(s) + 1 /\ t[Len(t)] = e /\ Len(s) \in Nat
      /\ \A i \in 1..Len(s) : t[i] = s[i]
  OBVIOUS
<1> HIDE DEF t
<1>2. CASE Len(s) < RecentCap
  <2>1. new = t
    BY <1>0, <1>1, <1>2 DEF LastN, new
  <2> QED BY <1>0, <1>1, <1>2, <2>1 DEF t, new
<1>3. CASE Len(s) = RecentCap
  <2>1. new = SubSeq(t, 2, RecentCap + 1)
    BY <1>1, <1>0, <1>3 DEF LastN, new
  <2>2. new \in Seq(Entry) /\ Len(new) = RecentCap /\ \A i \in 1..RecentCap : new[i] = t[i + 1]
    BY <1>1, <1>0, <1>3, <2>1
  <2>3. \A i \in 1..(RecentCap - 1) : i \in 1..RecentCap /\ i + 1 \in 1..Len(s)
    BY <1>0, <1>3
  <2>4. t[RecentCap + 1] = e /\ RecentCap \in 1..RecentCap
    BY <1>1, <1>0, <1>3
  <2>5. new[Len(new)] = e /\ \A i \in 1..(RecentCap - 1) : new[i] = s[i + 1]
    BY <1>1, <2>2, <2>3, <2>4
  <2> QED BY <1>0, <1>3, <2>2, <2>5 DEF new, t
<1> QED BY <1>0, <1>2, <1>3 DEF new, t

\* What the entries of a list are.
LEMMA EntriesHaveTimes ==
  ASSUME NEW entries \in Seq(Entry)
  PROVE  /\ Len(entries) \in Nat
         /\ \A i \in 1..Len(entries) : entries[i] \in Entry /\ entries[i].at \in Nat
         /\ \A e \in ToSet(entries) : e \in Entry /\ e.at \in Nat
<1>1. \A e \in Entry : e.at \in Nat
  BY DriftAssumption DEF Entry
<1> QED BY <1>1 DEF ToSet

RunsOf(entries, k) == {i \in DOMAIN entries : entries[i].skill = k}

\* The runs of a skill are finitely many.
LEMMA RunsAreCounted ==
  ASSUME NEW s \in Seq(Entry), NEW k
  PROVE  IsFiniteSet(RunsOf(s, k)) /\ Cardinality(RunsOf(s, k)) \in Nat
<1>1. RunsOf(s, k) \in SUBSET (1..Len(s)) /\ Len(s) \in Nat /\ 1 \in Int /\ Len(s) \in Int
  BY DEF RunsOf
<1>2. IsFiniteSet(1..Len(s))
  BY <1>1, FS_Interval
<1>3. IsFiniteSet(RunsOf(s, k))
  BY <1>1, <1>2, FS_Subset
<1> QED BY <1>3, FS_CardinalityType

\* One entry more, and the oldest cut off: at most one more run of its skill.
LEMMA RunsOfAppend ==
  ASSUME NEW s \in Seq(Entry), NEW e \in Entry, Len(s) <= RecentCap, NEW k \in Skills,
         NEW new, new = LastN(Append(s, e), RecentCap)
  PROVE  /\ Cardinality(RunsOf(s, k)) \in Nat /\ Cardinality(RunsOf(new, k)) \in Nat
         /\ Cardinality(RunsOf(new, k)) <=
                Cardinality(RunsOf(s, k)) + IF e.skill = k THEN 1 ELSE 0
<1>1. RecentCap \in Nat \ {0}
  BY DriftAssumption
<1>2. /\ new \in Seq(Entry) /\ Len(new) \in 1..RecentCap /\ new[Len(new)] = e
      /\ Len(s) < RecentCap => new = Append(s, e) /\ Len(new) = Len(s) + 1
      /\ Len(s) = RecentCap => Len(new) = RecentCap /\ \A i \in 1..(RecentCap - 1) : new[i] = s[i + 1]
  BY LastNOfAppend
<1>3. \A q \in Seq(Entry) : IsFiniteSet(RunsOf(q, k))
  BY RunsAreCounted
<1> DEFINE old == RunsOf(s, k)
           keeps == RunsOf(new, k) \ {Len(new)}
           f == [i \in keeps |-> IF Len(s) < RecentCap THEN i ELSE i + 1]
<1>4. f \in Injection(keeps, old)
  <2>1. ASSUME NEW i \in keeps PROVE f[i] \in old /\ i \in Nat
    <3>1. i \in 1..Len(new) /\ i # Len(new) /\ new[i].skill = k /\ Len(s) \in Nat
      BY <1>2 DEF RunsOf
    <3>2. CASE Len(s) < RecentCap
      <4>1. f[i] = i /\ i \in 1..Len(s) /\ new[i] = s[i]
        BY <1>2, <3>1, <3>2
      <4> QED BY <3>1, <4>1 DEF RunsOf
    <3>3. CASE ~(Len(s) < RecentCap)
      <4>1. Len(s) = RecentCap
        BY <1>1, <3>1, <3>3
      <4>2. f[i] = i + 1 /\ i \in 1..(RecentCap - 1) /\ new[i] = s[i + 1] /\ i + 1 \in 1..Len(s)
        BY <1>1, <1>2, <3>1, <3>3, <4>1
      <4> QED BY <3>1, <4>2 DEF RunsOf
    <3> QED BY <3>2, <3>3
  <2>2. ASSUME NEW i \in keeps, NEW j \in keeps, f[i] = f[j] PROVE i = j
    BY <2>1, <2>2
  <2> HIDE DEF keeps, old
  <2>3. f \in [keeps -> old]
    BY <2>1
  <2> HIDE DEF f
  <2> QED BY <2>2, <2>3 DEF Injection, IsInjective
<1>5. Cardinality(keeps) <= Cardinality(old)
  BY <1>3, <1>4, FS_Injection
<1>6. IsFiniteSet(RunsOf(new, k)) /\ IsFiniteSet(old)
  BY <1>2, <1>3
<1>7. /\ Cardinality(RunsOf(new, k)) \in Nat /\ Cardinality(old) \in Nat
      /\ Cardinality(keeps) = IF Len(new) \in RunsOf(new, k) THEN Cardinality(RunsOf(new, k)) - 1
                                                            ELSE Cardinality(RunsOf(new, k))
  BY <1>6, FS_CardinalityType, FS_RemoveElement
<1>8. Len(new) \in RunsOf(new, k) => e.skill = k
  BY <1>2 DEF RunsOf
<1> HIDE DEF keeps, old
<1>9. Cardinality(RunsOf(new, k)) <= Cardinality(old) + IF e.skill = k THEN 1 ELSE 0
  BY <1>5, <1>7, <1>8
<1> QED BY <1>7, <1>9 DEF old

\* The prompt's list begins with the newest run.
LEMMA PromptIsNewest ==
  ASSUME NEW s \in Seq(Entry)
  PROVE  /\ PromptOf(s) \in Seq(Entry)
         /\ s # <<>> => PromptOf(s) # <<>> /\ PromptOf(s)[1] = s[Len(s)]
<1> DEFINE t == LastN(s, PromptCap)
<1>1. PromptCap \in Nat \ {0} /\ Len(s) \in Nat
  BY DriftAssumption
<1>2. t \in Seq(Entry) /\ (s # <<>> => Len(t) >= 1 /\ t[Len(t)] = s[Len(s)])
  <2>1. CASE Len(s) <= PromptCap
    BY <1>1, <2>1 DEF LastN
  <2>2. CASE ~(Len(s) <= PromptCap)
    <3> DEFINE from == Len(s) - PromptCap + 1
    <3>1. t = SubSeq(s, from, Len(s)) /\ from \in 1..Len(s)
      BY <1>1, <2>2 DEF LastN
    <3> HIDE DEF t
    <3>2. t \in Seq(Entry) /\ Len(t) = PromptCap /\ \A i \in 1..PromptCap : t[i] = s[from + i - 1]
      BY <1>1, <2>2, <3>1
    <3>3. from + PromptCap - 1 = Len(s) /\ PromptCap \in 1..PromptCap
      BY <1>1
    <3> HIDE DEF from
    <3> QED BY <1>1, <3>2, <3>3
  <2> QED BY <2>1, <2>2
<1> HIDE DEF t
<1>3. PromptOf(s) = Reverse(t) /\ Len(t) \in Nat
  BY <1>2 DEF PromptOf, t
<1>4. Reverse(t) = [i \in 1..Len(t) |-> t[Len(t) - i + 1]]
  BY DEF Reverse
<1>5. Reverse(t) \in Seq(Entry) /\ Len(Reverse(t)) = Len(t)
  <2>1. \A i \in 1..Len(t) : Len(t) - i + 1 \in 1..Len(t)
    BY <1>3
  <2> QED BY <1>2, <1>3, <1>4, <2>1
<1>6. s # <<>> => Reverse(t)[1] = t[Len(t)] /\ Len(Reverse(t)) >= 1
  BY <1>2, <1>3, <1>4, <1>5
<1> QED BY <1>2, <1>3, <1>5, <1>6

-----------------------------------------------------------------------------
(* The inductive invariant                                                  *)

Ordered(entries) == \A i, j \in DOMAIN entries : i < j => entries[i].at < entries[j].at

\* An acknowledged run is listed, or older than what filled the entries.
EntriesKept(e, entries) == e \in ToSet(entries) \/ (Len(entries) = RecentCap /\ e.at < entries[1].at)

\* What holds of the two files as long as no tool has written them.
DriftRecords ==
    /\ Ordered(recentRuns)
    /\ \A e \in ToSet(acked) : EntriesKept(e, recentRuns)
    /\ \A i \in DOMAIN recentRuns : recentRuns[i].at <= runs /\ (drift # "none" => recentRuns[i].at < runs)
    /\ \A k \in Skills :
        /\ Cardinality(RunsOf(recentRuns, k)) <= runCount[k]
        /\ \A i \in RunsOf(recentRuns, k) : recentRuns[i].at <= lastRun[k]
    /\ drift = "recording" =>
        /\ lastRun[using] = runs
        /\ Cardinality(RunsOf(recentRuns, using)) < runCount[using]
    /\ drift # "none" => promptRuns = PromptOf(recentRuns)

DriftInv ==
    /\ DriftTypeOK
    /\ drift = "recording" => using \in Skills
    /\ drift # "none" => runs >= 1
    /\ pushes = unsure + (IF sent THEN 1 ELSE 0)
    /\ ~rewritten => DriftRecords

\* What the invariant is for.
LEMMA DriftInvIsEnough == DriftInv => DriftIsRecorded
<1> SUFFICES ASSUME DriftInv, ~rewritten PROVE RecordsAgree
  BY DEF DriftInv, DriftIsRecorded
<1>0. DriftTypeOK /\ DriftRecords
  BY DEF DriftInv
<1>1. recentRuns \in Seq(Entry) /\ Len(recentRuns) \in Nat /\ RecentCap \in Nat \ {0}
      /\ \A i \in DOMAIN recentRuns : recentRuns[i].at \in Nat
  <2>1. recentRuns \in Seq(Entry) /\ RecentCap \in Nat \ {0}
    BY <1>0, DriftAssumption DEF DriftTypeOK
  <2> QED BY <2>1, EntriesHaveTimes
<1>2. ASSUME drift # "none", NEW e \in ToSet(acked) PROVE promptRuns # <<>> /\ e.at <= promptRuns[1].at
  <2>1. EntriesKept(e, recentRuns) /\ promptRuns = PromptOf(recentRuns) /\ acked \in Seq(Entry)
    BY <1>0, <1>2 DEF DriftRecords, DriftTypeOK
  <2>2. Len(recentRuns) >= 1
    BY <1>1, <2>1 DEF EntriesKept, ToSet
  <2>3. promptRuns # <<>> /\ promptRuns[1] = recentRuns[Len(recentRuns)]
    BY <1>1, <2>1, <2>2, PromptIsNewest
  <2>4. e.at \in Nat
    BY <2>1, EntriesHaveTimes
  <2>5. \A i \in DOMAIN recentRuns : recentRuns[i].at <= recentRuns[Len(recentRuns)].at
    <3> SUFFICES ASSUME NEW i \in DOMAIN recentRuns PROVE recentRuns[i].at <= recentRuns[Len(recentRuns)].at
      OBVIOUS
    <3>1. i = Len(recentRuns) \/ i < Len(recentRuns)
      BY <1>1
    <3> QED BY <1>0, <1>1, <2>2, <3>1 DEF DriftRecords, Ordered
  <2>6. e.at <= recentRuns[Len(recentRuns)].at
    <3>1. CASE e \in ToSet(recentRuns)
      <4>1. PICK i \in DOMAIN recentRuns : e = recentRuns[i]
        BY <3>1 DEF ToSet
      <4> QED BY <2>5, <4>1
    <3>2. CASE e.at < recentRuns[1].at
      <4>1. 1 \in DOMAIN recentRuns /\ Len(recentRuns) \in DOMAIN recentRuns
        BY <1>1, <2>2
      <4> QED BY <1>1, <2>4, <2>5, <3>2, <4>1
    <3> QED BY <2>1, <3>1, <3>2 DEF EntriesKept
  <2> QED BY <2>3, <2>6
<1>3. \A k : Listed(k) = RunsOf(recentRuns, k)
  BY DEF Listed, RunsOf
<1> QED BY <1>0, <1>2, <1>3 DEF DriftRecords, RecordsAgree, Ordered, EntriesKept

\* No run yet.
LEMMA DriftInvBegins == DriftInit => DriftInv
<1> SUFFICES ASSUME DriftInit PROVE DriftInv
  OBVIOUS
<1>1. DriftTypeOK
  <2>1. runCount \in [Skills -> Nat] /\ lastRun \in [Skills -> 0..MaxRuns]
    BY DriftAssumption DEF DriftInit
  <2>2. recentRuns \in Seq(Entry) /\ promptRuns \in Seq(Entry) /\ acked \in Seq(Entry) /\ Len(recentRuns) <= RecentCap
    BY DriftAssumption DEF DriftInit
  <2>3. steps \in 0..DriftSteps /\ runs \in 0..MaxRuns /\ {pushes, unsure} \subseteq Nat
    BY DriftAssumption DEF DriftInit
  <2>4. {mountable, sent, rewritten} \subseteq BOOLEAN
    BY Zenon DEF DriftInit
  <2> QED BY <2>1, <2>2, <2>3, <2>4 DEF DriftInit, DriftTypeOK
<1>2. ASSUME NEW k \in Skills PROVE RunsOf(recentRuns, k) = {} /\ runCount[k] = 0
  BY DEF DriftInit, RunsOf
<1> QED BY <1>1, <1>2, FS_EmptySet DEF DriftInit, DriftInv, DriftRecords, Ordered, ToSet

\* The entries with the run that finishes: what finish_drift makes of drift.json.
LEMMA ListGrows ==
  ASSUME DriftInv, ~rewritten, drift = "recording",
         NEW e, e = [skill |-> using, at |-> runs],
         NEW new, new = LastN(Append(recentRuns, e), RecentCap)
  PROVE  /\ e \in Entry /\ new \in Seq(Entry) /\ Len(new) <= RecentCap
         /\ Ordered(new)
         /\ EntriesKept(e, new) /\ \A a \in ToSet(acked) : EntriesKept(a, new)
         /\ \A i \in DOMAIN new : new[i].at <= runs
         /\ \A k \in Skills :
             /\ Cardinality(RunsOf(new, k)) <= runCount[k]
             /\ \A i \in RunsOf(new, k) : new[i].at <= lastRun[k]
<1> DEFINE old == recentRuns
<1>r. DriftRecords
  BY DEF DriftInv
<1>0. /\ RecentCap \in Nat \ {0} /\ MaxRuns \in Nat
      /\ old \in Seq(Entry) /\ Len(old) \in Nat /\ Len(old) <= RecentCap
      /\ runs \in 1..MaxRuns /\ using \in Skills /\ acked \in Seq(Entry)
      /\ runCount \in [Skills -> Nat] /\ lastRun \in [Skills -> 0..MaxRuns]
  BY DriftAssumption DEF DriftInv, DriftTypeOK
<1>1. e \in Entry /\ e.skill = using /\ e.at = runs
  BY <1>0 DEF Entry
<1>2. /\ new \in Seq(Entry) /\ Len(new) \in 1..RecentCap /\ new[Len(new)] = e
      /\ Len(old) < RecentCap => new = Append(old, e) /\ Len(new) = Len(old) + 1
      /\ Len(old) = RecentCap => Len(new) = RecentCap /\ \A i \in 1..(RecentCap - 1) : new[i] = old[i + 1]
  BY <1>0, <1>1, LastNOfAppend
<1>3. \A i \in 1..Len(old) : old[i].at \in Nat /\ old[i].at < runs
  BY <1>0, <1>r, EntriesHaveTimes DEF DriftRecords
<1>4. \A i, j \in 1..Len(old) : i < j => old[i].at < old[j].at
  BY <1>0, <1>r DEF DriftRecords, Ordered
<1>5. \A a \in ToSet(acked) : a.at \in Nat /\ EntriesKept(a, old)
  BY <1>0, <1>r, EntriesHaveTimes DEF DriftRecords
<1>6. \A k \in Skills :
        /\ Cardinality(RunsOf(old, k)) <= runCount[k]
        /\ \A i \in RunsOf(old, k) : old[i].at <= lastRun[k]
  BY <1>r DEF DriftRecords
<1>7. lastRun[using] = runs /\ Cardinality(RunsOf(old, using)) < runCount[using]
  BY <1>r DEF DriftRecords
<1>8. ASSUME NEW k \in Skills PROVE Cardinality(RunsOf(new, k)) <= runCount[k]
  <2>1. /\ Cardinality(RunsOf(old, k)) \in Nat /\ Cardinality(RunsOf(new, k)) \in Nat
        /\ Cardinality(RunsOf(new, k)) <= Cardinality(RunsOf(old, k)) + IF e.skill = k THEN 1 ELSE 0
    BY <1>0, <1>1, RunsOfAppend
  <2>2. runCount[k] \in Nat
    BY <1>0
  <2> HIDE DEF old
  <2>3. CASE k = using
    BY <1>1, <1>7, <2>1, <2>2, <2>3
  <2>4. CASE k # using
    BY <1>1, <1>6, <2>1, <2>2, <2>4
  <2> QED BY <2>3, <2>4
<1> HIDE DEF old
<1>9. CASE Len(old) < RecentCap
  <2>1. /\ Len(new) = Len(old) + 1 /\ DOMAIN new = 1..(Len(old) + 1)
        /\ \A i \in 1..Len(old) : new[i] = old[i]
    BY <1>0, <1>2, <1>9
  <2>2. \A i \in DOMAIN new : i \in 1..Len(old) \/ (i = Len(new) /\ new[i] = e)
    BY <1>0, <1>2, <2>1
  <2>3. Ordered(new)
    <3> SUFFICES ASSUME NEW i \in DOMAIN new, NEW j \in DOMAIN new, i < j PROVE new[i].at < new[j].at
      BY DEF Ordered
    <3>1. i \in 1..Len(old)
      BY <1>0, <2>1, <2>2
    <3> QED BY <1>0, <1>1, <1>3, <1>4, <2>1, <2>2, <3>1
  <2>4. ASSUME NEW i \in DOMAIN new PROVE new[i].at <= runs
    <3>1. runs \in Nat
      BY <1>0
    <3> QED BY <1>1, <1>3, <2>1, <2>2, <3>1
  <2>5. ASSUME NEW k \in Skills, NEW i \in RunsOf(new, k) PROVE new[i].at <= lastRun[k]
    <3>1. i \in DOMAIN new /\ new[i].skill = k
      BY DEF RunsOf
    <3>2. CASE i \in 1..Len(old)
      <4>1. i \in RunsOf(old, k) /\ new[i] = old[i]
        BY <1>0, <2>1, <3>1, <3>2 DEF RunsOf
      <4> QED BY <1>6, <4>1
    <3>3. CASE new[i] = e
      BY <1>0, <1>1, <1>7, <3>1, <3>3
    <3> QED BY <2>2, <3>1, <3>2, <3>3
  <2>6. ToSet(old) \cup {e} \subseteq ToSet(new)
    <3>1. Len(new) \in DOMAIN new /\ \A i \in 1..Len(old) : i \in DOMAIN new
      BY <1>0, <2>1
    <3>2. \A a \in ToSet(old) : \E i \in 1..Len(old) : a = old[i]
      BY <1>0 DEF ToSet
    <3> QED BY <1>2, <2>1, <3>1, <3>2 DEF ToSet
  <2>7. EntriesKept(e, new) /\ \A a \in ToSet(acked) : EntriesKept(a, new)
    BY <1>5, <1>9, <2>6, <1>0 DEF EntriesKept
  <2> QED BY <1>1, <1>2, <1>8, <2>3, <2>4, <2>5, <2>7
<1>10. CASE Len(old) = RecentCap
  <2>1. /\ Len(new) = RecentCap /\ DOMAIN new = 1..RecentCap /\ DOMAIN old = 1..RecentCap
        /\ \A i \in 1..(RecentCap - 1) : new[i] = old[i + 1] /\ i + 1 \in 1..Len(old)
    BY <1>0, <1>2, <1>10
  <2>2. \A i \in DOMAIN new : i \in 1..(RecentCap - 1) \/ (i = RecentCap /\ new[i] = e)
    BY <1>0, <1>2, <2>1
  <2>3. Ordered(new)
    <3> SUFFICES ASSUME NEW i \in DOMAIN new, NEW j \in DOMAIN new, i < j PROVE new[i].at < new[j].at
      BY DEF Ordered
    <3>1. i \in 1..(RecentCap - 1)
      BY <1>0, <2>1, <2>2
    <3>2. i + 1 \in 1..Len(old) /\ new[i] = old[i + 1]
      BY <2>1, <3>1
    <3>3. CASE j \in 1..(RecentCap - 1)
      <4>1. j + 1 \in 1..Len(old) /\ new[j] = old[j + 1] /\ i + 1 < j + 1
        BY <2>1, <3>1, <3>3
      <4> QED BY <1>4, <3>2, <4>1
    <3>4. CASE new[j] = e
      BY <1>1, <1>3, <3>2, <3>4
    <3> QED BY <2>2, <3>3, <3>4
  <2>4. ASSUME NEW i \in DOMAIN new PROVE new[i].at <= runs
    <3>1. runs \in Nat
      BY <1>0
    <3> QED BY <1>1, <1>3, <2>1, <2>2, <3>1
  <2>5. ASSUME NEW k \in Skills, NEW i \in RunsOf(new, k) PROVE new[i].at <= lastRun[k]
    <3>1. i \in DOMAIN new /\ new[i].skill = k
      BY DEF RunsOf
    <3>2. CASE i \in 1..(RecentCap - 1)
      <4>1. i + 1 \in RunsOf(old, k) /\ new[i] = old[i + 1]
        BY <1>0, <1>10, <2>1, <3>1, <3>2 DEF RunsOf
      <4> QED BY <1>6, <4>1
    <3>3. CASE new[i] = e
      BY <1>0, <1>1, <1>7, <3>1, <3>3
    <3> QED BY <2>2, <3>1, <3>2, <3>3
  <2>6. old[1].at < new[1].at /\ new[1].at \in Nat /\ old[1].at \in Nat
    <3>1. CASE RecentCap = 1
      BY <1>0, <1>1, <1>2, <1>3, <1>10, <2>1, <3>1
    <3>2. CASE RecentCap # 1
      <4>1. new[1] = old[2] /\ 1 \in 1..Len(old) /\ 2 \in 1..Len(old)
        BY <1>0, <1>10, <2>1, <3>2
      <4> QED BY <1>3, <1>4, <4>1
    <3> QED BY <3>1, <3>2
  <2>7. EntriesKept(e, new)
    BY <1>2 DEF EntriesKept, ToSet
  <2>8. ASSUME NEW a \in ToSet(acked) PROVE EntriesKept(a, new)
    <3>1. CASE a.at < old[1].at
      BY <1>5, <2>1, <2>6, <3>1 DEF EntriesKept
    <3>2. CASE a \in ToSet(old)
      <4>1. PICK i \in 1..RecentCap : a = old[i]
        BY <2>1, <3>2 DEF ToSet
      <4>2. CASE i = 1
        BY <2>1, <2>6, <4>1, <4>2 DEF EntriesKept
      <4>3. CASE i # 1
        <5>1. i - 1 \in 1..(RecentCap - 1) /\ i - 1 \in DOMAIN new /\ new[i - 1] = old[i]
          BY <1>0, <2>1, <4>3
        <5> QED BY <4>1, <5>1 DEF EntriesKept, ToSet
      <4> QED BY <4>2, <4>3
    <3> QED BY <1>5, <3>1, <3>2 DEF EntriesKept
  <2> QED BY <1>1, <1>2, <1>8, <2>1, <2>3, <2>4, <2>5, <2>7, <2>8
<1> QED BY <1>0, <1>9, <1>10

\* A run that is over, whatever it has recorded.
LEMMA OverHasTypes ==
  ASSUME DriftTypeOK, Over, UNCHANGED <<valid, servers, runCount, lastRun, rewritten, runs>>,
         recentRuns' \in Seq(Entry), Len(recentRuns') <= RecentCap, acked' \in Seq(Entry)
  PROVE  DriftTypeOK'
<1>1. 0 \in 0..DriftSteps /\ 0 \in Nat /\ <<>> \in Seq(Entry)
  BY DriftAssumption
<1>2. (mountable \in BOOLEAN /\ sent \in BOOLEAN /\ rewritten \in BOOLEAN)'
  BY DEF Over, DriftTypeOK
<1>3. (drift \in {"none", "asking", "recording"} /\ using \in Skills \cup {"none"} /\ mounted \subseteq Servers)'
  BY DEF Over
<1>4. ((/\ valid \subseteq Skills /\ servers \subseteq Servers
        /\ runCount \in [Skills -> Nat] /\ lastRun \in [Skills -> 0..MaxRuns] /\ runs \in 0..MaxRuns))'
  BY DEF DriftTypeOK
<1>5. (steps \in 0..DriftSteps /\ {pushes, unsure} \subseteq Nat /\ promptRuns \in Seq(Entry))'
  BY <1>1 DEF Over
<1> QED BY <1>2, <1>3, <1>4, <1>5 DEF DriftTypeOK

\* Whatever a tick or a drift does keeps the invariant.
LEMMA DriftStepInv == DriftInv /\ [DriftNext]_driftVars => DriftInv'
<1> SUFFICES ASSUME DriftInv, [DriftNext]_driftVars PROVE DriftInv'
  OBVIOUS
<1>t. DriftTypeOK /\ RecentCap \in Nat \ {0} /\ MaxRuns \in Nat /\ DriftSteps \in Nat
  BY DriftAssumption DEF DriftInv
<1>r. /\ drift = "recording" => using \in Skills
      /\ drift # "none" => runs >= 1
      /\ pushes = unsure + (IF sent THEN 1 ELSE 0)
      /\ ~rewritten => DriftRecords
  BY DEF DriftInv
<1> USE DEF files, run
<1>1. CASE DriftRunBegins
  <2>1. PromptOf(recentRuns) \in Seq(Entry) /\ runs \in Nat
    BY <1>t, PromptIsNewest DEF DriftTypeOK
  <2>2. /\ drift = "none" /\ runs < MaxRuns /\ drift' = "asking" /\ runs' = runs + 1
        /\ mountable' \in BOOLEAN /\ promptRuns' = PromptOf(recentRuns)
        /\ UNCHANGED <<files, servers, steps, mounted, sent, pushes, unsure, using, acked>>
    BY <1>1 DEF DriftRunBegins
  <2>3. DriftTypeOK'
    BY <1>t, <2>1, <2>2 DEF DriftTypeOK
  <2>4. ASSUME DriftRecords PROVE DriftRecords'
    <3>1. \A i \in DOMAIN recentRuns : recentRuns[i].at <= runs /\ recentRuns[i].at \in Nat
      BY <1>t, <2>4, EntriesHaveTimes DEF DriftRecords, DriftTypeOK
    <3>2. \A i \in DOMAIN recentRuns : recentRuns[i].at < runs' /\ recentRuns[i].at <= runs'
      BY <2>1, <2>2, <3>1
    <3> QED BY <2>2, <2>4, <3>2 DEF DriftRecords
  <2> QED BY <1>r, <2>1, <2>2, <2>3, <2>4 DEF DriftInv
<1>2. ASSUME Over, UNCHANGED <<files, servers, acked, runs>> PROVE DriftInv'
  <2>1. DriftTypeOK'
    <3>1. /\ UNCHANGED <<valid, servers, runCount, lastRun, rewritten, runs>>
          /\ recentRuns' \in Seq(Entry) /\ Len(recentRuns') <= RecentCap /\ acked' \in Seq(Entry)
      BY <1>t, <1>2 DEF DriftTypeOK
    <3> QED BY <1>t, <1>2, <3>1, OverHasTypes
  <2>2. DriftRecords => DriftRecords'
    BY <1>2 DEF Over, DriftRecords
  <2> QED BY <1>r, <1>2, <2>1, <2>2 DEF Over, DriftInv
<1>3. CASE DriftRunEnds
  BY <1>2, <1>3 DEF DriftRunEnds
<1>q. ASSUME UNCHANGED <<runCount, lastRun, recentRuns, rewritten, drift, promptRuns, using, acked, runs>>,
             DriftTypeOK', pushes' = unsure' + (IF sent' THEN 1 ELSE 0)
      PROVE  DriftInv'
  <2>1. DriftRecords => DriftRecords'
    BY <1>q DEF DriftRecords
  <2> QED BY <1>r, <1>q, <2>1 DEF DriftInv
<1>4. CASE CallOnlyAnswers
  <2>1. DriftTypeOK'
    BY <1>t, <1>4 DEF CallOnlyAnswers, Step, DriftTypeOK
  <2> QED BY <1>r, <1>q, <1>4, <2>1 DEF CallOnlyAnswers
<1>5. CASE CallChangesFiles
  <2>1. /\ drift = "asking" /\ steps < DriftSteps /\ steps' = steps + 1
        /\ UNCHANGED <<servers, drift, mountable, mounted, sent, promptRuns, pushes, unsure, using, acked, runs>>
    BY <1>5 DEF CallChangesFiles, Step
  <2>2. PICK k \in Skills :
          \/ valid' \in Edited(k) /\ UNCHANGED <<runCount, lastRun, recentRuns, rewritten>>
          \/ ~rewritten /\ rewritten' = TRUE /\ Rewrites(k) /\ UNCHANGED valid
    BY <1>5 DEF CallChangesFiles
  <2>3. CASE valid' \in Edited(k) /\ UNCHANGED <<runCount, lastRun, recentRuns, rewritten>>
    <3>1. DriftTypeOK'
      BY <1>t, <2>1, <2>3 DEF Edited, DriftTypeOK
    <3> QED BY <1>r, <1>q, <2>1, <2>3, <3>1
  <2>4. CASE rewritten' = TRUE /\ Rewrites(k) /\ UNCHANGED valid
    <3>1. /\ (runCount \in [Skills -> Nat] /\ lastRun \in [Skills -> 0..MaxRuns])'
          /\ (recentRuns \in Seq(Entry) /\ Len(recentRuns) <= RecentCap)'
      <4>1. runs >= 1 /\ runs \in 0..MaxRuns
        BY <1>r, <1>t, <2>1 DEF DriftTypeOK
      <4>2. [skill |-> k, at |-> MaxRuns] \in Entry
        BY <1>t, <4>1 DEF Entry
      <4>3. \A e \in Entry : <<e>> \in Seq(Entry) /\ Len(<<e>>) = 1
        OBVIOUS
      <4>4. CASE /\ runCount' = [runCount EXCEPT ![k] = 0] /\ lastRun' = [lastRun EXCEPT ![k] = 0]
                 /\ UNCHANGED recentRuns
        BY <1>t, <4>4 DEF DriftTypeOK
      <4>5. CASE /\ recentRuns' \in {<<>>, <<[skill |-> k, at |-> MaxRuns]>>}
                 /\ UNCHANGED <<runCount, lastRun>>
        <5>1. /\ <<>> \in Seq(Entry) /\ Len(<<>>) <= RecentCap
              /\ <<[skill |-> k, at |-> MaxRuns]>> \in Seq(Entry)
              /\ Len(<<[skill |-> k, at |-> MaxRuns]>>) <= RecentCap
          BY <1>t, <4>2, <4>3
        <5>2. recentRuns' \in Seq(Entry) /\ Len(recentRuns') <= RecentCap
          BY <4>5, <5>1
        <5> QED BY <1>t, <4>5, <5>2 DEF DriftTypeOK
      <4> QED BY <2>4, <4>4, <4>5 DEF Rewrites
    <3>2. mountable' \in BOOLEAN /\ sent' \in BOOLEAN /\ rewritten' \in BOOLEAN /\ steps' \in 0..DriftSteps
      BY <1>t, <2>1, <2>4 DEF DriftTypeOK
    <3>3. /\ (valid \subseteq Skills /\ servers \subseteq Servers /\ mounted \subseteq Servers)'
          /\ (promptRuns \in Seq(Entry) /\ acked \in Seq(Entry))'
          /\ (drift \in {"none", "asking", "recording"} /\ using \in Skills \cup {"none"})'
          /\ ({pushes, unsure} \subseteq Nat /\ runs \in 0..MaxRuns)'
      BY <1>t, <2>1, <2>4 DEF DriftTypeOK
    <3>4. DriftTypeOK'
      BY <3>1, <3>2, <3>3 DEF DriftTypeOK
    <3> QED BY <1>r, <2>1, <2>4, <3>4 DEF DriftInv
  <2> QED BY <2>2, <2>3, <2>4
<1>6. CASE CallPushes
  <2>1. /\ drift = "asking" /\ steps < DriftSteps /\ steps' = steps + 1 /\ pushes' = pushes + 1
        /\ ~sent /\ sent \in BOOLEAN /\ {pushes, unsure} \subseteq Nat
        /\ \/ sent' = TRUE /\ UNCHANGED unsure
           \/ unsure' = unsure + 1 /\ UNCHANGED sent
        /\ UNCHANGED <<files, servers, drift, mountable, mounted, promptRuns, using, acked, runs>>
    BY <1>t, <1>6 DEF CallPushes, Step, DriftTypeOK
  <2>2. sent' \in BOOLEAN /\ {pushes', unsure'} \subseteq Nat /\ pushes' = unsure' + (IF sent' THEN 1 ELSE 0)
    <3>1. pushes = unsure /\ pushes \in Nat /\ unsure \in Nat
      BY <1>r, <2>1
    <3>2. CASE sent' = TRUE /\ UNCHANGED unsure
      BY <2>1, <3>1, <3>2
    <3>3. CASE unsure' = unsure + 1 /\ UNCHANGED sent
      BY <2>1, <3>1, <3>3
    <3> QED BY <2>1, <3>2, <3>3
  <2>3. DriftTypeOK'
    BY <1>t, <2>1, <2>2 DEF DriftTypeOK
  <2> QED BY <1>q, <2>1, <2>2, <2>3
<1>7. ASSUME NEW server \in Servers, CallMounts(server) PROVE DriftInv'
  <2>1. DriftTypeOK'
    BY <1>t, <1>7 DEF CallMounts, Step, DriftTypeOK
  <2> QED BY <1>r, <1>q, <1>7, <2>1 DEF CallMounts
<1>8. ASSUME NEW k \in Skills, CallFinishes(k) PROVE DriftInv'
  <2>1. /\ drift = "asking" /\ steps < DriftSteps /\ steps' = steps + 1
        /\ runCount' = [runCount EXCEPT ![k] = @ + 1] /\ lastRun' = [lastRun EXCEPT ![k] = runs]
        /\ drift' = "recording" /\ using' = k
        /\ UNCHANGED <<valid, recentRuns, rewritten, servers, mountable, mounted, sent, promptRuns, pushes, unsure,
                       acked, runs>>
    BY <1>8 DEF CallFinishes, Step
  <2>2. DriftTypeOK'
    BY <1>t, <2>1 DEF DriftTypeOK
  <2>3. ASSUME DriftRecords PROVE DriftRecords'
    <3>1. ASSUME NEW j \in Skills
          PROVE  /\ Cardinality(RunsOf(recentRuns, j)) <= runCount'[j]
                 /\ \A i \in RunsOf(recentRuns, j) : recentRuns[i].at <= lastRun'[j]
                 /\ j = k => lastRun'[j] = runs /\ Cardinality(RunsOf(recentRuns, j)) < runCount'[j]
      <4>1. runCount[j] \in Nat /\ Cardinality(RunsOf(recentRuns, j)) \in Nat
        BY <1>t, RunsAreCounted DEF DriftTypeOK
      <4>2. Cardinality(RunsOf(recentRuns, j)) <= runCount[j]
        BY <2>3 DEF DriftRecords
      <4>3. \A i \in RunsOf(recentRuns, j) : recentRuns[i].at <= lastRun[j] /\ recentRuns[i].at <= runs
        BY <2>1, <2>3 DEF DriftRecords, RunsOf
      <4>4. runCount'[j] = (IF j = k THEN runCount[j] + 1 ELSE runCount[j])
            /\ lastRun'[j] = (IF j = k THEN runs ELSE lastRun[j])
        BY <1>t, <2>1 DEF DriftTypeOK
      <4> QED BY <4>1, <4>2, <4>3, <4>4
    <3>2. RunsOf(recentRuns, using)' = RunsOf(recentRuns, k)
      BY <2>1
    <3> QED BY <2>1, <2>3, <3>1, <3>2 DEF DriftRecords
  <2> QED BY <1>r, <2>1, <2>2, <2>3 DEF DriftInv
<1>9. ASSUME drift = "recording", Over, UNCHANGED <<valid, runCount, lastRun, rewritten, servers, runs>>,
             recentRuns' = LastN(Append(recentRuns, [skill |-> using, at |-> runs]), RecentCap),
             acked' \in {acked, Append(acked, [skill |-> using, at |-> runs])}
      PROVE  DriftInv'
  <2> DEFINE e == [skill |-> using, at |-> runs]
  <2>1. e \in Entry /\ acked \in Seq(Entry)
    BY <1>r, <1>t, <1>9 DEF DriftTypeOK, Entry
  <2>2. recentRuns' \in Seq(Entry) /\ Len(recentRuns') <= RecentCap
    BY <1>t, <1>9, <2>1, LastNOfAppend DEF DriftTypeOK
  <2>3. acked' \in Seq(Entry) /\ ToSet(acked') \subseteq ToSet(acked) \cup {e}
    <3>1. acked' \in {acked, Append(acked, e)}
      BY <1>9
    <3> HIDE DEF e
    <3> QED BY <2>1, <3>1 DEF ToSet
  <2>4. DriftTypeOK'
    BY <1>t, <1>9, <2>2, <2>3, OverHasTypes
  <2>5. ASSUME ~rewritten PROVE DriftRecords'
    <3>1. /\ Ordered(recentRuns')
          /\ EntriesKept(e, recentRuns') /\ \A a \in ToSet(acked) : EntriesKept(a, recentRuns')
          /\ \A i \in DOMAIN recentRuns' : recentRuns'[i].at <= runs
          /\ \A k \in Skills :
               /\ Cardinality(RunsOf(recentRuns', k)) <= runCount[k]
               /\ \A i \in RunsOf(recentRuns', k) : recentRuns'[i].at <= lastRun[k]
      BY <1>9, <2>5, ListGrows
    <3> HIDE DEF e
    <3> QED BY <1>9, <2>3, <3>1 DEF Over, DriftRecords
  <2> HIDE DEF e
  <2> QED BY <1>9, <2>4, <2>5 DEF Over, DriftInv
<1>10. CASE FinishLists
  BY <1>9, <1>10 DEF FinishLists
<1>11. CASE FinishFails
  <2>1. DriftTypeOK'
    BY <1>t, <1>11 DEF FinishFails, DriftTypeOK
  <2>2. DriftRecords => DriftRecords'
    BY <1>11 DEF FinishFails, DriftRecords
  <2> QED BY <1>r, <1>11, <2>1, <2>2 DEF FinishFails, DriftInv
<1>12. CASE ServersChange
  <2>1. DriftTypeOK'
    BY <1>t, <1>12 DEF ServersChange, DriftTypeOK
  <2> QED BY <1>r, <1>q, <1>12, <2>1 DEF ServersChange
<1>13. CASE DriftDies
  <2>1. CASE recentRuns' = recentRuns
    BY <1>2, <1>13, <2>1 DEF DriftDies
  <2>2. CASE recentRuns' # recentRuns
    BY <1>9, <1>13, <2>2 DEF DriftDies
  <2> QED BY <2>1, <2>2
<1>14. CASE UNCHANGED driftVars
  <2>1. DriftTypeOK'
    BY <1>14, <1>t DEF driftVars, DriftTypeOK
  <2> QED BY <1>r, <1>q, <1>14, <2>1 DEF driftVars
<1> QED
  BY <1>1, <1>3, <1>4, <1>5, <1>6, <1>7, <1>8, <1>10, <1>11, <1>12, <1>13, <1>14 DEF DriftNext

-----------------------------------------------------------------------------
(* MemoryItems: The rules of the long-term store                            *)

RowType == [text : Summaries \cup {None}, vec : Summaries \cup {None},
            status : {"absent", "active", "superseded", "deleted"}]

\* ux_items_hash
OneHolds(r) == \A i, j \in Existing(r) : r[i].text = r[j].text => i = j

\* Rows as they should be, but for those in torn.
RowsOK(r, exempt) ==
    /\ r \in [Ids -> RowType] /\ OneHolds(r)
    /\ \A i \in Existing(r) \ exempt : r[i].vec = r[i].text

WriterType == [pc : {"idle", "embed", "merge"}, target : Ids, text : Summaries \cup {None},
               seen : Summaries \cup {None}, said : BOOLEAN]

WriterOK(wr) ==
    /\ wr \in [Writers -> WriterType]
    /\ \A w \in Writers :
        /\ wr[w].pc # "idle" => wr[w].text \in Summaries
        /\ wr[w].pc = "merge" => JoinText(wr[w].seen, wr[w].text) \in Summaries

\* What the worker was told of is what its turn wrote.
SparedInv ==
    /\ worker.pc = "judge" => worker.found \cap worker.spared = {}
    /\ ~collided => own \subseteq pinned /\ worker.own \subseteq worker.spared

ItemInv ==
    /\ ItemTypeOK /\ RowsOK(row, torn) /\ WriterOK(writer) /\ SparedInv

-----------------------------------------------------------------------------
\* Summaries are sequences, and say something.
LEMMA SummariesAreTexts ==
  /\ Summaries \subseteq Seq(Facts) /\ None \in Seq(Facts) /\ None \notin Summaries
  /\ \A s \in Summaries : Len(s) \in Nat \ {0}
<1>1. ASSUME NEW s \in Summaries PROVE s \in Seq(Facts) /\ s # None /\ Len(s) \in Nat \ {0}
  <2>1. s \in SeqOf(Facts, MaxFacts) /\ s # <<>>
    BY <1>1 DEF Summaries
  <2>2. PICK m \in 0..MaxFacts : s \in [1..m -> Facts]
    BY <2>1 DEF SeqOf
  <2>3. m \in Nat
    BY <2>2, MaxFactsAssumption
  <2>4. s \in Seq(Facts)
    BY <2>2, <2>3
  <2> QED BY <2>1, <2>4 DEF None
<1>2. None \in Seq(Facts)
  BY DEF None
<1> QED BY <1>1, <1>2

\* A text that is joined states what both did.
LEMMA JoinStates ==
  ASSUME NEW old \in Seq(Facts), NEW new \in Summaries
  PROVE  Within(new, JoinText(old, new)) /\ Range(old) \subseteq Range(JoinText(old, new))
<1>1. new \in Seq(Facts) /\ Len(new) \in Nat \ {0} /\ Len(old) \in Nat
  BY SummariesAreTexts
<1>2. CASE Within(new, old)
  BY <1>2 DEF JoinText
<1>3. CASE ~Within(new, old) /\ Within(old, new)
  <2>1. JoinText(old, new) = new
    BY <1>3 DEF JoinText
  <2>2. SubSeq(new, 1, Len(new)) = new /\ 1 \in 1..Len(new) /\ Len(new) \in 1..Len(new)
    BY <1>1
  <2>3. Within(new, new)
    BY <2>2 DEF Within
  <2>4. PICK i, j \in 1..Len(new) : old = SubSeq(new, i, j)
    BY <1>3 DEF Within
  <2>5. ASSUME NEW k \in DOMAIN old PROVE old[k] \in Range(new)
    <3>1. k \in 1..(j - i + 1) /\ old[k] = new[i + k - 1] /\ i + k - 1 \in 1..Len(new)
      BY <1>1, <2>4
    <3> QED BY <3>1, <1>1 DEF Range
  <2> QED BY <2>1, <2>3, <2>5 DEF Range
<1>4. CASE ~Within(new, old) /\ ~Within(old, new)
  <2> DEFINE all == old \o new
             a == Len(old)
             b == Len(new)
  <2>1. JoinText(old, new) = all
    BY <1>4 DEF JoinText
  <2>2. /\ all \in Seq(Facts) /\ Len(all) = a + b
        /\ \A k \in 1..a : all[k] = old[k]
        /\ \A k \in 1..b : all[a + k] = new[k]
    BY <1>1
  <2> HIDE DEF all
  <2>3. SubSeq(all, a + 1, a + b) = new
    <3>1. SubSeq(all, a + 1, a + b) \in Seq(Facts) /\ Len(SubSeq(all, a + 1, a + b)) = b
      BY <1>1, <2>2
    <3>2. \A k \in 1..b : SubSeq(all, a + 1, a + b)[k] = new[k]
      BY <1>1, <2>2
    <3> QED BY <1>1, <3>1, <3>2, SeqEqual
  <2>4. a + 1 \in 1..Len(all) /\ a + b \in 1..Len(all)
    BY <1>1, <2>2
  <2>5. Within(new, all)
    BY <2>3, <2>4 DEF Within
  <2>6. \A k \in DOMAIN old : old[k] \in Range(all)
    BY <1>1, <2>2 DEF Range
  <2> QED BY <2>1, <2>5, <2>6 DEF Range
<1> QED BY <1>2, <1>3, <1>4

\* The first free number is free.
LEMMA NextIdIsFree ==
  ASSUME NEW r, HasRoom(r)
  PROVE  NextId(r) \in Ids /\ r[NextId(r)].status = "absent"
<1> DEFINE S == {i \in Ids : r[i].status = "absent"}
<1>1. S \in SUBSET Nat /\ S # {}
  BY ItemBoundsAssumption DEF HasRoom, Ids
<1>2. PICK n \in S : \A m \in S : n <= m
  BY <1>1, LeastOf
<1>3. ASSUME NEW j \in 1..(n - 1) PROVE r[j].status # "absent"
  <2>1. n \in Nat /\ n \in 1..MaxItems /\ j \in Nat /\ j < n /\ j \in 1..MaxItems
    BY <1>1, <1>2, ItemBoundsAssumption DEF Ids
  <2>2. j \notin S
    BY <1>1, <1>2, <2>1
  <2> QED BY <2>1, <2>2 DEF Ids
<1>4. n \in Ids /\ r[n].status = "absent" /\ \A j \in 1..(n - 1) : r[j].status # "absent"
  BY <1>2, <1>3
<1> QED BY <1>4 DEF NextId
-----------------------------------------------------------------------------
(* The store's operations                                                   *)

\* What a row may become.
LEMMA RowTypes ==
  ASSUME NEW t \in Summaries \cup {None}, NEW v \in Summaries \cup {None},
         NEW status \in {"absent", "active", "superseded", "deleted"}
  PROVE  /\ [text |-> t, status |-> status, vec |-> v] \in RowType
         /\ \A x \in RowType :
              /\ [x EXCEPT !.status = status] \in RowType
              /\ [x EXCEPT !.status = status].status = status
              /\ [x EXCEPT !.status = status].text = x.text
              /\ [x EXCEPT !.status = status].vec = x.vec
              /\ [x EXCEPT !.vec = v] \in RowType
              /\ [x EXCEPT !.vec = v].status = x.status
              /\ [x EXCEPT !.vec = v].text = x.text
              /\ [x EXCEPT !.vec = v].vec = v
              /\ [x EXCEPT !.text = t] \in RowType
              /\ [x EXCEPT !.text = t].status = x.status
              /\ [x EXCEPT !.text = t].text = t
              /\ [x EXCEPT !.text = t].vec = x.vec
BY DEF RowType

\* A change of status among the rows there are.
LEMMA StatusSet ==
  ASSUME NEW r, NEW exempt, RowsOK(r, exempt), NEW ids \in SUBSET Existing(r), NEW status \in {"active", "superseded"}
  PROVE  /\ RowsOK(SetStatus(r, ids, status), exempt)
         /\ Existing(SetStatus(r, ids, status)) = Existing(r)
         /\ \A i \in Ids :
              /\ SetStatus(r, ids, status)[i].text = r[i].text
              /\ i \in ids => SetStatus(r, ids, status)[i].status = status
              /\ i \notin ids => SetStatus(r, ids, status)[i].status = r[i].status
<1> DEFINE q == SetStatus(r, ids, status)
<1>1. r \in [Ids -> RowType]
  BY DEF RowsOK
<1>2. ASSUME NEW i \in Ids
      PROVE  /\ q[i] \in RowType /\ q[i].text = r[i].text /\ q[i].vec = r[i].vec
             /\ i \in ids => q[i].status = status
             /\ i \notin ids => q[i].status = r[i].status
  <2>1. CASE i \in ids
    <3>1. q[i] = [r[i] EXCEPT !.status = status] /\ r[i] \in RowType
      BY <2>1, <1>1 DEF SetStatus
    <3> QED BY <2>1, <3>1 DEF RowType
  <2>2. CASE i \notin ids
    BY <2>2, <1>1 DEF SetStatus
  <2> QED BY <2>1, <2>2
<1>3. q \in [Ids -> RowType]
  <2>1. q = [i \in Ids |-> q[i]]
    BY DEF SetStatus
  <2> QED BY <2>1, <1>2
<1> HIDE DEF q
<1>4. Existing(q) = Existing(r)
  BY <1>2 DEF Existing
<1>5. OneHolds(q)
  BY <1>2, <1>4 DEF OneHolds, RowsOK, Existing
<1>6. \A i \in Existing(q) \ exempt : q[i].vec = q[i].text
  BY <1>2, <1>4 DEF RowsOK, Existing
<1>7. RowsOK(q, exempt)
  BY <1>3, <1>5, <1>6 DEF RowsOK
<1> QED BY <1>2, <1>4, <1>7 DEF q

\* What was there is retired, and nothing else changes.
LEMMA Retired ==
  ASSUME NEW r, NEW exempt, RowsOK(r, exempt), NEW ids
  PROVE  /\ RowsOK(Retire(r, ids), exempt)
         /\ Existing(Retire(r, ids)) = Existing(r)
         /\ \A i \in Ids :
              /\ Retire(r, ids)[i].text = r[i].text
              /\ i \notin ids => Retire(r, ids)[i].status = r[i].status
BY StatusSet DEF Retire

\* The row that holds a text, if one does.
LEMMA HolderIsOne ==
  ASSUME NEW r, NEW exempt, RowsOK(r, exempt), NEW t, NEW h \in Holder(r, t)
  PROVE  Holder(r, t) = {h} /\ h \in Existing(r) /\ h \in Ids /\ r[h].text = t
BY DEF RowsOK, OneHolds, Holder, Existing

\* A row that is new, or one that takes a text which no other has.
LEMMA RowWritten ==
  ASSUME NEW r, NEW exempt, RowsOK(r, exempt), NEW n \in Ids, NEW x \in RowType,
         x.status \in {"active", "superseded"},
         \A i \in Existing(r) : r[i].text = x.text => i = n,
         NEW left, exempt \ {n} \subseteq left, n \in left \/ x.vec = x.text
  PROVE  RowsOK([r EXCEPT ![n] = x], left)
<1> DEFINE q == [r EXCEPT ![n] = x]
<1>1. r \in [Ids -> RowType]
  BY DEF RowsOK
<1>2. /\ q \in [Ids -> RowType] /\ q[n] = x
      /\ \A i \in Ids : i # n => q[i] = r[i]
  BY <1>1
<1> HIDE DEF q
<1>3. \A i \in Existing(q) : i = n \/ i \in Existing(r)
  BY <1>2 DEF Existing
<1>4. OneHolds(q)
  <2> SUFFICES ASSUME NEW i \in Existing(q), NEW j \in Existing(q), q[i].text = q[j].text PROVE i = j
    BY DEF OneHolds
  <2>1. CASE i # n /\ j # n
    BY <2>1, <1>2, <1>3 DEF RowsOK, OneHolds, Existing
  <2>2. CASE i = n \/ j = n
    BY <2>2, <1>2, <1>3 DEF Existing
  <2> QED BY <2>1, <2>2
<1>5. \A i \in Existing(q) \ left : q[i].vec = q[i].text
  <2> SUFFICES ASSUME NEW i \in Existing(q), i \notin left PROVE q[i].vec = q[i].text
    OBVIOUS
  <2>1. CASE i = n
    BY <2>1, <1>2
  <2>2. CASE i # n
    BY <2>2, <1>2, <1>3 DEF RowsOK, Existing
  <2> QED BY <2>1, <2>2
<1>6. RowsOK(q, left)
  BY <1>2, <1>4, <1>5 DEF RowsOK
<1> QED BY <1>6 DEF q

\* upsert_item: an active row states the summary, and what was active still is.
LEMMA Upserted ==
  ASSUME NEW r, NEW exempt, RowsOK(r, exempt), NEW t \in Summaries, Holder(r, t) # {} \/ HasRoom(r),
         NEW v \in Summaries \cup {None}, NEW left,
         left = IF Holder(r, t) # {} THEN exempt
                ELSE IF v = t THEN exempt \ {UpsertId(r, t)} ELSE exempt \cup {UpsertId(r, t)}
  PROVE  /\ RowsOK(Upsert(r, t, v), left)
         /\ UpsertId(r, t) \in Ids
         /\ UpsertId(r, t) \in Active(Upsert(r, t, v)) /\ Upsert(r, t, v)[UpsertId(r, t)].text = t
         /\ \A i \in Active(r) : i \in Active(Upsert(r, t, v)) /\ Upsert(r, t, v)[i].text = r[i].text
<1>1. CASE Holder(r, t) # {}
  <2>1. PICK h \in Holder(r, t) : TRUE
    BY <1>1
  <2>2. Holder(r, t) = {h} /\ h \in Existing(r) /\ h \in Ids /\ r[h].text = t
    BY <2>1, HolderIsOne
  <2>3. UpsertId(r, t) = h /\ Upsert(r, t, v) = SetStatus(r, {h}, "active")
    BY <1>1, <2>2 DEF UpsertId, Upsert
  <2>4. {h} \in SUBSET Existing(r)
    BY <2>2
  <2> HIDE DEF Holder
  <2>5. /\ RowsOK(SetStatus(r, {h}, "active"), exempt)
        /\ \A i \in Ids :
              /\ SetStatus(r, {h}, "active")[i].text = r[i].text
              /\ i \in {h} => SetStatus(r, {h}, "active")[i].status = "active"
              /\ i \notin {h} => SetStatus(r, {h}, "active")[i].status = r[i].status
    BY <2>4, StatusSet
  <2>6. left = exempt
    BY <1>1 DEF Holder
  <2> QED BY <2>2, <2>3, <2>5, <2>6 DEF Active
<1>2. CASE Holder(r, t) = {}
  <2> DEFINE n == NextId(r)
             x == [text |-> t, status |-> "active", vec |-> v]
  <2>1. n \in Ids /\ r[n].status = "absent"
    BY <1>2, NextIdIsFree
  <2>2. UpsertId(r, t) = n /\ Upsert(r, t, v) = [r EXCEPT ![n] = x]
    BY <1>2 DEF UpsertId, Upsert
  <2>3. x \in RowType /\ x.status = "active" /\ x.text = t /\ x.vec = v
    BY RowTypes
  <2> HIDE DEF n, x
  <2>4. \A i \in Existing(r) : r[i].text = x.text => i = n
    BY <1>2, <2>3 DEF Holder
  <2>5. RowsOK([r EXCEPT ![n] = x], left)
    <3>1. left = IF v = t THEN exempt \ {n} ELSE exempt \cup {n}
      BY <1>2, <2>2
    <3>2. exempt \ {n} \subseteq left /\ (n \in left \/ x.vec = x.text)
      BY <2>3, <3>1
    <3> QED BY <2>1, <2>3, <2>4, <3>2, RowWritten
  <2>6. r \in [Ids -> RowType]
    BY DEF RowsOK
  <2>7. \A i \in Active(r) : i # n /\ i \in Ids
    BY <2>1 DEF Active
  <2> QED BY <2>1, <2>2, <2>3, <2>5, <2>6, <2>7 DEF Active
<1> QED BY <1>1, <1>2

\* Startup completes vectors but those of unfit rows, and changes nothing else.
LEMMA Migrated ==
  ASSUME NEW r, NEW exempt, r \in [Ids -> RowType], OneHolds(r),
         \A i \in Existing(r) \ exempt : r[i].vec \in {None, r[i].text}, NEW unfit
  PROVE  RowsOK(Migrate(r, unfit), (exempt \ Unindexed(r)) \cup unfit)
<1> DEFINE q == Migrate(r, unfit)
           left == (exempt \ Unindexed(r)) \cup unfit
<1>1. ASSUME NEW i \in Ids
      PROVE  /\ q[i] \in RowType /\ q[i].text = r[i].text /\ q[i].status = r[i].status
             /\ i \in Existing(r) \ left => q[i].vec = r[i].text
  <2>1. CASE i \in Unindexed(r) \ unfit
    <3>1. q[i] = [r[i] EXCEPT !.vec = r[i].text] /\ r[i] \in RowType
      BY <2>1 DEF Migrate
    <3> QED BY <3>1 DEF RowType
  <2>2. CASE i \notin Unindexed(r) \ unfit
    <3>1. q[i] = r[i]
      BY <2>2 DEF Migrate
    <3>2. i \in Existing(r) \ left => i \in Existing(r) \ exempt /\ r[i].vec # None
      BY <2>2 DEF Unindexed
    <3> QED BY <3>1, <3>2
  <2> QED BY <2>1, <2>2
<1>2. q \in [Ids -> RowType]
  <2>1. q = [i \in Ids |-> q[i]]
    BY DEF Migrate
  <2> QED BY <2>1, <1>1
<1> HIDE DEF q, left
<1>3. Existing(q) = Existing(r)
  BY <1>1 DEF Existing
<1>4. OneHolds(q)
  BY <1>1, <1>3 DEF OneHolds, Existing
<1>5. \A i \in Existing(q) \ left : q[i].vec = q[i].text
  BY <1>1, <1>3 DEF Existing
<1> QED BY <1>2, <1>4, <1>5 DEF RowsOK, q, left

-----------------------------------------------------------------------------
(* The steps: types and rows                                                *)

\* ItemTypeOK, apart from what RowsOK and WriterOK say.
RestOK ==
    /\ pinned \subseteq Ids /\ own \subseteq Ids
    /\ worker \in [pc : {"off", "topics", "judge"}, spared : SUBSET Ids,
                   own : SUBSET Ids, found : SUBSET Ids]
    /\ saves \in 0..MaxSaves /\ retired \in 0..MaxMishaps
    /\ torn \subseteq Ids /\ collided \in BOOLEAN

\* The type invariant in these parts.
LEMMA ItemParts == ItemInv <=> RestOK /\ RowsOK(row, torn) /\ WriterOK(writer) /\ SparedInv
BY DEF ItemInv, ItemTypeOK, RestOK, RowsOK, RowType, OneHolds, WriterOK, WriterType

\* Of the next state, too.
LEMMA ItemPartsNext == ItemInv' <=> RestOK' /\ RowsOK(row', torn') /\ WriterOK(writer') /\ SparedInv'
BY DEF ItemInv, ItemTypeOK, RestOK, RowsOK, RowType, OneHolds, WriterOK, WriterType, Existing

\* A caller that saves nothing.
LEMMA IdleIsTyped ==
  /\ IdleWriter \in WriterType /\ IdleWriter.pc = "idle" /\ ~IdleWriter.said
  /\ [IdleWriter EXCEPT !.said = TRUE] \in WriterType /\ [IdleWriter EXCEPT !.said = TRUE].pc = "idle"
  /\ \A t \in Summaries :
      /\ [IdleWriter EXCEPT !.pc = "embed", !.text = t] \in WriterType
      /\ [IdleWriter EXCEPT !.pc = "embed", !.text = t].pc = "embed"
      /\ [IdleWriter EXCEPT !.pc = "embed", !.text = t].text = t
<1>1. 1 \in Ids
  BY ItemBoundsAssumption DEF Ids
<1>2. IdleWriter \in WriterType
  BY <1>1 DEF IdleWriter, WriterType
<1>3. IdleWriter.pc = "idle" /\ ~IdleWriter.said
  BY DEF IdleWriter
<1> HIDE DEF IdleWriter
<1> QED BY <1>2, <1>3 DEF WriterType

\* A worker that is not there.
LEMMA NoWorkerIsTyped ==
  /\ NoWorker \in [pc : {"off", "topics", "judge"}, spared : SUBSET Ids, own : SUBSET Ids, found : SUBSET Ids]
  /\ NoWorker.pc = "off" /\ NoWorker.own = {}
BY DEF NoWorker

\* The rows are new, and so is everything.
LEMMA ItemsBegin == ItemInit => ItemInv
<1> SUFFICES ASSUME ItemInit PROVE ItemInv
  OBVIOUS
<1>1. NoRow \in RowType
  BY DEF NoRow, RowType
<1>2. RowsOK(row, torn)
  <2>1. Existing(row) = {}
    BY DEF ItemInit, Existing, NoRow
  <2> QED BY <1>1, <2>1 DEF ItemInit, RowsOK, OneHolds
<1>3. WriterOK(writer)
  BY IdleIsTyped DEF ItemInit, WriterOK
<1>4. RestOK
  <2>1. 0 \in 0..MaxSaves /\ 0 \in 0..MaxMishaps
    BY ItemBoundsAssumption
  <2> QED BY <2>1, NoWorkerIsTyped DEF ItemInit, RestOK
<1>5. SparedInv
  BY NoWorkerIsTyped DEF ItemInit, SparedInv
<1> QED BY <1>2, <1>3, <1>4, <1>5, ItemParts

\* One caller moves on.
LEMMA WriterMoves ==
  ASSUME NEW wr, WriterOK(wr), NEW w \in Writers, NEW x \in WriterType,
         x.pc # "idle" => x.text \in Summaries,
         x.pc = "merge" => JoinText(x.seen, x.text) \in Summaries
  PROVE  WriterOK([wr EXCEPT ![w] = x])
<1> DEFINE q == [wr EXCEPT ![w] = x]
<1>1. wr \in [Writers -> WriterType]
  BY DEF WriterOK
<1>2. q \in [Writers -> WriterType] /\ q[w] = x /\ \A v \in Writers : v # w => q[v] = wr[v]
  BY <1>1
<1> HIDE DEF q
<1>3. ASSUME NEW v \in Writers
      PROVE  /\ q[v].pc # "idle" => q[v].text \in Summaries
             /\ q[v].pc = "merge" => JoinText(q[v].seen, q[v].text) \in Summaries
  <2>1. CASE v = w
    BY <2>1, <1>2
  <2>2. CASE v # w
    BY <2>2, <1>2 DEF WriterOK
  <2> QED BY <2>1, <2>2
<1>4. WriterOK(q)
  BY <1>2, <1>3 DEF WriterOK
<1> QED BY <1>4 DEF q

\* A summary states itself.
LEMMA WithinItself ==
  ASSUME NEW t \in Summaries
  PROVE  Within(t, t)
<1>1. t \in Seq(Facts) /\ Len(t) \in Nat \ {0}
  BY SummariesAreTexts
<1>2. SubSeq(t, 1, Len(t)) = t /\ 1 \in 1..Len(t) /\ Len(t) \in 1..Len(t)
  BY <1>1
<1> QED BY <1>2 DEF Within

-----------------------------------------------------------------------------
(* What a step does to the two facts that theorems state                    *)

\* SaidAndStored and MergeKeepsFacts of one caller's step.
StoredStep ==
    \A w \in Writers : Returned(w) /\ ~Overtaken(w) =>
        \E i \in Active(row') : Within(writer[w].text, row'[i].text)
KeptStep ==
    \A w \in Writers : MergeReturned(w) /\ ~Overtaken(w) =>
        StatedFacts(row) \subseteq StatedFacts(row')
SparedStep ==
    worker.pc = "judge" /\ worker'.pc = "topics" /\ ~collided =>
        NewlyRetired \cap worker.own = {}
ItemStep == ItemInv' /\ StoredStep /\ KeptStep /\ SparedStep

\* No save returns, and the worker goes on as it was.
LEMMA NothingSaid ==
  ASSUME \A w \in Writers : writer[w].pc # "idle" /\ writer'[w].pc = "idle" => ~writer'[w].said,
         worker'.pc # "topics" \/ worker.pc # "judge"
  PROVE  StoredStep /\ KeptStep /\ SparedStep
BY DEF StoredStep, KeptStep, SparedStep, Returned, MergeReturned

\* The rows and the callers stay, and the rest moves.
LEMMA RowsStay ==
  ASSUME ItemInv, UNCHANGED <<row, writer>>, torn' = torn, RestOK', SparedInv',
         worker'.pc # "topics" \/ worker.pc # "judge"
  PROVE  ItemStep
<1>1. ItemInv'
  <2>1. RowsOK(row, torn) /\ WriterOK(writer)
    BY ItemParts
  <2>2. RowsOK(row', torn') /\ WriterOK(writer')
    BY <2>1
  <2> QED BY <2>2, ItemPartsNext
<1> QED BY <1>1, NothingSaid DEF ItemStep

\* A save begins, is embedded in vain, or meets its merge target.
LEMMA SavingStep ==
  ASSUME ItemInv, NEW w \in Writers,
         \/ \E t \in Summaries : StartSave(w, t)
         \/ EmbedFails(w)
         \/ \E target \in Active(row) : BeginMerge(w, target)
  PROVE  ItemStep
<1> USE DEF IdleWriter
<1>1. RestOK /\ RowsOK(row, torn) /\ WriterOK(writer) /\ SparedInv
  BY ItemParts
<1>2. PICK x \in WriterType :
        /\ writer' = [writer EXCEPT ![w] = x]
        /\ x.pc # "idle" => x.text \in Summaries
        /\ x.pc = "merge" => JoinText(x.seen, x.text) \in Summaries
        /\ writer[w].pc # "idle" /\ x.pc = "idle" => ~x.said
  <2>1. CASE \E t \in Summaries : StartSave(w, t)
    <3>1. PICK t \in Summaries : StartSave(w, t)
      BY <2>1
    <3> QED BY <3>1, IdleIsTyped DEF StartSave
  <2>2. CASE EmbedFails(w)
    BY <2>2, IdleIsTyped DEF EmbedFails
  <2>3. CASE \E target \in Active(row) : BeginMerge(w, target)
    <3>1. PICK target \in Active(row) : BeginMerge(w, target)
      BY <2>3
    <3>2. target \in Ids /\ row[target].text \in Summaries \cup {None}
      BY <1>1 DEF Active, RowsOK, RowType
    <3>3. writer \in [Writers -> WriterType] /\ writer[w].text \in Summaries
      BY <1>1, <3>1 DEF WriterOK, BeginMerge
    <3> DEFINE x == [writer[w] EXCEPT !.pc = "merge", !.target = target, !.seen = row[target].text]
    <3>4. /\ x \in WriterType /\ x.pc = "merge" /\ x.text = writer[w].text
          /\ x.seen = row[target].text
      BY <3>2, <3>3 DEF WriterType
    <3>5. writer' = [writer EXCEPT ![w] = x]
      BY <3>1, <3>3 DEF BeginMerge, WriterType
    <3>6. JoinText(x.seen, x.text) \in Summaries
      BY <3>1, <3>4 DEF BeginMerge
    <3> QED BY <3>3, <3>4, <3>5, <3>6
  <2> QED BY <2>1, <2>2, <2>3
<1>3. UNCHANGED <<row, pinned, own, worker, retired, torn, collided>> /\ saves' \in 0..MaxSaves
  <2>1. CASE \E t \in Summaries : StartSave(w, t)
    <3>1. UNCHANGED <<row, pinned, own, worker, retired, torn, collided>> /\ saves < MaxSaves /\ saves' = saves + 1
      BY <2>1 DEF StartSave
    <3> QED BY <1>1, <3>1, ItemBoundsAssumption DEF RestOK
  <2>2. CASE EmbedFails(w)
    BY <2>2, <1>1 DEF EmbedFails, RestOK
  <2>3. CASE \E target \in Active(row) : BeginMerge(w, target)
    BY <2>3, <1>1 DEF BeginMerge, RestOK
  <2> QED BY <2>1, <2>2, <2>3
<1>4. WriterOK([writer EXCEPT ![w] = x])
  BY <1>1, <1>2, WriterMoves
<1>5. RestOK' /\ SparedInv'
  BY <1>1, <1>3 DEF RestOK, SparedInv
<1>6. RowsOK(row', torn') /\ WriterOK(writer')
  BY <1>1, <1>2, <1>3, <1>4
<1>7. ItemInv'
  BY <1>5, <1>6, ItemPartsNext
<1>8. writer \in [Writers -> WriterType]
  BY <1>1 DEF WriterOK
<1>9. \A v \in Writers : writer[v].pc # "idle" /\ writer'[v].pc = "idle" => ~writer'[v].said
  BY <1>2, <1>8
<1> QED BY <1>3, <1>7, <1>9, NothingSaid DEF ItemStep

\* A call that returned: what the worker will be told of has its row.
LEMMA AnswerStep ==
  ASSUME ItemInv, NEW w \in Writers, NEW id \in Ids, NEW holding \in Ids, Answer(w, id, holding),
         worker' = worker, collided' \in BOOLEAN, ~collided' => ~collided /\ id = holding
  PROVE  /\ WriterOK(writer') /\ SparedInv' /\ pinned' \subseteq Ids /\ own' \subseteq Ids
         /\ \A v \in Writers : writer[v].pc # "idle" /\ writer'[v].pc = "idle" => v = w
<1>1. RestOK /\ RowsOK(row, torn) /\ WriterOK(writer) /\ SparedInv
  BY ItemParts
<1> DEFINE x == [IdleWriter EXCEPT !.said = TRUE]
<1>2. x \in WriterType /\ x.pc = "idle" /\ writer' = [writer EXCEPT ![w] = x]
  BY IdleIsTyped DEF Answer
<1> HIDE DEF x
<1>3. WriterOK([writer EXCEPT ![w] = x])
  BY <1>1, <1>2, WriterMoves
<1>4. pinned' \subseteq Ids /\ own' \subseteq Ids /\ (~collided' => own' \subseteq pinned')
  BY <1>1 DEF Answer, RestOK, SparedInv
<1>5. SparedInv'
  BY <1>1, <1>4 DEF SparedInv
<1>6. writer \in [Writers -> WriterType]
  BY <1>1 DEF WriterOK
<1> QED BY <1>2, <1>3, <1>4, <1>5, <1>6

\* Close matches are retired, then the summary is written.
LEMMA ReplaceStep ==
  ASSUME ItemInv, NEW w \in Writers, NEW close, NEW v \in VecInsert(None, writer[w].text),
         Replace(w, close, v)
  PROVE  ItemStep
<1> DEFINE leftRows == Retire(row, close)
           t == writer[w].text
           id == UpsertId(leftRows, t)
<1>1. RestOK /\ RowsOK(row, torn) /\ WriterOK(writer) /\ SparedInv
  BY ItemParts
<1>2. /\ writer[w].pc = "embed" /\ (Holder(leftRows, t) # {} \/ HasRoom(leftRows))
      /\ row' = Upsert(leftRows, t, v) /\ Answer(w, id, id)
      /\ torn' = IF Holder(leftRows, t) # {} THEN torn ELSE TornBy(id, t, v)
      /\ UNCHANGED <<worker, saves, retired, collided>>
  BY DEF Replace
<1>3. t \in Summaries
  BY <1>1, <1>2 DEF WriterOK
<1>4. RowsOK(leftRows, torn)
  BY <1>1, Retired
<1> HIDE DEF leftRows
<1>12. v \in Summaries \cup {None}
  BY <1>3 DEF VecInsert
<1>5. RowsOK(row', torn') /\ id \in Ids /\ id \in Active(row') /\ row'[id].text = t
  <2>1. torn' = IF Holder(leftRows, t) # {} THEN torn
                 ELSE IF v = t THEN torn \ {id} ELSE torn \cup {id}
    BY <1>2 DEF TornBy
  <2> QED BY <1>2, <1>3, <1>4, <1>12, <2>1, Upserted
<1> HIDE DEF id
<1>6. /\ WriterOK(writer') /\ SparedInv' /\ pinned' \subseteq Ids /\ own' \subseteq Ids
      /\ \A u \in Writers : writer[u].pc # "idle" /\ writer'[u].pc = "idle" => u = w
  BY <1>1, <1>2, <1>5, AnswerStep DEF RestOK
<1>7. RestOK'
  BY <1>1, <1>2, <1>5, <1>6 DEF RestOK, TornBy
<1>8. ItemInv'
  BY <1>2, <1>5, <1>6, <1>7, ItemPartsNext
<1>9. StoredStep
  <2>1. Within(t, row'[id].text)
    BY <1>3, <1>5, WithinItself
  <2> QED BY <1>5, <1>6, <2>1 DEF StoredStep, Returned
<1>10. KeptStep
  BY <1>2, <1>6 DEF KeptStep, MergeReturned, Returned
<1>11. SparedStep
  BY <1>2 DEF SparedStep
<1> QED BY <1>8, <1>9, <1>10, <1>11 DEF ItemStep

\* What merge_item_raw leaves: the merged summary, if its target is there.
LEMMA MergeWrites ==
  ASSUME ItemInv, NEW w \in Writers, writer[w].pc = "merge", NEW v \in Summaries \cup {None},
         NEW left, left = IF Collides(w) THEN torn ELSE TornBy(writer[w].target, Merged(w), v)
  PROVE  /\ RowsOK(MergeRaw(w, v), left)
         /\ Collides(w) => UpsertId(row, Merged(w)) \in Ids
         /\ \A i \in Active(row) : i # writer[w].target =>
              i \in Active(MergeRaw(w, v)) /\ MergeRaw(w, v)[i].text = row[i].text
         /\ writer[w].target \in Active(row) =>
              \E i \in Active(MergeRaw(w, v)) : MergeRaw(w, v)[i].text = Merged(w)
<1> DEFINE n == writer[w].target
           m == Merged(w)
           q == MergeRaw(w, v)
<1>1. RestOK /\ RowsOK(row, torn) /\ WriterOK(writer) /\ SparedInv
  BY ItemParts
<1>2. n \in Ids /\ m \in Summaries
  BY <1>1 DEF WriterOK, WriterType, Merged
<1>3. row \in [Ids -> RowType]
  BY <1>1 DEF RowsOK
<1>4. CASE Collides(w)
  <2> DEFINE leftRows == Retire(row, {n})
  <2>1. Holder(row, m) # {} /\ q = Upsert(leftRows, m, v)
    BY <1>4 DEF Collides, MergeRaw
  <2>2. PICK h \in Holder(row, m) : TRUE
    BY <2>1
  <2>3. Holder(row, m) = {h} /\ h \in Ids /\ h \in Existing(row) /\ row[h].text = m
    BY <1>1, <2>2, HolderIsOne
  <2>4. UpsertId(row, m) \in Ids
    BY <2>3 DEF UpsertId
  <2>5. /\ RowsOK(leftRows, torn) /\ Existing(leftRows) = Existing(row)
        /\ \A i \in Ids : leftRows[i].text = row[i].text /\ (i # n => leftRows[i].status = row[i].status)
    BY <1>1, Retired
  <2> HIDE DEF leftRows
  <2>6. Holder(leftRows, m) # {}
    BY <2>3, <2>5 DEF Holder
  <2>7. /\ RowsOK(Upsert(leftRows, m, v), torn)
        /\ UpsertId(leftRows, m) \in Active(Upsert(leftRows, m, v)) /\ Upsert(leftRows, m, v)[UpsertId(leftRows, m)].text = m
        /\ \A i \in Active(leftRows) : i \in Active(Upsert(leftRows, m, v)) /\ Upsert(leftRows, m, v)[i].text = leftRows[i].text
    BY <1>2, <2>5, <2>6, Upserted
  <2>8. \A i \in Active(row) : i # n => i \in Active(leftRows) /\ leftRows[i].text = row[i].text
    BY <2>5 DEF Active
  <2> HIDE DEF m, n, q
  <2>9. left = torn
    BY <1>4
  <2> QED BY <2>1, <2>4, <2>7, <2>8, <2>9 DEF m, n, q
<1>5. CASE ~Collides(w) /\ n \in Existing(row)
  <2> DEFINE x == [row[n] EXCEPT !.text = m, !.vec = v]
  <2>1. q = [row EXCEPT ![n] = x]
    <3>1. q = [row EXCEPT ![n].text = m, ![n].vec = v]
      BY <1>5 DEF MergeRaw
    <3> HIDE DEF q, m, n
    <3>2. [row EXCEPT ![n].text = m, ![n].vec = v] = [row EXCEPT ![n] = x]
      BY <1>2, <1>3 DEF RowType
    <3> QED BY <3>1, <3>2 DEF q, m, n
  <2>2. x \in RowType /\ x.text = m /\ x.vec = v /\ x.status = row[n].status
    <3>1. ASSUME NEW y \in RowType, NEW t \in Summaries
          PROVE  /\ [y EXCEPT !.text = t, !.vec = v] \in RowType
                 /\ [y EXCEPT !.text = t, !.vec = v].text = t
                 /\ [y EXCEPT !.text = t, !.vec = v].vec = v
                 /\ [y EXCEPT !.text = t, !.vec = v].status = y.status
      BY <3>1 DEF RowType
    <3> HIDE DEF m, n
    <3> QED BY <1>2, <1>3, <3>1
  <2>3. x.status \in {"active", "superseded"}
    BY <1>5, <2>2 DEF Existing
  <2>4. \A i \in Existing(row) : row[i].text = m => i = n
    BY <1>5 DEF Collides, Holder
  <2>5. torn \ {n} \subseteq left /\ (n \in left \/ v = m)
    BY <1>5 DEF TornBy
  <2> HIDE DEF m, n, x
  <2>6. RowsOK([row EXCEPT ![n] = x], left)
    BY <1>1, <1>2, <2>2, <2>3, <2>4, <2>5, RowWritten
  <2>7. /\ \A i \in Active(row) : i # n => i \in Active([row EXCEPT ![n] = x]) /\ [row EXCEPT ![n] = x][i].text = row[i].text
        /\ n \in Active(row) => n \in Active([row EXCEPT ![n] = x]) /\ [row EXCEPT ![n] = x][n].text = m
    BY <1>2, <1>3, <2>2 DEF Active
  <2> HIDE DEF q
  <2> QED BY <1>5, <2>1, <2>6, <2>7 DEF m, n, q
<1>6. CASE ~Collides(w) /\ n \notin Existing(row)
  <2>1. q = row /\ torn \ {n} \subseteq left /\ n \notin Active(row)
    BY <1>6 DEF MergeRaw, TornBy, Active, Existing
  <2>2. RowsOK(row, left)
    BY <1>1, <1>6, <2>1 DEF RowsOK
  <2> QED BY <1>6, <2>1, <2>2
<1> QED BY <1>4, <1>5, <1>6

\* The merged summary is written, wherever it ends.
LEMMA FinishMergeStep ==
  ASSUME ItemInv, NEW w \in Writers, NEW v \in VecInsert(row[writer[w].target].vec, Merged(w)),
         FinishMerge(w, v)
  PROVE  ItemStep
<1> DEFINE n == writer[w].target
           m == Merged(w)
           holding == IF Collides(w) THEN UpsertId(row, m) ELSE n
<1>1. RestOK /\ RowsOK(row, torn) /\ WriterOK(writer) /\ SparedInv
  BY ItemParts
<1>2. /\ writer[w].pc = "merge" /\ row' = MergeRaw(w, v) /\ collided' = (collided \/ Collides(w))
      /\ torn' = IF Collides(w) THEN torn ELSE TornBy(n, m, v)
      /\ Answer(w, n, holding) /\ UNCHANGED <<worker, saves, retired>>
  BY DEF FinishMerge
<1>3. n \in Ids /\ writer[w].text \in Summaries
  BY <1>1, <1>2 DEF WriterOK, WriterType
<1>14. v \in Summaries \cup {None}
  BY <1>1, <1>2, <1>3 DEF VecInsert, RowsOK, RowType, WriterOK, Merged
<1>4. /\ RowsOK(row', torn')
      /\ Collides(w) => UpsertId(row, m) \in Ids
      /\ \A i \in Active(row) : i # n => i \in Active(row') /\ row'[i].text = row[i].text
      /\ n \in Active(row) => \E i \in Active(row') : row'[i].text = m
  BY <1>2, <1>14, MergeWrites
<1>5. holding \in Ids /\ (~collided' => ~collided /\ n = holding)
  BY <1>2, <1>3, <1>4
<1>6. collided' \in BOOLEAN
  BY <1>1, <1>2 DEF RestOK, Collides
<1> HIDE DEF holding
<1>7. /\ WriterOK(writer') /\ SparedInv' /\ pinned' \subseteq Ids /\ own' \subseteq Ids
      /\ \A u \in Writers : writer[u].pc # "idle" /\ writer'[u].pc = "idle" => u = w
  BY <1>2, <1>3, <1>5, <1>6, AnswerStep
<1>8. RestOK'
  BY <1>1, <1>2, <1>3, <1>6, <1>7 DEF RestOK, TornBy
<1>9. ItemInv'
  BY <1>4, <1>7, <1>8, ItemPartsNext
<1>10. ASSUME ~Overtaken(w)
       PROVE  /\ n \in Active(row) /\ Within(writer[w].text, m)
              /\ Range(row[n].text) \subseteq Range(m)
  <2>1. n \in Active(row) /\ row[n].text = writer[w].seen
    BY <1>2, <1>3, <1>10 DEF Overtaken, Active
  <2>2. row[n].text \in Seq(Facts)
    BY <1>1, <1>3, SummariesAreTexts DEF RowsOK, RowType
  <2> QED BY <1>3, <2>1, <2>2, JoinStates DEF Merged
<1> HIDE DEF n, m
<1>11. StoredStep
  <2> SUFFICES ASSUME NEW u \in Writers, Returned(u), ~Overtaken(u)
               PROVE  \E i \in Active(row') : Within(writer[u].text, row'[i].text)
    BY DEF StoredStep
  <2>1. u = w
    BY <1>7 DEF Returned
  <2> QED BY <2>1, <1>4, <1>10
<1>12. KeptStep
  <2> SUFFICES ASSUME NEW u \in Writers, MergeReturned(u), ~Overtaken(u),
                      NEW f, f \in StatedFacts(row)
               PROVE  f \in StatedFacts(row')
    BY DEF KeptStep
  <2>1. u = w
    BY <1>7 DEF MergeReturned, Returned
  <2>2. PICK i \in Active(row) : f \in Range(row[i].text)
    BY DEF StatedFacts
  <2>3. \E j \in Active(row') : f \in Range(row'[j].text)
    BY <1>4, <1>10, <2>1, <2>2
  <2> QED BY <2>3 DEF StatedFacts
<1>13. SparedStep
  BY <1>2 DEF SparedStep
<1> QED BY <1>9, <1>11, <1>12, <1>13 DEF ItemStep

\* The chain begins anew; the worker starts, looks for close matches, and ends.
LEMMA WorkerStep ==
  ASSUME ItemInv, AttemptRefused \/ StartWorker \/ EndWorker \/ \E ids \in SUBSET Active(row) : Retrieve(ids)
  PROVE  ItemStep
<1>1. RestOK /\ RowsOK(row, torn) /\ WriterOK(writer) /\ SparedInv
  BY ItemParts
<1>2. UNCHANGED <<row, writer>> /\ torn' = torn
  BY DEF AttemptRefused, StartWorker, EndWorker, Retrieve
<1>3. CASE StartWorker
  <2>1. RestOK'
    BY <1>1, <1>3 DEF StartWorker, RestOK
  <2>2. SparedInv'
    BY <1>1, <1>3 DEF StartWorker, SparedInv
  <2>3. worker.pc # "judge"
    BY <1>3 DEF StartWorker
  <2> QED BY <1>2, <2>1, <2>2, <2>3, RowsStay
<1>4. CASE EndWorker
  <2>1. worker' = NoWorker /\ UNCHANGED <<pinned, own, saves, retired, collided>>
    BY <1>4 DEF EndWorker
  <2>2. RestOK' /\ SparedInv' /\ worker'.pc # "topics"
    BY <1>1, <1>2, <2>1, NoWorkerIsTyped DEF RestOK, SparedInv
  <2> QED BY <1>2, <2>2, RowsStay
<1>5. CASE \E ids \in SUBSET Active(row) : Retrieve(ids)
  <2>1. PICK ids \in SUBSET Active(row) : Retrieve(ids)
    BY <1>5
  <2>2. ids \subseteq Ids
    BY DEF Active
  <2>3. RestOK'
    BY <1>1, <2>1, <2>2 DEF Retrieve, RestOK
  <2>4. SparedInv' /\ worker'.pc = "judge"
    BY <1>1, <2>1 DEF Retrieve, SparedInv, RestOK
  <2> QED BY <1>2, <2>3, <2>4, RowsStay
<1>6. CASE AttemptRefused
  <2>1. pinned' = {} /\ own' = {} /\ UNCHANGED <<worker, saves, retired, collided>>
    BY <1>6 DEF AttemptRefused
  <2>2. RestOK' /\ SparedInv' /\ (worker'.pc # "topics" \/ worker.pc # "judge")
    BY <1>1, <1>2, <2>1 DEF RestOK, SparedInv
  <2> QED BY <1>2, <2>2, RowsStay
<1> QED BY <1>3, <1>4, <1>5, <1>6

\* The model's answer is retired, and none of it is the turn's own.
LEMMA JudgeStep ==
  ASSUME ItemInv, NEW ids \in SUBSET worker.found, Judge(ids)
  PROVE  ItemStep
<1>1. RestOK /\ RowsOK(row, torn) /\ WriterOK(writer) /\ SparedInv
  BY ItemParts
<1>2. /\ worker.pc = "judge" /\ row' = Retire(row, ids)
      /\ worker' = [worker EXCEPT !.pc = "topics", !.found = {}]
      /\ UNCHANGED <<writer, pinned, own, saves, retired, torn, collided>>
  BY DEF Judge
<1>3. /\ RowsOK(row', torn)
      /\ \A i \in Ids : i \notin ids => row'[i].status = row[i].status
  BY <1>1, <1>2, Retired
<1>4. RestOK' /\ SparedInv'
  BY <1>1, <1>2 DEF RestOK, SparedInv
<1>5. RowsOK(row', torn') /\ WriterOK(writer')
  BY <1>1, <1>2, <1>3
<1>6. ItemInv'
  BY <1>4, <1>5, ItemPartsNext
<1>7. StoredStep /\ KeptStep
  BY <1>2 DEF StoredStep, KeptStep, MergeReturned, Returned
<1>8. SparedStep
  <2> SUFFICES ASSUME ~collided, NEW i \in NewlyRetired, i \in worker.own PROVE FALSE
    BY DEF SparedStep
  <2>1. i \in Ids /\ row[i].status = "active" /\ row'[i].status = "superseded"
    BY DEF NewlyRetired, Active
  <2>2. i \in ids
    BY <1>3, <2>1
  <2> QED BY <1>1, <1>2, <2>2 DEF SparedInv
<1> QED BY <1>6, <1>7, <1>8 DEF ItemStep

\* forget_memory and the dashboard: no caller returns, and the worker stays.
LEMMA CountedStep ==
  ASSUME ItemInv, NEW i \in Existing(row),
         \/ Forget(i) \/ DeleteItem(i)
         \/ \E status \in {"active", "superseded"} : PatchStatus(i, status)
  PROVE  ItemStep
<1>1. RestOK /\ RowsOK(row, torn) /\ WriterOK(writer) /\ SparedInv
  BY ItemParts
<1>2. Counted
  BY DEF Forget, DeleteItem, PatchStatus
<1>3. RowsOK(row', torn)
  <2>1. CASE Forget(i)
    BY <1>1, <2>1, Retired DEF Forget
  <2>2. CASE \E status \in {"active", "superseded"} : PatchStatus(i, status)
    <3>1. PICK status \in {"active", "superseded"} : PatchStatus(i, status)
      BY <2>2
    <3>2. {i} \in SUBSET Existing(row) /\ row' = SetStatus(row, {i}, status)
      BY <3>1 DEF PatchStatus
    <3> QED BY <1>1, <3>2, StatusSet
  <2>3. CASE DeleteItem(i)
    <3> DEFINE x == [NoRow EXCEPT !.status = "deleted"]
    <3>1. x \in RowType /\ x.status = "deleted"
      BY DEF NoRow, RowType
    <3>2. row' = [row EXCEPT ![i] = x] /\ i \in Ids /\ row \in [Ids -> RowType]
      BY <1>1, <2>3 DEF DeleteItem, Existing, RowsOK
    <3> HIDE DEF x
    <3>3. /\ row' \in [Ids -> RowType]
          /\ \A j \in Existing(row') : j \in Existing(row) /\ row'[j] = row[j]
      BY <3>1, <3>2 DEF Existing
    <3> QED BY <1>1, <3>3 DEF RowsOK, OneHolds
  <2> QED BY <2>1, <2>2, <2>3
<1>4. UNCHANGED <<writer, pinned, own, worker, saves, torn, collided>> /\ retired' \in 0..MaxMishaps
  <2>1. Cardinality(torn) \in Nat
    <3>1. IsFiniteSet(Ids) /\ torn \subseteq Ids
      BY <1>1, FS_Interval, ItemBoundsAssumption DEF Ids, RestOK
    <3> QED BY <3>1, FS_Subset, FS_CardinalityType
  <2>2. retired \in Nat /\ retired < MaxMishaps /\ retired' = retired + 1
    BY <1>1, <1>2, <2>1, ItemBoundsAssumption DEF Counted, MishapsLeft, RestOK
  <2> QED BY <1>1, <1>2, <2>2, ItemBoundsAssumption DEF Counted, RestOK
<1>5. RestOK' /\ SparedInv'
  BY <1>1, <1>4 DEF RestOK, SparedInv
<1>6. RowsOK(row', torn') /\ WriterOK(writer')
  BY <1>1, <1>3, <1>4
<1>7. ItemInv'
  BY <1>5, <1>6, ItemPartsNext
<1> QED BY <1>4, <1>7, NothingSaid DEF ItemStep

\* The process died and is started.
LEMMA RestartStep ==
  ASSUME ItemInv, NEW r, NEW stale \in SUBSET Ids, Restart(r, stale), r \in [Ids -> RowType], OneHolds(r),
         \A i \in Existing(r) \ stale : r[i].vec \in {None, r[i].text}
  PROVE  ItemStep
<1>1. RestOK /\ RowsOK(row, torn) /\ WriterOK(writer) /\ SparedInv
  BY ItemParts
<1>2. /\ writer' = [w \in Writers |-> IdleWriter]
      /\ pinned' = {} /\ own' = {} /\ worker' = NoWorker
      /\ UNCHANGED <<saves, retired, collided>>
  BY DEF Restart
<1>3. WriterOK(writer') /\ \A w \in Writers : ~writer'[w].said
  BY <1>2, IdleIsTyped DEF WriterOK
<1>4. PICK unfit \in SUBSET Unindexed(r) :
        row' = Migrate(r, unfit) /\ torn' = (stale \ Unindexed(r)) \cup unfit
  BY DEF Restart
<1>5. RowsOK(row', torn')
  BY <1>4, Migrated
<1>6. torn' \subseteq Ids
  BY <1>4 DEF Unindexed, Existing
<1>7. RestOK' /\ SparedInv' /\ worker'.pc # "topics"
  BY <1>1, <1>2, <1>6, NoWorkerIsTyped DEF RestOK, SparedInv
<1>8. ItemInv'
  BY <1>3, <1>5, <1>7, ItemPartsNext
<1> QED BY <1>3, <1>7, <1>8, NothingSaid DEF ItemStep

\* Wherever the process dies, startup makes the rows whole.
LEMMA CrashStep ==
  ASSUME ItemInv,
         \/ ItemCrash
         \/ \E w \in Writers : CrashInMerge(w) \/ \E close \in SUBSET Active(row) : CrashInReplace(w, close)
  PROVE  ItemStep
<1>1. RestOK /\ RowsOK(row, torn) /\ WriterOK(writer) /\ SparedInv
  BY ItemParts
<1>3. torn \in SUBSET Ids
  BY <1>1 DEF RestOK
<1>2. ASSUME NEW r, RowsOK(r, torn), Restart(r, torn) PROVE ItemStep
  BY <1>2, <1>3, RestartStep DEF RowsOK
<1>4. CASE ItemCrash
  BY <1>1, <1>2, <1>4 DEF ItemCrash
<1>5. ASSUME NEW w \in Writers, NEW close \in SUBSET Active(row), CrashInReplace(w, close)
      PROVE  ItemStep
  <2> DEFINE leftRows == Retire(row, close)
             t == writer[w].text
             n == NextId(leftRows)
             x == [text |-> t, status |-> "active", vec |-> None]
  <2>1. RowsOK(leftRows, torn)
    BY <1>1, Retired
  <2>2. t \in Summaries
    BY <1>1, <1>5 DEF CrashInReplace, WriterOK
  <2>3. CASE Restart(leftRows, torn)
    <3> HIDE DEF leftRows
    <3> QED BY <1>2, <2>1, <2>3
  <2>4. CASE Holder(leftRows, t) = {} /\ HasRoom(leftRows) /\ Restart([leftRows EXCEPT ![n] = x], torn)
    <3>1. x \in RowType /\ x.status = "active" /\ x.text = t /\ x.vec = None
      BY <2>2, RowTypes
    <3> HIDE DEF x, leftRows
    <3>2. n \in Ids
      BY <2>4, NextIdIsFree
    <3>3. \A i \in Existing(leftRows) : leftRows[i].text = x.text => i = n
      BY <2>4, <3>1 DEF Holder
    <3> HIDE DEF n, t
    <3>4. RowsOK([leftRows EXCEPT ![n] = x], torn \cup {n})
      BY <2>1, <3>1, <3>2, <3>3, RowWritten
    <3> DEFINE q == [leftRows EXCEPT ![n] = x]
    <3>5. q[n] = x
      BY <2>1, <3>2 DEF RowsOK
    <3> HIDE DEF q
    <3>6. /\ q \in [Ids -> RowType] /\ OneHolds(q)
          /\ \A i \in Existing(q) \ torn : q[i].vec \in {None, q[i].text}
      BY <3>1, <3>4, <3>5 DEF RowsOK, q
    <3> QED BY <1>3, <2>4, <3>6, RestartStep DEF q
  <2> QED BY <1>5, <2>3, <2>4 DEF CrashInReplace
<1>6. ASSUME NEW w \in Writers, CrashInMerge(w) PROVE ItemStep
  <2> DEFINE n == writer[w].target
             m == Merged(w)
             x == [row[n] EXCEPT !.text = m]
  <2>1. writer[w].pc = "merge" /\ n \in Existing(row)
    BY <1>6 DEF CrashInMerge
  <2>2. n \in Ids /\ m \in Summaries
    BY <1>1, <2>1 DEF WriterOK, WriterType, Merged
  <2>3. CASE Collides(w)
    <3> DEFINE leftRows == Retire(row, {n})
    <3>1. Restart(leftRows, torn)
      BY <1>6, <2>3 DEF CrashInMerge
    <3>2. RowsOK(leftRows, torn)
      BY <1>1, Retired
    <3> HIDE DEF leftRows
    <3> QED BY <1>2, <3>1, <3>2
  <2>4. CASE ~Collides(w)
    <3>1. row \in [Ids -> RowType]
      BY <1>1 DEF RowsOK
    <3>2. Restart([row EXCEPT ![n] = x], torn \cup {n})
      BY <1>6, <2>4, <3>1 DEF CrashInMerge
    <3>3. x \in RowType /\ x.text = m /\ x.status = row[n].status
      BY <2>2, <3>1 DEF RowType
    <3>4. x.status \in {"active", "superseded"}
      BY <2>1, <3>3 DEF Existing
    <3>5. \A i \in Existing(row) : row[i].text = m => i = n
      BY <2>1, <2>4 DEF Collides, Holder
    <3> HIDE DEF m, n, x
    <3>6. RowsOK([row EXCEPT ![n] = x], torn \cup {n})
      BY <1>1, <2>2, <3>3, <3>4, <3>5, RowWritten
    <3> DEFINE r == [row EXCEPT ![n] = x]
    <3> HIDE DEF r
    <3>7. RowsOK(r, torn \cup {n}) /\ Restart(r, torn \cup {n})
      BY <3>2, <3>6 DEF r
    <3>8. /\ r \in [Ids -> RowType] /\ OneHolds(r)
          /\ \A i \in Existing(r) \ (torn \cup {n}) : r[i].vec = r[i].text
      BY <3>7 DEF RowsOK
    <3>9. torn \cup {n} \in SUBSET Ids
      BY <1>3, <2>2 DEF n
    <3> QED BY <3>7, <3>8, <3>9, RestartStep
  <2> QED BY <2>3, <2>4
<1> QED BY <1>4, <1>5, <1>6

\* Whatever happens to the rules, and to nothing else.
LEMMA ItemsStep ==
  ASSUME ItemInv, [ItemNext]_itemVars
  PROVE  ItemInv' /\ [StoredStep]_itemVars /\ [KeptStep]_itemVars /\ [SparedStep]_itemVars
<1>1. CASE UNCHANGED itemVars
  <2>1. RestOK /\ RowsOK(row, torn) /\ WriterOK(writer) /\ SparedInv
    BY ItemParts
  <2>2. RestOK' /\ RowsOK(row', torn') /\ WriterOK(writer') /\ SparedInv'
    BY <1>1, <2>1 DEF itemVars, RestOK, SparedInv
  <2> QED BY <1>1, <2>2, ItemPartsNext
<1>2. ASSUME NEW w \in Writers, Saving(w) PROVE ItemStep
  <2>1. ASSUME NEW close \in SUBSET Active(row), NEW v \in VecInsert(None, writer[w].text),
               Replace(w, close, v)
        PROVE  ItemStep
    BY <2>1, ReplaceStep
  <2>2. ASSUME NEW v \in VecInsert(row[writer[w].target].vec, Merged(w)), FinishMerge(w, v)
        PROVE  ItemStep
    BY <2>2, FinishMergeStep
  <2>3. CASE CrashInMerge(w) \/ \E close \in SUBSET Active(row) : CrashInReplace(w, close)
    BY <2>3, CrashStep
  <2>4. CASE \/ \E t \in Summaries : StartSave(w, t)
             \/ EmbedFails(w)
             \/ \E target \in Active(row) : BeginMerge(w, target)
    BY <2>4, SavingStep
  <2> QED BY <1>2, <2>1, <2>2, <2>3, <2>4 DEF Saving
<1>3. ASSUME NEW ids \in SUBSET worker.found, Judge(ids) PROVE ItemStep
  BY <1>3, JudgeStep
<1>4. CASE AttemptRefused \/ StartWorker \/ EndWorker \/ \E ids \in SUBSET Active(row) : Retrieve(ids)
  BY <1>4, WorkerStep DEF ItemStep
<1>5. CASE \E i \in Existing(row) :
             \/ Forget(i) \/ DeleteItem(i)
             \/ \E status \in {"active", "superseded"} : PatchStatus(i, status)
  BY <1>5, CountedStep DEF ItemStep
<1>6. CASE ItemCrash
  BY <1>6, CrashStep DEF ItemStep
<1>7. CASE ItemNext
  BY <1>2, <1>3, <1>4, <1>5, <1>6, <1>7 DEF ItemNext, ItemStep
<1> QED BY <1>1, <1>7

-----------------------------------------------------------------------------
(* Channels: What users say, on its way in                                  *)

Tasks == [message : Nat, step : {"start", "waits"}]

ChannelTypes ==
    /\ posted \in Seq(PostForms) /\ delivered \in 0..Len(posted)
    /\ seen \in Seq(Nat) /\ accepted \in Seq(Nat)
    /\ known \in [Users -> Chats \cup {Unnamed}]
    /\ memoryUser \in [Chats -> Users \cup Chats \cup {Unnamed}]
    /\ storedUser \in [Chats -> Users \cup Chats \cup {Unnamed}]
    /\ tasks \in Seq(Tasks) /\ published \in Seq(Nat) /\ interrupts \in SUBSET Nat
    /\ unsaved \in SUBSET Chats /\ repeats \in Nat /\ restarts \in Nat

\* A behaviour is about one channel.
OneApp == \A i, j \in DOMAIN posted : posted[i].app = posted[j].app

\* The window is the end of what was accepted, as much of it as the window holds.
WindowOK(window, all) ==
    /\ Len(all) < SeenMax => Len(window) = Len(all)
    /\ Len(all) >= SeenMax => Len(window) = SeenMax
    /\ \A i \in 1..Len(window) : window[i] = all[Len(all) - Len(window) + i]
    /\ \A i, j \in DOMAIN all : i < j /\ all[i] = all[j] => j - i > SeenMax

WindowInv == WindowOK(seen, accepted)

\* What may have come through: a message that was delivered, of a user that is allowed.
Admitted(n, d, ps) == n \in 1..d /\ ps[n].user \in AllowedUsers

\* A chat that a name leads to is one in which its user has written.
Wrote(u, c, d, ps) == \E i \in 1..d : ps[i].user = u /\ ps[i].chat = c /\ u \in AllowedUsers

NamesInv ==
    /\ \A u \in Users : known[u] # Unnamed => Wrote(u, known[u], delivered, posted)
    /\ \A c \in Chats, u \in Users : memoryUser[c] = u => Wrote(u, c, delivered, posted)
    /\ \A c \in Chats, u \in Users : storedUser[c] = u => Wrote(u, c, delivered, posted)
    /\ MetadataIsSaved

\* Why a message may be on the bus after one that came later.
Outrun(n, ps, r) == IF ps[n].app = "tg" THEN r > 0 ELSE Slow(ps[n])

BusOK(bus, d, ps, r) ==
    /\ \A p \in DOMAIN bus : Admitted(bus[p], d, ps) /\ ps[bus[p]].kind # "stop"
    /\ \A p, q \in DOMAIN bus : p < q /\ bus[q] < bus[p] => Outrun(bus[q], ps, r)

\* What is to be started is in order, and behind all that has been started; what waits
\* is Telegram's only message, or has media.
QueueOK(ts, bus, d, ps, r) ==
    /\ \A k \in DOMAIN ts : Admitted(ts[k].message, d, ps)
    /\ \A k \in DOMAIN ts : ps[ts[k].message].app = "tg" => Len(ts) = 1 /\ ts[k].step = "waits"
    /\ \A k \in DOMAIN ts : ts[k].step = "waits" =>
        /\ ps[ts[k].message].kind # "stop"
        /\ ps[ts[k].message].app = "qq" => Slow(ps[ts[k].message])
    /\ \A k, l \in DOMAIN ts : ts[l].step = "start" /\ (ts[k].step = "waits" \/ k < l) =>
                                    ts[k].message < ts[l].message
    /\ \A k \in DOMAIN ts, p \in DOMAIN bus :
        /\ ts[k].step = "start" => bus[p] < ts[k].message
        /\ bus[p] > ts[k].message => Outrun(ts[k].message, ps, r)

BusInv ==
    /\ BusOK(published, delivered, posted, repeats)
    /\ QueueOK(tasks, published, delivered, posted, repeats)
    /\ \A n \in interrupts : Admitted(n, delivered, posted)

ChannelInv == ChannelTypes /\ OneApp /\ WindowInv /\ NamesInv /\ BusInv

-----------------------------------------------------------------------------
\* One element less.
LEMMA Removal ==
  ASSUME NEW S, NEW s \in Seq(S), NEW i \in DOMAIN s
  PROVE  /\ RemoveAt(s, i) \in Seq(S) /\ Len(RemoveAt(s, i)) = Len(s) - 1
         /\ \A k \in 1..(Len(s) - 1) : RemoveAt(s, i)[k] = s[IF k < i THEN k ELSE k + 1]
<1> DEFINE a == SubSeq(s, 1, i - 1)
           b == SubSeq(s, i + 1, Len(s))
<1>1. i \in 1..Len(s) /\ Len(s) \in Nat
  OBVIOUS
<1>2. a \in Seq(S) /\ Len(a) = i - 1 /\ \A k \in 1..(i - 1) : a[k] = s[k]
  BY <1>1
<1>3. b \in Seq(S) /\ Len(b) = Len(s) - i /\ \A k \in 1..(Len(s) - i) : b[k] = s[i + k]
  BY <1>1
<1>4. RemoveAt(s, i) = a \o b
  BY DEF RemoveAt
<1> HIDE DEF a, b
<1>5. a \o b \in Seq(S) /\ Len(a \o b) = Len(s) - 1
  BY <1>1, <1>2, <1>3
<1>6. \A k \in 1..(Len(s) - 1) : (a \o b)[k] = s[IF k < i THEN k ELSE k + 1]
  <2> TAKE k \in 1..(Len(s) - 1)
  <2>1. (a \o b)[k] = IF k <= i - 1 THEN a[k] ELSE b[k - (i - 1)]
    BY <1>1, <1>2, <1>3
  <2>2. CASE k < i
    BY <1>1, <1>2, <2>1, <2>2
  <2>3. CASE ~(k < i)
    <3>1. k - (i - 1) \in 1..(Len(s) - i) /\ i + (k - (i - 1)) = k + 1
      BY <1>1, <2>3
    <3> QED BY <1>1, <1>3, <2>1, <2>3, <3>1
  <2> QED BY <2>2, <2>3
<1> QED BY <1>4, <1>5, <1>6

\* The least of some places.
LEMMA MinOf ==
  ASSUME NEW S \in SUBSET Nat, S # {}
  PROVE  Min(S) \in S /\ \A x \in S : Min(S) <= x
BY LeastOf DEF Min

\* What is queued keeps its order when one goes.
LEMMA QueueShrinks ==
  ASSUME NEW ts \in Seq(Tasks), NEW i \in DOMAIN ts, NEW bus \in Seq(Nat), NEW d \in Nat, NEW ps, NEW r \in Nat,
         QueueOK(ts, bus, d, ps, r)
  PROVE  QueueOK(RemoveAt(ts, i), bus, d, ps, r)
<1> DEFINE less == RemoveAt(ts, i)
           old(k) == IF k < i THEN k ELSE k + 1
<1>1. less \in Seq(Tasks) /\ Len(less) = Len(ts) - 1 /\ \A k \in 1..(Len(ts) - 1) : less[k] = ts[old(k)]
  BY Removal
<1>2. i \in 1..Len(ts) /\ Len(ts) \in Nat /\ DOMAIN ts = 1..Len(ts)
  OBVIOUS
<1>3. DOMAIN less = 1..(Len(ts) - 1)
  BY <1>1
<1>4. \A k \in 1..(Len(ts) - 1) : old(k) \in DOMAIN ts
  BY <1>2
<1>5. \A k, l \in 1..(Len(ts) - 1) : k < l => old(k) < old(l)
  BY <1>2
<1>6. \A k \in DOMAIN less : old(k) \in DOMAIN ts /\ less[k] = ts[old(k)]
  BY <1>1, <1>3, <1>4
<1>7. \A k, l \in DOMAIN less : k < l => old(k) < old(l)
  BY <1>3, <1>5
<1>8. DOMAIN less # {} => Len(ts) # 1
  BY <1>2, <1>3
<1> HIDE DEF less, old
<1>9. \A k \in DOMAIN less : ps[less[k].message].app # "tg"
  BY <1>6, <1>8 DEF QueueOK
<1> QED BY <1>6, <1>7, <1>9 DEF QueueOK, less

\* A message begins to wait.
LEMMA QueueWaits ==
  ASSUME NEW ts \in Seq(Tasks), NEW bus \in Seq(Nat), NEW d \in Nat, NEW ps, NEW r \in Nat, NEW n \in Nat,
         QueueOK(ts, bus, d, ps, r), Admitted(n, d, ps), ps[n].kind # "stop",
         ps[n].app = "qq" => Slow(ps[n]),
         ps[n].app = "tg" => ts = <<>>,
         \A k \in DOMAIN ts : ps[ts[k].message].app # "tg",
         \A k \in DOMAIN ts : ts[k].step = "start" => n < ts[k].message,
         \A p \in DOMAIN bus : bus[p] > n => Outrun(n, ps, r)
  PROVE  QueueOK(Append(ts, [message |-> n, step |-> "waits"]), bus, d, ps, r)
<1> DEFINE t == [message |-> n, step |-> "waits"]
           more == Append(ts, t)
<1>1. t \in Tasks /\ t.message = n /\ t.step = "waits" /\ t.step # "start"
  BY DEF Tasks
<1> HIDE DEF t
<1>2. more \in Seq(Tasks) /\ Len(more) = Len(ts) + 1 /\ Len(ts) \in Nat /\ DOMAIN more = 1..(Len(ts) + 1)
      /\ DOMAIN ts = 1..Len(ts)
  BY <1>1
<1>3. \A k \in DOMAIN more : \/ k \in DOMAIN ts /\ more[k] = ts[k] /\ k < Len(ts) + 1
                             \/ k = Len(ts) + 1 /\ more[k] = t
  BY <1>1, <1>2
<1>4. ps[n].app = "tg" => Len(more) = 1
  BY <1>2
<1> HIDE DEF more
<1>5. \A k \in DOMAIN more : Admitted(more[k].message, d, ps)
  BY <1>1, <1>3 DEF QueueOK
<1>6. \A k \in DOMAIN more : ps[more[k].message].app = "tg" => Len(more) = 1 /\ more[k].step = "waits"
  BY <1>1, <1>3, <1>4
<1>7. \A k \in DOMAIN more : more[k].step = "waits" =>
        /\ ps[more[k].message].kind # "stop"
        /\ ps[more[k].message].app = "qq" => Slow(ps[more[k].message])
  BY <1>1, <1>3 DEF QueueOK
<1>8. \A k, l \in DOMAIN more : more[l].step = "start" /\ (more[k].step = "waits" \/ k < l) =>
                                    more[k].message < more[l].message
  <2> SUFFICES ASSUME NEW k \in DOMAIN more, NEW l \in DOMAIN more, more[l].step = "start",
                      more[k].step = "waits" \/ k < l
               PROVE  more[k].message < more[l].message
    OBVIOUS
  <2>1. l \in DOMAIN ts /\ more[l] = ts[l] /\ l < Len(ts) + 1
    BY <1>1, <1>3
  <2>2. CASE k \in DOMAIN ts /\ more[k] = ts[k]
    BY <2>1, <2>2 DEF QueueOK
  <2>3. CASE k = Len(ts) + 1 /\ more[k] = t
    BY <1>1, <2>1, <2>3
  <2> QED BY <1>3, <2>2, <2>3
<1>9. \A k \in DOMAIN more, p \in DOMAIN bus :
        /\ more[k].step = "start" => bus[p] < more[k].message
        /\ bus[p] > more[k].message => Outrun(more[k].message, ps, r)
  BY <1>1, <1>3 DEF QueueOK
<1>10. QueueOK(more, bus, d, ps, r)
  BY <1>5, <1>6, <1>7, <1>8, <1>9 DEF QueueOK
<1> QED BY <1>10 DEF more, t

\* A message comes to the bus.
LEMMA BusGrows ==
  ASSUME NEW ts \in Seq(Tasks), NEW bus \in Seq(Nat), NEW d \in Nat, NEW ps, NEW r \in Nat, NEW n \in Nat,
         QueueOK(ts, bus, d, ps, r), BusOK(bus, d, ps, r), Admitted(n, d, ps), ps[n].kind # "stop",
         \A k \in DOMAIN ts : ts[k].step = "start" => n < ts[k].message,
         \A k \in DOMAIN ts : n > ts[k].message => Outrun(ts[k].message, ps, r),
         \A p \in DOMAIN bus : bus[p] > n => Outrun(n, ps, r)
  PROVE  QueueOK(ts, Append(bus, n), d, ps, r) /\ BusOK(Append(bus, n), d, ps, r)
<1> DEFINE more == Append(bus, n)
<1>1. more \in Seq(Nat) /\ Len(bus) \in Nat /\ DOMAIN more = 1..(Len(bus) + 1) /\ DOMAIN bus = 1..Len(bus)
  OBVIOUS
<1>2. \A p \in DOMAIN more : \/ p \in DOMAIN bus /\ more[p] = bus[p] /\ p < Len(bus) + 1
                             \/ p = Len(bus) + 1 /\ more[p] = n
  BY <1>1
<1> HIDE DEF more
<1>3. \A k \in DOMAIN ts, p \in DOMAIN more :
        /\ ts[k].step = "start" => more[p] < ts[k].message
        /\ more[p] > ts[k].message => Outrun(ts[k].message, ps, r)
  BY <1>2 DEF QueueOK
<1>4. QueueOK(ts, more, d, ps, r)
  BY <1>3 DEF QueueOK
<1>5. \A p \in DOMAIN more : Admitted(more[p], d, ps) /\ ps[more[p]].kind # "stop"
  BY <1>2 DEF BusOK
<1>6. \A p, q \in DOMAIN more : p < q /\ more[q] < more[p] => Outrun(more[q], ps, r)
  <2> TAKE p, q \in DOMAIN more
  <2> HAVE p < q /\ more[q] < more[p]
  <2>1. p \in DOMAIN bus /\ more[p] = bus[p]
    BY <1>1, <1>2
  <2>2. CASE q \in DOMAIN bus /\ more[q] = bus[q]
    BY <2>1, <2>2 DEF BusOK
  <2>3. CASE more[q] = n
    BY <2>1, <2>3
  <2> QED BY <1>2, <2>2, <2>3
<1>7. BusOK(more, d, ps, r)
  BY <1>5, <1>6 DEF BusOK
<1> QED BY <1>4, <1>7 DEF more


\* What holds of messages goes on to hold when more are posted, come or come again.
LEMMA BusStays ==
  ASSUME NEW ts \in Seq(Tasks), NEW bus \in Seq(Nat), NEW d \in Nat, NEW ps, NEW r \in Nat,
         NEW d2 \in Nat, NEW ps2, NEW r2 \in Nat, d <= d2, r <= r2, \A n \in 1..d : ps2[n] = ps[n],
         QueueOK(ts, bus, d, ps, r), BusOK(bus, d, ps, r)
  PROVE  QueueOK(ts, bus, d2, ps2, r2) /\ BusOK(bus, d2, ps2, r2)
<1>1. \A n : Admitted(n, d, ps) => Admitted(n, d2, ps2) /\ ps2[n] = ps[n]
  BY DEF Admitted
<1>2. \A n : Admitted(n, d, ps) /\ Outrun(n, ps, r) => Outrun(n, ps2, r2)
  BY <1>1 DEF Outrun
<1>3. \A k \in DOMAIN ts : Admitted(ts[k].message, d, ps) /\ Admitted(ts[k].message, d2, ps2)
                           /\ ps2[ts[k].message] = ps[ts[k].message]
  BY <1>1 DEF QueueOK
<1>4. \A p \in DOMAIN bus : Admitted(bus[p], d, ps) /\ Admitted(bus[p], d2, ps2) /\ ps2[bus[p]] = ps[bus[p]]
  BY <1>1 DEF BusOK
<1>5. QueueOK(ts, bus, d2, ps2, r2)
  BY <1>2, <1>3 DEF QueueOK
<1>6. BusOK(bus, d2, ps2, r2)
  BY <1>2, <1>4 DEF BusOK
<1> QED BY <1>5, <1>6

\* A message that is to be started is the last.
LEMMA QueueStarts ==
  ASSUME NEW ts \in Seq(Tasks), NEW bus \in Seq(Nat), NEW d \in Nat, NEW ps, NEW r \in Nat,
         QueueOK(ts, bus, d, ps, r), BusOK(bus, d, ps, r), ps[d + 1].user \in AllowedUsers,
         ps[d + 1].app # "tg", \A k \in DOMAIN ts : ps[ts[k].message].app # "tg"
  PROVE  QueueOK(Append(ts, [message |-> d + 1, step |-> "start"]), bus, d + 1, ps, r)
<1> DEFINE t == [message |-> d + 1, step |-> "start"]
           more == Append(ts, t)
<1>1. t \in Tasks /\ t.message = d + 1 /\ t.step = "start" /\ t.step # "waits"
  BY DEF Tasks
<1> HIDE DEF t
<1>2. /\ more \in Seq(Tasks) /\ Len(more) = Len(ts) + 1 /\ Len(ts) \in Nat /\ DOMAIN more = 1..(Len(ts) + 1)
      /\ DOMAIN ts = 1..Len(ts)
  BY <1>1
<1>3. \A k \in DOMAIN more : \/ k \in DOMAIN ts /\ more[k] = ts[k] /\ k < Len(ts) + 1
                             \/ k = Len(ts) + 1 /\ more[k] = t
  BY <1>1, <1>2
<1>4. QueueOK(ts, bus, d + 1, ps, r)
  BY BusStays
<1>5. \A k \in DOMAIN ts : ts[k].message < d + 1
  BY DEF QueueOK, Admitted
<1>6. \A p \in DOMAIN bus : bus[p] < d + 1
  BY DEF BusOK, Admitted
<1>7. Admitted(d + 1, d + 1, ps)
  BY DEF Admitted
<1> HIDE DEF more
<1>8. \A k \in DOMAIN more : Admitted(more[k].message, d + 1, ps)
  BY <1>1, <1>3, <1>4, <1>7 DEF QueueOK
<1>9. \A k \in DOMAIN more : ps[more[k].message].app = "tg" => Len(more) = 1 /\ more[k].step = "waits"
  BY <1>1, <1>3
<1>10. \A k \in DOMAIN more : more[k].step = "waits" =>
        /\ ps[more[k].message].kind # "stop"
        /\ ps[more[k].message].app = "qq" => Slow(ps[more[k].message])
  BY <1>1, <1>3, <1>4 DEF QueueOK
<1>11. \A k, l \in DOMAIN more : more[l].step = "start" /\ (more[k].step = "waits" \/ k < l) =>
                                    more[k].message < more[l].message
  <2> SUFFICES ASSUME NEW k \in DOMAIN more, NEW l \in DOMAIN more, more[l].step = "start",
                      more[k].step = "waits" \/ k < l
               PROVE  more[k].message < more[l].message
    OBVIOUS
  <2>1. k \in DOMAIN ts /\ more[k] = ts[k]
    BY <1>1, <1>2, <1>3
  <2>2. CASE l \in DOMAIN ts /\ more[l] = ts[l]
    BY <2>1, <2>2 DEF QueueOK
  <2>3. CASE l = Len(ts) + 1 /\ more[l] = t
    BY <1>1, <1>5, <2>1, <2>3
  <2> QED BY <1>3, <2>2, <2>3
<1>12. \A k \in DOMAIN more, p \in DOMAIN bus :
        /\ more[k].step = "start" => bus[p] < more[k].message
        /\ bus[p] > more[k].message => Outrun(more[k].message, ps, r)
  <2> TAKE k \in DOMAIN more, p \in DOMAIN bus
  <2>1. CASE k \in DOMAIN ts /\ more[k] = ts[k]
    BY <1>4, <2>1 DEF QueueOK
  <2>2. CASE more[k] = t
    BY <1>1, <1>6, <2>2
  <2> QED BY <1>3, <2>1, <2>2
<1>13. QueueOK(more, bus, d + 1, ps, r)
  BY <1>8, <1>9, <1>10, <1>11, <1>12 DEF QueueOK
<1> QED BY <1>13 DEF more, t

-----------------------------------------------------------------------------
\* What is known of a message that was posted.
LEMMA PostTypes ==
  ASSUME ChannelTypes, OneApp, NEW n \in DOMAIN posted
  PROVE  /\ posted[n] \in PostForms /\ posted[n].app \in {"tg", "qq"}
         /\ posted[n].kind \in {"text", "media", "document", "stop"}
         /\ posted[n].chat \in Chats /\ posted[n].user \in Users /\ DOMAIN posted = 1..Len(posted)
         /\ Identity(posted[n]) \in Users \cup Chats \cup {Unnamed}
         /\ Identity(posted[n]) \in Users => Identity(posted[n]) = posted[n].user
<1>1. posted[n] \in PostForms /\ DOMAIN posted = 1..Len(posted)
  BY DEF ChannelTypes
<1>2. posted[n].chat \in Chats /\ posted[n].user \in Users
  BY <1>1 DEF Chats, Users
<1> QED BY <1>1, <1>2, ChannelsAssumption DEF Identity

\* The window moves by one: what it has let through stays out as long as it holds it.
LEMMA WindowMoves ==
  ASSUME NEW w \in Seq(Nat), NEW all \in Seq(Nat), WindowOK(w, all), NEW n \in Nat, n \notin ToSet(w)
  PROVE  WindowOK(SeenWith(w, n), Append(all, n)) /\ SeenWith(w, n) \in Seq(Nat)
<1> SUFFICES ASSUME NEW a \in Nat, a = Len(all), NEW m \in Nat, m = Len(w)
             PROVE  WindowOK(SeenWith(w, n), Append(all, n)) /\ SeenWith(w, n) \in Seq(Nat)
  OBVIOUS
<1> SUFFICES ASSUME NEW more, more = Append(all, n), NEW longer, longer = Append(w, n)
             PROVE  WindowOK(SeenWith(w, n), more) /\ SeenWith(w, n) \in Seq(Nat)
  OBVIOUS
<1>1. DOMAIN w = 1..m /\ DOMAIN all = 1..a
  OBVIOUS
<1>12. SeenMax \in Nat /\ SeenMax > 0
  BY ChannelsAssumption
<1>2. /\ more \in Seq(Nat) /\ Len(more) = a + 1 /\ more[a + 1] = n
      /\ DOMAIN more = 1..(a + 1) /\ \A i \in 1..a : more[i] = all[i]
  BY <1>1
<1>3. longer \in Seq(Nat) /\ Len(longer) = m + 1 /\ longer[m + 1] = n /\ \A i \in 1..m : longer[i] = w[i]
  BY <1>1
<1>13. (a < SeenMax => m = a) /\ (a >= SeenMax => m = SeenMax)
  BY <1>1 DEF WindowOK
<1>4. /\ \A i \in 1..m : w[i] = all[a - m + i]
      /\ \A i, j \in 1..a : i < j /\ all[i] = all[j] => j - i > SeenMax
  BY <1>1 DEF WindowOK
<1>5. m <= a
  BY <1>12, <1>13
<1>6. \A i \in 1..(m + 1) : longer[i] = more[a - m + i]
  <2> TAKE i \in 1..(m + 1)
  <2>1. CASE i \in 1..m
    <3>1. a - m + i \in 1..a
      BY <1>5, <2>1
    <3> QED BY <1>2, <1>3, <1>4, <2>1, <3>1
  <2>2. CASE i = m + 1
    <3>1. a - m + i = a + 1
      BY <2>2
    <3> QED BY <1>2, <1>3, <2>2, <3>1
  <2>3. i \in 1..m \/ i = m + 1
    OBVIOUS
  <2> QED BY <2>1, <2>2, <2>3
<1>7. SeenWith(w, n) = IF m + 1 > SeenMax THEN Tail(longer) ELSE longer
  BY <1>3 DEF SeenWith
<1>8. \A i \in 1..m : w[i] # n
  BY <1>1 DEF ToSet
<1>9. ASSUME NEW i \in 1..(a + 1), NEW j \in 1..(a + 1), i < j, more[i] = more[j]
      PROVE  j - i > SeenMax
  <2>4. i \in 1..a
    BY <1>9
  <2>1. i \in 1..a /\ more[i] = all[i]
    BY <1>2, <2>4
  <2>2. CASE j \in 1..a
    <3>1. all[i] = all[j]
      BY <1>2, <1>9, <2>1, <2>2
    <3> QED BY <1>4, <1>9, <2>1, <2>2, <3>1
  <2>3. CASE j = a + 1
    <3>1. all[i] = n
      BY <1>2, <1>9, <2>1, <2>3
    <3>2. i <= a - m
      <4> SUFFICES ASSUME i > a - m PROVE FALSE
        BY <2>1
      <4>1. i - (a - m) \in 1..m /\ a - m + (i - (a - m)) = i
        BY <1>5, <2>1
      <4>2. w[i - (a - m)] = all[i]
        BY <1>4, <4>1
      <4> QED BY <1>8, <3>1, <4>1, <4>2
    <3>3. m # a
      BY <2>1, <3>2
    <3> QED BY <1>12, <1>13, <2>4, <2>3, <3>2, <3>3
  <2>5. j \in 1..a \/ j = a + 1
    OBVIOUS
  <2> QED BY <2>2, <2>3, <2>5
<1>10. CASE m + 1 > SeenMax
  <2>1. m = SeenMax /\ a >= SeenMax
    BY <1>12, <1>13, <1>10
  <2>5. longer \in Seq(Nat) /\ longer # <<>> /\ Len(longer) - 1 = m
    BY <1>3
  <2>2. Tail(longer) \in Seq(Nat) /\ Len(Tail(longer)) = m /\ \A i \in 1..m : Tail(longer)[i] = longer[i + 1]
    BY <2>5, HeadTailProperties
  <2>3. \A i \in 1..m : longer[i + 1] = more[(a + 1) - m + i]
    <3> TAKE i \in 1..m
    <3>1. i + 1 \in 1..(m + 1) /\ a - m + (i + 1) = (a + 1) - m + i
      BY <1>5
    <3> QED BY <1>6, <3>1
  <2>6. \A i \in 1..m : Tail(longer)[i] = more[(a + 1) - m + i]
    BY <2>2, <2>3
  <2>7. a + 1 >= SeenMax /\ ~(a + 1 < SeenMax)
    BY <1>12, <2>1
  <2>4. WindowOK(Tail(longer), more)
    BY <1>2, <1>9, <2>1, <2>2, <2>6, <2>7 DEF WindowOK
  <2> QED BY <1>7, <1>10, <2>2, <2>4
<1>11. CASE ~(m + 1 > SeenMax)
  <2>1. m = a
    BY <1>12, <1>13, <1>11
  <2>2. \A i \in 1..(m + 1) : longer[i] = more[(a + 1) - (m + 1) + i]
    <3> TAKE i \in 1..(m + 1)
    <3>1. a - m + i = (a + 1) - (m + 1) + i
      OBVIOUS
    <3> QED BY <1>6, <3>1
  <2>3. WindowOK(longer, more)
    BY <1>12, <1>2, <1>3, <1>9, <1>11, <2>1, <2>2 DEF WindowOK
  <2> QED BY <1>3, <1>7, <1>11, <2>3
<1> QED BY <1>10, <1>11

\* What a handler remembers leads to where its user has written, and is saved, or its
\* chat is known to be unsaved.
LEMMA NamesAreRemembered ==
  ASSUME ChannelInv, NEW n \in DOMAIN posted, posted' = posted, delivered' \in Nat, delivered <= delivered',
         Admitted(n, delivered', posted), Remembers(n)
  PROVE  /\ NamesInv'
         /\ known' \in [Users -> Chats \cup {Unnamed}]
         /\ memoryUser' \in [Chats -> Users \cup Chats \cup {Unnamed}]
         /\ storedUser' \in [Chats -> Users \cup Chats \cup {Unnamed}]
         /\ unsaved' \in SUBSET Chats
<1> DEFINE post == posted[n]
           name == Identity(post)
           c == post.chat
<1>1. /\ c \in Chats /\ post.user \in Users /\ name \in Users \cup Chats \cup {Unnamed}
      /\ name \in Users => name = post.user
  BY PostTypes DEF ChannelInv
<1>2. name \in Users => Wrote(name, c, delivered', posted)
  BY <1>1 DEF Wrote, Admitted
<1>3. \A u, d : Wrote(u, d, delivered, posted) => Wrote(u, d, delivered', posted)
  BY DEF Wrote, ChannelInv, ChannelTypes
<1>4. /\ known \in [Users -> Chats \cup {Unnamed}]
      /\ memoryUser \in [Chats -> Users \cup Chats \cup {Unnamed}]
      /\ storedUser \in [Chats -> Users \cup Chats \cup {Unnamed}]
      /\ unsaved \in SUBSET Chats
  BY DEF ChannelInv, ChannelTypes
<1>5. /\ known' = IF name \in Users THEN [known EXCEPT ![name] = c] ELSE known
      /\ memoryUser' = IF NeedsSave(post) THEN [memoryUser EXCEPT ![c] = name] ELSE memoryUser
      /\ \/ /\ storedUser' = IF NeedsSave(post) THEN [storedUser EXCEPT ![c] = name] ELSE storedUser
            /\ unsaved' = IF NeedsSave(post) THEN unsaved \ {c} ELSE unsaved
         \/ NeedsSave(post) /\ unsaved' = unsaved \cup {c} /\ storedUser' = storedUser
  BY DEF Remembers
<1>6. NamesInv
  BY DEF ChannelInv
<1> HIDE DEF post, name, c
<1>7. /\ known' \in [Users -> Chats \cup {Unnamed}]
      /\ memoryUser' \in [Chats -> Users \cup Chats \cup {Unnamed}]
      /\ storedUser' \in [Chats -> Users \cup Chats \cup {Unnamed}]
      /\ unsaved' \in SUBSET Chats
  BY <1>1, <1>4, <1>5
<1>8. \A u \in Users : known'[u] # Unnamed => Wrote(u, known'[u], delivered', posted)
  <2> TAKE u \in Users
  <2>1. known'[u] = known[u] \/ (u = name /\ name \in Users /\ known'[u] = c)
    BY <1>4, <1>5
  <2> QED BY <1>2, <1>3, <1>6, <2>1 DEF NamesInv
<1>9. \A d \in Chats, u \in Users : memoryUser'[d] = u => Wrote(u, d, delivered', posted)
  <2> TAKE d \in Chats, u \in Users
  <2>1. memoryUser'[d] = memoryUser[d] \/ (d = c /\ memoryUser'[d] = name)
    BY <1>4, <1>5
  <2> QED BY <1>2, <1>3, <1>6, <2>1 DEF NamesInv
<1>10. \A d \in Chats, u \in Users : storedUser'[d] = u => Wrote(u, d, delivered', posted)
  <2> TAKE d \in Chats, u \in Users
  <2>1. storedUser'[d] = storedUser[d] \/ (d = c /\ storedUser'[d] = name)
    BY <1>4, <1>5
  <2> QED BY <1>2, <1>3, <1>6, <2>1 DEF NamesInv
<1>11. MetadataIsSaved'
  <2> SUFFICES ASSUME NEW d \in Chats, storedUser'[d] # memoryUser'[d] PROVE d \in unsaved'
    BY DEF MetadataIsSaved
  <2>1. storedUser[d] # memoryUser[d] => d \in unsaved
    BY <1>6 DEF NamesInv, MetadataIsSaved
  <2>2. CASE d = c
    BY <1>1, <1>4, <1>5, <2>1, <2>2
  <2>3. CASE d # c
    BY <1>1, <1>4, <1>5, <2>1, <2>3
  <2> QED BY <2>2, <2>3
<1> QED BY <1>7, <1>8, <1>9, <1>10, <1>11 DEF NamesInv

\* Nothing has been posted.
LEMMA ChannelBegins ==
  ASSUME ChannelInit
  PROVE  ChannelInv
<1> USE DEF ChannelInit
<1>1. SeenMax \in Nat /\ SeenMax > 0
  BY ChannelsAssumption
<1>2. ChannelTypes
  BY DEF ChannelTypes
<1>3. OneApp
  BY DEF OneApp
<1>4. WindowInv
  BY <1>1 DEF WindowInv, WindowOK
<1>5. NamesInv
  BY ChannelsAssumption DEF NamesInv, MetadataIsSaved
<1>6. BusInv
  BY DEF BusInv, BusOK, QueueOK
<1> QED BY <1>2, <1>3, <1>4, <1>5, <1>6 DEF ChannelInv

\* A user writes.
LEMMA PostsStep ==
  ASSUME ChannelInv, Posts
  PROVE  ChannelInv'
<1>1. PICK form \in PostForms : (\A i \in DOMAIN posted : posted[i].app = form.app) /\ posted' = Append(posted, form)
  BY DEF Posts
<1>2. UNCHANGED <<delivered, seen, accepted, known, memoryUser, storedUser, tasks, published, interrupts,
                  unsaved, repeats, restarts>>
  BY DEF Posts
<1>3. posted \in Seq(PostForms) /\ delivered \in 0..Len(posted)
  BY DEF ChannelInv, ChannelTypes
<1>4. /\ posted' \in Seq(PostForms) /\ Len(posted') = Len(posted) + 1 /\ DOMAIN posted' = 1..(Len(posted) + 1)
      /\ \A i \in 1..Len(posted) : posted'[i] = posted[i]
      /\ posted'[Len(posted) + 1] = form
  BY <1>1, <1>3
<1>5. \A i \in DOMAIN posted' : posted'[i].app = form.app
  BY <1>1, <1>3, <1>4
<1>6. \A i \in 1..delivered : posted'[i] = posted[i]
  BY <1>3, <1>4
<1>7. ChannelTypes'
  BY <1>2, <1>3, <1>4 DEF ChannelInv, ChannelTypes
<1>8. OneApp'
  BY <1>5 DEF OneApp
<1>9. WindowInv'
  BY <1>2 DEF ChannelInv, WindowInv
<1>10. NamesInv'
  <2>1. \A u, c : Wrote(u, c, delivered, posted) => Wrote(u, c, delivered', posted')
    BY <1>2, <1>6 DEF Wrote
  <2>2. MetadataIsSaved'
    BY <1>2 DEF ChannelInv, NamesInv, MetadataIsSaved
  <2> QED BY <1>2, <2>1, <2>2 DEF ChannelInv, NamesInv
<1>11. BusInv'
  <2>1. QueueOK(tasks, published, delivered, posted', repeats) /\ BusOK(published, delivered, posted', repeats)
    BY <1>3, <1>6, BusStays DEF ChannelInv, ChannelTypes, BusInv
  <2>2. \A n \in interrupts : Admitted(n, delivered, posted')
    BY <1>6 DEF ChannelInv, BusInv, Admitted
  <2> QED BY <1>2, <2>1, <2>2 DEF BusInv
<1> QED BY <1>7, <1>8, <1>9, <1>10, <1>11 DEF ChannelInv

\* An update comes, or comes again: it is looked for in the window, remembered, and waits or ends.
LEMMA TelegramStep ==
  ASSUME ChannelInv, TelegramUpdate
  PROVE  ChannelInv'
<1>1. PICK n \in (1..(delivered + 1)) \cap DOMAIN posted :
        LET post == posted[n]
            twice == post.kind \in {"text", "media"} /\ n \in ToSet(seen)
            taken == post.user \in AllowedUsers /\ post.kind # "stop" /\ ~twice
        IN  /\ post.app = "tg"
            /\ n <= delivered => repeats < MaxRepeats
            /\ repeats' = IF n <= delivered THEN repeats + 1 ELSE repeats
            /\ delivered' = IF n > delivered THEN n ELSE delivered
            /\ interrupts' = IF post.kind = "stop" /\ post.user \in AllowedUsers
                             THEN interrupts \cup {n} ELSE interrupts
            /\ seen' = IF taken /\ post.kind # "document" THEN SeenWith(seen, n) ELSE seen
            /\ accepted' = IF taken /\ post.kind # "document" THEN Append(accepted, n) ELSE accepted
            /\ IF taken THEN Remembers(n) ELSE UNCHANGED <<known, memoryUser, storedUser,
                                                           unsaved, tasks, published>>
  BY DEF TelegramUpdate
<1> DEFINE post == posted[n]
           taken == /\ post.user \in AllowedUsers /\ post.kind # "stop"
                    /\ ~(post.kind \in {"text", "media"} /\ n \in ToSet(seen))
<1>2. /\ posted \in Seq(PostForms) /\ delivered \in 0..Len(posted) /\ DOMAIN posted = 1..Len(posted)
      /\ repeats \in Nat /\ tasks = <<>> /\ UNCHANGED <<posted, restarts>> /\ published \in Seq(Nat)
      /\ seen \in Seq(Nat) /\ accepted \in Seq(Nat)
  BY DEF ChannelInv, ChannelTypes, TelegramUpdate
<1>3. /\ n \in Nat /\ n \in DOMAIN posted /\ n \in 1..delivered' /\ delivered' \in 0..Len(posted) /\ delivered' \in Nat
      /\ delivered <= delivered' /\ repeats' \in Nat /\ repeats <= repeats' /\ (n <= delivered => repeats' > 0)
  BY <1>1, <1>2
<1>4. post.kind \in {"text", "media", "document", "stop"} /\ post.app = "tg"
  BY <1>1, <1>3, PostTypes DEF ChannelInv
<1>5. /\ interrupts' = IF post.kind = "stop" /\ post.user \in AllowedUsers THEN interrupts \cup {n} ELSE interrupts
      /\ seen' = IF taken /\ post.kind # "document" THEN SeenWith(seen, n) ELSE seen
      /\ accepted' = IF taken /\ post.kind # "document" THEN Append(accepted, n) ELSE accepted
      /\ IF taken THEN Remembers(n) ELSE UNCHANGED <<known, memoryUser, storedUser, unsaved, tasks, published>>
  BY <1>1
<1>6. post.user \in AllowedUsers => Admitted(n, delivered', posted)
  BY <1>3 DEF Admitted
<1>7. WindowInv' /\ seen' \in Seq(Nat) /\ accepted' \in Seq(Nat)
  <2>1. WindowOK(seen, accepted)
    BY DEF ChannelInv, WindowInv
  <2>2. CASE taken /\ post.kind # "document"
    <3>1. n \notin ToSet(seen)
      BY <1>4, <2>2
    <3>2. WindowOK(SeenWith(seen, n), Append(accepted, n)) /\ SeenWith(seen, n) \in Seq(Nat)
      BY <1>2, <1>3, <2>1, <3>1, WindowMoves
    <3>3. seen' = SeenWith(seen, n) /\ accepted' = Append(accepted, n)
      BY <1>5, <2>2
    <3>4. Append(accepted, n) \in Seq(Nat)
      BY <1>2, <1>3
    <3> QED BY <3>2, <3>3, <3>4 DEF WindowInv
  <2>3. CASE ~(taken /\ post.kind # "document")
    <3>1. seen' = seen /\ accepted' = accepted
      BY <1>5, <2>3
    <3> QED BY <1>2, <2>1, <3>1 DEF WindowInv
  <2> QED BY <2>2, <2>3
<1> HIDE DEF taken
<1>15. taken => post.user \in AllowedUsers /\ post.kind # "stop"
  BY DEF taken
<1>8. /\ NamesInv'
      /\ known' \in [Users -> Chats \cup {Unnamed}]
      /\ memoryUser' \in [Chats -> Users \cup Chats \cup {Unnamed}]
      /\ storedUser' \in [Chats -> Users \cup Chats \cup {Unnamed}]
      /\ unsaved' \in SUBSET Chats
  <2>1. CASE taken
    <3>1. Remembers(n) /\ Admitted(n, delivered', posted)
      BY <1>5, <1>6, <1>15, <2>1
    <3> QED BY <1>2, <1>3, <3>1, NamesAreRemembered
  <2>2. CASE ~taken
    <3>1. UNCHANGED <<known, memoryUser, storedUser, unsaved>>
      BY <1>5, <2>2
    <3>2. \A u, c : Wrote(u, c, delivered, posted) => Wrote(u, c, delivered', posted')
      BY <1>2, <1>3 DEF Wrote
    <3> QED BY <3>1, <3>2 DEF ChannelInv, ChannelTypes, NamesInv, MetadataIsSaved
  <2> QED BY <2>1, <2>2
<1>9. QueueOK(tasks, published, delivered', posted, repeats') /\ BusOK(published, delivered', posted, repeats')
  <2>1. QueueOK(tasks, published, delivered, posted, repeats) /\ BusOK(published, delivered, posted, repeats)
    BY DEF ChannelInv, BusInv
  <2>2. tasks \in Seq(Tasks) /\ delivered \in Nat
    BY <1>2
  <2> QED BY <1>2, <1>3, <2>1, <2>2, BusStays
<1>10. \A p \in DOMAIN published : published[p] > n => Outrun(n, posted, repeats')
  <2>1. \A p \in DOMAIN published : published[p] \in 1..delivered
    BY DEF ChannelInv, BusInv, BusOK, Admitted
  <2> QED BY <1>2, <1>3, <1>4, <2>1 DEF Outrun
<1>11. tasks' \in Seq(Tasks) /\ published' = published /\ QueueOK(tasks', published, delivered', posted, repeats')
  <2>1. CASE ~taken
    BY <1>2, <1>5, <1>9, <2>1
  <2>2. CASE taken
    <3>1. TasksBut(n) = <<>>
      BY <1>2 DEF TasksBut
    <3>2. \/ tasks' = Append(<<>>, [message |-> n, step |-> "waits"]) /\ published' = published
          \/ tasks' = <<>> /\ published' = published
      BY <1>4, <1>5, <2>2, <3>1 DEF Remembers, Proceeds
    <3>3. CASE tasks' = Append(<<>>, [message |-> n, step |-> "waits"]) /\ published' = published
      <4>1. Admitted(n, delivered', posted) /\ posted[n].kind # "stop" /\ posted[n].app # "qq"
        BY <1>4, <1>6, <1>15, <2>2
      <4>2. QueueOK(Append(tasks, [message |-> n, step |-> "waits"]), published, delivered', posted, repeats')
        <5>1. tasks \in Seq(Tasks) /\ DOMAIN tasks = {}
          BY <1>2
        <5> QED BY <1>2, <1>3, <1>9, <1>10, <4>1, <5>1, QueueWaits
      <4>3. [message |-> n, step |-> "waits"] \in Tasks
        BY <1>3 DEF Tasks
      <4> QED BY <1>2, <3>3, <4>2, <4>3
    <3>4. CASE tasks' = <<>> /\ published' = published
      BY <1>2, <1>9, <3>4
    <3> QED BY <3>2, <3>3, <3>4
  <2> QED BY <2>1, <2>2
<1>12. interrupts' \in SUBSET Nat /\ \A i \in interrupts' : Admitted(i, delivered', posted)
  <2>1. interrupts \in SUBSET Nat /\ \A i \in interrupts : Admitted(i, delivered, posted)
    BY DEF ChannelInv, ChannelTypes, BusInv
  <2>2. \A i \in interrupts : Admitted(i, delivered', posted)
    BY <1>2, <1>3, <2>1 DEF Admitted
  <2> QED BY <1>3, <1>5, <1>6, <2>1, <2>2
<1>13. BusInv'
  BY <1>2, <1>9, <1>11, <1>12 DEF BusInv
<1>14. ChannelTypes'
  <2>1. restarts' \in Nat
    BY <1>2 DEF ChannelInv, ChannelTypes
  <2> QED BY <1>2, <1>3, <1>7, <1>8, <1>11, <1>12, <2>1 DEF ChannelTypes
<1>16. OneApp'
  BY <1>2 DEF ChannelInv, OneApp
<1> QED BY <1>7, <1>8, <1>13, <1>14, <1>16 DEF ChannelInv

\* An event is filtered and handed over, behind all that was.
LEMMA QqEventStep ==
  ASSUME ChannelInv, QqEvent
  PROVE  ChannelInv'
<1> DEFINE n == delivered + 1
<1>1. /\ delivered < Len(posted) /\ posted[n].app = "qq" /\ delivered' = n
      /\ \/ posted[n].user \in AllowedUsers /\ tasks' = Append(tasks, [message |-> n, step |-> "start"])
         \/ tasks' = tasks
      /\ UNCHANGED <<posted, seen, accepted, known, memoryUser, storedUser, published,
                     interrupts, unsaved, repeats, restarts>>
  BY DEF QqEvent
<1>2. /\ posted \in Seq(PostForms) /\ delivered \in 0..Len(posted) /\ DOMAIN posted = 1..Len(posted)
      /\ repeats \in Nat /\ tasks \in Seq(Tasks) /\ published \in Seq(Nat) /\ interrupts \in SUBSET Nat
  BY DEF ChannelInv, ChannelTypes
<1>3. n \in DOMAIN posted /\ n \in Nat /\ delivered \in Nat /\ delivered <= n /\ n \in 0..Len(posted)
  BY <1>1, <1>2
<1>4. QueueOK(tasks, published, delivered, posted, repeats) /\ BusOK(published, delivered, posted, repeats)
  BY DEF ChannelInv, BusInv
<1>5. QueueOK(tasks, published, n, posted, repeats) /\ BusOK(published, n, posted, repeats)
  BY <1>2, <1>3, <1>4, BusStays
<1>6. \A k \in DOMAIN tasks : posted[tasks[k].message].app # "tg"
  <2> TAKE k \in DOMAIN tasks
  <2>1. tasks[k].message \in DOMAIN posted
    BY <1>2, <1>4 DEF QueueOK, Admitted
  <2> QED BY <1>1, <1>3, <2>1 DEF ChannelInv, OneApp
<1>7. QueueOK(tasks', published, n, posted, repeats) /\ tasks' \in Seq(Tasks)
  <2>1. CASE posted[n].user \in AllowedUsers /\ tasks' = Append(tasks, [message |-> n, step |-> "start"])
    <3>1. posted[delivered + 1].user \in AllowedUsers /\ posted[delivered + 1].app # "tg"
      BY <1>1, <2>1
    <3>2. QueueOK(Append(tasks, [message |-> delivered + 1, step |-> "start"]), published, delivered + 1, posted, repeats)
      BY <1>2, <1>3, <1>4, <1>6, <3>1, QueueStarts
    <3>3. [message |-> n, step |-> "start"] \in Tasks
      BY <1>3 DEF Tasks
    <3> QED BY <1>2, <2>1, <3>2, <3>3
  <2>2. CASE tasks' = tasks
    BY <1>2, <1>5, <2>2
  <2> QED BY <1>1, <2>1, <2>2
<1>8. \A i \in interrupts : Admitted(i, n, posted)
  BY <1>2, <1>3 DEF ChannelInv, BusInv, Admitted
<1>9. BusInv'
  BY <1>1, <1>5, <1>7, <1>8 DEF BusInv
<1>10. ChannelTypes'
  BY <1>1, <1>3, <1>7 DEF ChannelInv, ChannelTypes
<1>11. NamesInv'
  <2>1. \A u, c : Wrote(u, c, delivered, posted) => Wrote(u, c, delivered', posted')
    BY <1>1, <1>3 DEF Wrote
  <2> QED BY <1>1, <2>1 DEF ChannelInv, NamesInv, MetadataIsSaved
<1>12. OneApp' /\ WindowInv'
  BY <1>1 DEF ChannelInv, OneApp, WindowInv
<1> QED BY <1>9, <1>10, <1>11, <1>12 DEF ChannelInv

\* The first that was handed over starts, and nothing on the bus came after it.
LEMMA QqStartsStep ==
  ASSUME ChannelInv, QqStarts
  PROVE  ChannelInv'
<1> DEFINE W == Waiting("start")
           m == Min(W)
           n == tasks[m].message
           rest == RemoveAt(tasks, m)
<1>1. /\ W # {}
      /\ IF posted[n].kind = "stop"
         THEN /\ interrupts' = interrupts \cup {n} /\ tasks' = TasksBut(n)
              /\ UNCHANGED <<known, memoryUser, storedUser, unsaved, published>>
         ELSE Remembers(n) /\ interrupts' = interrupts
      /\ UNCHANGED <<posted, delivered, seen, accepted, repeats, restarts>>
  BY DEF QqStarts
<1>2. /\ posted \in Seq(PostForms) /\ delivered \in 0..Len(posted) /\ DOMAIN posted = 1..Len(posted)
      /\ repeats \in Nat /\ tasks \in Seq(Tasks) /\ published \in Seq(Nat) /\ interrupts \in SUBSET Nat
      /\ DOMAIN tasks = 1..Len(tasks) /\ delivered \in Nat
  BY DEF ChannelInv, ChannelTypes
<1>3. QueueOK(tasks, published, delivered, posted, repeats) /\ BusOK(published, delivered, posted, repeats)
  BY DEF ChannelInv, BusInv
<1>4. m \in DOMAIN tasks /\ tasks[m].step = "start" /\ \A k \in DOMAIN tasks : tasks[k].step = "start" => m <= k
  <2>1. W \in SUBSET Nat
    BY <1>2 DEF Waiting
  <2>2. m \in W /\ \A x \in W : m <= x
    BY <1>1, <2>1, MinOf
  <2> QED BY <2>2 DEF Waiting
<1>5. Admitted(n, delivered, posted) /\ n \in Nat /\ n \in DOMAIN posted
  BY <1>2, <1>3, <1>4 DEF QueueOK, Admitted
<1>6. posted[n].app = "qq" /\ posted[n].app # "tg"
  <2>1. posted[n].app # "tg"
    BY <1>3, <1>4 DEF QueueOK
  <2> QED BY <1>5, <2>1, PostTypes DEF ChannelInv
<1> HIDE DEF m, W
<1>7. \A k \in DOMAIN tasks : k # m => IF tasks[k].step = "start" THEN n < tasks[k].message ELSE tasks[k].message < n
  <2> SUFFICES ASSUME NEW k \in DOMAIN tasks, k # m
               PROVE  IF tasks[k].step = "start" THEN n < tasks[k].message ELSE tasks[k].message < n
    OBVIOUS
  <2>4. tasks[k] \in Tasks
    BY <1>2
  <2>1. tasks[k].step \in {"start", "waits"}
    BY <2>4 DEF Tasks
  <2>2. CASE tasks[k].step = "start"
    <3>1. m < k
      BY <1>2, <1>4, <2>2
    <3> QED BY <1>3, <1>4, <2>2, <3>1 DEF QueueOK
  <2>3. CASE tasks[k].step = "waits"
    BY <1>3, <1>4, <2>3 DEF QueueOK
  <2> QED BY <2>1, <2>2, <2>3
<1>8. TasksBut(n) = rest
  <2> DEFINE places == {i \in DOMAIN tasks : tasks[i].message = n}
  <2>1. \A k \in DOMAIN tasks : k # m => tasks[k].message # n
    <3> SUFFICES ASSUME NEW k \in DOMAIN tasks, k # m, tasks[k].message = n PROVE FALSE
      OBVIOUS
    <3> QED BY <1>5, <1>7
  <2>2. places = {m}
    BY <1>4, <2>1
  <2>3. TasksBut(n) = IF places = {} THEN tasks ELSE RemoveAt(tasks, CHOOSE i \in places : TRUE)
    BY DEF TasksBut
  <2> HIDE DEF places
  <2>4. (CHOOSE i \in places : TRUE) = m
    BY <2>2
  <2> QED BY <2>2, <2>3, <2>4
<1>9. /\ rest \in Seq(Tasks) /\ QueueOK(rest, published, delivered, posted, repeats)
      /\ \A k \in DOMAIN rest : \E j \in DOMAIN tasks : j # m /\ rest[k] = tasks[j]
  <2>1. rest \in Seq(Tasks) /\ Len(rest) = Len(tasks) - 1
        /\ \A k \in 1..(Len(tasks) - 1) : rest[k] = tasks[IF k < m THEN k ELSE k + 1]
    BY <1>2, <1>4, Removal
  <2>2. QueueOK(rest, published, delivered, posted, repeats)
    BY <1>2, <1>3, <1>4, QueueShrinks
  <2>3. \A k \in DOMAIN rest : \E j \in DOMAIN tasks : j # m /\ rest[k] = tasks[j]
    <3> TAKE k \in DOMAIN rest
    <3>1. k \in 1..(Len(tasks) - 1)
      BY <2>1
    <3>2. (IF k < m THEN k ELSE k + 1) \in DOMAIN tasks /\ (IF k < m THEN k ELSE k + 1) # m
      BY <1>2, <1>4, <3>1
    <3> QED BY <2>1, <3>1, <3>2
  <2> QED BY <2>1, <2>2, <2>3
<1> HIDE DEF rest
<1>10. \A k \in DOMAIN rest : rest[k].step = "start" => n < rest[k].message
  BY <1>7, <1>9
<1>11. \A k \in DOMAIN rest : n > rest[k].message => rest[k].step = "waits"
  <2> SUFFICES ASSUME NEW k \in DOMAIN rest, n > rest[k].message, rest[k].step # "waits" PROVE FALSE
    OBVIOUS
  <2>1. rest[k] \in Tasks
    BY <1>9
  <2>2. rest[k].step = "start" /\ rest[k].message \in Nat
    BY <2>1 DEF Tasks
  <2> QED BY <1>5, <1>10, <2>2
<1>12. \A k \in DOMAIN rest : posted[rest[k].message].app # "tg"
  <2> TAKE k \in DOMAIN rest
  <2>1. rest[k].message \in DOMAIN posted
    BY <1>2, <1>9 DEF QueueOK, Admitted
  <2> QED BY <1>5, <1>6, <2>1 DEF ChannelInv, OneApp
<1>13. \A k \in DOMAIN rest : n > rest[k].message => Outrun(rest[k].message, posted, repeats)
  <2> TAKE k \in DOMAIN rest
  <2> HAVE n > rest[k].message
  <2>1. rest[k].message \in DOMAIN posted
    BY <1>2, <1>9 DEF QueueOK, Admitted
  <2>2. posted[rest[k].message].app = "qq"
    BY <1>12, <2>1, PostTypes DEF ChannelInv
  <2> QED BY <1>9, <1>11, <1>12, <2>2 DEF QueueOK, Outrun
<1>14. \A p \in DOMAIN published : published[p] < n /\ published[p] \in Nat
  BY <1>2, <1>3, <1>4 DEF QueueOK
<1>15. \A p \in DOMAIN published : published[p] > n => Outrun(n, posted, repeats)
  BY <1>5, <1>14
<1>16. /\ tasks' \in Seq(Tasks) /\ published' \in Seq(Nat) /\ QueueOK(tasks', published', delivered, posted, repeats)
       /\ BusOK(published', delivered, posted, repeats)
  <2>1. CASE tasks' = rest /\ published' = published
    BY <1>2, <1>3, <1>9, <2>1
  <2>2. CASE ~(tasks' = rest /\ published' = published)
    <3>1. posted[n].kind # "stop" /\ Remembers(n)
      BY <1>1, <1>8, <2>2
    <3>2. Proceeds(n)
      BY <1>8, <2>2, <3>1 DEF Remembers
    <3>3. CASE Slow(posted[n])
      <4>1. tasks' = Append(rest, [message |-> n, step |-> "waits"]) /\ published' = published
        BY <1>8, <3>2, <3>3 DEF Proceeds
      <4>2. QueueOK(Append(rest, [message |-> n, step |-> "waits"]), published, delivered, posted, repeats)
        BY <1>2, <1>5, <1>6, <1>9, <1>10, <1>12, <1>15, <3>1, <3>3, QueueWaits
      <4>3. [message |-> n, step |-> "waits"] \in Tasks
        BY <1>5 DEF Tasks
      <4> QED BY <1>2, <1>3, <1>9, <4>1, <4>2, <4>3
    <3>4. CASE ~Slow(posted[n])
      <4>1. tasks' = rest /\ published' = Append(published, n)
        BY <1>6, <1>8, <3>2, <3>4 DEF Proceeds
      <4>2. /\ QueueOK(rest, Append(published, n), delivered, posted, repeats)
            /\ BusOK(Append(published, n), delivered, posted, repeats)
        BY <1>2, <1>3, <1>5, <1>9, <1>10, <1>13, <1>15, <3>1, BusGrows
      <4> QED BY <1>2, <1>5, <1>9, <4>1, <4>2
    <3> QED BY <3>3, <3>4
  <2> QED BY <2>1, <2>2
<1>17. interrupts' \in SUBSET Nat /\ \A i \in interrupts' : Admitted(i, delivered, posted)
  BY <1>1, <1>2, <1>5 DEF ChannelInv, BusInv
<1>18. /\ NamesInv'
       /\ known' \in [Users -> Chats \cup {Unnamed}]
       /\ memoryUser' \in [Chats -> Users \cup Chats \cup {Unnamed}]
       /\ storedUser' \in [Chats -> Users \cup Chats \cup {Unnamed}]
       /\ unsaved' \in SUBSET Chats
  <2>1. CASE posted[n].kind = "stop"
    <3>1. UNCHANGED <<known, memoryUser, storedUser, unsaved, delivered, posted>>
      BY <1>1, <2>1
    <3> QED BY <3>1 DEF ChannelInv, ChannelTypes, NamesInv, MetadataIsSaved
  <2>2. CASE posted[n].kind # "stop"
    <3>1. Remembers(n) /\ posted' = posted /\ delivered' = delivered
      BY <1>1, <2>2
    <3> QED BY <1>2, <1>5, <3>1, NamesAreRemembered
  <2> QED BY <2>1, <2>2
<1>19. BusInv'
  BY <1>1, <1>16, <1>17 DEF BusInv
<1>20. ChannelTypes'
  BY <1>1, <1>16, <1>17, <1>18 DEF ChannelInv, ChannelTypes
<1>21. OneApp' /\ WindowInv'
  BY <1>1 DEF ChannelInv, OneApp, WindowInv
<1> QED BY <1>18, <1>19, <1>20, <1>21 DEF ChannelInv

\* A turn writes the metadata that memory has.
LEMMA TurnSavesStep ==
  ASSUME ChannelInv, TurnSaves
  PROVE  ChannelInv'
<1>1. PICK c \in unsaved :
        /\ storedUser' = [storedUser EXCEPT ![c] = memoryUser[c]]
        /\ unsaved' = unsaved \ {c}
        /\ UNCHANGED <<posted, delivered, seen, accepted, known, memoryUser, tasks, published,
                       interrupts, repeats, restarts>>
  BY DEF TurnSaves
<1>2. /\ unsaved \in SUBSET Chats /\ c \in Chats
      /\ memoryUser \in [Chats -> Users \cup Chats \cup {Unnamed}]
      /\ storedUser \in [Chats -> Users \cup Chats \cup {Unnamed}]
  BY DEF ChannelInv, ChannelTypes
<1>3. \A d \in Chats : storedUser'[d] = IF d = c THEN memoryUser[c] ELSE storedUser[d]
  BY <1>1, <1>2
<1>4. storedUser' \in [Chats -> Users \cup Chats \cup {Unnamed}] /\ unsaved' \in SUBSET Chats
  BY <1>1, <1>2
<1>5. ChannelTypes'
  BY <1>1, <1>4 DEF ChannelInv, ChannelTypes
<1>6. NamesInv'
  <2>1. \A d \in Chats, u \in Users : storedUser'[d] = u => Wrote(u, d, delivered, posted)
    BY <1>3 DEF ChannelInv, NamesInv
  <2>2. MetadataIsSaved'
    BY <1>1, <1>3 DEF ChannelInv, NamesInv, MetadataIsSaved
  <2> QED BY <1>1, <2>1, <2>2 DEF ChannelInv, NamesInv
<1>7. OneApp' /\ WindowInv' /\ BusInv'
  BY <1>1 DEF ChannelInv, OneApp, WindowInv, BusInv
<1> QED BY <1>5, <1>6, <1>7 DEF ChannelInv

\* What waited comes to the bus, or is lost.
LEMMA DownloadedStep ==
  ASSUME ChannelInv, Downloaded
  PROVE  ChannelInv'
<1>1. PICK i \in Waiting("waits") :
        LET n == tasks[i].message
        IN  /\ tasks' = RemoveAt(tasks, i)
            /\ published' = Append(published, n) \/ (posted[n].app = "tg" /\ Slow(posted[n]) /\ published' = published)
            /\ UNCHANGED <<posted, delivered, seen, accepted, known, memoryUser, storedUser,
                           interrupts, unsaved, repeats, restarts>>
  BY DEF Downloaded
<1> DEFINE n == tasks[i].message
           rest == RemoveAt(tasks, i)
<1>2. /\ posted \in Seq(PostForms) /\ delivered \in 0..Len(posted) /\ DOMAIN posted = 1..Len(posted)
      /\ repeats \in Nat /\ tasks \in Seq(Tasks) /\ published \in Seq(Nat)
      /\ DOMAIN tasks = 1..Len(tasks) /\ delivered \in Nat
  BY DEF ChannelInv, ChannelTypes
<1>3. QueueOK(tasks, published, delivered, posted, repeats) /\ BusOK(published, delivered, posted, repeats)
  BY DEF ChannelInv, BusInv
<1>4. i \in DOMAIN tasks /\ tasks[i].step = "waits"
  BY <1>1 DEF Waiting
<1>5. Admitted(n, delivered, posted) /\ n \in Nat /\ posted[n].kind # "stop"
  BY <1>2, <1>3, <1>4 DEF QueueOK, Admitted
<1>6. /\ rest \in Seq(Tasks) /\ QueueOK(rest, published, delivered, posted, repeats)
      /\ \A k \in DOMAIN rest : (\E j \in DOMAIN tasks : rest[k] = tasks[j]) /\ Len(tasks) # 1
  <2>1. rest \in Seq(Tasks) /\ Len(rest) = Len(tasks) - 1
        /\ \A k \in 1..(Len(tasks) - 1) : rest[k] = tasks[IF k < i THEN k ELSE k + 1]
    BY <1>2, <1>4, Removal
  <2>2. QueueOK(rest, published, delivered, posted, repeats)
    BY <1>2, <1>3, <1>4, QueueShrinks
  <2>3. \A k \in DOMAIN rest : (\E j \in DOMAIN tasks : rest[k] = tasks[j]) /\ Len(tasks) # 1
    <3> TAKE k \in DOMAIN rest
    <3>1. k \in 1..(Len(tasks) - 1)
      BY <2>1
    <3>2. (IF k < i THEN k ELSE k + 1) \in DOMAIN tasks /\ Len(tasks) # 1
      BY <1>2, <1>4, <3>1
    <3> QED BY <2>1, <3>1, <3>2
  <2> QED BY <2>1, <2>2, <2>3
<1> HIDE DEF rest
<1>7. \A k \in DOMAIN rest : rest[k].step = "start" => n < rest[k].message
  BY <1>3, <1>4, <1>6 DEF QueueOK
<1>8. \A k \in DOMAIN rest : n > rest[k].message => Outrun(rest[k].message, posted, repeats)
  <2> TAKE k \in DOMAIN rest
  <2> HAVE n > rest[k].message
  <2>1. rest[k] \in Tasks
    BY <1>6
  <2>2. rest[k].step = "waits"
    BY <1>5, <1>7, <2>1 DEF Tasks
  <2>3. posted[rest[k].message].app # "tg" /\ rest[k].message \in DOMAIN posted
    <3>1. PICK j \in DOMAIN tasks : rest[k] = tasks[j] /\ Len(tasks) # 1
      BY <1>6
    <3> QED BY <1>2, <1>3, <3>1 DEF QueueOK, Admitted
  <2>4. posted[rest[k].message].app = "qq"
    BY <2>3, PostTypes DEF ChannelInv
  <2> QED BY <1>6, <2>2, <2>3, <2>4 DEF QueueOK, Outrun
<1>9. \A p \in DOMAIN published : published[p] > n => Outrun(n, posted, repeats)
  BY <1>3, <1>4 DEF QueueOK
<1>10. /\ published' \in Seq(Nat) /\ QueueOK(rest, published', delivered, posted, repeats)
       /\ BusOK(published', delivered, posted, repeats)
  <2>1. CASE published' = Append(published, n)
    <3>1. /\ QueueOK(rest, Append(published, n), delivered, posted, repeats)
          /\ BusOK(Append(published, n), delivered, posted, repeats)
      BY <1>2, <1>3, <1>5, <1>6, <1>7, <1>8, <1>9, BusGrows
    <3> QED BY <1>2, <1>5, <2>1, <3>1
  <2>2. CASE published' = published
    BY <1>2, <1>3, <1>6, <2>2
  <2> QED BY <1>1, <2>1, <2>2
<1>11. /\ tasks' = rest
       /\ UNCHANGED <<posted, delivered, seen, accepted, known, memoryUser, storedUser,
                      interrupts, unsaved, repeats, restarts>>
  BY <1>1 DEF rest
<1>12. BusInv'
  BY <1>10, <1>11 DEF ChannelInv, BusInv
<1>13. ChannelTypes'
  BY <1>6, <1>10, <1>11 DEF ChannelInv, ChannelTypes
<1>14. OneApp' /\ WindowInv' /\ NamesInv'
  BY <1>11 DEF ChannelInv, OneApp, WindowInv, NamesInv, MetadataIsSaved
<1> QED BY <1>12, <1>13, <1>14 DEF ChannelInv

\* A restart empties the window, the tasks and the bus, and reads the names from disk.
LEMMA RestartsStep ==
  ASSUME ChannelInv, ProcessRestarts
  PROVE  ChannelInv'
<1>1. /\ restarts' = restarts + 1
      /\ seen' = <<>> /\ accepted' = <<>> /\ tasks' = <<>> /\ published' = <<>> /\ unsaved' = {}
      /\ memoryUser' = storedUser
      /\ known' \in [Users -> Chats \cup {Unnamed}] /\ \A u \in Users : Leads(known'[u], u)
      /\ UNCHANGED <<posted, delivered, storedUser, interrupts, repeats>>
  BY DEF ProcessRestarts
<1>2. SeenMax \in Nat /\ SeenMax > 0
  BY ChannelsAssumption
<1>3. ChannelTypes'
  BY <1>1 DEF ChannelInv, ChannelTypes
<1>4. OneApp'
  BY <1>1 DEF ChannelInv, OneApp
<1>5. WindowInv'
  BY <1>1, <1>2 DEF WindowInv, WindowOK
<1>6. NamesInv'
  <2>1. \A u \in Users : known'[u] # Unnamed => Wrote(u, known'[u], delivered, posted)
    <3> TAKE u \in Users
    <3> HAVE known'[u] # Unnamed
    <3>1. known'[u] \in Chats /\ storedUser[known'[u]] = u
      BY <1>1 DEF Leads
    <3> QED BY <3>1 DEF ChannelInv, NamesInv
  <2> QED BY <1>1, <2>1 DEF ChannelInv, NamesInv, MetadataIsSaved
<1>7. BusInv'
  BY <1>1 DEF ChannelInv, BusInv, BusOK, QueueOK
<1> QED BY <1>3, <1>4, <1>5, <1>6, <1>7 DEF ChannelInv

\* Whatever happens on a channel keeps the invariant.
LEMMA ChannelStep ==
  ASSUME ChannelInv, [ChannelNext]_channelVars
  PROVE  ChannelInv'
<1>1. CASE ChannelNext
  BY <1>1, PostsStep, TelegramStep, QqEventStep, QqStartsStep, TurnSavesStep, DownloadedStep, RestartsStep
  DEF ChannelNext
<1>2. CASE UNCHANGED channelVars
  BY <1>2 DEF channelVars, ChannelInv, ChannelTypes, OneApp, WindowInv, NamesInv, MetadataIsSaved, BusInv
<1> QED BY <1>1, <1>2

\* What the invariant is for.
LEMMA ChannelInvIsEnough ==
  ASSUME ChannelInv
  PROVE  InboundIsSound
<1>1. /\ posted \in Seq(PostForms) /\ delivered \in 0..Len(posted) /\ DOMAIN posted = 1..Len(posted)
      /\ known \in [Users -> Chats \cup {Unnamed}] /\ published \in Seq(Nat)
  BY DEF ChannelInv, ChannelTypes
<1>2. OncePerWindow
  BY DEF ChannelInv, WindowInv, WindowOK, OncePerWindow
<1>3. OnlyTheAllowed
  BY DEF ChannelInv, BusInv, BusOK, Admitted, OnlyTheAllowed, ToSet
<1>4. KnownWroteThere
  BY DEF ChannelInv, NamesInv, Wrote, KnownWroteThere
<1>5. OrderIsKept
  <2> SUFFICES ASSUME NEW i \in DOMAIN published, NEW j \in DOMAIN published, i < j, published[j] < published[i]
               PROVE  \/ posted[published[j]].app = "tg" /\ repeats > 0
                      \/ posted[published[j]].app = "qq" /\ Slow(posted[published[j]])
    BY DEF OrderIsKept
  <2>1. published[j] \in DOMAIN posted
    BY <1>1 DEF ChannelInv, BusInv, BusOK, Admitted
  <2>2. posted[published[j]].app \in {"tg", "qq"}
    BY <2>1, PostTypes DEF ChannelInv
  <2>3. Outrun(published[j], posted, repeats)
    BY DEF ChannelInv, BusInv, BusOK
  <2> QED BY <2>2, <2>3 DEF Outrun
<1> QED BY <1>2, <1>3, <1>4, <1>5 DEF InboundIsSound, ChannelInv, NamesInv

\* The types are those of the module, and more.
LEMMA ChannelsAreTyped == ChannelInv => ChannelTypeOK
<1> SUFFICES ASSUME ChannelInv PROVE ChannelTypeOK
  OBVIOUS
<1>1. Len(seen) <= SeenMax
  <2>1. seen \in Seq(Nat)
    BY DEF ChannelInv, ChannelTypes
  <2>2. accepted \in Seq(Nat)
    BY DEF ChannelInv, ChannelTypes
  <2>3. Len(seen) \in Nat /\ Len(accepted) \in Nat /\ SeenMax \in Nat
    BY <2>1, <2>2, ChannelsAssumption
  <2> QED BY <2>3 DEF ChannelInv, WindowInv, WindowOK
<1>2. \A i \in DOMAIN tasks : tasks[i].step \in {"start", "waits"}
  <2>1. tasks \in Seq(Tasks)
    BY DEF ChannelInv, ChannelTypes
  <2>2. \A i \in DOMAIN tasks : tasks[i] \in Tasks
    BY <2>1
  <2> QED BY <2>2 DEF Tasks
<1> QED BY <1>1, <1>2 DEF ChannelInv, ChannelTypes, ChannelTypeOK


-----------------------------------------------------------------------------
(* Traces: The traces and their streams                                     *)

-----------------------------------------------------------------------------
(* Lists that rise                                                          *)

\* A number that is larger comes last.
LEMMA AtTheEnd ==
  ASSUME NEW s \in Seq(Nat), NEW n \in Nat, \A m \in ToSet(s) : m < n, Rising(s)
  PROVE  /\ Append(s, n) \in Seq(Nat) /\ Rising(Append(s, n))
         /\ ToSet(Append(s, n)) = ToSet(s) \cup {n}
<1> DEFINE t == Append(s, n)
<1>1. /\ t \in Seq(Nat) /\ Len(t) = Len(s) + 1 /\ t[Len(s) + 1] = n /\ Len(s) \in Nat
      /\ DOMAIN t = 1..(Len(s) + 1) /\ DOMAIN s = 1..Len(s)
      /\ \A i \in 1..Len(s) : t[i] = s[i]
  OBVIOUS
<1> HIDE DEF t
<1>2. Rising(t)
  <2> SUFFICES ASSUME NEW i \in DOMAIN t, NEW j \in DOMAIN t, i < j PROVE t[i] < t[j]
    BY DEF Rising
  <2>1. i \in 1..Len(s) /\ t[i] = s[i] /\ t[i] \in ToSet(s)
    BY <1>1 DEF ToSet
  <2>2. CASE j \in 1..Len(s)
    BY <1>1, <2>1, <2>2 DEF Rising
  <2>3. CASE j = Len(s) + 1
    BY <1>1, <2>1, <2>3
  <2> QED BY <1>1, <2>2, <2>3
<1>3. ToSet(t) = ToSet(s) \cup {n}
  <2>1. ASSUME NEW m PROVE m \in ToSet(t) <=> m \in ToSet(s) \/ m = n
    <3>1. ASSUME m \in ToSet(t) PROVE m \in ToSet(s) \/ m = n
      <4>1. PICK i \in DOMAIN t : m = t[i]
        BY <3>1 DEF ToSet
      <4> QED BY <1>1, <4>1 DEF ToSet
    <3>2. ASSUME m \in ToSet(s) PROVE m \in ToSet(t)
      <4>1. PICK i \in DOMAIN s : m = s[i]
        BY <3>2 DEF ToSet
      <4>2. i \in DOMAIN t /\ t[i] = m
        BY <1>1, <4>1
      <4> QED BY <4>2 DEF ToSet
    <3>3. n \in ToSet(t)
      <4>1. Len(s) + 1 \in DOMAIN t
        BY <1>1
      <4> QED BY <1>1, <4>1 DEF ToSet
    <3> QED BY <3>1, <3>2, <3>3
  <2> QED BY <2>1
<1> QED BY <1>1, <1>2, <1>3 DEF t

\* The first is the least.
LEMMA FromTheFront ==
  ASSUME NEW s \in Seq(Nat), s # <<>>, Rising(s)
  PROVE  /\ Head(s) \in ToSet(s) /\ Head(s) \in Nat /\ Tail(s) \in Seq(Nat) /\ Rising(Tail(s))
         /\ \A m \in ToSet(s) : m # Head(s) => Head(s) < m
         /\ ToSet(Tail(s)) = ToSet(s) \ {Head(s)}
<1> DEFINE t == Tail(s)
<1>1. /\ t \in Seq(Nat) /\ Len(t) = Len(s) - 1 /\ Len(s) \in Nat \ {0} /\ Head(s) = s[1]
      /\ DOMAIN t = 1..(Len(s) - 1) /\ DOMAIN s = 1..Len(s) /\ 1 \in DOMAIN s
      /\ \A i \in 1..(Len(s) - 1) : t[i] = s[i + 1]
  OBVIOUS
<1> HIDE DEF t
<1>2. \A i \in DOMAIN s : (i # 1 => s[1] < s[i]) /\ s[i] \in Nat /\ s[1] \in Nat
  <2>1. \A i \in 1..Len(s) : s[i] \in Nat
    OBVIOUS
  <2>2. \A i \in DOMAIN s : i # 1 => 1 < i
    BY <1>1
  <2> QED BY <1>1, <2>1, <2>2 DEF Rising
<1>3. Rising(t)
  <2> SUFFICES ASSUME NEW i \in DOMAIN t, NEW j \in DOMAIN t, i < j PROVE t[i] < t[j]
    BY DEF Rising
  <2>1. i + 1 \in DOMAIN s /\ j + 1 \in DOMAIN s /\ i + 1 < j + 1
    <3>1. i \in 1..(Len(s) - 1) /\ j \in 1..(Len(s) - 1) /\ Len(s) \in Nat
      BY <1>1
    <3>2. i + 1 \in 1..Len(s) /\ j + 1 \in 1..Len(s)
      BY <3>1
    <3> QED BY <1>1, <3>1, <3>2
  <2>2. s[i + 1] < s[j + 1]
    BY <2>1 DEF Rising
  <2> QED BY <1>1, <2>2
<1>4. ToSet(t) = ToSet(s) \ {s[1]}
  <2>1. ASSUME NEW m PROVE m \in ToSet(t) <=> m \in ToSet(s) /\ m # s[1]
    <3>1. ASSUME m \in ToSet(t) PROVE m \in ToSet(s) /\ m # s[1]
      <4>1. PICK i \in DOMAIN t : m = t[i]
        BY <3>1 DEF ToSet
      <4>2. i + 1 \in DOMAIN s /\ i + 1 # 1 /\ m = s[i + 1]
        BY <1>1, <4>1
      <4> QED BY <1>2, <4>2 DEF ToSet
    <3>2. ASSUME m \in ToSet(s), m # s[1] PROVE m \in ToSet(t)
      <4>1. PICK i \in DOMAIN s : m = s[i]
        BY <3>2 DEF ToSet
      <4>2. i - 1 \in DOMAIN t /\ m = t[i - 1]
        BY <1>1, <3>2, <4>1
      <4> QED BY <4>2 DEF ToSet
    <3> QED BY <3>1, <3>2
  <2> QED BY <2>1
<1>5. ASSUME NEW m \in ToSet(s), m # s[1] PROVE s[1] < m
  <2>1. PICK i \in DOMAIN s : m = s[i]
    BY <1>5 DEF ToSet
  <2> QED BY <1>2, <1>5, <2>1
<1>6. s[1] \in ToSet(s) /\ s[1] \in Nat
  BY <1>1 DEF ToSet
<1> QED BY <1>1, <1>3, <1>4, <1>5, <1>6 DEF t

\* What was shown and what waits, in a row.
LEMMA Reshown ==
  ASSUME NEW s \in Seq(Nat), NEW q \in Seq(Nat)
  PROVE  /\ s \o q \in Seq(Nat)
         /\ \A n \in Nat : s \o Append(q, n) = Append(s \o q, n)
         /\ q # <<>> => Append(s, Head(q)) \o Tail(q) = s \o q
<1>1. s \o q \in Seq(Nat)
  OBVIOUS
<1>2. \A n \in Nat : s \o Append(q, n) = Append(s \o q, n)
  OBVIOUS
<1>3. ASSUME q # <<>> PROVE Append(s, Head(q)) \o Tail(q) = s \o q
  <2> DEFINE u == Append(s, Head(q)) \o Tail(q)
             v == s \o q
  <2>1. Head(q) \in Nat /\ Tail(q) \in Seq(Nat) /\ Len(q) \in Nat \ {0} /\ Len(s) \in Nat /\ Len(Tail(q)) = Len(q) - 1
        /\ Head(q) = q[1] /\ \A i \in 1..(Len(q) - 1) : Tail(q)[i] = q[i + 1]
    BY <1>3
  <2>2. Append(s, Head(q)) \in Seq(Nat) /\ Len(Append(s, Head(q))) = Len(s) + 1
        /\ Append(s, Head(q))[Len(s) + 1] = Head(q) /\ \A i \in 1..Len(s) : Append(s, Head(q))[i] = s[i]
    BY <2>1
  <2>3. u \in Seq(Nat) /\ v \in Seq(Nat) /\ Len(u) = Len(s) + Len(q) /\ Len(v) = Len(s) + Len(q)
    BY <2>1, <2>2
  <2>4. ASSUME NEW i \in 1..Len(u) PROVE u[i] = v[i]
    <3>1. CASE i <= Len(s)
      BY <2>1, <2>2, <2>3, <3>1
    <3>2. CASE i = Len(s) + 1
      BY <2>1, <2>2, <2>3, <3>2
    <3>3. CASE i > Len(s) + 1
      <4>1. u[i] = Tail(q)[i - (Len(s) + 1)] /\ v[i] = q[i - Len(s)]
        BY <2>1, <2>2, <2>3, <3>3
      <4>2. i - (Len(s) + 1) \in 1..(Len(q) - 1) /\ i - (Len(s) + 1) + 1 = i - Len(s)
        BY <2>1, <2>3, <3>3
      <4> QED BY <2>1, <4>1, <4>2
    <3> QED BY <2>1, <2>3, <3>1, <3>2, <3>3
  <2> HIDE DEF u, v
  <2>5. u = v
    BY <2>3, <2>4, SeqEqual
  <2> QED BY <2>5 DEF u, v
<1> QED BY <1>1, <1>2, <1>3

-----------------------------------------------------------------------------
(* The traces                                                               *)

InLine == ToSet(traceQueue)
Rows == ToSet(stored)
Line(stream) == stream.shown \o stream.queue

StreamType == [key : TraceSessions \cup {AllSessions, Away}, queue : Seq(Nat), shown : Seq(Nat),
               since : Nat, missed : SUBSET Nat]

Due(stream, trail) ==
    {n \in DOMAIN trail : n > stream.since /\ stream.key \in {AllSessions, trail[n].session}}

\* What a stream was sent and what waits for it.
Follows(stream, trail) ==
    stream.key # Away =>
        /\ stream.since <= Len(trail) /\ stream.missed \subseteq DOMAIN trail
        /\ ToSet(Line(stream)) = Due(stream, trail) \ stream.missed
        /\ Rising(Line(stream))

\* Where a trace may be, each place without the others.
Apart ==
    \A n \in 1..Len(emitted) :
        /\ n \in InLine \/ n \in Rows \/ n \in gone.full \/ n \in gone.failed \/ n \in gone.cleaned
        /\ n \in InLine => n \notin Rows /\ n \notin gone.full /\ n \notin gone.failed /\ n \notin gone.cleaned
        /\ n \in Rows => n \notin gone.full /\ n \notin gone.failed /\ n \notin gone.cleaned
        /\ n \in gone.full => n \notin gone.failed /\ n \notin gone.cleaned
        /\ n \in gone.failed => n \notin gone.cleaned

QueueInv ==
    /\ emitted \in Seq(TraceForms) /\ traceQueue \in Seq(Nat) /\ stored \in Seq(Nat)
    /\ gone \in [full : SUBSET (1..Len(emitted)), failed : SUBSET (1..Len(emitted)),
                  cleaned : SUBSET (1..Len(emitted))]
    /\ InLine \subseteq 1..Len(emitted) /\ Rows \subseteq 1..Len(emitted)
    /\ Rising(traceQueue) /\ Rising(stored)
    /\ \A m \in Rows, n \in InLine : m < n
    /\ Apart
    /\ ragItems = {n \in Rows : emitted[n].kind = "rag"}
    /\ CleanedIsOld

StreamInv ==
    /\ emitted \in Seq(TraceForms)
    /\ streams \in [Streams -> StreamType]
    /\ \A s \in Streams : Follows(streams[s], emitted)

\* In one of five sets that share nothing.
LEMMA OneOfFive ==
  ASSUME NEW A, NEW B, NEW C, NEW D, NEW E, NEW n,
         n \in A \/ n \in B \/ n \in C \/ n \in D \/ n \in E,
         n \in A => n \notin B /\ n \notin C /\ n \notin D /\ n \notin E,
         n \in B => n \notin C /\ n \notin D /\ n \notin E,
         n \in C => n \notin D /\ n \notin E,
         n \in D => n \notin E
  PROVE  Cardinality({i \in 1..5 : n \in <<A, B, C, D, E>>[i]}) = 1
<1> DEFINE T == <<A, B, C, D, E>>
           P == {i \in 1..5 : n \in T[i]}
<1>1. T[1] = A /\ T[2] = B /\ T[3] = C /\ T[4] = D /\ T[5] = E
  OBVIOUS
<1>2. \A i \in 1..5 : i = 1 \/ i = 2 \/ i = 3 \/ i = 4 \/ i = 5
  OBVIOUS
<1> HIDE DEF T
<1>3. \E p : P = {p}
  <2>1. CASE n \in A
    <3>1. P = {1}
      BY <1>1, <1>2, <2>1
    <3> QED BY <3>1
  <2>2. CASE n \in B
    <3>1. P = {2}
      BY <1>1, <1>2, <2>2
    <3> QED BY <3>1
  <2>3. CASE n \in C
    <3>1. P = {3}
      BY <1>1, <1>2, <2>3
    <3> QED BY <3>1
  <2>4. CASE n \in D
    <3>1. P = {4}
      BY <1>1, <1>2, <2>4
    <3> QED BY <3>1
  <2>5. CASE n \in E
    <3>1. P = {5}
      BY <1>1, <1>2, <2>5
    <3> QED BY <3>1
  <2> QED BY <2>1, <2>2, <2>3, <2>4, <2>5
<1> HIDE DEF P
<1>4. Cardinality(P) = 1
  BY <1>3, FS_Singleton
<1> QED BY <1>4 DEF P, T

\* What the invariants are for.
LEMMA TraceInvIsEnough == QueueInv /\ StreamInv => TracesAreKept
<1> SUFFICES ASSUME QueueInv, StreamInv PROVE TracesAreKept
  OBVIOUS
<1>1. DOMAIN emitted = 1..Len(emitted) /\ Traced = 1..Len(emitted)
  BY DEF QueueInv, Traced
<1>2. ASSUME NEW n \in 1..Len(emitted)
      PROVE  Cardinality({i \in 1..5 :
               n \in <<ToSet(traceQueue), ToSet(stored), gone.full, gone.failed, gone.cleaned>>[i]}) = 1
  <2>1. /\ n \in InLine \/ n \in Rows \/ n \in gone.full \/ n \in gone.failed \/ n \in gone.cleaned
        /\ n \in InLine => n \notin Rows /\ n \notin gone.full /\ n \notin gone.failed /\ n \notin gone.cleaned
        /\ n \in Rows => n \notin gone.full /\ n \notin gone.failed /\ n \notin gone.cleaned
        /\ n \in gone.full => n \notin gone.failed /\ n \notin gone.cleaned
        /\ n \in gone.failed => n \notin gone.cleaned
    BY DEF QueueInv, Apart
  <2> QED BY <2>1, OneOfFive DEF InLine, Rows
<1>3. StoredInOrder
  BY <1>1, <1>2 DEF QueueInv, StoredInOrder, InLine, Rows
<1>4. StreamsAreWhole
  BY <1>1 DEF StreamInv, Follows, Due, Line, StreamsAreWhole
<1> QED BY <1>3, <1>4 DEF TracesAreKept, QueueInv

\* No trace yet.
LEMMA TracesBegin == TraceInit => QueueInv /\ StreamInv
<1> SUFFICES ASSUME TraceInit PROVE QueueInv /\ StreamInv
  OBVIOUS
<1>1. emitted = <<>> /\ traceQueue = <<>> /\ stored = <<>> /\ Len(emitted) = 0
      /\ gone = [full |-> {}, failed |-> {}, cleaned |-> {}] /\ ragItems = {} /\ 1..Len(emitted) = {}
  BY DEF TraceInit
<1>2. InLine = {} /\ Rows = {} /\ Rising(<<>>)
  BY <1>1 DEF InLine, Rows, ToSet, Rising
<1>3. QueueInv
  BY <1>1, <1>2 DEF QueueInv, Apart, CleanedIsOld
<1>4. NoStream \in StreamType /\ NoStream.key = Away
  BY DEF NoStream, StreamType
<1>5. StreamInv
  BY <1>1, <1>4 DEF TraceInit, StreamInv, Follows
<1> QED BY <1>3, <1>5

\* A trace is emitted: queued and streamed, or dropped where there is no room.
LEMMA TraceEmitted ==
  ASSUME QueueInv, StreamInv, Emits
  PROVE  QueueInv' /\ StreamInv'
<1> DEFINE n == Len(emitted) + 1
<1>1. PICK form \in TraceForms :
        /\ emitted' = Append(emitted, form)
        /\ \/ traceQueue' = Append(traceQueue, n) /\ UNCHANGED gone
           \/ gone' = [gone EXCEPT !.full = @ \cup {n}] /\ UNCHANGED traceQueue
        /\ streams' = [s \in Streams |-> Published(streams[s], n, form.session)]
        /\ UNCHANGED <<stored, ragItems, traceWriter, aged, subscribed, traceFaults>>
  BY DEF Emits
<1>2. /\ emitted \in Seq(TraceForms) /\ emitted' \in Seq(TraceForms) /\ Len(emitted') = n /\ n \in Nat \ {0}
      /\ Len(emitted) = n - 1 /\ emitted'[n] = form /\ DOMAIN emitted = 1..(n - 1) /\ DOMAIN emitted' = 1..n
      /\ \A i \in 1..(n - 1) : emitted'[i] = emitted[i]
  BY <1>1 DEF QueueInv
<1> HIDE DEF n
<1>3. \A i : i \in 1..n <=> i \in 1..(n - 1) \/ i = n
  BY <1>2
<1>4. \A i \in 1..(n - 1) : i < n /\ i # n
  BY <1>2
<1>5. QueueInv'
  <2>1. /\ traceQueue \in Seq(Nat) /\ stored \in Seq(Nat) /\ InLine \subseteq 1..(n - 1) /\ Rows \subseteq 1..(n - 1)
        /\ Rising(traceQueue) /\ Rising(stored) /\ \A m \in Rows, w \in InLine : m < w
        /\ gone \in [full : SUBSET (1..(n - 1)), failed : SUBSET (1..(n - 1)), cleaned : SUBSET (1..(n - 1))]
    BY <1>2 DEF QueueInv
  <2>2. \A i \in 1..(n - 1) : i \in 1..Len(emitted)
    BY <1>2
  <2>3. /\ gone' \in [full : SUBSET (1..n), failed : SUBSET (1..n), cleaned : SUBSET (1..n)]
        /\ gone'.failed = gone.failed /\ gone'.cleaned = gone.cleaned
        /\ \/ traceQueue' = Append(traceQueue, n) /\ gone'.full = gone.full
           \/ traceQueue' = traceQueue /\ gone'.full = gone.full \cup {n}
    BY <1>1, <1>3, <2>1
  <2>4. /\ traceQueue' \in Seq(Nat) /\ Rising(traceQueue')
        /\ \/ InLine' = InLine \cup {n} /\ gone'.full = gone.full
           \/ InLine' = InLine /\ gone'.full = gone.full \cup {n}
    <3>1. CASE traceQueue' = Append(traceQueue, n) /\ gone'.full = gone.full
      <4>1. \A m \in ToSet(traceQueue) : m < n
        BY <1>4, <2>1 DEF InLine
      <4> QED BY <1>2, <2>1, <3>1, <4>1, AtTheEnd DEF InLine
    <3>2. CASE traceQueue' = traceQueue /\ gone'.full = gone.full \cup {n}
      BY <2>1, <3>2 DEF InLine
    <3> QED BY <2>3, <3>1, <3>2
  <2>5. Rows' = Rows /\ stored' = stored
    BY <1>1 DEF Rows
  <2>6. InLine' \subseteq 1..n /\ Rows' \subseteq 1..n /\ \A m \in Rows', w \in InLine' : m < w
    BY <1>3, <1>4, <2>1, <2>4, <2>5
  <2>7. n \notin InLine /\ n \notin Rows /\ n \notin gone.full /\ n \notin gone.failed /\ n \notin gone.cleaned
    BY <1>4, <2>1
  <2>8. Apart'
    <3>1. Len(emitted') = n
      BY <1>2
    <3>2. ASSUME NEW i \in 1..n
          PROVE
            /\ i \in InLine' \/ i \in Rows' \/ i \in gone'.full \/ i \in gone'.failed \/ i \in gone'.cleaned
            /\ i \in InLine' => i \notin Rows' /\ i \notin gone'.full /\ i \notin gone'.failed /\ i \notin gone'.cleaned
            /\ i \in Rows' => i \notin gone'.full /\ i \notin gone'.failed /\ i \notin gone'.cleaned
            /\ i \in gone'.full => i \notin gone'.failed /\ i \notin gone'.cleaned
            /\ i \in gone'.failed => i \notin gone'.cleaned
      <4>1. CASE i = n
        BY <2>3, <2>4, <2>5, <2>7, <4>1
      <4>2. CASE i # n
        <5>1. i \in 1..Len(emitted)
          BY <1>2, <1>3, <4>2
        <5>2. /\ i \in InLine \/ i \in Rows \/ i \in gone.full \/ i \in gone.failed \/ i \in gone.cleaned
              /\ i \in InLine => i \notin Rows /\ i \notin gone.full /\ i \notin gone.failed /\ i \notin gone.cleaned
              /\ i \in Rows => i \notin gone.full /\ i \notin gone.failed /\ i \notin gone.cleaned
              /\ i \in gone.full => i \notin gone.failed /\ i \notin gone.cleaned
              /\ i \in gone.failed => i \notin gone.cleaned
          BY <5>1 DEF QueueInv, Apart
        <5> QED BY <2>3, <2>4, <2>5, <4>2, <5>2
      <4> QED BY <4>1, <4>2
    <3> QED BY <3>1, <3>2 DEF Apart
  <2>9. ragItems' = {m \in Rows' : emitted'[m].kind = "rag"}
    BY <1>1, <1>2, <2>1, <2>5 DEF QueueInv
  <2>10. CleanedIsOld'
    <3>1. \A m \in gone.cleaned : m \in 1..(n - 1)
      BY <2>1
    <3> QED BY <1>1, <1>2, <2>3, <3>1 DEF QueueInv, CleanedIsOld
  <2> QED BY <1>2, <2>1, <2>3, <2>4, <2>5, <2>6, <2>8, <2>9, <2>10 DEF QueueInv
<1>6. ASSUME NEW s \in Streams PROVE streams'[s] \in StreamType /\ Follows(streams'[s], emitted')
  <2> DEFINE old == streams[s]
             new == streams'[s]
  <2>1. old \in StreamType /\ Follows(old, emitted) /\ new = Published(old, n, form.session)
    BY <1>1 DEF StreamInv
  <2> HIDE DEF old, new
  <2>2. /\ old.key \in TraceSessions \cup {AllSessions, Away} /\ old.queue \in Seq(Nat)
        /\ old.shown \in Seq(Nat) /\ old.since \in Nat /\ old.missed \in SUBSET Nat
    BY <2>1 DEF StreamType
  <2>a. Append(old.queue, n) \in Seq(Nat) /\ old.missed \cup {n} \in SUBSET Nat
    BY <1>2, <2>2
  <2>b. /\ [old EXCEPT !.queue = Append(old.queue, n)] \in StreamType
        /\ [old EXCEPT !.missed = old.missed \cup {n}] \in StreamType
    BY <2>1, <2>a DEF StreamType
  <2>c. /\ [old EXCEPT !.queue = Append(old.queue, n)].queue = Append(old.queue, n)
        /\ \A q : /\ [old EXCEPT !.queue = q].key = old.key /\ [old EXCEPT !.queue = q].shown = old.shown
                  /\ [old EXCEPT !.queue = q].missed = old.missed /\ [old EXCEPT !.queue = q].since = old.since
    BY <2>1 DEF StreamType
  <2>3. CASE old.key = Away
    <3>1. new.key = Away /\ new \in StreamType
      <4>1. \A q : [old EXCEPT !.missed = q].key = old.key
        BY <2>1 DEF StreamType
      <4>2. new \in {old, [old EXCEPT !.queue = Append(old.queue, n)], [old EXCEPT !.missed = old.missed \cup {n}]}
        BY <2>1 DEF Published
      <4> QED BY <2>1, <2>3, <2>b, <2>c, <4>1, <4>2
    <3> QED BY <3>1 DEF Follows, new
  <2>4. CASE old.key # Away
    <3>1. /\ old.since <= n - 1 /\ old.missed \subseteq 1..(n - 1)
          /\ ToSet(Line(old)) = Due(old, emitted) \ old.missed /\ Rising(Line(old))
          /\ Line(old) \in Seq(Nat)
      BY <1>2, <2>1, <2>2, <2>4, Reshown DEF Follows, Line
    <3>2. Wants(old, form.session) <=> old.key \in {AllSessions, form.session}
      BY <2>2, <2>4, TracesAssumption DEF Wants
    <3>3. \A i \in 1..n : i \in Due(old, emitted') <=>
            i \in Due(old, emitted) \/ (i = n /\ Wants(old, form.session))
      BY <1>2, <1>3, <1>4, <2>2, <3>1, <3>2 DEF Due
    <3>4. Due(old, emitted) \subseteq 1..(n - 1) /\ Due(old, emitted') \subseteq 1..n
      BY <1>2 DEF Due
    <3>5. n \notin Due(old, emitted) /\ n \notin old.missed
      BY <1>4, <3>1, <3>4
    <3>6. CASE ~Wants(old, form.session)
      <4>1. new = old
        BY <2>1, <3>6 DEF Published
      <4>2. Due(old, emitted') = Due(old, emitted)
        BY <1>3, <3>3, <3>4, <3>6
      <4>3. old.since <= n /\ old.missed \subseteq 1..n
        BY <1>2, <1>3, <2>2, <3>1
      <4>4. Follows(old, emitted')
        BY <1>2, <3>1, <4>2, <4>3 DEF Follows
      <4> QED BY <2>1, <4>1, <4>4 DEF new
    <3>7. CASE Wants(old, form.session) /\ Len(old.queue) < StreamQueueMax
      <4>1. new = [old EXCEPT !.queue = Append(@, n)]
        BY <2>1, <3>7 DEF Published
      <4>2. /\ new.queue = Append(old.queue, n) /\ new.shown = old.shown /\ new.key = old.key
            /\ new.missed = old.missed /\ new.since = old.since /\ new \in StreamType
        <5>1. new = [old EXCEPT !.queue = Append(old.queue, n)]
          BY <4>1
        <5> QED BY <2>b, <2>c, <5>1
      <4>3. Line(new) = Append(Line(old), n)
        <5>1. old.shown \o Append(old.queue, n) = Append(old.shown \o old.queue, n)
          BY <1>2, <2>2, Reshown
        <5> QED BY <4>2, <5>1 DEF Line
      <4>4. \A m \in ToSet(Line(old)) : m < n
        BY <1>4, <3>1, <3>4
      <4>5. Rising(Line(new)) /\ ToSet(Line(new)) = ToSet(Line(old)) \cup {n}
        BY <1>2, <3>1, <4>3, <4>4, AtTheEnd
      <4>6. Due(new, emitted') = Due(old, emitted) \cup {n}
        <5>1. Due(new, emitted') = Due(old, emitted')
          BY <4>2 DEF Due
        <5> QED BY <1>2, <1>3, <3>3, <3>4, <3>7, <5>1
      <4>7. new.since <= n /\ new.missed \subseteq 1..n
        BY <1>2, <1>3, <2>2, <3>1, <4>2
      <4>8. Follows(new, emitted')
        BY <1>2, <3>1, <3>5, <4>2, <4>5, <4>6, <4>7 DEF Follows
      <4> QED BY <4>2, <4>8 DEF new
    <3>8. CASE Wants(old, form.session) /\ ~(Len(old.queue) < StreamQueueMax)
      <4>1. new = [old EXCEPT !.missed = @ \cup {n}]
        BY <2>1, <3>8 DEF Published
      <4>2. /\ new.queue = old.queue /\ new.shown = old.shown /\ new.key = old.key
            /\ new.missed = old.missed \cup {n} /\ new.since = old.since /\ new \in StreamType
        <5>1. new = [old EXCEPT !.missed = old.missed \cup {n}]
          BY <4>1
        <5>2. \A q : /\ [old EXCEPT !.missed = q].queue = old.queue /\ [old EXCEPT !.missed = q].shown = old.shown
                     /\ [old EXCEPT !.missed = q].key = old.key /\ [old EXCEPT !.missed = q].missed = q
                     /\ [old EXCEPT !.missed = q].since = old.since
          BY <2>1 DEF StreamType
        <5> QED BY <2>b, <5>1, <5>2
      <4>3. Line(new) = Line(old)
        BY <4>2 DEF Line
      <4>4. Due(new, emitted') = Due(old, emitted) \cup {n}
        <5>1. Due(new, emitted') = Due(old, emitted')
          BY <4>2 DEF Due
        <5> QED BY <1>2, <1>3, <3>3, <3>4, <3>8, <5>1
      <4>5. Due(new, emitted') \ new.missed = Due(old, emitted) \ old.missed
        BY <3>5, <4>2, <4>4
      <4>6. new.since <= n /\ new.missed \subseteq 1..n
        BY <1>2, <1>3, <2>2, <3>1, <4>2
      <4>7. Follows(new, emitted')
        BY <1>2, <3>1, <4>3, <4>5, <4>6 DEF Follows
      <4> QED BY <4>2, <4>7 DEF new
    <3> QED BY <3>6, <3>7, <3>8
  <2> QED BY <2>3, <2>4
<1>7. StreamInv'
  <2>1. DOMAIN streams' = Streams /\ streams' = [s \in Streams |-> streams'[s]]
    BY <1>1
  <2>2. streams' \in [Streams -> StreamType]
    BY <1>6, <2>1
  <2> QED BY <1>2, <1>6, <2>2 DEF StreamInv
<1> QED BY <1>5, <1>7

\* A trace is written, or its write fails.
LEMMA TraceWritten ==
  ASSUME QueueInv, TraceWrites
  PROVE  QueueInv'
<1> DEFINE h == Head(traceQueue)
           N == Len(emitted)
<1>1. /\ traceQueue # <<>> /\ traceQueue' = Tail(traceQueue)
      /\ \/ /\ stored' = Append(stored, h) /\ UNCHANGED gone
            /\ ragItems' = IF emitted[h].kind = "rag" THEN ragItems \cup {h} ELSE ragItems
         \/ gone' = [gone EXCEPT !.failed = @ \cup {h}] /\ UNCHANGED <<stored, ragItems>>
      /\ UNCHANGED <<emitted, traceWriter, streams, aged, subscribed>>
  BY DEF TraceWrites, Written
<1>2. /\ emitted \in Seq(TraceForms) /\ traceQueue \in Seq(Nat) /\ stored \in Seq(Nat)
      /\ gone \in [full : SUBSET (1..N), failed : SUBSET (1..N), cleaned : SUBSET (1..N)]
      /\ InLine \subseteq 1..N /\ Rows \subseteq 1..N /\ Rising(traceQueue) /\ Rising(stored)
      /\ \A m \in Rows, n \in InLine : m < n
  BY DEF QueueInv
<1>3. /\ h \in InLine /\ h \in Nat /\ traceQueue' \in Seq(Nat) /\ Rising(traceQueue')
      /\ \A m \in InLine : m # h => h < m
      /\ InLine' = InLine \ {h}
  BY <1>1, <1>2, FromTheFront DEF InLine
<1> HIDE DEF h, N
<1>4. /\ gone' \in [full : SUBSET (1..N), failed : SUBSET (1..N), cleaned : SUBSET (1..N)]
      /\ gone'.full = gone.full /\ gone'.cleaned = gone.cleaned
      /\ \/ stored' = Append(stored, h) /\ gone'.failed = gone.failed
            /\ ragItems' = IF emitted[h].kind = "rag" THEN ragItems \cup {h} ELSE ragItems
         \/ gone'.failed = gone.failed \cup {h} /\ UNCHANGED <<stored, ragItems>>
  BY <1>1, <1>2, <1>3
<1>5. /\ stored' \in Seq(Nat) /\ Rising(stored')
      /\ \/ /\ Rows' = Rows \cup {h} /\ gone'.failed = gone.failed
            /\ ragItems' = IF emitted[h].kind = "rag" THEN ragItems \cup {h} ELSE ragItems
         \/ Rows' = Rows /\ gone'.failed = gone.failed \cup {h} /\ UNCHANGED <<stored, ragItems>>
  <2>1. \A m \in ToSet(stored) : m < h
    BY <1>2, <1>3 DEF Rows
  <2>2. /\ Append(stored, h) \in Seq(Nat) /\ Rising(Append(stored, h))
        /\ ToSet(Append(stored, h)) = ToSet(stored) \cup {h}
    BY <1>2, <1>3, <2>1, AtTheEnd
  <2> QED BY <1>2, <1>4, <2>2 DEF Rows
<1>6. InLine' \subseteq 1..N /\ Rows' \subseteq 1..N /\ \A m \in Rows', n \in InLine' : m < n
  BY <1>2, <1>3, <1>5
<1>7. Len(emitted') = N /\ emitted' = emitted
  BY <1>1 DEF N
<1>8. Apart'
  <2>1. ASSUME NEW i \in 1..N
        PROVE
          /\ i \in InLine' \/ i \in Rows' \/ i \in gone'.full \/ i \in gone'.failed \/ i \in gone'.cleaned
          /\ i \in InLine' => i \notin Rows' /\ i \notin gone'.full /\ i \notin gone'.failed /\ i \notin gone'.cleaned
          /\ i \in Rows' => i \notin gone'.full /\ i \notin gone'.failed /\ i \notin gone'.cleaned
          /\ i \in gone'.full => i \notin gone'.failed /\ i \notin gone'.cleaned
          /\ i \in gone'.failed => i \notin gone'.cleaned
    <3>1. /\ i \in InLine \/ i \in Rows \/ i \in gone.full \/ i \in gone.failed \/ i \in gone.cleaned
          /\ i \in InLine => i \notin Rows /\ i \notin gone.full /\ i \notin gone.failed /\ i \notin gone.cleaned
          /\ i \in Rows => i \notin gone.full /\ i \notin gone.failed /\ i \notin gone.cleaned
          /\ i \in gone.full => i \notin gone.failed /\ i \notin gone.cleaned
          /\ i \in gone.failed => i \notin gone.cleaned
      BY DEF QueueInv, Apart, N
    <3>2. CASE i = h
      BY <1>3, <1>4, <1>5, <3>1, <3>2
    <3>3. CASE i # h
      BY <1>3, <1>4, <1>5, <3>1, <3>3
    <3> QED BY <3>2, <3>3
  <2> QED BY <1>7, <2>1 DEF Apart
<1>9. ragItems' = {m \in Rows' : emitted'[m].kind = "rag"}
  <2>1. ragItems = {m \in Rows : emitted[m].kind = "rag"}
    BY DEF QueueInv
  <2> QED BY <1>5, <1>7, <2>1
<1>10. CleanedIsOld'
  BY <1>1, <1>4 DEF QueueInv, CleanedIsOld
<1> QED BY <1>2, <1>3, <1>4, <1>5, <1>6, <1>7, <1>8, <1>9, <1>10 DEF QueueInv

\* What is expired goes, and nothing else.
LEMMA TracesCleaned ==
  ASSUME QueueInv, Cleans
  PROVE  QueueInv'
<1> DEFINE N == Len(emitted)
           E == {n \in Rows : Expired(n)}
<1>1. /\ stored' \in Uncleaned /\ ragItems' = ragItems \cap ToSet(stored')
      /\ gone' = [gone EXCEPT !.cleaned = @ \cup (ToSet(stored) \ ToSet(stored'))]
      /\ UNCHANGED <<emitted, traceQueue, traceWriter, streams, aged, subscribed, traceFaults>>
  BY DEF Cleans
<1>2. /\ emitted \in Seq(TraceForms) /\ traceQueue \in Seq(Nat) /\ stored \in Seq(Nat)
      /\ gone \in [full : SUBSET (1..N), failed : SUBSET (1..N), cleaned : SUBSET (1..N)]
      /\ InLine \subseteq 1..N /\ Rows \subseteq 1..N /\ Rising(traceQueue) /\ Rising(stored)
      /\ \A m \in Rows, n \in InLine : m < n
  BY DEF QueueInv
<1>3. /\ stored' \in SeqOf(ToSet(stored), Len(stored))
      /\ Rows' = Rows \ E
      /\ \A i, j \in DOMAIN stored' : i < j =>
            \E k, l \in DOMAIN stored : k < l /\ stored[k] = stored'[i] /\ stored[l] = stored'[j]
  BY <1>1 DEF Uncleaned, Rows
<1>4. stored' \in Seq(Nat) /\ Rising(stored')
  <2>1. PICK n \in 0..Len(stored) : stored' \in [1..n -> ToSet(stored)]
    BY <1>3 DEF SeqOf
  <2>2. ToSet(stored) \subseteq Nat
    BY <1>2 DEF ToSet
  <2>3. n \in Nat
    BY <1>2, <2>1
  <2>4. stored' \in [1..n -> Nat]
    BY <2>1, <2>2
  <2> QED BY <1>2, <1>3, <2>3, <2>4 DEF Rising
<1>5. InLine' = InLine /\ traceQueue' = traceQueue /\ emitted' = emitted /\ aged' = aged /\ Len(emitted') = N
  BY <1>1 DEF InLine
<1>6. /\ gone' \in [full : SUBSET (1..N), failed : SUBSET (1..N), cleaned : SUBSET (1..N)]
      /\ gone'.full = gone.full /\ gone'.failed = gone.failed /\ gone'.cleaned = gone.cleaned \cup E
  <2>1. ToSet(stored) \ ToSet(stored') = E
    BY <1>3 DEF Rows
  <2>2. E \subseteq 1..N
    BY <1>2
  <2>3. gone' = [gone EXCEPT !.cleaned = gone.cleaned \cup E]
    BY <1>1, <2>1
  <2> HIDE DEF N, E
  <2> QED BY <1>2, <2>2, <2>3
<1>7. E \subseteq Rows
  OBVIOUS
<1>8. \A n \in E : n \in aged /\ emitted[n].kind \in {"turn", "rag"} /\ ~emitted[n].error
  BY DEF Expired
<1> HIDE DEF N, E
<1>9. Rows' \subseteq 1..N /\ \A m \in Rows', n \in InLine' : m < n
  BY <1>2, <1>3, <1>5
<1>10. Apart'
  <2>1. ASSUME NEW i \in 1..N
        PROVE
          /\ i \in InLine' \/ i \in Rows' \/ i \in gone'.full \/ i \in gone'.failed \/ i \in gone'.cleaned
          /\ i \in InLine' => i \notin Rows' /\ i \notin gone'.full /\ i \notin gone'.failed /\ i \notin gone'.cleaned
          /\ i \in Rows' => i \notin gone'.full /\ i \notin gone'.failed /\ i \notin gone'.cleaned
          /\ i \in gone'.full => i \notin gone'.failed /\ i \notin gone'.cleaned
          /\ i \in gone'.failed => i \notin gone'.cleaned
    <3>1. /\ i \in InLine \/ i \in Rows \/ i \in gone.full \/ i \in gone.failed \/ i \in gone.cleaned
          /\ i \in InLine => i \notin Rows /\ i \notin gone.full /\ i \notin gone.failed /\ i \notin gone.cleaned
          /\ i \in Rows => i \notin gone.full /\ i \notin gone.failed /\ i \notin gone.cleaned
          /\ i \in gone.full => i \notin gone.failed /\ i \notin gone.cleaned
          /\ i \in gone.failed => i \notin gone.cleaned
      BY DEF QueueInv, Apart, N
    <3> QED BY <1>3, <1>5, <1>6, <1>7, <3>1
  <2> QED BY <1>5, <2>1 DEF Apart
<1>11. ragItems' = {m \in Rows' : emitted'[m].kind = "rag"}
  <2>1. ragItems = {m \in Rows : emitted[m].kind = "rag"} /\ ragItems' = ragItems \cap Rows'
    BY <1>1 DEF QueueInv, Rows
  <2> QED BY <1>3, <1>5, <2>1
<1>12. CleanedIsOld'
  <2>1. \A n \in gone.cleaned : n \in aged /\ ~emitted[n].error /\ emitted[n].kind # "write"
    BY DEF QueueInv, CleanedIsOld
  <2>2. \A n \in gone'.cleaned : n \in gone.cleaned \/ n \in E
    BY <1>6
  <2>3. \A n \in gone'.cleaned : n \in aged /\ ~emitted[n].error /\ emitted[n].kind # "write"
    BY <1>8, <2>1, <2>2
  <2> QED BY <1>5, <2>3 DEF CleanedIsOld
<1> QED BY <1>2, <1>4, <1>5, <1>6, <1>9, <1>10, <1>11, <1>12 DEF QueueInv

\* What the other steps leave as it is.
LEMMA QueueStays ==
  ASSUME QueueInv, UNCHANGED <<emitted, traceQueue, stored, ragItems, gone>>, aged \subseteq aged'
  PROVE  QueueInv'
<1>1. InLine' = InLine /\ Rows' = Rows
  BY DEF InLine, Rows
<1>2. Apart'
  BY <1>1 DEF QueueInv, Apart
<1>3. CleanedIsOld'
  BY DEF QueueInv, CleanedIsOld
<1> QED BY <1>1, <1>2, <1>3 DEF QueueInv

\* A stream alone changes.
LEMMA StreamMoves ==
  ASSUME StreamInv, UNCHANGED emitted, NEW s \in Streams, NEW new \in StreamType, Follows(new, emitted),
         streams' = [streams EXCEPT ![s] = new]
  PROVE  StreamInv'
<1>1. streams' \in [Streams -> StreamType]
  BY DEF StreamInv
<1>2. \A t \in Streams : Follows(streams'[t], emitted)
  BY DEF StreamInv
<1> QED BY <1>1, <1>2 DEF StreamInv

\* Whatever happens to traces keeps the invariants.
LEMMA TraceStep == QueueInv /\ StreamInv /\ [TraceNext]_traceVars => QueueInv' /\ StreamInv'
<1> SUFFICES ASSUME QueueInv, StreamInv, [TraceNext]_traceVars PROVE QueueInv' /\ StreamInv'
  OBVIOUS
<1>a. UNCHANGED <<emitted, streams>> => StreamInv'
  BY DEF StreamInv
<1>1. CASE Emits
  BY <1>1, TraceEmitted
<1>2. CASE TraceWrites
  BY <1>2, <1>a, TraceWritten DEF TraceWrites
<1>3. CASE Cancelled
  BY <1>3, <1>a, QueueStays DEF Cancelled
<1>4. CASE Flushed
  BY <1>4, <1>a, QueueStays DEF Flushed
<1>5. CASE GrowsOld
  <2>1. /\ UNCHANGED <<emitted, traceQueue, stored, ragItems, traceWriter, streams, gone>>
        /\ aged \subseteq aged'
    BY <1>5 DEF GrowsOld
  <2> QED BY <1>a, <2>1, QueueStays
<1>6. CASE Cleans
  BY <1>6, <1>a, TracesCleaned DEF Cleans
<1>7. ASSUME NEW s \in Streams, Subscribes(s) PROVE QueueInv' /\ StreamInv'
  <2>1. PICK key \in TraceSessions \cup {AllSessions} :
          streams' = [streams EXCEPT ![s] = [NoStream EXCEPT !.key = key, !.since = Len(emitted)]]
    BY <1>7 DEF Subscribes
  <2> DEFINE new == [NoStream EXCEPT !.key = key, !.since = Len(emitted)]
  <2>2. UNCHANGED <<emitted, traceQueue, stored, ragItems, gone, aged>>
    BY <1>7 DEF Subscribes
  <2>3. emitted \in Seq(TraceForms) /\ Len(emitted) \in Nat /\ DOMAIN emitted = 1..Len(emitted)
    BY DEF StreamInv
  <2>4. /\ new.key = key /\ new.queue = <<>> /\ new.shown = <<>> /\ new.since = Len(emitted) /\ new.missed = {}
        /\ new \in StreamType
    <3>1. NoStream \in StreamType /\ NoStream.queue = <<>> /\ NoStream.shown = <<>> /\ NoStream.missed = {}
      BY DEF NoStream, StreamType
    <3>2. [NoStream EXCEPT !.key = key] \in StreamType
      BY <3>1 DEF StreamType
    <3> QED BY <2>3, <3>1, <3>2 DEF StreamType
  <2> HIDE DEF new
  <2>6. Line(new) = <<>>
    BY <2>4 DEF Line
  <2>7. Due(new, emitted) = {}
    BY <2>3, <2>4 DEF Due
  <2>8. Rising(<<>>) /\ ToSet(<<>>) = {}
    BY DEF Rising, ToSet
  <2>9. Follows(new, emitted)
    <3>1. new.since <= Len(emitted) /\ new.missed \subseteq DOMAIN emitted
      BY <2>3, <2>4
    <3>2. ToSet(Line(new)) = Due(new, emitted) \ new.missed /\ Rising(Line(new))
      BY <2>6, <2>7, <2>8
    <3> QED BY <3>1, <3>2 DEF Follows
  <2>10. StreamInv'
    BY <2>1, <2>2, <2>4, <2>9, StreamMoves DEF new
  <2> QED BY <2>2, <2>10, QueueStays
<1>8. ASSUME NEW s \in Streams, Shows(s) PROVE QueueInv' /\ StreamInv'
  <2> DEFINE old == streams[s]
             new == [old EXCEPT !.queue = Tail(old.queue), !.shown = Append(old.shown, Head(old.queue))]
  <2>1. /\ old.key # Away /\ old.queue # <<>> /\ streams' = [streams EXCEPT ![s] = new]
        /\ UNCHANGED <<emitted, traceQueue, stored, ragItems, gone, aged>>
    BY <1>8 DEF Shows
  <2>2. old \in StreamType /\ Follows(old, emitted)
    BY DEF StreamInv
  <2> HIDE DEF old
  <2>3. old.queue \in Seq(Nat) /\ old.shown \in Seq(Nat)
    BY <2>2 DEF StreamType
  <2>4. Tail(old.queue) \in Seq(Nat) /\ Append(old.shown, Head(old.queue)) \in Seq(Nat)
    BY <2>1, <2>3
  <2>5. /\ new \in StreamType /\ new.key = old.key /\ new.since = old.since /\ new.missed = old.missed
        /\ new.queue = Tail(old.queue) /\ new.shown = Append(old.shown, Head(old.queue))
    BY <2>2, <2>4 DEF StreamType
  <2> HIDE DEF new
  <2>6. Line(new) = Line(old)
    BY <2>1, <2>3, <2>5, Reshown DEF Line
  <2>7. Due(new, emitted) = Due(old, emitted)
    BY <2>5 DEF Due
  <2>8. Follows(new, emitted)
    BY <2>2, <2>5, <2>6, <2>7 DEF Follows
  <2>9. StreamInv'
    BY <2>1, <2>5, <2>8, StreamMoves
  <2> QED BY <2>1, <2>9, QueueStays
<1>9. ASSUME NEW s \in Streams, Unsubscribes(s) PROVE QueueInv' /\ StreamInv'
  <2>1. /\ streams' = [streams EXCEPT ![s] = NoStream]
        /\ UNCHANGED <<emitted, traceQueue, stored, ragItems, gone, aged>>
    BY <1>9 DEF Unsubscribes
  <2>2. NoStream \in StreamType /\ NoStream.key = Away
    BY DEF NoStream, StreamType
  <2>3. StreamInv'
    BY <2>1, <2>2, StreamMoves DEF Follows
  <2> QED BY <2>1, <2>3, QueueStays
<1>10. CASE UNCHANGED traceVars
  BY <1>10, <1>a, QueueStays DEF traceVars
<1> QED
  BY <1>1, <1>2, <1>3, <1>4, <1>5, <1>6, <1>7, <1>8, <1>9, <1>10 DEF TraceNext

\* Queues keep to their limits, and what is old has happened.
LimitsInv ==
    /\ Len(traceQueue) <= TraceQueueMax
    /\ \A s \in Streams : Len(streams[s].queue) <= StreamQueueMax
    /\ aged \subseteq 1..Len(emitted)
    /\ traceWriter \in {"runs", "flushes", "stopped"}

\* Nothing has happened.
LEMMA LimitsBegin == TraceInit => LimitsInv
<1> SUFFICES ASSUME TraceInit PROVE LimitsInv
  OBVIOUS
<1>1. Len(traceQueue) = 0 /\ aged = {} /\ traceWriter = "runs"
  BY DEF TraceInit
<1>2. \A s \in Streams : Len(streams[s].queue) = 0
  BY DEF TraceInit, NoStream
<1> QED BY <1>1, <1>2, TracesAssumption DEF LimitsInv

\* What the invariant is for.
LEMMA LimitsAreTypes == QueueInv /\ LimitsInv => TraceTypeOK
<1> SUFFICES ASSUME QueueInv, LimitsInv PROVE TraceTypeOK
  OBVIOUS
<1>1. Traced = 1..Len(emitted)
  BY DEF QueueInv, Traced
<1>2. ToSet(stored) \cup ragItems \cup aged \subseteq Traced
  BY <1>1 DEF QueueInv, LimitsInv, Rows
<1> QED BY <1>2 DEF LimitsInv, TraceTypeOK

\* A stream's queue takes no more than it may hold.
LEMMA PublishedFits ==
  ASSUME NEW stream \in StreamType, Len(stream.queue) <= StreamQueueMax, NEW n \in Nat, NEW place
  PROVE  Len(Published(stream, n, place).queue) <= StreamQueueMax
<1>1. stream.queue \in Seq(Nat) /\ StreamQueueMax \in Nat
  BY TracesAssumption DEF StreamType
<1>2. CASE Len(stream.queue) < StreamQueueMax /\ Published(stream, n, place) = [stream EXCEPT !.queue = Append(stream.queue, n)]
  <2> DEFINE longer == Append(stream.queue, n)
  <2>1. Len(longer) = Len(stream.queue) + 1
    BY <1>1
  <2> HIDE DEF longer
  <2>2. [stream EXCEPT !.queue = longer].queue = longer
    BY DEF StreamType
  <2> QED BY <1>1, <1>2, <2>1, <2>2 DEF longer
<1>3. CASE Published(stream, n, place) = stream
  BY <1>3
<1>4. CASE Published(stream, n, place) = [stream EXCEPT !.missed = stream.missed \cup {n}]
  BY <1>4 DEF StreamType
<1> QED BY <1>2, <1>3, <1>4 DEF Published

\* Whatever happens keeps the limits.
LEMMA LimitsStep == QueueInv /\ StreamInv /\ LimitsInv /\ [TraceNext]_traceVars => LimitsInv'
<1> SUFFICES ASSUME QueueInv, StreamInv, LimitsInv, [TraceNext]_traceVars PROVE LimitsInv'
  OBVIOUS
<1>0. /\ traceQueue \in Seq(Nat) /\ emitted \in Seq(TraceForms) /\ Len(emitted) \in Nat
      /\ {TraceQueueMax, StreamQueueMax} \subseteq Nat
      /\ streams \in [Streams -> StreamType]
  BY TracesAssumption DEF QueueInv, StreamInv
<1>1. CASE Emits
  <2>1. PICK form \in TraceForms :
          LET n == Len(emitted) + 1
          IN  /\ emitted' = Append(emitted, form)
              /\ IF Len(traceQueue) < TraceQueueMax
                 THEN traceQueue' = Append(traceQueue, n) /\ UNCHANGED gone
                 ELSE gone' = [gone EXCEPT !.full = @ \cup {n}] /\ UNCHANGED traceQueue
              /\ streams' = [s \in Streams |-> Published(streams[s], n, form.session)]
    BY <1>1 DEF Emits
  <2> DEFINE n == Len(emitted) + 1
  <2>2. n \in Nat /\ Len(emitted') = n
    BY <1>0, <2>1
  <2>3. Len(traceQueue') <= TraceQueueMax
    BY <1>0, <2>1, <2>2 DEF LimitsInv
  <2>4. ASSUME NEW s \in Streams PROVE Len(streams'[s].queue) <= StreamQueueMax
    <3>1. streams'[s] = Published(streams[s], n, form.session)
      BY <2>1
    <3>2. streams[s] \in StreamType /\ Len(streams[s].queue) <= StreamQueueMax
      BY <1>0 DEF LimitsInv
    <3> HIDE DEF n
    <3> QED BY <3>1, <3>2, <2>2, PublishedFits
  <2>5. aged' \subseteq 1..Len(emitted') /\ traceWriter' = traceWriter
    <3>1. aged' = aged /\ traceWriter' = traceWriter
      BY <1>1 DEF Emits
    <3> QED BY <3>1, <2>2, <1>0 DEF LimitsInv
  <2> QED BY <2>3, <2>4, <2>5 DEF LimitsInv
<1>2. CASE TraceWrites
  <2>1. traceQueue' = Tail(traceQueue) /\ traceQueue # <<>> /\ UNCHANGED <<emitted, traceWriter, streams, aged>>
    BY <1>2 DEF TraceWrites
  <2>2. Len(traceQueue') <= Len(traceQueue) /\ Len(traceQueue') \in Nat
    BY <2>1, <1>0
  <2> QED BY <2>1, <2>2, <1>0 DEF LimitsInv
<1>3. CASE Cancelled \/ Flushed
  BY <1>3 DEF Cancelled, Flushed, LimitsInv
<1>4. CASE GrowsOld
  <2>1. PICK n \in ToSet(stored) : aged' = aged \cup {n}
    BY <1>4 DEF GrowsOld
  <2>2. n \in 1..Len(emitted)
    BY <2>1 DEF QueueInv, Rows
  <2> QED BY <1>4, <2>1, <2>2 DEF GrowsOld, LimitsInv
<1>5. CASE Cleans
  BY <1>5 DEF Cleans, LimitsInv
\* One stream has another queue.
<1>a. ASSUME NEW s \in Streams, NEW stream, streams' = [streams EXCEPT ![s] = stream],
             Len(stream.queue) <= StreamQueueMax, UNCHANGED <<traceQueue, aged, emitted, traceWriter>>
      PROVE  LimitsInv'
  BY <1>a, <1>0 DEF LimitsInv
<1>6. ASSUME NEW s \in Streams, Subscribes(s) PROVE LimitsInv'
  <2>1. PICK key \in TraceSessions \cup {AllSessions} :
          streams' = [streams EXCEPT ![s] = [NoStream EXCEPT !.key = key, !.since = Len(emitted)]]
    BY <1>6 DEF Subscribes
  <2> DEFINE stream == [NoStream EXCEPT !.key = key, !.since = Len(emitted)]
  <2>2. stream.queue = <<>>
    BY DEF NoStream
  <2>3. streams' = [streams EXCEPT ![s] = stream]
    BY <2>1
  <2> HIDE DEF stream
  <2>4. UNCHANGED <<traceQueue, aged, emitted, traceWriter>>
    BY <1>6 DEF Subscribes
  <2>5. Len(stream.queue) <= StreamQueueMax
    BY <2>2, <1>0
  <2> QED BY <2>3, <2>4, <2>5, <1>a
<1>7. ASSUME NEW s \in Streams, Shows(s) PROVE LimitsInv'
  <2> DEFINE rest == Tail(streams[s].queue)
             more == Append(streams[s].shown, Head(streams[s].queue))
             stream == [streams[s] EXCEPT !.queue = rest, !.shown = more]
  <2>1. streams' = [streams EXCEPT ![s] = stream] /\ streams[s].queue # <<>>
    BY <1>7, <1>0 DEF Shows
  <2>2. streams[s].queue \in Seq(Nat) /\ streams[s] \in StreamType
    BY <1>0 DEF StreamType
  <2>3. Len(rest) <= Len(streams[s].queue) /\ Len(rest) \in Nat
    BY <2>1, <2>2
  <2> HIDE DEF rest, more
  <2>4. stream.queue = rest
    BY <2>2 DEF StreamType
  <2> HIDE DEF stream
  <2>5. UNCHANGED <<traceQueue, aged, emitted, traceWriter>>
    BY <1>7 DEF Shows
  <2>6. Len(stream.queue) <= StreamQueueMax
    BY <2>2, <2>3, <2>4, <1>0 DEF LimitsInv
  <2> QED BY <2>1, <2>5, <2>6, <1>a
<1>8. ASSUME NEW s \in Streams, Unsubscribes(s) PROVE LimitsInv'
  <2>1. streams' = [streams EXCEPT ![s] = NoStream] /\ UNCHANGED <<traceQueue, aged, emitted, traceWriter>>
    BY <1>8 DEF Unsubscribes
  <2>2. Len(NoStream.queue) = 0
    BY DEF NoStream
  <2>3. Len(NoStream.queue) <= StreamQueueMax
    BY <2>2, <1>0
  <2> QED BY <2>1, <2>3, <1>a
<1>9. CASE UNCHANGED traceVars
  BY <1>9 DEF traceVars, LimitsInv
<1> QED BY <1>1, <1>2, <1>3, <1>4, <1>5, <1>6, <1>7, <1>8, <1>9 DEF TraceNext

-----------------------------------------------------------------------------
(* McpPool: The pool of MCP clients                                         *)

ClientType == [process : {"none", "live", "over"}, left : BOOLEAN, nextId : Nat, work : SUBSET Nat,
               lines : Seq([id : Nat, json : BOOLEAN])]

CallType == [step : {"idle", "waits", "dials", "asks", "drops", "redials"}, on : 0..MaxClients,
             id : Nat, sent : 0..2, got : Nat]

\* Of a call of c: it has the lock while it is more than waiting, has nothing until
\* it is over, and knows which client the pool may have meanwhile.
CallOK(c, call, lock, pool) ==
    /\ call.step \notin {"idle", "waits"} => lock = c
    /\ call.step # "idle" => call.got = 0
    /\ call.got \in {0, call.id}
    /\ call.step \in {"waits", "dials"} => call.sent = 0
    /\ call.step = "asks" => call.sent \in 1..2 /\ call.on \in ClientIds /\ pool \in {call.on, NoClient}
    /\ call.step \in {"drops", "redials"} => call.sent = 1 /\ call.on \in ClientIds
    /\ call.step \in {"dials", "drops", "redials"} => pool = NoClient

PoolInv ==
    /\ clients \in [ClientIds -> ClientType] /\ poolCalls \in [PoolCallers -> CallType]
    /\ pooled \in ClientIds \cup {NoClient}
    /\ \A c \in PoolCallers : CallOK(c, poolCalls[c], poolLock, pooled)
    /\ ChildrenAreHeld

\* What the invariant is for.
LEMMA PoolInvIsEnough == PoolInv => PoolIsSound
<1> SUFFICES ASSUME PoolInv PROVE PoolIsSound
  OBVIOUS
<1>1. AnswersAreOwn
  BY DEF PoolInv, CallOK, AnswersAreOwn
<1>2. OneReader
  BY DEF PoolInv, CallOK, OneReader
<1>3. CalledTwice
  <2> SUFFICES ASSUME NEW c \in PoolCallers
               PROVE  /\ poolCalls[c].sent \in 0..2
                      /\ poolCalls[c].step \in {"drops", "redials"} =>
                          poolCalls[c].sent < 2 /\ poolCalls[c].on # pooled
    BY DEF CalledTwice
  <2>1. CallOK(c, poolCalls[c], poolLock, pooled) /\ poolCalls[c] \in CallType
    BY DEF PoolInv
  <2>2. NoClient \notin ClientIds
    BY PoolAssumption DEF NoClient, ClientIds
  <2> QED BY <2>1, <2>2 DEF CallOK, CallType
<1> QED BY <1>1, <1>2, <1>3 DEF PoolIsSound, PoolInv

\* The numbers that stand for no client.
LEMMA NoClientIsNone == NoClient \notin ClientIds /\ NoClient \in 0..MaxClients /\ ClientIds \subseteq 0..MaxClients
                        /\ 0 \in 0..2 /\ 1 \in 1..2 /\ 1 \in 0..2 /\ 0 \in Nat /\ Open \notin ClientIds /\ Closed \notin ClientIds
BY PoolAssumption DEF NoClient, ClientIds, Open, Closed

\* The pool is new.
LEMMA PoolBegins == PoolInit => PoolInv
<1> SUFFICES ASSUME PoolInit PROVE PoolInv
  OBVIOUS
<1>1. Unused \in ClientType
  BY DEF Unused, ClientType
<1>2. NoCall \in CallType
  BY NoClientIsNone DEF NoCall, CallType
<1>3. \A c \in PoolCallers : CallOK(c, NoCall, poolLock, pooled)
  BY DEF CallOK, NoCall
<1>4. ChildrenAreHeld
  BY DEF PoolInit, ChildrenAreHeld, Unused
<1> QED BY <1>1, <1>2, <1>3, <1>4 DEF PoolInit, PoolInv

\* While one has the lock, or nobody, the others have not begun or wait for it.
LEMMA OthersRest ==
  ASSUME PoolInv, NEW c \in PoolCallers, poolLock \in {c, Nobody}
  PROVE  \A d \in PoolCallers : d # c => poolCalls[d].step \in {"idle", "waits"}
BY PoolAssumption DEF PoolInv, CallOK

\* A step of c, which has the lock, takes it or gives it back.
LEMMA CallMoves ==
  ASSUME PoolInv, NEW c \in PoolCallers, NEW call \in CallType,
         poolLock \in {c, Nobody}, poolCalls' = [poolCalls EXCEPT ![c] = call],
         CallOK(c, call, poolLock', pooled')
  PROVE  /\ poolCalls' \in [PoolCallers -> CallType]
         /\ \A d \in PoolCallers : CallOK(d, poolCalls'[d], poolLock', pooled')
<1>1. poolCalls \in [PoolCallers -> CallType]
  BY DEF PoolInv
<1>2. poolCalls' \in [PoolCallers -> CallType]
  BY <1>1
<1>3. ASSUME NEW d \in PoolCallers PROVE CallOK(d, poolCalls'[d], poolLock', pooled')
  <2>1. CASE d = c
    BY <1>1, <2>1
  <2>2. CASE d # c
    <3>1. poolCalls'[d] = poolCalls[d] /\ poolCalls[d].step \in {"idle", "waits"}
      BY <1>1, <2>2, OthersRest
    <3>2. CallOK(d, poolCalls[d], poolLock, pooled)
      BY DEF PoolInv
    <3> QED BY <3>1, <3>2 DEF CallOK
  <2> QED BY <2>1, <2>2
<1> QED BY <1>2, <1>3

\* What a call may become.
LEMMA CallTypes ==
  ASSUME NEW call \in CallType, NEW s \in {"idle", "waits", "dials", "asks", "drops", "redials"}
  PROVE  /\ [call EXCEPT !.step = s] \in CallType
         /\ [call EXCEPT !.step = s].step = s
         /\ [call EXCEPT !.step = s].on = call.on /\ [call EXCEPT !.step = s].id = call.id
         /\ [call EXCEPT !.step = s].sent = call.sent /\ [call EXCEPT !.step = s].got = call.got
BY DEF CallType

\* A call that is over.
LEMMA OverTypes ==
  ASSUME NEW call \in CallType, NEW g \in Nat
  PROVE  /\ [call EXCEPT !.step = "idle", !.got = g] \in CallType
         /\ [call EXCEPT !.step = "idle", !.got = g].step = "idle"
         /\ [call EXCEPT !.step = "idle", !.got = g].got = g
         /\ [call EXCEPT !.step = "idle", !.got = g].id = call.id
BY DEF CallType

\* A call that is made.
LEMMA AskingTypes ==
  ASSUME NEW call \in CallType, NEW n \in 0..MaxClients, NEW id \in Nat, call.sent < 2
  PROVE  /\ Asking(call, n, id) \in CallType
         /\ Asking(call, n, id).step = "asks" /\ Asking(call, n, id).on = n
         /\ Asking(call, n, id).sent = call.sent + 1 /\ Asking(call, n, id).got = call.got
<1>1. call.sent \in 0..2 /\ call.sent + 1 \in 0..2
  BY DEF CallType
<1> QED BY <1>1 DEF CallType, Asking

\* What a client may become.
LEMMA ClientTypes ==
  /\ Unused \in ClientType /\ Connected \in ClientType /\ RequestSent(Connected) \in ClientType
  /\ Connected.nextId \in Nat
  /\ [Unused EXCEPT !.process = "live", !.left = TRUE] \in ClientType
  /\ [Unused EXCEPT !.process = "live", !.left = TRUE].left
  /\ \A client \in ClientType :
      /\ client.nextId \in Nat
      /\ RequestSent(client) \in ClientType
      /\ RequestSent(client).process = client.process /\ RequestSent(client).left = client.left
      /\ [client EXCEPT !.left = TRUE] \in ClientType /\ [client EXCEPT !.left = TRUE].left
<1>1. Unused \in ClientType
  BY DEF Unused, ClientType
<1>2. Connected \in ClientType
  BY <1>1 DEF Connected, ClientType
<1>3. ASSUME NEW client \in ClientType
      PROVE  /\ client.nextId \in Nat
             /\ RequestSent(client) \in ClientType
             /\ RequestSent(client).process = client.process /\ RequestSent(client).left = client.left
  <2> DEFINE next == client.nextId + 1
             work == client.work \cup {client.nextId}
  <2>1. next \in Nat /\ work \in SUBSET Nat /\ client.nextId \in Nat
    BY DEF ClientType
  <2>2. RequestSent(client) = [client EXCEPT !.nextId = next, !.work = work]
    BY DEF RequestSent
  <2> HIDE DEF next, work
  <2> QED BY <2>1, <2>2 DEF ClientType
<1>4. [Unused EXCEPT !.process = "live", !.left = TRUE] = [[Unused EXCEPT !.process = "live"] EXCEPT !.left = TRUE]
  BY DEF Unused
<1>5. [Unused EXCEPT !.process = "live"] \in ClientType
  BY <1>1 DEF ClientType
<1>6. \A client \in ClientType : [client EXCEPT !.left = TRUE] \in ClientType /\ [client EXCEPT !.left = TRUE].left
  BY DEF ClientType
<1> QED BY <1>1, <1>2, <1>3, <1>4, <1>5, <1>6

\* A client that was ended runs no more, or is left.
LEMMA EndedIsOver ==
  ASSUME NEW client \in ClientType, NEW remains \in Ended(client)
  PROVE  remains \in ClientType /\ (remains.process = "live" => remains.left)
<1>1. CASE client.process = "live"
  <2>1. remains = [Unused EXCEPT !.process = "over"] \/ remains = [Unused EXCEPT !.process = "live", !.left = TRUE]
    BY <1>1 DEF Ended
  <2>2. 1 \in Nat /\ <<>> \in Seq([id : Nat, json : BOOLEAN])
    OBVIOUS
  <2>3. CASE remains = [Unused EXCEPT !.process = "over"]
    <3>1. remains = [process |-> "over", left |-> FALSE, nextId |-> 1, work |-> {}, lines |-> <<>>]
      BY <2>3 DEF Unused
    <3> QED BY <3>1, <2>2 DEF ClientType
  <2>4. CASE remains = [Unused EXCEPT !.process = "live", !.left = TRUE]
    <3>1. remains = [process |-> "live", left |-> TRUE, nextId |-> 1, work |-> {}, lines |-> <<>>]
      BY <2>4 DEF Unused
    <3> QED BY <3>1, <2>2 DEF ClientType
  <2> QED BY <2>1, <2>3, <2>4
<1>2. CASE client.process # "live"
  BY <1>2 DEF Ended
<1> QED BY <1>1, <1>2

\* A running child is held by the pool or given up, if it was and nothing is let go.
LEMMA HeldStays ==
  ASSUME PoolInv, NEW c \in PoolCallers, NEW call \in CallType,
         poolCalls' = [poolCalls EXCEPT ![c] = call],
         poolStop' = poolStop,
         poolCalls[c].step # "drops",
         pooled' = pooled \/ (call.step = "drops" /\ call.on = pooled) \/ pooled = NoClient,
         \A n \in ClientIds :
            \/ clients'[n].process = "live" => clients[n].process = "live" /\ clients'[n].left = clients[n].left
            \/ clients'[n].left \/ n = pooled'
  PROVE  ChildrenAreHeld'
<1>1. poolCalls \in [PoolCallers -> CallType]
  BY DEF PoolInv
<1> SUFFICES ASSUME NEW n \in ClientIds, clients'[n].process = "live", ~clients'[n].left, n # pooled', poolStop # n
             PROVE  \E d \in PoolCallers : poolCalls'[d].step = "drops" /\ poolCalls'[d].on = n
  BY DEF ChildrenAreHeld
<1>2. clients[n].process = "live" /\ ~clients[n].left
  OBVIOUS
<1>3. CASE n = pooled
  <2>1. call.step = "drops" /\ call.on = n
    BY <1>3, NoClientIsNone
  <2> QED BY <2>1, <1>1
<1>4. CASE n # pooled
  <2>1. PICK d \in PoolCallers : poolCalls[d].step = "drops" /\ poolCalls[d].on = n
    BY <1>2, <1>4 DEF PoolInv, ChildrenAreHeld
  <2>2. d # c
    BY <2>1
  <2> QED BY <2>1, <2>2, <1>1
<1> QED BY <1>3, <1>4

\* A call begins.
LEMMA PoolCallStep ==
  ASSUME PoolInv, NEW c \in PoolCallers, Calls(c) PROVE PoolInv'
<1> DEFINE call == [NoCall EXCEPT !.step = "waits"]
<1>1. call = [step |-> "waits", on |-> NoClient, id |-> 0, sent |-> 0, got |-> 0]
  BY DEF NoCall
<1>2. call \in CallType
  BY <1>1, NoClientIsNone DEF CallType
<1>3. poolCalls' = [poolCalls EXCEPT ![c] = call] /\ poolCalls[c].step = "idle"
  BY DEF Calls
<1>4. poolCalls \in [PoolCallers -> CallType]
  BY DEF PoolInv
<1>5. poolCalls' \in [PoolCallers -> CallType]
  BY <1>2, <1>3, <1>4
<1> HIDE DEF call
<1>6. ASSUME NEW d \in PoolCallers PROVE CallOK(d, poolCalls'[d], poolLock', pooled')
  <2>1. CASE d = c
    <3>1. poolCalls'[d] = call
      BY <2>1, <1>3, <1>4
    <3> QED BY <3>1, <1>1 DEF CallOK
  <2>2. CASE d # c
    <3>1. poolCalls'[d] = poolCalls[d]
      BY <2>2, <1>3, <1>4
    <3> QED BY <3>1 DEF PoolInv, Calls
  <2> QED BY <2>1, <2>2
<1>7. ChildrenAreHeld'
  BY <1>2, <1>3, HeldStays DEF Calls
<1> QED BY <1>5, <1>6, <1>7 DEF PoolInv, Calls

\* The caller has the lock in all that follows.
LEMMA LockIsHeld ==
  ASSUME PoolInv, NEW c \in PoolCallers, poolCalls[c].step \notin {"idle", "waits"}
  PROVE  poolLock = c
BY DEF PoolInv, CallOK

\* A caller gets the lock.
LEMMA EntersStep ==
  ASSUME PoolInv, NEW c \in PoolCallers, Enters(c) PROVE PoolInv'
<1>1. /\ poolCalls[c] \in CallType /\ clients \in [ClientIds -> ClientType]
      /\ CallOK(c, poolCalls[c], poolLock, pooled) /\ pooled \in ClientIds \cup {NoClient}
  BY DEF PoolInv
<1>2. /\ poolCalls[c].step = "waits" /\ poolLock = Nobody /\ poolLock' = c /\ pooled' = pooled
      /\ poolStop' = poolStop
  BY DEF Enters
<1>3. CASE pooled = NoClient
  <2> DEFINE call == [poolCalls[c] EXCEPT !.step = "dials"]
  <2>1. call \in CallType /\ CallOK(c, call, poolLock', pooled')
    <3>1. /\ call \in CallType /\ call.step = "dials" /\ call.on = poolCalls[c].on
          /\ call.id = poolCalls[c].id /\ call.sent = poolCalls[c].sent /\ call.got = poolCalls[c].got
      BY <1>1, CallTypes
    <3> HIDE DEF call
    <3> QED BY <3>1, <1>1, <1>2, <1>3 DEF CallOK
  <2>2. poolCalls' = [poolCalls EXCEPT ![c] = call] /\ clients' = clients
    BY <1>3 DEF Enters
  <2> HIDE DEF call
  <2>3. ChildrenAreHeld'
    BY <2>1, <2>2, <1>2, HeldStays
  <2> QED BY <2>1, <2>2, <2>3, <1>1, <1>2, CallMoves DEF PoolInv
<1>4. CASE pooled # NoClient
  <2> DEFINE id == clients[pooled].nextId
             call == Asking(poolCalls[c], pooled, id)
  <2>1. id \in Nat /\ pooled \in ClientIds /\ pooled \in 0..MaxClients
    BY <1>1, <1>4, ClientTypes, NoClientIsNone
  <2>2. poolCalls[c].sent = 0 /\ poolCalls[c].got = 0
    BY <1>1, <1>2 DEF CallOK
  <2>3. /\ call \in CallType /\ call.step = "asks" /\ call.on = pooled
        /\ call.sent = 1 /\ call.got = 0
    BY <1>1, <2>1, <2>2, AskingTypes
  <2>4. poolCalls' = [poolCalls EXCEPT ![c] = call] /\ clients' = [clients EXCEPT ![pooled] = RequestSent(@)]
    BY <1>4 DEF Enters
  <2> HIDE DEF call
  <2>5. CallOK(c, call, poolLock', pooled')
    BY <2>3, <2>1, <1>2 DEF CallOK
  <2>6. /\ RequestSent(clients[pooled]) \in ClientType
        /\ RequestSent(clients[pooled]).process = clients[pooled].process
        /\ RequestSent(clients[pooled]).left = clients[pooled].left
    BY <2>1, <1>1, ClientTypes
  <2>7. /\ clients' \in [ClientIds -> ClientType]
        /\ \A n \in ClientIds : clients'[n].process = clients[n].process /\ clients'[n].left = clients[n].left
    BY <2>4, <2>6, <1>1
  <2>8. ChildrenAreHeld'
    BY <2>3, <2>4, <2>7, <1>2, HeldStays
  <2> QED BY <2>3, <2>4, <2>5, <2>7, <2>8, <1>1, <1>2, CallMoves DEF PoolInv
<1> QED BY <1>3, <1>4

\* A client is started and asked.
LEMMA DialsStep ==
  ASSUME PoolInv, NEW c \in PoolCallers, Dials(c) PROVE PoolInv'
<1>1. /\ poolCalls[c] \in CallType /\ clients \in [ClientIds -> ClientType]
      /\ CallOK(c, poolCalls[c], poolLock, pooled)
  BY DEF PoolInv
<1>2. poolCalls[c].step \in {"dials", "redials"} /\ poolLock' = poolLock /\ poolStop' = poolStop
  BY DEF Dials
<1>3. poolLock = c /\ pooled = NoClient /\ poolCalls[c].sent < 2 /\ poolCalls[c].got = 0
  BY <1>1, <1>2, LockIsHeld DEF CallOK
<1>4. PICK n \in Fresh : /\ clients' = [clients EXCEPT ![n] = RequestSent(Connected)]
                         /\ pooled' = n
                         /\ poolCalls' = [poolCalls EXCEPT ![c] = Asking(poolCalls[c], n, Connected.nextId)]
  BY <1>1 DEF Dials, PoolInv
<1>5. n \in ClientIds /\ n \in 0..MaxClients
  BY NoClientIsNone DEF Fresh
<1> DEFINE call == Asking(poolCalls[c], n, Connected.nextId)
<1>6. /\ call \in CallType /\ call.step = "asks" /\ call.on = n
      /\ call.sent = poolCalls[c].sent + 1 /\ call.got = 0
  <2>1. Connected.nextId \in Nat
    BY ClientTypes
  <2> QED BY <2>1, <1>1, <1>3, <1>5, AskingTypes
<1>7. poolCalls' = [poolCalls EXCEPT ![c] = call]
  BY <1>4
<1> HIDE DEF call
<1>8. poolCalls[c].sent + 1 \in 1..2
  BY <1>1, <1>3 DEF CallType
<1>9. CallOK(c, call, poolLock', pooled')
  BY <1>6, <1>8, <1>2, <1>3, <1>4, <1>5 DEF CallOK
<1>10. /\ clients' \in [ClientIds -> ClientType]
       /\ \A m \in ClientIds : m # n => clients'[m] = clients[m]
  BY <1>1, <1>4, ClientTypes
<1>11. ChildrenAreHeld'
  BY <1>2, <1>3, <1>4, <1>6, <1>7, <1>10, HeldStays
<1> QED BY <1>2, <1>3, <1>4, <1>5, <1>6, <1>7, <1>9, <1>10, <1>11, CallMoves DEF PoolInv

\* A call that is over leaves the rest as it should be.
LEMMA ReturnsStep ==
  ASSUME PoolInv, NEW c \in PoolCallers, NEW got \in Nat, got \in {0, poolCalls[c].id},
         poolCalls[c].step \notin {"idle", "waits", "drops"}, Returns(c, got),
         pooled' = pooled, poolStop' = poolStop,
         clients' \in [ClientIds -> ClientType],
         \A n \in ClientIds :
            \/ clients'[n].process = "live" => clients[n].process = "live" /\ clients'[n].left = clients[n].left
            \/ clients'[n].left
  PROVE  PoolInv'
<1>1. poolCalls[c] \in CallType /\ poolLock = c
  BY LockIsHeld DEF PoolInv
<1> DEFINE call == [poolCalls[c] EXCEPT !.step = "idle", !.got = got]
<1>2. call \in CallType /\ call.step = "idle" /\ call.got = got /\ call.id = poolCalls[c].id
  BY <1>1, OverTypes
<1>3. poolCalls' = [poolCalls EXCEPT ![c] = call] /\ poolLock' = Nobody
  BY DEF Returns
<1> HIDE DEF call
<1>4. CallOK(c, call, poolLock', pooled')
  BY <1>2 DEF CallOK
<1>5. ChildrenAreHeld'
  BY <1>2, <1>3, HeldStays
<1> QED BY <1>1, <1>2, <1>3, <1>4, <1>5, CallMoves DEF PoolInv


\* A client cannot be started.
LEMMA DialFailsStep ==
  ASSUME PoolInv, NEW c \in PoolCallers, DialFails(c) PROVE PoolInv'
<1>1. clients \in [ClientIds -> ClientType] /\ poolCalls[c].step \in {"dials", "redials"}
  BY DEF PoolInv, DialFails
<1>2. /\ clients' \in [ClientIds -> ClientType]
      /\ \A n \in ClientIds : clients'[n] = clients[n] \/ clients'[n].left
  <2>1. CASE clients' = clients
    BY <2>1, <1>1
  <2>2. CASE \E n \in Fresh : clients' = [clients EXCEPT ![n] = [Unused EXCEPT !.process = "live", !.left = TRUE]]
    BY <2>2, <1>1, ClientTypes DEF Fresh
  <2> QED BY <2>1, <2>2 DEF DialFails
<1>3. Returns(c, 0) /\ pooled' = pooled /\ poolStop' = poolStop
  BY DEF DialFails
<1> QED BY <1>1, <1>2, <1>3, ReturnsStep

\* A call that fails is over, or has its client given up.
LEMMA FailsStep ==
  ASSUME PoolInv, NEW c \in PoolCallers, poolCalls[c].step = "asks", Fails(c), poolStop' = poolStop,
         clients' \in [ClientIds -> ClientType],
         \A n \in ClientIds : clients'[n].process = clients[n].process /\ clients'[n].left = clients[n].left
  PROVE  PoolInv'
<1>1. /\ poolCalls[c] \in CallType /\ poolLock = c /\ CallOK(c, poolCalls[c], poolLock, pooled)
      /\ pooled \in ClientIds \cup {NoClient}
  BY LockIsHeld DEF PoolInv
<1>2. CASE poolCalls[c].sent = 1
  <2> DEFINE call == [poolCalls[c] EXCEPT !.step = "drops"]
  <2>1. /\ call \in CallType /\ call.step = "drops" /\ call.on = poolCalls[c].on
        /\ call.id = poolCalls[c].id /\ call.sent = 1 /\ call.got = poolCalls[c].got
    BY <1>1, <1>2, CallTypes
  <2>2. poolCalls' = [poolCalls EXCEPT ![c] = call] /\ pooled' = NoClient /\ poolLock' = poolLock
    BY <1>2 DEF Fails
  <2> HIDE DEF call
  <2>3. CallOK(c, call, poolLock', pooled')
    BY <2>1, <2>2, <1>1 DEF CallOK
  <2>4. call.on = pooled \/ pooled = NoClient
    BY <2>1, <1>1 DEF CallOK
  <2>5. ChildrenAreHeld'
    BY <2>1, <2>2, <2>4, HeldStays
  <2> QED BY <2>1, <2>2, <2>3, <2>5, <1>1, CallMoves DEF PoolInv
<1>3. CASE poolCalls[c].sent # 1
  <2>1. Returns(c, 0) /\ pooled' = pooled
    BY <1>3 DEF Fails
  <2> QED BY <2>1, ReturnsStep
<1> QED BY <1>2, <1>3

\* A line is read: another's answer, the call's own, or no JSON.
LEMMA ReadsStep ==
  ASSUME PoolInv, NEW c \in PoolCallers, Reads(c) PROVE PoolInv'
<1> DEFINE n == poolCalls[c].on
           line == Head(clients[n].lines)
<1>1. /\ poolCalls[c].step = "asks" /\ clients[n].lines # <<>>
      /\ clients' = [clients EXCEPT ![n].lines = Tail(clients[n].lines)] /\ poolStop' = poolStop
  BY DEF Reads, PoolInv
<1>2. /\ poolCalls \in [PoolCallers -> CallType] /\ clients \in [ClientIds -> ClientType]
      /\ n \in ClientIds /\ pooled \in ClientIds \cup {NoClient}
  BY <1>1 DEF PoolInv, CallOK
<1>3. /\ Tail(clients[n].lines) \in Seq([id : Nat, json : BOOLEAN])
      /\ line \in [id : Nat, json : BOOLEAN]
  <2> DEFINE lines == clients[n].lines
  <2>1. lines \in Seq([id : Nat, json : BOOLEAN]) /\ lines # <<>>
    BY <1>1, <1>2 DEF ClientType
  <2> HIDE DEF lines
  <2>2. Head(lines) \in [id : Nat, json : BOOLEAN] /\ Tail(lines) \in Seq([id : Nat, json : BOOLEAN])
    BY <2>1, HeadTailProperties
  <2> QED BY <2>2 DEF lines
<1>4. /\ clients' \in [ClientIds -> ClientType]
      /\ \A m \in ClientIds : clients'[m].process = clients[m].process /\ clients'[m].left = clients[m].left
  <2> DEFINE rest == Tail(clients[n].lines)
             client == [clients[n] EXCEPT !.lines = rest]
  <2>1. clients' = [clients EXCEPT ![n] = client]
    BY <1>1
  <2>2. rest \in Seq([id : Nat, json : BOOLEAN]) /\ clients[n] \in ClientType
    BY <1>2, <1>3
  <2> HIDE DEF rest
  <2>3. client \in ClientType /\ client.process = clients[n].process /\ client.left = clients[n].left
    BY <2>2 DEF ClientType
  <2> HIDE DEF client
  <2> QED BY <2>1, <2>3, <1>2
<1>5. \/ line.id # poolCalls[c].id /\ UNCHANGED <<poolCalls, poolLock, pooled>>
      \/ line.id = poolCalls[c].id /\ Returns(c, line.id) /\ pooled' = pooled
      \/ Fails(c)
  BY <1>3 DEF Reads
<1> HIDE DEF n, line
<1>6. CASE UNCHANGED <<poolCalls, poolLock, pooled>>
  <2>1. ChildrenAreHeld'
    BY <1>4, <1>6, <1>1 DEF PoolInv, ChildrenAreHeld
  <2> QED BY <2>1, <1>4, <1>6 DEF PoolInv
<1>7. CASE line.id = poolCalls[c].id /\ Returns(c, line.id) /\ pooled' = pooled
  <2>1. line.id \in Nat
    BY <1>3
  <2> QED BY <2>1, <1>1, <1>4, <1>7, ReturnsStep
<1>8. CASE Fails(c)
  BY <1>1, <1>4, <1>8, FailsStep
<1> QED BY <1>5, <1>6, <1>7, <1>8

\* Nothing comes.
LEMMA WaitsStep ==
  ASSUME PoolInv, NEW c \in PoolCallers, Waits(c) PROVE PoolInv'
<1>1. poolCalls[c].step = "asks" /\ Fails(c) /\ poolStop' = poolStop /\ clients' = clients
  BY DEF Waits
<1>2. clients \in [ClientIds -> ClientType]
  BY DEF PoolInv
<1> QED BY <1>1, <1>2, FailsStep

\* The client that failed is ended.
LEMMA DropsStep ==
  ASSUME PoolInv, NEW c \in PoolCallers, Drops(c) PROVE PoolInv'
<1> DEFINE n == poolCalls[c].on
           call == [poolCalls[c] EXCEPT !.step = "redials"]
<1>1. /\ poolCalls[c].step = "drops" /\ UNCHANGED <<pooled, poolLock, poolStop>>
      /\ poolCalls' = [poolCalls EXCEPT ![c] = call]
  BY DEF Drops
<1>2. /\ poolCalls \in [PoolCallers -> CallType] /\ clients \in [ClientIds -> ClientType]
      /\ pooled \in ClientIds \cup {NoClient} /\ CallOK(c, poolCalls[c], poolLock, pooled)
  BY DEF PoolInv
<1>3. n \in ClientIds /\ poolLock = c
  BY <1>1, <1>2, LockIsHeld DEF CallOK
<1>4. PICK client \in Ended(clients[n]) : clients' = [clients EXCEPT ![n] = client]
  BY DEF Drops
<1>5. client \in ClientType /\ (client.process = "live" => client.left)
  BY <1>2, <1>3, <1>4, EndedIsOver
<1>6. /\ call \in CallType /\ call.step = "redials" /\ call.on = n
      /\ call.id = poolCalls[c].id /\ call.sent = poolCalls[c].sent /\ call.got = poolCalls[c].got
  BY <1>2, CallTypes
<1> HIDE DEF call
<1>7. CallOK(c, call, poolLock', pooled')
  BY <1>1, <1>2, <1>3, <1>6 DEF CallOK
<1>8. clients' \in [ClientIds -> ClientType]
  BY <1>2, <1>4, <1>5
<1>9. ChildrenAreHeld'
  <2> SUFFICES ASSUME NEW m \in ClientIds, clients'[m].process = "live", ~clients'[m].left, m # pooled, poolStop # m
               PROVE  \E d \in PoolCallers : poolCalls'[d].step = "drops" /\ poolCalls'[d].on = m
    BY <1>1 DEF ChildrenAreHeld
  <2>1. m # n
    BY <1>2, <1>4, <1>5
  <2>2. clients'[m] = clients[m]
    BY <2>1, <1>2, <1>4
  <2>3. PICK d \in PoolCallers : poolCalls[d].step = "drops" /\ poolCalls[d].on = m
    BY <2>2 DEF PoolInv, ChildrenAreHeld
  <2>4. d # c
    BY <2>1, <2>3
  <2> QED BY <2>3, <2>4, <1>1, <1>2
<1> QED BY <1>1, <1>2, <1>3, <1>6, <1>7, <1>8, <1>9, CallMoves DEF PoolInv

\* What a child does changes nothing of who holds it.
LEMMA ChildStep ==
  ASSUME PoolInv, NEW n \in ClientIds, NEW client \in ClientType,
         clients' = [clients EXCEPT ![n] = client],
         client.process = "live" => clients[n].process = "live", client.left = clients[n].left,
         UNCHANGED <<pooled, poolLock, poolCalls, poolStop>>
  PROVE  PoolInv'
<1>1. clients \in [ClientIds -> ClientType]
  BY DEF PoolInv
<1>2. clients' \in [ClientIds -> ClientType]
  BY <1>1
<1>3. \A m \in ClientIds : (clients'[m].process = "live" => clients[m].process = "live")
                           /\ clients'[m].left = clients[m].left
  BY <1>1
<1>4. ChildrenAreHeld'
  BY <1>3 DEF PoolInv, ChildrenAreHeld
<1> QED BY <1>2, <1>4 DEF PoolInv

\* The server answers or ends.
LEMMA ServerStep ==
  ASSUME PoolInv, NEW n \in ClientIds, ServerAnswers(n) \/ ServerEnds(n) PROVE PoolInv'
<1>1. clients \in [ClientIds -> ClientType] /\ clients[n] \in ClientType
  BY DEF PoolInv
<1>2. CASE ServerAnswers(n)
  <2>1. PICK id \in clients[n].work, json \in BOOLEAN :
          clients' = [clients EXCEPT ![n].work = clients[n].work \ {id},
                                     ![n].lines = Append(clients[n].lines, [id |-> id, json |-> json])]
    BY <1>1, <1>2 DEF ServerAnswers
  <2> DEFINE work == clients[n].work \ {id}
             lines == Append(clients[n].lines, [id |-> id, json |-> json])
             client == [clients[n] EXCEPT !.work = work, !.lines = lines]
  <2>2. clients' = [clients EXCEPT ![n] = client]
    BY <2>1, <1>1
  <2>3. work \in SUBSET Nat
    BY <1>1 DEF ClientType
  <2>4. lines \in Seq([id : Nat, json : BOOLEAN])
    <3>1. [id |-> id, json |-> json] \in [id : Nat, json : BOOLEAN]
      BY <1>1 DEF ClientType
    <3>2. clients[n].lines \in Seq([id : Nat, json : BOOLEAN])
      BY <1>1 DEF ClientType
    <3> QED BY <3>1, <3>2
  <2> HIDE DEF work, lines
  <2>5. client \in ClientType /\ client.process = clients[n].process /\ client.left = clients[n].left
    BY <2>3, <2>4, <1>1 DEF ClientType
  <2> HIDE DEF client
  <2>6. UNCHANGED <<pooled, poolLock, poolCalls, poolStop>>
    BY <1>2 DEF ServerAnswers
  <2> QED BY <2>2, <2>5, <2>6, ChildStep
<1>3. CASE ServerEnds(n)
  <2> DEFINE client == [clients[n] EXCEPT !.process = "over", !.work = {}]
  <2>1. clients' = [clients EXCEPT ![n] = client]
    BY <1>1, <1>3 DEF ServerEnds
  <2>2. client \in ClientType /\ client.process = "over" /\ client.left = clients[n].left
    BY <1>1 DEF ClientType
  <2> HIDE DEF client
  <2>3. UNCHANGED <<pooled, poolLock, poolCalls, poolStop>>
    BY <1>3 DEF ServerEnds
  <2> QED BY <2>1, <2>2, <2>3, ChildStep
<1> QED BY <1>2, <1>3

\* The pool begins to close.
LEMMA StopsStep ==
  ASSUME PoolInv, Stops PROVE PoolInv'
<1>1. /\ poolStop = Open /\ UNCHANGED <<clients, pooled, poolLock, poolCalls>>
  BY DEF Stops
<1>2. ChildrenAreHeld'
  BY <1>1, NoClientIsNone DEF PoolInv, ChildrenAreHeld
<1> QED BY <1>1, <1>2 DEF PoolInv

\* The client that was awaited has ended, and the pool is empty.
LEMMA StopEndsStep ==
  ASSUME PoolInv, StopEnds PROVE PoolInv'
<1>1. PICK n \in ClientIds :
        /\ poolStop = n
        /\ poolStop' = Closed /\ pooled' = NoClient
        /\ \E client \in Ended(clients[n]) :
            clients' = [m \in ClientIds |->
                CASE m = n -> client
                  [] m = pooled /\ m # n -> [clients[m] EXCEPT !.left = TRUE]
                  [] OTHER -> clients[m]]
        /\ UNCHANGED <<poolLock, poolCalls, callsMade, serverEnds>>
  BY DEF StopEnds
<1>2. PICK client \in Ended(clients[n]) :
            clients' = [m \in ClientIds |->
                CASE m = n -> client
                  [] m = pooled /\ m # n -> [clients[m] EXCEPT !.left = TRUE]
                  [] OTHER -> clients[m]]
  BY <1>1
<1>3. clients \in [ClientIds -> ClientType]
  BY DEF PoolInv
<1>4. client \in ClientType /\ (client.process = "live" => client.left)
  BY <1>2, <1>3, EndedIsOver
<1>5. ASSUME NEW m \in ClientIds
      PROVE  /\ clients'[m] \in ClientType
             /\ m # n /\ m # pooled => clients'[m] = clients[m]
             /\ m = n \/ m = pooled => (clients'[m].process = "live" => clients'[m].left)
  <2>1. CASE m = n
    BY <2>1, <1>2, <1>4
  <2>2. CASE m = pooled /\ m # n
    BY <2>2, <1>2, <1>3, ClientTypes
  <2>3. CASE m # n /\ m # pooled
    BY <2>3, <1>2, <1>3
  <2> QED BY <2>1, <2>2, <2>3
<1>6. clients' \in [ClientIds -> ClientType]
  <2>1. clients' = [m \in ClientIds |-> clients'[m]]
    BY <1>2
  <2> QED BY <2>1, <1>5
<1>7. \A c \in PoolCallers : CallOK(c, poolCalls'[c], poolLock', pooled')
  BY <1>1 DEF PoolInv, CallOK
<1>8. ChildrenAreHeld'
  BY <1>1, <1>5 DEF PoolInv, ChildrenAreHeld
<1> QED BY <1>1, <1>6, <1>7, <1>8 DEF PoolInv

\* Whatever happens to the pool keeps the invariant.
LEMMA PoolStep == PoolInv /\ [PoolNext]_poolVars => PoolInv'
<1> SUFFICES ASSUME PoolInv, [PoolNext]_poolVars PROVE PoolInv'
  OBVIOUS
<1>1. CASE UNCHANGED poolVars
  BY <1>1 DEF poolVars, PoolInv, ChildrenAreHeld
<1>2. ASSUME NEW c \in PoolCallers,
             \/ Calls(c) \/ Enters(c) \/ Dials(c) \/ DialFails(c)
             \/ Reads(c) \/ Waits(c) \/ Drops(c)
      PROVE  PoolInv'
  BY <1>2, PoolCallStep, EntersStep, DialsStep, DialFailsStep, ReadsStep, WaitsStep, DropsStep
<1>3. ASSUME NEW n \in ClientIds, ServerAnswers(n) \/ ServerEnds(n) PROVE PoolInv'
  BY <1>3, ServerStep
<1>4. CASE Stops \/ StopEnds
  BY <1>4, StopsStep, StopEndsStep
<1> QED BY <1>1, <1>2, <1>3, <1>4 DEF PoolNext

\* The numbers of a client's requests: those it has taken and not given yet.
NumbersOK(client) ==
    /\ client.nextId >= 1
    /\ \A id \in client.work : id >= 3 /\ id <= client.nextId
    /\ \A i \in DOMAIN client.lines : client.lines[i].id >= 3 /\ client.lines[i].id <= client.nextId

\* The client that the pool has is through its handshake.
NumbersInv ==
    /\ \A n \in ClientIds : NumbersOK(clients[n])
    /\ pooled # NoClient => clients[pooled].nextId >= 3
    /\ poolLock \in PoolCallers \cup {Nobody} /\ poolStop \in ClientIds \cup {Open, Closed}

\* A client that is new, started, or ended has no requests.
LEMMA NoNumbers ==
  /\ NumbersOK(Unused) /\ NumbersOK([Unused EXCEPT !.process = "over"])
  /\ NumbersOK([Unused EXCEPT !.process = "live", !.left = TRUE])
  /\ NumbersOK(Connected) /\ Connected.nextId = 3
BY DEF NumbersOK, Unused, Connected

\* Lines have numbers.
LEMMA LinesHaveNumbers ==
  ASSUME NEW lines \in Seq([id : Nat, json : BOOLEAN]), NEW i \in DOMAIN lines
  PROVE  lines[i].id \in Nat
<1>1. lines[i] \in [id : Nat, json : BOOLEAN]
  <2> DEFINE S == [id : Nat, json : BOOLEAN]
  <2> HIDE DEF S
  <2>1. lines \in Seq(S)
    BY DEF S
  <2>2. lines[i] \in S
    BY <2>1
  <2> QED BY <2>2 DEF S
<1> QED BY <1>1

\* What a client does keeps its numbers.
LEMMA NumbersMove ==
  ASSUME NEW client \in ClientType, NumbersOK(client)
  PROVE  /\ client.nextId >= 3 => NumbersOK(RequestSent(client)) /\ RequestSent(client).nextId >= 3
         /\ NumbersOK([client EXCEPT !.left = TRUE])
         /\ NumbersOK([client EXCEPT !.process = "over", !.work = {}])
         /\ [client EXCEPT !.process = "over", !.work = {}].nextId = client.nextId
         /\ client.lines # <<>> =>
              /\ NumbersOK([client EXCEPT !.lines = Tail(client.lines)])
              /\ [client EXCEPT !.lines = Tail(client.lines)].nextId = client.nextId
         /\ \A id \in client.work, json \in BOOLEAN :
              /\ NumbersOK([client EXCEPT !.work = client.work \ {id},
                                          !.lines = Append(client.lines, [id |-> id, json |-> json])])
              /\ [client EXCEPT !.work = client.work \ {id},
                                !.lines = Append(client.lines, [id |-> id, json |-> json])].nextId = client.nextId
<1>1. /\ client.nextId \in Nat /\ client.work \in SUBSET Nat
      /\ client.lines \in Seq([id : Nat, json : BOOLEAN])
      /\ client = [process |-> client.process, left |-> client.left, nextId |-> client.nextId,
                   work |-> client.work, lines |-> client.lines]
  BY DEF ClientType
<1>2. client.nextId >= 3 => NumbersOK(RequestSent(client)) /\ RequestSent(client).nextId >= 3
  <2> SUFFICES ASSUME client.nextId >= 3 PROVE NumbersOK(RequestSent(client)) /\ RequestSent(client).nextId >= 3
    OBVIOUS
  <2> DEFINE c == RequestSent(client)
  <2>1. c.nextId = client.nextId + 1 /\ c.work = client.work \cup {client.nextId} /\ c.lines = client.lines
    BY <1>1 DEF RequestSent
  <2> HIDE DEF c
  <2>2. \A i \in DOMAIN client.lines : client.lines[i].id \in Nat
    BY <1>1, LinesHaveNumbers
  <2>3. NumbersOK(c)
    <3> DEFINE w == client.work  l == client.lines  k == client.nextId
    <3>1. k \in Nat /\ w \in SUBSET Nat /\ (\A i \in DOMAIN l : l[i].id \in Nat) /\ k >= 3
          /\ (\A id \in w : id >= 3 /\ id <= k)
          /\ (\A i \in DOMAIN l : l[i].id >= 3 /\ l[i].id <= k)
      BY <1>1, <2>2 DEF NumbersOK
    <3> HIDE DEF w, l, k
    <3>2. /\ k + 1 >= 1
          /\ \A id \in w \cup {k} : id >= 3 /\ id <= k + 1
          /\ \A i \in DOMAIN l : l[i].id >= 3 /\ l[i].id <= k + 1
      BY <3>1
    <3> QED BY <2>1, <3>2 DEF NumbersOK, w, l, k
  <2> QED BY <1>1, <2>1, <2>3 DEF c
<1>3. NumbersOK([client EXCEPT !.left = TRUE])
  BY <1>1 DEF NumbersOK
<1>4. NumbersOK([client EXCEPT !.process = "over", !.work = {}])
      /\ [client EXCEPT !.process = "over", !.work = {}].nextId = client.nextId
  BY <1>1 DEF NumbersOK
<1>5. ASSUME client.lines # <<>>
      PROVE  /\ NumbersOK([client EXCEPT !.lines = Tail(client.lines)])
             /\ [client EXCEPT !.lines = Tail(client.lines)].nextId = client.nextId
  <2> DEFINE l == client.lines
             rest == Tail(l)
  <2>1. \A i \in DOMAIN rest : i + 1 \in DOMAIN l /\ rest[i] = l[i + 1]
    <3>1. l \in Seq([id : Nat, json : BOOLEAN]) /\ l # <<>>
      BY <1>1, <1>5
    <3> HIDE DEF l
    <3> QED BY <3>1
  <2> HIDE DEF rest
  <2> DEFINE new == [client EXCEPT !.lines = rest]
  <2>2. new.nextId = client.nextId /\ new.work = client.work /\ new.lines = rest
    BY <1>1
  <2> HIDE DEF new
  <2>3. NumbersOK(new)
    BY <2>1, <2>2 DEF NumbersOK
  <2> QED BY <2>2, <2>3 DEF new, rest
<1>6. ASSUME NEW id \in client.work, NEW json \in BOOLEAN
      PROVE  /\ NumbersOK([client EXCEPT !.work = client.work \ {id},
                                          !.lines = Append(client.lines, [id |-> id, json |-> json])])
             /\ [client EXCEPT !.work = client.work \ {id},
                               !.lines = Append(client.lines, [id |-> id, json |-> json])].nextId = client.nextId
  <2> DEFINE l == client.lines
             line == [id |-> id, json |-> json]
             more == Append(l, line)
             w == client.work \ {id}
  <2>1. line \in [id : Nat, json : BOOLEAN] /\ line.id = id
    BY <1>1
  <2> HIDE DEF line
  <2>2. \A i \in DOMAIN more : more[i] = line \/ (i \in DOMAIN l /\ more[i] = l[i])
    <3>1. l \in Seq([id : Nat, json : BOOLEAN])
      BY <1>1
    <3> HIDE DEF l
    <3> QED BY <2>1, <3>1
  <2> HIDE DEF more, w
  <2> DEFINE new == [client EXCEPT !.work = w, !.lines = more]
  <2>3. new.nextId = client.nextId /\ new.work = w /\ new.lines = more
    BY <1>1
  <2> HIDE DEF new
  <2>4. NumbersOK(new)
    BY <2>1, <2>2, <2>3 DEF NumbersOK, w
  <2> QED BY <2>3, <2>4 DEF new, more, line, w
<1> QED BY <1>2, <1>3, <1>4, <1>5, <1>6

\* The pool is new.
LEMMA NumbersBegin == PoolInit => NumbersInv
BY NoNumbers DEF PoolInit, NumbersInv

\* What the invariant is for.
LEMMA NumbersAreTypes == PoolInv /\ NumbersInv => PoolTypeOK
<1> SUFFICES ASSUME PoolInv, NumbersInv PROVE PoolTypeOK
  OBVIOUS
<1>1. ASSUME NEW n \in ClientIds
      PROVE  /\ clients[n].process \in {"none", "live", "over"} /\ clients[n].left \in BOOLEAN
             /\ clients[n].nextId \in Nat \ {0}
             /\ \A id \in clients[n].work : id \in 3..clients[n].nextId
             /\ \A i \in DOMAIN clients[n].lines : clients[n].lines[i].id \in 3..clients[n].nextId
  <2>1. clients[n] \in ClientType /\ NumbersOK(clients[n])
    BY DEF PoolInv, NumbersInv
  <2> DEFINE client == clients[n]
  <2>2. client \in ClientType /\ NumbersOK(client)
    BY <2>1
  <2> HIDE DEF client
  <2>3. client.nextId \in Nat /\ client.work \in SUBSET Nat /\ client.lines \in Seq([id : Nat, json : BOOLEAN])
        /\ client.process \in {"none", "live", "over"} /\ client.left \in BOOLEAN
    BY <2>2 DEF ClientType
  <2>4. \A i \in DOMAIN client.lines : client.lines[i].id \in Nat
    BY <2>3, LinesHaveNumbers
  <2>5. /\ client.nextId \in Nat \ {0}
        /\ \A id \in client.work : id \in 3..client.nextId
        /\ \A i \in DOMAIN client.lines : client.lines[i].id \in 3..client.nextId
    BY <2>2, <2>3, <2>4 DEF NumbersOK
  <2> QED BY <2>3, <2>5 DEF client
<1> QED BY <1>1 DEF PoolInv, NumbersInv, PoolTypeOK

\* Whatever happens to the pool keeps the numbers.
LEMMA NumbersStep == PoolInv /\ NumbersInv /\ [PoolNext]_poolVars => NumbersInv'
<1> SUFFICES ASSUME PoolInv, NumbersInv, [PoolNext]_poolVars PROVE NumbersInv'
  OBVIOUS
<1>0. /\ clients \in [ClientIds -> ClientType] /\ pooled \in ClientIds \cup {NoClient}
      /\ poolCalls \in [PoolCallers -> CallType]
      /\ \A n \in ClientIds : clients[n] \in ClientType /\ NumbersOK(clients[n])
  BY DEF PoolInv, NumbersInv
\* One client becomes another, and the pool has none or one that is asked.
<1>a. ASSUME NEW n \in ClientIds, NEW client, clients' = [clients EXCEPT ![n] = client], NumbersOK(client),
             pooled' # NoClient => pooled' = pooled \/ pooled' = n,
             pooled' = n => client.nextId >= 3 \/ pooled' = NoClient,
             poolLock' \in PoolCallers \cup {Nobody}, poolStop' \in ClientIds \cup {Open, Closed}
      PROVE  NumbersInv'
  <2>1. \A m \in ClientIds : NumbersOK(clients'[m])
    BY <1>0, <1>a
  <2>2. pooled' # NoClient => clients'[pooled'].nextId >= 3
    BY <1>0, <1>a DEF NumbersInv
  <2> QED BY <1>a, <2>1, <2>2 DEF NumbersInv
<1>b. ASSUME clients' = clients, pooled' \in {pooled, NoClient},
             poolLock' \in PoolCallers \cup {Nobody}, poolStop' \in ClientIds \cup {Open, Closed}
      PROVE  NumbersInv'
  BY <1>b DEF NumbersInv
<1>l. poolLock \in PoolCallers \cup {Nobody} /\ poolStop \in ClientIds \cup {Open, Closed}
  BY DEF NumbersInv
<1>1. CASE UNCHANGED poolVars
  BY <1>1, <1>b, <1>l DEF poolVars
<1>2. ASSUME NEW c \in PoolCallers, Calls(c) PROVE NumbersInv'
  BY <1>2, <1>b, <1>l DEF Calls
<1>3. ASSUME NEW c \in PoolCallers, Enters(c) PROVE NumbersInv'
  <2>1. CASE pooled = NoClient
    BY <1>3, <2>1, <1>b, <1>l DEF Enters
  <2>2. CASE pooled # NoClient
    <3> DEFINE client == RequestSent(clients[pooled])
    <3>1. pooled \in ClientIds /\ clients[pooled].nextId >= 3
      BY <2>2, <1>0 DEF NumbersInv
    <3>2. NumbersOK(client) /\ client.nextId >= 3
      BY <3>1, <1>0, NumbersMove
    <3>3. clients' = [clients EXCEPT ![pooled] = client] /\ pooled' = pooled /\ poolLock' = c /\ poolStop' = poolStop
      BY <1>3, <2>2 DEF Enters
    <3> HIDE DEF client
    <3> QED BY <3>1, <3>2, <3>3, <1>a, <1>l
  <2> QED BY <2>1, <2>2
<1>4. ASSUME NEW c \in PoolCallers, Dials(c) PROVE NumbersInv'
  <2>1. PICK n \in Fresh : clients' = [clients EXCEPT ![n] = RequestSent(Connected)] /\ pooled' = n
    BY <1>4 DEF Dials
  <2>2. n \in ClientIds /\ UNCHANGED <<poolLock, poolStop>>
    BY <1>4 DEF Fresh, Dials
  <2> DEFINE client == RequestSent(Connected)
  <2>3. NumbersOK(client) /\ client.nextId >= 3
    <3>1. Connected \in ClientType /\ NumbersOK(Connected) /\ Connected.nextId >= 3
      BY NoNumbers, ClientTypes
    <3> HIDE DEF client
    <3> QED BY <3>1, NumbersMove DEF client
  <2>4. clients' = [clients EXCEPT ![n] = client]
    BY <2>1
  <2> HIDE DEF client
  <2> QED BY <2>1, <2>2, <2>3, <2>4, <1>a, <1>l
<1>5. ASSUME NEW c \in PoolCallers, DialFails(c) PROVE NumbersInv'
  <2>1. pooled' = pooled /\ pooled = NoClient /\ poolLock' = Nobody /\ poolStop' = poolStop
    BY <1>5 DEF DialFails, Returns, PoolInv, CallOK
  <2>2. CASE clients' = clients
    BY <2>1, <2>2, <1>b, <1>l
  <2>3. CASE \E n \in Fresh : clients' = [clients EXCEPT ![n] = [Unused EXCEPT !.process = "live", !.left = TRUE]]
    <3> DEFINE client == [Unused EXCEPT !.process = "live", !.left = TRUE]
    <3>1. PICK n \in Fresh : clients' = [clients EXCEPT ![n] = client]
      BY <2>3
    <3>2. NumbersOK(client) /\ n \in ClientIds
      BY NoNumbers DEF Fresh
    <3> HIDE DEF client
    <3> QED BY <2>1, <3>1, <3>2, <1>a, <1>l
  <2> QED BY <1>5, <2>2, <2>3 DEF DialFails
<1>6. ASSUME NEW c \in PoolCallers, Reads(c) PROVE NumbersInv'
  <2> DEFINE n == poolCalls[c].on
             client == [clients[n] EXCEPT !.lines = Tail(clients[n].lines)]
  <2>1. poolCalls[c].step = "asks" /\ clients[n].lines # <<>> /\ poolStop' = poolStop /\ n \in ClientIds
    BY <1>6 DEF Reads, PoolInv, CallOK
  <2>2. clients' = [clients EXCEPT ![n] = client]
    BY <1>6, <1>0 DEF Reads
  <2>3. NumbersOK(client) /\ client.nextId = clients[n].nextId
    BY <2>1, <1>0, NumbersMove
  <2>4. pooled' \in {pooled, NoClient} /\ poolLock' \in {poolLock, Nobody}
    BY <1>6 DEF Reads, Fails, Returns
  <2> HIDE DEF client, n
  <2>5. pooled = n /\ pooled # NoClient => client.nextId >= 3
    BY <2>3 DEF NumbersInv
  <2> QED BY <2>1, <2>2, <2>3, <2>4, <2>5, <1>a, <1>l
<1>7. ASSUME NEW c \in PoolCallers, Waits(c) PROVE NumbersInv'
  BY <1>7, <1>b, <1>l DEF Waits, Fails, Returns
<1>8. ASSUME NEW c \in PoolCallers, Drops(c) PROVE NumbersInv'
  <2> DEFINE n == poolCalls[c].on
  <2>1. n \in ClientIds /\ pooled = NoClient /\ UNCHANGED <<pooled, poolLock, poolStop>>
    BY <1>8 DEF Drops, PoolInv, CallOK
  <2>2. PICK client \in Ended(clients[n]) : clients' = [clients EXCEPT ![n] = client]
    BY <1>8 DEF Drops
  <2>3. NumbersOK(client)
    BY <2>1, <2>2, <1>0, NoNumbers DEF Ended
  <2> HIDE DEF n
  <2> QED BY <2>1, <2>2, <2>3, <1>a, <1>l
<1>9. ASSUME NEW n \in ClientIds, ServerAnswers(n) PROVE NumbersInv'
  <2>1. PICK id \in clients[n].work, json \in BOOLEAN :
          clients' = [clients EXCEPT ![n].work = clients[n].work \ {id},
                                     ![n].lines = Append(clients[n].lines, [id |-> id, json |-> json])]
    BY <1>9, <1>0 DEF ServerAnswers
  <2> DEFINE client == [clients[n] EXCEPT !.work = clients[n].work \ {id},
                                          !.lines = Append(clients[n].lines, [id |-> id, json |-> json])]
  <2>2. clients' = [clients EXCEPT ![n] = client]
    BY <2>1, <1>0
  <2>3. NumbersOK(client) /\ client.nextId = clients[n].nextId
    BY <1>0, NumbersMove
  <2>4. UNCHANGED <<pooled, poolLock, poolStop>>
    BY <1>9 DEF ServerAnswers
  <2> HIDE DEF client
  <2>5. pooled = n /\ pooled # NoClient => client.nextId >= 3
    BY <2>3 DEF NumbersInv
  <2> QED BY <2>2, <2>3, <2>4, <2>5, <1>a, <1>l
<1>10. ASSUME NEW n \in ClientIds, ServerEnds(n) PROVE NumbersInv'
  <2> DEFINE client == [clients[n] EXCEPT !.process = "over", !.work = {}]
  <2>1. clients' = [clients EXCEPT ![n] = client]
    BY <1>10, <1>0 DEF ServerEnds
  <2>2. NumbersOK(client) /\ client.nextId = clients[n].nextId
    BY <1>0, NumbersMove
  <2>3. UNCHANGED <<pooled, poolLock, poolStop>>
    BY <1>10 DEF ServerEnds
  <2> HIDE DEF client
  <2>4. pooled = n /\ pooled # NoClient => client.nextId >= 3
    BY <2>2 DEF NumbersInv
  <2> QED BY <2>1, <2>2, <2>3, <2>4, <1>a, <1>l
<1>11. CASE Stops
  BY <1>11, <1>b, <1>l, <1>0 DEF Stops
<1>12. CASE StopEnds
  <2>1. PICK n \in ClientIds :
          /\ poolStop' = Closed /\ pooled' = NoClient
          /\ \E client \in Ended(clients[n]) :
              clients' = [m \in ClientIds |->
                  CASE m = n -> client
                    [] m = pooled /\ m # n -> [clients[m] EXCEPT !.left = TRUE]
                    [] OTHER -> clients[m]]
          /\ UNCHANGED <<poolLock, poolCalls, callsMade, serverEnds>>
    BY <1>12 DEF StopEnds
  <2>2. PICK client \in Ended(clients[n]) :
              clients' = [m \in ClientIds |->
                  CASE m = n -> client
                    [] m = pooled /\ m # n -> [clients[m] EXCEPT !.left = TRUE]
                    [] OTHER -> clients[m]]
    BY <2>1
  <2>3. NumbersOK(client)
    BY <2>2, <1>0, NoNumbers DEF Ended
  <2>4. \A m \in ClientIds : NumbersOK([clients[m] EXCEPT !.left = TRUE])
    BY <1>0, NumbersMove
  <2>5. \A m \in ClientIds : clients'[m] = client \/ clients'[m] = [clients[m] EXCEPT !.left = TRUE] \/ clients'[m] = clients[m]
    BY <2>2
  <2>6. \A m \in ClientIds : NumbersOK(clients'[m])
    <3> TAKE m \in ClientIds
    <3> QED BY <2>3, <2>4, <2>5, <1>0
  <2> QED BY <2>1, <2>6, <1>l DEF NumbersInv
<1> QED BY <1>1, <1>2, <1>3, <1>4, <1>5, <1>6, <1>7, <1>8, <1>9, <1>10, <1>11, <1>12 DEF PoolNext

-----------------------------------------------------------------------------
(* McpServers: The registry of MCP servers                                  *)

Clients == 1..Len(started)

ServersTypes ==
    /\ started \in Seq(SUBSET ServerTools) /\ Len(started) <= MaxStarts
    /\ ended \subseteq Clients
    /\ heldClient \in [ServerNames -> Clients \cup {NotHeld}]
    /\ heldTools \in [ServerNames -> SUBSET ServerTools]
    /\ wrappers \in [ServerNames -> [ServerTools -> Clients \cup {NotHeld}]]
    /\ serverFile \subseteq ServerNames /\ loading \subseteq ServerNames /\ unwritten \subseteq ServerNames

\* A name's client is its own, is not ended, and listed the tools registered for it.
HeldIsOwn ==
    \A s \in Held :
        /\ heldClient[s] \notin ended /\ heldTools[s] = started[heldClient[s]]
        /\ \A t \in heldTools[s] : wrappers[s][t] = heldClient[s]

\* A tool is bound to a client that listed it, and to none that another name has: who
\* ends a client takes all the tools that are bound to it.
BoundIsListed ==
    \A s \in ServerNames, t \in ServerTools : wrappers[s][t] # NotHeld =>
        /\ wrappers[s][t] \notin ended /\ t \in started[wrappers[s][t]]
        /\ \A r \in ServerNames : heldClient[r] = wrappers[s][t] => r = s

NamesDiffer ==
    \A r, s \in Held : heldClient[r] = heldClient[s] => r = s

FileFollows ==
    faulted = 0 =>
        /\ loading = {} /\ Held \subseteq serverFile
        /\ \A s \in serverFile \ (Held \cup unwritten) : \E o \in Operators :
            operations[o].op = "removes" /\ operations[o].name = s

ServersInv ==
    /\ ServersTypes /\ operations \in [Operators -> [op : {"none", "adds", "removes"}, name : ServerNames \cup {"none"}, client : Nat]]
    /\ \A o \in Operators : operations[o].op \in {"adds", "removes"} => operations[o].name \in ServerNames
    /\ HeldIsOwn /\ BoundIsListed /\ NamesDiffer /\ faulted \in Nat /\ FileFollows

\* No server yet.
LEMMA ServersBegin == ServersInit => ServersInv
<1> SUFFICES ASSUME ServersInit PROVE ServersInv
  OBVIOUS
<1>1. started = <<>> /\ Len(started) = 0 /\ started \in Seq(SUBSET ServerTools) /\ MaxStarts \in Nat
  BY ServersAssumption DEF ServersInit
<1>2. ServersTypes
  BY <1>1 DEF ServersInit, ServersTypes, Clients, NotHeld
<1>3. Held = {}
  BY DEF ServersInit, Held
<1>4. operations \in [Operators -> [op : {"none", "adds", "removes"}, name : ServerNames \cup {"none"}, client : Nat]]
  BY DEF ServersInit, NoOperation, NotHeld
<1>5. \A o \in Operators : operations[o].op \notin {"adds", "removes"}
  BY DEF ServersInit, NoOperation
<1> QED BY <1>2, <1>3, <1>4, <1>5 DEF ServersInit, ServersInv, HeldIsOwn, BoundIsListed, NamesDiffer, FileFollows

\* What the invariant is for.
LEMMA ServersInvIsEnough == ServersInv => ServersTypeOK /\ ToolsHaveClients
<1> SUFFICES ASSUME ServersInv PROVE ServersTypeOK /\ ToolsHaveClients
  OBVIOUS
<1>0. Len(started) \in Nat /\ MaxStarts \in Nat /\ Len(started) <= MaxStarts
  BY ServersAssumption DEF ServersInv, ServersTypes
<1>1. Clients \subseteq Starts
  BY <1>0 DEF Clients, Starts
<1>2. ServersTypeOK
  BY <1>1 DEF ServersInv, ServersTypes, ServersTypeOK
<1>3. NotHeld \notin ended
  BY <1>0 DEF ServersInv, ServersTypes, Clients, NotHeld
<1>4. ToolsHaveClients
  BY <1>3 DEF ToolsHaveClients, ServersInv, HeldIsOwn, BoundIsListed, FileFollows, Held
<1> QED BY <1>2, <1>4

\* A client that has just been connected is nobody else's.
LEMMA TakesKeeps ==
  ASSUME ServersInv, NEW name \in ServerNames, NEW listed \in SUBSET ServerTools,
         Len(started) < MaxStarts, Takes(name, listed), UNCHANGED ended,
         serverFile' \subseteq ServerNames, loading' \subseteq ServerNames, unwritten' \subseteq ServerNames
  PROVE  /\ ServersTypes' /\ HeldIsOwn' /\ BoundIsListed' /\ NamesDiffer'
<1> DEFINE client == Len(started) + 1
<1>0. MaxStarts \in Nat /\ ServersTypes /\ HeldIsOwn /\ BoundIsListed /\ NamesDiffer
  BY ServersAssumption DEF ServersInv
<1>1. Len(started) \in Nat /\ client \in Nat /\ client \notin Clients /\ client # NotHeld /\ NotHeld \notin Clients
  BY <1>0 DEF ServersTypes, Clients, NotHeld
<1>2. /\ started' \in Seq(SUBSET ServerTools) /\ Len(started') = client
      /\ started'[client] = listed /\ \A c \in Clients : started'[c] = started[c]
  BY <1>0, <1>1 DEF Takes, ServersTypes, Clients
<1>3. Clients' = Clients \cup {client}
  BY <1>1, <1>2 DEF Clients
<1> HIDE DEF client
<1>4. /\ heldClient' = [heldClient EXCEPT ![name] = client]
      /\ heldTools' = [heldTools EXCEPT ![name] = listed]
      /\ wrappers' = [wrappers EXCEPT ![name] =
                [t \in ServerTools |-> IF t \in listed THEN client ELSE @[t]]]
  BY DEF Takes, client
<1>5. ServersTypes'
  <2>1. Len(started') <= MaxStarts
    BY <1>0, <1>1, <1>2 DEF client
  <2>2. heldClient' \in [ServerNames -> Clients' \cup {NotHeld}]
    BY <1>0, <1>3, <1>4 DEF ServersTypes
  <2>3. wrappers' \in [ServerNames -> [ServerTools -> Clients' \cup {NotHeld}]]
    BY <1>0, <1>3, <1>4 DEF ServersTypes
  <2>4. heldTools' \in [ServerNames -> SUBSET ServerTools]
    BY <1>0, <1>4 DEF ServersTypes
  <2> QED BY <1>0, <1>2, <1>3, <2>1, <2>2, <2>3, <2>4 DEF ServersTypes
<1>6. \A s \in ServerNames : heldClient[s] \in Clients \cup {NotHeld}
      /\ \A t \in ServerTools : wrappers[s][t] \in Clients \cup {NotHeld}
  BY <1>0 DEF ServersTypes
<1>7. client \notin ended
  BY <1>0, <1>1 DEF ServersTypes
<1>8. HeldIsOwn'
  <2> SUFFICES ASSUME NEW s \in Held' PROVE
        /\ heldClient'[s] \notin ended' /\ heldTools'[s] = started'[heldClient'[s]]
        /\ \A t \in heldTools'[s] : wrappers'[s][t] = heldClient'[s]
    BY DEF HeldIsOwn
  <2>0. s \in ServerNames
    BY DEF Held
  <2>1. CASE s = name
    BY <1>0, <1>2, <1>4, <1>7, <2>0, <2>1 DEF ServersTypes
  <2>2. CASE s # name
    <3>1. heldClient'[s] = heldClient[s] /\ heldTools'[s] = heldTools[s] /\ wrappers'[s] = wrappers[s] /\ s \in Held
      BY <1>0, <1>4, <2>0, <2>2 DEF ServersTypes, Held
    <3>2. heldClient[s] \in Clients
      BY <1>6, <2>0, <3>1 DEF Held
    <3> QED BY <1>0, <1>2, <3>1, <3>2 DEF HeldIsOwn
  <2> QED BY <2>1, <2>2
<1>9. BoundIsListed'
  <2> SUFFICES ASSUME NEW s \in ServerNames, NEW t \in ServerTools, wrappers'[s][t] # NotHeld
               PROVE  /\ wrappers'[s][t] \notin ended' /\ t \in started'[wrappers'[s][t]]
                      /\ \A r \in ServerNames : heldClient'[r] = wrappers'[s][t] => r = s
    BY DEF BoundIsListed
  <2>1. CASE s = name /\ t \in listed
    <3>1. wrappers'[s][t] = client
      BY <1>0, <1>4, <2>1 DEF ServersTypes
    <3>2. \A r \in ServerNames : r # name => heldClient'[r] # client
      BY <1>0, <1>1, <1>4, <1>6 DEF ServersTypes
    <3> QED BY <1>2, <1>7, <2>1, <3>1, <3>2
  <2>2. CASE ~(s = name /\ t \in listed)
    <3>1. wrappers'[s][t] = wrappers[s][t]
      BY <1>0, <1>4, <2>2 DEF ServersTypes
    <3>2. wrappers[s][t] \in Clients /\ wrappers[s][t] # client
      BY <1>1, <1>6, <3>1
    <3>3. \A r \in ServerNames : heldClient'[r] = wrappers[s][t] => heldClient[r] = wrappers[s][t]
      BY <1>0, <1>4, <3>2 DEF ServersTypes
    <3> QED BY <1>0, <1>2, <3>1, <3>2, <3>3 DEF BoundIsListed
  <2> QED BY <2>1, <2>2
<1>10. NamesDiffer'
  <2> SUFFICES ASSUME NEW r \in Held', NEW s \in Held', heldClient'[r] = heldClient'[s] PROVE r = s
    BY DEF NamesDiffer
  <2>0. r \in ServerNames /\ s \in ServerNames
    BY DEF Held
  <2>1. \A u \in ServerNames : u # name => heldClient'[u] = heldClient[u] /\ heldClient'[u] # client
    BY <1>0, <1>1, <1>4, <1>6 DEF ServersTypes
  <2>2. heldClient'[name] = client
    BY <1>0, <1>4 DEF ServersTypes
  <2> QED BY <1>0, <2>0, <2>1, <2>2 DEF NamesDiffer, Held
<1> QED BY <1>5, <1>8, <1>9, <1>10

\* When the file is written it is written anew, or it is a fault.
LEMMA SavesFollow ==
  ASSUME ServersInv, Saves, loading' = loading PROVE  /\ faulted' \in Nat /\ FileFollows'
         /\ serverFile' \subseteq ServerNames /\ unwritten' \subseteq ServerNames
<1>1. CASE serverFile' = {s \in ServerNames : heldClient'[s] # NotHeld} /\ unwritten' = {} /\ UNCHANGED faulted
  BY <1>1 DEF ServersInv, ServersTypes, FileFollows, Held
<1>2. CASE faulted' = faulted + 1 /\ unwritten' = unwritten /\ serverFile' \in {serverFile, {}}
  BY <1>2 DEF ServersInv, ServersTypes, FileFollows
<1> QED BY <1>1, <1>2 DEF Saves

\* Whatever an operation does keeps the invariant.
LEMMA ServersStep == ServersInv /\ [ServersNext]_serversVars => ServersInv'
<1> SUFFICES ASSUME ServersInv, [ServersNext]_serversVars PROVE ServersInv'
  OBVIOUS
<1> DEFINE Ops == [op : {"none", "adds", "removes"}, name : ServerNames \cup {"none"}, client : Nat]
<1>0. /\ ServersTypes /\ HeldIsOwn /\ BoundIsListed /\ NamesDiffer /\ faulted \in Nat /\ FileFollows
      /\ operations \in [Operators -> Ops]
      /\ \A o \in Operators : operations[o].op \in {"adds", "removes"} => operations[o].name \in ServerNames
  BY DEF ServersInv
<1>n. NoOperation \in Ops /\ NoOperation.op = "none"
  BY DEF NoOperation, NotHeld
<1>1. ASSUME NEW o \in Operators, Adds(o) PROVE ServersInv'
  <2>1. /\ operations[o] = NoOperation
        /\ UNCHANGED <<started, ended, heldClient, heldTools, wrappers, serverFile, loading, unwritten, faulted>>
    BY <1>1 DEF Adds
  <2>2. PICK name \in ServerNames :
            operations' = [operations EXCEPT ![o] = [op |-> "adds", name |-> name, client |-> NotHeld]]
    BY <1>1 DEF Adds
  <2>3. operations' \in [Operators -> Ops] /\ \A p \in Operators : operations'[p].op \in {"adds", "removes"} => operations'[p].name \in ServerNames
    BY <1>0, <2>2 DEF NotHeld
  <2>4. ServersTypes' /\ HeldIsOwn' /\ BoundIsListed' /\ NamesDiffer'
    BY <1>0, <2>1 DEF ServersTypes, HeldIsOwn, BoundIsListed, NamesDiffer, Held, Clients
  <2>5. FileFollows'
    <3>1. \A p \in Operators : operations[p].op = "removes" => operations'[p] = operations[p]
      BY <1>0, <1>n, <2>1, <2>2
    <3>2. Held' = Held
      BY <2>1 DEF Held
    <3> QED BY <1>0, <2>1, <3>1, <3>2 DEF FileFollows
  <2> QED BY <1>0, <2>1, <2>3, <2>4, <2>5 DEF ServersInv
<1>2. ASSUME NEW o \in Operators, AddEnds(o) PROVE ServersInv'
  <2>1. /\ operations[o].name \in ServerNames /\ Len(started) < MaxStarts
        /\ operations' = [operations EXCEPT ![o] = NoOperation]
        /\ UNCHANGED <<ended, loading>> /\ Saves
    BY <1>0, <1>2 DEF AddEnds
  <2>2. PICK listed \in SUBSET ServerTools : Takes(operations[o].name, listed)
    BY <1>2 DEF AddEnds
  <2>3. faulted' \in Nat /\ FileFollows' /\ serverFile' \subseteq ServerNames /\ unwritten' \subseteq ServerNames
    BY <2>1, SavesFollow
  <2>4. ServersTypes' /\ HeldIsOwn' /\ BoundIsListed' /\ NamesDiffer'
    <3>1. loading' \subseteq ServerNames
      BY <1>0, <2>1 DEF ServersTypes
    <3> QED BY <2>1, <2>2, <2>3, <3>1, TakesKeeps
  <2>5. operations' \in [Operators -> Ops] /\ \A p \in Operators : operations'[p].op \in {"adds", "removes"} => operations'[p].name \in ServerNames
    BY <1>0, <1>n, <2>1
  <2> QED BY <2>3, <2>4, <2>5 DEF ServersInv
<1>3. ASSUME NEW o \in Operators, AddFails(o) PROVE ServersInv'
  <2>1. /\ operations[o].op = "adds" /\ operations' = [operations EXCEPT ![o] = NoOperation]
        /\ UNCHANGED <<started, ended, heldClient, heldTools, wrappers, serverFile, loading, unwritten, faulted>>
    BY <1>3 DEF AddFails
  <2>3. operations' \in [Operators -> Ops] /\ \A p \in Operators : operations'[p].op \in {"adds", "removes"} => operations'[p].name \in ServerNames
    BY <1>0, <1>n, <2>1
  <2>4. ServersTypes' /\ HeldIsOwn' /\ BoundIsListed' /\ NamesDiffer'
    BY <1>0, <2>1 DEF ServersTypes, HeldIsOwn, BoundIsListed, NamesDiffer, Held, Clients
  <2>5. FileFollows'
    <3>1. \A p \in Operators : operations[p].op = "removes" => operations'[p] = operations[p]
      BY <1>0, <2>1
    <3>2. Held' = Held
      BY <2>1 DEF Held
    <3> QED BY <1>0, <2>1, <3>1, <3>2 DEF FileFollows
  <2> QED BY <1>0, <2>1, <2>3, <2>4, <2>5 DEF ServersInv
<1>4. ASSUME NEW o \in Operators, Removes(o) PROVE ServersInv'
  <2>1. operations[o] = NoOperation /\ UNCHANGED <<started, serverFile, loading, unwritten, faulted>>
    BY <1>4 DEF Removes
  <2>2. PICK name \in Held :
        /\ wrappers' = [wrappers EXCEPT ![name] =
                [t \in ServerTools |-> IF t \in heldTools[name] THEN NotHeld ELSE @[t]]]
        /\ heldTools' = [heldTools EXCEPT ![name] = {}]
        /\ heldClient' = [heldClient EXCEPT ![name] = NotHeld]
        /\ ended' = ended \cup {heldClient[name]}
        /\ operations' = [operations EXCEPT ![o] =
                [op |-> "removes", name |-> name, client |-> heldClient[name]]]
    BY <1>4 DEF Removes
  <2>3. name \in ServerNames /\ heldClient[name] \in Clients /\ NotHeld \notin Clients /\ Clients \subseteq Nat /\ Clients' = Clients
    BY <1>0, <2>1 DEF Held, ServersTypes, Clients, NotHeld
  <2>4. Held' = Held \ {name}
    BY <1>0, <2>2, <2>3 DEF Held, ServersTypes
  <2>5. ServersTypes'
    BY <1>0, <2>1, <2>2, <2>3 DEF ServersTypes
  <2>6. operations' \in [Operators -> Ops] /\ \A p \in Operators : operations'[p].op \in {"adds", "removes"} => operations'[p].name \in ServerNames
    BY <1>0, <2>2, <2>3
  <2>7. \A s \in Held' : heldClient'[s] = heldClient[s] /\ heldTools'[s] = heldTools[s] /\ wrappers'[s] = wrappers[s] /\ s \in Held /\ s # name
    BY <1>0, <2>2, <2>4 DEF ServersTypes, Held
  <2>8. HeldIsOwn' /\ NamesDiffer'
    <3>1. \A s \in Held' : heldClient[s] # heldClient[name]
      BY <1>0, <2>7 DEF NamesDiffer
    <3>2. HeldIsOwn'
      <4> SUFFICES ASSUME NEW s \in Held' PROVE
            /\ heldClient'[s] \notin ended' /\ heldTools'[s] = started'[heldClient'[s]]
            /\ \A t \in heldTools'[s] : wrappers'[s][t] = heldClient'[s]
        BY DEF HeldIsOwn
      <4>1. /\ s \in Held /\ heldClient'[s] = heldClient[s] /\ heldTools'[s] = heldTools[s]
            /\ wrappers'[s] = wrappers[s] /\ heldClient[s] # heldClient[name]
        BY <2>7, <3>1
      <4>2. /\ heldClient[s] \notin ended /\ heldTools[s] = started[heldClient[s]]
            /\ \A t \in heldTools[s] : wrappers[s][t] = heldClient[s]
        BY <1>0, <4>1 DEF HeldIsOwn
      <4>3. started' = started /\ ended' = ended \cup {heldClient[name]}
        BY <2>1, <2>2
      <4> QED BY <4>1, <4>2, <4>3
    <3>3. NamesDiffer'
      BY <1>0, <2>7 DEF NamesDiffer
    <3> QED BY <3>2, <3>3
  <2>9. BoundIsListed'
    <3> SUFFICES ASSUME NEW s \in ServerNames, NEW t \in ServerTools, wrappers'[s][t] # NotHeld
                 PROVE  /\ wrappers'[s][t] \notin ended' /\ t \in started'[wrappers'[s][t]]
                        /\ \A r \in ServerNames : heldClient'[r] = wrappers'[s][t] => r = s
      BY DEF BoundIsListed
    <3>1. wrappers'[s][t] = wrappers[s][t] /\ (s = name => t \notin heldTools[name])
      BY <1>0, <2>2, <2>3 DEF ServersTypes
    <3>2. wrappers[s][t] # heldClient[name]
      <4>1. CASE s = name
        BY <1>0, <2>3, <3>1, <4>1 DEF HeldIsOwn, BoundIsListed
      <4>2. CASE s # name
        BY <1>0, <2>3, <3>1, <4>2 DEF BoundIsListed
      <4> QED BY <4>1, <4>2
    <3>3. \A r \in ServerNames : heldClient'[r] = wrappers[s][t] => heldClient[r] = wrappers[s][t]
      BY <1>0, <2>2, <3>1 DEF ServersTypes
    <3> QED BY <1>0, <2>1, <2>2, <3>1, <3>2, <3>3 DEF BoundIsListed
  <2>10. FileFollows'
    <3> SUFFICES ASSUME faulted = 0 PROVE
          /\ loading' = {} /\ Held' \subseteq serverFile'
          /\ \A s \in serverFile' \ (Held' \cup unwritten') : \E p \in Operators :
               operations'[p].op = "removes" /\ operations'[p].name = s
      BY <2>1 DEF FileFollows
    <3>1. operations'[o].op = "removes" /\ operations'[o].name = name
      BY <1>0, <2>2
    <3>2. \A p \in Operators : operations[p].op = "removes" => operations'[p] = operations[p]
      BY <1>0, <1>n, <2>1, <2>2
    <3> QED BY <1>0, <2>1, <2>4, <3>1, <3>2 DEF FileFollows
  <2> QED BY <1>0, <2>1, <2>5, <2>6, <2>8, <2>9, <2>10 DEF ServersInv
<1>5. ASSUME NEW o \in Operators, RemoveEnds(o) PROVE ServersInv'
  <2>1. /\ Saves /\ operations' = [operations EXCEPT ![o] = NoOperation]
        /\ UNCHANGED <<started, ended, heldClient, heldTools, wrappers, loading>>
    BY <1>5 DEF RemoveEnds
  <2>3. faulted' \in Nat /\ FileFollows' /\ serverFile' \subseteq ServerNames /\ unwritten' \subseteq ServerNames
    BY <2>1, SavesFollow
  <2>4. ServersTypes' /\ HeldIsOwn' /\ BoundIsListed' /\ NamesDiffer'
    BY <1>0, <2>1, <2>3 DEF ServersTypes, HeldIsOwn, BoundIsListed, NamesDiffer, Held, Clients
  <2>5. operations' \in [Operators -> Ops] /\ \A p \in Operators : operations'[p].op \in {"adds", "removes"} => operations'[p].name \in ServerNames
    BY <1>0, <1>n, <2>1
  <2> QED BY <2>3, <2>4, <2>5 DEF ServersInv
<1>a. ASSUME NEW o \in Operators, RemoveIsCut(o) PROVE ServersInv'
  <2>1. /\ operations[o].op = "removes" /\ unwritten' = unwritten \cup {operations[o].name}
        /\ operations' = [operations EXCEPT ![o] = NoOperation]
        /\ UNCHANGED <<started, ended, heldClient, heldTools, wrappers, serverFile, loading, faulted>>
    BY <1>a DEF RemoveIsCut
  <2>2. operations[o].name \in ServerNames
    BY <1>0, <2>1
  <2>3. operations' \in [Operators -> Ops] /\ \A p \in Operators : operations'[p].op \in {"adds", "removes"} => operations'[p].name \in ServerNames
    BY <1>0, <1>n, <2>1
  <2>4. ServersTypes' /\ HeldIsOwn' /\ BoundIsListed' /\ NamesDiffer'
    BY <1>0, <2>1, <2>2 DEF ServersTypes, HeldIsOwn, BoundIsListed, NamesDiffer, Held, Clients
  <2>5. FileFollows'
    <3>1. \A p \in Operators : p # o => operations'[p] = operations[p]
      BY <1>0, <2>1
    <3>2. Held' = Held
      BY <2>1 DEF Held
    <3> QED BY <1>0, <2>1, <3>1, <3>2 DEF FileFollows
  <2> QED BY <1>0, <2>1, <2>3, <2>4, <2>5 DEF ServersInv
<1>6. CASE Restarts
  <2>1. /\ ended' = DOMAIN started /\ loading' = serverFile /\ UNCHANGED <<started, serverFile, unwritten>>
        /\ faulted' = faulted + 1
        /\ heldClient' = [s \in ServerNames |-> NotHeld]
        /\ heldTools' = [s \in ServerNames |-> {}]
        /\ wrappers' = [s \in ServerNames |-> [t \in ServerTools |-> NotHeld]]
        /\ operations' = [o \in Operators |-> NoOperation]
    BY <1>6 DEF Restarts
  <2>2. ServersTypes'
    BY <1>0, <2>1 DEF ServersTypes, Clients
  <2>3. Held' = {} /\ FileFollows' /\ faulted' \in Nat
    BY <1>0, <2>1 DEF Held, FileFollows
  <2>4. HeldIsOwn' /\ BoundIsListed' /\ NamesDiffer'
    BY <2>1, <2>3 DEF HeldIsOwn, BoundIsListed, NamesDiffer
  <2>5. operations' \in [Operators -> Ops] /\ \A p \in Operators : operations'[p].op \in {"adds", "removes"} => operations'[p].name \in ServerNames
    BY <1>n, <2>1
  <2> QED BY <2>2, <2>3, <2>4, <2>5 DEF ServersInv
<1>7. CASE Loads
  <2>1. PICK name \in loading :
        /\ loading' = loading \ {name}
        /\ \/ UNCHANGED <<started, heldClient, heldTools, wrappers>>
           \/ /\ Len(started) < MaxStarts
              /\ \E listed \in SUBSET ServerTools : Takes(name, listed)
        /\ UNCHANGED <<ended, serverFile, unwritten, operations, operated, faulted>>
    BY <1>7 DEF Loads
  <2>2. name \in ServerNames /\ loading' \subseteq ServerNames /\ serverFile' \subseteq ServerNames /\ unwritten' \subseteq ServerNames
    BY <1>0, <2>1 DEF ServersTypes
  <2>3. faulted # 0 /\ FileFollows'
    BY <1>0, <2>1 DEF FileFollows
  <2>4. ServersTypes' /\ HeldIsOwn' /\ BoundIsListed' /\ NamesDiffer'
    <3>1. CASE UNCHANGED <<started, heldClient, heldTools, wrappers>>
      BY <1>0, <2>1, <2>2, <3>1 DEF ServersTypes, HeldIsOwn, BoundIsListed, NamesDiffer, Held, Clients
    <3>2. CASE Len(started) < MaxStarts /\ \E listed \in SUBSET ServerTools : Takes(name, listed)
      BY <2>1, <2>2, <3>2, TakesKeeps
    <3> QED BY <2>1, <3>1, <3>2
  <2> QED BY <1>0, <2>1, <2>3, <2>4 DEF ServersInv
<1>8. CASE UNCHANGED serversVars
  BY <1>0, <1>8 DEF serversVars, ServersInv, ServersTypes, HeldIsOwn, BoundIsListed, NamesDiffer, FileFollows, Held, Clients
<1> QED BY <1>1, <1>2, <1>3, <1>4, <1>5, <1>a, <1>6, <1>7, <1>8 DEF ServersNext

-----------------------------------------------------------------------------
(* The whole                                                                *)

(*************************************************************************)
(* Every machine has its invariant in the behaviours that move it, and   *)
(* that is inductive: the others stay where they are.                    *)
(*************************************************************************)
EndsInv == When("requests", HttpInv) /\ When("process", AppInv)
RunsInv == When("subagent", SubInv) /\ When("drift", DriftInv)
TracesInv == When("traces", QueueInv /\ StreamInv)
ServedInv == When("pool", PoolInv) /\ When("servers", ServersInv)
CheckpointsInv == When("files", CheckpointInv)
SessionsInv == ChannelInv /\ SessionInv
AnsweredInv == When("replies", RepliesInv)
RecalledInv == SessionInv /\ SlipInv /\ When("retrieval", RetrievalInv)

\* What the types need beyond what the properties do.
ShapesInv ==
    /\ When("events", EventInv) /\ When("tick", ProactiveTypeOK) /\ When("files", FileTypes)
    /\ When("subagent", SubTypes) /\ When("pool", NumbersInv) /\ When("traces", LimitsInv)
    /\ FitsInv

TypesInv ==
    /\ EndsInv /\ RunsInv /\ TracesInv /\ ServedInv /\ CheckpointsInv /\ SessionsInv
    /\ AnsweredInv /\ RecalledInv /\ ItemInv /\ ShapesInv

\* What one step is of one machine.
LEMMA OneMoves ==
  ASSUME [StayPut /\ Moves]_<<system, machines>>
  PROVE  /\ system' = system
         /\ system = "requests" => [HttpNext]_httpVars
         /\ system = "process" => [AppNext]_appVars
         /\ system = "subagent" => [SubNext]_subVars
         /\ system = "drift" => [DriftNext]_driftVars
         /\ system = "traces" => [TraceNext]_traceVars
         /\ system = "pool" => [PoolNext]_poolVars
         /\ system = "servers" => [ServersNext]_serversVars
         /\ system = "files" => [FileNext]_fileVars
         /\ system = "replies" => [ReplyNext]_replyVars
         /\ system = "retrieval" => [RetrievalNext]_retrievalVars
         /\ system = "events" => [EventNext]_eventVars
         /\ system = "tick" => [ProactiveNext]_proactiveVars
         /\ [ItemNext]_itemVars
         /\ [SessionNext]_sessionVars
         /\ [ChannelNext]_channelVars
<1>1. CASE UNCHANGED <<system, machines>>
  BY <1>1 DEF machines
<1>2. CASE StayPut /\ Moves
  BY <1>2 DEF StayPut, Moves
<1> QED BY <1>1, <1>2

\* Each machine begins in its first state, whichever of them moves.
LEMMA AllBegin ==
  Init => EndsInv /\ RunsInv /\ TracesInv /\ ServedInv /\ CheckpointsInv /\ AnsweredInv
BY HttpBegins, AppBegins, SubBeginsIt, DriftInvBegins, TracesBegin, PoolBegins, ServersBegin, FilesBegin, ReplyBegins
   DEF Init, EndsInv, RunsInv, TracesInv, ServedInv, CheckpointsInv, AnsweredInv, When

(***************************************************************************)
(* However the process starts, fails and is stopped, nothing that runs is  *)
(* left behind but what EndIsClean names (AppRuntime.run, shutdown); and a *)
(* request ends within its budget, with the answer of its last try, having *)
(* used the tries it has (RetryingHttpClient.request).                     *)
(***************************************************************************)
THEOREM EndsStayOrderly == Spec => []EndsAreOrderly
<1>1. Init => EndsInv
  BY AllBegin
<1>2. EndsInv /\ [StayPut /\ Moves]_<<system, machines>> => EndsInv'
  BY OneMoves, HttpStep, AppStep DEF EndsInv, When
<1>3. EndsInv => EndsAreOrderly
  BY EndInvIsEnough DEF EndsInv, EndsAreOrderly, When, HttpInv
<1> QED BY <1>1, <1>2, <1>3, PTL DEF Spec

(***************************************************************************)
(* However a run of a subagent is cut short or forced, every request is    *)
(* one the API takes and its report says how far it came (SubAgent.run);   *)
(* and what a drift run records agrees, in its state and its tally.        *)
(***************************************************************************)
THEOREM RunsStaySound == Spec => []RunsAreSound
<1>1. Init => RunsInv
  BY AllBegin
<1>2. RunsInv /\ [StayPut /\ Moves]_<<system, machines>> => RunsInv'
  BY OneMoves, SubStepInv, DriftStepInv DEF RunsInv, When
<1>3. RunsInv => RunsAreSound
  BY SubInvIsEnough, DriftInvIsEnough DEF RunsInv, RunsAreSound, When
<1> QED BY <1>1, <1>2, <1>3, PTL DEF Spec

(***************************************************************************)
(* A trace that was emitted is queued, stored in order, streamed to whom   *)
(* it concerns, or counted as gone for a reason (TraceWriter, StreamHub).  *)
(***************************************************************************)
THEOREM TracesAreNeverLost == Spec => []TracesStayKept
<1>1. Init => TracesInv
  BY AllBegin
<1>2. TracesInv /\ [StayPut /\ Moves]_<<system, machines>> => TracesInv'
  BY OneMoves, TraceStep DEF TracesInv, When
<1>3. TracesInv => TracesStayKept
  BY TraceInvIsEnough DEF TracesInv, TracesStayKept, When
<1> QED BY <1>1, <1>2, <1>3, PTL DEF Spec

(***************************************************************************)
(* A caller of an MCP server reads its own answer and no other, at most    *)
(* twice asked, and no child is forgotten (McpClientPool.call); and every  *)
(* tool that is registered has a client behind it (McpServerRegistry).     *)
(***************************************************************************)
THEOREM McpStaysSound == Spec => []McpIsSound
<1>1. Init => ServedInv
  BY AllBegin
<1>2. ServedInv /\ [StayPut /\ Moves]_<<system, machines>> => ServedInv'
  BY OneMoves, PoolStep, ServersStep DEF ServedInv, When
<1>3. ServedInv => McpIsSound
  BY PoolInvIsEnough, ServersInvIsEnough DEF ServedInv, McpIsSound, When
<1> QED BY <1>1, <1>2, <1>3, PTL DEF Spec

(***************************************************************************)
(* What is reported saved is found: an active row states it, and each row  *)
(* has the vector of its own text, but for those whose vector was skipped  *)
(* or failed to be written, and those whose merge died between the two     *)
(* (Memorizer.save_item_with_supersede, MemoryStore2.merge_item_raw,       *)
(* upsert_item, _vec_insert, _migrate_existing_to_vec).                    *)
(***************************************************************************)
THEOREM SavedStaysFound == Spec => SavedIsFound
<1>1. Init => ItemInv
  BY ItemsBegin DEF Init
<1>2. ItemInv /\ [StayPut /\ Moves]_<<system, machines>> => ItemInv' /\ [StoredStep]_itemVars
  BY OneMoves, ItemsStep
<1>3. ItemInv => VectorsMatch
  BY DEF ItemInv, RowsOK, VectorsMatch
<1>4. Spec => []VectorsMatch /\ [][StoredStep]_itemVars
  BY <1>1, <1>2, <1>3, PTL DEF Spec
<1>5. [][StoredStep]_itemVars => SaidAndStored
  BY PTL DEF StoredStep, SaidAndStored
<1> QED BY <1>4, <1>5 DEF SavedIsFound

(***************************************************************************)
(* What is stored stays: a merge into a row that nobody changed meanwhile  *)
(* only adds to what active rows state, and the worker of a turn retires   *)
(* nothing that the calls in this turn's tool chain memorized              *)
(* (PostResponseMemoryWorker.run, _collect_explicit_memorized).            *)
(***************************************************************************)
THEOREM StoredFactsAreSpared == Spec => FactsAreSpared
<1>1. Init => ItemInv
  BY ItemsBegin DEF Init
<1>2. ItemInv /\ [StayPut /\ Moves]_<<system, machines>> => ItemInv' /\ [KeptStep]_itemVars /\ [SparedStep]_itemVars
  BY OneMoves, ItemsStep
<1>3. Spec => [][KeptStep]_itemVars /\ [][SparedStep]_itemVars
  BY <1>1, <1>2, PTL DEF Spec
<1>4. [][KeptStep]_itemVars => MergeKeepsFacts
  BY PTL DEF KeptStep, MergeKeepsFacts
<1>5. [][SparedStep]_itemVars => WorkerSparesOwnTurn
  BY PTL DEF SparedStep, WorkerSparesOwnTurn
<1> QED BY <1>3, <1>4, <1>5 DEF FactsAreSpared

(***************************************************************************)
(* A message comes in once per window, from a user who may, in its order;  *)
(* a name leads to a chat of its user (MessageDeduper.seen,                *)
(* SessionIdentityIndex, TelegramChannel, QQChannel).  A message whose     *)
(* save returned has its row, one row, and the rows follow the list in     *)
(* memory, whatever of a save failed, whenever the process died and        *)
(* whatever the dashboard deleted (SessionManager.append_messages,         *)
(* _persist_messages, SessionStore.next_seq, delete_messages_batch).       *)
(***************************************************************************)
THEOREM SessionsStayWhole == Spec => []SessionsAreWhole
<1>1. Init => SessionsInv
  BY ChannelBegins, SessionBegins DEF Init, SessionsInv
<1>2. SessionsInv /\ [StayPut /\ Moves]_<<system, machines>> => SessionsInv'
  BY OneMoves, ChannelStep, SessionStep DEF SessionsInv
<1>3. SessionsInv => SessionsAreWhole
  BY ChannelInvIsEnough, SessionInvIsEnough DEF SessionsInv, SessionsAreWhole, When
<1> QED BY <1>1, <1>2, <1>3, PTL DEF Spec

(***************************************************************************)
(* The ids that a request carries, reinforces and traces are those of the  *)
(* lines of its memory block, its events are of this chat, and the rules   *)
(* found are among them, whatever was merged, retried, cut by the budget   *)
(* or failed (DefaultMemoryRuntimeFacade.retrieve_context,                 *)
(* Retriever.build_injection_block).  Below the mark of a session there    *)
(* are no more messages that were never archived than were deleted, left   *)
(* behind by a failed save or cut off, whenever the process died and       *)
(* whatever the dashboard did (SessionManager.append_messages, the         *)
(* dashboard's delete_message and delete_session).                         *)
(***************************************************************************)
THEOREM RecallStaysFaithful == Spec => []RecallIsFaithful
<1>1. Init => RecalledInv
  BY SessionBegins, SlipBegins, RetrievalBegins DEF Init, RecalledInv, When
<1>2. RecalledInv /\ [StayPut /\ Moves]_<<system, machines>> => RecalledInv'
  BY OneMoves, SessionStep, SlipStep, RetrievalStep DEF RecalledInv, When
<1>3. RecalledInv => RecallIsFaithful
  BY SlipInvIsEnough, RetrievalInvIsEnough DEF RecalledInv, RecallIsFaithful, When
<1> QED BY <1>1, <1>2, <1>3, PTL DEF Spec

\* A step of any machine keeps what the types need.
LEMMA ShapesStay ==
  ASSUME TypesInv, SessionInv', [StayPut /\ Moves]_<<system, machines>>
  PROVE  ShapesInv'
<1>1. system' = system
  BY OneMoves
<1>2. When("events", EventInv)'
  BY <1>1, OneMoves, EventStepInv DEF TypesInv, ShapesInv, When
<1>3. When("tick", ProactiveTypeOK)'
  BY <1>1, OneMoves, StepType DEF TypesInv, ShapesInv, When
<1>4. When("files", FileTypes)'
  <2>1. SUFFICES ASSUME system = "files" PROVE FileTypes'
    BY <1>1 DEF When
  <2>2. CheckpointInv /\ FileTypes /\ [FileNext]_fileVars
    BY <2>1, OneMoves DEF TypesInv, CheckpointsInv, ShapesInv, When
  <2> QED BY <2>2, FileTypesStep
<1>5. When("subagent", SubTypes)'
  BY <1>1, OneMoves, SubTypesStep DEF TypesInv, RunsInv, ShapesInv, When
<1>6. When("pool", NumbersInv)'
  BY <1>1, OneMoves, NumbersStep DEF TypesInv, ServedInv, ShapesInv, When
<1>7. When("traces", LimitsInv)'
  BY <1>1, OneMoves, LimitsStep DEF TypesInv, TracesInv, ShapesInv, When
<1>8. FitsInv'
  <2>1. SessionInv /\ SlipTypes /\ FitsInv /\ [SessionNext]_sessionVars
    BY OneMoves DEF TypesInv, SessionsInv, RecalledInv, ShapesInv, SlipInv
  <2> QED BY <2>1, FitsStep
<1> QED BY <1>2, <1>3, <1>4, <1>5, <1>6, <1>7, <1>8 DEF ShapesInv

(***************************************************************************)
(* Every machine stays within its types, the bounds of the code among      *)
(* them: a client of the pool numbers its requests on from 2               *)
(* (McpClient._request), no number of a session exceeds the messages that  *)
(* were said (SessionStore.next_seq), the queue of a stream of traces and  *)
(* the window of the deduper hold what they may (StreamHub, MessageDeduper), *)
(* an item is never stored twice with one text (upsert_item), the exits of *)
(* a subagent are run from its own list (SubAgent._run_mandatory_exit), and *)
(* what a file tool writes are texts (EditFileTool.execute).               *)
(***************************************************************************)
THEOREM TypesStayCorrect == Spec => []SafetyTypeOK
<1>1. Init => TypesInv
  <2>1. Init => EndsInv /\ RunsInv /\ TracesInv /\ ServedInv /\ CheckpointsInv /\ AnsweredInv
    BY AllBegin
  <2>2. Init => SessionsInv /\ RecalledInv /\ ItemInv
    BY ChannelBegins, SessionBegins, SlipBegins, RetrievalBegins, ItemsBegin
       DEF Init, SessionsInv, RecalledInv, When
  <2>3. Init => ShapesInv
    BY EventInitInv, InitType, FileTypesBegin, SubTypesBegin, NumbersBegin, LimitsBegin, FitsBegins
       DEF Init, ShapesInv, When
  <2> QED BY <2>1, <2>2, <2>3 DEF TypesInv
<1>2. TypesInv /\ [StayPut /\ Moves]_<<system, machines>> => TypesInv'
  <2> SUFFICES ASSUME TypesInv, [StayPut /\ Moves]_<<system, machines>> PROVE TypesInv'
    OBVIOUS
  <2>1. EndsInv' /\ RunsInv'
    BY OneMoves, HttpStep, AppStep, SubStepInv, DriftStepInv DEF TypesInv, EndsInv, RunsInv, When
  <2>2. TracesInv' /\ ServedInv'
    BY OneMoves, TraceStep, PoolStep, ServersStep DEF TypesInv, TracesInv, ServedInv, When
  <2>3. CheckpointsInv' /\ AnsweredInv'
    BY OneMoves, FilesStep, ReplyStep DEF TypesInv, CheckpointsInv, AnsweredInv, When
  <2>4. SessionsInv' /\ RecalledInv'
    BY OneMoves, ChannelStep, SessionStep, SlipStep, RetrievalStep DEF TypesInv, SessionsInv, RecalledInv, When
  <2>5. ItemInv'
    BY OneMoves, ItemsStep DEF TypesInv
  <2>6. ShapesInv'
    BY <2>4, ShapesStay DEF SessionsInv
  <2> QED BY <2>1, <2>2, <2>3, <2>4, <2>5, <2>6 DEF TypesInv
<1>3. TypesInv => SafetyTypeOK
  <2> SUFFICES ASSUME TypesInv PROVE SafetyTypeOK
    OBVIOUS
  <2>1. When("items", ItemTypeOK) /\ When("events", EventTypeOK) /\ When("tick", ProactiveTypeOK)
    BY DEF TypesInv, ShapesInv, ItemInv, EventInv, When
  <2>2. When("drift", DriftTypeOK) /\ When("subagent", SubTypeOK)
    BY SubTypesAreEnough DEF TypesInv, RunsInv, ShapesInv, DriftInv, When
  <2>3. When("files", FileTypeOK) /\ When("session", SessionTypeOK) /\ When("retrieval", RetrievalTypeOK)
    BY FilesAreTyped, SessionFits, RetrievalInvIsEnough
       DEF TypesInv, CheckpointsInv, RecalledInv, SlipInv, ShapesInv, When
  <2>4. When("pool", PoolTypeOK) /\ When("servers", ServersTypeOK) /\ When("traces", TraceTypeOK)
    BY NumbersAreTypes, ServersInvIsEnough, LimitsAreTypes DEF TypesInv, ServedInv, TracesInv, ShapesInv, When
  <2>5. When("replies", ReplyTypeOK)
    BY RepliesAreTyped DEF TypesInv, AnsweredInv, When
  <2>6. When("channels", ChannelTypeOK)
    BY ChannelsAreTyped DEF TypesInv, SessionsInv, When
  <2>7. When("requests", HttpTypeOK) /\ When("process", AppTypeOK)
    BY DEF TypesInv, EndsInv, HttpInv, AppInv, AppTypes, When
  <2> QED BY <2>1, <2>2, <2>3, <2>4, <2>5, <2>6, <2>7 DEF SafetyTypeOK
<1> QED BY <1>1, <1>2, <1>3, PTL DEF Spec
=============================================================================
