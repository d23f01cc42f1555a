---------------------------- MODULE HttpRequests ----------------------------
(***************************************************************************)
(* HttpRequester (core/net/http.py), through which embeddings, fetches,    *)
(* rerankings and peers are asked: a request is tried again after a        *)
(* timeout, a transport error or a status that says so, as long as its     *)
(* budget of time lasts; any other error, of redirects or of decoding, is  *)
(* the caller's at once.  Time is counted from its start.                  *)
(***************************************************************************)
EXTENDS Integers, Sequences, SequencesExt

CONSTANTS
    MaxAttempts,            \* retry_policy.max_attempts
    BaseDelay, MaxDelay, Jitter,    \* the pause between tries, and how far it strays
    TryTimeout, Budgets,    \* default_timeout_s; budgets of requests
    MaxDrip                 \* bound: what a try may take beyond its timeout

ASSUME HttpAssumption ==
    /\ {MaxAttempts, TryTimeout} \subseteq Nat \ {0}
    /\ {BaseDelay, MaxDelay, Jitter, MaxDrip} \subseteq Nat /\ Budgets \subseteq Nat

VARIABLES
    budget,                 \* budget.total_timeout_s
    clock,                  \* the time since the request
    attempts,               \* what came of each try: "ok", "busy" (a status to retry), "error" (a
                            \* timeout or of the transport), "raised" (another)
    lastError, response,    \* of the code: whether there is one
    httpAnswer,             \* what the caller got, "none" so far
    carriedOut,             \* how often the server did what it was asked
    dripped                 \* time that tries took beyond their timeouts

httpVars == <<budget, clock, attempts, lastError, response, httpAnswer, carriedOut, dripped>>

HttpInit ==
    /\ budget \in Budgets /\ clock = 0 /\ attempts = <<>> /\ lastError = FALSE /\ response = "none"
    /\ httpAnswer = "none" /\ carriedOut = 0 /\ dripped = 0

-----------------------------------------------------------------------------
Least(a, b) == IF a < b THEN a ELSE b
Remaining(now) == IF now < budget THEN budget - now ELSE 0

\* _backoff_seconds
Backoff(attempt) ==
    LET delay == Least(MaxDelay, BaseDelay * 2 ^ (attempt - 1))
    IN  {pause \in 0..(delay + Jitter) : delay <= pause + Jitter}

\* Mutant: the pause does not look at the budget.
Pauses_whole(now, attempt) == Backoff(attempt)

\* The pause ends with the budget at the latest.
Pauses(now, attempt) == {Least(pause, Remaining(now)) : pause \in Backoff(attempt)}

\* One try and, if there is to be another, the pause after it.  The timeout is that
\* of each wait of the client: an answer that comes in drips takes longer.  An error
\* may have reached us after the server had done its work.
Tries ==
    /\ httpAnswer = "none" /\ Remaining(clock) > 0
    /\ \E outcome \in {"ok", "busy", "error", "raised"}, late \in 0..MaxDrip, done \in {0, 1} :
       \E took \in 0..Least(TryTimeout, Remaining(clock)) :
        LET attempt == Len(attempts) + 1
            now == clock + took + late
            again == outcome \in {"busy", "error"} /\ attempt < MaxAttempts
        IN  /\ outcome = "ok" => done = 1
            /\ attempts' = Append(attempts, outcome)
            /\ response' = IF outcome \in {"error", "raised"} THEN response ELSE outcome
            /\ lastError' = (lastError \/ outcome = "error")
            /\ carriedOut' = carriedOut + done
            /\ dripped' = dripped + late
            /\ httpAnswer' = IF again THEN "none" ELSE outcome
            /\ \E pause \in IF again THEN Pauses(now, attempt) ELSE {0} : clock' = now + pause
    /\ UNCHANGED budget

\* The budget is used up before the next try: an error of before, whichever try it was
\* of, goes before an answer.
BudgetEnds ==
    /\ httpAnswer = "none" /\ Remaining(clock) = 0
    /\ httpAnswer' = CASE lastError -> "error" [] ~lastError /\ response = "none" -> "exhausted" [] OTHER -> response
    /\ UNCHANGED <<budget, clock, attempts, lastError, response, carriedOut, dripped>>

HttpNext == Tries \/ BudgetEnds

HttpSpec == HttpInit /\ [][HttpNext]_httpVars

-----------------------------------------------------------------------------
HttpTypeOK ==
    /\ clock \in Nat /\ Len(attempts) <= MaxAttempts /\ carriedOut <= Len(attempts)
    /\ httpAnswer \in {"none", "ok", "busy", "error", "raised", "exhausted"}

\* The caller waits no longer than the budget and what the answers dripped.
BudgetHolds == clock <= budget + dripped

\* What the caller gets is what the last try came to; but if the budget ended after a
\* status to retry, an error of an earlier try; and nothing is tried after an answer or
\* an error of another kind.
AnswerIsOfLastTry ==
    /\ {"ok", "raised"} \cap ToSet(SubSeq(attempts, 1, Len(attempts) - 1)) = {}
    /\ httpAnswer # "none" =>
        IF attempts = <<>> THEN httpAnswer = "exhausted"
        ELSE \/ httpAnswer = Last(attempts)
             \/ httpAnswer = "error" /\ Last(attempts) = "busy" /\ "error" \in ToSet(attempts) /\ Len(attempts) < MaxAttempts
    /\ httpAnswer = "ok" => carriedOut >= 1

\* A request that ends with a status to retry, a timeout or an error of the transport
\* was tried as often as it may be, or its time is up.
TriesAreUsed ==
    httpAnswer \in {"busy", "error"} => Len(attempts) = MaxAttempts \/ Remaining(clock) = 0

(***************************************************************************)
(* Whatever times out, fails or is told to come back: a request ends       *)
(* within its budget, and its caller gets what the last try came to.       *)
(***************************************************************************)
RequestsEndInTime == BudgetHolds /\ AnswerIsOfLastTry /\ TriesAreUsed
=============================================================================
