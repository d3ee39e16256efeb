------------------------------ MODULE GitCalls ------------------------------
(***************************************************************************)
(* Calls of a git provider as registerGitModule wires them: the health     *)
(* monitor with its circuit breaker around the retry wrapper around the    *)
(* rate limiter.                                                           *)
(*                                                                         *)
(* A call is an operation of a user of the provider or a health check of   *)
(* the monitor: a health check is let through or turned away on the same   *)
(* condition, pings through the same wrappers and records its result in    *)
(* the same way.  What runs between two awaits is one action: an answer of *)
(* the provider goes through limiter, retry wrapper and monitor at once,   *)
(* unless a dead letter has to be written in between.                      *)
(***************************************************************************)
EXTENDS GitRateLimiter

CONSTANTS MaxAttempts,       \* attempts of the retry wrapper
          BaseDelayMs,       \* its first delay
          Backoff,           \* its delay after each attempt
          FailureThreshold,  \* failures in a row that open the circuit
          CircuitOpenMs      \* how long it stays open

ASSUME CallsAssumption ==
    /\ MaxAttempts \in Nat \ {0}
    /\ BaseDelayMs \in Nat \ {0}
    /\ Backoff \in [1..MaxAttempts -> Nat]
    /\ \A a \in 1..MaxAttempts : Backoff[a] = BaseDelayMs * 4^(a - 1)
    /\ FailureThreshold \in Nat \ {0}
    /\ CircuitOpenMs \in Nat \ {0}

VARIABLES
    stage,       \* idle, trying (inside the limiter), backoff, dlq, ended
    result,      \* ok, failed or turnedAway, once it has ended or failed for good
    attempt,     \* attempt of the retry wrapper
    pause,       \* what is left of its sleep
    circuit,     \* circuitState
    failures,    \* consecutiveFailures
    openFor,     \* time until circuitOpenUntilMs, 0 when it has passed or is null
    hits,        \* history: requests of each call that reached the provider
    under        \* history: the calls under way when the circuit opened last

retryVars == <<attempt, pause>>
circuitVars == <<circuit, failures, openFor, under>>
vars == <<limiterVars, stage, result, retryVars, circuitVars, hits>>

UnderWay(c) == stage[c] \in {"trying", "backoff", "dlq"}

-----------------------------------------------------------------------------
(* The circuit breaker *)

\* beforeOperation and runHealthCheck turn a call away.
Blocks == circuit = "OPEN" /\ openFor > 0

\* Mutant: a success closes the circuit only when it is half open.
RecordSuccessHalfOpen ==
    /\ circuit' = IF circuit = "HALF_OPEN" THEN "CLOSED" ELSE circuit
    /\ failures' = 0
    /\ openFor' = 0
    /\ UNCHANGED under

\* recordSuccess
RecordSuccess ==
    /\ circuit' = "CLOSED"
    /\ failures' = 0
    /\ openFor' = 0
    /\ UNCHANGED under

\* recordFailure, of call c
RecordFailure(c) ==
    /\ failures' = failures + 1
    /\ \/ /\ circuit = "HALF_OPEN" \/ failures + 1 >= FailureThreshold
          /\ circuit' = "OPEN"
          /\ openFor' = CircuitOpenMs
          /\ under' = {d \in Calls \ {c} : UnderWay(d)}
       \/ /\ circuit # "HALF_OPEN" /\ failures + 1 < FailureThreshold
          /\ UNCHANGED <<circuit, openFor, under>>

-----------------------------------------------------------------------------
(* Calls *)

TurnedAway(c) ==
    /\ stage[c] = "idle"
    /\ Blocks
    /\ stage' = [stage EXCEPT ![c] = "ended"]
    /\ result' = [result EXCEPT ![c] = "turnedAway"]
    /\ UNCHANGED <<limiterVars, retryVars, circuitVars, hits>>

\* Mutant: the deadline of an open circuit is not looked at.
StartAnyhow(c) ==
    /\ stage[c] = "idle"
    /\ circuit' = IF circuit = "OPEN" THEN "HALF_OPEN" ELSE circuit
    /\ stage' = [stage EXCEPT ![c] = "trying"]
    /\ attempt' = [attempt EXCEPT ![c] = 1]
    /\ Enter(c)
    /\ UNCHANGED <<result, pause, failures, openFor, under, hits>>

\* beforeOperation lets the call through, which makes an open circuit half open;
\* execute of the retry wrapper calls the limiter without an await.
Start(c) ==
    /\ stage[c] = "idle"
    /\ ~Blocks
    /\ circuit' = IF circuit = "OPEN" THEN "HALF_OPEN" ELSE circuit
    /\ stage' = [stage EXCEPT ![c] = "trying"]
    /\ attempt' = [attempt EXCEPT ![c] = 1]
    /\ Enter(c)
    /\ UNCHANGED <<result, pause, failures, openFor, under, hits>>

\* A step inside the limiter.
Limiter(c) ==
    /\ stage[c] = "trying"
    /\ \/ AwaitBlock(c) /\ UNCHANGED hits
       \/ AwaitWindow(c) /\ UNCHANGED hits
       \/ TakeSlot(c) /\ hits' = [hits EXCEPT ![c] = @ + 1]
    /\ UNCHANGED <<stage, result, retryVars, circuitVars>>

\* The provider answers 429 and the limiter retries.
AnswerThrottled(c) ==
    /\ stage[c] = "trying"
    /\ \E delay \in ProviderRetryDelays : Throttled(c, delay)
    /\ UNCHANGED <<stage, result, retryVars, circuitVars, hits>>

\* It answers.
AnswerOk(c) ==
    /\ stage[c] = "trying"
    /\ Leave(c)
    /\ stage' = [stage EXCEPT ![c] = "ended"]
    /\ result' = [result EXCEPT ![c] = "ok"]
    /\ RecordSuccess
    /\ UNCHANGED <<retryVars, hits>>

\* resolveRetryDelay
RetryDelays(c) == RetryAfters \union {Backoff[attempt[c]]}

\* Mutant: one attempt too many.
AnswerRetryableOnceMore(c) ==
    /\ stage[c] = "trying"
    /\ attempt[c] <= MaxAttempts
    /\ Leave(c)
    /\ stage' = [stage EXCEPT ![c] = "backoff"]
    /\ \E delay \in RetryDelays(c) : pause' = [pause EXCEPT ![c] = delay]
    /\ UNCHANGED <<result, attempt, circuitVars, hits>>

\* It answers 5xx, the network fails, or it answers 429 to a call without retries
\* left in the limiter, and the wrapper has attempts left: it sleeps outside of
\* the limiter.
AnswerRetryable(c) ==
    /\ stage[c] = "trying"
    /\ attempt[c] < MaxAttempts
    /\ Leave(c)
    /\ stage' = [stage EXCEPT ![c] = "backoff"]
    /\ \E delay \in RetryDelays(c) : pause' = [pause EXCEPT ![c] = delay]
    /\ UNCHANGED <<result, attempt, circuitVars, hits>>

Retry(c) ==
    /\ stage[c] = "backoff"
    /\ pause[c] = 0
    /\ stage' = [stage EXCEPT ![c] = "trying"]
    /\ attempt' = [attempt EXCEPT ![c] = @ + 1]
    /\ Enter(c)
    /\ UNCHANGED <<result, pause, circuitVars, hits>>

\* It answers with an error that is not retried: a 4xx other than 429, or whatever
\* error at the last attempt.  writeDlqEntry is called.
AnswerFinal(c) ==
    /\ stage[c] = "trying"
    /\ Leave(c)
    /\ stage' = [stage EXCEPT ![c] = "dlq"]
    /\ result' = [result EXCEPT ![c] = "failed"]
    /\ UNCHANGED <<retryVars, circuitVars, hits>>

\* The dead letter is written, or its write is rejected: both end in the catch
\* block of the monitor.
WriteDeadLetter(c) ==
    /\ stage[c] = "dlq"
    /\ stage' = [stage EXCEPT ![c] = "ended"]
    /\ RecordFailure(c)
    /\ UNCHANGED <<limiterVars, result, retryVars, hits>>

Tick ==
    /\ LimiterTick
    /\ pause' = [c \in Calls |-> Less1(pause[c])]
    /\ openFor' = Less1(openFor)
    /\ UNCHANGED <<stage, result, attempt, circuit, failures, under, hits>>

Answer(c) == AnswerOk(c) \/ AnswerThrottled(c) \/ AnswerRetryable(c) \/ AnswerFinal(c)

\* What a call that has begun does sooner or later.
Proceed(c) == Limiter(c) \/ Answer(c) \/ Retry(c) \/ WriteDeadLetter(c)

-----------------------------------------------------------------------------

Init ==
    /\ LimiterInit
    /\ stage = [c \in Calls |-> "idle"]
    /\ result = [c \in Calls |-> "none"]
    /\ attempt = [c \in Calls |-> 0]
    /\ pause = [c \in Calls |-> 0]
    /\ circuit = "CLOSED"
    /\ failures = 0
    /\ openFor = 0
    /\ hits = [c \in Calls |-> 0]
    /\ under = {}

Next ==
    \/ \E c \in Calls : TurnedAway(c) \/ Start(c) \/ Proceed(c)
    \/ Tick

Spec == Init /\ [][Next]_vars

\* Time passes, the provider answers (its client times out otherwise), and the
\* event loop carries on what can go on.  That a call begins is not fair.
FairSpec == Spec /\ WF_vars(Tick) /\ \A c \in Calls : WF_vars(Proceed(c))

-----------------------------------------------------------------------------
(* Properties *)

\* The type invariant.
TypeOK ==
    /\ LimiterTypeOK
    /\ stage \in [Calls -> {"idle", "trying", "backoff", "dlq", "ended"}]
    /\ result \in [Calls -> {"none", "ok", "failed", "turnedAway"}]
    /\ attempt \in [Calls -> 0..MaxAttempts]
    /\ pause \in [Calls -> Nat]
    /\ circuit \in {"CLOSED", "OPEN", "HALF_OPEN"}
    /\ failures \in Nat
    /\ openFor \in 0..CircuitOpenMs
    /\ hits \in [Calls -> Nat]
    /\ under \subseteq Calls
    /\ \A c \in Calls : stage[c] = "trying" <=> at[c] # "out"

\* The two retry loops multiply, and nothing more: what a call costs the provider
\* is bounded by the product of their limits, and a call turned away costs nothing.
RequestsAreBounded ==
    \A c \in Calls :
        /\ hits[c] <= MaxAttempts * (MaxProvider429Retries + 1)
        /\ result[c] = "turnedAway" => hits[c] = 0

\* The circuit is closed exactly while fewer calls than the threshold have failed
\* in a row, whatever calls end in whatever state of the circuit.
CircuitAgrees == circuit = "CLOSED" <=> failures < FailureThreshold

\* An open circuit closes before its time only on the success of a call that was
\* under way when it opened: calls that come later have to wait.
EarlyCloseIsEarned ==
    [][Blocks /\ circuit' # "OPEN" =>
        \E c \in under : UnderWay(c) /\ stage'[c] = "ended" /\ result'[c] = "ok"]_vars

\* A call that has begun returns, although it waits for quotas, blocks, backoffs
\* and for all the calls before it, any of which may fail.
EveryCallReturns == \A c \in Calls : UnderWay(c) ~> stage[c] = "ended"
=============================================================================
