--------------------------- MODULE GitRateLimiter ---------------------------
(***************************************************************************)
(* The rate limiter of the git adapters (withGitRateLimit), for one        *)
(* organization: a chain of promises that lets its calls run one after the *)
(* other, a quota per window, and retries after a 429 of the provider.     *)
(*                                                                         *)
(* Calls enter from outside (the retry wrapper) and leave to it.  A call   *)
(* that holds the limiter sleeps or waits for the provider; everybody      *)
(* else is queued.  Reading the clock, taking a slot and starting the      *)
(* request happen without an await, so they are one action.                *)
(*                                                                         *)
(* Time is kept relative to now, as the code compares nothing but          *)
(* differences: the age of the window, what is left of the provider's      *)
(* block and of each sleep.  A window older than windowMs is as good as    *)
(* none, which is also the state before the first call.                    *)
(***************************************************************************)
EXTENDS Naturals

CONSTANTS Calls,                  \* executions of provider operations
          NoCall,                 \* "undefined" where a call is expected
          TierLimit,              \* requests allowed in one window
          WindowMs,               \* length of a window
          RetryAfters,            \* delays a provider asks for
          MaxProvider429Retries

ASSUME LimiterAssumption ==
    /\ NoCall \notin Calls
    /\ TierLimit \in Nat \ {0}
    /\ WindowMs \in Nat \ {0}
    /\ RetryAfters \subseteq Nat \ {0}
    /\ MaxProvider429Retries \in Nat

VARIABLES
    at,        \* where each call stands: out, queued, asleep or calling
    behind,    \* previous of each queued call: the call whose end it awaits
    tail,      \* the entry of ORGANIZATION_QUEUES: the call that came last
    age,       \* time since windowStartedAtMs, at most WindowMs
    count,     \* requestCount
    blocked,   \* time until blockedUntilMs, 0 when it has passed
    sleep,     \* what is left of each call's sleep
    retries,   \* provider429Retries of each call
    ahead,     \* history: the calls inside that came before each call
    recent     \* history: requests begun within the last a + 1 units of time

queueVars == <<behind, tail, ahead>>
quotaVars == <<age, count, recent>>
limiterVars == <<at, queueVars, quotaVars, blocked, sleep, retries>>

Larger(m, n) == IF m >= n THEN m ELSE n
Smaller(m, n) == IF m <= n THEN m ELSE n
Less1(n) == IF n = 0 THEN 0 ELSE n - 1

Ages == 0..(WindowMs - 1)

-----------------------------------------------------------------------------
(* The queue of the organization *)

Inside == {c \in Calls : at[c] # "out"}

\* The first half of runInOrganizationQueue, up to "await previous".
Enter(c) ==
    /\ at[c] = "out"
    /\ at' = [at EXCEPT ![c] = "queued"]
    /\ behind' = [behind EXCEPT ![c] = tail]
    /\ tail' = c
    /\ ahead' = [ahead EXCEPT ![c] = Inside]
    /\ UNCHANGED <<quotaVars, blocked, sleep, retries>>

\* Mutant: the deferred is never resolved.
LeaveSilently(c) ==
    /\ at[c] = "calling"
    /\ at' = [at EXCEPT ![c] = "out"]
    /\ tail' = IF tail = c THEN NoCall ELSE tail
    /\ ahead' = [d \in Calls |-> ahead[d] \ {c}]
    /\ retries' = [retries EXCEPT ![c] = 0]
    /\ UNCHANGED <<behind, quotaVars, blocked, sleep>>

\* Mutant: the entry of the map is deleted whoever is in it.
LeaveClearing(c) ==
    /\ at[c] = "calling"
    /\ at' = [at EXCEPT ![c] = "out"]
    /\ behind' = [d \in Calls |-> IF behind[d] = c THEN NoCall ELSE behind[d]]
    /\ tail' = NoCall
    /\ ahead' = [d \in Calls |-> ahead[d] \ {c}]
    /\ retries' = [retries EXCEPT ![c] = 0]
    /\ UNCHANGED <<quotaVars, blocked, sleep>>

\* Its "finally": the deferred is resolved, which lets the next call go on, and
\* the entry of the map is deleted when no call has come since.
Leave(c) ==
    /\ at[c] = "calling"
    /\ at' = [at EXCEPT ![c] = "out"]
    /\ behind' = [d \in Calls |-> IF behind[d] = c THEN NoCall ELSE behind[d]]
    /\ tail' = IF tail = c THEN NoCall ELSE tail
    /\ ahead' = [d \in Calls |-> ahead[d] \ {c}]
    /\ retries' = [retries EXCEPT ![c] = 0]
    /\ UNCHANGED <<quotaVars, blocked, sleep>>

\* The call is at the head of the loop of acquireQuota.
AtAcquire(c) ==
    \/ at[c] = "queued" /\ behind[c] = NoCall
    \/ at[c] = "asleep" /\ sleep[c] = 0

-----------------------------------------------------------------------------
(* The quota *)

\* normalizeStateWindow
Expired == age >= WindowMs
WindowAge == IF Expired THEN 0 ELSE age
WindowCount == IF Expired THEN 0 ELSE count

\* throttle
SleepFor(c, delay) ==
    /\ at' = [at EXCEPT ![c] = "asleep"]
    /\ sleep' = [sleep EXCEPT ![c] = delay]

\* acquireQuota finds the organization blocked.
AwaitBlock(c) ==
    /\ AtAcquire(c)
    /\ blocked > 0
    /\ age' = WindowAge
    /\ count' = WindowCount
    /\ SleepFor(c, blocked)
    /\ UNCHANGED <<queueVars, recent, blocked, retries>>

\* It finds the quota used up.
AwaitWindow(c) ==
    /\ AtAcquire(c)
    /\ blocked = 0
    /\ WindowCount >= TierLimit
    /\ age' = WindowAge
    /\ count' = WindowCount
    /\ SleepFor(c, Larger(WindowMs - WindowAge, 1))
    /\ UNCHANGED <<queueVars, recent, blocked, retries>>

\* Mutant: the slot of a retry is not counted.
TakeSlotOnce(c) ==
    /\ AtAcquire(c)
    /\ blocked = 0
    /\ WindowCount < TierLimit
    /\ age' = WindowAge
    /\ count' = IF retries[c] = 0 THEN WindowCount + 1 ELSE WindowCount
    /\ at' = [at EXCEPT ![c] = "calling"]
    /\ recent' = [a \in Ages |-> recent[a] + 1]
    /\ UNCHANGED <<queueVars, blocked, sleep, retries>>

\* It takes a slot, and the request begins.
TakeSlot(c) ==
    /\ AtAcquire(c)
    /\ blocked = 0
    /\ WindowCount < TierLimit
    /\ age' = WindowAge
    /\ count' = WindowCount + 1
    /\ at' = [at EXCEPT ![c] = "calling"]
    /\ recent' = [a \in Ages |-> recent[a] + 1]
    /\ UNCHANGED <<queueVars, blocked, sleep, retries>>

\* Mutant: one retry too many.
ThrottledOnceMore(c, delay) ==
    /\ at[c] = "calling"
    /\ retries[c] <= MaxProvider429Retries
    /\ retries' = [retries EXCEPT ![c] = @ + 1]
    /\ blocked' = Larger(blocked, delay)
    /\ SleepFor(c, delay)
    /\ UNCHANGED <<queueVars, quotaVars>>

\* The provider answers 429 and the call has retries left: blockOrganization,
\* then a sleep of the same length.
Throttled(c, delay) ==
    /\ at[c] = "calling"
    /\ retries[c] < MaxProvider429Retries
    /\ retries' = [retries EXCEPT ![c] = @ + 1]
    /\ blocked' = Larger(blocked, delay)
    /\ SleepFor(c, delay)
    /\ UNCHANGED <<queueVars, quotaVars>>

\* One unit of time passes.
LimiterTick ==
    /\ age' = Smaller(age + 1, WindowMs)
    /\ blocked' = Less1(blocked)
    /\ sleep' = [c \in Calls |-> Less1(sleep[c])]
    /\ recent' = [a \in Ages |-> IF a = 0 THEN 0 ELSE recent[a - 1]]
    /\ UNCHANGED <<at, queueVars, count, retries>>

\* What a call does inside on its own.
LimiterStep(c) == AwaitBlock(c) \/ AwaitWindow(c) \/ TakeSlot(c)

\* retryAfterMs of the error, or the window when there is none.
ProviderRetryDelays == RetryAfters \union {WindowMs}

-----------------------------------------------------------------------------

LimiterInit ==
    /\ at = [c \in Calls |-> "out"]
    /\ behind = [c \in Calls |-> NoCall]
    /\ tail = NoCall
    /\ age = WindowMs
    /\ count = 0
    /\ blocked = 0
    /\ sleep = [c \in Calls |-> 0]
    /\ retries = [c \in Calls |-> 0]
    /\ ahead = [c \in Calls |-> {}]
    /\ recent = [a \in Ages |-> 0]

\* The limiter on its own: calls enter, are answered and leave at any time.
LimiterNext ==
    \/ \E c \in Calls : Enter(c) \/ LimiterStep(c) \/ Leave(c)
    \/ \E c \in Calls, delay \in ProviderRetryDelays : Throttled(c, delay)
    \/ LimiterTick

LimiterSpec == LimiterInit /\ [][LimiterNext]_limiterVars

-----------------------------------------------------------------------------
(* Properties *)

LimiterTypeOK ==
    /\ at \in [Calls -> {"out", "queued", "asleep", "calling"}]
    /\ behind \in [Calls -> Calls \union {NoCall}]
    /\ tail \in Calls \union {NoCall}
    /\ age \in 0..WindowMs
    /\ count \in 0..TierLimit
    /\ blocked \in Nat
    /\ sleep \in [Calls -> Nat]
    /\ retries \in [Calls -> 0..MaxProvider429Retries]
    /\ ahead \in [Calls -> SUBSET Calls]
    /\ recent \in [Ages -> Nat]

Holds(c) == at[c] \in {"asleep", "calling"}

\* The call that holds the limiter is the one that has been inside longest: the
\* calls of an organization go one at a time, in the order they came, although
\* nothing but a chain of promises and one map entry orders them.
InTurn == \A c \in Calls : Holds(c) => ahead[c] = {}

\* However the calls, their retries and the windows fall, a period as long as a
\* window sees two quotas of requests at most, and one since the window began.
QuotaKept ==
    /\ recent[WindowMs - 1] <= 2 * TierLimit
    /\ age < WindowMs => recent[age] <= TierLimit
=============================================================================
