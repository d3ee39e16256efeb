--------------------------- MODULE GitCallsProofs ---------------------------
(***************************************************************************)
(* Theorems about the rate limiter and the calls that go through it, for   *)
(* any number of calls, any quota and window, any retry limits and delays, *)
(* and any threshold of the circuit breaker.                               *)
(***************************************************************************)
EXTENDS GitCalls, TLAPS

-----------------------------------------------------------------------------
(* The queue of the organization *)

\* The chain of promises is the order of arrival: what a call awaits is the
\* end of the last of those that came before it, and the entry of the map is the
\* call that came last.
Chained(c) ==
    IF behind[c] = NoCall
    THEN ahead[c] = {}
    ELSE behind[c] \in Inside /\ ahead[c] = ahead[behind[c]] \union {behind[c]}

QueueInv ==
    /\ \A c \in Calls \ Inside : behind[c] = NoCall /\ ahead[c] = {}
    /\ \A c \in Inside : ahead[c] \subseteq Inside \ {c}
    /\ \A c \in Inside : Chained(c)
    /\ \A c, d \in Inside : c # d => c \in ahead[d] \/ d \in ahead[c]
    /\ IF tail = NoCall THEN Inside = {}
       ELSE tail \in Inside /\ Inside = ahead[tail] \union {tail}
    /\ InTurn

LimiterInv == LimiterTypeOK /\ QueueInv

\* Places of calls differ from outside.
LEMMA Places ==
    /\ Inside \subseteq Calls
    /\ \A c \in Calls : Holds(c) => c \in Inside
    /\ \A c \in Calls : AtAcquire(c) => c \in Inside
  BY DEF Inside, Holds, AtAcquire

LEMMA LimiterInitInv == LimiterInit => LimiterInv
  BY LimiterAssumption
  DEF LimiterInit, LimiterInv, LimiterTypeOK, QueueInv, Inside, InTurn, Holds, Ages

\* A step that moves a call which has the limiter, or may take it, keeps the queue.
LEMMA QueueKept ==
    ASSUME QueueInv, NEW c \in Calls, NEW place \in {"asleep", "calling"},
           at \in [Calls -> {"out", "queued", "asleep", "calling"}],
           AtAcquire(c) \/ Holds(c),
           at' = [at EXCEPT ![c] = place], UNCHANGED queueVars
    PROVE  QueueInv'
  <1>1. Inside' = Inside
    BY DEF Inside, AtAcquire, Holds
  <1>2. \A d \in Calls : Chained(d)' <=> Chained(d)
    BY <1>1 DEF Chained, queueVars
  <1>3. ahead[c] = {}
    <2>1. CASE Holds(c)
      BY <2>1 DEF QueueInv, InTurn
    <2>2. CASE AtAcquire(c) /\ ~Holds(c)
      BY <2>2, Places DEF QueueInv, Chained, AtAcquire, Holds
    <2> QED
      BY <2>1, <2>2
  <1>4. InTurn'
    BY <1>3 DEF QueueInv, InTurn, Holds, queueVars
  <1> QED
    BY <1>1, <1>2, <1>4, Places DEF QueueInv, queueVars

LEMMA EnterInv ==
    ASSUME LimiterInv, NEW c \in Calls, Enter(c)
    PROVE  LimiterInv'
  <1> USE DEF LimiterInv
  <1>1. LimiterTypeOK'
    BY LimiterAssumption DEF Enter, LimiterTypeOK, quotaVars, Inside, Ages
  <1>2. /\ c \notin Inside /\ Inside' = Inside \union {c}
        /\ behind'[c] = tail /\ ahead'[c] = Inside /\ tail' = c
        /\ \A d \in Calls \ {c} : behind'[d] = behind[d] /\ ahead'[d] = ahead[d]
        /\ \A d \in Calls \ {c} : at'[d] = at[d]
        /\ at'[c] = "queued"
    BY DEF Enter, LimiterTypeOK, Inside
  <1>3. \A d \in Inside : d \in Calls \ {c}
    BY <1>2 DEF Inside
  <1>4. \A d \in Inside' : Chained(d)'
    <2>1. Chained(c)'
      BY <1>2, <1>3 DEF Chained, QueueInv
    <2>2. ASSUME NEW d \in Inside
          PROVE  Chained(d)'
      BY <1>2, <1>3 DEF Chained, QueueInv
    <2> QED
      BY <1>2, <2>1, <2>2
  <1>5. InTurn'
    BY <1>2 DEF QueueInv, InTurn, Holds
  <1>6. \A d \in Calls \ Inside' : behind'[d] = NoCall /\ ahead'[d] = {}
    BY <1>2 DEF QueueInv
  <1>7. \A d \in Inside' : ahead'[d] \subseteq Inside' \ {d}
    BY <1>2, <1>3 DEF QueueInv
  <1>8. \A d, e \in Inside' : d # e => d \in ahead'[e] \/ e \in ahead'[d]
    BY <1>2, <1>3 DEF QueueInv
  <1>9. tail' # NoCall
    BY <1>2, LimiterAssumption
  <1> QED
    BY <1>1, <1>2, <1>4, <1>5, <1>6, <1>7, <1>8, <1>9 DEF QueueInv

LEMMA LeaveInv ==
    ASSUME LimiterInv, NEW c \in Calls, Leave(c)
    PROVE  LimiterInv'
  <1> USE DEF LimiterInv
  <1>1. LimiterTypeOK'
    BY LimiterAssumption DEF Leave, LimiterTypeOK, quotaVars, Ages
  <1>2. /\ c \in Inside /\ Inside' = Inside \ {c}
        /\ \A d \in Calls : behind'[d] = IF behind[d] = c THEN NoCall ELSE behind[d]
        /\ \A d \in Calls : ahead'[d] = ahead[d] \ {c}
        /\ \A d \in Calls \ {c} : at'[d] = at[d]
        /\ tail' = IF tail = c THEN NoCall ELSE tail
        /\ at'[c] = "out"
    BY DEF Leave, LimiterTypeOK, Inside
  <1>3. ahead[c] = {} /\ behind[c] = NoCall
    <2>1. ahead[c] = {}
      BY DEF Leave, QueueInv, InTurn, Holds
    <2> QED
      BY <1>2, <2>1 DEF QueueInv, Chained
  <1>4. c # NoCall
    BY LimiterAssumption
  <1>5. ASSUME NEW d \in Inside'
        PROVE  Chained(d)'
    <2>1. d \in Inside /\ d \in Calls /\ Chained(d)
      BY <1>2, Places DEF QueueInv
    <2>2. CASE behind[d] = NoCall
      BY <1>2, <1>4, <2>1, <2>2 DEF Chained
    <2>3. CASE behind[d] = c
      BY <1>2, <1>3, <1>4, <2>1, <2>3 DEF Chained
    <2>4. CASE behind[d] # NoCall /\ behind[d] # c
      BY <1>2, <2>1, <2>4, Places DEF Chained
    <2> QED
      BY <2>2, <2>3, <2>4
  <1>6. InTurn'
    BY <1>2 DEF QueueInv, InTurn, Holds
  <1>7. \A d \in Calls \ Inside' : behind'[d] = NoCall /\ ahead'[d] = {}
    BY <1>2, <1>3 DEF QueueInv
  <1>8. \A d \in Inside' : ahead'[d] \subseteq Inside' \ {d}
    BY <1>2, Places DEF QueueInv
  <1>9. \A d, e \in Inside' : d # e => d \in ahead'[e] \/ e \in ahead'[d]
    BY <1>2, Places DEF QueueInv
  <1>10. IF tail' = NoCall THEN Inside' = {}
         ELSE tail' \in Inside' /\ Inside' = ahead'[tail'] \union {tail'}
    BY <1>2, <1>3, <1>4, Places DEF QueueInv
  <1> QED
    BY <1>1, <1>5, <1>6, <1>7, <1>8, <1>9, <1>10 DEF QueueInv

\* A sleep the limiter asks for.
LEMMA SleepInv ==
    ASSUME LimiterInv, NEW c \in Calls, AtAcquire(c), NEW delay \in Nat, SleepFor(c, delay),
           age' = WindowAge, count' = WindowCount, UNCHANGED <<queueVars, recent, blocked, retries>>
    PROVE  LimiterInv'
  <1> USE DEF LimiterInv
  <1>1. LimiterTypeOK'
    BY LimiterAssumption
    DEF SleepFor, LimiterTypeOK, WindowAge, WindowCount, Expired, queueVars
  <1> QED
    BY <1>1, QueueKept DEF SleepFor, LimiterTypeOK

LEMMA StepInv ==
    ASSUME LimiterInv, NEW c \in Calls, LimiterStep(c)
    PROVE  LimiterInv'
  <1>1. CASE AwaitBlock(c)
    BY <1>1, SleepInv DEF AwaitBlock, LimiterInv, LimiterTypeOK
  <1>2. CASE AwaitWindow(c)
    <2>1. Larger(WindowMs - WindowAge, 1) \in Nat
      BY LimiterAssumption DEF LimiterInv, LimiterTypeOK, Larger, WindowAge, Expired
    <2> QED
      BY <1>2, <2>1, SleepInv DEF AwaitWindow
  <1>3. CASE TakeSlot(c)
    <2>1. LimiterTypeOK'
      BY <1>3, LimiterAssumption
      DEF TakeSlot, LimiterInv, LimiterTypeOK, WindowAge, WindowCount, Expired, queueVars, Ages
    <2> QED
      BY <1>3, <2>1, QueueKept DEF TakeSlot, LimiterInv, LimiterTypeOK
  <1> QED
    BY <1>1, <1>2, <1>3 DEF LimiterStep

LEMMA ThrottledInv ==
    ASSUME LimiterInv, NEW c \in Calls, NEW delay \in ProviderRetryDelays, Throttled(c, delay)
    PROVE  LimiterInv'
  <1>1. delay \in Nat
    BY LimiterAssumption DEF ProviderRetryDelays
  <1>2. LimiterTypeOK'
    BY <1>1, LimiterAssumption
    DEF Throttled, SleepFor, LimiterInv, LimiterTypeOK, queueVars, quotaVars, Larger
  <1> QED
    BY <1>2, QueueKept DEF Throttled, SleepFor, LimiterInv, LimiterTypeOK, Holds

LEMMA TickInv ==
    ASSUME LimiterInv, LimiterTick
    PROVE  LimiterInv'
  <1> USE DEF LimiterInv
  <1>1. LimiterTypeOK'
    <2>1. /\ at' = at /\ behind' = behind /\ tail' = tail /\ ahead' = ahead
          /\ count' = count /\ retries' = retries
      BY DEF LimiterTick, queueVars
    <2>2. age' \in 0..WindowMs /\ blocked' \in Nat
      BY LimiterAssumption DEF LimiterTick, LimiterTypeOK, Smaller, Less1
    <2>3. sleep' \in [Calls -> Nat]
      BY DEF LimiterTick, LimiterTypeOK, Less1
    <2>4. recent' \in [Ages -> Nat]
      BY LimiterAssumption DEF LimiterTick, LimiterTypeOK, Ages
    <2> QED
      BY <2>1, <2>2, <2>3, <2>4 DEF LimiterTypeOK
  <1>2. QueueInv'
    BY DEF LimiterTick, queueVars, QueueInv, Inside, Chained, InTurn, Holds
  <1> QED
    BY <1>1, <1>2

LEMMA LimiterInvNext == LimiterInv /\ [LimiterNext]_limiterVars => LimiterInv'
  <1> SUFFICES ASSUME LimiterInv, [LimiterNext]_limiterVars
               PROVE  LimiterInv'
    OBVIOUS
  <1>1. CASE UNCHANGED limiterVars
    BY <1>1
    DEF limiterVars, queueVars, quotaVars, LimiterInv, LimiterTypeOK, QueueInv, Inside, Chained,
        InTurn, Holds
  <1> QED
    BY <1>1, EnterInv, StepInv, LeaveInv, ThrottledInv, TickInv DEF LimiterNext

\* The limiter alone keeps its calls in the order they came, whatever calls enter
\* it and however the provider answers them.
THEOREM LimiterInTurn == LimiterSpec => [](LimiterTypeOK /\ InTurn)
  <1>1. LimiterInv => LimiterTypeOK /\ InTurn
    BY DEF LimiterInv, QueueInv
  <1> QED
    BY <1>1, LimiterInitInv, LimiterInvNext, PTL DEF LimiterSpec

-----------------------------------------------------------------------------
(* The quota *)

\* The count is that of the requests begun since the window began, at most one
\* quota of the others are as recent as a window is long, and when the window has
\* run out these are all that are left.
QuotaInv ==
    /\ \A a \in Ages : a + 1 \in Ages => recent[a] <= recent[a + 1]
    /\ age < WindowMs => recent[age] = count /\ recent[WindowMs - 1] <= count + TierLimit
    /\ age = WindowMs => recent[0] = 0 /\ recent[WindowMs - 1] <= TierLimit

\* A step that begins no request, but may begin a window.
LEMMA NoRequestQuota ==
    ASSUME LimiterTypeOK, QuotaInv, age' = WindowAge, count' = WindowCount, recent' = recent
    PROVE  QuotaInv'
  BY LimiterAssumption
  DEF LimiterTypeOK, QuotaInv, WindowAge, WindowCount, Expired, Ages

LEMMA TakeSlotQuota ==
    ASSUME LimiterTypeOK, QuotaInv, NEW c \in Calls, TakeSlot(c)
    PROVE  QuotaInv'
  <1>1. \A a \in Ages : recent[a] \in Nat /\ recent'[a] = recent[a] + 1
    BY DEF TakeSlot, LimiterTypeOK
  <1>2. /\ age \in Nat /\ age <= WindowMs /\ count \in Nat /\ WindowMs \in Nat \ {0}
        /\ TierLimit \in Nat /\ 0 \in Ages /\ WindowMs - 1 \in Ages
        /\ age < WindowMs => age \in Ages
    BY LimiterAssumption DEF LimiterTypeOK, Ages
  <1>3. /\ age' = (IF age >= WindowMs THEN 0 ELSE age)
        /\ count' = (IF age >= WindowMs THEN 0 ELSE count) + 1
    BY DEF TakeSlot, WindowAge, WindowCount, Expired
  <1>4. \A a \in Ages : a + 1 \in Ages => recent'[a] <= recent'[a + 1]
    BY <1>1 DEF QuotaInv
  <1>5. age' < WindowMs /\ recent'[age'] = count' /\ recent'[WindowMs - 1] <= count' + TierLimit
    BY <1>1, <1>2, <1>3 DEF QuotaInv
  <1>6. age' # WindowMs
    BY <1>2, <1>3
  <1> QED
    BY <1>4, <1>5, <1>6 DEF QuotaInv

LEMMA TickQuota ==
    ASSUME LimiterTypeOK, QuotaInv, LimiterTick
    PROVE  QuotaInv'
  <1>1. /\ age \in Nat /\ age <= WindowMs /\ count \in Nat /\ count <= TierLimit
        /\ WindowMs \in Nat \ {0} /\ TierLimit \in Nat /\ WindowMs - 1 \in Ages
        /\ \A a : a \in Ages <=> a \in Nat /\ a < WindowMs
        /\ \A a \in Ages : recent[a] \in Nat
    BY LimiterAssumption DEF LimiterTypeOK, Ages
  <1>2. /\ age' = IF age + 1 <= WindowMs THEN age + 1 ELSE WindowMs
        /\ count' = count
        /\ recent' = [a \in Ages |-> IF a = 0 THEN 0 ELSE recent[a - 1]]
    BY DEF LimiterTick, Smaller
  <1>3. /\ recent'[0] = 0
        /\ \A a \in Ages : a + 1 \in Ages => recent'[a + 1] = recent[a]
    BY <1>1, <1>2
  <1>4. ASSUME NEW a \in Ages, a + 1 \in Ages
        PROVE  recent'[a] <= recent'[a + 1]
    <2>1. CASE a = 0
      BY <1>1, <1>3, <1>4, <2>1
    <2>2. CASE a # 0
      <3>1. a - 1 \in Ages /\ (a - 1) + 1 = a
        BY <1>1, <2>2
      <3> QED
        BY <1>3, <1>4, <3>1 DEF QuotaInv
    <2> QED
      BY <2>1, <2>2
  \* What a window reaches back to gets no more as time passes.
  <1>5. recent'[WindowMs - 1] <= recent[WindowMs - 1]
    <2>1. CASE WindowMs = 1
      BY <1>1, <1>3, <2>1
    <2>2. CASE WindowMs # 1
      <3>1. WindowMs - 2 \in Ages /\ (WindowMs - 2) + 1 = WindowMs - 1
        BY <1>1, <2>2
      <3> QED
        BY <1>1, <1>3, <3>1 DEF QuotaInv
    <2> QED
      BY <2>1, <2>2
  <1>6. recent'[WindowMs - 1] \in Nat /\ recent[WindowMs - 1] \in Nat
    <2>1. \A a \in Ages \ {0} : a - 1 \in Ages
      BY <1>1
    <2> QED
      BY <1>1, <1>2, <2>1
  <1>7. CASE age + 1 < WindowMs
    <2>1. age' = age + 1 /\ recent'[age'] = recent[age] /\ recent[age] = count
      BY <1>1, <1>2, <1>3, <1>7 DEF QuotaInv
    <2> QED
      BY <1>1, <1>2, <1>4, <1>5, <1>6, <1>7, <2>1 DEF QuotaInv
  <1>8. CASE age + 1 = WindowMs
    <2>1. age' = WindowMs /\ recent[WindowMs - 1] = count
      BY <1>1, <1>2, <1>8 DEF QuotaInv
    <2> QED
      BY <1>1, <1>3, <1>4, <1>5, <1>6, <2>1 DEF QuotaInv
  <1>9. CASE age = WindowMs
    <2>1. age' = WindowMs /\ recent[WindowMs - 1] <= TierLimit
      BY <1>1, <1>2, <1>9 DEF QuotaInv
    <2> QED
      BY <1>1, <1>3, <1>4, <1>5, <1>6, <2>1 DEF QuotaInv
  <1> QED
    BY <1>1, <1>7, <1>8, <1>9

\* However calls enter, sleep, are throttled and leave: a period as long as a
\* window sees two quotas of requests at most, and one since the window began.
THEOREM LimiterQuota == LimiterSpec => []QuotaKept
  <1>1. LimiterInit => QuotaInv
    BY LimiterAssumption DEF LimiterInit, QuotaInv, Ages
  <1>2. LimiterTypeOK /\ QuotaInv /\ [LimiterNext]_limiterVars => QuotaInv'
    <2> SUFFICES ASSUME LimiterTypeOK, QuotaInv, [LimiterNext]_limiterVars
                 PROVE  QuotaInv'
      OBVIOUS
    <2>1. CASE UNCHANGED quotaVars
      BY <2>1 DEF quotaVars, QuotaInv
    <2>2. ASSUME NEW c \in Calls, LimiterStep(c)
          PROVE  QuotaInv'
      <3>1. CASE AwaitBlock(c) \/ AwaitWindow(c)
        BY <3>1, NoRequestQuota DEF AwaitBlock, AwaitWindow
      <3> QED
        BY <2>2, <3>1, TakeSlotQuota DEF LimiterStep
    <2>3. LimiterNext \/ UNCHANGED limiterVars
          => \/ UNCHANGED quotaVars
             \/ \E c \in Calls : LimiterStep(c)
             \/ LimiterTick
      BY DEF LimiterNext, Enter, Leave, Throttled, limiterVars
    <2> QED
      BY <2>1, <2>2, <2>3, TickQuota
  <1>3. LimiterTypeOK /\ QuotaInv => QuotaKept
    BY LimiterAssumption DEF LimiterTypeOK, QuotaInv, QuotaKept, Ages
  <1> QED
    BY <1>1, <1>2, <1>3, LimiterInTurn, PTL DEF LimiterSpec

-----------------------------------------------------------------------------
(* Nobody waits for nothing *)

\* Somebody inside waits for nobody else.
SomeoneIsFirst == Inside # {} => \E c \in Inside : ahead[c] = {} /\ (AtAcquire(c) \/ Holds(c))

\* A sleep of the limiter ends when what it waits for is over: the block of the
\* provider, or the window once there is no block.
SleepIsExact ==
    \A c \in Calls : at[c] = "asleep" =>
        \/ sleep[c] = blocked
        \/ blocked = 0 /\ sleep[c] = WindowMs - age

\* Every call but the last has one that awaits its end.
SuccessorInv == \A c \in Inside : c = tail \/ \E d \in Inside : behind[d] = c

\* The provider blocks the organization only while a call sleeps through it.
DeadlineInv ==
    /\ SleepIsExact
    /\ \A c \in Calls : at[c] = "calling" => blocked = 0

HeadInv == Inside # {} => \E c \in Inside : behind[c] = NoCall

WaitInv == SuccessorInv /\ HeadInv /\ DeadlineInv

\* Only the call that has the limiter, or takes it, changes its times.
LEMMA OneActs ==
    ASSUME LimiterInv, NEW c \in Calls, NEW d \in Calls,
           AtAcquire(c) \/ Holds(c), Holds(d)
    PROVE  c = d
  <1>1. c \in Inside /\ d \in Inside
    BY Places
  <1>2. ahead[d] = {}
    BY DEF LimiterInv, QueueInv, InTurn
  <1>3. ahead[c] = {}
    BY <1>1 DEF LimiterInv, QueueInv, InTurn, Chained, AtAcquire, Holds
  <1> QED
    BY <1>1, <1>2, <1>3 DEF LimiterInv, QueueInv

LEMMA EnterWait ==
    ASSUME LimiterInv, WaitInv, NEW c \in Calls, Enter(c)
    PROVE  WaitInv'
  <1>1. /\ c \notin Inside /\ Inside' = Inside \union {c}
        /\ behind'[c] = tail /\ tail' = c
        /\ \A d \in Inside : d \in Calls /\ d # c /\ behind'[d] = behind[d]
        /\ \A d \in Calls : at'[d] \in {"asleep", "calling"} => at'[d] = at[d]
        /\ age' = age /\ blocked' = blocked /\ sleep' = sleep
    BY DEF Enter, LimiterInv, LimiterTypeOK, Inside, quotaVars
  <1>2. SuccessorInv'
    BY <1>1 DEF WaitInv, SuccessorInv
  <1>3. HeadInv'
    BY <1>1 DEF WaitInv, HeadInv, LimiterInv, QueueInv
  <1>4. DeadlineInv'
    BY <1>1 DEF WaitInv, DeadlineInv, SleepIsExact
  <1> QED
    BY <1>2, <1>3, <1>4 DEF WaitInv

LEMMA LeaveWait ==
    ASSUME LimiterInv, WaitInv, NEW c \in Calls, Leave(c)
    PROVE  WaitInv'
  <1>1. /\ c \in Inside /\ Inside' = Inside \ {c}
        /\ \A d \in Calls : behind'[d] = IF behind[d] = c THEN NoCall ELSE behind[d]
        /\ \A d \in Calls : at'[d] \in {"asleep", "calling"} => at'[d] = at[d]
        /\ tail' = IF tail = c THEN NoCall ELSE tail
        /\ age' = age /\ blocked' = blocked /\ sleep' = sleep
    BY DEF Leave, LimiterInv, LimiterTypeOK, Inside, quotaVars
  <1>2. ahead[c] = {} /\ behind[c] = NoCall /\ c # NoCall
    BY <1>1, LimiterAssumption DEF Leave, LimiterInv, QueueInv, InTurn, Holds, Chained
  <1>3. Inside' # {} => tail # c
    BY <1>1, <1>2 DEF LimiterInv, QueueInv
  <1>4. SuccessorInv'
    <2> SUFFICES ASSUME NEW d \in Inside'
                 PROVE  d = tail' \/ \E e \in Inside' : behind'[e] = d
      BY DEF SuccessorInv
    <2>1. CASE d = tail
      BY <1>1, <1>3, <2>1
    <2>2. CASE d # tail
      <3>1. PICK e \in Inside : behind[e] = d
        BY <1>1, <2>2 DEF WaitInv, SuccessorInv
      <3>2. e # c /\ e \in Calls
        BY <1>1, <1>2, <3>1, Places, LimiterAssumption
      <3> QED
        BY <1>1, <3>1, <3>2
    <2> QED
      BY <2>1, <2>2
  <1>5. HeadInv'
    <2> SUFFICES ASSUME Inside' # {}
                 PROVE  \E e \in Inside' : behind'[e] = NoCall
      BY DEF HeadInv
    <2>1. PICK e \in Inside : behind[e] = c
      BY <1>1, <1>3 DEF WaitInv, SuccessorInv
    <2>2. e # c /\ e \in Calls
      BY <1>2, <2>1, Places
    <2> QED
      BY <1>1, <2>1, <2>2
  <1>6. DeadlineInv'
    BY <1>1 DEF WaitInv, DeadlineInv, SleepIsExact
  <1> QED
    BY <1>4, <1>5, <1>6 DEF WaitInv

\* A step that leaves everybody's place in the queue alone.
LEMMA PlacesWait ==
    ASSUME WaitInv, Inside' = Inside, UNCHANGED queueVars, DeadlineInv'
    PROVE  WaitInv'
  BY DEF WaitInv, SuccessorInv, HeadInv, queueVars

LEMMA StepWait ==
    ASSUME LimiterInv, WaitInv, NEW c \in Calls, LimiterStep(c)
    PROVE  WaitInv'
  <1>1. /\ AtAcquire(c) /\ UNCHANGED queueVars /\ blocked' = blocked
        /\ c \in Inside /\ Inside' = Inside
        /\ \A d \in Calls \ {c} : at'[d] = at[d]
    BY DEF LimiterStep, AwaitBlock, AwaitWindow, TakeSlot, AtAcquire, SleepFor, Inside, LimiterInv,
           LimiterTypeOK
  <1>2. \A d \in Calls \ {c} : ~Holds(d)
    BY <1>1, OneActs
  <1>3. \A d \in Calls \ {c} : at'[d] \notin {"asleep", "calling"}
    BY <1>1, <1>2 DEF Holds
  <1>4. CASE AwaitBlock(c)
    <2>1. at'[c] = "asleep" /\ sleep'[c] = blocked'
      BY <1>4 DEF AwaitBlock, SleepFor, LimiterInv, LimiterTypeOK
    <2>2. DeadlineInv'
      BY <1>3, <2>1 DEF DeadlineInv, SleepIsExact
    <2> QED
      BY <1>1, <2>2, PlacesWait
  <1>5. CASE AwaitWindow(c)
    <2>1. /\ at'[c] = "asleep" /\ sleep'[c] = Larger(WindowMs - WindowAge, 1)
          /\ blocked' = 0 /\ age' = WindowAge
      BY <1>5 DEF AwaitWindow, SleepFor, LimiterInv, LimiterTypeOK
    <2>2. Larger(WindowMs - WindowAge, 1) = WindowMs - WindowAge
      BY LimiterAssumption DEF Larger, WindowAge, Expired, LimiterInv, LimiterTypeOK
    <2> QED
      BY <1>1, <1>3, <2>1, <2>2, PlacesWait DEF DeadlineInv, SleepIsExact
  <1>6. CASE TakeSlot(c)
    <2>1. at'[c] = "calling" /\ blocked' = 0
      BY <1>6 DEF TakeSlot, LimiterInv, LimiterTypeOK
    <2> QED
      BY <1>1, <1>3, <2>1, PlacesWait DEF DeadlineInv, SleepIsExact
  <1> QED
    BY <1>4, <1>5, <1>6 DEF LimiterStep

LEMMA ThrottledWait ==
    ASSUME LimiterInv, WaitInv, NEW c \in Calls, NEW delay \in ProviderRetryDelays,
           Throttled(c, delay)
    PROVE  WaitInv'
  <1>1. /\ Holds(c) /\ UNCHANGED queueVars /\ Inside' = Inside
        /\ \A d \in Calls \ {c} : at'[d] = at[d]
        /\ at'[c] = "asleep" /\ sleep'[c] = delay /\ blocked' = Larger(blocked, delay)
    BY DEF Throttled, SleepFor, Holds, Inside, LimiterInv, LimiterTypeOK
  <1>2. \A d \in Calls \ {c} : at'[d] \notin {"asleep", "calling"}
    BY <1>1, OneActs DEF Holds
  <1>3. blocked' = delay
    <2>1. blocked = 0
      BY DEF Throttled, WaitInv, DeadlineInv
    <2>2. delay \in Nat
      BY LimiterAssumption DEF ProviderRetryDelays
    <2> QED
      BY <1>1, <2>1, <2>2 DEF Larger
  <1>4. DeadlineInv'
    BY <1>1, <1>2, <1>3 DEF DeadlineInv, SleepIsExact
  <1> QED
    BY <1>1, <1>4, PlacesWait

LEMMA TickWait ==
    ASSUME LimiterInv, WaitInv, LimiterTick
    PROVE  WaitInv'
  <1>1. /\ UNCHANGED queueVars /\ at' = at /\ Inside' = Inside
        /\ age' = Smaller(age + 1, WindowMs) /\ blocked' = Less1(blocked)
        /\ \A c \in Calls : sleep'[c] = Less1(sleep[c])
    BY DEF LimiterTick, Inside
  <1>2. age \in 0..WindowMs /\ WindowMs \in Nat
    BY LimiterAssumption DEF LimiterInv, LimiterTypeOK
  <1>3. Less1(WindowMs - age) = WindowMs - Smaller(age + 1, WindowMs)
    BY <1>2 DEF Less1, Smaller
  <1>4. Less1(0) = 0
    BY DEF Less1
  <1>5. DeadlineInv'
    BY <1>1, <1>3, <1>4 DEF WaitInv, DeadlineInv, SleepIsExact
  <1> QED
    BY <1>1, <1>5, PlacesWait

LEMMA WaitAlways == LimiterSpec => [](LimiterInv /\ WaitInv)
  <1>1. LimiterInit => WaitInv
    BY DEF LimiterInit, WaitInv, SuccessorInv, HeadInv, DeadlineInv, SleepIsExact, Inside
  <1>2. LimiterInv /\ WaitInv /\ [LimiterNext]_limiterVars => WaitInv'
    <2> SUFFICES ASSUME LimiterInv, WaitInv, [LimiterNext]_limiterVars
                 PROVE  WaitInv'
      OBVIOUS
    <2>1. CASE UNCHANGED limiterVars
      BY <2>1
      DEF limiterVars, queueVars, quotaVars, WaitInv, SuccessorInv, HeadInv, DeadlineInv,
          SleepIsExact, Inside
    <2> QED
      BY <2>1, EnterWait, StepWait, LeaveWait, ThrottledWait, TickWait DEF LimiterNext
  <1> QED
    BY <1>1, <1>2, LimiterInitInv, LimiterInvNext, PTL DEF LimiterSpec

\* The chain of promises never waits on nobody: as long as calls are inside, the
\* first of them holds the limiter or is at the head of the loop.
THEOREM LimiterMoves == LimiterSpec => []SomeoneIsFirst
  <1>1. LimiterInv /\ WaitInv => SomeoneIsFirst
    <2> SUFFICES ASSUME LimiterInv, WaitInv, Inside # {}
                 PROVE  \E c \in Inside : ahead[c] = {} /\ (AtAcquire(c) \/ Holds(c))
      BY DEF SomeoneIsFirst
    <2>1. PICK c \in Inside : behind[c] = NoCall
      BY DEF WaitInv, HeadInv
    <2>2. ahead[c] = {}
      BY <2>1 DEF LimiterInv, QueueInv, Chained
    <2>3. AtAcquire(c) \/ Holds(c)
      BY <2>1 DEF AtAcquire, Holds, Inside, LimiterInv, LimiterTypeOK
    <2> QED
      BY <2>2, <2>3
  <1> QED
    BY <1>1, WaitAlways, PTL

\* No sleep of the limiter is too short or too long: the call that wakes up finds
\* the organization not blocked, and after a sleep for the window a new window,
\* so the loop of acquireQuota ends although it looks at one deadline at a time.
THEOREM LimiterSleeps == LimiterSpec => []SleepIsExact
  <1>1. WaitInv => SleepIsExact
    BY DEF WaitInv, DeadlineInv
  <1> QED
    BY <1>1, WaitAlways, PTL

-----------------------------------------------------------------------------
(* Calls through the retry wrapper and the circuit breaker *)

PerAttempt == MaxProvider429Retries + 1

\* What a call may have cost the provider, by the attempts it has made and the
\* retries of the present one.
Spent(c) ==
    IF stage[c] = "idle" THEN 0
    ELSE IF stage[c] = "trying"
    THEN (attempt[c] - 1) * PerAttempt + retries[c] + (IF at[c] = "calling" THEN 1 ELSE 0)
    ELSE attempt[c] * PerAttempt

CostInv ==
    \A c \in Calls :
        /\ UnderWay(c) => attempt[c] \in 1..MaxAttempts
        /\ stage[c] = "backoff" => attempt[c] < MaxAttempts
        /\ stage[c] # "ended" => hits[c] <= Spent(c)
        /\ stage[c] = "ended" => hits[c] <= MaxAttempts * PerAttempt
        /\ result[c] = "turnedAway" => stage[c] = "ended" /\ hits[c] = 0

\* A call that is under way while the circuit blocks began before it opened.
BlockInv == Blocks => \A c \in Calls : UnderWay(c) => c \in under

Inv == LimiterInv /\ TypeOK /\ CostInv /\ CircuitAgrees /\ BlockInv

LEMMA Arithmetic ==
    /\ PerAttempt \in Nat \ {0}
    /\ \A m \in Nat \ {0} : m * PerAttempt = (m - 1) * PerAttempt + PerAttempt
    /\ \A m \in 0..MaxAttempts : m * PerAttempt \in Nat /\ m * PerAttempt <= MaxAttempts * PerAttempt
  <1>1. PerAttempt \in Nat \ {0}
    BY LimiterAssumption DEF PerAttempt
  <1>2. ASSUME NEW m \in Nat \ {0}
        PROVE  m * PerAttempt = (m - 1) * PerAttempt + PerAttempt
    BY <1>1, SMTT(30)
  <1>3. ASSUME NEW m \in 0..MaxAttempts
        PROVE  m * PerAttempt \in Nat /\ m * PerAttempt <= MaxAttempts * PerAttempt
    <2>1. m \in Nat /\ MaxAttempts - m \in Nat /\ MaxAttempts \in Nat
      BY CallsAssumption
    <2>2. (MaxAttempts - m) * PerAttempt >= 0
      BY <1>1, <2>1, SMTT(30)
    <2>3. MaxAttempts * PerAttempt = m * PerAttempt + (MaxAttempts - m) * PerAttempt
      BY <1>1, <2>1, SMTT(30)
    <2> QED
      BY <1>1, <2>1, <2>2, <2>3, SMTT(30)
  <1> QED
    BY <1>1, <1>2, <1>3

LEMMA InitInv == Init => Inv
  <1> SUFFICES ASSUME Init PROVE Inv
    OBVIOUS
  <1>1. LimiterInv
    BY LimiterInitInv DEF Init
  <1>2. TypeOK
    BY <1>1, CallsAssumption DEF Init, TypeOK, LimiterInv, LimiterInit
  <1>3. CostInv
    <2> SUFFICES ASSUME NEW c \in Calls
                 PROVE  /\ ~UnderWay(c) /\ stage[c] \notin {"backoff", "ended"} /\ result[c] # "turnedAway"
                        /\ hits[c] <= Spent(c)
      BY DEF CostInv
    <2>1. stage[c] = "idle" /\ result[c] = "none" /\ hits[c] = 0
      BY DEF Init
    <2> QED
      BY <2>1 DEF UnderWay, Spent
  <1> QED
    BY <1>1, <1>2, <1>3, CallsAssumption DEF Init, Inv, CircuitAgrees, BlockInv, Blocks

LEMMA TurnedAwayStep ==
    ASSUME Inv, NEW c \in Calls, TurnedAway(c)
    PROVE  Inv'
  <1> USE DEF Inv
  <1>1. LimiterInv'
    BY DEF TurnedAway, limiterVars, queueVars, quotaVars, LimiterInv, LimiterTypeOK, QueueInv,
           Inside, Chained, InTurn, Holds
  <1>2. TypeOK'
    BY <1>1 DEF TurnedAway, TypeOK, LimiterInv, limiterVars, retryVars, circuitVars
  <1>3. /\ stage'[c] = "ended" /\ result'[c] = "turnedAway" /\ stage[c] = "idle"
        /\ \A d \in Calls \ {c} : stage'[d] = stage[d] /\ result'[d] = result[d]
        /\ at' = at /\ retries' = retries /\ attempt' = attempt /\ hits' = hits
    BY DEF TurnedAway, TypeOK, limiterVars, retryVars
  <1>4. hits[c] = 0 /\ MaxAttempts * PerAttempt \in Nat
    <2>1. hits[c] \in Nat /\ hits[c] <= Spent(c) /\ Spent(c) = 0
      BY <1>3 DEF CostInv, Spent, TypeOK
    <2>2. MaxAttempts \in 0..MaxAttempts
      BY CallsAssumption
    <2> QED
      BY <2>1, <2>2, Arithmetic
  <1>5. CostInv'
    BY <1>3, <1>4 DEF CostInv, Spent, UnderWay
  <1>6. BlockInv' /\ CircuitAgrees'
    BY <1>3 DEF TurnedAway, BlockInv, Blocks, UnderWay, CircuitAgrees, circuitVars
  <1> QED
    BY <1>1, <1>2, <1>5, <1>6

LEMMA StartStep ==
    ASSUME Inv, NEW c \in Calls, Start(c)
    PROVE  Inv'
  <1> USE DEF Inv
  <1>1. LimiterInv'
    BY EnterInv DEF Start
  <1>2. TypeOK'
    <2>1. LimiterTypeOK'
      BY <1>1 DEF LimiterInv
    <2>2. \A d \in Calls : stage'[d] = "trying" <=> at'[d] # "out"
      BY DEF Start, Enter, TypeOK, LimiterTypeOK
    <2>3. stage' \in [Calls -> {"idle", "trying", "backoff", "dlq", "ended"}]
      BY DEF Start, TypeOK
    <2>4. attempt' \in [Calls -> 0..MaxAttempts]
      BY CallsAssumption DEF Start, TypeOK
    <2> QED
      BY <2>1, <2>2, <2>3, <2>4 DEF Start, TypeOK
  <1>3. /\ stage'[c] = "trying" /\ stage[c] = "idle" /\ at'[c] = "queued" /\ attempt'[c] = 1
        /\ \A d \in Calls \ {c} : stage'[d] = stage[d] /\ at'[d] = at[d] /\ attempt'[d] = attempt[d]
        /\ retries' = retries /\ hits' = hits /\ result' = result
    BY DEF Start, Enter, TypeOK, LimiterInv, LimiterTypeOK
  <1>4. CostInv'
    <2>1. hits[c] = 0 /\ retries[c] \in Nat
      BY <1>3 DEF CostInv, Spent, TypeOK, LimiterInv, LimiterTypeOK
    <2>2. (1 - 1) * PerAttempt = 0 /\ PerAttempt \in Nat
      BY Arithmetic
    <2>3. Spent(c)' >= 0
      BY <1>3, <2>1, <2>2 DEF Spent
    <2>4. UnderWay(c)' /\ attempt'[c] \in 1..MaxAttempts /\ result[c] # "turnedAway"
      BY <1>3, CallsAssumption DEF CostInv, UnderWay
    <2> QED
      BY <1>3, <2>1, <2>3, <2>4, CallsAssumption DEF CostInv, Spent, UnderWay
  <1>5. BlockInv' /\ CircuitAgrees'
    BY DEF Start, BlockInv, Blocks, CircuitAgrees
  <1> QED
    BY <1>1, <1>2, <1>4, <1>5

LEMMA LimiterActionStep ==
    ASSUME Inv, NEW c \in Calls, Limiter(c)
    PROVE  Inv'
  <1> USE DEF Inv
  <1>1. LimiterInv'
    BY StepInv DEF Limiter, LimiterStep
  <1>2. /\ stage' = stage /\ result' = result /\ attempt' = attempt /\ retries' = retries
        /\ stage[c] = "trying"
        /\ at[c] \in {"queued", "asleep"} /\ at'[c] \in {"asleep", "calling"}
        /\ \A d \in Calls \ {c} : at'[d] = at[d] /\ hits'[d] = hits[d]
        /\ hits \in [Calls -> Nat] /\ hits' \in [Calls -> Nat]
        /\ hits'[c] = IF at'[c] = "calling" THEN hits[c] + 1 ELSE hits[c]
    BY DEF Limiter, AwaitBlock, AwaitWindow, TakeSlot, SleepFor, AtAcquire, retryVars,
           TypeOK, LimiterInv, LimiterTypeOK
  <1>3. TypeOK'
    BY <1>1, <1>2 DEF Limiter, TypeOK, LimiterInv, circuitVars, retryVars
  <1>4. CostInv'
    <2>1. /\ attempt[c] \in 1..MaxAttempts /\ retries[c] \in Nat
      BY <1>2 DEF CostInv, UnderWay, LimiterInv, LimiterTypeOK
    <2> attempt[c] - 1 \in 0..MaxAttempts
      BY <2>1, CallsAssumption
    <2> (attempt[c] - 1) * PerAttempt \in Nat
      BY <2>1, Arithmetic
    <2>2. hits'[c] <= Spent(c)'
      BY <1>2, <2>1 DEF CostInv, Spent
    <2> QED
      BY <1>2, <2>2 DEF CostInv, Spent, UnderWay
  <1>5. BlockInv' /\ CircuitAgrees'
    BY <1>2 DEF Limiter, BlockInv, Blocks, CircuitAgrees, circuitVars, UnderWay
  <1> QED
    BY <1>1, <1>3, <1>4, <1>5

LEMMA ThrottledStep ==
    ASSUME Inv, NEW c \in Calls, AnswerThrottled(c)
    PROVE  Inv'
  <1> USE DEF Inv
  <1>1. LimiterInv'
    BY ThrottledInv DEF AnswerThrottled
  <1>2. /\ stage' = stage /\ result' = result /\ attempt' = attempt /\ hits' = hits
        /\ stage[c] = "trying" /\ at[c] = "calling" /\ at'[c] = "asleep"
        /\ retries'[c] = retries[c] + 1
        /\ \A d \in Calls \ {c} : at'[d] = at[d] /\ retries'[d] = retries[d]
    BY DEF AnswerThrottled, Throttled, SleepFor, retryVars, TypeOK, LimiterInv, LimiterTypeOK
  <1>3. TypeOK'
    BY <1>1, <1>2 DEF AnswerThrottled, TypeOK, LimiterInv, circuitVars, retryVars
  <1>4. CostInv'
    <2>1. /\ attempt[c] \in 1..MaxAttempts /\ retries[c] \in Nat
      BY <1>2 DEF CostInv, UnderWay, LimiterInv, LimiterTypeOK
    <2> attempt[c] - 1 \in 0..MaxAttempts
      BY <2>1, CallsAssumption
    <2> (attempt[c] - 1) * PerAttempt \in Nat
      BY <2>1, Arithmetic
    <2>2. hits'[c] <= Spent(c)'
      BY <1>2, <2>1 DEF CostInv, Spent
    <2> QED
      BY <1>2, <2>2 DEF CostInv, Spent, UnderWay
  <1>5. BlockInv' /\ CircuitAgrees'
    BY <1>2 DEF AnswerThrottled, BlockInv, Blocks, CircuitAgrees, circuitVars, UnderWay
  <1> QED
    BY <1>1, <1>3, <1>4, <1>5

\* A call that leaves the limiter has spent no more than its attempts allow.
LEMMA LeaveStep ==
    ASSUME Inv, NEW c \in Calls, NEW next \in {"backoff", "dlq", "ended"},
           NEW outcome \in {"none", "ok", "failed"},
           stage[c] = "trying", Leave(c), stage' = [stage EXCEPT ![c] = next],
           result' \in {result, [result EXCEPT ![c] = outcome]},
           next = "backoff" => attempt[c] < MaxAttempts, UNCHANGED <<attempt, hits>>
    PROVE  /\ LimiterInv' /\ CostInv'
           /\ result' \in [Calls -> {"none", "ok", "failed", "turnedAway"}]
           /\ stage' \in [Calls -> {"idle", "trying", "backoff", "dlq", "ended"}]
           /\ \A d \in Calls : stage'[d] = "trying" <=> at'[d] # "out"
           /\ \A d \in Calls : UnderWay(d)' => UnderWay(d)
  <1> USE DEF Inv
  <1>1. LimiterInv'
    BY LeaveInv
  <1>2. /\ stage'[c] = next /\ at[c] = "calling" /\ at'[c] = "out"
        /\ \A d \in Calls \ {c} : /\ stage'[d] = stage[d] /\ at'[d] = at[d]
                                   /\ retries'[d] = retries[d] /\ result'[d] = result[d]
        /\ hits' = hits /\ attempt' = attempt
        /\ result'[c] \in {result[c], outcome}
    BY DEF Leave, TypeOK, LimiterInv, LimiterTypeOK
  <1>3. /\ result' \in [Calls -> {"none", "ok", "failed", "turnedAway"}]
        /\ stage' \in [Calls -> {"idle", "trying", "backoff", "dlq", "ended"}]
    BY DEF TypeOK
  <1>4. \A d \in Calls : stage'[d] = "trying" <=> at'[d] # "out"
    BY <1>2 DEF TypeOK
  <1>5. \A d \in Calls : UnderWay(d)' => UnderWay(d)
    BY <1>2 DEF UnderWay
  <1>6. CostInv'
    <2>1. attempt[c] \in 1..MaxAttempts /\ attempt[c] \in Nat \ {0} /\ hits[c] \in Nat
      BY CallsAssumption DEF CostInv, UnderWay, TypeOK
    <2>2. retries[c] + 1 <= PerAttempt /\ retries[c] \in Nat
      BY LimiterAssumption DEF LimiterInv, LimiterTypeOK, PerAttempt
    <2>3. hits[c] <= (attempt[c] - 1) * PerAttempt + retries[c] + 1
      BY <1>2 DEF CostInv, Spent
    <2> DEFINE before == (attempt[c] - 1) * PerAttempt
               after == attempt[c] * PerAttempt
    <2>4. before \in Nat /\ after = before + PerAttempt /\ after <= MaxAttempts * PerAttempt
          /\ MaxAttempts * PerAttempt \in Nat /\ PerAttempt \in Nat
      <3>1. attempt[c] - 1 \in 0..MaxAttempts /\ attempt[c] \in 0..MaxAttempts
            /\ MaxAttempts \in 0..MaxAttempts
        BY <2>1, CallsAssumption
      <3> QED
        BY <2>1, <3>1, Arithmetic
    <2>5. hits[c] <= before + retries[c] + 1
      BY <2>3
    <2> HIDE DEF before, after
    <2>6. hits[c] <= after /\ hits[c] <= MaxAttempts * PerAttempt
      BY <2>1, <2>2, <2>4, <2>5
    <2>7. result'[c] # "turnedAway"
      BY <1>2 DEF CostInv
    <2>8. hits'[c] <= Spent(c)'
      BY <1>2, <2>6 DEF Spent, after
    <2> QED
      BY <1>2, <2>1, <2>6, <2>7, <2>8 DEF CostInv, Spent, UnderWay
  <1> QED
    BY <1>1, <1>3, <1>4, <1>5, <1>6

LEMMA AnswerOkStep ==
    ASSUME Inv, NEW c \in Calls, AnswerOk(c)
    PROVE  Inv'
  <1> USE DEF Inv
  <1>1. attempt' = attempt /\ pause' = pause /\ hits' = hits /\ circuit' = "CLOSED" /\ failures' = 0
        /\ openFor' = 0 /\ under' = under
    BY DEF AnswerOk, RecordSuccess, retryVars
  <1>2. LimiterInv' /\ CostInv'
        /\ result' \in [Calls -> {"none", "ok", "failed", "turnedAway"}]
        /\ stage' \in [Calls -> {"idle", "trying", "backoff", "dlq", "ended"}]
        /\ \A d \in Calls : stage'[d] = "trying" <=> at'[d] # "out"
    BY <1>1, LeaveStep DEF AnswerOk
  <1>3. TypeOK'
    BY <1>1, <1>2, CallsAssumption DEF TypeOK, LimiterInv
  <1>4. CircuitAgrees' /\ BlockInv'
    BY <1>1, CallsAssumption DEF CircuitAgrees, BlockInv, Blocks
  <1> QED
    BY <1>2, <1>3, <1>4

LEMMA AnswerRetryableStep ==
    ASSUME Inv, NEW c \in Calls, AnswerRetryable(c)
    PROVE  Inv'
  <1> USE DEF Inv
  <1>1. /\ attempt' = attempt /\ result' = result /\ hits' = hits
        /\ circuit' = circuit /\ failures' = failures /\ openFor' = openFor /\ under' = under
    BY DEF AnswerRetryable, circuitVars
  <1>2. /\ LimiterInv' /\ CostInv'
        /\ stage' \in [Calls -> {"idle", "trying", "backoff", "dlq", "ended"}]
        /\ \A d \in Calls : stage'[d] = "trying" <=> at'[d] # "out"
        /\ \A d \in Calls : UnderWay(d)' => UnderWay(d)
    BY <1>1, LeaveStep DEF AnswerRetryable
  <1>3. pause' \in [Calls -> Nat]
    <2>1. attempt[c] \in 1..MaxAttempts
      BY DEF AnswerRetryable, CostInv, UnderWay
    <2>2. RetryDelays(c) \subseteq Nat
      BY <2>1, LimiterAssumption, CallsAssumption DEF RetryDelays
    <2> QED
      BY <2>2 DEF AnswerRetryable, TypeOK
  <1>4. TypeOK'
    BY <1>1, <1>2, <1>3 DEF TypeOK, LimiterInv
  <1>5. CircuitAgrees' /\ BlockInv'
    BY <1>1, <1>2 DEF CircuitAgrees, BlockInv, Blocks
  <1> QED
    BY <1>2, <1>4, <1>5

LEMMA AnswerFinalStep ==
    ASSUME Inv, NEW c \in Calls, AnswerFinal(c)
    PROVE  Inv'
  <1> USE DEF Inv
  <1>1. /\ attempt' = attempt /\ pause' = pause /\ hits' = hits
        /\ circuit' = circuit /\ failures' = failures /\ openFor' = openFor /\ under' = under
    BY DEF AnswerFinal, circuitVars, retryVars
  <1>2. /\ LimiterInv' /\ CostInv'
        /\ result' \in [Calls -> {"none", "ok", "failed", "turnedAway"}]
        /\ stage' \in [Calls -> {"idle", "trying", "backoff", "dlq", "ended"}]
        /\ \A d \in Calls : stage'[d] = "trying" <=> at'[d] # "out"
        /\ \A d \in Calls : UnderWay(d)' => UnderWay(d)
    BY <1>1, LeaveStep DEF AnswerFinal
  <1>3. TypeOK'
    BY <1>1, <1>2 DEF TypeOK, LimiterInv
  <1>4. CircuitAgrees' /\ BlockInv'
    BY <1>1, <1>2 DEF CircuitAgrees, BlockInv, Blocks
  <1> QED
    BY <1>2, <1>3, <1>4

LEMMA RetryStep ==
    ASSUME Inv, NEW c \in Calls, Retry(c)
    PROVE  Inv'
  <1> USE DEF Inv
  <1>1. LimiterInv'
    BY EnterInv DEF Retry
  <1>2. /\ stage[c] = "backoff" /\ stage'[c] = "trying" /\ at'[c] = "queued"
        /\ attempt'[c] = attempt[c] + 1
        /\ \A d \in Calls \ {c} : stage'[d] = stage[d] /\ at'[d] = at[d] /\ attempt'[d] = attempt[d]
        /\ retries' = retries /\ hits' = hits /\ result' = result /\ pause' = pause
        /\ circuit' = circuit /\ failures' = failures /\ openFor' = openFor /\ under' = under
    BY DEF Retry, Enter, TypeOK, LimiterInv, LimiterTypeOK, circuitVars
  <1>3. attempt[c] \in 1..MaxAttempts /\ attempt[c] + 1 \in 1..MaxAttempts
    BY <1>2, CallsAssumption DEF CostInv, UnderWay
  <1>4. TypeOK'
    <2>1. \A d \in Calls : stage'[d] = "trying" <=> at'[d] # "out"
      BY <1>2 DEF TypeOK
    <2>2. attempt' \in [Calls -> 0..MaxAttempts]
      BY <1>3, CallsAssumption DEF Retry, TypeOK
    <2>3. stage' \in [Calls -> {"idle", "trying", "backoff", "dlq", "ended"}]
      BY DEF Retry, TypeOK
    <2> QED
      BY <1>1, <1>2, <2>1, <2>2, <2>3 DEF TypeOK, LimiterInv
  <1>5. CostInv'
    <2>1. hits[c] <= attempt[c] * PerAttempt
      BY <1>2 DEF CostInv, Spent
    <2>2. attempt'[c] - 1 = attempt[c] /\ attempt[c] \in Nat /\ hits[c] \in Nat /\ retries[c] \in Nat
      BY <1>2, <1>3, CallsAssumption DEF TypeOK, LimiterInv, LimiterTypeOK
    <2> DEFINE spent == (attempt'[c] - 1) * PerAttempt
    <2>3. Spent(c)' = spent + retries[c] + (IF at'[c] = "calling" THEN 1 ELSE 0)
      BY <1>2, Zenon DEF Spent
    <2>4. spent = attempt[c] * PerAttempt /\ spent \in Nat
      <3>1. attempt[c] \in 0..MaxAttempts
        BY <1>3, CallsAssumption
      <3> QED
        BY <2>2, <3>1, Arithmetic
    <2> HIDE DEF spent
    <2>5. hits'[c] <= Spent(c)'
      BY <1>2, <2>1, <2>2, <2>3, <2>4
    <2> QED
      BY <1>2, <1>3, <2>5 DEF CostInv, Spent, UnderWay
  <1>6. BlockInv' /\ CircuitAgrees'
    BY <1>2 DEF BlockInv, Blocks, CircuitAgrees, UnderWay
  <1> QED
    BY <1>1, <1>4, <1>5, <1>6

LEMMA WriteDeadLetterStep ==
    ASSUME Inv, NEW c \in Calls, WriteDeadLetter(c)
    PROVE  Inv'
  <1> USE DEF Inv
  <1>1. LimiterInv'
    BY DEF WriteDeadLetter, limiterVars, queueVars, quotaVars, LimiterInv, LimiterTypeOK, QueueInv,
           Inside, Chained, InTurn, Holds
  <1>2. /\ stage[c] = "dlq" /\ stage'[c] = "ended"
        /\ \A d \in Calls \ {c} : stage'[d] = stage[d]
        /\ at' = at /\ retries' = retries /\ hits' = hits /\ result' = result
        /\ attempt' = attempt /\ pause' = pause
    BY DEF WriteDeadLetter, TypeOK, limiterVars, retryVars
  <1>3. TypeOK'
    <2>1. stage' \in [Calls -> {"idle", "trying", "backoff", "dlq", "ended"}]
      BY DEF WriteDeadLetter, TypeOK
    <2>2. /\ circuit' \in {"CLOSED", "OPEN", "HALF_OPEN"} /\ failures' \in Nat
          /\ openFor' \in 0..CircuitOpenMs /\ under' \subseteq Calls
      BY CallsAssumption DEF WriteDeadLetter, RecordFailure, TypeOK
    <2> QED
      BY <1>1, <1>2, <2>1, <2>2 DEF TypeOK, LimiterInv
  <1>4. CostInv'
    <2>1. hits[c] <= attempt[c] * PerAttempt /\ attempt[c] \in 1..MaxAttempts /\ hits[c] \in Nat
      BY <1>2 DEF CostInv, Spent, UnderWay, TypeOK
    <2>2. attempt[c] * PerAttempt <= MaxAttempts * PerAttempt
          /\ attempt[c] * PerAttempt \in Nat /\ MaxAttempts * PerAttempt \in Nat
      <3>1. attempt[c] \in 0..MaxAttempts /\ MaxAttempts \in 0..MaxAttempts
        BY <2>1, CallsAssumption
      <3> QED
        BY <3>1, Arithmetic
    <2>3. hits[c] <= MaxAttempts * PerAttempt
      BY <2>1, <2>2
    <2> QED
      BY <1>2, <2>3 DEF CostInv, Spent, UnderWay
  <1>5. BlockInv'
    BY <1>2 DEF WriteDeadLetter, RecordFailure, BlockInv, Blocks, UnderWay
  <1>6. CircuitAgrees'
    BY CallsAssumption DEF WriteDeadLetter, RecordFailure, CircuitAgrees, TypeOK
  <1> QED
    BY <1>1, <1>3, <1>4, <1>5, <1>6

LEMMA TickStep ==
    ASSUME Inv, Tick
    PROVE  Inv'
  <1> USE DEF Inv
  <1>1. LimiterInv'
    BY TickInv DEF Tick
  <1>2. /\ stage' = stage /\ at' = at /\ retries' = retries /\ hits' = hits /\ result' = result
        /\ attempt' = attempt /\ circuit' = circuit /\ failures' = failures /\ under' = under
        /\ openFor' = Less1(openFor) /\ openFor \in 0..CircuitOpenMs
    BY DEF Tick, LimiterTick, TypeOK
  <1>3. TypeOK'
    <2>1. pause' \in [Calls -> Nat]
      BY DEF Tick, TypeOK, Less1
    <2>2. openFor' \in 0..CircuitOpenMs
      BY <1>2, CallsAssumption DEF Less1
    <2> QED
      BY <1>1, <1>2, <2>1, <2>2 DEF TypeOK, LimiterInv
  <1>4. CostInv'
    BY <1>2 DEF CostInv, Spent, UnderWay
  <1>5. BlockInv' /\ CircuitAgrees'
    BY <1>2, CallsAssumption DEF BlockInv, Blocks, UnderWay, CircuitAgrees, Less1
  <1> QED
    BY <1>1, <1>3, <1>4, <1>5

LEMMA InvNext == Inv /\ [Next]_vars => Inv'
  <1> SUFFICES ASSUME Inv, [Next]_vars
               PROVE  Inv'
    OBVIOUS
  <1>1. CASE UNCHANGED vars
    BY <1>1
    DEF vars, limiterVars, queueVars, quotaVars, retryVars, circuitVars, Inv, LimiterInv,
        LimiterTypeOK, QueueInv, Inside, Chained, InTurn, Holds, TypeOK, CostInv, Spent,
        UnderWay, CircuitAgrees, BlockInv, Blocks
  <1>2. ASSUME NEW c \in Calls, TurnedAway(c) \/ Start(c)
        PROVE  Inv'
    BY <1>2, TurnedAwayStep, StartStep
  <1>3. ASSUME NEW c \in Calls, Answer(c)
        PROVE  Inv'
    BY <1>3, AnswerOkStep, ThrottledStep, AnswerRetryableStep, AnswerFinalStep DEF Answer
  <1>4. ASSUME NEW c \in Calls, Proceed(c)
        PROVE  Inv'
    BY <1>3, <1>4, LimiterActionStep, RetryStep, WriteDeadLetterStep DEF Proceed
  <1> QED
    BY <1>1, <1>2, <1>4, TickStep DEF Next

LEMMA InvAlways == Spec => []Inv
  BY InitInv, InvNext, PTL DEF Spec

-----------------------------------------------------------------------------
(* The theorems *)

\* The types of the state of the limiter, the retry wrapper and the circuit
\* breaker, and a call is trying exactly while it is inside the limiter.
THEOREM TypeCorrect == Spec => []TypeOK
  <1>1. Inv => TypeOK
    BY DEF Inv
  <1> QED
    BY <1>1, InvAlways, PTL

\* The calls of an organization have the limiter one at a time, in the order they
\* entered it, whatever retries and failures make them enter and leave.
THEOREM InTurnCorrect == Spec => []InTurn
  <1>1. Inv => InTurn
    BY DEF Inv, LimiterInv, QueueInv
  <1> QED
    BY <1>1, InvAlways, PTL

\* No call costs the provider more than the product of the two retry limits.
THEOREM RequestsCorrect == Spec => []RequestsAreBounded
  <1>1. Inv => RequestsAreBounded
    <2> SUFFICES ASSUME Inv, NEW c \in Calls
                 PROVE  /\ hits[c] <= MaxAttempts * PerAttempt
                        /\ result[c] = "turnedAway" => hits[c] = 0
      BY DEF RequestsAreBounded, PerAttempt
    <2>1. CASE stage[c] = "ended"
      BY <2>1 DEF Inv, CostInv
    <2>2. CASE stage[c] = "idle"
      <3>1. hits[c] \in Nat /\ hits[c] <= 0
        BY <2>2 DEF Inv, CostInv, Spent, TypeOK
      <3>2. MaxAttempts \in 0..MaxAttempts
        BY CallsAssumption
      <3>3. MaxAttempts * PerAttempt \in Nat
        BY <3>2, Arithmetic
      <3> QED
        BY <2>2, <3>1, <3>3 DEF Inv, CostInv
    <2>3. CASE UnderWay(c)
      <3>1. attempt[c] \in 1..MaxAttempts /\ hits[c] \in Nat
        BY <2>3 DEF Inv, CostInv, TypeOK
      <3>2. /\ attempt[c] \in 0..MaxAttempts /\ MaxAttempts \in 0..MaxAttempts
            /\ attempt[c] - 1 \in 0..MaxAttempts /\ attempt[c] \in Nat \ {0}
        BY <3>1, CallsAssumption
      <3> DEFINE before == (attempt[c] - 1) * PerAttempt
                 after == attempt[c] * PerAttempt
      <3>3. /\ before \in Nat /\ after \in Nat /\ after = before + PerAttempt
            /\ after <= MaxAttempts * PerAttempt /\ MaxAttempts * PerAttempt \in Nat
        BY <3>2, Arithmetic
      <3>4. retries[c] + 1 <= PerAttempt /\ retries[c] \in Nat /\ PerAttempt \in Nat
        BY LimiterAssumption DEF Inv, LimiterInv, LimiterTypeOK, PerAttempt
      <3>5. \/ hits[c] <= before + retries[c] + (IF at[c] = "calling" THEN 1 ELSE 0)
            \/ hits[c] <= after
        BY <2>3 DEF Inv, CostInv, Spent, UnderWay
      <3> HIDE DEF before, after
      <3>6. hits[c] <= MaxAttempts * PerAttempt
        BY <3>1, <3>3, <3>4, <3>5
      <3> QED
        BY <2>3, <3>6 DEF Inv, CostInv, UnderWay
    <2> QED
      BY <2>1, <2>2, <2>3 DEF Inv, TypeOK, UnderWay
  <1> QED
    BY <1>1, InvAlways, PTL

\* The circuit is closed exactly while fewer calls than the threshold have failed
\* in a row.
THEOREM CircuitCorrect == Spec => []CircuitAgrees
  <1>1. Inv => CircuitAgrees
    BY DEF Inv
  <1> QED
    BY <1>1, InvAlways, PTL

\* Only the success of a call that was under way when the circuit opened closes it
\* before its time.
THEOREM EarlyCloseCorrect == Spec => EarlyCloseIsEarned
  <1> DEFINE Earned == Blocks /\ circuit' # "OPEN" =>
                 \E c \in under : UnderWay(c) /\ stage'[c] = "ended" /\ result'[c] = "ok"
  <1>1. ASSUME Inv, [Next]_vars
        PROVE  [Earned]_vars
    <2> SUFFICES ASSUME Next, Blocks, circuit' # "OPEN"
                 PROVE  \E c \in under : UnderWay(c) /\ stage'[c] = "ended" /\ result'[c] = "ok"
      BY <1>1
    <2>1. PICK c \in Calls : AnswerOk(c)
      BY DEF Next, Tick, TurnedAway, Start, Proceed, Limiter, Answer, AnswerThrottled,
             AnswerRetryable, AnswerFinal, Retry, WriteDeadLetter, RecordFailure, circuitVars, Blocks
    <2>2. UnderWay(c) /\ stage'[c] = "ended" /\ result'[c] = "ok"
      BY <1>1, <2>1 DEF AnswerOk, UnderWay, Inv, TypeOK
    <2> QED
      BY <1>1, <2>2 DEF Inv, BlockInv
  <1> QED
    BY <1>1, InvAlways, PTL DEF Spec, EarlyCloseIsEarned

-----------------------------------------------------------------------------
(* What holds of the limiter holds of the calls that go through it *)

\* Seen from the limiter, the wrappers around it are the outside from which calls
\* enter at any time: every behaviour of the calls is one of the limiter.
THEOREM ImplementsLimiter == Spec => LimiterSpec
  <1>1. Init => LimiterInit
    BY DEF Init
  <1>2. [Next]_vars => [LimiterNext]_limiterVars
    <2> SUFFICES ASSUME [Next]_vars
                 PROVE  LimiterNext \/ UNCHANGED limiterVars
      OBVIOUS
    <2>1. CASE UNCHANGED vars
      BY <2>1 DEF vars
    <2>2. ASSUME NEW c \in Calls, TurnedAway(c) \/ Start(c)
          PROVE  LimiterNext \/ UNCHANGED limiterVars
      BY <2>2 DEF TurnedAway, Start, LimiterNext
    <2>3. ASSUME NEW c \in Calls, Proceed(c)
          PROVE  LimiterNext \/ UNCHANGED limiterVars
      BY <2>3
      DEF Proceed, Limiter, LimiterStep, Answer, AnswerOk, AnswerThrottled, AnswerRetryable,
          AnswerFinal, Retry, WriteDeadLetter, LimiterNext
    <2> QED
      BY <2>1, <2>2, <2>3 DEF Next, Tick, LimiterNext
  <1> QED
    BY <1>1, <1>2, PTL DEF Spec, LimiterSpec

\* Retries, backoffs and the circuit make no organization exceed its quota: a
\* period as long as a window sees two quotas of requests at most, and one since
\* the window began.
THEOREM QuotaCorrect == Spec => []QuotaKept
  BY ImplementsLimiter, LimiterQuota, PTL

-----------------------------------------------------------------------------
(* No call goes round in circles *)

\* How near a call is to its slot: it may have to sleep for a block first, then
\* for the window.
Nearness(c) ==
    IF at[c] = "calling" THEN 3
    ELSE IF at[c] # "asleep" THEN 0
    ELSE IF sleep[c] = WindowMs - age THEN 2
    ELSE 1

StageNumber == [idle |-> 0, trying |-> 1, backoff |-> 2, dlq |-> 3, ended |-> 4]

Progress(c) == <<attempt[c], StageNumber[stage[c]], retries[c], Nearness(c)>>

\* Progress is compared from its first part on.
Before(p, q) == \E i \in 1..4 : p[i] < q[i] /\ \A j \in 1..(i - 1) : p[j] = q[j]

\* Whatever a call does brings it further, and nothing that others do, and no
\* passing of time, throws it back.
CallsAdvance ==
    [][\A c \in Calls : /\ Proceed(c) => Before(Progress(c), Progress(c)')
                        /\ Progress(c)' = Progress(c) \/ Before(Progress(c), Progress(c)')]_vars

LEMMA BeforeByParts ==
    ASSUME NEW p1, NEW p2, NEW p3, NEW p4, NEW q1, NEW q2, NEW q3, NEW q4,
           \/ p1 < q1
           \/ p1 = q1 /\ p2 < q2
           \/ p1 = q1 /\ p2 = q2 /\ p3 < q3
           \/ p1 = q1 /\ p2 = q2 /\ p3 = q3 /\ p4 < q4
    PROVE  Before(<<p1, p2, p3, p4>>, <<q1, q2, q3, q4>>)
  <1> DEFINE p == <<p1, p2, p3, p4>>
             q == <<q1, q2, q3, q4>>
  <1>1. /\ p[1] = p1 /\ p[2] = p2 /\ p[3] = p3 /\ p[4] = p4
        /\ q[1] = q1 /\ q[2] = q2 /\ q[3] = q3 /\ q[4] = q4
    OBVIOUS
  <1> HIDE DEF p, q
  <1>2. CASE p1 < q1
    <2>1. p[1] < q[1] /\ \A j \in 1..(1 - 1) : p[j] = q[j]
      BY <1>1, <1>2
    <2> QED
      BY <2>1 DEF Before, p, q
  <1>3. CASE p1 = q1 /\ p2 < q2
    <2>1. p[2] < q[2] /\ \A j \in 1..(2 - 1) : p[j] = q[j]
      BY <1>1, <1>3
    <2> QED
      BY <2>1 DEF Before, p, q
  <1>4. CASE p1 = q1 /\ p2 = q2 /\ p3 < q3
    <2>1. p[3] < q[3] /\ \A j \in 1..(3 - 1) : p[j] = q[j]
      BY <1>1, <1>4
    <2> QED
      BY <2>1 DEF Before, p, q
  <1>5. CASE p1 = q1 /\ p2 = q2 /\ p3 = q3 /\ p4 < q4
    <2>1. p[4] < q[4] /\ \A j \in 1..(4 - 1) : p[j] = q[j]
      BY <1>1, <1>5
    <2> QED
      BY <2>1 DEF Before, p, q
  <1> QED
    BY <1>2, <1>3, <1>4, <1>5

\* The step of a call to another stage of the same attempt.
LEMMA StageAdvance ==
    ASSUME NEW c \in Calls, attempt'[c] = attempt[c],
           StageNumber[stage[c]] < StageNumber[stage'[c]]
    PROVE  Before(Progress(c), Progress(c)')
  BY BeforeByParts DEF Progress

\* What moves within a stage.
LEMMA LimiterAdvance ==
    ASSUME NEW c \in Calls, attempt'[c] = attempt[c], stage'[c] = stage[c],
           \/ retries[c] < retries'[c]
           \/ retries'[c] = retries[c] /\ Nearness(c) < Nearness(c)'
    PROVE  Before(Progress(c), Progress(c)')
  BY BeforeByParts DEF Progress

\* A call none of whose own fields change.
LEMMA OthersStay ==
    ASSUME NEW c \in Calls, attempt'[c] = attempt[c], stage'[c] = stage[c],
           retries'[c] = retries[c], Nearness(c)' = Nearness(c)
    PROVE  Progress(c)' = Progress(c)
  BY DEF Progress

\* A step of the limiter brings its call nearer to the slot: who wakes up is not
\* blocked, and not kept by the same window again.
LEMMA SlotNearer ==
    ASSUME LimiterInv, WaitInv, NEW c \in Calls, LimiterStep(c)
    PROVE  /\ Nearness(c) < Nearness(c)' /\ retries' = retries
           /\ \A d \in Calls \ {c} : Nearness(d)' = Nearness(d)
  <1>1. /\ AtAcquire(c) /\ retries' = retries
        /\ \A d \in Calls \ {c} : at'[d] = at[d]
    BY DEF LimiterStep, AwaitBlock, AwaitWindow, TakeSlot, SleepFor, LimiterInv, LimiterTypeOK
  <1>2. \A d \in Calls \ {c} : Nearness(d)' = Nearness(d)
    BY <1>1, OneActs DEF Nearness, Holds
  <1>3. \/ at[c] = "queued"
        \/ at[c] = "asleep" /\ sleep[c] = 0 /\ blocked = 0
    BY <1>1 DEF AtAcquire, WaitInv, DeadlineInv, SleepIsExact
  <1>4. age \in 0..WindowMs /\ count \in 0..TierLimit /\ WindowMs \in Nat /\ TierLimit \in Nat \ {0}
    BY LimiterAssumption DEF LimiterInv, LimiterTypeOK
  <1>5. CASE AwaitBlock(c)
    <2>1. at'[c] = "asleep" /\ blocked # 0
      BY <1>5 DEF AwaitBlock, SleepFor, LimiterInv, LimiterTypeOK
    <2>2. Nearness(c) = 0 /\ Nearness(c)' \in {1, 2}
      BY <1>3, <2>1 DEF Nearness
    <2> QED
      BY <1>1, <1>2, <2>2
  <1>6. CASE AwaitWindow(c)
    <2>1. /\ at'[c] = "asleep" /\ sleep'[c] = WindowMs - age' /\ age < WindowMs
      BY <1>4, <1>6
      DEF AwaitWindow, SleepFor, LimiterInv, LimiterTypeOK, Larger, WindowAge, WindowCount, Expired
    <2>2. Nearness(c) \in {0, 1}
      BY <1>3, <1>4, <2>1 DEF Nearness
    <2>3. Nearness(c)' = 2
      BY <2>1 DEF Nearness
    <2> QED
      BY <1>1, <1>2, <2>2, <2>3
  <1>7. CASE TakeSlot(c)
    <2>1. at'[c] = "calling"
      BY <1>7 DEF TakeSlot, LimiterInv, LimiterTypeOK
    <2>2. Nearness(c) \in {0, 1, 2} /\ Nearness(c)' = 3
      BY <1>3, <2>1 DEF Nearness
    <2> QED
      BY <1>1, <1>2, <2>2
  <1> QED
    BY <1>5, <1>6, <1>7 DEF LimiterStep

\* Entering and leaving change nothing of the other calls.
LEMMA OthersKeepNearness ==
    ASSUME LimiterInv, NEW c \in Calls, Enter(c) \/ Leave(c)
    PROVE  \A d \in Calls \ {c} : retries'[d] = retries[d] /\ Nearness(d)' = Nearness(d)
  BY DEF Enter, Leave, Nearness, LimiterInv, LimiterTypeOK, quotaVars

Forward(c) ==
    /\ Before(Progress(c), Progress(c)')
    /\ \A d \in Calls \ {c} : Progress(d)' = Progress(d)

\* A call that has not begun has made no attempt.
IdleInv == \A c \in Calls : stage[c] = "idle" => attempt[c] = 0

LEMMA IdleNext == TypeOK /\ IdleInv /\ [Next]_vars => IdleInv'
  <1> SUFFICES ASSUME TypeOK, IdleInv, [Next]_vars
               PROVE  IdleInv'
    OBVIOUS
  <1>1. \A c \in Calls : stage'[c] = "idle" => stage[c] = "idle" /\ attempt'[c] = attempt[c]
    BY DEF vars, retryVars, Next, TurnedAway, Start, Proceed, Limiter, Answer, AnswerOk,
           AnswerThrottled, AnswerRetryable, AnswerFinal, Retry, WriteDeadLetter, Tick, TypeOK
  <1> QED
    BY <1>1 DEF IdleInv

LEMMA StartForward ==
    ASSUME Inv, IdleInv, NEW c \in Calls, TurnedAway(c) \/ Start(c) \/ Retry(c)
    PROVE  Forward(c)
  <1> USE DEF Inv
  <1>1. /\ \A d \in Calls \ {c} : stage'[d] = stage[d] /\ attempt'[d] = attempt[d]
        /\ attempt[c] \in Nat
    BY CallsAssumption DEF TurnedAway, Start, Retry, TypeOK, retryVars
  <1>2. \A d \in Calls \ {c} : retries'[d] = retries[d] /\ Nearness(d)' = Nearness(d)
    <2>1. CASE TurnedAway(c)
      BY <2>1 DEF TurnedAway, limiterVars, quotaVars, Nearness
    <2> QED
      BY <2>1, OthersKeepNearness DEF Start, Retry
  <1>3. Before(Progress(c), Progress(c)')
    <2>1. CASE TurnedAway(c)
      <3>1. stage[c] = "idle" /\ stage'[c] = "ended" /\ attempt' = attempt
        BY <2>1 DEF TurnedAway, TypeOK, retryVars
      <3> QED
        BY <3>1, StageAdvance DEF StageNumber
    <2>2. CASE Start(c)
      <3>1. stage[c] = "idle" /\ stage'[c] = "trying" /\ attempt'[c] = 1
        BY <2>2 DEF Start, TypeOK
      <3>2. attempt[c] < attempt'[c]
        BY <3>1 DEF IdleInv
      <3> QED
        BY <3>2, BeforeByParts DEF Progress
    <2>3. CASE Retry(c)
      <3>1. attempt[c] < attempt'[c]
        BY <1>1, <2>3 DEF Retry, TypeOK
      <3> QED
        BY <3>1, BeforeByParts DEF Progress
    <2> QED
      BY <2>1, <2>2, <2>3
  <1> QED
    BY <1>1, <1>2, <1>3, OthersStay DEF Forward

LEMMA ProceedForward ==
    ASSUME Inv, WaitInv, IdleInv, NEW c \in Calls, Proceed(c)
    PROVE  Forward(c)
  <1> USE DEF Inv
  <1>1. CASE Limiter(c)
    <2>1. LimiterStep(c) /\ stage' = stage /\ attempt' = attempt
      BY <1>1 DEF Limiter, LimiterStep, retryVars
    <2> QED
      BY <2>1, SlotNearer, LimiterAdvance, OthersStay DEF Forward
  <1>2. CASE AnswerThrottled(c)
    <2>1. /\ stage' = stage /\ attempt' = attempt /\ retries[c] < retries'[c] /\ Holds(c)
          /\ \A d \in Calls \ {c} : retries'[d] = retries[d] /\ at'[d] = at[d]
      BY <1>2 DEF AnswerThrottled, Throttled, SleepFor, Holds, LimiterInv, LimiterTypeOK, retryVars
    <2>2. \A d \in Calls \ {c} : Nearness(d)' = Nearness(d)
      BY <2>1, OneActs DEF Nearness, Holds
    <2>3. Before(Progress(c), Progress(c)')
      BY <2>1, LimiterAdvance
    <2> QED
      BY <2>1, <2>2, <2>3, OthersStay DEF Forward
  <1>3. CASE AnswerOk(c) \/ AnswerRetryable(c) \/ AnswerFinal(c)
    <2>1. /\ stage[c] = "trying" /\ stage'[c] \in {"ended", "backoff", "dlq"} /\ attempt' = attempt
          /\ \A d \in Calls \ {c} : stage'[d] = stage[d]
      BY <1>3 DEF AnswerOk, AnswerRetryable, AnswerFinal, TypeOK, retryVars
    <2>2. StageNumber[stage[c]] < StageNumber[stage'[c]]
      BY <2>1 DEF StageNumber
    <2>3. \A d \in Calls \ {c} : retries'[d] = retries[d] /\ Nearness(d)' = Nearness(d)
      BY <1>3, OthersKeepNearness DEF AnswerOk, AnswerRetryable, AnswerFinal
    <2> QED
      BY <2>1, <2>2, <2>3, StageAdvance, OthersStay DEF Forward
  <1>4. CASE WriteDeadLetter(c)
    <2>1. /\ stage[c] = "dlq" /\ stage'[c] = "ended" /\ attempt' = attempt
          /\ \A d \in Calls \ {c} : stage'[d] = stage[d]
          /\ retries' = retries /\ at' = at /\ sleep' = sleep /\ age' = age
      BY <1>4 DEF WriteDeadLetter, TypeOK, retryVars, limiterVars, quotaVars
    <2>2. StageNumber[stage[c]] < StageNumber[stage'[c]]
      BY <2>1 DEF StageNumber
    <2>3. \A d \in Calls \ {c} : Nearness(d)' = Nearness(d)
      BY <2>1 DEF Nearness
    <2> QED
      BY <2>1, <2>2, <2>3, StageAdvance, OthersStay DEF Forward
  <1> QED
    BY <1>1, <1>2, <1>3, <1>4, StartForward DEF Proceed, Answer

\* Time brings a sleeper nearer, if anything.
LEMMA TickForward ==
    ASSUME Inv, Tick, NEW c \in Calls
    PROVE  Progress(c)' = Progress(c) \/ Before(Progress(c), Progress(c)')
  <1> USE DEF Inv
  <1>1. /\ stage' = stage /\ attempt' = attempt /\ retries' = retries /\ at' = at
        /\ age' = Smaller(age + 1, WindowMs) /\ sleep'[c] = Less1(sleep[c])
    BY DEF Tick, LimiterTick
  <1>2. age \in 0..WindowMs /\ WindowMs \in Nat /\ sleep[c] \in Nat
    BY LimiterAssumption DEF LimiterInv, LimiterTypeOK
  <1>3. sleep[c] = WindowMs - age => sleep'[c] = WindowMs - age'
    BY <1>1, <1>2 DEF Smaller, Less1
  <1>4. Nearness(c)' = Nearness(c) \/ Nearness(c) < Nearness(c)'
    BY <1>1, <1>3 DEF Nearness
  <1> QED
    BY <1>1, <1>4, OthersStay, LimiterAdvance

\* A call takes a bounded number of steps: each of them brings it further, through
\* the sleeps of the limiter, its retries, the attempts of the wrapper and the
\* dead letter, and neither the other calls nor time throw it back.
THEOREM CallsForward == Spec => CallsAdvance
  <1> DEFINE Step(c) == /\ Proceed(c) => Before(Progress(c), Progress(c)')
                        /\ Progress(c)' = Progress(c) \/ Before(Progress(c), Progress(c)')
  <1>1. ASSUME Inv, WaitInv, IdleInv, [Next]_vars
        PROVE  [\A c \in Calls : Step(c)]_vars
    <2> SUFFICES ASSUME Next, NEW c \in Calls
                 PROVE  Step(c)
      BY <1>1
    <2>1. ASSUME Proceed(c) PROVE Before(Progress(c), Progress(c)')
      BY <1>1, <2>1, ProceedForward DEF Forward
    <2>2. ASSUME NEW d \in Calls, Forward(d)
          PROVE  Progress(c)' = Progress(c) \/ Before(Progress(c), Progress(c)')
      BY <2>2 DEF Forward
    <2>3. (\E d \in Calls : Forward(d)) \/ Tick
      BY <1>1, StartForward, ProceedForward DEF Next
    <2> QED
      BY <1>1, <2>1, <2>2, <2>3, TickForward
  <1>2. Init => IdleInv
    BY DEF Init, IdleInv
  <1>3. Inv => TypeOK
    BY DEF Inv
  <1> QED
    BY <1>1, <1>2, <1>3, IdleNext, InvAlways, ImplementsLimiter, WaitAlways, PTL
    DEF Spec, CallsAdvance

=============================================================================
