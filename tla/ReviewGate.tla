----------------------------- MODULE ReviewGate -----------------------------
(***************************************************************************)
(* The two use cases that decide whether a review may run, for one         *)
(* repository: ThrottleReviewUseCase (at most so many reviews a window)    *)
(* and ManageReviewCadenceUseCase in auto-pause mode (no reviews once      *)
(* enough suggestions were made, until somebody resumes).  Each keeps one  *)
(* entry in the cache, reads it in one await and writes it in another.     *)
(* Calls overlap; a cache call may fail, and a write may take effect all   *)
(* the same.                                                               *)
(***************************************************************************)
EXTENDS Naturals

CONSTANTS Calls,             \* calls of either use case
          MaxReviews,        \* maxReviewsPerWindow
          WindowSeconds,
          Threshold,         \* autoPauseThreshold
          SuggestionCounts,  \* what the triggers of the cadence report
          MaxTime,           \* bound of the clock, in seconds
          MaxDisturbances    \* bound: failed cache calls, lost replies

ASSUME GateAssumption ==
    /\ MaxReviews \in Nat \ {0}
    /\ WindowSeconds \in Nat \ {0}
    /\ Threshold \in Nat \ {0}
    /\ SuggestionCounts \subseteq Nat
    /\ MaxTime \in Nat
    /\ MaxDisturbances \in Nat

VARIABLES
    clock,
    pc,            \* what a call awaits: "idle", "get", "set", "save", "done"
    now,           \* nowInSeconds of a throttle call
    window,        \* the throttle state it is about to write
    event,         \* the event of a cadence call
    autoPauseNext, \* the state it is about to write
    bucket,        \* the throttle entry, windowStart and reviewCount
    expires,       \* when its ttl ends
    autoPause,     \* the auto-pause entry; an absent one loads as the first
    admitted,      \* history: reviews counted in the bucket, by window
    allowed,       \* history: reviews allowed, by window
    refused,       \* history: windows in which a review was refused
    punctual,      \* history: throttle calls came in turn and within a window
    begun,         \* history: suggestions of triggers since the last resume
    answered,      \* history: those of triggers that were answered
    cleanResume,   \* history: no trigger was under way at the last resume
    inTurn,        \* history: and none overlapped another call since
    disturbances

throttle == <<now, window, bucket, expires, admitted, allowed, refused, punctual>>
cadence  == <<event, autoPauseNext, autoPause, begun, answered, cleanResume, inTurn>>
vars     == <<clock, pc, throttle, cadence, disturbances>>

-----------------------------------------------------------------------------

Times == 0..MaxTime

NoBucket == [windowStart |-> 0, reviewCount |-> 0]

Fresh == [paused |-> FALSE, suggestionCount |-> 0]

Events == [type : {"trigger"}, count : SuggestionCounts] \union
          [type : {"resume"}, count : {0}]

InThrottle == {c \in Calls : pc[c] \in {"get", "set"}}
InCadence  == {c \in Calls : pc[c] = "save"}

Disturb == /\ disturbances < MaxDisturbances
           /\ disturbances' = disturbances + 1

Goto(c, l) == pc' = [pc EXCEPT ![c] = l]

-----------------------------------------------------------------------------
(* ThrottleReviewUseCase *)

WindowStart(n) == (n \div WindowSeconds) * WindowSeconds

\* Mutants: the window ends one second early; it never ends.
AdvanceEarly(state, n) ==
    IF state.windowStart > n \/ state.windowStart + WindowSeconds <= n + 1
    THEN [windowStart |-> WindowStart(n), reviewCount |-> 0]
    ELSE state
AdvanceNever(state, n) ==
    IF state.windowStart > n
    THEN [windowStart |-> WindowStart(n), reviewCount |-> 0]
    ELSE state

\* advanceWindowState
AdvanceWindowState(state, n) ==
    IF state.windowStart > n \/ state.windowStart + WindowSeconds <= n
    THEN [windowStart |-> WindowStart(n), reviewCount |-> 0]
    ELSE state

\* loadThrottleState
Loaded == IF clock < expires THEN bucket ELSE NoBucket

\* The call reads the clock and asks for the entry.
Ask(c) ==
    /\ pc[c] = "idle"
    /\ Goto(c, "get")
    /\ now' = [now EXCEPT ![c] = clock]
    /\ punctual' = (punctual /\ InThrottle = {})
    /\ UNCHANGED <<clock, window, bucket, expires, admitted, allowed, refused, cadence, disturbances>>

\* Mutant: one review too many.
AdmitsOneMore(state) == state.reviewCount <= MaxReviews

Admits(state) == state.reviewCount < MaxReviews

\* The entry arrives: the review is refused, or counted in a new entry.
Decide(c) ==
    LET n == now[c]
        state == AdvanceWindowState(Loaded, n)
    IN  /\ pc[c] = "get"
        /\ punctual' = (punctual /\ WindowStart(n) = WindowStart(clock))
        /\ \/ /\ Admits(state)
              /\ Goto(c, "set")
              /\ window' = [window EXCEPT ![c] =
                    [windowStart |-> WindowStart(n), reviewCount |-> state.reviewCount + 1]]
              /\ UNCHANGED refused
           \/ /\ ~Admits(state)
              /\ Goto(c, "done")
              /\ refused' = refused \union {WindowStart(n)}
              /\ UNCHANGED window
        /\ UNCHANGED <<clock, now, bucket, expires, admitted, allowed, cadence, disturbances>>

\* The entry is written with a ttl of one window, and the review allowed
\* unless the reply is lost.
Admit(c) ==
    LET w == window[c].windowStart
    IN  /\ pc[c] = "set"
        /\ Goto(c, "done")
        /\ bucket' = window[c]
        /\ expires' = clock + WindowSeconds
        /\ admitted' = [admitted EXCEPT ![w] = @ + 1]
        /\ \/ allowed' = [allowed EXCEPT ![w] = @ + 1] /\ UNCHANGED disturbances
           \/ Disturb /\ UNCHANGED allowed
        /\ UNCHANGED <<clock, now, window, refused, punctual, cadence>>

-----------------------------------------------------------------------------
(* ManageReviewCadenceUseCase, auto-pause mode *)

\* Mutant: resuming keeps the count.
TransitionKeepingCount(state, e) ==
    IF e.type = "resume" THEN [state EXCEPT !.paused = FALSE]
    ELSE [paused |-> state.suggestionCount + e.count >= Threshold,
          suggestionCount |-> state.suggestionCount + e.count]

\* applyAutoPauseTransition; automatic and manual triggers do the same.
Transition(state, e) ==
    IF e.type = "resume" THEN Fresh
    ELSE [paused |-> state.suggestionCount + e.count >= Threshold,
          suggestionCount |-> state.suggestionCount + e.count]

\* loadAutoPauseState, the transition and the decision.
Load(c) ==
    /\ pc[c] = "idle"
    /\ Goto(c, "save")
    /\ \E e \in Events :
          /\ event' = [event EXCEPT ![c] = e]
          /\ autoPauseNext' = [autoPauseNext EXCEPT ![c] = Transition(autoPause, e)]
          /\ begun' = begun + e.count
    /\ inTurn' = (inTurn /\ InCadence = {})
    /\ UNCHANGED <<clock, autoPause, answered, cleanResume, throttle, disturbances>>

\* saveAutoPauseState; the decision is returned unless the reply is lost.
Save(c) ==
    /\ pc[c] = "save"
    /\ Goto(c, "done")
    /\ autoPause' = autoPauseNext[c]
    /\ IF event[c].type = "resume"
       THEN /\ begun' = 0
            /\ answered' = 0
            /\ cleanResume' = \A o \in InCadence \ {c} : event[o].type = "resume"
            /\ inTurn' = (InCadence = {c})
            /\ Disturb \/ UNCHANGED disturbances
       ELSE /\ \/ answered' = answered + event[c].count /\ UNCHANGED disturbances
               \/ Disturb /\ UNCHANGED answered
            /\ UNCHANGED <<begun, cleanResume, inTurn>>
    /\ UNCHANGED <<clock, event, autoPauseNext, throttle>>

-----------------------------------------------------------------------------

\* A call of the cache rejects without an effect, and the use case with it.
CacheFails(c) ==
    /\ pc[c] \in {"get", "set", "save"}
    /\ Disturb
    /\ Goto(c, "done")
    /\ UNCHANGED <<clock, throttle, cadence>>

Tick == /\ clock < MaxTime
        /\ clock' = clock + 1
        /\ UNCHANGED <<pc, throttle, cadence, disturbances>>

Init ==
    /\ clock = 0
    /\ pc = [c \in Calls |-> "idle"]
    /\ now = [c \in Calls |-> 0]
    /\ window = [c \in Calls |-> NoBucket]
    /\ event = [c \in Calls |-> [type |-> "resume", count |-> 0]]
    /\ autoPauseNext = [c \in Calls |-> Fresh]
    /\ bucket = NoBucket
    /\ expires = 0
    /\ autoPause = Fresh
    /\ admitted = [w \in Times |-> 0]
    /\ allowed = [w \in Times |-> 0]
    /\ refused = {}
    /\ punctual = TRUE
    /\ begun = 0
    /\ answered = 0
    /\ cleanResume = TRUE
    /\ inTurn = TRUE
    /\ disturbances = 0

Next == \/ \E c \in Calls : Ask(c) \/ Decide(c) \/ Admit(c) \/ Load(c) \/ Save(c) \/ CacheFails(c)
        \/ Tick

Spec == Init /\ [][Next]_vars

-----------------------------------------------------------------------------
(* Properties *)

Buckets == [windowStart : Times, reviewCount : 0..MaxReviews]

AutoPauses == [paused : BOOLEAN, suggestionCount : Nat]

\* Types of the variables; no entry counts more reviews than are allowed.
TypeOK ==
    /\ clock \in Times
    /\ pc \in [Calls -> {"idle", "get", "set", "save", "done"}]
    /\ now \in [Calls -> Times]
    /\ window \in [Calls -> Buckets]
    /\ event \in [Calls -> [type : {"trigger", "resume"}, count : Nat]]
    /\ autoPauseNext \in [Calls -> AutoPauses]
    /\ bucket \in Buckets
    /\ expires \in Nat
    /\ autoPause \in AutoPauses
    /\ admitted \in [Times -> Nat]
    /\ allowed \in [Times -> Nat]
    /\ refused \subseteq Times
    /\ punctual \in BOOLEAN
    /\ begun \in Nat
    /\ answered \in Nat
    /\ cleanResume \in BOOLEAN
    /\ inTurn \in BOOLEAN
    /\ disturbances \in 0..MaxDisturbances

\* As long as the throttle's calls come one after the other, and each gets the
\* entry within the window of the clock it has read, no window has more reviews
\* than allowed: across windows, ttls, failed and half-failed writes.
LimitInTurn == punctual => \A w \in Times : allowed[w] <= MaxReviews

\* Whatever overlaps, a review is refused only in a window that has counted as
\* many as are allowed: no count of another window is held against it.
RefusalsAreEarned == \A w \in refused : admitted[w] >= MaxReviews

\* After a resume that no trigger overlapped, the reviews pause again only after
\* as many suggestions as the threshold, whatever the triggers since then do to
\* each other; and while they come in turn, none that was answered is forgotten.
SuggestionsAreCounted ==
    cleanResume => /\ autoPause.paused => begun >= Threshold
                   /\ autoPause.suggestionCount <= begun
                   /\ inTurn => answered <= autoPause.suggestionCount
=============================================================================
