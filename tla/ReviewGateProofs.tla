-------------------------- MODULE ReviewGateProofs --------------------------
(***************************************************************************)
(* Proofs about ReviewGate for any calls, limits, windows and bounds.      *)
(***************************************************************************)
EXTENDS ReviewGate, TLAPS

-----------------------------------------------------------------------------
(* Windows *)

\* Multiples of a window are at least a window apart.
LEMMA MultiplesApart ==
    ASSUME NEW a \in Nat, NEW b \in Nat, NEW s \in Nat, a < b
    PROVE  a * s + s <= b * s
<1>1. PICK d \in Nat : b = a + 1 + d
  <2>1. b - a - 1 \in Nat /\ b = a + 1 + (b - a - 1)
    BY SMT
  <2> QED  BY <2>1
<1>2. b * s = a * s + s + d * s
  BY <1>1, SMT
<1>3. a * s \in Nat /\ d * s \in Nat
  BY SMT
<1> QED  BY <1>2, <1>3, SMT

\* A moment lies in the window that starts at its WindowStart.
LEMMA WindowHolds ==
    ASSUME NEW n \in Nat
    PROVE  /\ WindowStart(n) \in Nat
           /\ WindowStart(n) <= n
           /\ n < WindowStart(n) + WindowSeconds
BY GateAssumption, SMT DEF WindowStart

\* Inside the window that starts at w, WindowStart is w.
LEMMA WindowIsItsStart ==
    ASSUME NEW w \in Nat, WindowStart(w) = w, NEW n \in Nat,
           w <= n, n < w + WindowSeconds
    PROVE  WindowStart(n) = w
<1> DEFINE p == w \div WindowSeconds
           q == n \div WindowSeconds
<1>1. p \in Nat /\ q \in Nat /\ p * WindowSeconds = w /\ q * WindowSeconds = WindowStart(n)
  BY GateAssumption, SMT DEF WindowStart
<1>2. WindowStart(n) \in Nat /\ WindowStart(n) <= n /\ n < WindowStart(n) + WindowSeconds
  BY WindowHolds
<1>3. WindowSeconds \in Nat
  BY GateAssumption
<1> HIDE DEF p, q
<1>4. ~(p < q)
  <2>1. p < q => p * WindowSeconds + WindowSeconds <= q * WindowSeconds
    BY <1>1, <1>3, MultiplesApart
  <2> QED  BY <1>1, <1>2, <1>3, <2>1, SMT
<1>5. ~(q < p)
  <2>1. q < p => q * WindowSeconds + WindowSeconds <= p * WindowSeconds
    BY <1>1, <1>3, MultiplesApart
  <2> QED  BY <1>1, <1>2, <1>3, <2>1, SMT
<1>6. p = q
  BY <1>1, <1>4, <1>5, SMT
<1> QED  BY <1>1, <1>6

\* A window that has started is not later than the current one.
LEMMA StartedBefore ==
    ASSUME NEW w \in Nat, WindowStart(w) = w, NEW n \in Nat, w <= n
    PROVE  w <= WindowStart(n)
<1>1. WindowStart(n) \in Nat /\ WindowStart(n) <= n /\ n < WindowStart(n) + WindowSeconds
  BY WindowHolds
<1>2. CASE n < w + WindowSeconds
  BY <1>2, WindowIsItsStart, SMT
<1>3. CASE w + WindowSeconds <= n
  BY <1>1, <1>3, GateAssumption, SMT
<1> QED  BY <1>2, <1>3, GateAssumption, SMT

\* A WindowStart starts its own window.
LEMMA StartStartsItself ==
    ASSUME NEW n \in Nat
    PROVE  WindowStart(WindowStart(n)) = WindowStart(n)
<1> DEFINE q == n \div WindowSeconds
<1>1. q \in Nat /\ WindowStart(n) = q * WindowSeconds
  BY GateAssumption, SMT DEF WindowStart
<1>2. (q * WindowSeconds) \div WindowSeconds = q
  BY <1>1, GateAssumption, SMT
<1> QED  BY <1>1, <1>2 DEF WindowStart

-----------------------------------------------------------------------------
(* Types *)

LEMMA WindowStartType ==
    ASSUME NEW n \in Times
    PROVE  WindowStart(n) \in Times
BY WindowHolds, GateAssumption, SMT DEF Times

\* What a call decides on is an entry.
LEMMA AdvanceType ==
    ASSUME NEW n \in Times, bucket \in Buckets
    PROVE  AdvanceWindowState(Loaded, n) \in Buckets
<1>1. WindowStart(n) \in Times
  BY WindowStartType
<1>2. Loaded \in Buckets
  BY GateAssumption, SMT DEF Loaded, NoBucket, Buckets, Times
<1>3. [windowStart |-> WindowStart(n), reviewCount |-> 0] \in Buckets
  BY <1>1, GateAssumption DEF Buckets
<1> QED  BY <1>2, <1>3 DEF AdvanceWindowState

LEMMA TransitionType ==
    ASSUME NEW state \in AutoPauses, NEW e \in [type : {"trigger", "resume"}, count : Nat]
    PROVE  Transition(state, e) \in AutoPauses
BY GateAssumption, SMT DEF Transition, Fresh, AutoPauses

LEMMA EventsType ==
    ASSUME NEW e \in Events
    PROVE  /\ e \in [type : {"trigger", "resume"}, count : Nat]
           /\ e.type = "trigger" \/ e = [type |-> "resume", count |-> 0]
<1>1. CASE e \in [type : {"trigger"}, count : SuggestionCounts]
  <2>1. e.type = "trigger" /\ e.count \in Nat /\ e = [type |-> e.type, count |-> e.count]
    BY <1>1, GateAssumption
  <2> QED  BY <2>1
<1>2. CASE e \in [type : {"resume"}, count : {0}]
  <2>1. e = [type |-> "resume", count |-> 0]
    BY <1>2
  <2> QED  BY <2>1
<1> QED  BY <1>1, <1>2 DEF Events

LEMMA InitType == Init => TypeOK
BY GateAssumption, SMT
DEF Init, TypeOK, Times, Buckets, NoBucket, AutoPauses, Fresh

LEMMA StepType == TypeOK /\ [Next]_vars => TypeOK'
<1> SUFFICES ASSUME TypeOK, [Next]_vars
             PROVE  TypeOK'
  OBVIOUS
<1> USE DEF TypeOK, Goto
<1>1. ASSUME NEW c \in Calls, Ask(c)
      PROVE  TypeOK'
  BY <1>1 DEF Ask, cadence
<1>2. ASSUME NEW c \in Calls, Decide(c)
      PROVE  TypeOK'
  <2> DEFINE state == AdvanceWindowState(Loaded, now[c])
  <2>1. now[c] \in Times /\ state \in Buckets /\ WindowStart(now[c]) \in Times
    BY WindowStartType, AdvanceType
  <2>2. Admits(state) => [windowStart |-> WindowStart(now[c]), reviewCount |-> state.reviewCount + 1] \in Buckets
    BY <2>1, GateAssumption DEF Admits, Buckets
  <2> HIDE DEF state
  <2>3. pc' \in [Calls -> {"idle", "get", "set", "save", "done"}] /\ punctual' \in BOOLEAN
    BY <1>2 DEF Decide
  <2>4. window' \in [Calls -> Buckets] /\ refused' \subseteq Times
    BY <1>2, <2>1, <2>2 DEF Decide, state
  <2> QED  BY <1>2, <2>3, <2>4 DEF Decide, cadence
<1>3. ASSUME NEW c \in Calls, Admit(c)
      PROVE  TypeOK'
  <2>1. window[c] \in Buckets /\ window[c].windowStart \in Times
    BY DEF Buckets
  <2>2. admitted' \in [Times -> Nat] /\ allowed' \in [Times -> Nat]
    BY <1>3, <2>1 DEF Admit
  <2>3. expires' \in Nat
    BY <1>3, GateAssumption DEF Admit, Times
  <2>4. disturbances' \in 0..MaxDisturbances
    BY <1>3, GateAssumption DEF Admit, Disturb
  <2> QED  BY <1>3, <2>1, <2>2, <2>3, <2>4 DEF Admit, cadence
<1>4. ASSUME NEW c \in Calls, Load(c)
      PROVE  TypeOK'
  <2>1. PICK e \in Events : /\ event' = [event EXCEPT ![c] = e]
                            /\ autoPauseNext' = [autoPauseNext EXCEPT ![c] = Transition(autoPause, e)]
                            /\ begun' = begun + e.count
    BY <1>4 DEF Load
  <2>2. e \in [type : {"trigger", "resume"}, count : Nat]
    BY EventsType
  <2>3. Transition(autoPause, e) \in AutoPauses
    BY <2>2, TransitionType
  <2>4. event' \in [Calls -> [type : {"trigger", "resume"}, count : Nat]]
    BY <2>1, <2>2
  <2>5. autoPauseNext' \in [Calls -> AutoPauses]
    BY <2>1, <2>3
  <2>6. begun' \in Nat
    BY <2>1, <2>2
  <2> QED  BY <1>4, <2>4, <2>5, <2>6 DEF Load, throttle
<1>5. ASSUME NEW c \in Calls, Save(c)
      PROVE  TypeOK'
  <2>1. event[c] \in [type : {"trigger", "resume"}, count : Nat] /\ event[c].count \in Nat
    OBVIOUS
  <2>2. disturbances' \in 0..MaxDisturbances
    <3>1. Disturb \/ disturbances' = disturbances
      BY <1>5, Zenon DEF Save
    <3> QED  BY <3>1, GateAssumption DEF Disturb
  <2>3. begun' \in Nat /\ answered' \in Nat
    <3>1. begun' \in {0, begun} /\ answered' \in {0, answered, answered + event[c].count}
      BY <1>5, Zenon DEF Save
    <3> QED  BY <2>1, <3>1
  <2>4. cleanResume' \in BOOLEAN /\ inTurn' \in BOOLEAN
    <3>1. CASE event[c].type = "resume"
      BY <1>5, <3>1, Zenon DEF Save
    <3>2. CASE event[c].type # "resume"
      BY <1>5, <3>2, Zenon DEF Save
    <3> QED  BY <3>1, <3>2
  <2>5. autoPause' \in AutoPauses /\ pc' \in [Calls -> {"idle", "get", "set", "save", "done"}]
    BY <1>5 DEF Save
  <2> QED  BY <1>5, <2>2, <2>3, <2>4, <2>5 DEF Save, throttle
<1>6. ASSUME NEW c \in Calls, CacheFails(c)
      PROVE  TypeOK'
  BY <1>6, GateAssumption DEF CacheFails, Disturb, throttle, cadence
<1>7. CASE Tick
  BY <1>7, GateAssumption DEF Tick, Times, throttle, cadence
<1>8. CASE UNCHANGED vars
  BY <1>8 DEF vars, throttle, cadence
<1> QED  BY <1>1, <1>2, <1>3, <1>4, <1>5, <1>6, <1>7, <1>8 DEF Next

\* Types of the gate's state, and no throttle entry counts more reviews than a
\* window may have.
THEOREM TypeCorrect == Spec => []TypeOK
<1>1. Init => TypeOK
  BY InitType
<1>2. TypeOK /\ [Next]_vars => TypeOK'
  BY StepType
<1> QED  BY <1>1, <1>2, PTL DEF Spec

-----------------------------------------------------------------------------
(* The cadence *)

\* What the calls in flight are about to write: a resume writes the first state;
\* a trigger never more than has begun since a clean resume, and, in turn, what
\* it found and what it reports.
CadenceInv ==
    /\ \A c \in InCadence : event[c].type = "resume" => autoPauseNext[c] = Fresh
    /\ \A c \in InCadence :
          cleanResume => /\ autoPauseNext[c].suggestionCount <= begun
                         /\ autoPauseNext[c].paused => begun >= Threshold
    /\ inTurn => /\ cleanResume
                 /\ \A c, d \in InCadence : c = d
                 /\ \A c \in InCadence :
                       event[c].type = "trigger" =>
                          autoPauseNext[c].suggestionCount = autoPause.suggestionCount + event[c].count
    /\ SuggestionsAreCounted

LEMMA InitCadence == Init => CadenceInv
BY GateAssumption DEF Init, CadenceInv, InCadence, SuggestionsAreCounted, Fresh

LEMMA LoadCadence ==
    ASSUME TypeOK, CadenceInv, NEW c \in Calls, Load(c)
    PROVE  CadenceInv'
<1>1. PICK e \in Events : /\ event' = [event EXCEPT ![c] = e]
                          /\ autoPauseNext' = [autoPauseNext EXCEPT ![c] = Transition(autoPause, e)]
                          /\ begun' = begun + e.count
  BY DEF Load
<1>2. /\ e \in [type : {"trigger", "resume"}, count : Nat]
      /\ e.type = "trigger" \/ e = [type |-> "resume", count |-> 0]
  BY EventsType
<1>3. /\ pc' = [pc EXCEPT ![c] = "save"] /\ pc[c] = "idle"
      /\ inTurn' = (inTurn /\ InCadence = {})
      /\ autoPause' = autoPause /\ answered' = answered /\ cleanResume' = cleanResume
  BY DEF Load, Goto
<1>4. InCadence' = InCadence \union {c} /\ c \notin InCadence
  BY <1>3 DEF InCadence, TypeOK
<1>5. /\ event'[c] = e /\ autoPauseNext'[c] = Transition(autoPause, e)
      /\ \A d \in InCadence : event'[d] = event[d] /\ autoPauseNext'[d] = autoPauseNext[d]
  BY <1>1, <1>4 DEF TypeOK, InCadence
<1>6. begun \in Nat /\ e.count \in Nat /\ begun' \in Nat /\ begun <= begun' /\ Threshold \in Nat \ {0}
  BY <1>1, <1>2, GateAssumption DEF TypeOK
<1>7. autoPause.suggestionCount \in Nat /\ autoPause.paused \in BOOLEAN
  BY DEF TypeOK, AutoPauses
<1>8. e.type = "resume" => Transition(autoPause, e) = Fresh
  BY DEF Transition
<1>9. e.type = "trigger" =>
        /\ Transition(autoPause, e).suggestionCount = autoPause.suggestionCount + e.count
        /\ Transition(autoPause, e).paused => autoPause.suggestionCount + e.count >= Threshold
  BY <1>6, <1>7 DEF Transition
<1>10. Fresh.suggestionCount = 0 /\ Fresh.paused = FALSE
  BY DEF Fresh
<1>11. \A d \in InCadence' : event'[d].type = "resume" => autoPauseNext'[d] = Fresh
  BY <1>4, <1>5, <1>8 DEF CadenceInv
<1>12. ASSUME NEW d \in InCadence', cleanResume'
       PROVE  autoPauseNext'[d].suggestionCount <= begun' /\ (autoPauseNext'[d].paused => begun' >= Threshold)
  <2>1. CASE d = c
    <3>1. autoPause.suggestionCount <= begun
      BY <1>3, <1>12 DEF CadenceInv, SuggestionsAreCounted
    <3>2. CASE e.type = "trigger"
      BY <1>1, <1>5, <1>6, <1>7, <1>9, <2>1, <3>1, <3>2
    <3>3. CASE e.type = "resume"
      BY <1>5, <1>6, <1>8, <1>10, <2>1, <3>3
    <3> QED  BY <1>2, <3>2, <3>3
  <2>2. CASE d \in InCadence
    <3>1. autoPauseNext[d].suggestionCount \in Nat
      BY <2>2 DEF TypeOK, AutoPauses, InCadence
    <3> QED  BY <1>3, <1>5, <1>6, <1>12, <2>2, <3>1 DEF CadenceInv
  <2> QED  BY <1>4, <2>1, <2>2
<1>13. ASSUME inTurn'
       PROVE  /\ cleanResume'
              /\ \A d1, d2 \in InCadence' : d1 = d2
              /\ \A d \in InCadence' :
                    event'[d].type = "trigger" =>
                       autoPauseNext'[d].suggestionCount = autoPause'.suggestionCount + event'[d].count
  <2>1. inTurn /\ InCadence' = {c}
    BY <1>3, <1>4, <1>13
  <2> QED  BY <1>3, <1>5, <1>9, <2>1 DEF CadenceInv
<1>14. SuggestionsAreCounted'
  <2>1. inTurn' => inTurn
    BY <1>3, Zenon
  <2>2. autoPause' = autoPause /\ answered' = answered /\ cleanResume' = cleanResume
    BY <1>3
  <2> QED  BY <1>6, <1>7, <2>1, <2>2 DEF CadenceInv, SuggestionsAreCounted
<1> QED  BY <1>11, <1>12, <1>13, <1>14 DEF CadenceInv

LEMMA SaveCadence ==
    ASSUME TypeOK, CadenceInv, NEW c \in Calls, Save(c)
    PROVE  CadenceInv'
<1>1. /\ pc' = [pc EXCEPT ![c] = "done"] /\ c \in InCadence
      /\ autoPause' = autoPauseNext[c] /\ event' = event /\ autoPauseNext' = autoPauseNext
  BY DEF Save, Goto, InCadence
<1>2. InCadence' = InCadence \ {c}
  BY <1>1 DEF InCadence, TypeOK
<1>3. event[c].type \in {"trigger", "resume"} /\ event[c].count \in Nat
  BY DEF TypeOK
<1>4. \A d \in Calls : autoPauseNext[d].suggestionCount \in Nat /\ autoPauseNext[d].paused \in BOOLEAN
  BY DEF TypeOK, AutoPauses
<1>5. Fresh.suggestionCount = 0 /\ Fresh.paused = FALSE
  BY DEF Fresh
<1>6. begun \in Nat /\ answered \in Nat /\ autoPause.suggestionCount \in Nat /\ Threshold \in Nat \ {0}
  BY GateAssumption DEF TypeOK, AutoPauses
<1>7. CASE event[c].type = "resume"
  <2>1. /\ begun' = 0 /\ answered' = 0
        /\ cleanResume' = \A o \in InCadence \ {c} : event[o].type = "resume"
        /\ inTurn' = (InCadence = {c})
    BY <1>7, Zenon DEF Save
  <2>2. autoPause' = Fresh
    BY <1>1, <1>7 DEF CadenceInv
  <2>3. \A d \in InCadence' : cleanResume' => autoPauseNext'[d] = Fresh
    BY <1>1, <1>2, <2>1, Zenon DEF CadenceInv
  <2>4. SuggestionsAreCounted'
    BY <1>5, <1>6, <2>1, <2>2 DEF SuggestionsAreCounted
  <2>5. inTurn' => cleanResume' /\ InCadence' = {}
    BY <1>2, <2>1, Zenon
  <2>6. \A d \in InCadence' : event'[d].type = "resume" => autoPauseNext'[d] = Fresh
    BY <1>1, <1>2 DEF CadenceInv
  <2>7. \A d \in InCadence' :
           cleanResume' => /\ autoPauseNext'[d].suggestionCount <= begun'
                           /\ autoPauseNext'[d].paused => begun' >= Threshold
    <3>1. begun' = 0
      BY <2>1
    <3> QED  BY <1>5, <2>3, <3>1
  <2> QED  BY <2>4, <2>5, <2>6, <2>7 DEF CadenceInv
<1>8. CASE event[c].type = "trigger"
  <2>1. /\ begun' = begun /\ cleanResume' = cleanResume /\ inTurn' = inTurn
        /\ answered' \in {answered, answered + event[c].count}
    BY <1>8 DEF Save
  <2>2. \A d \in InCadence' : event'[d].type = "resume" => autoPauseNext'[d] = Fresh
    BY <1>1, <1>2 DEF CadenceInv
  <2>3. \A d \in InCadence' :
           cleanResume' => /\ autoPauseNext'[d].suggestionCount <= begun'
                           /\ autoPauseNext'[d].paused => begun' >= Threshold
    BY <1>1, <1>2, <2>1 DEF CadenceInv
  <2>4. inTurn' => cleanResume' /\ InCadence' = {}
    BY <1>1, <1>2, <2>1, Zenon DEF CadenceInv
  <2>5. SuggestionsAreCounted'
    <3>1. SUFFICES ASSUME cleanResume
                   PROVE  /\ autoPause'.paused => begun >= Threshold
                          /\ autoPause'.suggestionCount <= begun
                          /\ inTurn => answered' <= autoPause'.suggestionCount
      BY <2>1 DEF SuggestionsAreCounted
    <3>2. (autoPause'.paused => begun >= Threshold) /\ autoPause'.suggestionCount <= begun
      BY <1>1, <3>1 DEF CadenceInv
    <3>3. inTurn => answered' <= autoPause'.suggestionCount
      <4>1. inTurn => autoPauseNext[c].suggestionCount = autoPause.suggestionCount + event[c].count
        BY <1>1, <1>8 DEF CadenceInv
      <4>2. inTurn => answered <= autoPause.suggestionCount
        BY <3>1 DEF CadenceInv, SuggestionsAreCounted
      <4> QED  BY <1>1, <1>3, <1>6, <2>1, <4>1, <4>2
    <3> QED  BY <3>2, <3>3
  <2> QED  BY <2>2, <2>3, <2>4, <2>5 DEF CadenceInv
<1> QED  BY <1>3, <1>7, <1>8

\* Other steps only let calls leave.
LEMMA OtherCadence ==
    ASSUME CadenceInv, UNCHANGED cadence, InCadence' \subseteq InCadence
    PROVE  CadenceInv'
BY DEF CadenceInv, cadence, SuggestionsAreCounted

LEMMA StepCadence == TypeOK /\ CadenceInv /\ [Next]_vars => CadenceInv'
<1> SUFFICES ASSUME TypeOK, CadenceInv, [Next]_vars
             PROVE  CadenceInv'
  OBVIOUS
<1>1. ASSUME NEW c \in Calls, Ask(c) \/ Decide(c) \/ Admit(c) \/ CacheFails(c)
      PROVE  UNCHANGED cadence /\ InCadence' \subseteq InCadence
  BY <1>1 DEF Ask, Decide, Admit, CacheFails, Goto, InCadence, TypeOK, throttle
<1>2. CASE Tick \/ UNCHANGED vars
  BY <1>2, OtherCadence DEF Tick, vars, InCadence
<1> QED  BY <1>1, <1>2, LoadCadence, SaveCadence, OtherCadence DEF Next

\* After a resume that no trigger overlapped, the reviews pause only after as
\* many suggestions as the threshold, and triggers in turn lose none.
THEOREM SuggestionsCorrect == Spec => []SuggestionsAreCounted
<1>1. Init => TypeOK /\ CadenceInv
  BY InitType, InitCadence
<1>2. TypeOK /\ CadenceInv /\ [Next]_vars => (TypeOK /\ CadenceInv)'
  BY StepType, StepCadence
<1>3. CadenceInv => SuggestionsAreCounted
  BY DEF CadenceInv
<1> QED  BY <1>1, <1>2, <1>3, PTL DEF Spec

-----------------------------------------------------------------------------
(* The throttle *)

\* No entry, in the cache or about to be written, counts a review that was not
\* admitted in its window, and every entry is kept until its window has ended.
BucketInv ==
    /\ \A c \in Calls : now[c] <= clock
    /\ WindowStart(bucket.windowStart) = bucket.windowStart
    /\ bucket.windowStart <= clock
    /\ bucket.reviewCount > 0 => bucket.windowStart + WindowSeconds <= expires
    /\ bucket.reviewCount <= admitted[bucket.windowStart]
    /\ \A c \in Calls : pc[c] = "set" =>
          /\ window[c].windowStart = WindowStart(now[c])
          /\ window[c].reviewCount > 0
          /\ window[c].reviewCount <= admitted[window[c].windowStart] + 1
    /\ \A w \in Times : allowed[w] <= admitted[w]
    /\ RefusalsAreEarned

\* And while the calls come in turn, it counts all of them.
PunctualInv ==
    punctual =>
       /\ \A c, d \in InThrottle : c = d
       /\ \A w \in Times : admitted[w] <= MaxReviews
       /\ \A w \in Times : admitted[w] > 0 => w <= bucket.windowStart
       /\ admitted[bucket.windowStart] <= bucket.reviewCount
       /\ \A c \in Calls : pc[c] = "set" =>
             /\ admitted[window[c].windowStart] + 1 <= window[c].reviewCount
             /\ bucket.windowStart <= window[c].windowStart

LEMMA InitThrottle == Init => BucketInv /\ PunctualInv
<1>1. WindowStart(0) = 0
  BY WindowHolds, SMT
<1>2. 0 \in Times
  BY GateAssumption DEF Times
<1> QED
  BY <1>1, <1>2, GateAssumption
  DEF Init, BucketInv, PunctualInv, InThrottle, RefusalsAreEarned, NoBucket, Times

\* The types as the steps below use them.
LEMMA ThrottleTypes ==
    ASSUME TypeOK
    PROVE  /\ clock \in Nat /\ expires \in Nat
           /\ MaxReviews \in Nat \ {0} /\ WindowSeconds \in Nat \ {0}
           /\ bucket.windowStart \in Times /\ bucket.windowStart \in Nat /\ bucket.reviewCount \in Nat
           /\ \A c \in Calls : /\ now[c] \in Times /\ now[c] \in Nat
                               /\ window[c].windowStart \in Times /\ window[c].windowStart \in Nat
                               /\ window[c].reviewCount \in 0..MaxReviews
                               /\ window[c].reviewCount \in Nat
           /\ \A w \in Times : w \in Nat /\ admitted[w] \in Nat /\ allowed[w] \in Nat
BY GateAssumption DEF TypeOK, Buckets, Times

\* The count a call decides on is that of its window: never more than were
\* admitted, and in turn no fewer.
LEMMA DecidesOnItsWindow ==
    ASSUME TypeOK, BucketInv, PunctualInv, NEW c \in Calls
    PROVE  LET state == AdvanceWindowState(Loaded, now[c])
           IN  /\ state.reviewCount <= admitted[WindowStart(now[c])]
               /\ punctual /\ WindowStart(now[c]) = WindowStart(clock) =>
                     /\ admitted[WindowStart(now[c])] <= state.reviewCount
                     /\ bucket.windowStart <= WindowStart(now[c])
<1> DEFINE n == now[c]
           state == AdvanceWindowState(Loaded, n)
           w == WindowStart(n)
           b == bucket.windowStart
<1>1. /\ clock \in Nat /\ expires \in Nat /\ WindowSeconds \in Nat \ {0}
      /\ b \in Times /\ b \in Nat /\ bucket.reviewCount \in Nat
      /\ n \in Times /\ n \in Nat
      /\ \A v \in Times : admitted[v] \in Nat
  BY ThrottleTypes
<1>2. w \in Times /\ w \in Nat /\ w <= n /\ n < w + WindowSeconds
  BY <1>1, WindowHolds, WindowStartType
<1>3. admitted[w] \in Nat /\ admitted[b] \in Nat
  BY <1>1, <1>2
<1>4. /\ n <= clock /\ WindowStart(b) = b /\ b <= clock
      /\ bucket.reviewCount > 0 => b + WindowSeconds <= expires
      /\ bucket.reviewCount <= admitted[b]
  BY DEF BucketInv
<1>5. \/ state.reviewCount = 0 /\ (clock >= expires \/ b > n \/ b + WindowSeconds <= n)
      \/ state = bucket /\ b <= n /\ n < b + WindowSeconds
  BY <1>1 DEF AdvanceWindowState, Loaded, NoBucket
<1>6. state.reviewCount <= admitted[w]
  <2>1. CASE state.reviewCount = 0
    BY <1>3, <2>1
  <2>2. CASE state = bucket /\ b <= n /\ n < b + WindowSeconds
    BY <1>1, <1>4, <2>2, WindowIsItsStart
  <2> QED  BY <1>5, <2>1, <2>2
<1>7. ASSUME punctual, w = WindowStart(clock)
      PROVE  admitted[w] <= state.reviewCount /\ b <= w
  <2>1. b <= w
    BY <1>1, <1>4, <1>7, StartedBefore
  <2>2. /\ admitted[w] > 0 => w <= b
        /\ admitted[b] <= bucket.reviewCount
    BY <1>1, <1>2, <1>7 DEF PunctualInv
  <2>3. clock < w + WindowSeconds
    BY <1>1, <1>7, WindowHolds
  <2>4. admitted[w] > 0 => w = b
    BY <1>1, <1>2, <2>1, <2>2
  <2>5. CASE state = bucket
    <3>1. admitted[w] > 0 => admitted[w] <= bucket.reviewCount
      BY <2>2, <2>4
    <3> QED  BY <1>1, <1>3, <2>1, <2>5, <3>1
  <2>6. CASE state.reviewCount = 0 /\ (clock >= expires \/ b > n \/ b + WindowSeconds <= n)
    <3>1. admitted[w] > 0 => bucket.reviewCount > 0
      BY <1>1, <1>3, <2>2, <2>4
    <3>2. admitted[w] > 0 => expires > clock
      BY <1>1, <1>2, <1>4, <2>3, <2>4, <3>1
    <3>3. ~(admitted[w] > 0)
      BY <1>1, <1>2, <2>4, <2>6, <3>2
    <3> QED  BY <1>3, <2>1, <2>6, <3>3
  <2> QED  BY <1>5, <2>1, <2>5, <2>6
<1> QED  BY <1>6, <1>7

LEMMA DecideThrottle ==
    ASSUME TypeOK, BucketInv, PunctualInv, NEW c \in Calls, Decide(c)
    PROVE  BucketInv' /\ PunctualInv'
<1> DEFINE w == WindowStart(now[c])
           state == AdvanceWindowState(Loaded, now[c])
<1>1. state \in Buckets /\ state.reviewCount \in Nat /\ w \in Times
  BY AdvanceType, WindowStartType, GateAssumption DEF TypeOK, Buckets
<1>2. /\ state.reviewCount <= admitted[w]
      /\ punctual /\ w = WindowStart(clock) =>
            admitted[w] <= state.reviewCount /\ bucket.windowStart <= w
  BY DecidesOnItsWindow
<1>3. /\ pc[c] = "get"
      /\ punctual' = (punctual /\ w = WindowStart(clock))
      /\ clock' = clock /\ now' = now /\ bucket' = bucket /\ expires' = expires
      /\ admitted' = admitted /\ allowed' = allowed
  BY DEF Decide
<1>4. punctual' => punctual /\ w = WindowStart(clock)
  BY <1>3, Zenon
<1>5. \/ /\ Admits(state) /\ pc' = [pc EXCEPT ![c] = "set"]
         /\ window' = [window EXCEPT ![c] = [windowStart |-> w, reviewCount |-> state.reviewCount + 1]]
         /\ refused' = refused
      \/ /\ ~Admits(state) /\ pc' = [pc EXCEPT ![c] = "done"]
         /\ refused' = refused \union {w} /\ window' = window
  BY DEF Decide, Goto
<1>6. admitted[w] \in Nat /\ \A v \in Times : admitted[v] \in Nat
  BY <1>1, ThrottleTypes
<1> HIDE DEF state, w
<1>7. InThrottle' \subseteq InThrottle
  BY <1>3, <1>5 DEF InThrottle, TypeOK
<1>8. \A d \in Calls : pc'[d] = "set" /\ d # c => pc[d] = "set" /\ window'[d] = window[d]
  BY <1>5 DEF TypeOK
<1>9. pc'[c] = "set" => /\ window'[c].windowStart = w
                        /\ window'[c].reviewCount = state.reviewCount + 1
  BY <1>5 DEF TypeOK
<1>10. RefusalsAreEarned'
  <2>1. ~Admits(state) => admitted[w] >= MaxReviews
    BY <1>1, <1>2, <1>6, GateAssumption DEF Admits
  <2> QED  BY <1>3, <1>5, <2>1 DEF BucketInv, RefusalsAreEarned
<1>11. BucketInv'
  <2>1. ASSUME NEW d \in Calls, pc'[d] = "set"
        PROVE  /\ window'[d].windowStart = WindowStart(now[d])
               /\ window'[d].reviewCount > 0
               /\ window'[d].reviewCount <= admitted[window'[d].windowStart] + 1
    <3>1. CASE d = c
      BY <1>1, <1>2, <1>6, <1>9, <2>1, <3>1 DEF w
    <3>2. CASE d # c
      BY <1>8, <2>1, <3>2 DEF BucketInv
    <3> QED  BY <3>1, <3>2
  <2>2. WindowStart(bucket'.windowStart) = bucket'.windowStart
    BY <1>3 DEF BucketInv
  <2> QED  BY <1>3, <1>10, <2>1, <2>2 DEF BucketInv, WindowStart
<1>12. PunctualInv'
  <2>1. SUFFICES ASSUME punctual'
                 PROVE  /\ \A d, e \in InThrottle' : d = e
                        /\ \A v \in Times : admitted[v] <= MaxReviews
                        /\ \A v \in Times : admitted[v] > 0 => v <= bucket.windowStart
                        /\ admitted[bucket.windowStart] <= bucket.reviewCount
                        /\ \A d \in Calls : pc'[d] = "set" =>
                              /\ admitted[window'[d].windowStart] + 1 <= window'[d].reviewCount
                              /\ bucket.windowStart <= window'[d].windowStart
    BY <1>3 DEF PunctualInv
  <2>2. ASSUME NEW d \in Calls, pc'[d] = "set"
        PROVE  /\ admitted[window'[d].windowStart] + 1 <= window'[d].reviewCount
               /\ bucket.windowStart <= window'[d].windowStart
    <3>1. CASE d = c
      BY <1>1, <1>2, <1>4, <1>6, <1>9, <2>1, <2>2, <3>1
    <3>2. CASE d # c
      BY <1>4, <1>8, <2>1, <2>2, <3>2 DEF PunctualInv
    <3> QED  BY <3>1, <3>2
  <2> QED  BY <1>4, <1>7, <2>1, <2>2 DEF PunctualInv
<1> QED  BY <1>11, <1>12

LEMMA AdmitThrottle ==
    ASSUME TypeOK, BucketInv, PunctualInv, NEW c \in Calls, Admit(c)
    PROVE  BucketInv' /\ PunctualInv'
<1> DEFINE w == window[c].windowStart
<1>1. /\ w \in Times /\ w \in Nat /\ window[c].reviewCount \in Nat /\ window[c].reviewCount <= MaxReviews
      /\ MaxReviews \in Nat \ {0} /\ WindowSeconds \in Nat \ {0} /\ clock \in Nat
      /\ now[c] \in Nat /\ bucket.windowStart \in Nat
      /\ \A v \in Times : v \in Nat /\ admitted[v] \in Nat /\ allowed[v] \in Nat
  BY ThrottleTypes
<1>2. /\ pc[c] = "set" /\ pc' = [pc EXCEPT ![c] = "done"]
      /\ clock' = clock /\ now' = now /\ window' = window /\ refused' = refused /\ punctual' = punctual
      /\ bucket' = window[c]
      /\ expires' = clock + WindowSeconds
      /\ admitted' = [admitted EXCEPT ![w] = @ + 1]
      /\ allowed' = [allowed EXCEPT ![w] = @ + 1] \/ allowed' = allowed
  BY DEF Admit, Goto
<1>3. /\ admitted'[w] = admitted[w] + 1
      /\ \A v \in Times : v # w => admitted'[v] = admitted[v] /\ allowed'[v] = allowed[v]
      /\ allowed'[w] \in {allowed[w], allowed[w] + 1}
  BY <1>1, <1>2 DEF TypeOK
<1>4. \A v \in Times : admitted'[v] \in Nat /\ admitted[v] <= admitted'[v]
  BY <1>1, <1>3
<1>5. /\ w = WindowStart(now[c]) /\ now[c] <= clock
      /\ window[c].reviewCount > 0
      /\ window[c].reviewCount <= admitted[w] + 1
  BY <1>2 DEF BucketInv
<1>6. WindowStart(w) = w /\ w <= clock
  BY <1>1, <1>5, StartStartsItself, WindowHolds
<1> HIDE DEF w
<1>7. \A d \in Calls : pc'[d] = "set" => pc[d] = "set"
  BY <1>2 DEF TypeOK
<1>8. InThrottle' = InThrottle \ {c} /\ c \in InThrottle
  BY <1>2 DEF InThrottle, TypeOK
<1>9. RefusalsAreEarned'
  BY <1>1, <1>2, <1>4 DEF BucketInv, RefusalsAreEarned, TypeOK
<1>10. BucketInv'
  <2>1. ASSUME NEW d \in Calls, pc'[d] = "set"
        PROVE  /\ window[d].windowStart = WindowStart(now[d])
               /\ window[d].reviewCount > 0
               /\ window[d].reviewCount <= admitted'[window[d].windowStart] + 1
    <3>1. /\ window[d].windowStart \in Times /\ window[d].reviewCount \in Nat
      BY ThrottleTypes
    <3>2. /\ window[d].windowStart = WindowStart(now[d])
          /\ window[d].reviewCount > 0
          /\ window[d].reviewCount <= admitted[window[d].windowStart] + 1
      BY <1>7, <2>1 DEF BucketInv
    <3>3. /\ admitted[window[d].windowStart] \in Nat /\ admitted'[window[d].windowStart] \in Nat
          /\ admitted[window[d].windowStart] <= admitted'[window[d].windowStart]
      BY <1>1, <1>4, <3>1
    <3> QED  BY <3>1, <3>2, <3>3
  <2>2. WindowStart(bucket'.windowStart) = bucket'.windowStart /\ bucket'.windowStart = w
    BY <1>2, <1>6 DEF w
  <2>3. bucket'.reviewCount <= admitted'[w]
    BY <1>2, <1>3, <1>5
  <2>4. \A v \in Times : allowed'[v] <= admitted'[v]
    BY <1>1, <1>3 DEF BucketInv
  <2>5. bucket'.windowStart + WindowSeconds <= expires' /\ bucket'.windowStart <= clock'
    BY <1>1, <1>2, <1>6, <2>2
  <2>6. \A d \in Calls : now'[d] <= clock'
    BY <1>2 DEF BucketInv
  <2> QED  BY <1>2, <1>9, <2>1, <2>2, <2>3, <2>4, <2>5, <2>6 DEF BucketInv, WindowStart
<1>11. PunctualInv'
  <2>1. SUFFICES ASSUME punctual
                 PROVE  /\ \A d, e \in InThrottle' : d = e
                        /\ \A v \in Times : admitted'[v] <= MaxReviews
                        /\ \A v \in Times : admitted'[v] > 0 => v <= bucket'.windowStart
                        /\ admitted'[bucket'.windowStart] <= bucket'.reviewCount
                        /\ \A d \in Calls : pc'[d] # "set"
    BY <1>2 DEF PunctualInv
  <2>2. /\ \A d, e \in InThrottle : d = e
        /\ admitted[w] + 1 <= window[c].reviewCount
        /\ bucket.windowStart <= w
    BY <1>2, <2>1 DEF PunctualInv, w
  <2>3. InThrottle' = {}
    BY <1>8, <2>2
  <2>4. \A d \in Calls : pc'[d] # "set"
    BY <2>3 DEF InThrottle
  <2>5. \A v \in Times : admitted'[v] <= MaxReviews
    BY <1>1, <1>3, <2>1, <2>2 DEF PunctualInv
  <2>6. ASSUME NEW v \in Times, admitted'[v] > 0
        PROVE  v <= w
    <3>1. v # w => v <= bucket.windowStart
      BY <1>3, <2>1, <2>6 DEF PunctualInv
    <3> QED  BY <1>1, <2>2, <3>1
  <2>7. bucket'.windowStart = w /\ admitted'[w] <= bucket'.reviewCount
    BY <1>2, <1>3, <2>2 DEF w
  <2> QED  BY <2>3, <2>4, <2>5, <2>6, <2>7
<1> QED  BY <1>10, <1>11

LEMMA AskThrottle ==
    ASSUME TypeOK, BucketInv, PunctualInv, NEW c \in Calls, Ask(c)
    PROVE  BucketInv' /\ PunctualInv'
<1>1. /\ pc[c] = "idle" /\ pc' = [pc EXCEPT ![c] = "get"]
      /\ now' = [now EXCEPT ![c] = clock]
      /\ punctual' = (punctual /\ InThrottle = {})
      /\ UNCHANGED <<clock, window, bucket, expires, admitted, allowed, refused>>
  BY DEF Ask, Goto
<1>2. punctual' => punctual /\ InThrottle = {}
  BY <1>1, Zenon
<1>3. \A d \in Calls : pc'[d] = "set" => pc[d] = "set" /\ now'[d] = now[d]
  BY <1>1 DEF TypeOK
<1>4. InThrottle' = InThrottle \union {c}
  BY <1>1 DEF InThrottle, TypeOK
<1>5. \A d \in Calls : now'[d] <= clock'
  BY <1>1, ThrottleTypes DEF BucketInv, TypeOK
<1>6. BucketInv'
  BY <1>1, <1>3, <1>5 DEF BucketInv, RefusalsAreEarned, WindowStart
<1>7. \A d, e \in InThrottle' : punctual' => d = e
  BY <1>2, <1>4
<1>8. UNCHANGED <<window, bucket, admitted>>
  BY <1>1
<1>9. PunctualInv'
  BY <1>2, <1>3, <1>7, <1>8 DEF PunctualInv
<1> QED  BY <1>6, <1>9

\* Other steps only let calls leave and the clock advance.
LEMMA OtherThrottle ==
    ASSUME TypeOK, BucketInv, PunctualInv, UNCHANGED throttle,
           clock' \in {clock, clock + 1},
           \A c \in Calls : pc'[c] \in {"get", "set"} => pc'[c] = pc[c]
    PROVE  BucketInv' /\ PunctualInv'
<1>1. UNCHANGED <<now, window, bucket, expires, admitted, allowed, refused, punctual>>
  BY DEF throttle
<1>2. InThrottle' \subseteq InThrottle /\ \A c \in Calls : pc'[c] = "set" => pc[c] = "set"
  BY DEF InThrottle
<1>3. clock \in Nat /\ clock' \in Nat /\ clock <= clock' /\ bucket.windowStart \in Nat /\ \A c \in Calls : now[c] \in Nat
  BY ThrottleTypes
<1>4. bucket'.windowStart <= clock' /\ \A c \in Calls : now'[c] <= clock'
  BY <1>1, <1>3 DEF BucketInv
<1>5. BucketInv'
  BY <1>1, <1>2, <1>4 DEF BucketInv, RefusalsAreEarned, WindowStart
<1>6. PunctualInv'
  BY <1>1, <1>2 DEF PunctualInv
<1> QED  BY <1>5, <1>6

LEMMA StepThrottle == TypeOK /\ BucketInv /\ PunctualInv /\ [Next]_vars => BucketInv' /\ PunctualInv'
<1> SUFFICES ASSUME TypeOK, BucketInv, PunctualInv, [Next]_vars
             PROVE  BucketInv' /\ PunctualInv'
  OBVIOUS
<1>1. ASSUME NEW c \in Calls, Load(c) \/ Save(c) \/ CacheFails(c)
      PROVE  BucketInv' /\ PunctualInv'
  <2>1. /\ UNCHANGED <<clock, throttle>>
        /\ pc' = [pc EXCEPT ![c] = "save"] \/ pc' = [pc EXCEPT ![c] = "done"]
    BY <1>1 DEF Load, Save, CacheFails, Goto
  <2>2. \A d \in Calls : pc'[d] \in {"get", "set"} => pc'[d] = pc[d]
    BY <2>1 DEF TypeOK
  <2> QED  BY <2>1, <2>2, OtherThrottle
<1>2. CASE Tick
  BY <1>2, OtherThrottle DEF Tick
<1>3. CASE UNCHANGED vars
  BY <1>3, OtherThrottle DEF vars
<1> QED  BY <1>1, <1>2, <1>3, AskThrottle, DecideThrottle, AdmitThrottle DEF Next

\* While the throttle's calls come in turn and within a window, no window has
\* more reviews than allowed, for any limit and any length of the window.
THEOREM LimitCorrect == Spec => []LimitInTurn
<1>1. Init => TypeOK /\ BucketInv /\ PunctualInv
  BY InitType, InitThrottle
<1>2. TypeOK /\ BucketInv /\ PunctualInv /\ [Next]_vars => (TypeOK /\ BucketInv /\ PunctualInv)'
  BY StepType, StepThrottle
<1>3. TypeOK /\ BucketInv /\ PunctualInv => LimitInTurn
  <2>1. SUFFICES ASSUME TypeOK, BucketInv, PunctualInv, punctual, NEW w \in Times
                 PROVE  allowed[w] <= MaxReviews
    BY DEF LimitInTurn
  <2>2. allowed[w] <= admitted[w] /\ admitted[w] <= MaxReviews
    BY <2>1 DEF BucketInv, PunctualInv
  <2> QED  BY <2>1, <2>2, ThrottleTypes
<1> QED  BY <1>1, <1>2, <1>3, PTL DEF Spec

\* Whatever overlaps, a review is refused only in a full window.
THEOREM RefusalsCorrect == Spec => []RefusalsAreEarned
<1>1. Init => TypeOK /\ BucketInv /\ PunctualInv
  BY InitType, InitThrottle
<1>2. TypeOK /\ BucketInv /\ PunctualInv /\ [Next]_vars => (TypeOK /\ BucketInv /\ PunctualInv)'
  BY StepType, StepThrottle
<1>3. BucketInv => RefusalsAreEarned
  BY DEF BucketInv
<1> QED  BY <1>1, <1>2, <1>3, PTL DEF Spec
=============================================================================
