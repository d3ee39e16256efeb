----------------------- MODULE RedisConnectionsProofs -----------------------
(***************************************************************************)
(* Theorems about RedisConnections, for any size of the pool, any limit of *)
(* attempts and any number of disconnects and health checks that overlap.  *)
(***************************************************************************)
EXTENDS RedisConnections, FiniteSetTheorems, TLAPS

InUse == pool \union closed \union UNION {todo[d] : d \in Disconnects}

\* The lists of the initialization that is under way: what it makes is its own
\* until it is installed, and it leaves nothing behind.
InitializationInv ==
    /\ dialing = IF phase \in {"dialing", "hangup"} THEN {made} ELSE {}
    /\ phase \in {"dialing", "hangup"} => made \in Nat \ {0}
    /\ dialing \intersect (created \union InUse) = {}
    /\ created \intersect InUse = {}
    /\ phase \in {"none", "discarding", "settled"} => created = {}
    /\ phase # "discarding" => discard = {}
    /\ phase = "discarding" => pool \subseteq discard \union closed
    /\ phase = "sleeping" => attempt < MaxReconnectAttempts

Inv == TypeOK /\ InitializationInv /\ LeaksAreEarned /\ PoolIsOpen /\ ConnectedIsFull

LEMMA MadeFinite ==
    ASSUME made \in Nat, NEW S \in SUBSET Made
    PROVE  IsFiniteSet(S) /\ Cardinality(S) \in Nat
  <1>1. IsFiniteSet(Made)
    BY FS_Interval DEF Made
  <1> QED
    BY <1>1, FS_Subset, FS_CardinalityType

\* A new connection is none of those there are.
LEMMA DialFacts ==
    ASSUME Inv, NEW c \in 1..MaxConnections, Dial(c)
    PROVE  /\ c = made + 1 /\ made' = c /\ dialing' = {c} /\ phase' = "dialing"
           /\ made' \in 0..MaxConnections /\ c \notin Made /\ Made' = Made \union {c} /\ made \in Nat
  BY RedisAssumption DEF Inv, TypeOK, Dial, Made

LEMMA InitInv == Init => Inv
  <1> SUFFICES ASSUME Init PROVE Inv
    OBVIOUS
  <1>1. Cardinality({}) = 0
    BY FS_EmptySet
  <1> QED
    BY <1>1, RedisAssumption
    DEF Init, Inv, TypeOK, InitializationInv, LeaksAreEarned, PoolIsOpen, ConnectedIsFull, InUse,
        Kept, Made, Full

-----------------------------------------------------------------------------
(* connect *)

LEMMA ConnectStep ==
    ASSUME Inv, Connect
    PROVE  Inv'
  <1> USE DEF Inv
  <1>1. PICK c \in 1..MaxConnections : Dial(c)
    BY DEF Connect
  <1>2. /\ c = made + 1 /\ made' = c /\ dialing' = {c} /\ phase' = "dialing"
        /\ made' \in 0..MaxConnections /\ c \notin Made /\ Made' = Made \union {c} /\ made \in Nat
    BY <1>1, DialFacts
  <1>3. /\ phase = "none" /\ created = {} /\ discard = {} /\ dialing = {}
        /\ created' = {} /\ discard' = {} /\ pool' = pool /\ closed' = closed /\ todo' = todo
        /\ failed' = failed /\ left' = left /\ degraded' = degraded /\ replaced' = replaced
        /\ status' = "connecting" /\ index' = index /\ attempt' = 1
    BY DEF Connect, InitializationInv, disconnectVars, healthVars
  <1>4. Cardinality({}) = 0 /\ Full' = Full
    BY <1>3, FS_EmptySet DEF Full
  <1>5. TypeOK'
    BY <1>2, <1>3, <1>4, RedisAssumption DEF TypeOK
  <1>6. InUse' = InUse /\ InUse \subseteq Made
    BY <1>3 DEF InUse, TypeOK
  <1>7. InitializationInv'
    BY <1>2, <1>3, <1>6 DEF InitializationInv
  <1>8. Kept' = Kept \union {c}
    BY <1>2, <1>3 DEF Kept
  <1>9. LeaksAreEarned'
    BY <1>2, <1>3, <1>8 DEF LeaksAreEarned
  <1>10. PoolIsOpen' /\ ConnectedIsFull'
    BY <1>3 DEF PoolIsOpen, ConnectedIsFull
  <1> QED
    BY <1>5, <1>7, <1>9, <1>10

LEMMA DialOkStep ==
    ASSUME Inv, DialOk
    PROVE  Inv'
  <1> USE DEF Inv
  <1>1. PICK c \in 1..MaxConnections : Dial(c)
    BY DEF DialOk
  <1>2. /\ c = made + 1 /\ made' = c /\ dialing' = {c} /\ phase' = "dialing"
        /\ made' \in 0..MaxConnections /\ c \notin Made /\ Made' = Made \union {c} /\ made \in Nat
    BY <1>1, DialFacts
  <1>3. /\ phase = "dialing" /\ dialing = {made} /\ made \notin created /\ discard = {}
        /\ made \in Made
        /\ created' = created \union {made} /\ discard' = {} /\ pool' = pool /\ closed' = closed
        /\ todo' = todo /\ failed' = failed /\ left' = left /\ degraded' = degraded
        /\ replaced' = replaced /\ status' = status /\ index' = index /\ attempt' = 1
    BY <1>2 DEF DialOk, InitializationInv, disconnectVars, healthVars, poolVars, Made
  <1>4. Cardinality(created') < PoolSize /\ Full' = Full
    <2>1. created \subseteq Made /\ IsFiniteSet(created) /\ Cardinality(created) \in Nat
      BY <1>2, MadeFinite DEF TypeOK
    <2>2. Cardinality(created') = Cardinality(created) + 1
      BY <1>3, <2>1, FS_AddElement
    <2> QED
      BY <1>3, <2>2 DEF DialOk, Full
  <1>5. TypeOK'
    BY <1>2, <1>3, <1>4, RedisAssumption DEF TypeOK
  <1>6. InUse' = InUse /\ InUse \subseteq Made
    BY <1>3 DEF InUse, TypeOK
  <1>7. InitializationInv'
    BY <1>2, <1>3, <1>6 DEF InitializationInv, TypeOK
  <1>8. Kept' = Kept \union {c}
    BY <1>2, <1>3 DEF Kept
  <1>9. LeaksAreEarned'
    BY <1>2, <1>3, <1>8 DEF LeaksAreEarned
  <1>10. PoolIsOpen' /\ ConnectedIsFull'
    BY <1>3, <1>4 DEF PoolIsOpen, ConnectedIsFull
  <1> QED
    BY <1>5, <1>7, <1>9, <1>10

LEMMA InstallStep ==
    ASSUME Inv, Install
    PROVE  Inv'
  <1> USE DEF Inv
  <1>1. /\ phase = "dialing" /\ dialing = {made} /\ made \in Nat \ {0} /\ made \notin created
        /\ discard = {} /\ Made' = Made /\ made \in Made
        /\ pool' = created \union {made} /\ replaced' = replaced \union pool
        /\ created' = {} /\ dialing' = {} /\ discard' = {} /\ phase' = "settled" /\ made' = made
        /\ closed' = closed /\ todo' = todo /\ failed' = failed /\ left' = left
        /\ degraded' = degraded /\ status' = "connected" /\ index' = 0 /\ attempt' = attempt
    BY DEF Install, InitializationInv, disconnectVars, healthVars, Made
  <1>2. Full' /\ Cardinality({}) = 0
    <2>1. created \subseteq Made /\ IsFiniteSet(created) /\ Cardinality(created) \in Nat
          /\ Cardinality(created) < PoolSize
      BY <1>1, MadeFinite DEF TypeOK
    <2>2. Cardinality(pool') = Cardinality(created) + 1
      BY <1>1, <2>1, FS_AddElement
    <2> QED
      BY <2>1, <2>2, RedisAssumption, FS_EmptySet DEF Install, Full
  <1>3. TypeOK'
    BY <1>1, <1>2, RedisAssumption DEF TypeOK
  <1>4. InitializationInv' /\ PoolIsOpen'
    BY <1>1 DEF InitializationInv, InUse, PoolIsOpen
  <1>5. Kept \subseteq Kept' \union pool
    BY <1>1 DEF Kept
  <1>6. LeaksAreEarned'
    BY <1>1, <1>5 DEF LeaksAreEarned
  <1>7. ConnectedIsFull'
    BY <1>2 DEF ConnectedIsFull
  <1> QED
    BY <1>3, <1>4, <1>6, <1>7

LEMMA DialFailsStep ==
    ASSUME Inv, DialFails
    PROVE  Inv'
  BY DEF Inv, DialFails, TypeOK, InitializationInv, LeaksAreEarned, PoolIsOpen, ConnectedIsFull,
         InUse, Kept, Made, Full, poolVars, disconnectVars, healthVars

LEMMA ForgetStep ==
    ASSUME Inv, Forget
    PROVE  Inv'
  BY DEF Inv, Forget, TypeOK, InitializationInv, LeaksAreEarned, PoolIsOpen, ConnectedIsFull,
         InUse, Kept, Made, Full, poolVars, disconnectVars, healthVars

LEMMA HungUpStep ==
    ASSUME Inv, HungUp
    PROVE  Inv'
  <1> USE DEF Inv
  <1>1. /\ phase = "hangup" /\ dialing = {made} /\ made \in Nat \ {0}
        /\ discard = {} /\ Made' = Made /\ made \in Made /\ made \notin pool /\ made \notin created
        /\ closed' = closed \union {made} /\ dialing' = {} /\ phase' \in {"sleeping", "closing"}
        /\ created' = created /\ discard' = {} /\ made' = made /\ pool' = pool
        /\ todo' = todo /\ failed' = failed /\ left' = left /\ degraded' = degraded
        /\ status' = status /\ index' = index /\ attempt' = attempt /\ replaced' = replaced
        /\ phase' = "sleeping" => attempt < MaxReconnectAttempts
    BY DEF HungUp, InitializationInv, InUse, disconnectVars, healthVars, poolVars, Made
  <1>2. TypeOK' /\ ConnectedIsFull'
    BY <1>1 DEF TypeOK, ConnectedIsFull, Full
  <1>3. InitializationInv' /\ PoolIsOpen'
    BY <1>1 DEF InitializationInv, InUse, PoolIsOpen
  <1>4. Kept \subseteq Kept' \union closed'
    BY <1>1 DEF Kept
  <1>5. LeaksAreEarned'
    BY <1>1, <1>4 DEF LeaksAreEarned
  <1> QED
    BY <1>2, <1>3, <1>5

LEMMA RedialStep ==
    ASSUME Inv, Redial
    PROVE  Inv'
  <1> USE DEF Inv
  <1>1. PICK c \in 1..MaxConnections : Dial(c)
    BY DEF Redial
  <1>2. /\ c = made + 1 /\ made' = c /\ dialing' = {c} /\ phase' = "dialing"
        /\ made' \in 0..MaxConnections /\ c \notin Made /\ Made' = Made \union {c} /\ made \in Nat
    BY <1>1, DialFacts
  <1>3. /\ phase = "sleeping" /\ discard = {} /\ dialing = {}
        /\ created' = created /\ discard' = {} /\ pool' = pool /\ closed' = closed /\ todo' = todo
        /\ failed' = failed /\ left' = left /\ degraded' = degraded /\ replaced' = replaced
        /\ status' = status /\ index' = index /\ attempt' = attempt + 1
    BY DEF Redial, InitializationInv, disconnectVars, healthVars, poolVars
  <1>4. TypeOK'
    <2>1. attempt + 1 \in 1..MaxReconnectAttempts
      BY <1>3, RedisAssumption DEF InitializationInv, TypeOK
    <2> QED
      BY <1>2, <1>3, <2>1 DEF TypeOK, Full
  <1>6. InUse' = InUse /\ InUse \subseteq Made
    BY <1>3 DEF InUse, TypeOK
  <1>7. InitializationInv'
    BY <1>2, <1>3, <1>6 DEF InitializationInv, TypeOK
  <1>8. Kept' = Kept \union {c}
    BY <1>2, <1>3 DEF Kept
  <1>9. LeaksAreEarned'
    BY <1>2, <1>3, <1>8 DEF LeaksAreEarned
  <1>10. PoolIsOpen' /\ ConnectedIsFull'
    BY <1>3 DEF PoolIsOpen, ConnectedIsFull, Full
  <1> QED
    BY <1>4, <1>7, <1>9, <1>10

LEMMA CloseCreatedStep ==
    ASSUME Inv, CloseCreated
    PROVE  Inv'
  <1> USE DEF Inv
  <1>1. PICK c \in created : created' = created \ {c} /\ closed' = closed \union {c}
    BY DEF CloseCreated
  <1>2. /\ phase = "closing" /\ phase' = "closing" /\ dialing = {} /\ dialing' = {}
        /\ discard = {} /\ Made' = Made /\ c \in Made /\ c \notin InUse
        /\ discard' = {} /\ made' = made /\ pool' = pool
        /\ todo' = todo /\ failed' = failed /\ left' = left /\ degraded' = degraded
        /\ status' = status /\ index' = index /\ attempt' = attempt /\ replaced' = replaced
    BY <1>1
    DEF CloseCreated, InitializationInv, disconnectVars, healthVars, poolVars, Made, TypeOK
  <1>3. Cardinality(created') < PoolSize
    <2>1. IsFiniteSet(created) /\ Cardinality(created) \in Nat /\ Cardinality(created) < PoolSize
      BY MadeFinite DEF TypeOK
    <2>2. Cardinality(created') = Cardinality(created) - 1
      BY <1>1, <2>1, FS_RemoveElement
    <2> QED
      BY <2>1, <2>2, RedisAssumption
  <1>4. TypeOK' /\ ConnectedIsFull'
    BY <1>1, <1>2, <1>3 DEF TypeOK, ConnectedIsFull, Full
  <1>5. InitializationInv' /\ PoolIsOpen'
    BY <1>1, <1>2 DEF InitializationInv, InUse, PoolIsOpen
  <1>6. Kept \subseteq Kept' \union closed'
    BY <1>1, <1>2 DEF Kept
  <1>7. LeaksAreEarned'
    BY <1>1, <1>2, <1>6 DEF LeaksAreEarned
  <1> QED
    BY <1>4, <1>5, <1>7

LEMMA BeginDiscardStep ==
    ASSUME Inv, BeginDiscard
    PROVE  Inv'
  BY DEF Inv, BeginDiscard, TypeOK, InitializationInv, LeaksAreEarned, PoolIsOpen, ConnectedIsFull,
         InUse, Kept, Made, Full, poolVars, disconnectVars, healthVars

LEMMA CloseDiscardedStep ==
    ASSUME Inv, CloseDiscarded
    PROVE  Inv'
  <1> USE DEF Inv
  <1>1. PICK c \in discard : discard' = discard \ {c} /\ closed' = closed \union {c}
    BY DEF CloseDiscarded
  <1>2. /\ phase = "discarding" /\ phase' = "discarding" /\ dialing = {} /\ dialing' = {}
        /\ Made' = Made /\ c \in Made /\ created = {} /\ created' = {}
        /\ made' = made /\ pool' = pool /\ todo' = todo /\ failed' = failed /\ left' = left
        /\ degraded' = degraded /\ status' = status /\ index' = index /\ attempt' = attempt
        /\ replaced' = replaced
    BY <1>1
    DEF CloseDiscarded, InitializationInv, disconnectVars, healthVars, poolVars, Made, TypeOK
  <1>3. TypeOK' /\ ConnectedIsFull'
    BY <1>1, <1>2 DEF TypeOK, ConnectedIsFull, Full
  <1>4. InitializationInv' /\ PoolIsOpen'
    BY <1>1, <1>2 DEF InitializationInv, InUse, PoolIsOpen
  <1>5. Kept \subseteq Kept' \union closed'
    BY <1>1, <1>2 DEF Kept
  <1>6. LeaksAreEarned'
    BY <1>1, <1>2, <1>5 DEF LeaksAreEarned
  <1> QED
    BY <1>3, <1>4, <1>6

LEMMA ConnectFailsStep ==
    ASSUME Inv, ConnectFails
    PROVE  Inv'
  <1> USE DEF Inv
  <1>1. /\ phase = "discarding" /\ phase' = "settled" /\ dialing = {} /\ dialing' = {}
        /\ discard = {} /\ discard' = {} /\ Made' = Made /\ created = {} /\ created' = {}
        /\ made' = made /\ pool' = {} /\ todo' = todo /\ failed' = failed /\ left' = left
        /\ degraded' = degraded /\ status' = "degraded" /\ index' = 0 /\ attempt' = attempt
        /\ replaced' = replaced /\ closed' = closed /\ pool \subseteq closed
    BY DEF ConnectFails, InitializationInv, disconnectVars, healthVars, Made
  <1>2. TypeOK' /\ ConnectedIsFull'
    BY <1>1, RedisAssumption DEF TypeOK, ConnectedIsFull
  <1>3. InitializationInv' /\ PoolIsOpen'
    BY <1>1 DEF InitializationInv, InUse, PoolIsOpen
  <1>4. Kept \subseteq Kept' \union closed'
    BY <1>1 DEF Kept
  <1>5. LeaksAreEarned'
    BY <1>1, <1>4 DEF LeaksAreEarned
  <1> QED
    BY <1>2, <1>3, <1>5

-----------------------------------------------------------------------------
(* disconnect, healthCheck and getConnection *)

LEMMA DisconnectNothingStep ==
    ASSUME Inv, DisconnectNothing
    PROVE  Inv'
  BY DEF Inv, DisconnectNothing, TypeOK, InitializationInv, LeaksAreEarned, PoolIsOpen,
         ConnectedIsFull, InUse, Kept, Made, Full, connectVars, disconnectVars, healthVars

LEMMA DisconnectStep ==
    ASSUME Inv, NEW d \in Disconnects, Disconnect(d)
    PROVE  Inv'
  <1> USE DEF Inv
  <1>1. /\ pool # {} /\ pool \subseteq Made /\ pool' = {} /\ index' = 0 /\ todo[d] = {}
        /\ todo' = [todo EXCEPT ![d] = pool] /\ todo'[d] = pool
        /\ \A e \in Disconnects \ {d} : todo'[e] = todo[e]
        /\ Made' = Made /\ made' = made /\ phase' = phase /\ attempt' = attempt
        /\ created' = created /\ dialing' = dialing /\ discard' = discard /\ replaced' = replaced
        /\ closed' = closed /\ status' = status /\ left' = left /\ degraded' = degraded
    BY DEF Disconnect, connectVars, healthVars, Made, TypeOK
  <1>2. TypeOK'
    <2>1. failed' \in [Disconnects -> BOOLEAN] /\ todo' \in [Disconnects -> SUBSET Made]
      BY <1>1 DEF Disconnect, TypeOK
    <2> QED
      BY <1>1, <2>1, RedisAssumption DEF TypeOK
  <1>3. InUse' = InUse
    BY <1>1 DEF InUse
  <1>4. InitializationInv'
    BY <1>1, <1>3 DEF InitializationInv
  <1>5. PoolIsOpen' /\ ConnectedIsFull'
    BY <1>1 DEF PoolIsOpen, ConnectedIsFull
  <1>6. Kept' = Kept
    BY <1>1 DEF Kept
  <1>7. LeaksAreEarned'
    BY <1>1, <1>6 DEF LeaksAreEarned
  <1> QED
    BY <1>2, <1>4, <1>5, <1>7

LEMMA QuitSettlesStep ==
    ASSUME Inv, NEW d \in Disconnects, QuitSettles(d)
    PROVE  Inv'
  <1> USE DEF Inv
  <1>1. PICK c \in todo[d], error \in BOOLEAN :
            /\ closed' = closed \union {c}
            /\ todo' = [todo EXCEPT ![d] = @ \ {c}]
            /\ failed' = [failed EXCEPT ![d] = @ \/ error]
    BY DEF QuitSettles
  <1>2. /\ c \in Made /\ todo'[d] = todo[d] \ {c} /\ \A e \in Disconnects \ {d} : todo'[e] = todo[e]
        /\ Made' = Made /\ made' = made /\ phase' = phase /\ attempt' = attempt
        /\ created' = created /\ dialing' = dialing /\ discard' = discard /\ replaced' = replaced
        /\ left' = left /\ degraded' = degraded /\ pool' = pool /\ index' = index
        /\ status' \in {status, "degraded", "disconnected"}
        /\ status' = status => todo'[d] # {} \/ status' # "connected"
    BY <1>1 DEF QuitSettles, connectVars, healthVars, Made, TypeOK
  <1>3. TypeOK'
    <2>1. failed' \in [Disconnects -> BOOLEAN] /\ todo' \in [Disconnects -> SUBSET Made]
      BY <1>1 DEF TypeOK
    <2> QED
      BY <1>1, <1>2, <2>1 DEF TypeOK, Full
  <1>4. InUse' = InUse
    BY <1>1, <1>2 DEF InUse
  <1>5. InitializationInv'
    BY <1>1, <1>2, <1>4 DEF InitializationInv
  <1>6. PoolIsOpen'
    BY <1>1, <1>2 DEF PoolIsOpen
  <1>7. ConnectedIsFull'
    BY <1>2 DEF ConnectedIsFull
  <1>8. Kept \subseteq Kept' \union closed'
    BY <1>1, <1>2 DEF Kept
  <1>9. LeaksAreEarned'
    BY <1>1, <1>2, <1>8 DEF LeaksAreEarned
  <1> QED
    BY <1>3, <1>5, <1>6, <1>7, <1>9

LEMMA HealthCheckStep ==
    ASSUME Inv, NEW h \in HealthChecks, HealthCheck(h)
    PROVE  Inv'
  BY DEF Inv, HealthCheck, TypeOK, InitializationInv, LeaksAreEarned, PoolIsOpen, ConnectedIsFull,
         InUse, Kept, Made, Full, poolVars, connectVars, disconnectVars

LEMMA PingSettlesStep ==
    ASSUME Inv, NEW h \in HealthChecks, PingSettles(h)
    PROVE  Inv'
  <1> USE DEF Inv
  <1>1. /\ pool' = pool /\ Made' = Made /\ Kept' = Kept /\ InUse' = InUse /\ closed' = closed
        /\ replaced' = replaced /\ made' = made /\ phase' = phase /\ created' = created
        /\ dialing' = dialing /\ discard' = discard /\ todo' = todo /\ failed' = failed
        /\ index' = index /\ attempt' = attempt
    BY DEF PingSettles, connectVars, disconnectVars, Made, Kept, InUse
  <1>2. /\ left' \in [HealthChecks -> SUBSET Made] /\ degraded' \in [HealthChecks -> BOOLEAN]
        /\ status' \in {status, "disconnected", "connected", "degraded"}
        /\ status' = "connected" => status = "connected" \/ Full
    BY DEF PingSettles, ResolveStatus, TypeOK
  <1>3. TypeOK' /\ ConnectedIsFull'
    BY <1>1, <1>2 DEF TypeOK, ConnectedIsFull, Full
  <1>4. InitializationInv' /\ PoolIsOpen' /\ LeaksAreEarned'
    BY <1>1 DEF InitializationInv, PoolIsOpen, LeaksAreEarned
  <1> QED
    BY <1>3, <1>4

LEMMA GetConnectionStep ==
    ASSUME Inv, GetConnection
    PROVE  Inv'
  <1> USE DEF Inv
  <1>1. index' \in 0..(PoolSize - 1)
    <2>1. Cardinality(pool) = PoolSize
      BY DEF GetConnection, TypeOK, Full
    <2> QED
      BY <2>1, RedisAssumption DEF GetConnection, TypeOK
  <1> QED
    BY <1>1 DEF GetConnection, TypeOK, InitializationInv, LeaksAreEarned, PoolIsOpen,
                ConnectedIsFull, InUse, Kept, Made, Full, connectVars, disconnectVars, healthVars

LEMMA InvNext == Inv /\ [Next]_vars => Inv'
  <1> SUFFICES ASSUME Inv, [Next]_vars
               PROVE  Inv'
    OBVIOUS
  <1>1. CASE UNCHANGED vars
    BY <1>1
    DEF vars, poolVars, connectVars, disconnectVars, healthVars, Inv, TypeOK, InitializationInv,
        LeaksAreEarned, PoolIsOpen, ConnectedIsFull, InUse, Kept, Made, Full
  <1>2. ASSUME Initialize
        PROVE  Inv'
    BY <1>2, DialOkStep, InstallStep, DialFailsStep, HungUpStep, RedialStep, CloseCreatedStep,
       BeginDiscardStep, CloseDiscardedStep, ConnectFailsStep, ForgetStep DEF Initialize
  <1>3. ASSUME NEW d \in Disconnects, Disconnect(d) \/ QuitSettles(d)
        PROVE  Inv'
    BY <1>3, DisconnectStep, QuitSettlesStep
  <1>4. ASSUME NEW h \in HealthChecks, HealthCheck(h) \/ PingSettles(h)
        PROVE  Inv'
    BY <1>4, HealthCheckStep, PingSettlesStep
  <1> QED
    BY <1>1, <1>2, <1>3, <1>4, ConnectStep, DisconnectNothingStep, GetConnectionStep DEF Next

LEMMA InvAlways == Spec => []Inv
  BY InitInv, InvNext, PTL DEF Spec

-----------------------------------------------------------------------------
(* The theorems *)

\* The types of the manager's state: above all, the pool is empty or full and the
\* round-robin index is one of a full pool.
THEOREM TypeCorrect == Spec => []TypeOK
  <1>1. Inv => TypeOK
    BY DEF Inv
  <1> QED
    BY <1>1, InvAlways, PTL

\* No connection stays open that nobody is going to close, except for those of a
\* pool that a connect has put another in place of.
THEOREM LeaksCorrect == Spec => []LeaksAreEarned
  <1>1. Inv => LeaksAreEarned
    BY DEF Inv
  <1> QED
    BY <1>1, InvAlways, PTL

\* The pool holds no connection that is being closed or has been, except while a
\* failed connect closes it.
THEOREM PoolCorrect == Spec => []PoolIsOpen
  <1>1. Inv => PoolIsOpen
    BY DEF Inv
  <1> QED
    BY <1>1, InvAlways, PTL

\* The status says connected only of a full pool or while a disconnect is under way.
THEOREM ConnectedCorrect == Spec => []ConnectedIsFull
  <1>1. Inv => ConnectedIsFull
    BY DEF Inv
  <1> QED
    BY <1>1, InvAlways, PTL
-----------------------------------------------------------------------------
(* Calls do not go round in circles.  CallsReturn is the liveness property    *)
(* TLC checks; this is what it rests on besides fairness.                     *)

Making == {"dialing", "hangup", "sleeping"}

\* The stages of an initialization, and the steps of an attempt.
StageNumber(p) == CASE p \in Making -> 1
                    [] p = "closing" -> 2
                    [] p = "discarding" -> 3
                    [] p = "settled" -> 4
                    [] p = "none" -> 5

AttemptNumber(p) == CASE p = "dialing" -> 1 [] p = "hangup" -> 2 [] p = "sleeping" -> 3

\* The initialization gets on: with a connection more, a later attempt or a later
\* step of its attempt; with a connection less to close; or to a later stage.
Advance ==
    \/ StageNumber(phase') > StageNumber(phase)
    \/ /\ {phase, phase'} \subseteq Making
       /\ \/ Cardinality(created') > Cardinality(created)
          \/ created' = created /\ attempt' > attempt
          \/ /\ created' = created /\ attempt' = attempt
             /\ AttemptNumber(phase') > AttemptNumber(phase)
    \/ /\ phase = "closing" /\ phase' = "closing"
       /\ \E c \in created : created' = created \ {c}
    \/ /\ phase = "discarding" /\ phase' = "discarding"
       /\ \E c \in discard : discard' = discard \ {c}

\* Whatever happens meanwhile, an initialization only gets on, and the lists of a
\* disconnect or a health check under way only get shorter.  By the type
\* invariant connections and attempts are limited, so each has finitely many
\* steps, however its connections fail.
CallsAdvance ==
    [][/\ phase # "none" => UNCHANGED <<phase, attempt, created, discard>> \/ Advance
       /\ \A d \in Disconnects : todo[d] # {} => todo'[d] \subseteq todo[d]
       /\ \A h \in HealthChecks : left[h] # {} => left'[h] \subseteq left[h]]_vars

LEMMA InitializeAdvances == Inv /\ Initialize => Advance
  <1> SUFFICES ASSUME Inv, Initialize PROVE Advance
    OBVIOUS
  <1> USE DEF Advance, StageNumber, AttemptNumber, Making
  <1>1. CASE DialOk
    <2>1. /\ phase = "dialing" /\ phase' = "dialing" /\ created' = created \union {made}
      BY <1>1 DEF DialOk, Dial, Inv, InitializationInv
    <2>2. made \notin created /\ IsFiniteSet(created)
      BY <2>1, MadeFinite DEF Inv, InitializationInv, TypeOK
    <2>3. Cardinality(created') = Cardinality(created) + 1 /\ Cardinality(created) \in Nat
      BY <2>1, <2>2, FS_AddElement, FS_CardinalityType
    <2> QED
      BY <2>1, <2>3
  <1>2. CASE Redial
    <2>1. /\ phase = "sleeping" /\ phase' = "dialing" /\ created' = created
          /\ attempt' = attempt + 1
      BY <1>2 DEF Redial, Dial
    <2>2. attempt \in Nat
      BY RedisAssumption DEF Inv, TypeOK
    <2> QED
      BY <2>1, <2>2
  <1>3. CASE Install \/ BeginDiscard \/ ConnectFails \/ Forget
    BY <1>3 DEF Install, BeginDiscard, ConnectFails, Forget
  <1>4. CASE DialFails \/ HungUp
    BY <1>4 DEF DialFails, HungUp
  <1>5. CASE CloseCreated \/ CloseDiscarded
    BY <1>5 DEF CloseCreated, CloseDiscarded
  <1> QED
    BY <1>1, <1>2, <1>3, <1>4, <1>5 DEF Initialize

\* Only its own steps touch an initialization that is under way.
LEMMA OthersLeaveIt ==
    ASSUME phase # "none", Next
    PROVE  Initialize \/ UNCHANGED <<phase, attempt, created, discard>>
  BY DEF Next, Connect, DisconnectNothing, GetConnection, Disconnect, QuitSettles, HealthCheck,
         PingSettles, connectVars

LEMMA ListsShrink ==
    ASSUME Inv, Next
    PROVE  /\ \A d \in Disconnects : todo[d] # {} => todo'[d] \subseteq todo[d]
           /\ \A h \in HealthChecks : left[h] # {} => left'[h] \subseteq left[h]
  <1> USE DEF Inv, TypeOK
  <1>1. CASE Connect \/ Initialize \/ DisconnectNothing \/ GetConnection
    BY <1>1 DEF Connect, Initialize, DialOk, Install, DialFails, HungUp, Redial, CloseCreated,
                BeginDiscard, CloseDiscarded, ConnectFails, Forget, DisconnectNothing,
                GetConnection, disconnectVars, healthVars
  <1>2. CASE \E d \in Disconnects : Disconnect(d) \/ QuitSettles(d)
    BY <1>2 DEF Disconnect, QuitSettles, healthVars
  <1>3. CASE \E h \in HealthChecks : HealthCheck(h) \/ PingSettles(h)
    BY <1>3 DEF HealthCheck, PingSettles, disconnectVars
  <1> QED
    BY <1>1, <1>2, <1>3 DEF Next

\* Calls that are under way only get on, whatever fails and whatever overlaps.
THEOREM CallsForward == Spec => CallsAdvance
  <1>1. Inv /\ [Next]_vars =>
            [/\ phase # "none" => UNCHANGED <<phase, attempt, created, discard>> \/ Advance
             /\ \A d \in Disconnects : todo[d] # {} => todo'[d] \subseteq todo[d]
             /\ \A h \in HealthChecks : left[h] # {} => left'[h] \subseteq left[h]]_vars
    BY InitializeAdvances, OthersLeaveIt, ListsShrink
  <1> QED
    BY <1>1, InvAlways, PTL DEF Spec, CallsAdvance
=============================================================================
