-------------------------- MODULE RedisConnections --------------------------
(***************************************************************************)
(* RedisConnectionManager: one pool of connections, and calls of connect,  *)
(* disconnect, healthCheck and getConnection that overlap.                 *)
(*                                                                         *)
(* What runs between two awaits is one action.  The result of every        *)
(* request to redis is open: connections fail to connect, to quit and to   *)
(* answer a ping.  connect only remembers one promise, so that one         *)
(* initialization of the pool is under way at most and its local state is  *)
(* here once; disconnects and health checks have theirs each.              *)
(*                                                                         *)
(* Connections are numbered in the order the factory makes them, which is  *)
(* the order of every list the code keeps of them: lists are sets here,    *)
(* and are gone through from the lowest number on.                         *)
(***************************************************************************)
EXTENDS Naturals, FiniteSets

CONSTANTS PoolSize,
          MaxReconnectAttempts,
          Disconnects,     \* calls of disconnect, each made any number of times
          HealthChecks,    \* calls of healthCheck, likewise
          MaxConnections   \* bound: connections the factory makes

ASSUME RedisAssumption ==
    /\ PoolSize \in Nat \ {0}
    /\ MaxReconnectAttempts \in Nat \ {0}
    /\ MaxConnections \in Nat

VARIABLES
    status,
    pool,      \* connections
    index,     \* nextConnectionIndex
    phase,     \* where the initialization is, "none" when connectPromise is undefined
    attempt,   \* attempt of createConnectionWithRetry
    created,   \* createdConnections of initializePool
    dialing,   \* the connection being made, in a set of one
    discard,   \* what is left of the pool its catch block closes
    made,      \* how many connections the factory has made
    closed,    \* connections whose quit has been answered, or has failed
    todo,      \* activeConnections each disconnect has not closed yet
    failed,    \* whether it has a firstError
    left,      \* connections each health check has still to ping
    degraded,  \* whether one has not answered it
    replaced   \* history: connections of a pool that another was put in place of

poolVars == <<status, pool, index>>
connectVars == <<phase, attempt, created, dialing, discard, made, replaced>>
disconnectVars == <<todo, failed>>
healthVars == <<left, degraded>>
vars == <<poolVars, connectVars, disconnectVars, healthVars, closed>>

Lowest(c, S) == c \in S /\ \A d \in S : c <= d
Full == Cardinality(pool) = PoolSize

\* The factory has made connection c, and its connect() is called.
Dial(c) ==
    /\ c = made + 1
    /\ c <= MaxConnections
    /\ made' = c
    /\ dialing' = {c}
    /\ phase' = "dialing"

-----------------------------------------------------------------------------
(* connect *)

\* connect, unless it returns at once or joins another call: initializePool and
\* createConnectionWithRetry run up to the first await.
Connect ==
    /\ ~(status = "connected" /\ Full)
    /\ phase = "none"
    /\ status' = "connecting"
    /\ created' = {}
    /\ attempt' = 1
    /\ \E c \in 1..MaxConnections : Dial(c)
    /\ UNCHANGED <<pool, index, discard, replaced, disconnectVars, healthVars, closed>>

\* A connection is made and is not the last: the loop of initializePool goes on.
DialOk ==
    /\ phase = "dialing"
    /\ Cardinality(created) + 1 < PoolSize
    /\ created' = created \union dialing
    /\ attempt' = 1
    /\ \E c \in 1..MaxConnections : Dial(c)
    /\ UNCHANGED <<poolVars, discard, replaced, disconnectVars, healthVars, closed>>

\* The last one is: the pool is put in place, and the "then" of connect runs.
Install ==
    /\ phase = "dialing"
    /\ Cardinality(created) + 1 >= PoolSize
    /\ pool' = created \union dialing
    /\ replaced' = replaced \union pool
    /\ index' = 0
    /\ status' = "connected"
    /\ created' = {}
    /\ dialing' = {}
    /\ phase' = "settled"
    /\ UNCHANGED <<attempt, discard, made, disconnectVars, healthVars, closed>>

DialFails ==
    /\ phase = "dialing"
    /\ phase' = "hangup"
    /\ UNCHANGED <<poolVars, attempt, created, dialing, discard, made, replaced, disconnectVars,
                   healthVars, closed>>

\* Mutant: the last attempt is not told from the others.
HungUpAnyway ==
    /\ phase = "hangup"
    /\ closed' = closed \union dialing
    /\ dialing' = {}
    /\ phase' = "sleeping"
    /\ UNCHANGED <<poolVars, attempt, created, discard, made, replaced, disconnectVars, healthVars>>

\* closeConnectionQuietly is done with a connection that could not be made.
HungUp ==
    /\ phase = "hangup"
    /\ closed' = closed \union dialing
    /\ dialing' = {}
    /\ phase' = IF attempt < MaxReconnectAttempts THEN "sleeping" ELSE "closing"
    /\ UNCHANGED <<poolVars, attempt, created, discard, made, replaced, disconnectVars, healthVars>>

\* The backoff is over.
Redial ==
    /\ phase = "sleeping"
    /\ attempt' = attempt + 1
    /\ \E c \in 1..MaxConnections : Dial(c)
    /\ UNCHANGED <<poolVars, created, discard, replaced, disconnectVars, healthVars, closed>>

\* The catch block of initializePool closes the connections that were made.
CloseCreated ==
    /\ phase = "closing"
    /\ \E c \in created :
        /\ Lowest(c, created)
        /\ created' = created \ {c}
        /\ closed' = closed \union {c}
    /\ UNCHANGED <<poolVars, phase, attempt, dialing, discard, made, replaced, disconnectVars,
                   healthVars>>

\* The catch block of connect begins to close the pool there is.
BeginDiscard ==
    /\ phase = "closing"
    /\ created = {}
    /\ discard' = pool
    /\ phase' = "discarding"
    /\ UNCHANGED <<poolVars, attempt, created, dialing, made, replaced, disconnectVars, healthVars,
                   closed>>

CloseDiscarded ==
    /\ phase = "discarding"
    /\ \E c \in discard :
        /\ Lowest(c, discard)
        /\ discard' = discard \ {c}
        /\ closed' = closed \union {c}
    /\ UNCHANGED <<poolVars, phase, attempt, created, dialing, made, replaced, disconnectVars,
                   healthVars>>

\* It has closed it, and the promise is rejected.
ConnectFails ==
    /\ phase = "discarding"
    /\ discard = {}
    /\ pool' = {}
    /\ index' = 0
    /\ status' = "degraded"
    /\ phase' = "settled"
    /\ UNCHANGED <<attempt, created, dialing, discard, made, replaced, disconnectVars, healthVars,
                   closed>>

\* Mutant: it is forgotten after a success only.
ForgetInstalled ==
    /\ phase = "settled"
    /\ status = "connected"
    /\ phase' = "none"
    /\ UNCHANGED <<poolVars, attempt, created, dialing, discard, made, replaced, disconnectVars,
                   healthVars, closed>>

\* The "finally" of connect: connectPromise is forgotten.
Forget ==
    /\ phase = "settled"
    /\ phase' = "none"
    /\ UNCHANGED <<poolVars, attempt, created, dialing, discard, made, replaced, disconnectVars,
                   healthVars, closed>>

-----------------------------------------------------------------------------
(* disconnect *)

\* There is no pool.
DisconnectNothing ==
    /\ pool = {}
    /\ status' = "disconnected"
    /\ UNCHANGED <<pool, index, connectVars, disconnectVars, healthVars, closed>>

\* Mutant: the pool stays in place until its connections are closed.
DisconnectLate(d) ==
    /\ todo[d] = {}
    /\ pool # {}
    /\ todo' = [todo EXCEPT ![d] = pool]
    /\ failed' = [failed EXCEPT ![d] = FALSE]
    /\ UNCHANGED <<poolVars, connectVars, healthVars, closed>>

\* There is one: it is emptied, and its connections are closed one by one.
Disconnect(d) ==
    /\ todo[d] = {}
    /\ pool # {}
    /\ todo' = [todo EXCEPT ![d] = pool]
    /\ pool' = {}
    /\ index' = 0
    /\ failed' = [failed EXCEPT ![d] = FALSE]
    /\ UNCHANGED <<status, connectVars, healthVars, closed>>

\* Mutant: it gives up at the first connection that does not quit.
QuitSettlesOrStops(d) ==
    /\ \E c \in todo[d], error \in BOOLEAN :
        /\ Lowest(c, todo[d])
        /\ closed' = closed \union {c}
        /\ todo' = [todo EXCEPT ![d] = IF error THEN {} ELSE @ \ {c}]
        /\ failed' = [failed EXCEPT ![d] = error]
    /\ status' = IF todo'[d] # {} THEN status
                 ELSE IF failed'[d] THEN "degraded" ELSE "disconnected"
    /\ UNCHANGED <<pool, index, connectVars, healthVars>>

\* One connection has quit, or has not; disconnect returns after the last.
QuitSettles(d) ==
    /\ \E c \in todo[d], error \in BOOLEAN :
        /\ Lowest(c, todo[d])
        /\ closed' = closed \union {c}
        /\ todo' = [todo EXCEPT ![d] = @ \ {c}]
        /\ failed' = [failed EXCEPT ![d] = @ \/ error]
    /\ status' = IF todo'[d] # {} THEN status
                 ELSE IF failed'[d] THEN "degraded" ELSE "disconnected"
    /\ UNCHANGED <<pool, index, connectVars, healthVars>>

-----------------------------------------------------------------------------
(* healthCheck and getConnection *)

HealthCheck(h) ==
    /\ left[h] = {}
    /\ pool # {}
    /\ left' = [left EXCEPT ![h] = pool]
    /\ degraded' = [degraded EXCEPT ![h] = FALSE]
    /\ UNCHANGED <<poolVars, connectVars, disconnectVars, closed>>

\* Mutant: the pings are compared with the pool they were sent to.
ResolveOwnStatus(someDegraded) == IF someDegraded THEN "degraded" ELSE "connected"

\* resolveConnectionStatus: the pings answered are compared with the pool there is
\* when the last is, and those of a whole pool were sent.
ResolveStatus(someDegraded) ==
    IF pool = {} THEN "disconnected"
    ELSE IF ~someDegraded /\ Full THEN "connected" ELSE "degraded"

\* One ping is answered, or fails; the status is written after the last.
PingSettles(h) ==
    /\ \E c \in left[h], error \in BOOLEAN :
        /\ Lowest(c, left[h])
        /\ left' = [left EXCEPT ![h] = @ \ {c}]
        /\ degraded' = [degraded EXCEPT ![h] = @ \/ error]
    /\ status' = IF left'[h] # {} THEN status ELSE ResolveStatus(degraded'[h])
    /\ UNCHANGED <<pool, index, connectVars, disconnectVars, closed>>

GetConnection ==
    /\ pool # {}
    /\ index' = (index + 1) % Cardinality(pool)
    /\ UNCHANGED <<status, pool, connectVars, disconnectVars, healthVars, closed>>

-----------------------------------------------------------------------------

Init ==
    /\ status = "idle"
    /\ pool = {}
    /\ index = 0
    /\ phase = "none"
    /\ attempt = 1
    /\ created = {}
    /\ dialing = {}
    /\ discard = {}
    /\ made = 0
    /\ closed = {}
    /\ todo = [d \in Disconnects |-> {}]
    /\ failed = [d \in Disconnects |-> FALSE]
    /\ left = [h \in HealthChecks |-> {}]
    /\ degraded = [h \in HealthChecks |-> FALSE]
    /\ replaced = {}

\* What an initialization of the pool does once it has begun.
Initialize ==
    \/ DialOk \/ Install \/ DialFails \/ HungUp \/ Redial
    \/ CloseCreated \/ BeginDiscard \/ CloseDiscarded \/ ConnectFails \/ Forget

Next ==
    \/ Connect \/ Initialize
    \/ DisconnectNothing \/ GetConnection
    \/ \E d \in Disconnects : Disconnect(d) \/ QuitSettles(d)
    \/ \E h \in HealthChecks : HealthCheck(h) \/ PingSettles(h)

Spec == Init /\ [][Next]_vars

\* Requests to redis are answered or fail, and backoffs end.  That somebody calls
\* an operation is not fair.
FairSpec ==
    /\ Spec
    /\ WF_vars(Initialize)
    /\ \A d \in Disconnects : WF_vars(QuitSettles(d))
    /\ \A h \in HealthChecks : WF_vars(PingSettles(h))

-----------------------------------------------------------------------------
(* Properties *)

Made == 1..made

\* The type invariant.
TypeOK ==
    /\ status \in {"idle", "connecting", "connected", "degraded", "disconnected"}
    /\ pool \subseteq Made /\ (pool = {} \/ Full)
    /\ index \in 0..(PoolSize - 1)
    /\ phase \in {"none", "dialing", "hangup", "sleeping", "closing", "discarding", "settled"}
    /\ attempt \in 1..MaxReconnectAttempts
    /\ created \subseteq Made /\ Cardinality(created) < PoolSize
    /\ dialing \subseteq Made
    /\ discard \subseteq Made
    /\ made \in 0..MaxConnections
    /\ closed \subseteq Made
    /\ todo \in [Disconnects -> SUBSET Made]
    /\ failed \in [Disconnects -> BOOLEAN]
    /\ left \in [HealthChecks -> SUBSET Made]
    /\ degraded \in [HealthChecks -> BOOLEAN]
    /\ replaced \subseteq Made

\* The connections that somebody is going to close: disconnect, on a later call, or
\* one of the calls that are under way.
Kept == pool \union created \union dialing \union discard \union UNION {todo[d] : d \in Disconnects}

\* No connection stays open that nobody is going to close, whatever calls overlap
\* and whatever fails, with one exception: those of a pool that a connect has put
\* another in place of (it begins anew on a pool that is degraded).
LeaksAreEarned == Made \ (closed \union Kept) \subseteq replaced

\* getConnection hands out no connection that a call is closing or has closed,
\* except for a failed connect, which closes the pool before it empties it.
PoolIsOpen ==
    phase # "discarding" =>
        /\ pool \intersect closed = {}
        /\ \A d \in Disconnects : pool \intersect todo[d] = {}

\* The status says connected only of a full pool, although health checks and
\* initializations write it when calls they do not know of have changed the pool;
\* a disconnect that is under way writes it at its end.
ConnectedIsFull ==
    status = "connected" => Full \/ \E d \in Disconnects : todo[d] # {}

\* Calls return: an initialization ends, with the promise forgotten, as long as
\* the factory makes connections; disconnects and health checks end.
CallsReturn ==
    /\ phase # "none" ~> phase = "none" \/ made = MaxConnections
    /\ \A d \in Disconnects : todo[d] # {} ~> todo[d] = {}
    /\ \A h \in HealthChecks : left[h] # {} ~> left[h] = {}
=============================================================================
