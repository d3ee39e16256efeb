------------------------------- MODULE Outbox -------------------------------
(***************************************************************************)
(* The transactional outbox: messages in a Mongo collection, relayed to a  *)
(* broker by OutboxRelayServiceImpl.relay of packages/adapters (and by the *)
(* simpler OutboxRelayService of packages/core).                           *)
(*                                                                         *)
(* A relay fetches a batch of pending messages and goes through it with    *)
(* the copies it has fetched.  It publishes a message up to MaxAttempts    *)
(* times; markSent and markFailed of the repository read the document,     *)
(* change it and write it back, save writes the relay's own copy.  Every   *)
(* await is an action, so that relays interleave between a read and a      *)
(* write.  A call to the broker or to the store may be lost, its reply may *)
(* be lost, and a relay may die at any await; each takes one unit of       *)
(* MaxDisturbances.                                                        *)
(*                                                                         *)
(* Abstractions: createdAt is a logical clock, so that no two saves have   *)
(* the same instant; the backoff is a pause without effect.                *)
(***************************************************************************)
EXTENDS Naturals, FiniteSets

CONSTANTS Messages,       \* message identifiers
          Poison,         \* those whose payload is JSON but not an object
          Relays,         \* relays that run concurrently
          BatchSize, MaxAttempts, \* of a relay: batchSize, maxAttemptsPerRun
          MaxRetries,     \* maxRetries of each message, 0 for no retry
          EnvelopeInTry,  \* the envelope is made inside the try block:
                          \* TRUE for the adapters' relay, FALSE for core's
          NoDocument, NoMessage, \* null
          MaxDisturbances \* bound: disturbances in a behaviour

ASSUME RelayAssumption ==
    /\ Poison \subseteq Messages
    /\ BatchSize \in Nat \ {0} /\ MaxAttempts \in Nat \ {0}
    /\ MaxRetries \in [Messages -> Nat]
    /\ EnvelopeInTry \in BOOLEAN
    /\ MaxDisturbances \in Nat

VARIABLES
    store,      \* the document of each message
    clock,      \* the instant of the next save
    pc,         \* the await each relay stands at
    batch,      \* messages of its batch still to relay, as fetched
    current,    \* the message it is relaying, its own copy
    attempt,    \* failed attempts at it in this run
    read,       \* the document as repository.markSent or markFailed will write it
    published,  \* history: copies of each message the broker has accepted
    failures,   \* history: attempts at it that have failed
    disturbances

relay == <<pc, batch, current, attempt, read>>
vars  == <<store, clock, relay, published, failures, disturbances>>

Statuses == {"PENDING", "SENT", "FAILED"}

Documents == [id : Messages, status : Statuses, retries : Nat, createdAt : Nat]

ASSUME NullAssumption == NoDocument \notin Documents /\ NoMessage \notin Documents

-----------------------------------------------------------------------------
(* OutboxMessage *)

\* Mutant: one attempt too few.
StatusAfterEarly(e, failed) ==
    IF failed + 1 >= MaxRetries[e.id] THEN "FAILED" ELSE "PENDING"

StatusAfter(e, failed) == IF failed >= MaxRetries[e.id] THEN "FAILED" ELSE "PENDING"

\* markFailed
MarkFailed(e) ==
    IF e.status # "PENDING" THEN e
    ELSE [e EXCEPT !.retries = e.retries + 1, !.status = StatusAfter(e, e.retries + 1)]

\* markSent; a failed message throws.
MarkSent(e) == [e EXCEPT !.status = "SENT"]

\* The constructor, called for every document that is read, throws for a
\* message that was sent after a failed attempt.
Loads(e) == ~(e.status = "SENT" /\ e.retries # 0)

-----------------------------------------------------------------------------
(* The course of a relay *)

Disturb == /\ disturbances < MaxDisturbances
           /\ disturbances' = disturbances + 1

Goto(r, next) == pc' = [pc EXCEPT ![r] = next]

\* findPending: the oldest pending documents.
OldestPending(n) ==
    LET docs == {store[m] : m \in {x \in Messages : store[x] # NoDocument}}
        pending == {e \in docs : e.status = "PENDING"}
    IN  {e \in pending : Cardinality({f \in pending : f.createdAt < e.createdAt}) < n}

\* The relay goes on with the next message of its batch, or returns.
Take(r, rest) ==
    IF rest = {}
    THEN /\ Goto(r, "idle")
         /\ current' = [current EXCEPT ![r] = NoMessage]
         /\ UNCHANGED <<batch, attempt>>
    ELSE \E e \in rest :
            /\ \A f \in rest : e.createdAt <= f.createdAt
            /\ Goto(r, "publish")
            /\ current' = [current EXCEPT ![r] = e]
            /\ batch' = [batch EXCEPT ![r] = rest \ {e}]
            /\ attempt' = [attempt EXCEPT ![r] = 0]

\* relay() rejects, or the process dies: the copies are lost.
Abort(r) == /\ Goto(r, "idle")
            /\ current' = [current EXCEPT ![r] = NoMessage]
            /\ batch' = [batch EXCEPT ![r] = {}]
            /\ UNCHANGED <<attempt, read>>

\* The catch block up to its first await.
Catch(r) ==
    /\ current' = [current EXCEPT ![r] = MarkFailed(@)]
    /\ Goto(r, IF current'[r].status = "FAILED" THEN "markFailedRead" ELSE "save")
    /\ UNCHANGED <<batch, attempt, read>>

\* Mutant: the attempts of a run are not counted.
TriesAgainUncounted(r) == current[r].status = "PENDING"

\* The copy is still pending and the run has attempts left.
TriesAgain(r) == current[r].status = "PENDING" /\ attempt[r] + 1 < MaxAttempts

-----------------------------------------------------------------------------
(* Actions *)

\* A producer saves a new message.
Write(m) ==
    /\ store[m] = NoDocument
    /\ store' = [store EXCEPT ![m] = [id |-> m, status |-> "PENDING", retries |-> 0,
                                      createdAt |-> clock]]
    /\ clock' = clock + 1
    /\ UNCHANGED <<relay, published, failures, disturbances>>

FindPending(r) ==
    /\ pc[r] = "idle"
    /\ OldestPending(BatchSize) # {}
    /\ Take(r, OldestPending(BatchSize))
    /\ UNCHANGED <<store, clock, read, published, failures, disturbances>>

PublishSucceeds(r) ==
    /\ pc[r] = "publish"
    /\ current[r].id \notin Poison
    /\ published' = [published EXCEPT ![current[r].id] = @ + 1]
    /\ current' = [current EXCEPT ![r] = MarkSent(@)]
    /\ Goto(r, "markSentRead")
    /\ UNCHANGED <<store, clock, batch, attempt, read, failures, disturbances>>

\* Mutant: a rejected publish is not awaited.
PublishFailsUnawaited(r) ==
    /\ pc[r] = "publish"
    /\ current[r].id \notin Poison
    /\ Disturb
    /\ published' \in {published, [published EXCEPT ![current[r].id] = @ + 1]}
    /\ failures' = [failures EXCEPT ![current[r].id] = @ + 1]
    /\ current' = [current EXCEPT ![r] = MarkSent(@)]
    /\ Goto(r, "markSentRead")
    /\ UNCHANGED <<store, clock, batch, attempt, read>>

\* The broker rejects, or accepts and the reply is lost.
PublishFails(r) ==
    /\ pc[r] = "publish"
    /\ current[r].id \notin Poison
    /\ Disturb
    /\ published' \in {published, [published EXCEPT ![current[r].id] = @ + 1]}
    /\ failures' = [failures EXCEPT ![current[r].id] = @ + 1]
    /\ Catch(r)
    /\ UNCHANGED <<store, clock>>

\* Mutant: the envelope is made before the try block.
EnvelopeThrowsOutside(r) ==
    /\ pc[r] = "publish"
    /\ current[r].id \in Poison
    /\ Abort(r)
    /\ UNCHANGED <<failures, store, clock, published, disturbances>>

\* toMessageBrokerEnvelope throws.
EnvelopeThrows(r) ==
    /\ pc[r] = "publish"
    /\ current[r].id \in Poison
    /\ IF EnvelopeInTry
       THEN failures' = [failures EXCEPT ![current[r].id] = @ + 1] /\ Catch(r)
       ELSE UNCHANGED failures /\ Abort(r)
    /\ UNCHANGED <<store, clock, published, disturbances>>

\* repository.markSent, up to the write.
MarkSentRead(r) ==
    LET doc == store[current[r].id] IN
    /\ pc[r] = "markSentRead"
    /\ IF Loads(doc) /\ doc.status # "FAILED"
       THEN /\ read' = [read EXCEPT ![r] = MarkSent(doc)]
            /\ Goto(r, "markSentWrite")
            /\ UNCHANGED <<batch, current, attempt>>
       ELSE Catch(r)
    /\ UNCHANGED <<store, clock, published, failures, disturbances>>

\* Mutant: the write is forgotten.
MarkSentWriteForgotten(r) ==
    /\ pc[r] = "markSentWrite"
    /\ Take(r, batch[r])
    /\ UNCHANGED <<store, clock, read, published, failures, disturbances>>

MarkSentWrite(r) ==
    /\ pc[r] = "markSentWrite"
    /\ store' = [store EXCEPT ![current[r].id] = read[r]]
    /\ \/ Take(r, batch[r]) /\ UNCHANGED <<read, disturbances>>
       \/ Disturb /\ Catch(r)
    /\ UNCHANGED <<clock, published, failures>>

\* A call of repository.markSent to the store is lost.
MarkSentFails(r) ==
    /\ pc[r] \in {"markSentRead", "markSentWrite"}
    /\ Disturb
    /\ Catch(r)
    /\ UNCHANGED <<store, clock, published, failures>>

\* save writes the relay's copy as a document created now.
Save(r) ==
    /\ pc[r] = "save"
    /\ store' = [store EXCEPT ![current[r].id] = [current[r] EXCEPT !.createdAt = clock]]
    /\ clock' = clock + 1
    /\ \/ /\ TriesAgain(r)
          /\ Goto(r, "publish")
          /\ attempt' = [attempt EXCEPT ![r] = @ + 1]
          /\ UNCHANGED <<batch, current, read, disturbances>>
       \/ ~TriesAgain(r) /\ Take(r, batch[r]) /\ UNCHANGED <<read, disturbances>>
       \/ Disturb /\ Abort(r)
    /\ UNCHANGED <<published, failures>>

\* repository.markFailed, up to the write.
MarkFailedRead(r) ==
    LET doc == store[current[r].id] IN
    /\ pc[r] = "markFailedRead"
    /\ IF Loads(doc)
       THEN /\ read' = [read EXCEPT ![r] = MarkFailed(doc)]
            /\ Goto(r, "markFailedWrite")
            /\ UNCHANGED <<batch, current, attempt>>
       ELSE Abort(r)
    /\ UNCHANGED <<store, clock, published, failures, disturbances>>

MarkFailedWrite(r) ==
    /\ pc[r] = "markFailedWrite"
    /\ store' = [store EXCEPT ![current[r].id] = read[r]]
    /\ \/ Take(r, batch[r]) /\ UNCHANGED <<read, disturbances>>
       \/ Disturb /\ Abort(r)
    /\ UNCHANGED <<clock, published, failures>>

\* The relay dies, or a call to the store is lost where nothing catches it.
Dies(r) ==
    /\ pc[r] # "idle"
    /\ Disturb
    /\ Abort(r)
    /\ UNCHANGED <<store, clock, published, failures>>

-----------------------------------------------------------------------------

Init ==
    /\ store = [m \in Messages |-> NoDocument]
    /\ clock = 0
    /\ pc = [r \in Relays |-> "idle"]
    /\ batch = [r \in Relays |-> {}]
    /\ current = [r \in Relays |-> NoMessage]
    /\ attempt = [r \in Relays |-> 0]
    /\ read = [r \in Relays |-> NoDocument]
    /\ published = [m \in Messages |-> 0]
    /\ failures = [m \in Messages |-> 0]
    /\ disturbances = 0

Relay(r) ==
    \/ FindPending(r)
    \/ PublishSucceeds(r)
    \/ PublishFails(r)
    \/ EnvelopeThrows(r)
    \/ MarkSentRead(r)
    \/ MarkSentWrite(r)
    \/ MarkSentFails(r)
    \/ Save(r)
    \/ MarkFailedRead(r)
    \/ MarkFailedWrite(r)

Next == (\E m \in Messages : Write(m)) \/ (\E r \in Relays : Relay(r) \/ Dies(r))

Spec == Init /\ [][Next]_vars

\* Whoever starts relays keeps doing so, and the event loop carries a relay on.
FairSpec == Spec /\ \A r \in Relays : WF_vars(Relay(r))

-----------------------------------------------------------------------------
(* Properties *)

TypeOK ==
    /\ store \in [Messages -> Documents \union {NoDocument}]
    /\ clock \in Nat
    /\ pc \in [Relays -> {"idle", "publish", "markSentRead", "markSentWrite", "save",
                          "markFailedRead", "markFailedWrite"}]
    /\ batch \in [Relays -> SUBSET Documents]
    /\ current \in [Relays -> Documents \union {NoMessage}]
    /\ attempt \in [Relays -> 0..(MaxAttempts - 1)]
    /\ read \in [Relays -> Documents \union {NoDocument}]
    /\ published \in [Messages -> Nat]
    /\ failures \in [Messages -> Nat]
    /\ disturbances \in 0..MaxDisturbances
    /\ \A r \in Relays : /\ pc[r] # "idle" => current[r] \in Documents
                         /\ pc[r] \in {"markSentWrite", "markFailedWrite"} => read[r] \in Documents

\* A message is recorded as sent only after the broker has accepted it, however
\* the copies, reads and writes of several relays interleave.
SentWasPublished ==
    \A m \in Messages : store[m] # NoDocument /\ store[m].status = "SENT" => published[m] > 0

\* A message is given up only after as many attempts at it have failed as its
\* maxRetries, and after one at least.
FailedWasTried ==
    \A m \in Messages : store[m] # NoDocument /\ store[m].status = "FAILED" =>
                            failures[m] > 0 /\ failures[m] >= MaxRetries[m]

\* One relay alone publishes a message a second time only after a crash, a lost
\* call or a lost reply.
DuplicatesAreEarned == \A m \in Messages : published[m] <= 1 + disturbances

Settled(m) == store[m] # NoDocument /\ store[m].status \in {"SENT", "FAILED"}

\* A message that cannot be published does not hold up the others: every one of
\* them that is written is sent or given up in the end.
NothingBlocksTheQueue ==
    \A m \in Messages \ Poison : store[m] # NoDocument ~> Settled(m)

Fate == [m \in Messages |-> IF store[m] = NoDocument THEN "none"
                            ELSE CASE store[m].status = "PENDING" -> "pending"
                                   [] store[m].status = "SENT" -> "sent"
                                   [] store[m].status = "FAILED" -> "failed"]

Producer == INSTANCE Delivery WITH fate <- Fate, copies <- published

\* One relay alone implements Delivery: SENT and FAILED are final, nothing is
\* published after either, and every message gets there.
DeliversAtLeastOnce == Producer!FairSpec
=============================================================================
