---------------------------- MODULE OutboxProofs ----------------------------
(***************************************************************************)
(* Theorems about Outbox, for any messages, any number of relays, any      *)
(* batch size, attempts and retries, and any number of disturbances.       *)
(***************************************************************************)
EXTENDS Outbox, TLAPS

-----------------------------------------------------------------------------
(* The entity *)

\* markFailed and markSent return documents of the same message.
LEMMA MarkFailedType ==
    ASSUME NEW e \in Documents
    PROVE  /\ MarkFailed(e) \in Documents
           /\ MarkFailed(e).id = e.id
           /\ e.status # "PENDING" => MarkFailed(e) = e
           /\ e.status = "PENDING" => /\ MarkFailed(e).retries = e.retries + 1
                                     /\ MarkFailed(e).status = StatusAfter(e, e.retries + 1)
  <1>1. CASE e.status # "PENDING"
    BY <1>1 DEF MarkFailed
  <1>2. CASE e.status = "PENDING"
    <2>1. StatusAfter(e, e.retries + 1) \in Statuses /\ e.retries + 1 \in Nat
      BY DEF StatusAfter, Statuses, Documents
    <2> DEFINE status == StatusAfter(e, e.retries + 1)
    <2>2. MarkFailed(e) = [e EXCEPT !.retries = e.retries + 1, !.status = status]
      BY <1>2 DEF MarkFailed
    <2> HIDE DEF status
    <2>3. status \in Statuses
      BY <2>1 DEF status
    <2>4. /\ MarkFailed(e) \in Documents
          /\ MarkFailed(e).id = e.id
          /\ MarkFailed(e).retries = e.retries + 1
          /\ MarkFailed(e).status = status
      BY <2>1, <2>2, <2>3 DEF Documents
    <2> QED
      BY <1>2, <2>4 DEF status
  <1> QED
    BY <1>1, <1>2

LEMMA MarkSentType ==
    ASSUME NEW e \in Documents
    PROVE  MarkSent(e) \in Documents /\ MarkSent(e).id = e.id /\ MarkSent(e).status = "SENT"
  BY DEF MarkSent, Documents, Statuses

\* Every await works on a document that exists: none is ever deleted.
StoreInv ==
    /\ \A m \in Messages : store[m] # NoDocument => store[m].id = m
    /\ \A r \in Relays : /\ \A e \in batch[r] : store[e.id] # NoDocument
                         /\ current[r] # NoMessage => store[current[r].id] # NoDocument
                         /\ pc[r] \in {"markSentWrite", "markFailedWrite"} =>
                               read[r].id = current[r].id

LEMMA PendingType ==
    ASSUME TypeOK, StoreInv, NEW n
    PROVE  \A e \in OldestPending(n) : /\ e \in Documents /\ e.status = "PENDING"
                                       /\ store[e.id] = e /\ e # NoDocument
  BY DEF OldestPending, TypeOK, StoreInv

-----------------------------------------------------------------------------
(* Type correctness *)

LEMMA TypeInit == Init => TypeOK
  BY RelayAssumption DEF Init, TypeOK

\* Going on with the batch, giving it up and the catch block keep the types.
LEMMA TakeType ==
    ASSUME TypeOK, NEW r \in Relays, NEW rest \in SUBSET Documents, Take(r, rest)
    PROVE  /\ pc' \in [Relays -> {"idle", "publish", "markSentRead", "markSentWrite", "save",
                                  "markFailedRead", "markFailedWrite"}]
           /\ batch' \in [Relays -> SUBSET Documents]
           /\ current' \in [Relays -> Documents \union {NoMessage}]
           /\ attempt' \in [Relays -> 0..(MaxAttempts - 1)]
           /\ \A q \in Relays \ {r} : pc'[q] = pc[q] /\ current'[q] = current[q]
           /\ pc'[r] \in {"idle", "publish"}
           /\ pc'[r] # "idle" => current'[r] \in Documents
  <1> USE RelayAssumption
  <1>1. CASE rest = {}
    BY <1>1 DEF Take, Goto, TypeOK
  <1>2. CASE rest # {}
    <2>1. 0 \in 0..(MaxAttempts - 1)
      OBVIOUS
    <2>2. PICK e \in rest :
             /\ pc' = [pc EXCEPT ![r] = "publish"]
             /\ current' = [current EXCEPT ![r] = e]
             /\ batch' = [batch EXCEPT ![r] = rest \ {e}]
             /\ attempt' = [attempt EXCEPT ![r] = 0]
      BY <1>2 DEF Take, Goto
    <2> QED
      BY <2>1, <2>2 DEF TypeOK
  <1> QED
    BY <1>1, <1>2

LEMMA AbortType ==
    ASSUME TypeOK, NEW r \in Relays, Abort(r)
    PROVE  /\ pc' = [pc EXCEPT ![r] = "idle"]
           /\ batch' \in [Relays -> SUBSET Documents]
           /\ current' \in [Relays -> Documents \union {NoMessage}]
           /\ \A q \in Relays \ {r} : current'[q] = current[q]
           /\ attempt' = attempt /\ read' = read
  BY DEF Abort, Goto, TypeOK

LEMMA CatchType ==
    ASSUME TypeOK, NEW r \in Relays, pc[r] # "idle", Catch(r)
    PROVE  /\ current' = [current EXCEPT ![r] = MarkFailed(current[r])]
           /\ current' \in [Relays -> Documents \union {NoMessage}]
           /\ current'[r] \in Documents
           /\ pc' = [pc EXCEPT ![r] = IF MarkFailed(current[r]).status = "FAILED"
                                      THEN "markFailedRead" ELSE "save"]
           /\ batch' = batch /\ attempt' = attempt /\ read' = read
  <1>1. MarkFailed(current[r]) \in Documents
    BY MarkFailedType DEF TypeOK
  <1> QED
    BY <1>1 DEF Catch, Goto, TypeOK

\* The documents the actions of a running relay work on.
LEMMA DocumentExists ==
    ASSUME TypeOK, StoreInv, NEW r \in Relays, pc[r] # "idle"
    PROVE  /\ current[r] \in Documents /\ current[r].id \in Messages
           /\ store[current[r].id] \in Documents
           /\ store[current[r].id].id = current[r].id
  <1>1. current[r] \in Documents /\ current[r] # NoMessage
    BY NullAssumption DEF TypeOK
  <1>2. current[r].id \in Messages
    BY <1>1 DEF Documents
  <1> QED
    BY <1>1, <1>2 DEF TypeOK, StoreInv

LEMMA TypeRelay ==
    ASSUME TypeOK, StoreInv, NEW r \in Relays, Relay(r) \/ Dies(r)
    PROVE  TypeOK'
  <1> USE RelayAssumption DEF Goto, Disturb
  <1>1. CASE FindPending(r)
    <2>1. OldestPending(BatchSize) \in SUBSET Documents
      BY PendingType
    <2> QED
      BY <1>1, <2>1, TakeType DEF FindPending, TypeOK
  <1>2. CASE PublishSucceeds(r)
    <2>1. MarkSent(current[r]) \in Documents /\ current[r].id \in Messages
      BY <1>2, DocumentExists, MarkSentType DEF PublishSucceeds
    <2> QED
      BY <1>2, <2>1 DEF PublishSucceeds, TypeOK
  <1>3. CASE PublishFails(r) \/ EnvelopeThrows(r) \/ MarkSentFails(r)
    <2>1. current[r].id \in Messages /\ pc[r] # "idle"
      BY <1>3, DocumentExists DEF PublishFails, EnvelopeThrows, MarkSentFails
    <2>2. /\ published' \in [Messages -> Nat] /\ failures' \in [Messages -> Nat]
          /\ disturbances' \in 0..MaxDisturbances
          /\ UNCHANGED <<store, clock>>
      BY <1>3, <2>1 DEF PublishFails, EnvelopeThrows, MarkSentFails, TypeOK
    <2>3. Catch(r) \/ Abort(r)
      BY <1>3 DEF PublishFails, EnvelopeThrows, MarkSentFails
    <2>4. CASE Catch(r)
      BY <2>1, <2>2, <2>4, CatchType DEF TypeOK
    <2>5. CASE Abort(r)
      BY <2>2, <2>5, AbortType DEF TypeOK
    <2> QED
      BY <2>3, <2>4, <2>5
  <1>4. CASE MarkSentRead(r) \/ MarkFailedRead(r)
    <2> DEFINE doc == store[current[r].id]
    <2>1. pc[r] # "idle" /\ UNCHANGED <<store, clock, published, failures, disturbances>>
      BY <1>4 DEF MarkSentRead, MarkFailedRead
    <2>2. MarkSent(doc) \in Documents /\ MarkFailed(doc) \in Documents
      BY <2>1, DocumentExists, MarkSentType, MarkFailedType
    <2>3. CASE Catch(r)
      BY <2>1, <2>3, CatchType DEF TypeOK
    <2>4. CASE Abort(r)
      BY <2>1, <2>4, AbortType DEF TypeOK
    <2>5. CASE ~Catch(r) /\ ~Abort(r)
      <3>1. /\ read' \in {[read EXCEPT ![r] = MarkSent(doc)], [read EXCEPT ![r] = MarkFailed(doc)]}
            /\ pc' \in {[pc EXCEPT ![r] = "markSentWrite"], [pc EXCEPT ![r] = "markFailedWrite"]}
            /\ UNCHANGED <<batch, current, attempt>>
        BY <1>4, <2>5 DEF MarkSentRead, MarkFailedRead
      <3> QED
        BY <2>1, <2>2, <3>1 DEF TypeOK
    <2> QED
      BY <2>3, <2>4, <2>5
  <1>5. CASE MarkSentWrite(r) \/ MarkFailedWrite(r) \/ Save(r)
    <2>1. pc[r] # "idle"
      BY <1>5 DEF MarkSentWrite, MarkFailedWrite, Save
    <2>2. /\ store' \in [Messages -> Documents \union {NoDocument}]
          /\ clock' \in Nat /\ disturbances' \in 0..MaxDisturbances
          /\ UNCHANGED <<read, published, failures>>
      <3>1. current[r] \in Documents
        BY <2>1 DEF TypeOK
      <3>2. [current[r] EXCEPT !.createdAt = clock] \in Documents
        BY <3>1 DEF Documents, TypeOK
      <3>3. CASE Save(r)
        <4> DEFINE saved == [current[r] EXCEPT !.createdAt = clock]
        <4>1. /\ store' = [store EXCEPT ![current[r].id] = saved]
              /\ clock' = clock + 1 /\ UNCHANGED <<published, failures>>
          BY <3>3 DEF Save
        <4>2. UNCHANGED <<read, disturbances>> \/ (UNCHANGED read /\ Disturb)
          BY <3>3 DEF Save, Abort
        <4>3. store' \in [Messages -> Documents \union {NoDocument}] /\ clock' \in Nat
          <5>1. saved \in Documents
            BY <3>2
          <5> HIDE DEF saved
          <5>2. store \in [Messages -> Documents \union {NoDocument}] /\ clock \in Nat
            BY DEF TypeOK
          <5>3. store' \in [Messages -> Documents \union {NoDocument}]
            BY <4>1, <5>1, <5>2
          <5>4. clock' \in Nat
            BY <4>1, <5>2
          <5> QED
            BY <5>3, <5>4
        <4> QED
          BY <4>1, <4>2, <4>3 DEF TypeOK
      <3>4. CASE MarkSentWrite(r) \/ MarkFailedWrite(r)
        BY <3>4 DEF MarkSentWrite, MarkFailedWrite, Abort, Catch, TypeOK
      <3> QED
        BY <1>5, <3>3, <3>4
    <2>3. CASE Take(r, batch[r])
      <3>1. batch[r] \in SUBSET Documents
        BY DEF TypeOK
      <3> QED
        BY <2>2, <2>3, <3>1, TakeType DEF TypeOK
    <2>4. CASE Abort(r)
      BY <2>2, <2>4, AbortType DEF TypeOK
    <2>5. CASE Catch(r)
      BY <2>1, <2>2, <2>5, CatchType DEF TypeOK
    <2>6. CASE Save(r) /\ ~Take(r, batch[r]) /\ ~Abort(r)
      <3>1. /\ attempt[r] + 1 < MaxAttempts
            /\ pc' = [pc EXCEPT ![r] = "publish"]
            /\ attempt' = [attempt EXCEPT ![r] = attempt[r] + 1]
            /\ UNCHANGED <<batch, current>>
        BY <2>6 DEF Save, TriesAgain
      <3>2. attempt[r] + 1 \in 0..(MaxAttempts - 1)
        BY <3>1 DEF TypeOK
      <3> QED
        BY <2>1, <2>2, <3>1, <3>2 DEF TypeOK
    <2> QED
      BY <1>5, <2>3, <2>4, <2>5, <2>6 DEF MarkSentWrite, MarkFailedWrite
  <1>6. CASE Dies(r)
    BY <1>6, AbortType DEF Dies, TypeOK
  <1> QED
    BY <1>1, <1>2, <1>3, <1>4, <1>5, <1>6 DEF Relay

-----------------------------------------------------------------------------
(* The inductive invariant *)

\* What the status and the retries of a document, or of a copy of it, say is
\* borne out by the history p of publications and f of failures; s is the store.
Truthful(e, s, p, f) ==
    /\ e \in Documents
    /\ s[e.id] # NoDocument
    /\ e.status = "SENT" => p[e.id] > 0
    /\ e.status = "FAILED" => f[e.id] > 0 /\ f[e.id] >= MaxRetries[e.id]
    /\ e.status = "PENDING" => e.retries <= f[e.id]

StoreTruth == \A m \in Messages : store[m] # NoDocument =>
                 store[m].id = m /\ Truthful(store[m], store, published, failures)

\* At each await of a relay, what its copy and its read are.
RelayTruth(r) ==
    /\ \A e \in batch[r] : e.status = "PENDING" /\ Truthful(e, store, published, failures)
    /\ current[r] # NoMessage => Truthful(current[r], store, published, failures)
    /\ pc[r] = "publish" => current[r].status = "PENDING"
    /\ pc[r] \in {"markSentRead", "markSentWrite"} => current[r].status = "SENT"
    /\ pc[r] = "save" => current[r].status # "FAILED"
    /\ pc[r] \in {"markFailedRead", "markFailedWrite"} => current[r].status = "FAILED"
    /\ pc[r] = "markSentWrite" => read[r].id = current[r].id /\ read[r].status = "SENT"
    /\ pc[r] = "markFailedWrite" => /\ read[r].id = current[r].id
                                    /\ Truthful(read[r], store, published, failures)

Inv == TypeOK /\ StoreTruth /\ \A r \in Relays : RelayTruth(r)

LEMMA InvStoreInv == ASSUME Inv PROVE StoreInv
  BY DEF Inv, StoreTruth, RelayTruth, Truthful, StoreInv

\* Nothing is deleted and the histories only grow.
Grows(s, s2, p, p2, f, f2) ==
    \A m \in Messages : /\ s[m] # NoDocument => s2[m] # NoDocument
                        /\ p[m] <= p2[m] /\ f[m] <= f2[m]

\* What was truthful stays so.
LEMMA TruthStays ==
    ASSUME NEW s, NEW s2, NEW p \in [Messages -> Nat], NEW p2 \in [Messages -> Nat],
           NEW f \in [Messages -> Nat], NEW f2 \in [Messages -> Nat],
           Grows(s, s2, p, p2, f, f2), NEW e, Truthful(e, s, p, f)
    PROVE  Truthful(e, s2, p2, f2)
  <1>1. e.id \in Messages /\ e.retries \in Nat
    BY DEF Truthful, Documents
  <1>2. p[e.id] \in Nat /\ p2[e.id] \in Nat /\ f[e.id] \in Nat /\ f2[e.id] \in Nat
    BY <1>1
  <1>3. s2[e.id] # NoDocument /\ p[e.id] <= p2[e.id] /\ f[e.id] <= f2[e.id]
    BY <1>1 DEF Grows, Truthful
  <1> QED
    BY <1>1, <1>2, <1>3, RelayAssumption DEF Truthful

\* One more failure makes markFailed truthful, and a copy in repository.markFailed
\* is, because that is only called for a message that has failed often enough.
LEMMA MarkFailedTruth ==
    ASSUME NEW e, NEW s, NEW p \in [Messages -> Nat], NEW f \in [Messages -> Nat],
           NEW f2 \in [Messages -> Nat], NEW p2 \in [Messages -> Nat],
           Truthful(e, s, p, f), p2[e.id] >= p[e.id], f2[e.id] >= f[e.id],
           e.status = "PENDING" =>
              \/ f2[e.id] > f[e.id]
              \/ f2[e.id] > 0 /\ f2[e.id] >= MaxRetries[e.id]
    PROVE  Truthful(MarkFailed(e), s, p2, f2)
  <1>1. /\ e \in Documents /\ e.id \in Messages /\ e.retries \in Nat
        /\ p[e.id] \in Nat /\ p2[e.id] \in Nat /\ f[e.id] \in Nat /\ f2[e.id] \in Nat
        /\ MaxRetries[e.id] \in Nat
    BY RelayAssumption DEF Truthful, Documents
  <1>2. CASE e.status # "PENDING"
    BY <1>1, <1>2, RelayAssumption, MarkFailedType DEF Truthful
  <1>3. CASE e.status = "PENDING"
    <2>1. /\ MarkFailed(e) \in Documents /\ MarkFailed(e).id = e.id
          /\ MarkFailed(e).retries = e.retries + 1
          /\ MarkFailed(e).status = StatusAfter(e, e.retries + 1)
      BY <1>1, <1>3, MarkFailedType
    <2>2. e.retries <= f[e.id] /\ s[e.id] # NoDocument
      BY <1>3 DEF Truthful
    <2>3. \/ MarkFailed(e).status = "FAILED" /\ e.retries + 1 >= MaxRetries[e.id]
          \/ MarkFailed(e).status = "PENDING" /\ e.retries + 1 < MaxRetries[e.id]
      BY <1>1, <2>1, RelayAssumption DEF StatusAfter
    <2>4. f2[e.id] > 0 /\ (f2[e.id] >= e.retries + 1 \/ f2[e.id] >= MaxRetries[e.id])
      BY <1>1, <1>3, <2>2
    <2> QED
      BY <1>1, <2>1, <2>2, <2>3, <2>4, RelayAssumption DEF Truthful
  <1> QED
    BY <1>2, <1>3

\* markSent is truthful once the message is published.
LEMMA MarkSentTruth ==
    ASSUME NEW e, NEW s, NEW p, NEW f, NEW p2, e \in Documents, s[e.id] # NoDocument,
           p2[e.id] > 0
    PROVE  Truthful(MarkSent(e), s, p2, f)
  BY MarkSentType DEF Truthful

-----------------------------------------------------------------------------
(* Steps *)

HistoryGrows == Grows(store, store', published, published', failures, failures')

LEMMA BatchTruth ==
    ASSUME Inv, TypeOK', HistoryGrows, NEW r \in Relays
    PROVE  /\ \A e \in batch[r] : e.status = "PENDING" /\ Truthful(e, store', published', failures')
           /\ current[r] # NoMessage => Truthful(current[r], store', published', failures')
  <1>1. /\ \A e \in batch[r] : e.status = "PENDING" /\ Truthful(e, store, published, failures)
        /\ current[r] # NoMessage => Truthful(current[r], store, published, failures)
    BY DEF Inv, RelayTruth
  <1>2. /\ published \in [Messages -> Nat] /\ failures \in [Messages -> Nat]
        /\ published' \in [Messages -> Nat] /\ failures' \in [Messages -> Nat]
    BY DEF Inv, TypeOK
  <1> QED
    BY <1>1, <1>2, TruthStays DEF HistoryGrows

\* A relay that does not move.
LEMMA OtherTruth ==
    ASSUME Inv, TypeOK', HistoryGrows, NEW q \in Relays,
           pc'[q] = pc[q], batch'[q] = batch[q], current'[q] = current[q], read'[q] = read[q]
    PROVE  RelayTruth(q)'
  <1>1. RelayTruth(q)
    BY DEF Inv
  <1>2. pc[q] = "markFailedWrite" => Truthful(read[q], store', published', failures')
    <2>1. /\ published \in [Messages -> Nat] /\ failures \in [Messages -> Nat]
          /\ published' \in [Messages -> Nat] /\ failures' \in [Messages -> Nat]
      BY DEF Inv, TypeOK
    <2> QED
      BY <1>1, <2>1, TruthStays DEF RelayTruth, HistoryGrows
  <1> QED
    BY <1>1, <1>2, BatchTruth DEF RelayTruth

LEMMA TakeTruth ==
    ASSUME Inv, TypeOK', HistoryGrows, NEW r \in Relays, NEW rest, Take(r, rest),
           \A e \in rest : e.status = "PENDING" /\ Truthful(e, store', published', failures')
    PROVE  RelayTruth(r)'
  <1>1. CASE rest = {}
    <2>1. pc'[r] = "idle" /\ current'[r] = NoMessage /\ batch'[r] = batch[r]
      BY <1>1 DEF Take, Goto, Inv, TypeOK
    <2> QED
      BY <2>1, BatchTruth DEF RelayTruth
  <1>2. CASE rest # {}
    <2>1. PICK e \in rest : pc'[r] = "publish" /\ current'[r] = e /\ batch'[r] = rest \ {e}
      BY <1>2 DEF Take, Goto, Inv, TypeOK
    <2> QED
      BY <2>1 DEF RelayTruth
  <1> QED
    BY <1>1, <1>2

LEMMA AbortTruth ==
    ASSUME Inv, NEW r \in Relays, Abort(r)
    PROVE  RelayTruth(r)'
  <1>1. pc'[r] = "idle" /\ current'[r] = NoMessage /\ batch'[r] = {}
    BY DEF Abort, Goto, Inv, TypeOK
  <1> QED
    BY <1>1 DEF RelayTruth

LEMMA CatchTruth ==
    ASSUME Inv, TypeOK', HistoryGrows, NEW r \in Relays, pc[r] # "idle", Catch(r),
           Truthful(MarkFailed(current[r]), store', published', failures')
    PROVE  RelayTruth(r)'
  <1>1. /\ current'[r] = MarkFailed(current[r]) /\ batch'[r] = batch[r]
        /\ \/ MarkFailed(current[r]).status = "FAILED" /\ pc'[r] = "markFailedRead"
           \/ MarkFailed(current[r]).status # "FAILED" /\ pc'[r] = "save"
    BY DEF Catch, Goto, Inv, TypeOK
  <1> QED
    BY <1>1, BatchTruth DEF RelayTruth

\* A step of one relay leaves the others' variables alone.
LEMMA OthersUnchanged ==
    ASSUME TypeOK, NEW r \in Relays, Relay(r) \/ Dies(r), NEW q \in Relays \ {r}
    PROVE  pc'[q] = pc[q] /\ batch'[q] = batch[q] /\ current'[q] = current[q]
           /\ read'[q] = read[q]
  <1> USE DEF Goto, TypeOK
  <1>1. ASSUME NEW rest, Take(r, rest)
        PROVE  pc'[q] = pc[q] /\ batch'[q] = batch[q] /\ current'[q] = current[q]
    BY <1>1 DEF Take
  <1>2. ASSUME Abort(r) \/ Catch(r)
        PROVE  pc'[q] = pc[q] /\ batch'[q] = batch[q] /\ current'[q] = current[q]
               /\ read'[q] = read[q]
    BY <1>2 DEF Abort, Catch
  <1>3. CASE FindPending(r)
    BY <1>1, <1>3 DEF FindPending
  <1>4. CASE PublishSucceeds(r)
    BY <1>4 DEF PublishSucceeds
  <1>5. CASE PublishFails(r) \/ EnvelopeThrows(r) \/ MarkSentFails(r) \/ Dies(r)
    BY <1>2, <1>5 DEF PublishFails, EnvelopeThrows, MarkSentFails, Dies
  <1>6. CASE MarkSentRead(r) \/ MarkFailedRead(r)
    BY <1>2, <1>6 DEF MarkSentRead, MarkFailedRead
  <1>7. CASE MarkSentWrite(r) \/ MarkFailedWrite(r) \/ Save(r)
    BY <1>1, <1>2, <1>7 DEF MarkSentWrite, MarkFailedWrite, Save
  <1> QED
    BY <1>3, <1>4, <1>5, <1>6, <1>7 DEF Relay

\* The store after a step that writes no document, or one truthful document.
LEMMA StoreTruthKept ==
    ASSUME Inv, TypeOK', HistoryGrows,
           \/ store' = store
           \/ \E e \in Documents : /\ store' = [store EXCEPT ![e.id] = e]
                                  /\ Truthful(e, store', published', failures')
    PROVE  StoreTruth'
  <1>1. /\ published \in [Messages -> Nat] /\ failures \in [Messages -> Nat]
        /\ published' \in [Messages -> Nat] /\ failures' \in [Messages -> Nat]
    BY DEF Inv, TypeOK
  <1>2. \A m \in Messages : store[m] # NoDocument =>
           store[m].id = m /\ Truthful(store[m], store', published', failures')
    BY <1>1, TruthStays DEF HistoryGrows, Inv, StoreTruth
  <1>3. CASE store' = store
    BY <1>2, <1>3 DEF StoreTruth
  <1>4. CASE \E e \in Documents : /\ store' = [store EXCEPT ![e.id] = e]
                                 /\ Truthful(e, store', published', failures')
    <2>1. PICK e \in Documents : /\ store' = [store EXCEPT ![e.id] = e]
                                /\ Truthful(e, store', published', failures')
      BY <1>4
    <2>2. \A m \in Messages : store'[m] = IF m = e.id THEN e ELSE store[m]
      BY <2>1 DEF Inv, TypeOK
    <2> QED
      BY <1>2, <2>1, <2>2 DEF StoreTruth
  <1> QED
    BY <1>3, <1>4

LEMMA RelayStep ==
    ASSUME Inv, NEW r \in Relays, Relay(r) \/ Dies(r)
    PROVE  HistoryGrows /\ StoreTruth' /\ RelayTruth(r)'
  <1> DEFINE m == current[r].id
  <1>1. TypeOK /\ TypeOK' /\ StoreInv
    BY InvStoreInv, TypeRelay DEF Inv
  <1>2. pc[r] # "idle" => /\ current[r] \in Documents /\ m \in Messages
                          /\ Truthful(current[r], store, published, failures)
                          /\ store[m] \in Documents /\ store[m].id = m
                          /\ Truthful(store[m], store, published, failures)
    BY <1>1, DocumentExists, NullAssumption DEF Inv, RelayTruth, StoreTruth
  <1>3. /\ published \in [Messages -> Nat] /\ failures \in [Messages -> Nat]
        /\ published' \in [Messages -> Nat] /\ failures' \in [Messages -> Nat]
    BY <1>1 DEF TypeOK
  <1>4. store \in [Messages -> Documents \union {NoDocument}]
    BY <1>1 DEF TypeOK
  <1> HIDE DEF m
  \* Steps that leave the histories and the store alone, or write a document.
  <1>5. ASSUME UNCHANGED <<published, failures>>, NEW e \in Documents, store[e.id] # NoDocument,
               store' = store \/ store' = [store EXCEPT ![e.id] = e]
        PROVE  HistoryGrows
    <2>1. \A n \in Messages : store[n] # NoDocument => store'[n] # NoDocument
      BY <1>4, <1>5, NullAssumption
    <2>2. \A n \in Messages : published[n] <= published'[n] /\ failures[n] <= failures'[n]
      BY <1>3, <1>5
    <2> QED
      BY <2>1, <2>2 DEF HistoryGrows, Grows
  <1>6. CASE FindPending(r)
    <2>1. UNCHANGED <<store, published, failures>>
      BY <1>6 DEF FindPending
    <2>2. HistoryGrows
      BY <1>3, <2>1 DEF HistoryGrows, Grows
    <2>3. \A e \in OldestPending(BatchSize) :
             e.status = "PENDING" /\ Truthful(e, store', published', failures')
      <3> SUFFICES ASSUME NEW e \in OldestPending(BatchSize)
                   PROVE  e.status = "PENDING" /\ Truthful(e, store, published, failures)
        BY <2>1
      <3>1. e \in Documents /\ e.status = "PENDING" /\ store[e.id] = e /\ e # NoDocument
        BY <1>1, PendingType
      <3>2. e.id \in Messages
        BY <3>1 DEF Documents
      <3> QED
        BY <3>1, <3>2 DEF Inv, StoreTruth
    <2> QED
      BY <1>1, <1>6, <2>1, <2>2, <2>3, TakeTruth, StoreTruthKept DEF FindPending
  <1>7. CASE PublishSucceeds(r)
    <2>1. /\ pc[r] = "publish" /\ UNCHANGED <<store, batch, failures>>
          /\ published' = [published EXCEPT ![m] = @ + 1]
          /\ current'[r] = MarkSent(current[r]) /\ pc'[r] = "markSentRead"
      BY <1>1, <1>7 DEF PublishSucceeds, Goto, TypeOK, m
    <2>2. published'[m] > 0 /\ HistoryGrows
      BY <1>2, <1>3, <2>1 DEF HistoryGrows, Grows
    <2>3. Truthful(current'[r], store', published', failures')
      <3>1. store[current[r].id] # NoDocument
        BY <1>2, <2>1 DEF Truthful
      <3> QED
        BY <1>2, <2>1, <2>2, <3>1, MarkSentTruth DEF m
    <2>4. current'[r].status = "SENT"
      BY <1>2, <2>1, MarkSentType
    <2>5. \A e \in batch'[r] : e.status = "PENDING" /\ Truthful(e, store', published', failures')
      BY <1>1, <2>1, <2>2, BatchTruth
    <2>6. RelayTruth(r)'
      BY <2>1, <2>3, <2>4, <2>5 DEF RelayTruth
    <2> QED
      BY <1>1, <2>1, <2>2, <2>6, StoreTruthKept
  <1>8. CASE PublishFails(r) \/ EnvelopeThrows(r)
    <2>1. /\ pc[r] = "publish" /\ UNCHANGED store
          /\ published' \in {published, [published EXCEPT ![m] = @ + 1]}
          /\ \/ Catch(r) /\ failures' = [failures EXCEPT ![m] = @ + 1]
             \/ Abort(r) /\ failures' = failures
      BY <1>8 DEF PublishFails, EnvelopeThrows, m
    <2>2. HistoryGrows
      BY <1>2, <1>3, <2>1 DEF HistoryGrows, Grows
    <2>3. RelayTruth(r)'
      <3>1. CASE Abort(r)
        BY <3>1, AbortTruth
      <3>2. CASE Catch(r) /\ failures' = [failures EXCEPT ![m] = @ + 1]
        <4>1. failures'[m] > failures[m] /\ published'[m] >= published[m]
          BY <1>2, <1>3, <2>1, <3>2
        <4>2. failures'[m] >= failures[m]
          BY <1>2, <1>3, <2>1, <4>1
        <4>3. Truthful(MarkFailed(current[r]), store', published', failures')
          BY <1>2, <1>3, <2>1, <4>1, <4>2, MarkFailedTruth DEF m
        <4> QED
          BY <1>1, <2>1, <2>2, <3>2, <4>3, CatchTruth
      <3> QED
        BY <2>1, <3>1, <3>2
    <2> QED
      BY <1>1, <2>1, <2>2, <2>3, StoreTruthKept
  <1>9. CASE MarkSentFails(r) \/ MarkSentRead(r)
    <2>1. /\ pc[r] \in {"markSentRead", "markSentWrite"}
          /\ UNCHANGED <<store, published, failures>>
          /\ current[r].status = "SENT"
      BY <1>9 DEF MarkSentFails, MarkSentRead, Inv, RelayTruth
    <2>2. HistoryGrows
      BY <1>3, <2>1 DEF HistoryGrows, Grows
    <2>3. RelayTruth(r)'
      <3>1. CASE Catch(r)
        <4>1. MarkFailed(current[r]) = current[r]
          BY <1>2, <2>1, MarkFailedType
        <4> QED
          BY <1>1, <1>2, <2>1, <2>2, <3>1, <4>1, CatchTruth
      <3>2. CASE ~Catch(r)
        <4>1. /\ read'[r] = MarkSent(store[m]) /\ pc'[r] = "markSentWrite"
              /\ UNCHANGED <<batch, current>>
          BY <1>1, <1>9, <3>2 DEF MarkSentFails, MarkSentRead, Goto, TypeOK, m
        <4>2. read'[r].id = current[r].id /\ read'[r].status = "SENT"
          BY <1>2, <2>1, <4>1, MarkSentType DEF m
        <4> QED
          BY <1>1, <2>1, <2>2, <4>1, <4>2, BatchTruth DEF RelayTruth
      <3> QED
        BY <3>1, <3>2
    <2> QED
      BY <1>1, <2>1, <2>2, <2>3, StoreTruthKept
  <1>10. CASE MarkSentWrite(r)
    <2>1. /\ pc[r] = "markSentWrite" /\ store' = [store EXCEPT ![m] = read[r]]
          /\ UNCHANGED <<published, failures>>
          /\ Take(r, batch[r]) \/ Catch(r)
      BY <1>10 DEF MarkSentWrite, m
    <2>2. /\ read[r] \in Documents /\ read[r].id = m /\ read[r].status = "SENT"
          /\ current[r].status = "SENT"
      BY <1>1, <2>1 DEF TypeOK, Inv, RelayTruth, m
    <2>3. store[m] # NoDocument /\ published[m] > 0
      BY <1>2, <2>1, <2>2 DEF Truthful, m
    <2>4. HistoryGrows
      BY <1>5, <2>1, <2>2, <2>3
    <2>5. Truthful(read[r], store', published', failures')
      <3>1. store'[m] # NoDocument
        BY <1>2, <2>1, <2>3, <2>4 DEF HistoryGrows, Grows
      <3> QED
        BY <2>1, <2>2, <2>3, <3>1 DEF Truthful
    <2>6. StoreTruth'
      BY <1>1, <2>1, <2>2, <2>4, <2>5, StoreTruthKept
    <2>7. RelayTruth(r)'
      <3>1. CASE Take(r, batch[r])
        BY <1>1, <2>4, <3>1, BatchTruth, TakeTruth
      <3>2. CASE Catch(r)
        <4>1. MarkFailed(current[r]) = current[r]
          BY <1>2, <2>1, <2>2, MarkFailedType
        <4>2. Truthful(current[r], store', published', failures')
          BY <1>1, <1>2, <2>1, <2>4, BatchTruth, NullAssumption
        <4> QED
          BY <1>1, <2>1, <2>4, <3>2, <4>1, <4>2, CatchTruth
      <3> QED
        BY <2>1, <3>1, <3>2
    <2> QED
      BY <2>4, <2>6, <2>7
  <1>11. CASE Save(r)
    <2> DEFINE saved == [current[r] EXCEPT !.createdAt = clock]
    <2>1. /\ pc[r] = "save" /\ store' = [store EXCEPT ![m] = saved]
          /\ UNCHANGED <<published, failures>>
      BY <1>11 DEF Save, m
    <2>2. /\ saved \in Documents /\ saved.id = m
          /\ saved.status = current[r].status /\ saved.retries = current[r].retries
      BY <1>1, <1>2, <2>1 DEF Documents, TypeOK, m
    <2> HIDE DEF saved
    <2>3. store[m] # NoDocument
      BY <1>2, <2>1 DEF Truthful, m
    <2>4. HistoryGrows
      BY <1>5, <2>1, <2>2, <2>3
    <2>5. Truthful(current[r], store', published', failures')
      BY <1>1, <1>2, <2>1, <2>4, BatchTruth, NullAssumption
    <2>6. Truthful(saved, store', published', failures')
      BY <2>2, <2>5 DEF Truthful, m
    <2>7. StoreTruth'
      BY <1>1, <2>1, <2>2, <2>4, <2>6, StoreTruthKept
    <2>8. RelayTruth(r)'
      <3>1. CASE Take(r, batch[r])
        BY <1>1, <2>4, <3>1, BatchTruth, TakeTruth
      <3>2. CASE Abort(r)
        BY <3>2, AbortTruth
      <3>3. CASE ~Take(r, batch[r]) /\ ~Abort(r)
        <4>1. /\ current[r].status = "PENDING" /\ pc'[r] = "publish"
              /\ UNCHANGED <<batch, current, read>>
          BY <1>1, <1>11, <3>3 DEF Save, TriesAgain, Goto, TypeOK
        <4> QED
          BY <1>1, <2>4, <4>1, BatchTruth DEF RelayTruth
      <3> QED
        BY <3>1, <3>2, <3>3
    <2> QED
      BY <2>4, <2>7, <2>8
  <1>12. CASE MarkFailedRead(r)
    <2>1. /\ pc[r] = "markFailedRead" /\ UNCHANGED <<store, published, failures>>
          /\ current[r].status = "FAILED"
      BY <1>12 DEF MarkFailedRead, Inv, RelayTruth
    <2>2. HistoryGrows
      BY <1>3, <2>1 DEF HistoryGrows, Grows
    <2>3. RelayTruth(r)'
      <3>1. CASE Abort(r)
        BY <3>1, AbortTruth
      <3>2. CASE ~Abort(r)
        <4>1. /\ read'[r] = MarkFailed(store[m]) /\ pc'[r] = "markFailedWrite"
              /\ UNCHANGED <<batch, current>>
          BY <1>1, <1>12, <3>2 DEF MarkFailedRead, Goto, TypeOK, m
        <4>2. failures[m] > 0 /\ failures[m] >= MaxRetries[m]
          BY <1>2, <2>1 DEF Truthful, m
        <4>3. failures[m] >= failures[m] /\ published[m] >= published[m]
          BY <1>2, <1>3, <2>1
        <4>4. Truthful(MarkFailed(store[m]), store, published, failures)
          BY <1>2, <1>3, <2>1, <4>2, <4>3, MarkFailedTruth
        <4>5. MarkFailed(store[m]).id = m
          BY <1>2, <2>1, MarkFailedType
        <4>6. Truthful(read'[r], store', published', failures') /\ read'[r].id = current'[r].id
          BY <2>1, <4>1, <4>4, <4>5 DEF m
        <4> QED
          BY <1>1, <2>1, <2>2, <4>1, <4>6, BatchTruth DEF RelayTruth
      <3> QED
        BY <3>1, <3>2
    <2> QED
      BY <1>1, <2>1, <2>2, <2>3, StoreTruthKept
  <1>13. CASE MarkFailedWrite(r)
    <2>1. /\ pc[r] = "markFailedWrite" /\ store' = [store EXCEPT ![m] = read[r]]
          /\ UNCHANGED <<published, failures>>
          /\ Take(r, batch[r]) \/ Abort(r)
      BY <1>13 DEF MarkFailedWrite, m
    <2>2. /\ read[r] \in Documents /\ read[r].id = m
          /\ Truthful(read[r], store, published, failures)
      BY <1>1, <2>1 DEF TypeOK, Inv, RelayTruth, m
    <2>3. store[m] # NoDocument
      BY <1>2, <2>1 DEF Truthful, m
    <2>4. HistoryGrows
      BY <1>5, <2>1, <2>2, <2>3
    <2>5. Truthful(read[r], store', published', failures')
      BY <1>3, <2>2, <2>4, TruthStays DEF HistoryGrows
    <2>6. StoreTruth'
      BY <1>1, <2>1, <2>2, <2>4, <2>5, StoreTruthKept
    <2>7. RelayTruth(r)'
      <3>1. CASE Take(r, batch[r])
        BY <1>1, <2>4, <3>1, BatchTruth, TakeTruth
      <3>2. CASE Abort(r)
        BY <3>2, AbortTruth
      <3> QED
        BY <2>1, <3>1, <3>2
    <2> QED
      BY <2>4, <2>6, <2>7
  <1>14. CASE Dies(r)
    <2>1. Abort(r) /\ UNCHANGED <<store, published, failures>>
      BY <1>14 DEF Dies
    <2>2. HistoryGrows
      BY <1>3, <2>1 DEF HistoryGrows, Grows
    <2> QED
      BY <1>1, <2>1, <2>2, AbortTruth, StoreTruthKept
  <1> QED
    BY <1>6, <1>7, <1>8, <1>9, <1>10, <1>11, <1>12, <1>13, <1>14 DEF Relay

LEMMA WriteStep ==
    ASSUME Inv, NEW m \in Messages, Write(m)
    PROVE  Inv'
  <1> DEFINE e == [id |-> m, status |-> "PENDING", retries |-> 0, createdAt |-> clock]
  <1>1. /\ e \in Documents /\ clock + 1 \in Nat
    BY DEF Documents, Statuses, Inv, TypeOK
  <1>2. /\ store' = [store EXCEPT ![e.id] = e] /\ clock' = clock + 1
        /\ UNCHANGED <<pc, batch, current, attempt, read, published, failures, disturbances>>
    BY DEF Write, relay
  <1>3. e.id = m /\ e.status = "PENDING" /\ e.retries = 0
    OBVIOUS
  <1> HIDE DEF e
  <1>4. TypeOK'
    BY <1>1, <1>2 DEF Inv, TypeOK
  <1>5. HistoryGrows
    BY <1>1, <1>2, NullAssumption DEF HistoryGrows, Grows, Inv, TypeOK
  <1>6. Truthful(e, store', published', failures')
    <2>1. store'[m] = e /\ e # NoDocument
      BY <1>1, <1>2, <1>3, NullAssumption DEF Inv, TypeOK
    <2>2. failures'[m] \in Nat
      BY <1>4 DEF TypeOK
    <2> QED
      BY <1>1, <1>3, <2>1, <2>2 DEF Truthful
  <1>7. StoreTruth'
    BY <1>1, <1>2, <1>4, <1>5, <1>6, StoreTruthKept
  <1>8. \A q \in Relays : RelayTruth(q)'
    BY <1>2, <1>4, <1>5, OtherTruth
  <1> QED
    BY <1>4, <1>7, <1>8 DEF Inv

LEMMA InvInit == Init => Inv
  <1> SUFFICES ASSUME Init PROVE Inv
    OBVIOUS
  <1>1. TypeOK
    BY TypeInit
  <1>2. StoreTruth
    BY DEF Init, StoreTruth
  <1>3. \A r \in Relays : RelayTruth(r)
    BY DEF Init, RelayTruth
  <1> QED
    BY <1>1, <1>2, <1>3 DEF Inv

LEMMA InvStep == Inv /\ [Next]_vars => Inv'
  <1> SUFFICES ASSUME Inv, [Next]_vars PROVE Inv'
    OBVIOUS
  <1>1. CASE \E m \in Messages : Write(m)
    BY <1>1, WriteStep
  <1>2. ASSUME NEW r \in Relays, Relay(r) \/ Dies(r)
        PROVE  Inv'
    <2>1. TypeOK /\ TypeOK'
      BY <1>2, InvStoreInv, TypeRelay DEF Inv
    <2>2. HistoryGrows /\ StoreTruth' /\ RelayTruth(r)'
      BY <1>2, RelayStep
    <2>3. \A q \in Relays \ {r} : RelayTruth(q)'
      BY <1>2, <2>1, <2>2, OthersUnchanged, OtherTruth
    <2> QED
      BY <2>1, <2>2, <2>3 DEF Inv
  <1>3. CASE UNCHANGED vars
    BY <1>3 DEF vars, relay, Inv, TypeOK, StoreTruth, RelayTruth
  <1> QED
    BY <1>1, <1>2, <1>3 DEF Next

LEMMA Invariance == Spec => []Inv
  BY InvInit, InvStep, PTL DEF Spec

-----------------------------------------------------------------------------
(* Theorems *)

\* Type correctness; in particular a relay never works on a missing document.
THEOREM TypeCorrect == Spec => []TypeOK
  <1>1. Inv => TypeOK
    BY DEF Inv
  <1> QED
    BY <1>1, Invariance, PTL

\* A message recorded as sent was accepted by the broker, for any number of
\* relays.
THEOREM SentCorrect == Spec => []SentWasPublished
  <1>1. Inv => SentWasPublished
    BY DEF Inv, StoreTruth, Truthful, SentWasPublished
  <1> QED
    BY <1>1, Invariance, PTL

\* A message given up has failed as often as its maxRetries say, for any number of relays.
THEOREM FailedCorrect == Spec => []FailedWasTried
  <1>1. Inv => FailedWasTried
    BY DEF Inv, StoreTruth, Truthful, FailedWasTried
  <1> QED
    BY <1>1, Invariance, PTL

-----------------------------------------------------------------------------
(* One relay alone: its copies are up to date *)

Pending(m) == store[m] # NoDocument /\ store[m].status = "PENDING"

\* Nobody has written the documents of the batch since they were fetched, and
\* that of the current message is pending until the relay records its fate.
OwnInv(r) ==
    LET m == current[r].id IN
    /\ \A e \in batch[r] : store[e.id] = e /\ (pc[r] # "idle" => e.id # m)
    /\ pc[r] \in {"publish", "markSentRead", "markSentWrite", "markFailedRead",
                  "markFailedWrite"} => Pending(m)
    /\ pc[r] = "save" => \/ Pending(m)
                         \/ current[r].status = "SENT" /\ store[m].status = "SENT"
    /\ pc[r] = "markFailedWrite" => read[r].status # "SENT"

LEMMA TakeOwn ==
    ASSUME TypeOK, NEW r \in Relays, NEW rest \in SUBSET Documents, Take(r, rest),
           \A e \in rest : store'[e.id] = e /\ e.status = "PENDING",
           rest = {} => batch[r] = {}
    PROVE  OwnInv(r)'
  <1>1. CASE rest = {}
    BY <1>1 DEF Take, Goto, TypeOK, OwnInv
  <1>2. CASE rest # {}
    <2>1. PICK e \in rest :
             /\ pc'[r] = "publish" /\ current'[r] = e /\ batch'[r] = rest \ {e}
      BY <1>2 DEF Take, Goto, TypeOK
    <2>2. e # NoDocument
      BY NullAssumption
    <2>3. \A f \in rest \ {e} : f.id # e.id
      OBVIOUS
    <2> QED
      BY <2>1, <2>2, <2>3 DEF OwnInv, Pending
  <1> QED
    BY <1>1, <1>2

LEMMA AbortOwn ==
    ASSUME TypeOK, NEW r \in Relays, Abort(r)
    PROVE  OwnInv(r)'
  BY DEF Abort, Goto, TypeOK, OwnInv

LEMMA CatchOwn ==
    ASSUME TypeOK, NEW r \in Relays, pc[r] # "idle", Catch(r),
           current[r].status # "FAILED",
           \A e \in batch[r] : store'[e.id] = e /\ e.id # current[r].id,
           \/ store'[current[r].id] # NoDocument /\ store'[current[r].id].status = "PENDING"
           \/ current[r].status = "SENT" /\ store'[current[r].id].status = "SENT"
    PROVE  OwnInv(r)'
  <1>1. current[r] \in Documents
    BY DEF TypeOK
  <1>2. /\ current'[r] = MarkFailed(current[r]) /\ batch' = batch
        /\ pc'[r] = IF MarkFailed(current[r]).status = "FAILED" THEN "markFailedRead" ELSE "save"
    BY CatchType DEF TypeOK
  <1>3. current'[r].id = current[r].id
    BY <1>1, <1>2, MarkFailedType
  <1>4. current[r].status = "SENT" => current'[r].status = "SENT"
    BY <1>1, <1>2, MarkFailedType
  <1> QED
    BY <1>2, <1>3, <1>4 DEF OwnInv, Pending

LEMMA OwnStep ==
    ASSUME Inv, NEW r \in Relays, OwnInv(r), Relay(r) \/ Dies(r)
    PROVE  OwnInv(r)'
  <1> DEFINE m == current[r].id
  <1>1. /\ TypeOK /\ StoreInv /\ RelayTruth(r)
        /\ store \in [Messages -> Documents \union {NoDocument}]
        /\ batch[r] \in SUBSET Documents
    BY InvStoreInv DEF Inv, TypeOK
  <1>2. pc[r] # "idle" => /\ current[r] \in Documents /\ m \in Messages
                          /\ store[m] \in Documents /\ store[m] # NoDocument
                          /\ \A e \in batch[r] : e.id # m
    BY <1>1, DocumentExists, NullAssumption DEF OwnInv
  <1>3. \A e \in batch[r] : store[e.id] = e /\ e.status = "PENDING"
    BY <1>1 DEF OwnInv, RelayTruth
  <1> HIDE DEF m
  \* A step that writes the document of the current message leaves the batch.
  <1>4. ASSUME pc[r] # "idle", NEW d, store' = [store EXCEPT ![m] = d]
        PROVE  store'[m] = d /\ \A e \in batch[r] : store'[e.id] = e
    BY <1>1, <1>2, <1>3, <1>4 DEF Documents
  <1>5. CASE FindPending(r)
    <2>1. /\ OldestPending(BatchSize) \in SUBSET Documents
          /\ \A e \in OldestPending(BatchSize) : store[e.id] = e /\ e.status = "PENDING"
      BY <1>1, PendingType
    <2> QED
      BY <1>1, <1>5, <2>1, TakeOwn DEF FindPending
  <1>6. CASE PublishSucceeds(r)
    <2>1. /\ pc[r] = "publish" /\ pc'[r] = "markSentRead" /\ UNCHANGED <<store, batch>>
          /\ current'[r] = MarkSent(current[r])
      BY <1>1, <1>6 DEF PublishSucceeds, Goto, TypeOK
    <2>2. current'[r].id = m
      BY <1>2, <2>1, MarkSentType DEF m
    <2> QED
      BY <1>2, <1>3, <2>1, <2>2 DEF OwnInv, Pending, m
  <1>7. CASE PublishFails(r) \/ EnvelopeThrows(r) \/ MarkSentFails(r) \/ Dies(r)
    <2>1. /\ pc[r] # "idle" /\ store' = store
          /\ Abort(r) \/ (Catch(r) /\ pc[r] \in {"publish", "markSentRead", "markSentWrite"})
      BY <1>7 DEF PublishFails, EnvelopeThrows, MarkSentFails, Dies
    <2>2. CASE Abort(r)
      BY <1>1, <2>2, AbortOwn
    <2>3. CASE Catch(r) /\ pc[r] \in {"publish", "markSentRead", "markSentWrite"}
      <3>1. current[r].status # "FAILED" /\ Pending(m)
        BY <1>1, <2>3 DEF RelayTruth, OwnInv, m
      <3> QED
        BY <1>1, <1>2, <1>3, <2>1, <2>3, <3>1, CatchOwn DEF Pending, m
    <2> QED
      BY <2>1, <2>2, <2>3
  <1>8. CASE MarkSentRead(r)
    <2>1. pc[r] = "markSentRead" /\ store' = store /\ Pending(m) /\ current[r].status = "SENT"
      BY <1>1, <1>8 DEF MarkSentRead, OwnInv, RelayTruth, m
    <2>2. CASE Catch(r)
      BY <1>1, <1>2, <1>3, <2>1, <2>2, CatchOwn DEF Pending, m
    <2>3. CASE ~Catch(r)
      <3>1. pc'[r] = "markSentWrite" /\ UNCHANGED <<batch, current>>
        BY <1>1, <1>8, <2>3 DEF MarkSentRead, Goto, TypeOK
      <3> QED
        BY <1>2, <1>3, <2>1, <3>1 DEF OwnInv, Pending, m
    <2> QED
      BY <2>2, <2>3
  <1>9. CASE MarkSentWrite(r)
    <2>1. /\ pc[r] = "markSentWrite" /\ store' = [store EXCEPT ![m] = read[r]]
          /\ Take(r, batch[r]) \/ Catch(r)
          /\ read[r].status = "SENT" /\ current[r].status = "SENT"
      BY <1>1, <1>9 DEF MarkSentWrite, RelayTruth, m
    <2>2. store'[m] = read[r] /\ \A e \in batch[r] : store'[e.id] = e
      BY <1>4, <2>1
    <2> QED
      BY <1>1, <1>2, <1>3, <2>1, <2>2, TakeOwn, CatchOwn DEF m
  <1>10. CASE Save(r)
    <2> DEFINE saved == [current[r] EXCEPT !.createdAt = clock]
    <2>1. pc[r] = "save" /\ store' = [store EXCEPT ![m] = saved]
      BY <1>10 DEF Save, m
    <2>2. saved \in Documents /\ saved.status = current[r].status
      BY <1>1, <1>2, <2>1 DEF Documents, TypeOK
    <2> HIDE DEF saved
    <2>3. store'[m] = saved /\ \A e \in batch[r] : store'[e.id] = e
      BY <1>4, <2>1
    <2>4. CASE Take(r, batch[r])
      BY <1>1, <1>3, <2>3, <2>4, TakeOwn
    <2>5. CASE Abort(r)
      BY <1>1, <2>5, AbortOwn
    <2>6. CASE ~Take(r, batch[r]) /\ ~Abort(r)
      <3>1. current[r].status = "PENDING" /\ pc'[r] = "publish" /\ UNCHANGED <<batch, current>>
        BY <1>1, <1>10, <2>6 DEF Save, TriesAgain, Goto, TypeOK
      <3>2. saved # NoDocument
        BY <2>2, NullAssumption
      <3> QED
        BY <1>2, <2>1, <2>2, <2>3, <3>1, <3>2 DEF OwnInv, Pending, m
    <2> QED
      BY <2>4, <2>5, <2>6
  <1>11. CASE MarkFailedRead(r)
    <2>1. pc[r] = "markFailedRead" /\ store' = store /\ Pending(m)
      BY <1>11 DEF MarkFailedRead, OwnInv, m
    <2>2. CASE Abort(r)
      BY <1>1, <2>2, AbortOwn
    <2>3. CASE ~Abort(r)
      <3>1. /\ pc'[r] = "markFailedWrite" /\ UNCHANGED <<batch, current>>
            /\ read'[r] = MarkFailed(store[m])
        BY <1>1, <1>11, <2>3 DEF MarkFailedRead, Goto, TypeOK, m
      <3>2. read'[r].status # "SENT"
        <4>1. store[m].retries \in Nat /\ store[m].status = "PENDING"
          BY <1>2, <2>1 DEF Pending, Documents
        <4>2. read'[r].status = StatusAfter(store[m], store[m].retries + 1)
          BY <1>2, <2>1, <3>1, <4>1, MarkFailedType
        <4> QED
          BY <4>2 DEF StatusAfter
      <3> QED
        BY <1>2, <1>3, <2>1, <3>1, <3>2 DEF OwnInv, Pending, m
    <2> QED
      BY <2>2, <2>3
  <1>12. CASE MarkFailedWrite(r)
    <2>1. /\ pc[r] = "markFailedWrite" /\ store' = [store EXCEPT ![m] = read[r]]
          /\ Take(r, batch[r]) \/ Abort(r)
      BY <1>12 DEF MarkFailedWrite, m
    <2>2. \A e \in batch[r] : store'[e.id] = e
      BY <1>4, <2>1
    <2> QED
      BY <1>1, <1>3, <2>1, <2>2, TakeOwn, AbortOwn
  <1> QED
    BY <1>5, <1>6, <1>7, <1>8, <1>9, <1>10, <1>11, <1>12 DEF Relay

-----------------------------------------------------------------------------
(* One relay alone: duplicates are earned *)

\* The broker has accepted the message and its document is still to be written.
Owed(r, x) == pc[r] \in {"markSentRead", "markSentWrite"} /\ current[r].id = x

Unrecorded(x) == store[x] = NoDocument \/ store[x].status = "PENDING"

\* A message that will be published again has used up one disturbance for each
\* time it was published.
DuplicatesInv(r) ==
    \A x \in Messages :
        published[x] <= IF Unrecorded(x) /\ ~Owed(r, x) THEN disturbances ELSE 1 + disturbances

LEMMA DuplicatesRelay ==
    ASSUME Inv, NEW r \in Relays, OwnInv(r), DuplicatesInv(r), Relay(r) \/ Dies(r)
    PROVE  DuplicatesInv(r)'
  <1> DEFINE m == current[r].id
  <1>1. /\ TypeOK /\ StoreInv /\ RelayTruth(r)
        /\ published \in [Messages -> Nat] /\ disturbances \in Nat
        /\ store \in [Messages -> Documents \union {NoDocument}]
    BY InvStoreInv DEF Inv, TypeOK
  <1>2. pc[r] # "idle" => m \in Messages
    BY <1>1, DocumentExists
  <1> HIDE DEF m
  \* Nothing is published, or a call is disturbed; else no message loses its excuse.
  <1>3. ASSUME published' = published, disturbances' = disturbances + 1
        PROVE  DuplicatesInv(r)'
    BY <1>1, <1>3 DEF DuplicatesInv
  <1>4. ASSUME published' = published, disturbances' = disturbances,
               \A x \in Messages : Unrecorded(x)' /\ ~Owed(r, x)' => Unrecorded(x) /\ ~Owed(r, x)
        PROVE  DuplicatesInv(r)'
    BY <1>1, <1>4 DEF DuplicatesInv
  <1>5. CASE MarkSentFails(r) \/ Dies(r)
    BY <1>3, <1>5 DEF MarkSentFails, Dies, Disturb
  <1>6. CASE FindPending(r) \/ EnvelopeThrows(r) \/ MarkFailedRead(r)
    <2>1. /\ UNCHANGED <<store, published, disturbances>>
          /\ pc[r] \notin {"markSentRead", "markSentWrite"}
      BY <1>6 DEF FindPending, EnvelopeThrows, MarkFailedRead
    <2> QED
      BY <1>4, <2>1 DEF Unrecorded, Owed
  <1>7. CASE PublishSucceeds(r)
    <2>1. /\ pc[r] = "publish" /\ pc'[r] = "markSentRead" /\ UNCHANGED <<store, disturbances>>
          /\ published' = [published EXCEPT ![m] = @ + 1]
          /\ current'[r] = MarkSent(current[r])
      BY <1>1, <1>7 DEF PublishSucceeds, Goto, TypeOK, m
    <2>2. Pending(m) /\ current'[r].id = m
      BY <1>1, <2>1, MarkSentType DEF OwnInv, TypeOK, m
    <2>3. published[m] <= disturbances
      BY <1>2, <2>1, <2>2 DEF DuplicatesInv, Unrecorded, Owed, Pending
    <2>4. ASSUME NEW x \in Messages
          PROVE  published'[x] <= IF Unrecorded(x)' /\ ~Owed(r, x)'
                                  THEN disturbances' ELSE 1 + disturbances'
      <3>1. CASE x = m
        <4>1. published'[m] = published[m] + 1
          BY <1>1, <1>2, <2>1
        <4> QED
          BY <1>1, <1>2, <2>1, <2>2, <2>3, <3>1, <4>1 DEF Owed
      <3>2. CASE x # m
        BY <1>1, <2>1, <2>2, <3>2 DEF DuplicatesInv, Unrecorded, Owed
      <3> QED
        BY <3>1, <3>2
    <2> QED
      BY <2>4 DEF DuplicatesInv
  <1>8. CASE PublishFails(r)
    <2>1. /\ pc[r] = "publish" /\ disturbances' = disturbances + 1
          /\ published' \in {published, [published EXCEPT ![m] = @ + 1]}
      BY <1>8 DEF PublishFails, Disturb, m
    <2>2. Pending(m)
      BY <1>1, <2>1 DEF OwnInv, m
    <2>3. published[m] <= disturbances
      BY <1>2, <2>1, <2>2 DEF DuplicatesInv, Unrecorded, Owed, Pending
    <2>4. \A x \in Messages : published'[x] <= disturbances'
      BY <1>1, <1>2, <2>1, <2>3 DEF DuplicatesInv
    <2>5. disturbances' \in Nat /\ published' \in [Messages -> Nat]
      BY <1>1, <1>2, <2>1
    <2> QED
      BY <2>4, <2>5 DEF DuplicatesInv
  <1>9. CASE MarkSentRead(r)
    <2>1. /\ pc[r] = "markSentRead" /\ UNCHANGED <<store, published, disturbances>>
          /\ Pending(m)
      BY <1>1, <1>9 DEF MarkSentRead, OwnInv, m
    <2>2. pc'[r] = "markSentWrite" /\ current' = current
      BY <1>1, <1>9, <2>1 DEF MarkSentRead, Pending, Loads, Goto, TypeOK, m
    <2> QED
      BY <1>4, <2>1, <2>2 DEF Unrecorded, Owed
  <1>10. CASE MarkSentWrite(r)
    <2>1. /\ pc[r] = "markSentWrite" /\ published' = published
          /\ store' = [store EXCEPT ![m] = read[r]] /\ read[r].status = "SENT"
          /\ disturbances' \in {disturbances, disturbances + 1}
      BY <1>1, <1>10 DEF MarkSentWrite, RelayTruth, Disturb, m
    <2>2. read[r] # NoDocument
      BY <1>1, <2>1, NullAssumption DEF TypeOK
    <2>3. \A x \in Messages : Unrecorded(x)' => x # m /\ Unrecorded(x)
      BY <1>1, <1>2, <2>1, <2>2 DEF Unrecorded
    <2>4. \A x \in Messages \ {m} : ~Owed(r, x)
      BY DEF Owed, m
    <2> QED
      BY <1>3, <1>4, <2>1, <2>3, <2>4
  <1>11. CASE Save(r)
    <2> DEFINE saved == [current[r] EXCEPT !.createdAt = clock]
    <2>1. /\ pc[r] = "save" /\ published' = published
          /\ store' = [store EXCEPT ![m] = saved]
          /\ disturbances' \in {disturbances, disturbances + 1}
      BY <1>11 DEF Save, Disturb, m
    <2>2. saved \in Documents /\ saved.status = current[r].status
      BY <1>1, <2>1 DEF Documents, TypeOK
    <2> HIDE DEF saved
    <2>3. saved.status = "PENDING" => Pending(m)
      BY <1>1, <2>1, <2>2 DEF OwnInv, m
    <2>4. \A x \in Messages : Unrecorded(x)' => Unrecorded(x)
      BY <1>1, <1>2, <2>1, <2>2, <2>3, NullAssumption DEF Unrecorded, Pending
    <2>5. \A x \in Messages : ~Owed(r, x)
      BY <2>1 DEF Owed
    <2> QED
      BY <1>3, <1>4, <2>1, <2>4, <2>5
  <1>12. CASE MarkFailedWrite(r)
    <2>1. /\ pc[r] = "markFailedWrite" /\ published' = published
          /\ store' = [store EXCEPT ![m] = read[r]] /\ Pending(m)
          /\ disturbances' \in {disturbances, disturbances + 1}
      BY <1>1, <1>12 DEF MarkFailedWrite, OwnInv, Disturb, m
    <2>2. \A x \in Messages : Unrecorded(x)' => Unrecorded(x)
      BY <1>1, <1>2, <2>1 DEF Unrecorded, Pending
    <2>3. \A x \in Messages : ~Owed(r, x)
      BY <2>1 DEF Owed
    <2> QED
      BY <1>3, <1>4, <2>1, <2>2, <2>3
  <1> QED
    BY <1>5, <1>6, <1>7, <1>8, <1>9, <1>10, <1>11, <1>12 DEF Relay

\* The invariant of a relay that runs alone.
AloneInv(r) == OwnInv(r) /\ DuplicatesInv(r)

LEMMA AloneInit ==
    ASSUME NEW r \in Relays, Init
    PROVE  AloneInv(r)
  BY RelayAssumption DEF Init, AloneInv, OwnInv, DuplicatesInv

LEMMA AloneStep ==
    ASSUME NEW r, Relays = {r}, Inv, AloneInv(r), [Next]_vars
    PROVE  AloneInv(r)'
  <1>1. CASE Relay(r) \/ Dies(r)
    BY <1>1, OwnStep, DuplicatesRelay DEF AloneInv
  <1>2. ASSUME NEW m \in Messages, Write(m)
        PROVE  AloneInv(r)'
    <2> DEFINE e == [id |-> m, status |-> "PENDING", retries |-> 0, createdAt |-> clock]
    <2>1. /\ store[m] = NoDocument /\ store' = [store EXCEPT ![m] = e]
          /\ UNCHANGED <<relay, published, disturbances>>
      BY <1>2 DEF Write
    <2>2. e \in Documents /\ e.status = "PENDING"
      BY DEF Documents, Statuses, Inv, TypeOK
    <2> HIDE DEF e
    <2>3. /\ store \in [Messages -> Documents \union {NoDocument}]
          /\ batch[r] \in SUBSET Documents
      BY DEF Inv, TypeOK
    <2>4. e # NoDocument
      BY <2>2, NullAssumption
    <2>5. \A x \in Messages : x # m => store'[x] = store[x]
      BY <2>1, <2>3
    <2>6. store'[m] = e
      BY <2>1, <2>3
    <2>7. \A x \in Messages : Unrecorded(x)' => Unrecorded(x)
      BY <2>1, <2>5 DEF Unrecorded
    <2>8. DuplicatesInv(r)'
      BY <2>1, <2>7 DEF AloneInv, DuplicatesInv, Owed, relay, Inv, TypeOK
    <2>9. \A d \in batch[r] : d.id \in Messages /\ d # NoDocument
      BY <2>3, NullAssumption DEF Documents
    <2>10. pc[r] # "idle" => current[r].id \in Messages /\ store[current[r].id] # NoDocument
      BY InvStoreInv, DocumentExists, NullAssumption DEF Inv
    <2>11. OwnInv(r)'
      BY <2>1, <2>5, <2>9, <2>10 DEF AloneInv, OwnInv, Pending, relay, Inv, TypeOK
    <2> QED
      BY <2>8, <2>11 DEF AloneInv
  <1>3. CASE UNCHANGED vars
    BY <1>3 DEF vars, relay, AloneInv, OwnInv, DuplicatesInv, Pending, Unrecorded, Owed
  <1> QED
    BY <1>1, <1>2, <1>3 DEF Next

\* One relay alone publishes a message again only after a disturbance.
THEOREM DuplicatesCorrect ==
    ASSUME NEW r, Relays = {r}
    PROVE  Spec => []DuplicatesAreEarned
  <1>1. Init => AloneInv(r)
    BY AloneInit
  <1>2. Inv /\ AloneInv(r) /\ [Next]_vars => AloneInv(r)'
    BY AloneStep
  <1>3. Inv /\ AloneInv(r) => DuplicatesAreEarned
    BY DEF Inv, TypeOK, AloneInv, DuplicatesInv, DuplicatesAreEarned
  <1> QED
    BY <1>1, <1>2, <1>3, Invariance, PTL DEF Spec

-----------------------------------------------------------------------------
(* One relay alone implements Delivery, as far as safety goes *)

Word(status) == CASE status = "PENDING" -> "pending"
                  [] status = "SENT" -> "sent"
                  [] status = "FAILED" -> "failed"

LEMMA FateRead ==
    ASSUME NEW m \in Messages
    PROVE  Fate[m] = IF store[m] = NoDocument THEN "none" ELSE Word(store[m].status)
  BY DEF Fate, Word

\* Writing one document changes the fate of one message.
LEMMA FateWritten ==
    ASSUME TypeOK, NEW m \in Messages, NEW d \in Documents, store' = [store EXCEPT ![m] = d]
    PROVE  Fate' = [Fate EXCEPT ![m] = Word(d.status)]
  <1>1. d # NoDocument
    BY NullAssumption
  <1>2. Fate' = [x \in Messages |-> IF store'[x] = NoDocument THEN "none"
                                    ELSE Word(store'[x].status)]
    BY DEF Fate, Word
  <1>3. Fate = [x \in Messages |-> IF store[x] = NoDocument THEN "none"
                                   ELSE Word(store[x].status)]
    BY DEF Fate, Word
  <1>4. \A x \in Messages : store'[x] = IF x = m THEN d ELSE store[x]
    BY DEF TypeOK
  <1> HIDE DEF Fate
  <1> QED
    BY <1>1, <1>2, <1>3, <1>4

LEMMA WordValues ==
    /\ Word("PENDING") = "pending" /\ Word("SENT") = "sent" /\ Word("FAILED") = "failed"
  BY DEF Word

\* What the relay may write over the document of a message.
LEMMA WriteSettles ==
    ASSUME TypeOK, NEW m \in Messages, NEW d \in Documents, store' = [store EXCEPT ![m] = d],
           published' = published,
           \/ Pending(m) /\ d.status \in {"PENDING", "FAILED"}
           \/ d.status = "SENT" /\ published[m] > 0 /\ Pending(m)
           \/ d.status = "SENT" /\ store[m] # NoDocument /\ store[m].status = "SENT"
    PROVE  [Producer!Next]_(Producer!vars)
  <1>1. Fate' = [Fate EXCEPT ![m] = Word(d.status)]
    BY FateWritten
  <1>2. Fate[m] = IF store[m] = NoDocument THEN "none" ELSE Word(store[m].status)
    BY FateRead
  <1>3. Fate[m] = Word(d.status) => Fate' = Fate
    BY <1>1 DEF Fate
  <1>4. CASE Pending(m) /\ d.status = "PENDING"
    BY <1>2, <1>3, <1>4 DEF Pending, Producer!vars
  <1>5. CASE Pending(m) /\ d.status = "FAILED"
    BY <1>1, <1>2, <1>5, WordValues DEF Pending, Producer!Next, Producer!Settle
  <1>6. CASE d.status = "SENT" /\ published[m] > 0 /\ Pending(m)
    BY <1>1, <1>2, <1>6, WordValues DEF Pending, Producer!Next, Producer!Settle
  <1>7. CASE d.status = "SENT" /\ store[m] # NoDocument /\ store[m].status = "SENT"
    BY <1>2, <1>3, <1>7 DEF Producer!vars
  <1> QED
    BY <1>4, <1>5, <1>6, <1>7 DEF Documents, Statuses

LEMMA DeliveryRelay ==
    ASSUME Inv, NEW r \in Relays, OwnInv(r), Relay(r) \/ Dies(r)
    PROVE  [Producer!Next]_(Producer!vars)
  <1> DEFINE m == current[r].id
  <1>1. /\ TypeOK /\ StoreInv /\ RelayTruth(r)
    BY InvStoreInv DEF Inv
  <1>2. pc[r] # "idle" => /\ m \in Messages /\ current[r] \in Documents
                          /\ current[r].status = "SENT" => published[m] > 0
    BY <1>1, DocumentExists, NullAssumption DEF RelayTruth, Truthful
  <1> HIDE DEF m
  <1>3. ASSUME store' = store, published' = published
        PROVE  [Producer!Next]_(Producer!vars)
    BY <1>3 DEF Fate, Producer!vars
  <1>4. CASE \/ FindPending(r) \/ EnvelopeThrows(r) \/ MarkSentRead(r) \/ MarkSentFails(r)
             \/ MarkFailedRead(r) \/ Dies(r)
    BY <1>3, <1>4
    DEF FindPending, EnvelopeThrows, MarkSentRead, MarkSentFails, MarkFailedRead, Dies
  <1>5. CASE PublishSucceeds(r) \/ PublishFails(r)
    <2>1. /\ pc[r] = "publish" /\ store' = store
          /\ published' \in {published, [published EXCEPT ![m] = @ + 1]}
      BY <1>5 DEF PublishSucceeds, PublishFails, m
    <2>2. CASE published' = published
      BY <1>3, <2>1, <2>2
    <2>3. CASE published' = [published EXCEPT ![m] = @ + 1]
      <3>1. Pending(m)
        BY <1>1, <2>1 DEF OwnInv, m
      <3>2. Fate[m] = "pending" /\ m \in Messages
        BY <1>2, <2>1, <3>1, FateRead, WordValues DEF Pending
      <3>3. Fate' = Fate
        BY <2>1 DEF Fate
      <3> QED
        BY <2>3, <3>2, <3>3 DEF Producer!Next, Producer!Deliver
    <2> QED
      BY <2>1, <2>2, <2>3
  <1>6. CASE MarkSentWrite(r)
    <2>1. /\ pc[r] = "markSentWrite" /\ published' = published
          /\ store' = [store EXCEPT ![m] = read[r]]
          /\ read[r] \in Documents /\ read[r].status = "SENT" /\ current[r].status = "SENT"
          /\ Pending(m)
      BY <1>1, <1>6 DEF MarkSentWrite, RelayTruth, OwnInv, TypeOK, m
    <2> QED
      BY <1>1, <1>2, <2>1, WriteSettles
  <1>7. CASE Save(r)
    <2> DEFINE saved == [current[r] EXCEPT !.createdAt = clock]
    <2>1. /\ pc[r] = "save" /\ published' = published
          /\ store' = [store EXCEPT ![m] = saved]
          /\ current[r].status # "FAILED"
      BY <1>1, <1>7 DEF Save, RelayTruth, m
    <2>2. saved \in Documents /\ saved.status = current[r].status
      BY <1>1, <2>1 DEF Documents, TypeOK
    <2>3. saved.status \in {"PENDING", "SENT"}
      BY <2>1, <2>2 DEF Documents, Statuses
    <2> HIDE DEF saved
    <2>4. Pending(m) \/ (saved.status = "SENT" /\ store[m].status = "SENT")
      BY <1>1, <2>1, <2>2 DEF OwnInv, m
    <2>5. store[m] # NoDocument
      BY <1>1, <2>1, DocumentExists, NullAssumption DEF m
    <2> QED
      BY <1>1, <1>2, <2>1, <2>2, <2>3, <2>4, <2>5, WriteSettles
  <1>8. CASE MarkFailedWrite(r)
    <2>1. /\ pc[r] = "markFailedWrite" /\ published' = published
          /\ store' = [store EXCEPT ![m] = read[r]]
          /\ read[r] \in Documents /\ read[r].status # "SENT" /\ Pending(m)
      BY <1>1, <1>8 DEF MarkFailedWrite, OwnInv, TypeOK, m
    <2> QED
      BY <1>1, <1>2, <2>1, WriteSettles DEF Documents, Statuses
  <1> QED
    BY <1>4, <1>5, <1>6, <1>7, <1>8 DEF Relay

LEMMA DeliveryStep ==
    ASSUME NEW r, Relays = {r}, Inv, AloneInv(r), [Next]_vars
    PROVE  [Producer!Next]_(Producer!vars)
  <1>1. CASE Relay(r) \/ Dies(r)
    BY <1>1, DeliveryRelay DEF AloneInv
  <1>2. ASSUME NEW m \in Messages, Write(m)
        PROVE  [Producer!Next]_(Producer!vars)
    <2> DEFINE e == [id |-> m, status |-> "PENDING", retries |-> 0, createdAt |-> clock]
    <2>1. e \in Documents /\ e.status = "PENDING"
      BY DEF Documents, Statuses, Inv, TypeOK
    <2>2. store[m] = NoDocument /\ store' = [store EXCEPT ![m] = e] /\ published' = published
      BY <1>2 DEF Write
    <2> HIDE DEF e
    <2>3. Fate[m] = "none" /\ Fate' = [Fate EXCEPT ![m] = "pending"]
      <3>1. Fate[m] = "none"
        BY <2>2, FateRead
      <3>2. Fate' = [Fate EXCEPT ![m] = Word(e.status)]
        BY <2>1, <2>2, FateWritten DEF Inv
      <3> QED
        BY <2>1, <3>1, <3>2, WordValues
    <2> QED
      BY <2>2, <2>3 DEF Producer!Next, Producer!Accept
  <1>3. CASE UNCHANGED vars
    BY <1>3 DEF vars, Fate, Producer!vars
  <1> QED
    BY <1>1, <1>2, <1>3 DEF Next

\* The safety part of DeliversAtLeastOnce: with one relay, a message is sent only
\* after it was delivered, SENT and FAILED are final, and nothing is delivered
\* after either.
THEOREM ImplementsDelivery ==
    ASSUME NEW r, Relays = {r}
    PROVE  Spec => Producer!Spec
  <1>1. Init => Producer!Init
    BY DEF Init, Producer!Init, Fate
  <1>2. Init => AloneInv(r)
    BY AloneInit
  <1>3. Inv /\ AloneInv(r) /\ [Next]_vars => AloneInv(r)'
    BY AloneStep
  <1>4. Inv /\ AloneInv(r) /\ [Next]_vars => [Producer!Next]_(Producer!vars)
    BY DeliveryStep
  <1> QED
    BY <1>1, <1>2, <1>3, <1>4, Invariance, PTL DEF Spec, Producer!Spec

-----------------------------------------------------------------------------
(* No run goes round in circles.  That messages are settled in the end        *)
(* (DeliversAtLeastOnce) is the liveness property TLC checks; this is what it *)
(* rests on besides fairness.                                                 *)

\* The awaits of one attempt, in their order.
AwaitNumber(p) == CASE p = "publish" -> 1
                    [] p = "markSentRead" -> 2
                    [] p = "markSentWrite" -> 3
                    [] p = "save" -> 4
                    [] p = "markFailedRead" -> 4
                    [] p = "markFailedWrite" -> 5

\* The run of a relay gets on: it ends, takes the next message of its batch,
\* begins another attempt at this one, or comes to a later await of the attempt.
Advance(r) ==
    \/ pc'[r] = "idle"
    \/ \E e \in batch[r] : pc'[r] = "publish" /\ batch'[r] = batch[r] \ {e}
    \/ /\ batch'[r] = batch[r]
       /\ pc'[r] = "publish" /\ attempt'[r] > attempt[r]
    \/ /\ batch'[r] = batch[r] /\ attempt'[r] = attempt[r]
       /\ pc'[r] # "idle" /\ AwaitNumber(pc'[r]) > AwaitNumber(pc[r])

\* Whatever the other relays do, a run under way only gets on.  Its batch is finite
\* and by the type invariant so are its attempts at a message, so it ends.
RunsAdvance ==
    [][\A r \in Relays :
        pc[r] # "idle" => UNCHANGED <<pc[r], batch[r], attempt[r]>> \/ Advance(r)]_vars


LEMMA TakeAdvances ==
    ASSUME TypeOK, NEW r \in Relays, Take(r, batch[r])
    PROVE  Advance(r)
  <1>1. CASE batch[r] = {}
    BY <1>1 DEF Take, Goto, TypeOK, Advance
  <1>2. CASE batch[r] # {}
    <2>1. PICK e \in batch[r] : pc'[r] = "publish" /\ batch'[r] = batch[r] \ {e}
      BY <1>2 DEF Take, Goto, TypeOK
    <2> QED
      BY <2>1 DEF Advance
  <1> QED
    BY <1>1, <1>2

LEMMA AbortAdvances ==
    ASSUME TypeOK, NEW r \in Relays, Abort(r)
    PROVE  Advance(r)
  BY DEF Abort, Goto, TypeOK, Advance

LEMMA CatchAdvances ==
    ASSUME TypeOK, NEW r \in Relays, Catch(r), pc[r] \in {"publish", "markSentRead", "markSentWrite"}
    PROVE  Advance(r)
  <1>1. /\ pc'[r] \in {"save", "markFailedRead"}
        /\ batch'[r] = batch[r] /\ attempt'[r] = attempt[r]
    BY DEF Catch, Goto, TypeOK
  <1> QED
    BY <1>1 DEF Advance, AwaitNumber

LEMMA RelayAdvances ==
    ASSUME TypeOK, NEW r \in Relays, pc[r] # "idle", Relay(r) \/ Dies(r)
    PROVE  Advance(r)
  <1>1. CASE PublishSucceeds(r)
    <2>1. /\ pc[r] = "publish" /\ pc'[r] = "markSentRead"
          /\ batch'[r] = batch[r] /\ attempt'[r] = attempt[r]
      BY <1>1 DEF PublishSucceeds, Goto, TypeOK
    <2> QED
      BY <2>1 DEF Advance, AwaitNumber
  <1>2. CASE PublishFails(r) \/ EnvelopeThrows(r) \/ MarkSentFails(r) \/ Dies(r)
    <2>1. Abort(r) \/ (Catch(r) /\ pc[r] \in {"publish", "markSentRead", "markSentWrite"})
      BY <1>2 DEF PublishFails, EnvelopeThrows, MarkSentFails, Dies
    <2> QED
      BY <2>1, AbortAdvances, CatchAdvances
  <1>3. CASE MarkSentRead(r)
    <2>1. CASE Catch(r)
      BY <1>3, <2>1, CatchAdvances DEF MarkSentRead
    <2>2. CASE ~Catch(r)
      <3>1. /\ pc[r] = "markSentRead" /\ pc'[r] = "markSentWrite"
            /\ batch'[r] = batch[r] /\ attempt'[r] = attempt[r]
        BY <1>3, <2>2 DEF MarkSentRead, Goto, TypeOK
      <3> QED
        BY <3>1 DEF Advance, AwaitNumber
    <2> QED
      BY <2>1, <2>2
  <1>4. CASE MarkSentWrite(r)
    <2>1. pc[r] = "markSentWrite" /\ (Take(r, batch[r]) \/ Catch(r))
      BY <1>4 DEF MarkSentWrite
    <2> QED
      BY <2>1, TakeAdvances, CatchAdvances
  <1>5. CASE Save(r)
    <2>1. CASE Take(r, batch[r]) \/ Abort(r)
      BY <2>1, TakeAdvances, AbortAdvances
    <2>2. CASE ~Take(r, batch[r]) /\ ~Abort(r)
      <3>1. /\ pc'[r] = "publish" /\ batch'[r] = batch[r]
            /\ attempt' = [attempt EXCEPT ![r] = @ + 1]
        BY <1>5, <2>2 DEF Save, Goto, TypeOK
      <3>2. attempt[r] \in Nat /\ attempt'[r] = attempt[r] + 1
        BY <3>1, RelayAssumption DEF TypeOK
      <3> QED
        BY <3>1, <3>2 DEF Advance
    <2> QED
      BY <2>1, <2>2
  <1>6. CASE MarkFailedRead(r)
    <2>1. CASE Abort(r)
      BY <2>1, AbortAdvances
    <2>2. CASE ~Abort(r)
      <3>1. /\ pc[r] = "markFailedRead" /\ pc'[r] = "markFailedWrite"
            /\ batch'[r] = batch[r] /\ attempt'[r] = attempt[r]
        BY <1>6, <2>2 DEF MarkFailedRead, Goto, TypeOK
      <3> QED
        BY <3>1 DEF Advance, AwaitNumber
    <2> QED
      BY <2>1, <2>2
  <1>7. CASE MarkFailedWrite(r)
    BY <1>7, TakeAdvances, AbortAdvances DEF MarkFailedWrite
  <1>8. CASE FindPending(r)
    BY <1>8 DEF FindPending
  <1> QED
    BY <1>1, <1>2, <1>3, <1>4, <1>5, <1>6, <1>7, <1>8 DEF Relay

\* A relay's place in its run is its own.
LEMMA OthersStay ==
    ASSUME TypeOK, NEW r \in Relays, Relay(r) \/ Dies(r), NEW q \in Relays \ {r}
    PROVE  UNCHANGED <<pc[q], batch[q], attempt[q]>>
  <1>1. pc'[q] = pc[q] /\ batch'[q] = batch[q]
    BY OthersUnchanged
  <1> USE DEF TypeOK
  <1>2. ASSUME NEW rest, Take(r, rest)
        PROVE  attempt'[q] = attempt[q]
    BY <1>2 DEF Take
  <1>3. CASE FindPending(r) \/ MarkSentWrite(r) \/ MarkFailedWrite(r) \/ Save(r)
    BY <1>1, <1>2, <1>3 DEF FindPending, MarkSentWrite, MarkFailedWrite, Save, Catch, Abort
  <1>4. CASE ~(FindPending(r) \/ MarkSentWrite(r) \/ MarkFailedWrite(r) \/ Save(r))
    <2>1. attempt' = attempt
      BY <1>4 DEF Relay, PublishSucceeds, PublishFails, EnvelopeThrows, MarkSentRead, MarkSentFails,
                  MarkFailedRead, Dies, Catch, Abort
    <2> QED
      BY <1>1, <2>1
  <1> QED
    BY <1>3, <1>4

\* The runs of any number of relays only get on.
THEOREM RunsCorrect == Spec => RunsAdvance
  <1>1. ASSUME TypeOK, [Next]_vars
        PROVE  [\A r \in Relays :
                   pc[r] # "idle" => UNCHANGED <<pc[r], batch[r], attempt[r]>> \/ Advance(r)]_vars
    <2>1. CASE UNCHANGED vars
      BY <2>1
    <2>2. ASSUME NEW m \in Messages, Write(m)
          PROVE  \A r \in Relays : UNCHANGED <<pc[r], batch[r], attempt[r]>>
      BY <2>2 DEF Write, relay
    <2>3. ASSUME NEW q \in Relays, Relay(q) \/ Dies(q), NEW r \in Relays, pc[r] # "idle"
          PROVE  UNCHANGED <<pc[r], batch[r], attempt[r]>> \/ Advance(r)
      BY <1>1, <2>3, RelayAdvances, OthersStay
    <2> QED
      BY <1>1, <2>1, <2>2, <2>3 DEF Next
  <1> QED
    BY <1>1, TypeCorrect, PTL DEF Spec, RunsAdvance

-----------------------------------------------------------------------------
(* Retries *)

HasRetries(e) == e.status = "PENDING" => e.retries < MaxRetries[e.id]

\* Whatever copy a relay writes over a message, the message is not left pending
\* with its retries used up.  A message that may not be retried is therefore given
\* up with the first write after a failed attempt.
WritesLeaveRetries ==
    \A m \in Messages :
        store[m] # NoDocument /\ store'[m] # store[m] /\ store'[m].status = "PENDING"
        => store'[m].retries < MaxRetries[m]

\* Every step is like that.
NoRetriesOverdrawn == [][WritesLeaveRetries]_vars

\* What save and markFailed are about to write.
CopyRetries(r) == /\ pc[r] = "save" => HasRetries(current[r])
                  /\ pc[r] = "markFailedWrite" => HasRetries(read[r])

\* A failed attempt is recorded as the last one or leaves a retry.
LEMMA MarkedHasRetries ==
    ASSUME NEW e \in Documents
    PROVE  HasRetries(MarkFailed(e))
  <1>1. CASE e.status # "PENDING"
    BY <1>1, MarkFailedType DEF HasRetries
  <1>2. CASE e.status = "PENDING"
    <2>1. /\ e.retries + 1 \in Nat /\ MarkFailed(e).retries = e.retries + 1
          /\ MarkFailed(e).status = StatusAfter(e, e.retries + 1)
          /\ MarkFailed(e).id = e.id /\ MaxRetries[e.id] \in Nat
      BY <1>2, MarkFailedType, RelayAssumption DEF Documents
    <2> QED
      BY <2>1 DEF HasRetries, StatusAfter
  <1> QED
    BY <1>1, <1>2

\* The copies that are about to be written have been marked, by a relay or by the
\* repository.
LEMMA CopiesHaveRetries ==
    ASSUME TypeOK, StoreInv, NEW r \in Relays, CopyRetries(r), Relay(r) \/ Dies(r)
    PROVE  CopyRetries(r)'
  <1>1. ASSUME NEW rest, Take(r, rest)
        PROVE  pc'[r] \in {"idle", "publish"}
    BY <1>1 DEF Take, Goto, TypeOK
  <1>2. ASSUME Abort(r)
        PROVE  pc'[r] = "idle"
    BY <1>2 DEF Abort, Goto, TypeOK
  <1>3. ASSUME pc[r] # "idle", Catch(r)
        PROVE  CopyRetries(r)'
    <2>1. /\ current[r] \in Documents /\ current'[r] = MarkFailed(current[r])
          /\ pc'[r] \in {"save", "markFailedRead"}
      BY <1>3 DEF Catch, Goto, TypeOK
    <2> QED
      BY <2>1, MarkedHasRetries DEF CopyRetries, HasRetries
  <1>4. CASE FindPending(r) \/ PublishSucceeds(r) \/ Dies(r)
    <2>1. pc'[r] \in {"idle", "publish", "markSentRead"}
      BY <1>1, <1>2, <1>4 DEF FindPending, PublishSucceeds, Dies, Goto, TypeOK
    <2> QED
      BY <2>1 DEF CopyRetries
  <1>5. CASE PublishFails(r) \/ EnvelopeThrows(r) \/ MarkSentFails(r)
    <2>1. pc[r] # "idle" /\ (Abort(r) \/ Catch(r))
      BY <1>5 DEF PublishFails, EnvelopeThrows, MarkSentFails
    <2> QED
      BY <1>2, <1>3, <2>1 DEF CopyRetries
  <1>6. CASE MarkSentRead(r) \/ MarkSentWrite(r)
    <2>1. pc[r] # "idle" /\ (Catch(r) \/ pc'[r] \in {"idle", "publish", "markSentWrite"})
      BY <1>1, <1>6 DEF MarkSentRead, MarkSentWrite, Goto, TypeOK
    <2> QED
      BY <1>3, <2>1 DEF CopyRetries
  <1>7. CASE Save(r) \/ MarkFailedWrite(r)
    <2>1. pc'[r] \in {"idle", "publish"}
      BY <1>1, <1>2, <1>7 DEF Save, MarkFailedWrite, Goto, TypeOK
    <2> QED
      BY <2>1 DEF CopyRetries
  <1>8. CASE MarkFailedRead(r)
    <2> DEFINE doc == store[current[r].id]
    <2>1. doc \in Documents
      BY <1>8, DocumentExists, NullAssumption DEF MarkFailedRead
    <2>2. CASE ~Loads(doc)
      BY <1>2, <1>8, <2>2 DEF MarkFailedRead, CopyRetries
    <2>3. CASE Loads(doc)
      <3>1. pc'[r] = "markFailedWrite" /\ read'[r] = MarkFailed(doc)
        BY <1>8, <2>3 DEF MarkFailedRead, Goto, TypeOK
      <3> QED
        BY <2>1, <3>1, MarkedHasRetries DEF CopyRetries, HasRetries
    <2> QED
      BY <2>2, <2>3
  <1> QED
    BY <1>4, <1>5, <1>6, <1>7, <1>8 DEF Relay

\* The write of a relay.
LEMMA WriteLeavesRetries ==
    ASSUME Inv, NEW r \in Relays, CopyRetries(r), Relay(r) \/ Dies(r)
    PROVE  WritesLeaveRetries
  <1> DEFINE m == current[r].id
  <1>1. /\ TypeOK /\ RelayTruth(r) /\ store \in [Messages -> Documents \union {NoDocument}]
    BY DEF Inv, TypeOK
  <1>2. pc[r] # "idle" => current[r] \in Documents /\ m \in Messages
    BY <1>1 DEF TypeOK, Documents
  <1> HIDE DEF m
  <1>3. CASE store' = store
    BY <1>3 DEF WritesLeaveRetries
  <1>4. ASSUME NEW d, store' = [store EXCEPT ![m] = d], m \in Messages, d.id = m, HasRetries(d)
        PROVE  WritesLeaveRetries
    BY <1>1, <1>4 DEF WritesLeaveRetries, HasRetries
  <1>5. CASE MarkSentWrite(r)
    <2>1. /\ pc[r] = "markSentWrite" /\ store' = [store EXCEPT ![m] = read[r]]
          /\ read[r].id = m /\ read[r].status = "SENT"
      BY <1>1, <1>5 DEF MarkSentWrite, RelayTruth, m
    <2> QED
      BY <1>2, <1>4, <2>1 DEF HasRetries
  <1>6. CASE Save(r)
    <2> DEFINE saved == [current[r] EXCEPT !.createdAt = clock]
    <2>1. pc[r] = "save" /\ store' = [store EXCEPT ![m] = saved]
      BY <1>6 DEF Save, m
    <2>2. /\ saved.status = current[r].status /\ saved.retries = current[r].retries
          /\ saved.id = current[r].id
      BY <1>2, <2>1 DEF Documents
    <2>3. HasRetries(saved)
      BY <2>1, <2>2 DEF CopyRetries, HasRetries
    <2> QED
      BY <1>2, <1>4, <2>1, <2>2, <2>3 DEF m
  <1>7. CASE MarkFailedWrite(r)
    <2>1. /\ pc[r] = "markFailedWrite" /\ store' = [store EXCEPT ![m] = read[r]]
          /\ read[r].id = m
      BY <1>1, <1>7 DEF MarkFailedWrite, RelayTruth, m
    <2> QED
      BY <1>2, <1>4, <2>1 DEF CopyRetries
  <1>8. CASE ~(MarkSentWrite(r) \/ Save(r) \/ MarkFailedWrite(r))
    <2>1. store' = store
      BY <1>8 DEF Relay, FindPending, PublishSucceeds, PublishFails, EnvelopeThrows, MarkSentRead,
                  MarkSentFails, MarkFailedRead, Dies
    <2> QED
      BY <1>3, <2>1
  <1> QED
    BY <1>5, <1>6, <1>7, <1>8

RetriesStrong == \A r \in Relays : CopyRetries(r)

LEMMA RetriesStep ==
    ASSUME Inv, RetriesStrong, [Next]_vars
    PROVE  RetriesStrong' /\ [WritesLeaveRetries]_vars
  <1>1. CASE UNCHANGED vars
    BY <1>1 DEF vars, relay, RetriesStrong, CopyRetries, HasRetries
  <1>2. ASSUME NEW m \in Messages, Write(m)
        PROVE  RetriesStrong' /\ WritesLeaveRetries
    <2>1. \A x \in Messages \ {m} : store'[x] = store[x]
      BY <1>2 DEF Write, Inv, TypeOK
    <2>2. store[m] = NoDocument /\ UNCHANGED relay
      BY <1>2 DEF Write
    <2> QED
      BY <2>1, <2>2 DEF RetriesStrong, CopyRetries, HasRetries, WritesLeaveRetries, relay
  <1>3. ASSUME NEW r \in Relays, Relay(r) \/ Dies(r)
        PROVE  RetriesStrong' /\ WritesLeaveRetries
    <2>1. CopyRetries(r)' /\ WritesLeaveRetries
      BY <1>3, CopiesHaveRetries, WriteLeavesRetries, InvStoreInv DEF Inv, RetriesStrong
    <2>2. ASSUME NEW q \in Relays \ {r}
          PROVE  CopyRetries(q)'
      BY <1>3, <2>2, OthersUnchanged DEF Inv, RetriesStrong, CopyRetries, HasRetries
    <2> QED
      BY <2>1, <2>2 DEF RetriesStrong
  <1> QED
    BY <1>1, <1>2, <1>3 DEF Next

\* No write of a relay leaves a message pending with its retries used up, for any
\* number of relays and any maxRetries of each message, 0 included.
THEOREM RetriesCorrect == Spec => NoRetriesOverdrawn
  <1>1. Init => RetriesStrong
    BY DEF Init, RetriesStrong, CopyRetries
  <1>2. Inv /\ RetriesStrong /\ [Next]_vars => RetriesStrong' /\ [WritesLeaveRetries]_vars
    BY RetriesStep
  <1> QED
    BY <1>1, <1>2, Invariance, PTL DEF Spec, NoRetriesOverdrawn

-----------------------------------------------------------------------------
(* One relay alone: every run makes a difference *)

\* One relay alone, with the envelope made inside the try block, leaves no message
\* of its batch as it was: the message is settled or has a retry more, unless the
\* run was disturbed.
LeftMessagesCount ==
    \A r \in Relays, m \in Messages :
        /\ pc[r] # "idle" /\ current[r].id = m
        /\ pc'[r] = "idle" \/ batch'[r] # batch[r]
        /\ disturbances' = disturbances
        => \/ Settled(m)'
           \/ store[m].retries < store'[m].retries

\* Every step is like that.
MessagesCount == [][LeftMessagesCount]_vars

\* How the retries of a relay's copies compare with those of the documents.
RetriesInv(r) ==
    /\ pc[r] = "publish" => current[r].retries = store[current[r].id].retries
    /\ pc[r] = "save" => \/ current[r].status = "SENT"
                         \/ store[current[r].id].retries < current[r].retries
    /\ pc[r] = "markFailedWrite" => store[current[r].id].retries < read[r].retries

LEMMA TakeCounts ==
    ASSUME TypeOK, NEW r \in Relays, NEW rest \in SUBSET Documents, Take(r, rest),
           \A e \in rest : store'[e.id] = e
    PROVE  RetriesInv(r)'
  <1>1. CASE rest = {}
    BY <1>1 DEF Take, Goto, TypeOK, RetriesInv
  <1>2. CASE rest # {}
    <2>1. PICK e \in rest : pc'[r] = "publish" /\ current'[r] = e
      BY <1>2 DEF Take, Goto, TypeOK
    <2> QED
      BY <2>1 DEF RetriesInv
  <1> QED
    BY <1>1, <1>2

\* The catch block counts a failure on the copy of a pending message; a copy that
\* was marked as sent it leaves alone.
LEMMA CatchCounts ==
    ASSUME TypeOK, NEW r \in Relays, pc[r] # "idle", Catch(r),
           \/ /\ current[r].status = "PENDING" /\ store' = store
              /\ current[r].retries = store[current[r].id].retries
           \/ current[r].status = "SENT"
    PROVE  RetriesInv(r)'
  <1>1. /\ current[r] \in Documents
        /\ current'[r] = MarkFailed(current[r])
        /\ pc'[r] \in {"save", "markFailedRead"}
    BY DEF Catch, Goto, TypeOK
  <1>2. CASE current[r].status = "SENT"
    BY <1>1, <1>2, MarkFailedType DEF RetriesInv
  <1>3. CASE /\ current[r].status = "PENDING" /\ store' = store
             /\ current[r].retries = store[current[r].id].retries
    <2>1. /\ current'[r].id = current[r].id /\ current'[r].retries = current[r].retries + 1
          /\ current[r].retries \in Nat
      BY <1>1, <1>3, MarkFailedType DEF Documents
    <2> QED
      BY <1>1, <1>3, <2>1 DEF RetriesInv
  <1> QED
    BY <1>2, <1>3

LEMMA CountStep ==
    ASSUME Inv, NEW r \in Relays, OwnInv(r), RetriesInv(r), Relay(r) \/ Dies(r)
    PROVE  RetriesInv(r)'
  <1> DEFINE m == current[r].id
  <1>1. /\ TypeOK /\ StoreInv /\ RelayTruth(r)
        /\ store \in [Messages -> Documents \union {NoDocument}]
        /\ batch[r] \in SUBSET Documents
    BY InvStoreInv DEF Inv, TypeOK
  <1>2. pc[r] # "idle" => /\ current[r] \in Documents /\ m \in Messages
                          /\ store[m] \in Documents
                          /\ \A e \in batch[r] : e.id # m
    BY <1>1, DocumentExists, NullAssumption DEF OwnInv
  <1>3. \A e \in batch[r] : store[e.id] = e
    BY <1>1 DEF OwnInv
  <1> HIDE DEF m
  <1>4. ASSUME pc[r] # "idle", NEW d, store' = [store EXCEPT ![m] = d]
        PROVE  store'[m] = d /\ \A e \in batch[r] : store'[e.id] = e
    BY <1>1, <1>2, <1>3, <1>4 DEF Documents
  <1>5. ASSUME Abort(r)
        PROVE  RetriesInv(r)'
    BY <1>1, <1>5 DEF Abort, Goto, TypeOK, RetriesInv
  <1>6. CASE FindPending(r)
    <2>1. \A e \in OldestPending(BatchSize) : e \in Documents /\ store[e.id] = e
      BY <1>1, PendingType
    <2> QED
      BY <1>1, <1>6, <2>1, TakeCounts DEF FindPending
  <1>7. CASE PublishSucceeds(r)
    BY <1>1, <1>7 DEF PublishSucceeds, Goto, TypeOK, RetriesInv
  <1>8. CASE PublishFails(r) \/ EnvelopeThrows(r) \/ MarkSentFails(r) \/ Dies(r)
    <2>1. /\ pc[r] # "idle" /\ store' = store
          /\ Abort(r) \/ (Catch(r) /\ pc[r] \in {"publish", "markSentRead", "markSentWrite"})
      BY <1>8 DEF PublishFails, EnvelopeThrows, MarkSentFails, Dies
    <2> QED
      BY <1>1, <1>5, <2>1, CatchCounts DEF RelayTruth, RetriesInv
  <1>9. CASE MarkSentRead(r)
    <2>1. CASE Catch(r)
      BY <1>1, <1>9, <2>1, CatchCounts DEF MarkSentRead, RelayTruth
    <2>2. CASE ~Catch(r)
      BY <1>1, <1>9, <2>2 DEF MarkSentRead, Goto, TypeOK, RetriesInv
    <2> QED
      BY <2>1, <2>2
  <1>10. CASE MarkSentWrite(r)
    <2>1. /\ pc[r] = "markSentWrite" /\ store' = [store EXCEPT ![m] = read[r]]
          /\ Take(r, batch[r]) \/ Catch(r)
          /\ current[r].status = "SENT"
      BY <1>1, <1>10 DEF MarkSentWrite, RelayTruth, m
    <2>2. \A e \in batch[r] : store'[e.id] = e
      BY <1>4, <2>1
    <2> QED
      BY <1>1, <2>1, <2>2, TakeCounts, CatchCounts
  <1>11. CASE Save(r)
    <2> DEFINE saved == [current[r] EXCEPT !.createdAt = clock]
    <2>1. pc[r] = "save" /\ store' = [store EXCEPT ![m] = saved]
      BY <1>11 DEF Save, m
    <2>2. saved.retries = current[r].retries
      BY <1>2, <2>1 DEF Documents
    <2> HIDE DEF saved
    <2>3. store'[m] = saved /\ \A e \in batch[r] : store'[e.id] = e
      BY <1>4, <2>1
    <2>4. CASE Take(r, batch[r]) \/ Abort(r)
      BY <1>1, <1>5, <2>3, <2>4, TakeCounts
    <2>5. CASE ~Take(r, batch[r]) /\ ~Abort(r)
      <3>1. pc'[r] = "publish" /\ current' = current
        BY <1>1, <1>11, <2>5 DEF Save, Goto, TypeOK
      <3> QED
        BY <2>2, <2>3, <3>1 DEF RetriesInv, m
    <2> QED
      BY <2>4, <2>5
  <1>12. CASE MarkFailedRead(r)
    <2>1. CASE Abort(r)
      BY <1>5, <2>1
    <2>2. CASE ~Abort(r)
      <3>1. /\ pc[r] = "markFailedRead" /\ pc'[r] = "markFailedWrite"
            /\ current' = current /\ store' = store
            /\ read'[r] = MarkFailed(store[m])
        BY <1>1, <1>12, <2>2 DEF MarkFailedRead, Goto, TypeOK, m
      <3>2. store[m].status = "PENDING"
        BY <3>1 DEF OwnInv, Pending, m
      <3>3. store[m].retries \in Nat /\ read'[r].retries = store[m].retries + 1
        BY <1>2, <3>1, <3>2, MarkFailedType DEF Documents
      <3> QED
        BY <3>1, <3>3 DEF RetriesInv, m
    <2> QED
      BY <2>1, <2>2
  <1>13. CASE MarkFailedWrite(r)
    <2>1. /\ pc[r] = "markFailedWrite" /\ store' = [store EXCEPT ![m] = read[r]]
          /\ Take(r, batch[r]) \/ Abort(r)
      BY <1>13 DEF MarkFailedWrite, m
    <2>2. \A e \in batch[r] : store'[e.id] = e
      BY <1>4, <2>1
    <2> QED
      BY <1>1, <1>5, <2>1, <2>2, TakeCounts
  <1> QED
    BY <1>6, <1>7, <1>8, <1>9, <1>10, <1>11, <1>12, <1>13 DEF Relay

LEMMA CountsAlone ==
    ASSUME NEW r, Relays = {r}, Inv, OwnInv(r), RetriesInv(r), [Next]_vars
    PROVE  RetriesInv(r)'
  <1>1. CASE UNCHANGED vars
    BY <1>1 DEF vars, relay, RetriesInv
  <1>2. ASSUME NEW m \in Messages, Write(m)
        PROVE  RetriesInv(r)'
    <2>1. pc[r] # "idle" => current[r].id \in Messages /\ store[current[r].id] # NoDocument
      BY InvStoreInv, DocumentExists, NullAssumption DEF Inv
    <2>2. \A x \in Messages \ {m} : store'[x] = store[x]
      BY <1>2 DEF Write, Inv, TypeOK
    <2>3. store[m] = NoDocument /\ UNCHANGED relay
      BY <1>2 DEF Write
    <2> QED
      BY <2>1, <2>2, <2>3 DEF RetriesInv, relay
  <1>3. CASE Relay(r) \/ Dies(r)
    BY <1>3, CountStep
  <1> QED
    BY <1>1, <1>2, <1>3 DEF Next

\* The step with which a relay leaves a message.
LEMMA LeavingCounts ==
    ASSUME Inv, NEW r \in Relays, OwnInv(r), RetriesInv(r), EnvelopeInTry, Relay(r) \/ Dies(r),
           NEW m \in Messages, pc[r] # "idle", current[r].id = m,
           pc'[r] = "idle" \/ batch'[r] # batch[r],
           disturbances' = disturbances
    PROVE  Settled(m)' \/ store[m].retries < store'[m].retries
  <1>1. /\ TypeOK /\ RelayTruth(r) /\ disturbances \in Nat
        /\ store \in [Messages -> Documents \union {NoDocument}]
        /\ current[r] \in Documents
    BY DEF Inv, TypeOK
  <1>2. ~Disturb
    BY <1>1 DEF Disturb
  <1>3. ~Catch(r)
    BY <1>1 DEF Catch, Goto, TypeOK
  <1>4. CASE PublishSucceeds(r)
    BY <1>1, <1>4 DEF PublishSucceeds, Goto, TypeOK
  <1>5. CASE EnvelopeThrows(r) \/ PublishFails(r) \/ MarkSentFails(r) \/ Dies(r)
    BY <1>2, <1>3, <1>5 DEF EnvelopeThrows, PublishFails, MarkSentFails, Dies
  <1>6. CASE MarkSentRead(r)
    BY <1>1, <1>3, <1>6 DEF MarkSentRead, Goto, TypeOK
  <1>7. CASE MarkSentWrite(r)
    <2>1. store'[m] = read[r] /\ read[r].status = "SENT" /\ read[r] # NoDocument
      BY <1>1, <1>7, NullAssumption DEF MarkSentWrite, RelayTruth, TypeOK
    <2> QED
      BY <2>1 DEF Settled
  <1>8. CASE Save(r)
    <2> DEFINE saved == [current[r] EXCEPT !.createdAt = clock]
    <2>1. saved \in Documents /\ saved.status = current[r].status /\ saved.retries = current[r].retries
      BY <1>1 DEF Documents, TypeOK
    <2>2. store'[m] = saved /\ pc[r] = "save"
      BY <1>1, <1>8 DEF Save
    <2> HIDE DEF saved
    <2>3. saved # NoDocument
      BY <2>1, NullAssumption
    <2> QED
      BY <2>1, <2>2, <2>3 DEF Settled, RetriesInv
  <1>9. CASE MarkFailedRead(r)
    <2>1. Loads(store[m])
      BY <1>9 DEF MarkFailedRead, OwnInv, Pending, Loads
    <2> QED
      BY <1>1, <1>9, <2>1 DEF MarkFailedRead, Goto, TypeOK
  <1>10. CASE MarkFailedWrite(r)
    BY <1>1, <1>10 DEF MarkFailedWrite, RetriesInv
  <1>11. CASE FindPending(r)
    BY <1>11 DEF FindPending
  <1> QED
    BY <1>4, <1>5, <1>6, <1>7, <1>8, <1>9, <1>10, <1>11 DEF Relay

\* One relay alone settles every message of its batch or counts another retry of
\* it, unless the run is disturbed.
THEOREM CountsCorrect ==
    ASSUME NEW r, Relays = {r}, EnvelopeInTry
    PROVE  Spec => MessagesCount
  <1>1. Init => AloneInv(r) /\ RetriesInv(r)
    BY AloneInit DEF Init, RetriesInv
  <1>2. Inv /\ AloneInv(r) /\ RetriesInv(r) /\ [Next]_vars => AloneInv(r)' /\ RetriesInv(r)'
    BY AloneStep, CountsAlone DEF AloneInv
  <1>3. ASSUME Inv, AloneInv(r), RetriesInv(r), [Next]_vars
        PROVE  [LeftMessagesCount]_vars
    <2>1. CASE UNCHANGED vars
      BY <2>1
    <2>2. CASE \E m \in Messages : Write(m)
      BY <2>2 DEF Write, relay, LeftMessagesCount
    <2>3. CASE Relay(r) \/ Dies(r)
      BY <1>3, <2>3, LeavingCounts DEF AloneInv, LeftMessagesCount
    <2> QED
      BY <1>3, <2>1, <2>2, <2>3 DEF Next
  <1> QED
    BY <1>1, <1>2, <1>3, Invariance, PTL DEF Spec, MessagesCount
=============================================================================
