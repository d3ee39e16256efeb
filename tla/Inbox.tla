-------------------------------- MODULE Inbox -------------------------------
(***************************************************************************)
(* The inbox: deduplication of delivered messages by InboxDeduplicationImpl*)
(* of packages/adapters and by InboxDeduplicationService of packages/core, *)
(* over the records of a Mongo collection.                                 *)
(*                                                                         *)
(* process looks the message key up and, when there is no record, saves    *)
(* one and answers that the message is new: the caller then handles it.    *)
(* Deliveries of one message (a redelivery, a second consumer process) run *)
(* concurrently; every await is an action.  A call may be lost before or   *)
(* after it reached the store, or the process may die: the delivery then   *)
(* ends without an answer, at the price of one unit of MaxDisturbances.    *)
(*                                                                         *)
(* The two implementations differ in the id of a new record (made from the *)
(* key, or random) and in what they do with a record not processed yet.    *)
(* A key names the consumer as well, and a consumer uses one of them.      *)
(***************************************************************************)
EXTENDS Naturals, FiniteSets

CONSTANTS Keys,            \* deduplication keys: one per message and consumer
          Deliveries,      \* deliveries of messages
          KeyOf,           \* the key of each delivery
          FixedKeys,       \* keys of the consumers that use InboxDeduplicationImpl
          MaxDisturbances  \* bound: lost calls and crashes in a behaviour

ASSUME InboxAssumption ==
    /\ KeyOf \in [Deliveries -> Keys]
    /\ FixedKeys \subseteq Keys
    /\ MaxDisturbances \in Nat

VARIABLES
    records,      \* the documents of the collection
    pc,           \* the await each delivery stands at
    answer,       \* what process answered it
    earlier,      \* history: the deliveries that had ended when it began
    disturbances

vars == <<records, pc, answer, earlier, disturbances>>

\* Ids made from a key, from a random number by a delivery, or by another writer.
Ids == {"key", "random", "writer"} \X (Keys \union Deliveries)

Records == [id : Ids, key : Keys, processed : BOOLEAN]

RecordsOf(k) == {rec \in records : rec.key = k}

Ended(d) == pc[d] = "ended"

\* The delivery is handled by InboxDeduplicationImpl.
FixedId(d) == KeyOf[d] \in FixedKeys

\* Mutant: the record has a random id.
NewIdRandom(d) == <<"random", d>>

\* UniqueId.create
NewId(d) == IF FixedId(d) THEN <<"key", KeyOf[d]>> ELSE <<"random", d>>

-----------------------------------------------------------------------------
(* Actions *)

\* The delivery ends, with the answer of process or, disturbed, without one.
End(d, a) ==
    /\ pc' = [pc EXCEPT ![d] = "ended"]
    /\ \/ answer' = [answer EXCEPT ![d] = a] /\ UNCHANGED disturbances
       \/ /\ disturbances < MaxDisturbances
          /\ disturbances' = disturbances + 1
          /\ UNCHANGED answer

Goto(d, next) == pc' = [pc EXCEPT ![d] = next] /\ UNCHANGED <<answer, disturbances>>

\* findByMessageId returns some record of the key.
Find(d) ==
    /\ pc[d] = "idle"
    /\ earlier' = [earlier EXCEPT ![d] = {e \in Deliveries : Ended(e)}]
    /\ \/ RecordsOf(KeyOf[d]) = {} /\ Goto(d, "save")
       \/ \E rec \in RecordsOf(KeyOf[d]) :
             IF FixedId(d) \/ rec.processed THEN End(d, "duplicate") ELSE Goto(d, "markProcessed")
    /\ UNCHANGED records

\* Mutants: the record is not saved; the answer is that of a second lookup.
SaveForgotten(d) ==
    /\ pc[d] = "save"
    /\ End(d, "first")
    /\ UNCHANGED <<records, earlier>>
SaveLooksAgain(d) ==
    /\ pc[d] = "save"
    /\ records' = {rec \in records : rec.id # NewId(d)}
                    \union {[id |-> NewId(d), key |-> KeyOf[d], processed |-> TRUE]}
    /\ End(d, "duplicate")
    /\ UNCHANGED earlier

\* save replaces the record with the id or inserts it.
Save(d) ==
    /\ pc[d] = "save"
    /\ records' = {rec \in records : rec.id # NewId(d)}
                    \union {[id |-> NewId(d), key |-> KeyOf[d], processed |-> TRUE]}
    /\ End(d, "first")
    /\ UNCHANGED earlier

\* Mutant: the processed record is inserted.
MarkProcessedInserts(d) ==
    /\ pc[d] = "markProcessed"
    /\ \E rec \in RecordsOf(KeyOf[d]) :
          /\ rec.id[1] = "writer"
          /\ records' = records \union {[rec EXCEPT !.processed = TRUE]}
    /\ End(d, "duplicate")
    /\ UNCHANGED earlier

\* markProcessed of the record found, which was not processed: the writer's.
\* Its read and its write are one action: in between, the record can only
\* become processed.
MarkProcessed(d) ==
    /\ pc[d] = "markProcessed"
    /\ \E rec \in RecordsOf(KeyOf[d]) :
          /\ rec.id[1] = "writer"
          /\ records' = (records \ {rec}) \union {[rec EXCEPT !.processed = TRUE]}
    /\ End(d, "duplicate")
    /\ UNCHANGED earlier

\* A call is lost before it reaches the store, or the process dies.
Fails(d) ==
    /\ pc[d] # "ended"
    /\ disturbances < MaxDisturbances
    /\ disturbances' = disturbances + 1
    /\ pc' = [pc EXCEPT ![d] = "ended"]
    /\ UNCHANGED <<records, answer, earlier>>

\* Another writer of the repository records a message before it is processed.
Ingest(k) ==
    /\ <<"writer", k>> \notin {rec.id : rec \in records}
    /\ records' = records \union {[id |-> <<"writer", k>>, key |-> k, processed |-> FALSE]}
    /\ UNCHANGED <<pc, answer, earlier, disturbances>>

-----------------------------------------------------------------------------

Init ==
    /\ records = {}
    /\ pc = [d \in Deliveries |-> "idle"]
    /\ answer = [d \in Deliveries |-> "none"]
    /\ earlier = [d \in Deliveries |-> {}]
    /\ disturbances = 0

Next ==
    \/ \E d \in Deliveries : Find(d) \/ Save(d) \/ MarkProcessed(d) \/ Fails(d)
    \/ \E k \in Keys : Ingest(k)

Spec == Init /\ [][Next]_vars

-----------------------------------------------------------------------------
(* Properties *)

\* The type invariant; an id names one record.
TypeOK ==
    /\ records \subseteq Records
    /\ \A rec1, rec2 \in records : rec1.id = rec2.id => rec1 = rec2
    /\ pc \in [Deliveries -> {"idle", "save", "markProcessed", "ended"}]
    /\ answer \in [Deliveries -> {"none", "first", "duplicate"}]
    /\ earlier \in [Deliveries -> SUBSET Deliveries]
    /\ disturbances \in 0..MaxDisturbances

Siblings(d) == {e \in Deliveries : KeyOf[e] = KeyOf[d]}

\* A message is new to one delivery only, when the others come after it: two
\* deliveries are both told that it is new only if they were in flight together.
NewOnceInTurn ==
    \A d \in Deliveries : answer[d] = "first" =>
        \A e \in Siblings(d) \ {d} : answer[e] = "first" => e \notin earlier[d]

\* A delivery is told that the message is a duplicate only when a delivery of the
\* same message was told that it is new or was cut off before its answer, or when
\* another writer recorded it: no message is dropped without a cause.
NothingIsDropped ==
    \A d \in Deliveries : answer[d] = "duplicate" =>
        \/ \E e \in Siblings(d) : Ended(e) /\ answer[e] \in {"first", "none"}
        \/ \E rec \in RecordsOf(KeyOf[d]) : rec.id[1] = "writer"

\* A message the adapters' implementation has seen has one record of its own,
\* however many deliveries raced to save it.
OneRecord ==
    \A k \in FixedKeys : Cardinality({rec \in RecordsOf(k) : rec.id[1] # "writer"}) <= 1

\* At most one delivery of a message is told that the message is new.
NewOnce ==
    \A d \in Deliveries : answer[d] = "first" =>
        \A e \in Siblings(d) \ {d} : answer[e] # "first"
=============================================================================
