---------------------------- MODULE InboxProofs -----------------------------
(***************************************************************************)
(* Theorems about Inbox, for any keys, any number of deliveries and any    *)
(* number of disturbances, with either implementation.                     *)
(***************************************************************************)
EXTENDS Inbox, FiniteSetTheorems, TLAPS

Written(rec) == rec.id[1] = "writer"

\* An id determines the key of its record.
IdInv ==
    \A rec \in records :
        /\ rec.id[1] = "key" => rec.key \in FixedKeys /\ rec.id = <<"key", rec.key>>
        /\ rec.id[1] = "random" => rec.key \notin FixedKeys /\ rec.key = KeyOf[rec.id[2]]

\* What a record owes its existence to.
Caused(rec, p, a) ==
    \/ Written(rec)
    \/ \E e \in Deliveries : KeyOf[e] = rec.key /\ p[e] = "ended" /\ a[e] \in {"first", "none"}

\* An answer is given at the end; a delivery that ended earlier stays ended.
DeliveryInv ==
    \A d \in Deliveries : /\ pc[d] # "ended" => answer[d] = "none"
                          /\ \A e \in earlier[d] : pc[e] = "ended"

\* A key has a record as soon as one of its deliveries was told that it is new,
\* and every record has a cause.
RecordInv ==
    /\ \A d \in Deliveries : answer[d] = "first" => RecordsOf(KeyOf[d]) # {}
    /\ \A rec \in records : Caused(rec, pc, answer)

\* A delivery that found no record was preceded by none that was told that the
\* message is new.
NewInv ==
    \A d \in Deliveries : pc[d] = "save" \/ answer[d] = "first" =>
        \A e \in earlier[d] : e # d /\ KeyOf[e] = KeyOf[d] => answer[e] # "first"

DuplicateInv ==
    \A d \in Deliveries : answer[d] = "duplicate" =>
        \E rec \in records : rec.key = KeyOf[d]

Inv == TypeOK /\ IdInv /\ DeliveryInv /\ RecordInv /\ NewInv /\ DuplicateInv

-----------------------------------------------------------------------------
(* Records and ends of deliveries *)

\* The record save writes.
LEMMA NewRecordType ==
    ASSUME NEW d \in Deliveries
    PROVE  /\ [id |-> NewId(d), key |-> KeyOf[d], processed |-> TRUE] \in Records
           /\ FixedId(d) => NewId(d) = <<"key", KeyOf[d]>> /\ NewId(d)[1] = "key"
           /\ ~FixedId(d) => NewId(d)[1] = "random" /\ NewId(d)[2] = d
  BY InboxAssumption DEF NewId, FixedId, Records, Ids

\* A step that ends no delivery twice keeps the causes of the records.
LEMMA CauseStays ==
    ASSUME NEW rec, Caused(rec, pc, answer),
           \A e \in Deliveries : pc[e] = "ended" => pc'[e] = "ended" /\ answer'[e] = answer[e]
    PROVE  Caused(rec, pc', answer')
  BY DEF Caused

LEMMA EndFacts ==
    ASSUME TypeOK, NEW d \in Deliveries, NEW a \in {"first", "duplicate"}, End(d, a)
    PROVE  /\ pc' = [pc EXCEPT ![d] = "ended"] /\ pc'[d] = "ended"
           /\ pc' \in [Deliveries -> {"idle", "save", "markProcessed", "ended"}]
           /\ answer' \in [Deliveries -> {"none", "first", "duplicate"}]
           /\ disturbances' \in 0..MaxDisturbances
           /\ answer'[d] \in {a, answer[d]}
           /\ \A e \in Deliveries \ {d} : pc'[e] = pc[e] /\ answer'[e] = answer[e]
  BY InboxAssumption DEF End, TypeOK

\* A delivery that goes on, and one that fails, leaves the answers alone.
LEMMA GotoFacts ==
    ASSUME TypeOK, NEW d \in Deliveries,
           NEW next \in {"save", "markProcessed", "ended"},
           pc' = [pc EXCEPT ![d] = next], answer' = answer
    PROVE  /\ pc' \in [Deliveries -> {"idle", "save", "markProcessed", "ended"}]
           /\ pc'[d] = next
           /\ \A e \in Deliveries \ {d} : pc'[e] = pc[e] /\ answer'[e] = answer[e]
  BY DEF TypeOK

-----------------------------------------------------------------------------
(* The inductive invariant *)

LEMMA InvInit == Init => Inv
  BY InboxAssumption DEF Init, Inv, TypeOK, IdInv, DeliveryInv, RecordInv, NewInv, DuplicateInv,
                         RecordsOf

LEMMA FindStep ==
    ASSUME Inv, NEW d \in Deliveries, Find(d)
    PROVE  Inv'
  <1> USE DEF Inv, Ended
  <1>0. IdInv'
    BY DEF Find, IdInv
  <1>1. /\ pc[d] = "idle" /\ answer[d] = "none" /\ records' = records
        /\ earlier' = [earlier EXCEPT ![d] = {e \in Deliveries : pc[e] = "ended"}]
    BY DEF Find, DeliveryInv
  <1>2. /\ earlier' \in [Deliveries -> SUBSET Deliveries]
        /\ \A e \in Deliveries \ {d} : earlier'[e] = earlier[e]
        /\ earlier'[d] = {e \in Deliveries : pc[e] = "ended"}
    BY <1>1 DEF TypeOK
  <1>3. CASE RecordsOf(KeyOf[d]) = {} /\ Goto(d, "save")
    <2>1. /\ pc' = [pc EXCEPT ![d] = "save"] /\ answer' = answer
          /\ disturbances' = disturbances
      BY <1>3 DEF Goto
    <2>2. TypeOK'
      BY <1>1, <1>2, <2>1, GotoFacts DEF TypeOK
    <2>3. DeliveryInv'
      BY <1>1, <1>2, <2>1, GotoFacts DEF DeliveryInv, TypeOK
    <2>4. RecordInv'
      BY <1>1, <2>1, GotoFacts, CauseStays DEF RecordInv, RecordsOf
    <2>5. \A e \in Deliveries : KeyOf[e] = KeyOf[d] => answer[e] # "first"
      BY <1>3 DEF RecordInv
    <2>6. NewInv'
      BY <1>2, <2>1, <2>5, GotoFacts DEF NewInv
    <2>7. DuplicateInv'
      BY <1>1, <2>1 DEF DuplicateInv
    <2> QED
      BY <1>0, <2>2, <2>3, <2>4, <2>6, <2>7
  <1>4. ASSUME NEW rec \in RecordsOf(KeyOf[d]), End(d, "duplicate")
        PROVE  Inv'
    <2>1. TypeOK'
      BY <1>1, <1>2, <1>4, EndFacts DEF TypeOK
    <2>2. DeliveryInv'
      BY <1>1, <1>2, <1>4, EndFacts DEF DeliveryInv, TypeOK
    <2>3. RecordInv'
      <3>1. \A e \in Deliveries : pc[e] = "ended" => pc'[e] = "ended" /\ answer'[e] = answer[e]
        BY <1>1, <1>4, EndFacts
      <3>2. \A r \in records' : Caused(r, pc', answer')
        BY <1>1, <3>1, CauseStays DEF RecordInv
      <3>3. \A e \in Deliveries : answer'[e] = "first" => answer[e] = "first"
        BY <1>1, <1>4, EndFacts
      <3> QED
        BY <1>1, <3>2, <3>3 DEF RecordInv, RecordsOf
    <2>4. NewInv'
      BY <1>1, <1>2, <1>4, EndFacts DEF NewInv, DeliveryInv, TypeOK
    <2>5. DuplicateInv'
      BY <1>1, <1>4, EndFacts DEF DuplicateInv, RecordsOf
    <2> QED
      BY <1>0, <2>1, <2>2, <2>3, <2>4, <2>5
  <1>5. CASE Goto(d, "markProcessed")
    <2>1. /\ pc' = [pc EXCEPT ![d] = "markProcessed"] /\ answer' = answer
          /\ disturbances' = disturbances
      BY <1>5 DEF Goto
    <2>2. TypeOK'
      BY <1>1, <1>2, <2>1, GotoFacts DEF TypeOK
    <2>3. DeliveryInv'
      BY <1>1, <1>2, <2>1, GotoFacts DEF DeliveryInv, TypeOK
    <2>4. RecordInv'
      BY <1>1, <2>1, GotoFacts, CauseStays DEF RecordInv, RecordsOf
    <2>5. NewInv'
      BY <1>1, <1>2, <2>1, GotoFacts DEF NewInv
    <2>6. DuplicateInv'
      BY <1>1, <2>1 DEF DuplicateInv
    <2> QED
      BY <1>0, <2>2, <2>3, <2>4, <2>5, <2>6
  <1> QED
    BY <1>3, <1>4, <1>5 DEF Find

LEMMA SaveStep ==
    ASSUME Inv, NEW d \in Deliveries, Save(d)
    PROVE  Inv'
  <1> DEFINE new == [id |-> NewId(d), key |-> KeyOf[d], processed |-> TRUE]
  <1> USE DEF Inv
  <1>1. /\ pc[d] = "save" /\ answer[d] = "none" /\ earlier' = earlier
        /\ End(d, "first")
        /\ records' = {rec \in records : rec.id # new.id} \union {new}
    BY DEF Save, DeliveryInv
  <1>2. new \in Records /\ new.key = KeyOf[d]
    BY NewRecordType
  <1> HIDE DEF new
  <1>3. new \in records' /\ new \in RecordsOf(KeyOf[d])'
    BY <1>1, <1>2 DEF RecordsOf
  <1>4. TypeOK'
    <2>1. records' \subseteq Records
      BY <1>1, <1>2 DEF TypeOK
    <2>2. \A rec1, rec2 \in records' : rec1.id = rec2.id => rec1 = rec2
      BY <1>1 DEF TypeOK
    <2> QED
      BY <1>1, <2>1, <2>2, EndFacts DEF TypeOK
  <1>5. DeliveryInv'
    BY <1>1, EndFacts DEF DeliveryInv, TypeOK
  <1>6. \A e \in Deliveries \ {d} : answer'[e] = answer[e] /\ pc'[e] = pc[e]
    BY <1>1, EndFacts
  <1>7. /\ answer'[d] \in {"first", "none"} /\ pc'[d] = "ended"
    BY <1>1, EndFacts
  <1>8. IdInv'
    <2> SUFFICES ASSUME NEW rec \in records'
                 PROVE  /\ rec.id[1] = "key" => rec.key \in FixedKeys /\ rec.id = <<"key", rec.key>>
                        /\ rec.id[1] = "random" => rec.key \notin FixedKeys /\ rec.key = KeyOf[rec.id[2]]
      BY DEF IdInv
    <2>1. CASE rec \in records
      BY <2>1 DEF IdInv
    <2>2. CASE rec = new
      <3>1. new.id = NewId(d) /\ new.key = KeyOf[d]
        BY DEF new
      <3> QED
        BY <2>2, <3>1, NewRecordType, InboxAssumption DEF FixedId
    <2> QED
      BY <1>1, <2>1, <2>2
  \* The record that is replaced, if there is one, has the key of the new one.
  <1>9. \A rec \in records : rec.id = new.id => rec.key = new.key /\ ~Written(rec)
    <2> SUFFICES ASSUME NEW rec \in records, rec.id = new.id
                 PROVE  rec.key = new.key /\ ~Written(rec)
      OBVIOUS
    <2>1. rec.id = NewId(d) /\ new.key = KeyOf[d]
      BY DEF new
    <2>2. CASE FixedId(d)
      <3>1. rec.id = <<"key", KeyOf[d]>>
        BY <2>1, <2>2, NewRecordType
      <3>2. rec.id[1] = "key" /\ rec.id[2] = KeyOf[d]
        BY <3>1
      <3>3. rec.id = <<"key", rec.key>>
        BY <3>2 DEF IdInv
      <3>4. rec.id[2] = rec.key
        BY <3>3
      <3> QED
        BY <2>1, <3>2, <3>4 DEF Written
    <2>3. CASE ~FixedId(d)
      <3>1. rec.id[1] = "random" /\ rec.id[2] = d
        BY <2>1, <2>3, NewRecordType
      <3> QED
        BY <2>1, <3>1 DEF IdInv, Written
    <2> QED
      BY <2>2, <2>3
  <1>10. \A rec \in records : \E r \in records' : r.key = rec.key
    BY <1>1, <1>3, <1>9
  <1>11. RecordInv'
    <2>1. \A e \in Deliveries : answer'[e] = "first" => RecordsOf(KeyOf[e])' # {}
      <3> SUFFICES ASSUME NEW e \in Deliveries, answer'[e] = "first"
                   PROVE  \E r \in records' : r.key = KeyOf[e]
        BY DEF RecordsOf
      <3>1. CASE e = d
        BY <1>2, <1>3, <3>1
      <3>2. CASE e # d
        BY <1>6, <1>10, <3>2 DEF RecordInv, RecordsOf
      <3> QED
        BY <3>1, <3>2
    <2>2. Caused(new, pc', answer')
      BY <1>2, <1>7 DEF Caused
    <2>3. \A rec \in records : Caused(rec, pc', answer')
      BY <1>1, <1>6, <1>7, CauseStays DEF RecordInv
    <2> QED
      BY <1>1, <2>1, <2>2, <2>3 DEF RecordInv
  <1>12. NewInv'
    <2> SUFFICES ASSUME NEW e \in Deliveries, pc'[e] = "save" \/ answer'[e] = "first",
                        NEW f \in earlier'[e], f # e, KeyOf[f] = KeyOf[e], answer'[f] = "first"
                 PROVE  FALSE
      BY DEF NewInv
    <2>0. f \in earlier[e]
      BY <1>1
    <2>1. f # d /\ f \in Deliveries
      BY <1>1, <2>0 DEF DeliveryInv, TypeOK
    <2>2. answer[f] = "first"
      BY <1>6, <2>1
    <2>3. pc[e] = "save" \/ answer[e] = "first"
      BY <1>1, <1>6
    <2> QED
      BY <2>0, <2>2, <2>3 DEF NewInv
  <1>13. DuplicateInv'
    <2>1. \A e \in Deliveries : answer'[e] = "duplicate" => answer[e] = "duplicate"
      BY <1>6, <1>7
    <2> QED
      BY <1>10, <2>1 DEF DuplicateInv
  <1> QED
    BY <1>4, <1>5, <1>8, <1>11, <1>12, <1>13

LEMMA MarkProcessedStep ==
    ASSUME Inv, NEW d \in Deliveries, MarkProcessed(d)
    PROVE  Inv'
  <1> USE DEF Inv
  <1>1. PICK rec \in RecordsOf(KeyOf[d]) :
           /\ Written(rec)
           /\ records' = (records \ {rec}) \union {[rec EXCEPT !.processed = TRUE]}
    BY DEF MarkProcessed, Written
  <1>2. pc[d] = "markProcessed" /\ answer[d] = "none" /\ earlier' = earlier
        /\ End(d, "duplicate")
    BY DEF MarkProcessed, DeliveryInv
  <1> DEFINE new == [rec EXCEPT !.processed = TRUE]
  <1>3. rec \in records /\ rec \in Records /\ rec.key = KeyOf[d]
    BY DEF TypeOK, RecordsOf
  <1>4. new \in Records /\ new.id = rec.id /\ new.key = rec.key /\ Written(new)
    BY <1>1, <1>3 DEF Records, Written
  <1>5. records' = (records \ {rec}) \union {new}
    BY <1>1
  <1> HIDE DEF new
  <1>6. TypeOK'
    <2>1. records' \subseteq Records
      BY <1>4, <1>5 DEF TypeOK
    <2>2. \A rec1, rec2 \in records' : rec1.id = rec2.id => rec1 = rec2
      BY <1>3, <1>4, <1>5 DEF TypeOK
    <2> QED
      BY <1>2, <2>1, <2>2, EndFacts DEF TypeOK
  <1>7. DeliveryInv'
    BY <1>2, EndFacts DEF DeliveryInv, TypeOK
  <1>8. IdInv'
    BY <1>4, <1>5 DEF IdInv, Written
  <1>9. \A r \in records : \E s \in records' : s.key = r.key
    BY <1>4, <1>5
  <1>10. \A e \in Deliveries : /\ answer'[e] = "first" => answer[e] = "first"
                               /\ pc'[e] = "save" => pc[e] = "save"
    BY <1>2, EndFacts
  <1>11. RecordInv'
    <2>1. \A e \in Deliveries : pc[e] = "ended" => pc'[e] = "ended" /\ answer'[e] = answer[e]
      BY <1>2, EndFacts
    <2>2. \A r \in records : Caused(r, pc', answer')
      BY <2>1, CauseStays DEF RecordInv
    <2>3. Caused(new, pc', answer')
      BY <1>4 DEF Caused
    <2>4. \A e \in Deliveries : answer'[e] = "first" => \E r \in records' : r.key = KeyOf[e]
      BY <1>9, <1>10 DEF RecordInv, RecordsOf
    <2> QED
      BY <1>5, <2>2, <2>3, <2>4 DEF RecordInv, RecordsOf
  <1>12. NewInv'
    BY <1>2, <1>10 DEF NewInv, TypeOK
  <1>13. DuplicateInv'
    <2>1. \A e \in Deliveries : answer'[e] = "duplicate" => e = d \/ answer[e] = "duplicate"
      BY <1>2, EndFacts
    <2>2. \E r \in records' : r.key = KeyOf[d]
      BY <1>3, <1>9
    <2> QED
      BY <1>9, <2>1, <2>2 DEF DuplicateInv
  <1> QED
    BY <1>6, <1>7, <1>8, <1>11, <1>12, <1>13

LEMMA FailsStep ==
    ASSUME Inv, NEW d \in Deliveries, Fails(d)
    PROVE  Inv'
  <1> USE DEF Inv
  <1>1. /\ pc[d] # "ended" /\ pc' = [pc EXCEPT ![d] = "ended"]
        /\ disturbances' \in 0..MaxDisturbances
        /\ UNCHANGED <<records, answer, earlier>>
    BY InboxAssumption DEF Fails, TypeOK
  <1>2. TypeOK' /\ IdInv' /\ DeliveryInv'
    BY <1>1, GotoFacts DEF TypeOK, IdInv, DeliveryInv
  <1>3. RecordInv'
    BY <1>1, GotoFacts, CauseStays DEF RecordInv, RecordsOf
  <1>4. NewInv' /\ DuplicateInv'
    BY <1>1, GotoFacts DEF NewInv, DuplicateInv
  <1> QED
    BY <1>2, <1>3, <1>4

LEMMA IngestStep ==
    ASSUME Inv, NEW k \in Keys, Ingest(k)
    PROVE  Inv'
  <1> DEFINE new == [id |-> <<"writer", k>>, key |-> k, processed |-> FALSE]
  <1> USE DEF Inv
  <1>1. /\ records' = records \union {new} /\ UNCHANGED <<pc, answer, earlier, disturbances>>
        /\ \A rec \in records : rec.id # new.id
    BY DEF Ingest
  <1>2. new \in Records /\ Written(new)
    BY DEF Records, Ids, Written
  <1> HIDE DEF new
  <1>3. TypeOK'
    BY <1>1, <1>2 DEF TypeOK
  <1>4. IdInv' /\ DeliveryInv' /\ NewInv' /\ DuplicateInv'
    BY <1>1, <1>2 DEF IdInv, DeliveryInv, NewInv, DuplicateInv, Written
  <1>5. RecordInv'
    BY <1>1, <1>2 DEF RecordInv, RecordsOf, Caused
  <1> QED
    BY <1>3, <1>4, <1>5

LEMMA InvStep == Inv /\ [Next]_vars => Inv'
  <1>1. ASSUME Inv, UNCHANGED vars
        PROVE  Inv'
    BY <1>1 DEF vars, Inv, TypeOK, IdInv, DeliveryInv, RecordInv, NewInv, DuplicateInv,
                RecordsOf
  <1> QED
    BY <1>1, FindStep, SaveStep, MarkProcessedStep, FailsStep, IngestStep DEF Next

LEMMA Invariance == Spec => []Inv
  BY InvInit, InvStep, PTL DEF Spec

-----------------------------------------------------------------------------
(* Theorems *)

\* Type correctness; an id names one record.
THEOREM TypeCorrect == Spec => []TypeOK
  <1>1. Inv => TypeOK
    BY DEF Inv
  <1> QED
    BY <1>1, Invariance, PTL

\* With either implementation, a message is new to one only of any number of
\* deliveries that follow one another.
THEOREM NewOnceInTurnCorrect == Spec => []NewOnceInTurn
  <1>1. Inv => NewOnceInTurn
    BY DEF Inv, NewInv, NewOnceInTurn, Siblings
  <1> QED
    BY <1>1, Invariance, PTL

\* With either implementation, no message is taken for a duplicate without a
\* cause.
THEOREM NothingIsDroppedCorrect == Spec => []NothingIsDropped
  <1>1. Inv => NothingIsDropped
    BY DEF Inv, DuplicateInv, RecordInv, Caused, Written, NothingIsDropped, Siblings, Ended,
           RecordsOf
  <1> QED
    BY <1>1, Invariance, PTL

\* The id made from the key makes racing deliveries write one record.
THEOREM OneRecordCorrect == Spec => []OneRecord
  <1>1. Inv => OneRecord
    <2> SUFFICES ASSUME Inv, NEW k \in FixedKeys
                 PROVE  Cardinality({rec \in RecordsOf(k) : rec.id[1] # "writer"}) <= 1
      BY DEF OneRecord
    <2> DEFINE own == {rec \in RecordsOf(k) : rec.id[1] # "writer"}
    <2>1. \A rec \in own : rec \in records /\ rec.id = <<"key", k>>
      BY DEF Inv, TypeOK, Records, Ids, IdInv, RecordsOf
    <2>2. \A rec1, rec2 \in own : rec1 = rec2
      BY <2>1 DEF Inv, TypeOK
    <2>3. own = {} \/ \E rec : own = {rec}
      BY <2>2
    <2> HIDE DEF own
    <2>4. Cardinality(own) = 0 \/ Cardinality(own) = 1
      BY <2>3, FS_EmptySet, FS_Singleton
    <2>5. Cardinality(own) <= 1
      BY <2>4
    <2> QED
      BY <2>5 DEF own
  <1> QED
    BY <1>1, Invariance, PTL
=============================================================================
