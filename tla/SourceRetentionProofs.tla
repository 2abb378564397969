------------------------- MODULE SourceRetentionProofs -------------------------
(***************************************************************************)
(* For every set of keys, batches and workers, and whether or not requests *)
(* outlive their reservations: a novel whose acceptance was acknowledged   *)
(* never names an object that is gone, and no object is left that nobody   *)
(* answers for.                                                            *)
(***************************************************************************)
EXTENDS SourceRetention, TLAPS

(* What a row may be. *)
SoundRow == {x \in Row : x.mark = "claimed" <=> x.by # Nobody}

(* A request that is storing an object has one. *)
TypeInv == TypeOK /\ \A r \in Request : request[r].pc = "put" => request[r].key \in Key

(* The rows the code writes. *)
LEMMA Rows ==
    /\ {Absent, Reserved, Queued, [Queued EXCEPT !.due = FALSE]} \subseteq SoundRow
    /\ \A w \in Worker : [mark |-> "claimed", by |-> w, due |-> FALSE] \in SoundRow
    /\ \A x \in SoundRow : [x EXCEPT !.due = TRUE] \in SoundRow
<1> USE RetentionConstants
<1>1. Absent \in SoundRow /\ Reserved \in SoundRow /\ Queued \in SoundRow
  BY DEF SoundRow, Row, Absent, Reserved, Queued
<1>2. [Queued EXCEPT !.due = FALSE] \in SoundRow
  BY DEF SoundRow, Row, Queued
<1>3. \A w \in Worker : [mark |-> "claimed", by |-> w, due |-> FALSE] \in SoundRow
  BY DEF SoundRow, Row
<1>4. \A x \in SoundRow : [x EXCEPT !.due = TRUE] \in SoundRow
  BY DEF SoundRow, Row
<1> QED BY <1>1, <1>2, <1>3, <1>4

(* The table is one of such rows. *)
RowsSound == row \in [Key -> SoundRow]

LEMMA RowsSplit == TypeInv => RowsSound
BY DEF TypeInv, TypeOK, RowsSound, SoundRow

LEMMA RowsJoin ==
  RowsSound' => /\ row' \in [Key -> Row]
                /\ \A k \in Key : row'[k].mark = "claimed" <=> row'[k].by # Nobody
BY DEF RowsSound, SoundRow

(* Writing a sound row keeps it so, in one place and in several. *)
LEMMA WriteRow ==
  ASSUME RowsSound, NEW k, NEW x \in SoundRow, row' = [row EXCEPT ![k] = x]
  PROVE  RowsSound'
BY DEF RowsSound

LEMMA WriteRows ==
  ASSUME RowsSound, NEW S, NEW x \in SoundRow,
         row' = [k \in Key |-> IF k \in S THEN x ELSE row[k]]
  PROVE  RowsSound'
BY DEF RowsSound

(* Initially. *)
LEMMA TypeInit == Init => TypeInv
BY RetentionConstants, Rows DEF Init, TypeInv, TypeOK, SoundRow, Upload, Pass, NoPass

(* Every step keeps the types. *)
LEMMA TypeStep == ASSUME TypeInv, [Next]_vars PROVE TypeInv'
<1> USE RetentionConstants
<1> USE DEF TypeInv
<1> DEFINE RowsOK == \A k \in Key : row[k].mark = "claimed" <=> row[k].by # Nobody
<1>s. RowsSound
  BY RowsSplit
<1>1. ASSUME NEW r \in Request, NEW k \in Key, Reserve(r, k) PROVE TypeInv'
  <2>0. row' = [row EXCEPT ![k] = Reserved]
    BY <1>1 DEF Reserve
  <2>1. row' \in [Key -> Row] /\ RowsOK'
    <3>1. Reserved \in SoundRow
      BY Rows
    <3>2. RowsSound'
      BY <1>s, <2>0, <3>1 DEF RowsSound
    <3> QED BY <3>2, RowsJoin
  <2>u. request[r] \in Upload
    BY DEF TypeOK
  <2>2. [request[r] EXCEPT !.pc = "put", !.key = k] \in Upload
    BY <2>u DEF Upload
  <2>3. request' \in [Request -> Upload]
    BY <1>1, <2>2 DEF Reserve, TypeOK
  <2>4. \A q \in Request : request'[q].pc = "put" => request'[q].key \in Key
    BY <1>1 DEF Reserve, TypeOK, Upload
  <2> QED BY <1>1, <2>1, <2>3, <2>4 DEF Reserve, TypeOK
<1>2. ASSUME NEW r \in Request, Put(r) PROVE TypeInv'
  <2> DEFINE left == request[r].todo \ {request[r].key}
  <2>1. left \in SUBSET Key /\ request[r].key \in Key
    BY <1>2 DEF Put, TypeOK, Upload
  <2>2. [pc |-> "create", todo |-> Batch[r], key |-> NoKey] \in Upload
    BY DEF Upload
  <2>3. [pc |-> "reserve", todo |-> left, key |-> NoKey] \in Upload
    BY <2>1 DEF Upload
  <2> HIDE DEF left
  <2>4. request' \in [Request -> Upload]
    BY <1>2, <2>2, <2>3 DEF Put, TypeOK, left
  <2>5. \A q \in Request : request'[q].pc = "put" => request'[q].key \in Key
    BY <1>2 DEF Put, TypeOK, Upload
  <2>6. object' \subseteq Key
    BY <1>2, <2>1 DEF Put, TypeOK
  <2> QED BY <1>2, <2>4, <2>5, <2>6 DEF Put, TypeOK
<1>3. ASSUME NEW r \in Request, PutFails(r) \/ Crash(r) PROVE TypeInv'
  <2>1. request' = [request EXCEPT ![r].pc = "done"] /\ faults' \in 0 .. MaxFaults
    BY <1>3 DEF PutFails, Crash, Fault, TypeOK
  <2>2. flying' \subseteq Key
    BY <1>3 DEF PutFails, Crash, TypeOK
  <2>3. [request[r] EXCEPT !.pc = "done"] \in Upload
    BY DEF TypeOK, Upload
  <2>4. request' \in [Request -> Upload]
    BY <2>1, <2>3 DEF TypeOK
  <2>5. \A q \in Request : request'[q].pc = "put" => request'[q].key \in Key
    BY <2>1 DEF TypeOK, Upload
  <2> QED BY <1>3, <2>1, <2>2, <2>4, <2>5 DEF PutFails, Crash, TypeOK
<1>4. ASSUME NEW r \in Request, Create(r) PROVE TypeInv'
  <2>1. PICK pc \in {"done", "enqueue"} : request' = [request EXCEPT ![r].pc = pc]
    BY <1>4 DEF Create
  <2>2. [request[r] EXCEPT !.pc = pc] \in Upload
    BY DEF TypeOK, Upload
  <2>3. request' \in [Request -> Upload]
    BY <2>1, <2>2 DEF TypeOK
  <2>4. \A q \in Request : request'[q].pc = "put" => request'[q].key \in Key
    BY <2>1 DEF TypeOK, Upload
  <2>c. row' = [k \in Key |-> IF k \in Batch[r] THEN Absent ELSE row[k]]
    BY <1>4 DEF Create
  <2>5. row' \in [Key -> Row] /\ RowsOK'
    BY <1>s, <2>c, Rows, WriteRows, RowsJoin
  <2>6. novel' \in [Key -> {"none", "kept", "unconfirmed", "deleted"}]
    BY <1>4 DEF Create, TypeOK
  <2>7. faults' \in 0 .. MaxFaults
    BY <1>4 DEF Create, Fault, TypeOK
  <2> QED BY <1>4, <2>3, <2>4, <2>5, <2>6, <2>7 DEF Create, TypeOK
<1>5. ASSUME NEW r \in Request, CreateFails(r) PROVE TypeInv'
  <2>1. [request[r] EXCEPT !.pc = "enqueue"] \in Upload
    BY DEF TypeOK, Upload
  <2>2. request' \in [Request -> Upload]
    BY <1>5, <2>1 DEF CreateFails, TypeOK
  <2>3. \A q \in Request : request'[q].pc = "put" => request'[q].key \in Key
    BY <1>5 DEF CreateFails, TypeOK, Upload
  <2>4. faults' \in 0 .. MaxFaults
    BY <1>5 DEF CreateFails, Fault, TypeOK
  <2> QED BY <1>5, <2>2, <2>3, <2>4 DEF CreateFails, TypeOK
<1>6. ASSUME NEW r \in Request, NEW k \in Key, Enqueue(r, k) PROVE TypeInv'
  <2> DEFINE left == request[r].todo \ {k}
             new(pc) == [pc |-> pc, todo |-> left, key |-> NoKey]
  <2>0. left \in SUBSET Key
    BY DEF TypeOK, Upload
  <2>1. request' = [request EXCEPT ![r] = new(IF left = {} THEN "done" ELSE "enqueue")]
    BY <1>6 DEF Enqueue
  <2>2. \A pc \in {"done", "enqueue"} : new(pc) \in Upload
    BY <2>0 DEF Upload
  <2>3. request' \in [Request -> Upload]
    BY <2>1, <2>2 DEF TypeOK
  <2>4. \A q \in Request : request'[q].pc = "put" => request'[q].key \in Key
    BY <2>1 DEF TypeOK, Upload
  <2>5. row' \in [Key -> Row] /\ RowsOK'
    <3>1. CASE row' = [row EXCEPT ![k] = Queued]
      BY <1>s, <3>1, Rows, WriteRow, RowsJoin
    <3>2. CASE row' = row
      BY <3>2 DEF TypeOK
    <3> QED BY <1>6, <3>1, <3>2 DEF Enqueue, Queue
  <2>6. faults' \in 0 .. MaxFaults
    BY <1>6 DEF Enqueue, Fault, TypeOK
  <2> QED BY <1>6, <2>3, <2>4, <2>5, <2>6 DEF Enqueue, TypeOK
<1>7. ASSUME NEW k \in Key, Land(k) PROVE TypeInv'
  BY <1>7 DEF Land, TypeOK
<1>8. ASSUME NEW k \in Key, DeleteNovel(k) PROVE TypeInv'
  <2>1. [row[k] EXCEPT !.due = TRUE] \in SoundRow
    BY <1>s, Rows DEF RowsSound
  <2>d. PICK x \in SoundRow : row' = [row EXCEPT ![k] = x]
    BY <1>8, <2>1, Rows DEF DeleteNovel
  <2>2. row' \in [Key -> Row] /\ RowsOK'
    BY <1>s, <2>d, WriteRow, RowsJoin
  <2> QED BY <1>8, <2>2 DEF DeleteNovel, TypeOK
<1>9. ASSUME NEW k \in Key, Due(k) PROVE TypeInv'
  <2>1. [row[k] EXCEPT !.due = TRUE] \in SoundRow
    BY <1>s, Rows DEF RowsSound
  <2>d. row' = [row EXCEPT ![k] = [row[k] EXCEPT !.due = TRUE]]
    BY <1>9 DEF Due
  <2>2. row' \in [Key -> Row] /\ RowsOK'
    BY <1>s, <2>1, <2>d, WriteRow, RowsJoin
  <2> QED BY <1>9, <2>2 DEF Due, TypeOK
<1>10. ASSUME NEW w \in Worker, Take(w) PROVE TypeInv'
  <2> DEFINE due == {k \in Key : row[k].due}
  <2>1. [pc |-> "pass", todo |-> due, key |-> NoKey] \in Pass
    BY DEF Pass
  <2>2. worker' \in [Worker -> Pass]
    BY <1>10, <2>1 DEF Take, TypeOK
  <2>3. row' \in [Key -> Row] /\ RowsOK'
    <3>1. row' = [k \in Key |-> IF k \in due THEN [mark |-> "claimed", by |-> w, due |-> FALSE]
                                            ELSE row[k]]
      BY <1>10 DEF Take
    <3> HIDE DEF due
    <3> QED BY <1>s, <3>1, Rows, WriteRows, RowsJoin
  <2> QED BY <1>10, <2>2, <2>3 DEF Take, TypeOK
<1>11. ASSUME NEW w \in Worker, NEW k \in Key, Delete(w, k) \/ DeleteFails(w, k) PROVE TypeInv'
  <2>1. PICK pc \in {"complete", "retry"} :
          worker' = [worker EXCEPT ![w] = [@ EXCEPT !.pc = pc, !.key = k]]
    <3>1. worker \in [Worker -> Pass]
      BY DEF TypeOK
    <3>2. CASE Delete(w, k)
      BY <3>1, <3>2 DEF Delete, Pass
    <3>3. CASE DeleteFails(w, k)
      BY <3>1, <3>3 DEF DeleteFails, Pass
    <3> QED BY <1>11, <3>2, <3>3
  <2>u. worker[w] \in Pass
    BY DEF TypeOK
  <2>2. [worker[w] EXCEPT !.pc = pc, !.key = k] \in Pass
    BY <2>u DEF Pass
  <2>3. worker' \in [Worker -> Pass]
    BY <2>1, <2>2 DEF TypeOK
  <2> QED BY <1>11, <2>3 DEF Delete, DeleteFails, TypeOK
<1>12. ASSUME NEW w \in Worker, Complete(w) \/ Retry(w) PROVE TypeInv'
  <2> DEFINE left == worker[w].todo \ {worker[w].key}
  <2>1. NoPass \in Pass /\ [pc |-> "pass", todo |-> left, key |-> NoKey] \in Pass
    BY DEF NoPass, TypeOK, Pass
  <2>2. worker' \in [Worker -> Pass]
    BY <1>12, <2>1 DEF Complete, Retry, Onward, TypeOK
  <2>3. row' \in [Key -> Row] /\ RowsOK'
    <3>1. CASE row' = row
      BY <3>1 DEF TypeOK
    <3>2. CASE row' # row
      <4>1. PICK x \in SoundRow : row' = [row EXCEPT ![worker[w].key] = x]
        BY <1>12, <3>2, Rows DEF Complete, Retry
      <4> QED BY <1>s, <4>1, WriteRow, RowsJoin
    <3> QED BY <3>1, <3>2
  <2> QED BY <1>12, <2>2, <2>3 DEF Complete, Retry, TypeOK
<1>13. ASSUME NEW w \in Worker, Drop(w) PROVE TypeInv'
  <2>1. NoPass \in Pass
    BY DEF NoPass, Pass
  <2> QED BY <1>13, <2>1 DEF Drop, TypeOK
<1>14. ASSUME UNCHANGED vars PROVE TypeInv'
  BY <1>14 DEF vars, TypeOK
<1> QED BY <1>1, <1>2, <1>3, <1>4, <1>5, <1>6, <1>7, <1>8, <1>9, <1>10, <1>11, <1>12, <1>13, <1>14
        DEF Next

(* The tables, the bucket and the processes stay within their types, and a *)
(* token is on a claimed row and on no other, whatever fails or is lost.   *)
THEOREM TypeCorrect == Spec => []TypeOK
<1>1. TypeInv /\ [Next]_vars => TypeInv'
  BY TypeStep
<1>2. TypeInv => TypeOK
  BY DEF TypeInv
<1> QED BY <1>1, <1>2, TypeInit, PTL DEF Spec

--------------------------------------------------------------------------------
(* Why a novel keeps its object.  A key is known only to its request until *)
(* it is reserved; a worker that takes a row ends its reservation, so what *)
(* is reserved is in no worker's hands; and the transaction that stores a  *)
(* novel consumes a reservation, which leaves nobody who would delete it.  *)

(* No worker's pass still has the key before it. *)
Unheld(k) == \A w \in Worker : k \notin worker[w].todo

(* A worker deletes only what its pass took. *)
InHand == \A w \in Worker :
    worker[w].pc \in {"complete", "retry"} => worker[w].key \in worker[w].todo

(* A request works on the keys of its batch, and stores the one in hand. *)
OwnKeys == \A r \in Request :
    /\ request[r].todo \subseteq Batch[r]
    /\ request[r].pc = "put" => request[r].key \in request[r].todo

(* The keys it has still to reserve. *)
Ahead(r) == IF request[r].pc = "reserve" THEN request[r].todo
            ELSE IF request[r].pc = "put" THEN request[r].todo \ {request[r].key} ELSE {}

(* Nobody else has heard of a key that is not reserved yet. *)
Untouched == \A r \in Request : \A k \in Ahead(r) : row[k] = Absent /\ Unheld(k)

(* The keys whose put was acknowledged. *)
Stored(r) == IF request[r].pc \in {"reserve", "put"} THEN Batch[r] \ request[r].todo
             ELSE IF request[r].pc = "create" THEN Batch[r] ELSE {}

(* While a reservation stands, no worker deletes its object. *)
ReservationHolds ==
    /\ \A k \in Key : row[k].mark = "reserved" => Unheld(k)
    /\ \A r \in Request : \A k \in Stored(r) : row[k].mark = "reserved" => k \in object

(* A novel exists only after its request, and then nobody is about to      *)
(* delete its object.                                                      *)
NovelHolds ==
    /\ \A r \in Request : \A k \in Batch[r] :
          /\ request[r].pc # "done" => novel[k] # "kept"
          /\ request[r].pc \in {"reserve", "put", "create"} => novel[k] = "none"
    /\ \A k \in Key : novel[k] = "kept" => k \in object /\ row[k] = Absent /\ Unheld(k)

KeepInv == InHand /\ OwnKeys /\ Untouched /\ ReservationHolds /\ NovelHolds

(* Initially there is nothing. *)
LEMMA KeepInit == Init => KeepInv
BY RetentionConstants
   DEF Init, KeepInv, InHand, OwnKeys, Untouched, Ahead, Stored, ReservationHolds, NovelHolds,
       Unheld, Absent, NoPass

(* Every step of every actor keeps it. *)
LEMMA KeepStep == ASSUME TypeInv, TypeInv', KeepInv, [Next]_vars PROVE KeepInv'
<1> USE RetentionConstants
<1>0. Absent.mark = "absent" /\ Queued.mark = "queued"
  BY DEF Absent, Queued
<1>1. ASSUME NEW r \in Request, NEW k \in Key, Reserve(r, k) PROVE KeepInv'
  <2>1. row[k] = Absent /\ k \in request[r].todo /\ request[r].pc = "reserve"
    BY <1>1 DEF Reserve
  <2>2. row'[k].mark = "reserved" /\ \A x \in Key : x # k => row'[x] = row[x]
    BY <1>1 DEF Reserve, Reserved, TypeInv, TypeOK
  <2>3. \A q \in Request : q # r => request'[q] = request[q]
    BY <1>1 DEF Reserve
  <2>4. request'[r].pc = "put" /\ request'[r].todo = request[r].todo /\ request'[r].key = k
    BY <1>1 DEF Reserve, TypeInv, TypeOK
  <2>5. UNCHANGED <<object, novel, worker>>
    BY <1>1 DEF Reserve
  <2>6. InHand'
    BY <2>5 DEF KeepInv, InHand
  <2>7. OwnKeys'
    BY <2>1, <2>3, <2>4 DEF KeepInv, OwnKeys
  <2>8. Untouched'
    BY <2>1, <2>2, <2>3, <2>4, <2>5 DEF KeepInv, Untouched, Ahead, OwnKeys, Unheld
  <2>9. ReservationHolds'
    BY <2>1, <2>2, <2>3, <2>4, <2>5
       DEF KeepInv, ReservationHolds, Stored, Ahead, OwnKeys, Untouched, Unheld
  <2>10. NovelHolds'
    BY <2>1, <2>2, <2>3, <2>5 DEF KeepInv, NovelHolds, OwnKeys, Unheld
  <2> QED BY <2>6, <2>7, <2>8, <2>9, <2>10 DEF KeepInv
<1>2. ASSUME NEW r \in Request, Put(r) PROVE KeepInv'
  <2>1. request[r].pc = "put" /\ object' = object \cup {request[r].key}
    BY <1>2 DEF Put
  <2>2. \A q \in Request : q # r => request'[q] = request[q]
    BY <1>2 DEF Put
  <2>3. \/ request'[r].pc = "create"
        \/ request'[r].pc = "reserve" /\ request'[r].todo = request[r].todo \ {request[r].key}
    BY <1>2 DEF Put, TypeInv, TypeOK
  <2>4. request'[r].todo \subseteq Batch[r] /\ request'[r].pc # "put"
    BY <1>2 DEF Put, KeepInv, OwnKeys, TypeInv, TypeOK
  <2>5. request'[r].pc = "create" => request[r].todo \subseteq {request[r].key}
    BY <1>2 DEF Put
  <2>6. UNCHANGED <<row, novel, worker>>
    BY <1>2 DEF Put
  <2>7. InHand'
    BY <2>6 DEF KeepInv, InHand
  <2>8. OwnKeys'
    BY <2>2, <2>4 DEF KeepInv, OwnKeys
  <2>9. Untouched'
    BY <2>1, <2>2, <2>3, <2>6 DEF KeepInv, Untouched, Ahead, Unheld
  <2>10. ReservationHolds'
    BY <2>1, <2>2, <2>3, <2>5, <2>6 DEF KeepInv, ReservationHolds, Stored, Unheld
  <2>11. NovelHolds'
    BY <2>1, <2>2, <2>6 DEF KeepInv, NovelHolds, Unheld
  <2> QED BY <2>7, <2>8, <2>9, <2>10, <2>11 DEF KeepInv
<1>3. ASSUME NEW r \in Request, PutFails(r) \/ Crash(r) \/ CreateFails(r) PROVE KeepInv'
  <2>1. request[r].pc # "done"
    BY <1>3 DEF PutFails, Crash, CreateFails
  <2>2. \A q \in Request : q # r => request'[q] = request[q]
    BY <1>3 DEF PutFails, Crash, CreateFails, TypeInv, TypeOK
  <2>3. request'[r].pc \in {"done", "enqueue"} /\ request'[r].todo = request[r].todo
    BY <1>3 DEF PutFails, Crash, CreateFails, Upload, TypeInv, TypeOK
  <2>4. UNCHANGED <<row, object, novel, worker>>
    BY <1>3 DEF PutFails, Crash, CreateFails
  <2>5. InHand'
    BY <2>4 DEF KeepInv, InHand
  <2>6. OwnKeys'
    BY <2>2, <2>3 DEF KeepInv, OwnKeys
  <2>7. Untouched'
    BY <2>2, <2>3, <2>4 DEF KeepInv, Untouched, Ahead, Unheld
  <2>8. ReservationHolds'
    BY <2>2, <2>3, <2>4 DEF KeepInv, ReservationHolds, Stored, Unheld
  <2>9. NovelHolds'
    BY <2>1, <2>2, <2>3, <2>4 DEF KeepInv, NovelHolds, Unheld
  <2> QED BY <2>5, <2>6, <2>7, <2>8, <2>9 DEF KeepInv
<1>4. ASSUME NEW r \in Request, Create(r) PROVE KeepInv'
  <2>1. request[r].pc = "create" /\ \A k \in Batch[r] : row[k].mark = "reserved"
    BY <1>4 DEF Create, Consumable
  <2>2. \A k \in Key : row'[k] = IF k \in Batch[r] THEN Absent ELSE row[k]
    BY <1>4 DEF Create
  <2>3. /\ \A k \in Key \ Batch[r] : novel'[k] = novel[k]
        /\ \/ request'[r].pc = "done" /\ \A k \in Batch[r] : novel'[k] = "kept"
           \/ request'[r].pc = "enqueue" /\ \A k \in Batch[r] : novel'[k] = "unconfirmed"
    BY <1>4 DEF Create, Upload, TypeInv, TypeOK
  <2>4. \A q \in Request : q # r => request'[q] = request[q]
    BY <1>4 DEF Create, TypeInv, TypeOK
  <2>5. request'[r].pc \in {"done", "enqueue"} /\ request'[r].todo = request[r].todo
    BY <1>4 DEF Create, Upload, TypeInv, TypeOK
  <2>6. UNCHANGED <<object, worker>>
    BY <1>4 DEF Create
  <2>7. InHand'
    BY <2>6 DEF KeepInv, InHand
  <2>8. OwnKeys'
    BY <2>4, <2>5 DEF KeepInv, OwnKeys
  <2>9. Untouched'
    BY <2>2, <2>4, <2>5, <2>6 DEF KeepInv, Untouched, Ahead, OwnKeys, Unheld
  <2>10. ReservationHolds'
    BY <1>0, <2>2, <2>4, <2>6 DEF KeepInv, ReservationHolds, Stored, Unheld
  <2>11. NovelHolds'
    BY <2>1, <2>2, <2>3, <2>4, <2>5, <2>6 DEF KeepInv, NovelHolds, ReservationHolds, Stored, Unheld
  <2> QED BY <2>7, <2>8, <2>9, <2>10, <2>11 DEF KeepInv
<1>5. ASSUME NEW r \in Request, NEW k \in Key, Enqueue(r, k) PROVE KeepInv'
  <2>1. request[r].pc = "enqueue" /\ k \in request[r].todo
    BY <1>5 DEF Enqueue
  <2>2. (row'[k] = Queued \/ row'[k] = row[k]) /\ \A x \in Key : x # k => row'[x] = row[x]
    BY <1>5 DEF Enqueue, Queue, TypeInv, TypeOK
  <2>3. \A q \in Request : q # r => request'[q] = request[q]
    BY <1>5 DEF Enqueue
  <2>4. request'[r].pc \in {"done", "enqueue"} /\ request'[r].todo \subseteq request[r].todo
    BY <1>5 DEF Enqueue
  <2>5. UNCHANGED <<object, novel, worker>>
    BY <1>5 DEF Enqueue
  <2>6. InHand'
    BY <2>5 DEF KeepInv, InHand
  <2>7. OwnKeys'
    BY <2>3, <2>4 DEF KeepInv, OwnKeys
  <2>8. Untouched'
    BY <2>1, <2>2, <2>3, <2>4, <2>5 DEF KeepInv, Untouched, Ahead, OwnKeys, Unheld
  <2>9. ReservationHolds'
    BY <1>0, <2>2, <2>3, <2>4, <2>5 DEF KeepInv, ReservationHolds, Stored, Unheld
  <2>10. NovelHolds'
    BY <2>1, <2>2, <2>3, <2>4, <2>5 DEF KeepInv, NovelHolds, OwnKeys, Unheld
  <2> QED BY <2>6, <2>7, <2>8, <2>9, <2>10 DEF KeepInv
<1>6. ASSUME NEW k \in Key, Land(k) PROVE KeepInv'
  <2>1. object' = object \cup {k} /\ UNCHANGED <<row, novel, request, worker>>
    BY <1>6 DEF Land
  <2>2. InHand'
    BY <2>1 DEF KeepInv, InHand
  <2>3. OwnKeys'
    BY <2>1 DEF KeepInv, OwnKeys
  <2>4. Untouched'
    BY <2>1 DEF KeepInv, Untouched, Ahead, Unheld
  <2>5. ReservationHolds'
    BY <2>1 DEF KeepInv, ReservationHolds, Stored, Unheld
  <2>6. NovelHolds'
    BY <2>1 DEF KeepInv, NovelHolds, Unheld
  <2> QED BY <2>2, <2>3, <2>4, <2>5, <2>6 DEF KeepInv
<1>7. ASSUME NEW k \in Key, DeleteNovel(k) PROVE KeepInv'
  <2>1. novel[k] # "none" /\ (row'[k] = Queued \/ row'[k].mark = row[k].mark)
    BY <1>7 DEF DeleteNovel, Owned, Row, TypeInv, TypeOK
  <2>2. \A x \in Key : x # k => row'[x] = row[x]
    BY <1>7 DEF DeleteNovel
  <2>3. novel'[k] = "deleted" /\ \A x \in Key : x # k => novel'[x] = novel[x]
    BY <1>7 DEF DeleteNovel, TypeInv, TypeOK
  <2>4. UNCHANGED <<object, request, worker>>
    BY <1>7 DEF DeleteNovel
  <2>5. InHand'
    BY <2>4 DEF KeepInv, InHand
  <2>6. OwnKeys'
    BY <2>4 DEF KeepInv, OwnKeys
  <2>7. Untouched'
    BY <2>1, <2>2, <2>4 DEF KeepInv, Untouched, Ahead, OwnKeys, Unheld, NovelHolds
  <2>8. ReservationHolds'
    BY <1>0, <2>1, <2>2, <2>4 DEF KeepInv, ReservationHolds, Stored, Unheld
  <2>9. NovelHolds'
    BY <2>1, <2>2, <2>3, <2>4 DEF KeepInv, NovelHolds, Unheld
  <2> QED BY <2>5, <2>6, <2>7, <2>8, <2>9 DEF KeepInv
<1>8. ASSUME NEW k \in Key, Due(k) PROVE KeepInv'
  <2>1. row[k] # Absent /\ row'[k].mark = row[k].mark
    BY <1>8 DEF Due
  <2>2. \A x \in Key : x # k => row'[x] = row[x]
    BY <1>8 DEF Due
  <2>3. UNCHANGED <<object, novel, request, worker>>
    BY <1>8 DEF Due
  <2>4. InHand'
    BY <2>3 DEF KeepInv, InHand
  <2>5. OwnKeys'
    BY <2>3 DEF KeepInv, OwnKeys
  <2>6. Untouched'
    BY <2>1, <2>2, <2>3 DEF KeepInv, Untouched, Ahead, OwnKeys, Unheld
  <2>7. ReservationHolds'
    BY <2>1, <2>2, <2>3 DEF KeepInv, ReservationHolds, Stored, Unheld
  <2>8. NovelHolds'
    BY <2>1, <2>2, <2>3 DEF KeepInv, NovelHolds, Unheld
  <2> QED BY <2>4, <2>5, <2>6, <2>7, <2>8 DEF KeepInv
<1>9. ASSUME NEW w \in Worker, Take(w) PROVE KeepInv'
  <2>1. \A k \in Key : row[k].due => row[k] # Absent
    BY DEF Absent
  <2>2. \A k \in Key : IF row[k].due THEN row'[k].mark = "claimed" ELSE row'[k] = row[k]
    BY <1>9 DEF Take
  <2>3. \A v \in Worker : v # w => worker'[v] = worker[v]
    BY <1>9 DEF Take
  <2>4. worker'[w].pc = "pass" /\ worker'[w].todo = {k \in Key : row[k].due}
    BY <1>9 DEF Take, TypeInv, TypeOK
  <2>5. UNCHANGED <<object, novel, request>>
    BY <1>9 DEF Take
  <2>6. InHand'
    BY <2>3, <2>4 DEF KeepInv, InHand
  <2>7. OwnKeys'
    BY <2>5 DEF KeepInv, OwnKeys
  <2>8. Untouched'
    BY <2>1, <2>2, <2>3, <2>4, <2>5 DEF KeepInv, Untouched, Ahead, OwnKeys, Unheld
  <2>9. ReservationHolds'
    BY <2>2, <2>3, <2>4, <2>5 DEF KeepInv, ReservationHolds, Stored, Unheld
  <2>10. NovelHolds'
    BY <2>1, <2>2, <2>3, <2>4, <2>5 DEF KeepInv, NovelHolds, Unheld
  <2> QED BY <2>6, <2>7, <2>8, <2>9, <2>10 DEF KeepInv
<1>10. ASSUME NEW w \in Worker, NEW k \in Key, Delete(w, k) \/ DeleteFails(w, k) PROVE KeepInv'
  <2>1. k \in worker[w].todo /\ object \ {k} \subseteq object' /\ object' \subseteq object
    BY <1>10 DEF Delete, DeleteFails
  <2>2. \A v \in Worker : v # w => worker'[v] = worker[v]
    BY <1>10 DEF Delete, DeleteFails, TypeInv, TypeOK
  <2>3. worker'[w].todo = worker[w].todo /\ worker'[w].key = k
    BY <1>10 DEF Delete, DeleteFails, Pass, TypeInv, TypeOK
  <2>4. UNCHANGED <<row, novel, request>>
    BY <1>10 DEF Delete, DeleteFails
  <2>5. InHand'
    BY <2>1, <2>2, <2>3 DEF KeepInv, InHand
  <2>6. OwnKeys'
    BY <2>4 DEF KeepInv, OwnKeys
  <2>7. Untouched'
    BY <2>2, <2>3, <2>4 DEF KeepInv, Untouched, Ahead, Unheld
  <2>8. ReservationHolds'
    BY <2>1, <2>2, <2>3, <2>4 DEF KeepInv, ReservationHolds, Stored, Unheld
  <2>9. NovelHolds'
    BY <2>1, <2>2, <2>3, <2>4 DEF KeepInv, NovelHolds, Unheld
  <2> QED BY <2>5, <2>6, <2>7, <2>8, <2>9 DEF KeepInv
<1>11. ASSUME NEW w \in Worker, Complete(w) \/ Retry(w) \/ Drop(w) PROVE KeepInv'
  <2> DEFINE Given == {Absent, [Queued EXCEPT !.due = FALSE]}
  <2>1. \/ row' = row
        \/ /\ Mine(w, worker[w].key)
           /\ \E y \in Given : row' = [row EXCEPT ![worker[w].key] = y]
    BY <1>11 DEF Complete, Retry, Drop
  <2>2. \A y \in Given : y.mark \in {"absent", "queued"}
    BY DEF Absent, Queued
  <2>3. \A k \in Key : \/ row'[k] = row[k]
                       \/ row[k].mark = "claimed" /\ row'[k].mark \in {"absent", "queued"}
    BY <2>1, <2>2 DEF Mine, TypeInv, TypeOK
  <2>4. \A v \in Worker : v # w => worker'[v] = worker[v]
    BY <1>11 DEF Complete, Retry, Drop, Onward, TypeInv, TypeOK
  <2>5. worker'[w].pc \in {"idle", "pass"} /\ worker'[w].todo \subseteq worker[w].todo
    BY <1>11 DEF Complete, Retry, Drop, Onward, NoPass, TypeInv, TypeOK
  <2>6. UNCHANGED <<object, novel, request>>
    BY <1>11 DEF Complete, Retry, Drop
  <2>7. InHand'
    BY <2>4, <2>5 DEF KeepInv, InHand
  <2>8. OwnKeys'
    BY <2>6 DEF KeepInv, OwnKeys
  <2>9. Untouched'
    BY <1>0, <2>3, <2>4, <2>5, <2>6 DEF KeepInv, Untouched, Ahead, OwnKeys, Unheld
  <2>10. ReservationHolds'
    BY <2>3, <2>4, <2>5, <2>6 DEF KeepInv, ReservationHolds, Stored, Unheld
  <2>11. NovelHolds'
    BY <1>0, <2>3, <2>4, <2>5, <2>6 DEF KeepInv, NovelHolds, Unheld
  <2> QED BY <2>7, <2>8, <2>9, <2>10, <2>11 DEF KeepInv
<1>12. ASSUME UNCHANGED vars PROVE KeepInv'
  BY <1>12 DEF vars, KeepInv, InHand, OwnKeys, Untouched, Ahead, Stored, ReservationHolds,
       NovelHolds, Unheld
<1> QED BY <1>1, <1>2, <1>3, <1>4, <1>5, <1>6, <1>7, <1>8, <1>9, <1>10, <1>11, <1>12
        DEF Next

(* "stored ... for the lifetime of the shared canonical novel": no         *)
(* interleaving of uploads, their reservations and the cleanup deletes the *)
(* object of a novel that exists; only an acceptance that committed        *)
(* without its acknowledgement reaching the upload can cost a source.      *)
THEOREM SourcesAreKept == Spec => []KeptHasItsSource
<1>1. TypeInv /\ KeepInv /\ [Next]_vars => TypeInv' /\ KeepInv'
  BY TypeStep, KeepStep
<1>2. KeepInv => KeptHasItsSource
  BY DEF KeepInv, NovelHolds, KeptHasItsSource
<1> QED BY <1>1, <1>2, TypeInit, KeepInit, PTL DEF Spec

--------------------------------------------------------------------------------
(* Why nothing is orphaned.  While a request uploads, the reservation of   *)
(* each of its keys stands or has come due under it; a put left behind has *)
(* cost a fault; and a worker that is about to remove a row has deleted    *)
(* the object, which came back only if the upload outlived the claim.      *)

(* The keys a request has reserved and not yet handed over. *)
Begun(r) == IF request[r].pc \in {"reserve", "put", "create"} THEN Batch[r] \ Ahead(r) ELSE {}

(* The keys of a refused batch that it has still to queue. *)
Left(r) == IF request[r].pc = "enqueue" THEN request[r].todo ELSE {}

(* The reservation stands as it was written, or came due under the upload. *)
Stands(k) == row[k] = Reserved \/ k \in late

(* A key whose row is gone came due under its upload, and its request has  *)
(* yet to deal with it or something has failed.                            *)
Excused(r, k) == k \in late /\ (faults > 0 \/ k \in Begun(r) \cup Left(r))

(* What a request has not reserved does not exist. *)
AheadIsNew == \A r \in Request : \A k \in Ahead(r) : k \notin object /\ k \notin flying

(* What it has reserved is watched over. *)
BegunStands == \A r \in Request : \A k \in Begun(r) : Stands(k)

(* A put left behind is that of a failed request, which stored no novel. *)
FlyingStands == \A r \in Request : \A k \in Batch[r] \cap flying :
    request[r].pc = "done" /\ faults > 0 /\ novel[k] = "none" /\ Stands(k)

(* An object the request is done with has an owner or a row. *)
StoredIsOwned == \A r \in Request : \A k \in Batch[r] \cap object :
    request[r].pc \in {"enqueue", "done"} => Owned(k) \/ row[k] # Absent \/ Excused(r, k)

(* A worker that will remove a row has deleted its object for good. *)
CompletesDeleted == \A w \in Worker, r \in Request : \A k \in Batch[r] \cap object :
    worker[w].pc = "complete" /\ worker[w].key = k /\ Mine(w, k) => Excused(r, k)

(* Every object is of some request. *)
Uploaded == \A k \in object \cup flying : \E r \in Request : k \in Batch[r]

(* The batch is created, or refused, as a whole. *)
WholeBatch == \A r \in Request : request[r].pc = "create" => request[r].todo = Batch[r]

OrphanInv ==
    /\ AheadIsNew /\ BegunStands /\ FlyingStands
    /\ StoredIsOwned /\ CompletesDeleted /\ Uploaded /\ WholeBatch

(* A key has one request. *)
LEMMA OneRequest ==
  ASSUME NEW r \in Request, NEW k \in Batch[r]
  PROVE  k \in Key /\ RequestOf(k) = r /\ \A q \in Request : k \in Batch[q] => q = r
BY RetentionConstants DEF RequestOf

(* Initially there is nothing. *)
LEMMA OrphanInit == Init => OrphanInv
BY RetentionConstants
   DEF Init, OrphanInv, AheadIsNew, BegunStands, FlyingStands, StoredIsOwned, CompletesDeleted,
       Uploaded, WholeBatch, Ahead, Begun, NoPass

(* What a request's step leaves of the other requests. *)
LEMMA OthersKept ==
  ASSUME NEW r \in Request, NEW q \in Request, request'[q] = request[q]
  PROVE  Ahead(q)' = Ahead(q) /\ Begun(q)' = Begun(q) /\ Left(q)' = Left(q)
BY DEF Ahead, Begun, Left

(* The upload's steps. *)
LEMMA OrphanUpload ==
  ASSUME TypeInv, KeepInv, OrphanInv, NEW r \in Request,
         Put(r) \/ PutFails(r) \/ Create(r) \/ CreateFails(r) \/ Crash(r)
  PROVE  OrphanInv'
<1> USE RetentionConstants
<1>k. request[r].todo \subseteq Batch[r] /\ Batch[r] \subseteq Key
  BY DEF KeepInv, OwnKeys
<1>d. \A q \in Request : q # r => \A k \in Batch[q] : k \notin Batch[r]
  OBVIOUS
<1>a. \A q \in Request : Ahead(q) \subseteq Batch[q] /\ Begun(q) \subseteq Batch[q] /\ Left(q) \subseteq Batch[q]
  BY DEF KeepInv, OwnKeys, Ahead, Begun, Left
<1>n. Absent # Reserved /\ Absent.mark = "absent" /\ Reserved.mark = "reserved"
  BY DEF Absent, Reserved
<1>f. faults \in Nat
  BY DEF TypeInv, TypeOK
<1>1. CASE Put(r)
  <2>1. request[r].pc = "put" /\ request[r].key \in request[r].todo /\ object' = object \cup {request[r].key}
    BY <1>1 DEF Put, KeepInv, OwnKeys
  <2>2. UNCHANGED <<flying, row, novel, worker, late, faults>>
    BY <1>1 DEF Put
  <2>3. \A q \in Request : q # r => request'[q] = request[q]
    BY <1>1 DEF Put
  <2>4. /\ request'[r].pc \in {"reserve", "create"}
        /\ request'[r].pc = "reserve" => request'[r].todo = request[r].todo \ {request[r].key}
        /\ request'[r].pc = "create" => request[r].todo \subseteq {request[r].key}
    BY <1>1 DEF Put, TypeInv, TypeOK
  <2>5. Ahead(r)' = Ahead(r) /\ Begun(r)' = Begun(r) /\ Left(r)' = Left(r)
    <3>1. Ahead(r)' = Ahead(r)
      BY <2>1, <2>4 DEF Ahead
    <3>2. Left(r)' = Left(r)
      BY <2>1, <2>4 DEF Left
    <3> QED BY <2>1, <2>4, <3>1, <3>2 DEF Begun
  <2>6. \A q \in Request : Ahead(q)' = Ahead(q) /\ Begun(q)' = Begun(q) /\ Left(q)' = Left(q)
    BY <2>3, <2>5, OthersKept
  <2>7. request[r].key \in Begun(r) /\ request[r].key \notin Ahead(r)
    BY <1>k, <2>1 DEF Begun, Ahead
  <2>8. AheadIsNew'
    BY <1>a, <1>d, <1>k, <2>1, <2>2, <2>6, <2>7 DEF OrphanInv, AheadIsNew
  <2>9. BegunStands'
    BY <2>2, <2>6 DEF OrphanInv, BegunStands, Stands
  <2>10. FlyingStands'
    BY <2>1, <2>2, <2>3 DEF OrphanInv, FlyingStands, Stands
  <2>11. StoredIsOwned'
    BY <1>d, <1>k, <2>1, <2>2, <2>3, <2>4, <2>6 DEF OrphanInv, StoredIsOwned, Owned, Excused
  <2>12. CompletesDeleted'
    <3> SUFFICES ASSUME NEW w \in Worker, NEW q \in Request, NEW k \in Batch[q], k \in object',
                        worker[w].pc = "complete", worker[w].key = k, Mine(w, k)
                 PROVE  Excused(q, k)
      BY <2>2, <2>6 DEF CompletesDeleted, Mine, Excused
    <3>1. CASE k = request[r].key
      <4>1. row[k] # Reserved /\ q = r
        BY <1>d, <1>k, <1>n, <2>1, <3>1 DEF Mine, Reserved
      <4> QED BY <2>7, <3>1, <4>1 DEF OrphanInv, BegunStands, Stands, Excused
    <3>2. CASE k # request[r].key
      BY <2>1, <3>2 DEF OrphanInv, CompletesDeleted
    <3> QED BY <3>1, <3>2
  <2>13. Uploaded'
    BY <1>k, <2>1, <2>2 DEF OrphanInv, Uploaded
  <2>14. WholeBatch'
    BY <1>1, <2>3 DEF Put, OrphanInv, WholeBatch, TypeInv, TypeOK
  <2> QED BY <2>8, <2>9, <2>10, <2>11, <2>12, <2>13, <2>14 DEF OrphanInv
<1>2. CASE PutFails(r) \/ Crash(r)
  <2>1. request'[r].pc = "done" /\ request[r].pc # "done"
    BY <1>2 DEF PutFails, Crash, TypeInv, TypeOK, Upload
  <2>2. \A q \in Request : q # r => request'[q] = request[q]
    BY <1>2 DEF PutFails, Crash, TypeInv, TypeOK
  <2>3. UNCHANGED <<object, row, novel, worker, late>> /\ faults' > 0
    BY <1>2, <1>f DEF PutFails, Crash, Fault
  <2>4. \/ flying' = flying
        \/ request[r].pc = "put" /\ flying' = flying \cup {request[r].key}
    BY <1>2 DEF PutFails, Crash
  <2>5. Ahead(r)' = {} /\ Begun(r)' = {} /\ Left(r)' = {}
    BY <2>1 DEF Ahead, Begun, Left
  <2>6. \A q \in Request : q # r => Ahead(q)' = Ahead(q) /\ Begun(q)' = Begun(q) /\ Left(q)' = Left(q)
    BY <2>2, OthersKept
  <2>7. request[r].pc = "put" => /\ request[r].key \in Begun(r) /\ request[r].key \in Batch[r]
                                 /\ novel[request[r].key] = "none"
    BY <1>k DEF Begun, Ahead, KeepInv, OwnKeys, NovelHolds
  <2>8. AheadIsNew'
    BY <1>a, <1>d, <2>3, <2>4, <2>5, <2>6, <2>7 DEF OrphanInv, AheadIsNew
  <2>9. BegunStands'
    BY <2>3, <2>5, <2>6 DEF OrphanInv, BegunStands, Stands
  <2>10. FlyingStands'
    <3> SUFFICES ASSUME NEW q \in Request, NEW k \in Batch[q], k \in flying'
                 PROVE  request'[q].pc = "done" /\ novel[k] = "none" /\ Stands(k)
      BY <2>3 DEF FlyingStands, Stands
    <3>1. CASE k \in flying
      BY <2>1, <2>2, <3>1 DEF OrphanInv, FlyingStands
    <3>2. CASE k \notin flying
      <4>1. request[r].pc = "put" /\ k = request[r].key /\ q = r
        BY <1>d, <2>4, <2>7, <3>2
      <4> QED BY <2>1, <2>7, <4>1 DEF OrphanInv, BegunStands
    <3> QED BY <3>1, <3>2
  <2>11. StoredIsOwned'
    <3> SUFFICES ASSUME NEW q \in Request, NEW k \in Batch[q], k \in object,
                        request'[q].pc \in {"enqueue", "done"}
                 PROVE  Owned(k) \/ row[k] # Absent \/ k \in late
      BY <2>3 DEF StoredIsOwned, Excused, Owned
    <3>1. CASE request[q].pc \in {"enqueue", "done"}
      BY <3>1 DEF OrphanInv, StoredIsOwned, Excused
    <3>2. CASE request[q].pc \notin {"enqueue", "done"}
      <4>1. q = r
        BY <2>2, <3>2
      <4>2. request[q].pc \in {"reserve", "put", "create"}
        BY <3>2 DEF TypeInv, TypeOK, Upload
      <4>3. k \in Begun(q)
        BY <4>2 DEF OrphanInv, AheadIsNew, Begun
      <4> QED BY <1>n, <4>3 DEF OrphanInv, BegunStands, Stands
    <3> QED BY <3>1, <3>2
  <2>12. CompletesDeleted'
    BY <2>3 DEF OrphanInv, CompletesDeleted, Excused, Mine
  <2>13. Uploaded'
    BY <2>3, <2>4, <2>7 DEF OrphanInv, Uploaded
  <2>14. WholeBatch'
    BY <2>1, <2>2 DEF OrphanInv, WholeBatch
  <2> QED BY <2>8, <2>9, <2>10, <2>11, <2>12, <2>13, <2>14 DEF OrphanInv
<1>3. CASE Create(r)
  <2>1. request[r].pc = "create" /\ \A k \in Batch[r] : row[k].mark = "reserved"
    BY <1>3 DEF Create, Consumable
  <2>2. \A k \in Key : row'[k] = IF k \in Batch[r] THEN Absent ELSE row[k]
    BY <1>3 DEF Create
  <2>3. \A k \in Key : IF k \in Batch[r] THEN Owned(k)' ELSE novel'[k] = novel[k]
    BY <1>3 DEF Create, Owned
  <2>4. \A q \in Request : q # r => request'[q] = request[q]
    BY <1>3 DEF Create, TypeInv, TypeOK
  <2>5. request'[r].pc \in {"done", "enqueue"}
    BY <1>3 DEF Create, TypeInv, TypeOK, Upload
  <2>6. UNCHANGED <<object, flying, worker, late>> /\ faults' \in Nat /\ faults' >= faults
    BY <1>3, <1>f DEF Create, Fault
  <2>7. Ahead(r)' = {} /\ Begun(r)' = {}
    BY <2>5 DEF Ahead, Begun
  <2>8. \A q \in Request : q # r => Ahead(q)' = Ahead(q) /\ Begun(q)' = Begun(q) /\ Left(q)' = Left(q)
    BY <2>4, OthersKept
  <2>9. AheadIsNew'
    BY <2>6, <2>7, <2>8 DEF OrphanInv, AheadIsNew
  <2>10. BegunStands'
    BY <1>a, <1>d, <2>2, <2>6, <2>7, <2>8 DEF OrphanInv, BegunStands, Stands
  <2>11. FlyingStands'
    BY <1>d, <1>f, <2>1, <2>2, <2>3, <2>4, <2>6 DEF OrphanInv, FlyingStands, Stands
  <2>12. StoredIsOwned'
    <3> SUFFICES ASSUME NEW q \in Request, NEW k \in Batch[q], k \in object,
                        request'[q].pc \in {"enqueue", "done"}
                 PROVE  (Owned(k) \/ row[k] # Absent \/ Excused(q, k))'
      BY <2>6 DEF StoredIsOwned
    <3>1. CASE q = r
      BY <1>k, <2>3, <3>1
    <3>2. CASE q # r
      <4>1. Owned(k) \/ row[k] # Absent \/ Excused(q, k)
        BY <2>4, <3>2 DEF OrphanInv, StoredIsOwned
      <4>2. row'[k] = row[k] /\ novel'[k] = novel[k]
        BY <1>d, <2>2, <2>3, <3>2
      <4> QED BY <1>f, <2>6, <2>8, <3>2, <4>1, <4>2 DEF Owned, Excused
    <3> QED BY <3>1, <3>2
  <2>13. CompletesDeleted'
    <3> SUFFICES ASSUME NEW w \in Worker, NEW q \in Request, NEW k \in Batch[q], k \in object,
                        worker[w].pc = "complete", worker[w].key = k, Mine(w, k)'
                 PROVE  Excused(q, k)'
      BY <2>6 DEF CompletesDeleted
    <3>1. k \notin Batch[r] /\ q # r
      BY <1>k, <1>n, <2>2 DEF Mine
    <3>2. Mine(w, k)
      BY <2>2, <3>1 DEF Mine
    <3>3. Excused(q, k)
      BY <3>2 DEF OrphanInv, CompletesDeleted
    <3> QED BY <1>f, <2>6, <2>8, <3>1, <3>3 DEF Excused
  <2>14. Uploaded'
    BY <2>6 DEF OrphanInv, Uploaded
  <2>15. WholeBatch'
    BY <2>4, <2>5 DEF OrphanInv, WholeBatch
  <2> QED BY <2>9, <2>10, <2>11, <2>12, <2>13, <2>14, <2>15 DEF OrphanInv
<1>4. CASE CreateFails(r)
  <2>1. request[r].pc = "create" /\ request'[r].pc = "enqueue" /\ request'[r].todo = request[r].todo
    BY <1>4 DEF CreateFails, TypeInv, TypeOK, Upload
  <2>2. \A q \in Request : q # r => request'[q] = request[q]
    BY <1>4 DEF CreateFails
  <2>3. UNCHANGED <<object, flying, row, novel, worker, late>> /\ faults' \in Nat /\ faults' >= faults
    BY <1>4, <1>f DEF CreateFails, Fault
  <2>4. request[r].todo = Batch[r]
    BY <2>1 DEF OrphanInv, WholeBatch
  <2>5. Ahead(r)' = {} /\ Begun(r)' = {} /\ Left(r)' = Begun(r) /\ Left(r) = {}
    BY <2>1, <2>4 DEF Ahead, Begun, Left
  <2>6. \A q \in Request : q # r => Ahead(q)' = Ahead(q) /\ Begun(q)' = Begun(q) /\ Left(q)' = Left(q)
    BY <2>2, OthersKept
  <2>7. \A q \in Request, k \in Key : Excused(q, k) => Excused(q, k)'
    BY <1>f, <2>3, <2>5, <2>6 DEF Excused
  <2>8. AheadIsNew'
    BY <2>3, <2>5, <2>6 DEF OrphanInv, AheadIsNew
  <2>9. BegunStands'
    BY <2>3, <2>5, <2>6 DEF OrphanInv, BegunStands, Stands
  <2>10. FlyingStands'
    BY <1>f, <2>1, <2>2, <2>3 DEF OrphanInv, FlyingStands, Stands
  <2>11. StoredIsOwned'
    <3> SUFFICES ASSUME NEW q \in Request, NEW k \in Batch[q], k \in object,
                        request'[q].pc \in {"enqueue", "done"}
                 PROVE  Owned(k) \/ row[k] # Absent \/ Excused(q, k)'
      BY <2>3 DEF StoredIsOwned, Owned
    <3>1. CASE q = r
      <4>1. k \in Left(q)' /\ k \in Begun(q)
        BY <2>1, <2>4, <3>1 DEF Begun, Left, Ahead
      <4> QED BY <1>n, <2>3, <4>1 DEF OrphanInv, BegunStands, Stands, Excused
    <3>2. CASE q # r
      BY <2>2, <2>7, <3>2 DEF OrphanInv, StoredIsOwned
    <3> QED BY <3>1, <3>2
  <2>12. CompletesDeleted'
    BY <2>3, <2>7 DEF OrphanInv, CompletesDeleted, Mine
  <2>13. Uploaded'
    BY <2>3 DEF OrphanInv, Uploaded
  <2>14. WholeBatch'
    BY <2>1, <2>2 DEF OrphanInv, WholeBatch
  <2> QED BY <2>8, <2>9, <2>10, <2>11, <2>12, <2>13, <2>14 DEF OrphanInv
<1> QED BY <1>1, <1>2, <1>3, <1>4

(* The queueing of a refused batch. *)
LEMMA OrphanQueue ==
  ASSUME TypeInv, KeepInv, OrphanInv, NEW r \in Request, NEW k \in Key, Enqueue(r, k)
  PROVE  OrphanInv'
<1> USE RetentionConstants
<1>k. request[r].todo \subseteq Batch[r] /\ \A q \in Request : k \in Batch[q] => q = r
  BY DEF KeepInv, OwnKeys, Enqueue
<1>f. faults \in Nat
  BY DEF TypeInv, TypeOK
<1>1. request[r].pc = "enqueue" /\ k \in request[r].todo
  BY DEF Enqueue
<1>2. row'[k] = Queued \/ (row' = row /\ faults' > 0)
  <2>1. CASE Queue(k)
    BY <2>1 DEF Queue, TypeInv, TypeOK
  <2>2. CASE Fault /\ UNCHANGED row
    BY <1>f, <2>2 DEF Fault
  <2> QED BY <2>1, <2>2 DEF Enqueue
<1>3. (\A x \in Key : x # k => row'[x] = row[x]) /\ faults' \in Nat /\ faults' >= faults
  BY <1>f DEF Enqueue, Queue, Fault, TypeInv, TypeOK
<1>4. \A q \in Request : q # r => request'[q] = request[q]
  BY DEF Enqueue
<1>5. /\ request'[r].pc \in {"done", "enqueue"} /\ request'[r].todo = request[r].todo \ {k}
      /\ request'[r].pc = "done" => request'[r].todo = {}
  BY DEF Enqueue, TypeInv, TypeOK
<1>6. UNCHANGED <<object, flying, novel, worker, late>>
  BY DEF Enqueue
<1>7. Ahead(r)' = {} /\ Begun(r)' = {} /\ Left(r)' = Left(r) \ {k} /\ Begun(r) = {}
  BY <1>1, <1>5 DEF Ahead, Begun, Left
<1>8. \A q \in Request : q # r => Ahead(q)' = Ahead(q) /\ Begun(q)' = Begun(q) /\ Left(q)' = Left(q)
  BY <1>4, OthersKept
<1>9. \A q \in Request, x \in Key : x # k /\ Excused(q, x) => Excused(q, x)'
  BY <1>f, <1>3, <1>6, <1>7, <1>8 DEF Excused
<1>10. row' = row /\ faults' > 0 => \A q \in Request, x \in Key : Excused(q, x) => Excused(q, x)'
  BY <1>6 DEF Excused
<1>11. Queued # Absent /\ Queued.mark = "queued"
  BY DEF Queued, Absent
<1>12. AheadIsNew'
  BY <1>6, <1>7, <1>8 DEF OrphanInv, AheadIsNew
<1>13. BegunStands'
  <2> SUFFICES ASSUME NEW q \in Request, NEW x \in Begun(q)' PROVE Stands(x)'
    BY DEF BegunStands
  <2>1. q # r /\ x \in Begun(q)
    BY <1>7, <1>8
  <2>2. x \in Batch[q] /\ x # k
    BY <1>1, <1>k, <2>1 DEF Begun
  <2> QED BY <1>3, <1>6, <2>1, <2>2 DEF OrphanInv, BegunStands, Stands
<1>14. FlyingStands'
  <2> SUFFICES ASSUME NEW q \in Request, NEW x \in Batch[q], x \in flying
               PROVE  (request[q].pc = "done" /\ faults > 0 /\ novel[x] = "none" /\ Stands(x))'
    BY <1>6 DEF FlyingStands
  <2>1. request[q].pc = "done" /\ faults > 0 /\ novel[x] = "none" /\ Stands(x)
    BY DEF OrphanInv, FlyingStands
  <2>2. q # r /\ x # k
    BY <1>1, <1>k, <2>1
  <2> QED BY <1>f, <1>3, <1>4, <1>6, <2>1, <2>2 DEF Stands
<1>15. StoredIsOwned'
  <2> SUFFICES ASSUME NEW q \in Request, NEW x \in Batch[q], x \in object,
                      request'[q].pc \in {"enqueue", "done"}
               PROVE  (Owned(x) \/ row[x] # Absent \/ Excused(q, x))'
    BY <1>6 DEF StoredIsOwned
  <2>1. Owned(x) \/ row[x] # Absent \/ Excused(q, x)
    BY <1>1, <1>4 DEF OrphanInv, StoredIsOwned
  <2>2. CASE x = k
    BY <1>2, <1>6, <1>10, <1>11, <2>1, <2>2 DEF Owned
  <2>3. CASE x # k
    BY <1>3, <1>6, <1>9, <2>1, <2>3 DEF Owned
  <2> QED BY <2>2, <2>3
<1>16. CompletesDeleted'
  <2> SUFFICES ASSUME NEW w \in Worker, NEW q \in Request, NEW x \in Batch[q], x \in object,
                      worker[w].pc = "complete", worker[w].key = x, Mine(w, x)'
               PROVE  Excused(q, x)'
    BY <1>6 DEF CompletesDeleted
  <2>1. row'[x] = row[x] /\ (x = k => row' = row /\ faults' > 0)
    BY <1>2, <1>3, <1>11 DEF Mine
  <2>2. Excused(q, x)
    BY <2>1 DEF OrphanInv, CompletesDeleted, Mine
  <2> QED BY <1>9, <1>10, <2>1, <2>2
<1>17. Uploaded'
  BY <1>6 DEF OrphanInv, Uploaded
<1>18. WholeBatch'
  BY <1>4, <1>5 DEF OrphanInv, WholeBatch
<1> QED BY <1>12, <1>13, <1>14, <1>15, <1>16, <1>17, <1>18 DEF OrphanInv

(* The reservation of a key. *)
LEMMA OrphanReserve ==
  ASSUME TypeInv, KeepInv, OrphanInv, NEW r \in Request, NEW k \in Key, Reserve(r, k)
  PROVE  OrphanInv'
<1> USE RetentionConstants
<1>k. k \in Batch[r] /\ \A q \in Request : k \in Batch[q] => q = r
  BY DEF KeepInv, OwnKeys, Reserve
<1>1. request[r].pc = "reserve" /\ k \in request[r].todo
  BY DEF Reserve
<1>2. row' = [row EXCEPT ![k] = Reserved] /\ row'[k] = Reserved /\ \A x \in Key : x # k => row'[x] = row[x]
  BY DEF Reserve, TypeInv, TypeOK
<1>3. \A q \in Request : q # r => request'[q] = request[q]
  BY DEF Reserve
<1>4. request'[r].pc = "put" /\ request'[r].todo = request[r].todo /\ request'[r].key = k
  BY DEF Reserve, TypeInv, TypeOK
<1>5. UNCHANGED <<object, flying, novel, worker, late, faults>>
  BY DEF Reserve
<1>6. Ahead(r)' = Ahead(r) \ {k} /\ k \in Ahead(r) /\ Left(r)' = {} /\ Left(r) = {}
  BY <1>1, <1>4 DEF Ahead, Left
<1>7. Begun(r)' = Begun(r) \cup {k}
  BY <1>k, <1>1, <1>4, <1>6 DEF Begun
<1>8. \A q \in Request : q # r => Ahead(q)' = Ahead(q) /\ Begun(q)' = Begun(q) /\ Left(q)' = Left(q)
  BY <1>3, OthersKept
<1>9. k \notin object /\ k \notin flying
  BY <1>6 DEF OrphanInv, AheadIsNew
<1>10. \A q \in Request, x \in Key : Excused(q, x) => Excused(q, x)'
  BY <1>5, <1>6, <1>7, <1>8 DEF Excused
<1>11. AheadIsNew'
  BY <1>5, <1>6, <1>8 DEF OrphanInv, AheadIsNew
<1>12. BegunStands'
  <2> SUFFICES ASSUME NEW q \in Request, NEW x \in Begun(q)' PROVE Stands(x)'
    BY DEF BegunStands
  <2>1. CASE x = k
    BY <1>2, <2>1 DEF Stands
  <2>2. CASE x # k
    <3>1. x \in Begun(q)
      BY <1>7, <1>8, <2>2
    <3>2. x \in Key
      BY <3>1 DEF Begun
    <3> QED BY <1>2, <1>5, <2>2, <3>1, <3>2 DEF OrphanInv, BegunStands, Stands
  <2> QED BY <2>1, <2>2
<1>13. FlyingStands'
  BY <1>1, <1>2, <1>3, <1>5, <1>9 DEF OrphanInv, FlyingStands, Stands
<1>14. StoredIsOwned'
  BY <1>2, <1>3, <1>4, <1>5, <1>9, <1>10 DEF OrphanInv, StoredIsOwned, Owned
<1>15. CompletesDeleted'
  BY <1>2, <1>5, <1>9, <1>10 DEF OrphanInv, CompletesDeleted, Mine
<1>16. Uploaded'
  BY <1>5 DEF OrphanInv, Uploaded
<1>17. WholeBatch'
  BY <1>3, <1>4 DEF OrphanInv, WholeBatch
<1> QED BY <1>11, <1>12, <1>13, <1>14, <1>15, <1>16, <1>17 DEF OrphanInv

(* The steps that leave the requests alone: the clock, the reader, the     *)
(* bucket and the cleanup.                                                 *)
Calm == UNCHANGED <<request, faults>> /\ flying' \subseteq flying /\ late \subseteq late'

LEMMA CalmKeeps ==
  ASSUME Calm
  PROVE  /\ \A r \in Request : Ahead(r)' = Ahead(r) /\ Begun(r)' = Begun(r) /\ Left(r)' = Left(r)
         /\ \A r \in Request, k \in Key : Excused(r, k) => Excused(r, k)'
         /\ WholeBatch => WholeBatch'
<1>1. \A r \in Request : Ahead(r)' = Ahead(r) /\ Begun(r)' = Begun(r) /\ Left(r)' = Left(r)
  BY DEF Calm, Ahead, Begun, Left
<1>2. \A r \in Request, k \in Key : Excused(r, k) => Excused(r, k)'
  BY <1>1 DEF Calm, Excused
<1>3. WholeBatch => WholeBatch'
  BY DEF Calm, WholeBatch
<1> QED BY <1>1, <1>2, <1>3

(* A key that is with its upload, or with a put left behind. *)
Watched(k) == \E r \in Request : k \in Begun(r) \/ k \in Batch[r] \cap flying

LEMMA WatchedIs ==
  ASSUME TypeInv, KeepInv, OrphanInv, NEW k \in Key, Watched(k)
  PROVE  Stands(k) /\ novel[k] = "none" /\ ~Settled(k)
<1> USE RetentionConstants
<1>1. PICK r \in Request : k \in Begun(r) \/ k \in Batch[r] \cap flying
  BY DEF Watched
<1>2. k \in Batch[r] /\ RequestOf(k) = r
  BY <1>1, OneRequest DEF Begun
<1>3. CASE k \in Begun(r)
  BY <1>2, <1>3 DEF Begun, OrphanInv, BegunStands, KeepInv, NovelHolds, Settled
<1>4. CASE k \in Batch[r] \cap flying
  BY <1>2, <1>4 DEF OrphanInv, FlyingStands, Settled
<1> QED BY <1>1, <1>3, <1>4

(* Such a step keeps the invariant when it leaves what is watched alone    *)
(* and brings nothing into the bucket but a put that was left behind; the  *)
(* rows and owners it takes are the matter of two conjuncts.               *)
LEMMA OrphanCalm ==
  ASSUME TypeInv, KeepInv, OrphanInv, Calm,
         \A k \in Key : Watched(k) => Stands(k)' /\ novel'[k] = novel[k],
         object' \subseteq object \cup flying,
         StoredIsOwned', CompletesDeleted'
  PROVE  OrphanInv'
<1> USE RetentionConstants
<1>1. AheadIsNew'
  BY CalmKeeps DEF Calm, OrphanInv, AheadIsNew
<1>2. BegunStands'
  <2> SUFFICES ASSUME NEW r \in Request, NEW k \in Begun(r) PROVE Stands(k)'
    BY CalmKeeps DEF BegunStands
  <2>1. k \in Key /\ Watched(k)
    BY DEF Begun, Watched
  <2> QED BY <2>1
<1>3. FlyingStands'
  <2> SUFFICES ASSUME NEW r \in Request, NEW k \in Batch[r], k \in flying
               PROVE  (request[r].pc = "done" /\ faults > 0 /\ novel[k] = "none" /\ Stands(k))'
    BY DEF Calm, FlyingStands
  <2>1. k \in Key /\ Watched(k)
    BY DEF Watched
  <2> QED BY <2>1 DEF Calm, OrphanInv, FlyingStands
<1>4. Uploaded'
  BY DEF Calm, OrphanInv, Uploaded
<1>5. WholeBatch'
  BY CalmKeeps DEF OrphanInv
<1> QED BY <1>1, <1>2, <1>3, <1>4, <1>5 DEF OrphanInv

(* The clock, the reader and the bucket. *)
LEMMA OrphanKey ==
  ASSUME TypeInv, KeepInv, OrphanInv, NEW x \in Key, Land(x) \/ DeleteNovel(x) \/ Due(x)
  PROVE  OrphanInv'
<1> USE RetentionConstants
<1>c. Calm
  BY DEF Calm, Land, DeleteNovel, Due
<1>e. \A r \in Request, k \in Key : Excused(r, k) => Excused(r, k)'
  BY <1>c, CalmKeeps
<1>n. Absent.mark = "absent" /\ Reserved.mark = "reserved" /\ Queued.mark = "queued"
  BY DEF Absent, Reserved, Queued
<1>1. CASE Land(x)
  <2>1. x \in flying /\ object' = object \cup {x} /\ UNCHANGED <<row, novel, request, worker, late, faults>>
    BY <1>1 DEF Land
  <2>2. \A r \in Request : x \in Batch[r] =>
           /\ row[x] = Reserved \/ Excused(r, x)
           /\ request[r].pc = "done"
    BY <2>1 DEF OrphanInv, FlyingStands, Stands, Excused
  <2>3. \A k \in Key : Watched(k) => Stands(k)' /\ novel'[k] = novel[k]
    BY <2>1, WatchedIs DEF Stands
  <2>4. StoredIsOwned'
    BY <1>e, <1>n, <2>1, <2>2 DEF OrphanInv, StoredIsOwned, Owned
  <2>5. CompletesDeleted'
    BY <1>e, <1>n, <2>1, <2>2 DEF OrphanInv, CompletesDeleted, Mine
  <2> QED BY <1>c, <2>1, <2>3, <2>4, <2>5, OrphanCalm
<1>2. CASE DeleteNovel(x)
  <2>1. /\ Owned(x) /\ UNCHANGED <<object, worker, request>>
        /\ \A k \in Key : k # x => row'[k] = row[k] /\ novel'[k] = novel[k]
    BY <1>2 DEF DeleteNovel
  <2>2. row'[x] = IF row[x] = Absent THEN Queued ELSE [row[x] EXCEPT !.due = TRUE]
    BY <1>2 DEF DeleteNovel, TypeInv, TypeOK
  <2>3. row'[x] # Absent /\ \A w \in Worker : Mine(w, x)' => Mine(w, x)
    <3>1. [row[x] EXCEPT !.due = TRUE] # Absent
      BY DEF Absent, TypeInv, TypeOK, Row
    <3>2. row[x] # Absent => row'[x].mark = row[x].mark /\ row'[x].by = row[x].by
      BY <2>2 DEF TypeInv, TypeOK, Row
    <3> QED BY <1>n, <2>2, <3>1, <3>2 DEF Mine
  <2>4. \A k \in Key : Watched(k) => Stands(k)' /\ novel'[k] = novel[k]
    <3> SUFFICES ASSUME NEW k \in Key, Watched(k) PROVE Stands(k)' /\ novel'[k] = novel[k]
      OBVIOUS
    <3>1. Stands(k) /\ novel[k] = "none"
      BY WatchedIs
    <3>2. k # x
      BY <2>1, <3>1 DEF Owned
    <3> QED BY <1>c, <2>1, <3>1, <3>2 DEF Stands, Calm
  <2>5. StoredIsOwned'
    <3> SUFFICES ASSUME NEW r \in Request, NEW k \in Batch[r], k \in object,
                        request[r].pc \in {"enqueue", "done"}
                 PROVE  (Owned(k) \/ row[k] # Absent \/ Excused(r, k))'
      BY <2>1 DEF StoredIsOwned
    <3> QED BY <1>e, <2>1, <2>3 DEF OrphanInv, StoredIsOwned, Owned
  <2>6. CompletesDeleted'
    BY <1>e, <2>1, <2>3 DEF OrphanInv, CompletesDeleted, Mine
  <2> QED BY <1>c, <2>1, <2>4, <2>5, <2>6, OrphanCalm
<1>3. CASE Due(x)
  <2>1. /\ row[x] # Absent /\ ~row[x].due /\ UNCHANGED <<object, worker, request, novel>>
        /\ \A k \in Key : k # x => row'[k] = row[k]
    BY <1>3 DEF Due
  <2>2. row'[x] = [row[x] EXCEPT !.due = TRUE]
    BY <1>3 DEF Due, TypeInv, TypeOK
  <2>3. row'[x] # Absent /\ \A w \in Worker : Mine(w, x)' => Mine(w, x)
    BY <2>2 DEF Absent, Mine, TypeInv, TypeOK, Row
  <2>4. \A k \in Key : Watched(k) => Stands(k)' /\ novel'[k] = novel[k]
    <3> SUFFICES ASSUME NEW k \in Key, Watched(k) PROVE Stands(k)'
      BY <2>1
    <3>1. Stands(k) /\ ~Settled(k)
      BY WatchedIs
    <3>2. CASE k # x
      BY <1>c, <2>1, <3>1, <3>2 DEF Stands, Calm
    <3>3. CASE k = x
      <4>1. row[x].mark = "reserved" => x \in late'
        BY <1>3, <3>1, <3>3 DEF Due
      <4> QED BY <1>c, <1>n, <3>1, <3>3, <4>1 DEF Stands, Calm
    <3> QED BY <3>2, <3>3
  <2>5. StoredIsOwned'
    BY <1>e, <2>1, <2>3 DEF OrphanInv, StoredIsOwned, Owned
  <2>6. CompletesDeleted'
    BY <1>e, <2>1, <2>3 DEF OrphanInv, CompletesDeleted, Mine
  <2> QED BY <1>c, <2>1, <2>4, <2>5, <2>6, OrphanCalm
<1> QED BY <1>1, <1>2, <1>3

(* The cleanup. *)
LEMMA OrphanCleanup ==
  ASSUME TypeInv, KeepInv, OrphanInv, NEW w \in Worker,
         \/ Take(w) \/ Complete(w) \/ Retry(w) \/ Drop(w)
         \/ \E k \in Key : Delete(w, k) \/ DeleteFails(w, k)
  PROVE  OrphanInv'
<1> USE RetentionConstants
<1>c. Calm
  BY DEF Calm, Take, Complete, Retry, Drop, Delete, DeleteFails
<1>e. \A r \in Request, k \in Key : Excused(r, k) => Excused(r, k)'
  BY <1>c, CalmKeeps
<1>n. /\ Absent.mark = "absent" /\ Reserved.mark = "reserved" /\ Queued.mark = "queued"
      /\ ~Absent.due /\ ~Reserved.due
  BY DEF Absent, Reserved, Queued
<1>u. UNCHANGED <<novel, request, late, faults>> /\ object' \subseteq object
  BY DEF Take, Complete, Retry, Drop, Delete, DeleteFails
<1>1. CASE Take(w)
  <2>1. \A k \in Key : row'[k] = IF row[k].due THEN [mark |-> "claimed", by |-> w, due |-> FALSE] ELSE row[k]
    BY <1>1 DEF Take
  <2>2. \A v \in Worker : v # w => worker'[v] = worker[v]
    BY <1>1 DEF Take
  <2>3. worker'[w].pc = "pass" /\ object' = object
    BY <1>1 DEF Take, TypeInv, TypeOK
  <2>4. \A k \in Key : Watched(k) => Stands(k)' /\ novel'[k] = novel[k]
    BY <1>n, <1>u, <2>1, WatchedIs DEF Stands
  <2>5. StoredIsOwned'
    BY <1>e, <1>n, <1>u, <2>1 DEF OrphanInv, StoredIsOwned, Owned
  <2>6. CompletesDeleted'
    <3> SUFFICES ASSUME NEW v \in Worker, NEW r \in Request, NEW k \in Batch[r], k \in object,
                        worker'[v].pc = "complete", worker'[v].key = k, Mine(v, k)'
                 PROVE  Excused(r, k)'
      BY <2>3 DEF CompletesDeleted
    <3>1. v # w /\ worker'[v] = worker[v]
      BY <2>2, <2>3
    <3>2. Mine(v, k)
      BY <2>1, <3>1 DEF Mine
    <3> QED BY <1>e, <3>1, <3>2 DEF OrphanInv, CompletesDeleted
  <2> QED BY <1>c, <1>u, <2>4, <2>5, <2>6, OrphanCalm
<1>2. CASE Complete(w) \/ Retry(w) \/ Drop(w)
  <2> DEFINE x == worker[w].key
  <2>1. /\ object' = object
        /\ \A v \in Worker : v # w => worker'[v] = worker[v]
        /\ worker'[w].pc # "complete"
    BY <1>2 DEF Complete, Retry, Drop, Onward, NoPass, TypeInv, TypeOK
  <2>2. \/ row' = row
        \/ Mine(w, x) /\ worker[w].pc = "complete" /\ row' = [row EXCEPT ![x] = Absent]
        \/ Mine(w, x) /\ row' = [row EXCEPT ![x] = [Queued EXCEPT !.due = FALSE]]
    BY <1>2 DEF Complete, Retry, Drop
  <2>3. \A k \in Key : \/ row'[k] = row[k]
                       \/ /\ Mine(w, k) /\ row'[k].mark # "claimed"
                          /\ row'[k] = Absent => worker[w].pc = "complete" /\ worker[w].key = k
    BY <2>2 DEF Mine, Queued, Absent, TypeInv, TypeOK
  <2>4. \A k \in Key : Watched(k) => Stands(k)' /\ novel'[k] = novel[k]
    BY <1>n, <1>u, <2>3, WatchedIs DEF Stands, Mine
  <2>5. StoredIsOwned'
    <3> SUFFICES ASSUME NEW r \in Request, NEW k \in Batch[r], k \in object,
                        request[r].pc \in {"enqueue", "done"}
                 PROVE  (Owned(k) \/ row[k] # Absent \/ Excused(r, k))'
      BY <1>u, <2>1 DEF StoredIsOwned
    <3>1. CASE row'[k] = row[k]
      BY <1>e, <1>u, <3>1 DEF OrphanInv, StoredIsOwned, Owned
    <3>2. CASE Mine(w, k) /\ worker[w].pc = "complete" /\ worker[w].key = k
      BY <1>e, <3>2 DEF OrphanInv, CompletesDeleted
    <3> QED BY <2>3, <3>1, <3>2
  <2>6. CompletesDeleted'
    <3> SUFFICES ASSUME NEW v \in Worker, NEW r \in Request, NEW k \in Batch[r], k \in object,
                        worker'[v].pc = "complete", worker'[v].key = k, Mine(v, k)'
                 PROVE  Excused(r, k)'
      BY <2>1 DEF CompletesDeleted
    <3>1. worker'[v] = worker[v] /\ Mine(v, k)
      BY <2>1, <2>3 DEF Mine
    <3> QED BY <1>e, <3>1 DEF OrphanInv, CompletesDeleted
  <2> QED BY <1>c, <1>u, <2>4, <2>5, <2>6, OrphanCalm
<1>3. CASE \E k \in Key : Delete(w, k) \/ DeleteFails(w, k)
  <2>1. PICK x \in Key : Delete(w, x) \/ DeleteFails(w, x)
    BY <1>3
  <2>2. /\ row' = row
        /\ \A v \in Worker : v # w => worker'[v] = worker[v]
        /\ worker'[w].pc = "complete" => x \notin object' /\ worker'[w].key = x
    BY <2>1 DEF Delete, DeleteFails, TypeInv, TypeOK, Pass
  <2>3. \A k \in Key : Watched(k) => Stands(k)' /\ novel'[k] = novel[k]
    BY <1>u, <2>2, WatchedIs DEF Stands
  <2>4. StoredIsOwned'
    BY <1>e, <1>u, <2>2 DEF OrphanInv, StoredIsOwned, Owned
  <2>5. CompletesDeleted'
    BY <1>e, <1>u, <2>2 DEF OrphanInv, CompletesDeleted, Mine
  <2> QED BY <1>c, <1>u, <2>3, <2>4, <2>5, OrphanCalm
<1> QED BY <1>1, <1>2, <1>3

(* Every step of every actor keeps it. *)
LEMMA OrphanStep == ASSUME TypeInv, KeepInv, OrphanInv, [Next]_vars PROVE OrphanInv'
<1>1. CASE UNCHANGED vars
  BY <1>1 DEF vars, OrphanInv, AheadIsNew, BegunStands, FlyingStands, StoredIsOwned,
       CompletesDeleted, Uploaded, WholeBatch, Ahead, Begun, Left, Stands, Excused, Owned, Mine
<1> QED BY <1>1, OrphanUpload, OrphanQueue, OrphanReserve, OrphanKey, OrphanCleanup DEF Next

(* A crash alone, or a slow upload alone, leaves nothing in the bucket     *)
(* that nobody answers for: every object, and every put that may still be  *)
(* applied, has a novel, a row that will have it deleted, or a request     *)
(* that has yet to hand it over, for any batches and any number of cleanup *)
(* workers.                                                                *)
THEOREM NothingOrphaned == Spec => []NothingIsOrphaned
<1>1. TypeInv /\ KeepInv /\ OrphanInv /\ [Next]_vars => TypeInv' /\ KeepInv' /\ OrphanInv'
  BY TypeStep, KeepStep, OrphanStep
<1>2. TypeInv /\ KeepInv /\ OrphanInv => NothingIsOrphaned
  <2> SUFFICES ASSUME TypeInv, KeepInv, OrphanInv, NEW k \in object \cup flying
               PROVE  Owned(k) \/ row[k] # Absent \/ InCharge(k) \/ DoublyFailed(k)
    BY DEF NothingIsOrphaned
  <2>1. PICK r \in Request : k \in Batch[r]
    BY DEF OrphanInv, Uploaded
  <2>2. RequestOf(k) = r
    BY <2>1, OneRequest
  <2>3. Reserved # Absent
    BY DEF Reserved, Absent
  <2>4. CASE k \in flying
    BY <2>1, <2>3, <2>4 DEF OrphanInv, FlyingStands, Stands, DoublyFailed
  <2>5. CASE k \in object /\ request[r].pc \in {"enqueue", "done"}
    <3>1. Owned(k) \/ row[k] # Absent \/ Excused(r, k)
      BY <2>1, <2>5 DEF OrphanInv, StoredIsOwned
    <3>2. k \notin Begun(r)
      BY <2>5 DEF Begun
    <3> QED BY <2>2, <3>1, <3>2 DEF Excused, Left, InCharge, DoublyFailed
  <2>6. CASE k \in object /\ request[r].pc \notin {"enqueue", "done"}
    <3>1. k \notin Ahead(r)
      BY <2>1, <2>6 DEF OrphanInv, AheadIsNew
    <3>2. request[r].pc \in {"reserve", "put", "create"}
      BY <2>1, <2>6 DEF TypeInv, TypeOK, Upload
    <3> QED BY <2>2, <3>1, <3>2 DEF Ahead, InCharge
  <2> QED BY <2>4, <2>5, <2>6
<1> QED BY <1>1, <1>2, TypeInit, KeepInit, OrphanInit, PTL DEF Spec

================================================================================
