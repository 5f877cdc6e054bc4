------------------------- MODULE StoreExchangeProofs -------------------------
(***************************************************************************)
(* Proofs about StoreExchange, for any number of items, any sizes and any  *)
(* limit.  Next is taken apart by action; each action has one lemma.       *)
(*                                                                         *)
(* Then about LinkedList, for any number of addresses: the loop with which  *)
(* a round removes from the store what it has uploaded.                     *)
(***************************************************************************)
EXTENDS StoreExchange, LinkedList, SequenceTheorems, TLAPS

\* Ids are given once in the life of a store.
IdsAreFresh ==
    /\ \A i \in listed : i <= lastItemId
    /\ \A i \in delivered : i <= lastItemId

\* Between calls, and for items no longer listed, there is no status to find.
StatusIsReverted ==
    /\ \A i \in Items : i \notin listed => status[i] = "ready"
    /\ pc = "idle" => \A i \in Items : status[i] = "ready"

\* What is marked as processed is what the body holds.
BodyIsProcessed ==
    /\ \A i \in Items : status[i] = "processed" <=> i \in body
    /\ pc = "select" => body = {}

\* The items too large are the ignored ones, by sizes that are still true.
IgnoredAreTooLarge ==
    pc # "idle" => \A i \in listed : /\ itemSize[i] = size[i]
                                     /\ status[i] = "ignored" <=> TooLarge(i)

\* The room in the loops.
RoomIsLeft ==
    /\ pc = "select" => Overhead + remaining <= MaxSize
    /\ pc \in {"fill", "sent"} => /\ buffer \in Overhead .. MaxSize
                                 /\ remaining <= buffer
    /\ pc = "sent" => remaining < buffer

\* Of the listed items, the service has taken in this call those of the body it
\* has answered, and no others.
NowIsAnswered ==
    /\ now \subseteq delivered
    /\ answer # "none" => pc = "sent"
    /\ pc # "idle" => listed \cap now = IF answer = "ok" THEN body ELSE {}

IInv ==
    /\ TypeOK
    /\ IdsAreFresh
    /\ StatusIsReverted
    /\ BodyIsProcessed
    /\ IgnoredAreTooLarge
    /\ RoomIsLeft
    /\ NowIsAnswered
    /\ NothingIsLost

-----------------------------------------------------------------------------
(* The invariant is inductive.                                             *)

LEMMA InitHolds == Init => IInv
BY SizeAssumption DEF Init, IInv, TypeOK, IdsAreFresh, StatusIsReverted,
   BodyIsProcessed, IgnoredAreTooLarge, RoomIsLeft, NowIsAnswered,
   NothingIsLost, Statuses, Results

LEMMA AddToStoreStep ==
    ASSUME IInv, NEW i \in Items, NEW s \in Sizes, NEW g \in Sizes, AddToStore(i, s, g)
    PROVE  IInv'
<1> USE SizeAssumption DEF AddToStore, store, history
<1>1. TypeOK'
  BY DEF IInv, TypeOK, Statuses, Results, RoomIsLeft
<1>2. IdsAreFresh'
  BY DEF IInv, TypeOK, IdsAreFresh, StatusIsReverted, BodyIsProcessed, Statuses
<1>3. StatusIsReverted'
  BY DEF IInv, TypeOK, StatusIsReverted, Statuses
<1>4. BodyIsProcessed'
  BY DEF IInv, TypeOK, BodyIsProcessed, StatusIsReverted, IdsAreFresh, Statuses
<1>5. IgnoredAreTooLarge'
  BY DEF IInv, TypeOK, IgnoredAreTooLarge, TooLarge, StatusIsReverted, RoomIsLeft, Statuses
<1>6. RoomIsLeft'
  BY DEF IInv, TypeOK, RoomIsLeft, Statuses
<1>7. NowIsAnswered'
  BY DEF IInv, TypeOK, NowIsAnswered, StatusIsReverted, BodyIsProcessed, Statuses
<1>8. NothingIsLost'
  BY DEF IInv, TypeOK, NothingIsLost, IdsAreFresh, BodyIsProcessed, NowIsAnswered, Statuses
<1>9. QED
  BY <1>1, <1>2, <1>3, <1>4, <1>5, <1>6, <1>7, <1>8 DEF IInv

LEMMA ChangeItemStep ==
    ASSUME IInv, NEW i \in Items, NEW s \in Sizes, ChangeItem(i, s)
    PROVE  IInv'
<1> USE SizeAssumption DEF ChangeItem, store, history
<1>1. TypeOK'
  BY DEF IInv, TypeOK, Statuses, Results, RoomIsLeft
<1>2. IdsAreFresh'
  BY DEF IInv, TypeOK, IdsAreFresh, StatusIsReverted, BodyIsProcessed, Statuses
<1>3. StatusIsReverted'
  BY DEF IInv, TypeOK, StatusIsReverted, Statuses
<1>4. BodyIsProcessed'
  BY DEF IInv, TypeOK, BodyIsProcessed, StatusIsReverted, IdsAreFresh, Statuses
<1>5. IgnoredAreTooLarge'
  BY DEF IInv, TypeOK, IgnoredAreTooLarge, TooLarge, StatusIsReverted, RoomIsLeft, Statuses
<1>6. RoomIsLeft'
  BY DEF IInv, TypeOK, RoomIsLeft, Statuses
<1>7. NowIsAnswered'
  BY DEF IInv, TypeOK, NowIsAnswered, StatusIsReverted, BodyIsProcessed, Statuses
<1>8. NothingIsLost'
  BY DEF IInv, TypeOK, NothingIsLost, IdsAreFresh, BodyIsProcessed, NowIsAnswered, Statuses
<1>9. QED
  BY <1>1, <1>2, <1>3, <1>4, <1>5, <1>6, <1>7, <1>8 DEF IInv

LEMMA DestroyStoreStep ==
    ASSUME IInv, DestroyStore
    PROVE  IInv'
<1> USE SizeAssumption DEF DestroyStore, store, history
<1>1. TypeOK'
  BY DEF IInv, TypeOK, Statuses, Results, RoomIsLeft
<1>2. IdsAreFresh'
  BY DEF IInv, TypeOK, IdsAreFresh, StatusIsReverted, BodyIsProcessed, Statuses
<1>3. StatusIsReverted'
  BY DEF IInv, TypeOK, StatusIsReverted, Statuses
<1>4. BodyIsProcessed'
  BY DEF IInv, TypeOK, BodyIsProcessed, StatusIsReverted, IdsAreFresh, Statuses
<1>5. IgnoredAreTooLarge'
  BY DEF IInv, TypeOK, IgnoredAreTooLarge, TooLarge, StatusIsReverted, RoomIsLeft, Statuses
<1>6. RoomIsLeft'
  BY DEF IInv, TypeOK, RoomIsLeft, Statuses
<1>7. NowIsAnswered'
  BY DEF IInv, TypeOK, NowIsAnswered, StatusIsReverted, BodyIsProcessed, Statuses
<1>8. NothingIsLost'
  BY DEF IInv, TypeOK, NothingIsLost, IdsAreFresh, BodyIsProcessed, NowIsAnswered, Statuses
<1>9. QED
  BY <1>1, <1>2, <1>3, <1>4, <1>5, <1>6, <1>7, <1>8 DEF IInv

LEMMA NoTokenStep ==
    ASSUME IInv, NoToken
    PROVE  IInv'
<1> USE SizeAssumption DEF NoToken, store, history
<1>1. TypeOK'
  BY DEF IInv, TypeOK, Statuses, Results, RoomIsLeft
<1>2. IdsAreFresh'
  BY DEF IInv, TypeOK, IdsAreFresh, StatusIsReverted, BodyIsProcessed, Statuses
<1>3. StatusIsReverted'
  BY DEF IInv, TypeOK, StatusIsReverted, Statuses
<1>4. BodyIsProcessed'
  BY DEF IInv, TypeOK, BodyIsProcessed, StatusIsReverted, IdsAreFresh, Statuses
<1>5. IgnoredAreTooLarge'
  BY DEF IInv, TypeOK, IgnoredAreTooLarge, TooLarge, StatusIsReverted, RoomIsLeft, Statuses
<1>6. RoomIsLeft'
  BY DEF IInv, TypeOK, RoomIsLeft, Statuses
<1>7. NowIsAnswered'
  BY DEF IInv, TypeOK, NowIsAnswered, StatusIsReverted, BodyIsProcessed, Statuses
<1>8. NothingIsLost'
  BY DEF IInv, TypeOK, NothingIsLost, IdsAreFresh, BodyIsProcessed, NowIsAnswered, Statuses
<1>9. QED
  BY <1>1, <1>2, <1>3, <1>4, <1>5, <1>6, <1>7, <1>8 DEF IInv

LEMMA ExchangeStep ==
    ASSUME IInv, Exchange
    PROVE  IInv'
<1> USE SizeAssumption DEF Exchange, Finish, BeginRound, TooLarge, store, history
<1>1. TypeOK'
  BY DEF IInv, TypeOK, Statuses, Results, RoomIsLeft
<1>2. IdsAreFresh'
  BY DEF IInv, TypeOK, IdsAreFresh, StatusIsReverted, BodyIsProcessed, Statuses
<1>3. StatusIsReverted'
  BY DEF IInv, TypeOK, StatusIsReverted, Statuses
<1>4. BodyIsProcessed'
  BY DEF IInv, TypeOK, BodyIsProcessed, StatusIsReverted, IdsAreFresh, Statuses
<1>5. IgnoredAreTooLarge'
  BY DEF IInv, TypeOK, IgnoredAreTooLarge, TooLarge, StatusIsReverted, RoomIsLeft, Statuses
<1>6. RoomIsLeft'
  BY DEF IInv, TypeOK, RoomIsLeft, Statuses
<1>7. NowIsAnswered'
  BY DEF IInv, TypeOK, NowIsAnswered, StatusIsReverted, BodyIsProcessed, Statuses
<1>8. NothingIsLost'
  BY DEF IInv, TypeOK, NothingIsLost, IdsAreFresh, BodyIsProcessed, NowIsAnswered, Statuses
<1>9. QED
  BY <1>1, <1>2, <1>3, <1>4, <1>5, <1>6, <1>7, <1>8 DEF IInv

LEMMA SelectItemStep ==
    ASSUME IInv, SelectItem
    PROVE  IInv'
<1> USE SizeAssumption DEF SelectItem, IsNext, FitsInRequest, store, history
<1>1. TypeOK'
  BY DEF IInv, TypeOK, Statuses, Results, RoomIsLeft
<1>2. IdsAreFresh'
  BY DEF IInv, TypeOK, IdsAreFresh, StatusIsReverted, BodyIsProcessed, Statuses
<1>3. StatusIsReverted'
  BY DEF IInv, TypeOK, StatusIsReverted, Statuses
<1>4. BodyIsProcessed'
  BY DEF IInv, TypeOK, BodyIsProcessed, StatusIsReverted, IdsAreFresh, Statuses
<1>5. IgnoredAreTooLarge'
  <2>1. PICK i \in listed :
              status' = IF remaining >= itemSize[i]
                        THEN [status EXCEPT ![i] = "selected"] ELSE status
    OBVIOUS
  <2>2. i \in Items /\ pc = "select" /\ pc' = "select"
    BY DEF IInv, TypeOK
  <2>3. remaining >= itemSize[i] => ~ TooLarge(i)
    BY <2>2 DEF IInv, TypeOK, RoomIsLeft, TooLarge
  <2>4. \A j \in listed : TooLarge(j)' <=> TooLarge(j)
    BY DEF TooLarge
  <2>5. listed' = listed /\ itemSize' = itemSize /\ size' = size
    OBVIOUS
  <2> HIDE DEF SelectItem, TooLarge
  <2>6. QED
    BY <2>1, <2>2, <2>3, <2>4, <2>5 DEF IInv, TypeOK, IgnoredAreTooLarge, Statuses
<1>6. RoomIsLeft'
  BY DEF IInv, TypeOK, RoomIsLeft, Statuses
<1>7. NowIsAnswered'
  BY DEF IInv, TypeOK, NowIsAnswered, StatusIsReverted, BodyIsProcessed, Statuses
<1>8. NothingIsLost'
  BY DEF IInv, TypeOK, NothingIsLost, IdsAreFresh, BodyIsProcessed, NowIsAnswered, Statuses
<1>9. QED
  BY <1>1, <1>2, <1>3, <1>4, <1>5, <1>6, <1>7, <1>8 DEF IInv

LEMMA AllocateBodyStep ==
    ASSUME IInv, AllocateBody
    PROVE  IInv'
<1> USE SizeAssumption DEF AllocateBody, Finish, NeededBufferSize, AtEnd, store, history
<1>1. TypeOK'
  <2>1. remaining' \in Nat /\ buffer' \in Nat /\ cursor' \in Nat
    BY DEF IInv, TypeOK, RoomIsLeft
  <2>2. status' \in [Items -> Statuses]
    BY DEF IInv, TypeOK, Statuses
  <2>3. QED
    BY <2>1, <2>2 DEF IInv, TypeOK, Results
<1>2. IdsAreFresh'
  BY DEF IInv, TypeOK, IdsAreFresh, StatusIsReverted, BodyIsProcessed, Statuses
<1>3. StatusIsReverted'
  BY DEF IInv, TypeOK, StatusIsReverted, Statuses
<1>4. BodyIsProcessed'
  BY DEF IInv, TypeOK, BodyIsProcessed, StatusIsReverted, IdsAreFresh, Statuses
<1>5. IgnoredAreTooLarge'
  BY DEF IInv, TypeOK, IgnoredAreTooLarge, TooLarge, StatusIsReverted, RoomIsLeft, Statuses
<1>6. RoomIsLeft'
  BY DEF IInv, TypeOK, RoomIsLeft, Statuses
<1>7. NowIsAnswered'
  BY DEF IInv, TypeOK, NowIsAnswered, StatusIsReverted, BodyIsProcessed, Statuses
<1>8. NothingIsLost'
  BY DEF IInv, TypeOK, NothingIsLost, IdsAreFresh, BodyIsProcessed, NowIsAnswered, Statuses
<1>9. QED
  BY <1>1, <1>2, <1>3, <1>4, <1>5, <1>6, <1>7, <1>8 DEF IInv

LEMMA AddItemStep ==
    ASSUME IInv, NEW w \in Sizes, NEW short \in BOOLEAN, AddItem(w, short)
    PROVE  IInv'
<1> USE SizeAssumption DEF AddItem, IsNext, With, store, history
<1>1. TypeOK'
  <2>1. remaining' \in Nat /\ buffer' \in Nat /\ cursor' \in Nat
    BY DEF IInv, TypeOK, RoomIsLeft
  <2>2. status' \in [Items -> Statuses]
    BY DEF IInv, TypeOK, Statuses
  <2>3. QED
    BY <2>1, <2>2 DEF IInv, TypeOK, Results
<1>2. IdsAreFresh'
  BY DEF IInv, TypeOK, IdsAreFresh, StatusIsReverted, BodyIsProcessed, Statuses
<1>3. StatusIsReverted'
  BY DEF IInv, TypeOK, StatusIsReverted, Statuses
<1>4. BodyIsProcessed'
  BY DEF IInv, TypeOK, BodyIsProcessed, StatusIsReverted, IdsAreFresh, Statuses
<1>5. IgnoredAreTooLarge'
  BY DEF IInv, TypeOK, IgnoredAreTooLarge, TooLarge, StatusIsReverted, RoomIsLeft, Statuses
<1>6. RoomIsLeft'
  BY DEF IInv, TypeOK, RoomIsLeft, Statuses
<1>7. NowIsAnswered'
  BY DEF IInv, TypeOK, NowIsAnswered, StatusIsReverted, BodyIsProcessed, Statuses
<1>8. NothingIsLost'
  BY DEF IInv, TypeOK, NothingIsLost, IdsAreFresh, BodyIsProcessed, NowIsAnswered, Statuses
<1>9. QED
  BY <1>1, <1>2, <1>3, <1>4, <1>5, <1>6, <1>7, <1>8 DEF IInv

LEMMA SendBodyStep ==
    ASSUME IInv, SendBody
    PROVE  IInv'
<1> USE SizeAssumption DEF SendBody, Finish, CanClose, AtEnd, store, history
<1>1. TypeOK'
  <2>1. remaining' \in Nat /\ buffer' \in Nat /\ cursor' \in Nat
    BY DEF IInv, TypeOK, RoomIsLeft
  <2>2. status' \in [Items -> Statuses]
    BY DEF IInv, TypeOK, Statuses
  <2>3. QED
    BY <2>1, <2>2 DEF IInv, TypeOK, Results
<1>2. IdsAreFresh'
  BY DEF IInv, TypeOK, IdsAreFresh, StatusIsReverted, BodyIsProcessed, Statuses
<1>3. StatusIsReverted'
  BY DEF IInv, TypeOK, StatusIsReverted, Statuses
<1>4. BodyIsProcessed'
  BY DEF IInv, TypeOK, BodyIsProcessed, StatusIsReverted, IdsAreFresh, Statuses
<1>5. IgnoredAreTooLarge'
  BY DEF IInv, TypeOK, IgnoredAreTooLarge, TooLarge, StatusIsReverted, RoomIsLeft, Statuses
<1>6. RoomIsLeft'
  BY DEF IInv, TypeOK, RoomIsLeft, Statuses
<1>7. NowIsAnswered'
  BY DEF IInv, TypeOK, NowIsAnswered, StatusIsReverted, BodyIsProcessed, Statuses
<1>8. NothingIsLost'
  BY DEF IInv, TypeOK, NothingIsLost, IdsAreFresh, BodyIsProcessed, NowIsAnswered, Statuses
<1>9. QED
  BY <1>1, <1>2, <1>3, <1>4, <1>5, <1>6, <1>7, <1>8 DEF IInv

LEMMA SendFailsStep ==
    ASSUME IInv, SendFails
    PROVE  IInv'
<1> USE SizeAssumption DEF SendFails, Finish, store, history
<1>1. TypeOK'
  BY DEF IInv, TypeOK, Statuses, Results, RoomIsLeft
<1>2. IdsAreFresh'
  BY DEF IInv, TypeOK, IdsAreFresh, StatusIsReverted, BodyIsProcessed, Statuses
<1>3. StatusIsReverted'
  BY DEF IInv, TypeOK, StatusIsReverted, Statuses
<1>4. BodyIsProcessed'
  BY DEF IInv, TypeOK, BodyIsProcessed, StatusIsReverted, IdsAreFresh, Statuses
<1>5. IgnoredAreTooLarge'
  BY DEF IInv, TypeOK, IgnoredAreTooLarge, TooLarge, StatusIsReverted, RoomIsLeft, Statuses
<1>6. RoomIsLeft'
  BY DEF IInv, TypeOK, RoomIsLeft, Statuses
<1>7. NowIsAnswered'
  BY DEF IInv, TypeOK, NowIsAnswered, StatusIsReverted, BodyIsProcessed, Statuses
<1>8. NothingIsLost'
  BY DEF IInv, TypeOK, NothingIsLost, IdsAreFresh, BodyIsProcessed, NowIsAnswered, Statuses
<1>9. QED
  BY <1>1, <1>2, <1>3, <1>4, <1>5, <1>6, <1>7, <1>8 DEF IInv

LEMMA RejectResponseStep ==
    ASSUME IInv, RejectResponse
    PROVE  IInv'
<1> USE SizeAssumption DEF RejectResponse, Finish, store, history
<1>1. TypeOK'
  BY DEF IInv, TypeOK, Statuses, Results, RoomIsLeft
<1>2. IdsAreFresh'
  BY DEF IInv, TypeOK, IdsAreFresh, StatusIsReverted, BodyIsProcessed, Statuses
<1>3. StatusIsReverted'
  BY DEF IInv, TypeOK, StatusIsReverted, Statuses
<1>4. BodyIsProcessed'
  BY DEF IInv, TypeOK, BodyIsProcessed, StatusIsReverted, IdsAreFresh, Statuses
<1>5. IgnoredAreTooLarge'
  BY DEF IInv, TypeOK, IgnoredAreTooLarge, TooLarge, StatusIsReverted, RoomIsLeft, Statuses
<1>6. RoomIsLeft'
  BY DEF IInv, TypeOK, RoomIsLeft, Statuses
<1>7. NowIsAnswered'
  BY DEF IInv, TypeOK, NowIsAnswered, StatusIsReverted, BodyIsProcessed, Statuses
<1>8. NothingIsLost'
  BY DEF IInv, TypeOK, NothingIsLost, IdsAreFresh, BodyIsProcessed, NowIsAnswered, Statuses
<1>9. QED
  BY <1>1, <1>2, <1>3, <1>4, <1>5, <1>6, <1>7, <1>8 DEF IInv

LEMMA ScanStoreStep ==
    ASSUME IInv, ScanStore
    PROVE  IInv'
<1> USE SizeAssumption DEF ScanStore, Finish, BeginRound, Uploaded, FullyProcessed, With, store, history
<1>1. TypeOK'
  <2>1. remaining' \in Nat /\ buffer' \in Nat /\ cursor' \in Nat
    BY DEF IInv, TypeOK, RoomIsLeft
  <2>2. status' \in [Items -> Statuses]
    BY DEF IInv, TypeOK, Statuses
  <2>3. QED
    BY <2>1, <2>2 DEF IInv, TypeOK, Results
<1>2. IdsAreFresh'
  BY DEF IInv, TypeOK, IdsAreFresh, StatusIsReverted, BodyIsProcessed, Statuses
<1>3. StatusIsReverted'
  BY DEF IInv, TypeOK, StatusIsReverted, Statuses
<1>4. BodyIsProcessed'
  BY DEF IInv, TypeOK, BodyIsProcessed, StatusIsReverted, IdsAreFresh, Statuses
<1>5. IgnoredAreTooLarge'
  BY DEF IInv, TypeOK, IgnoredAreTooLarge, TooLarge, StatusIsReverted, RoomIsLeft, Statuses
<1>6. RoomIsLeft'
  BY DEF IInv, TypeOK, RoomIsLeft, Statuses
<1>7. NowIsAnswered'
  BY DEF IInv, TypeOK, NowIsAnswered, StatusIsReverted, BodyIsProcessed, Statuses
<1>8. NothingIsLost'
  BY DEF IInv, TypeOK, NothingIsLost, IdsAreFresh, BodyIsProcessed, NowIsAnswered, Statuses
<1>9. QED
  BY <1>1, <1>2, <1>3, <1>4, <1>5, <1>6, <1>7, <1>8 DEF IInv

LEMMA ServiceTakesStep ==
    ASSUME IInv, ServiceTakes
    PROVE  IInv'
<1> USE SizeAssumption DEF ServiceTakes, store, history
<1>1. TypeOK'
  BY DEF IInv, TypeOK, Statuses, Results, RoomIsLeft
<1>2. IdsAreFresh'
  BY DEF IInv, TypeOK, IdsAreFresh, StatusIsReverted, BodyIsProcessed, Statuses
<1>3. StatusIsReverted'
  BY DEF IInv, TypeOK, StatusIsReverted, Statuses
<1>4. BodyIsProcessed'
  BY DEF IInv, TypeOK, BodyIsProcessed, StatusIsReverted, IdsAreFresh, Statuses
<1>5. IgnoredAreTooLarge'
  BY DEF IInv, TypeOK, IgnoredAreTooLarge, TooLarge, StatusIsReverted, RoomIsLeft, Statuses
<1>6. RoomIsLeft'
  BY DEF IInv, TypeOK, RoomIsLeft, Statuses
<1>7. NowIsAnswered'
  BY DEF IInv, TypeOK, NowIsAnswered, StatusIsReverted, BodyIsProcessed, Statuses
<1>8. NothingIsLost'
  BY DEF IInv, TypeOK, NothingIsLost, IdsAreFresh, BodyIsProcessed, NowIsAnswered, Statuses
<1>9. QED
  BY <1>1, <1>2, <1>3, <1>4, <1>5, <1>6, <1>7, <1>8 DEF IInv

LEMMA ServiceRejectsStep ==
    ASSUME IInv, ServiceRejects
    PROVE  IInv'
<1> USE SizeAssumption DEF ServiceRejects, store, history
<1>1. TypeOK'
  BY DEF IInv, TypeOK, Statuses, Results, RoomIsLeft
<1>2. IdsAreFresh'
  BY DEF IInv, TypeOK, IdsAreFresh, StatusIsReverted, BodyIsProcessed, Statuses
<1>3. StatusIsReverted'
  BY DEF IInv, TypeOK, StatusIsReverted, Statuses
<1>4. BodyIsProcessed'
  BY DEF IInv, TypeOK, BodyIsProcessed, StatusIsReverted, IdsAreFresh, Statuses
<1>5. IgnoredAreTooLarge'
  BY DEF IInv, TypeOK, IgnoredAreTooLarge, TooLarge, StatusIsReverted, RoomIsLeft, Statuses
<1>6. RoomIsLeft'
  BY DEF IInv, TypeOK, RoomIsLeft, Statuses
<1>7. NowIsAnswered'
  BY DEF IInv, TypeOK, NowIsAnswered, StatusIsReverted, BodyIsProcessed, Statuses
<1>8. NothingIsLost'
  BY DEF IInv, TypeOK, NothingIsLost, IdsAreFresh, BodyIsProcessed, NowIsAnswered, Statuses
<1>9. QED
  BY <1>1, <1>2, <1>3, <1>4, <1>5, <1>6, <1>7, <1>8 DEF IInv

\* Every step preserves the invariant.
LEMMA StepHolds ==
    ASSUME IInv, [Next]_vars
    PROVE  IInv'
<1>1. CASE \E i \in Items, s, g \in Sizes : AddToStore(i, s, g)
  BY <1>1, AddToStoreStep
<1>2. CASE \E i \in Items, s \in Sizes : ChangeItem(i, s)
  BY <1>2, ChangeItemStep
<1>3. CASE DestroyStore
  BY <1>3, DestroyStoreStep
<1>4. CASE NoToken
  BY <1>4, NoTokenStep
<1>5. CASE Exchange
  BY <1>5, ExchangeStep
<1>6. CASE SelectItem
  BY <1>6, SelectItemStep
<1>7. CASE AllocateBody
  BY <1>7, AllocateBodyStep
<1>8. CASE \E w \in Sizes, short \in BOOLEAN : AddItem(w, short)
  BY <1>8, AddItemStep
<1>9. CASE SendBody
  BY <1>9, SendBodyStep
<1>10. CASE SendFails
  BY <1>10, SendFailsStep
<1>11. CASE RejectResponse
  BY <1>11, RejectResponseStep
<1>12. CASE ScanStore
  BY <1>12, ScanStoreStep
<1>13. CASE ServiceTakes
  BY <1>13, ServiceTakesStep
<1>14. CASE ServiceRejects
  BY <1>14, ServiceRejectsStep
<1>15. CASE UNCHANGED vars
  BY <1>15 DEF vars, IInv, TypeOK, IdsAreFresh, StatusIsReverted,
     BodyIsProcessed, IgnoredAreTooLarge, RoomIsLeft, NowIsAnswered,
     NothingIsLost, TooLarge
<1>16. QED
  BY <1>1, <1>2, <1>3, <1>4, <1>5, <1>6, <1>7, <1>8, <1>9, <1>10, <1>11,
     <1>12, <1>13, <1>14, <1>15 DEF Next, Round

\* The invariant the other theorems rest on.
THEOREM Invariance == Spec => []IInv
BY InitHolds, StepHolds, PTL DEF Spec

-----------------------------------------------------------------------------
(* What follows.                                                           *)

\* No room computed for the body or left in it is below zero
\* (_select_store_items_to_exchange, multipart_add_tuple, multipart_close).
THEOREM TypeCorrect == Spec => []TypeOK
<1>1. IInv => TypeOK
  BY DEF IInv
<1>2. QED
  BY <1>1, Invariance, PTL

\* No item leaves the store before the service has it: what
\* _remove_uploaded_store_items destroys was in the body that was answered.
THEOREM ItemsAreKept == Spec => []NothingIsLost
<1>1. IInv => NothingIsLost
  BY DEF IInv
<1>2. QED
  BY <1>1, Invariance, PTL

\* A body that is sent is within max_http_payload_size, whatever the items
\* turned out to need when they were written.
THEOREM BodiesFit == Spec => []BodyFits
<1>1. IInv => BodyFits
  BY SizeAssumption DEF IInv, TypeOK, RoomIsLeft, BodyFits
<1>2. QED
  BY <1>1, Invariance, PTL

\* The rounds of connectivity_processor_exchange do not repeat an item that an
\* earlier round of the call delivered.
THEOREM RoundsDoNotRepeat == Spec => []OncePerExchange
<1>1. IInv => OncePerExchange
  <2>1. IInv => body \subseteq listed
    BY DEF IInv, TypeOK, StatusIsReverted, BodyIsProcessed
  <2>2. QED
    BY <2>1 DEF IInv, TypeOK, NowIsAnswered, OncePerExchange
<1>2. QED
  BY <1>1, Invariance, PTL

\* MCL_ITEM_EXCEEDS_MAX_HTTP_REQUEST_SIZE speaks of the items it leaves.
THEOREM RefusalIsJustified == Spec => RefusedAreTooLarge
<1> DEFINE A == pc' = "idle" /\ ret' = "too_large" /\ ret # "too_large" =>
                listed' # {} /\ \A i \in listed' : MaxSize < Overhead + size[i]
<1>1. ASSUME IInv, [Next]_vars
      PROVE  [A]_vars
  <2> SUFFICES ASSUME Next, pc' = "idle", ret' = "too_large", ret # "too_large"
               PROVE  listed' # {} /\
                      \A i \in listed' : MaxSize < Overhead + size[i]
    BY <1>1
  <2>1. Exchange \/ ScanStore
    BY DEF Next, Round, AddToStore, ChangeItem, DestroyStore, NoToken,
       SelectItem, AllocateBody, AddItem, SendBody, SendFails, RejectResponse,
       ServiceTakes, ServiceRejects, Finish
  <2>2. CASE Exchange
    BY <1>1, <2>2 DEF IInv, TypeOK, Exchange, Finish, BeginRound, TooLarge, store
  <2>3. CASE ScanStore
    <3>1. /\ pc = "sent"
          /\ listed' = listed \ With("processed")
          /\ listed = With("processed") \cup With("ignored")
          /\ listed' # {}
      BY <2>3 DEF ScanStore, Finish, BeginRound, Uploaded, FullyProcessed
    <3>2. QED
      BY <1>1, <3>1 DEF IInv, TypeOK, IgnoredAreTooLarge, TooLarge, With
  <2>4. QED
    BY <2>1, <2>2, <2>3
<1>2. QED
  BY <1>1, Invariance, PTL DEF Spec, RefusedAreTooLarge

-----------------------------------------------------------------------------
(* Refinement.                                                             *)

\* Handle, store and service together implement Outbox: an item is given to
\* the service at least once and forgotten only then.
THEOREM Implements == Spec => RefinesOutbox
<1>1. Init => Box!Init
  BY DEF Init, Box!Init
<1>2. ASSUME IInv, [Next]_vars
      PROVE  [Box!Next]_Box!vars
  <2> USE <1>2
  <2>1. body \subseteq listed
    BY DEF IInv, TypeOK, StatusIsReverted, BodyIsProcessed
  <2>2. ASSUME NEW i \in Items, NEW s \in Sizes, NEW g \in Sizes,
               AddToStore(i, s, g)
        PROVE  Box!Put(i)
    BY <2>2, SizeAssumption
       DEF AddToStore, IInv, TypeOK, IdsAreFresh, Box!Put, history
  <2>3. CASE DestroyStore
    BY <2>3 DEF DestroyStore, Box!Next, Box!Destroy
  <2>4. CASE ServiceTakes \/ SendFails
    <3>1. listed' = listed
      BY <2>4 DEF ServiceTakes, SendFails, Finish, store
    <3>2. delivered' = delivered \/ delivered' = delivered \cup body
      BY <2>4 DEF ServiceTakes, SendFails
    <3>3. QED
      BY <2>1, <3>1, <3>2 DEF Box!Next, Box!Deliver, Box!vars
  <2>5. CASE ScanStore
    <3>1. /\ answer = "ok"
          /\ pc = "sent"
          /\ listed' = listed \ With("processed")
          /\ delivered' = delivered
      BY <2>5 DEF ScanStore, Uploaded, history
    <3>2. With("processed") \subseteq body
      BY DEF IInv, TypeOK, BodyIsProcessed, With
    <3>3. body \subseteq delivered
      BY <2>1, <3>1 DEF IInv, NowIsAnswered
    <3>4. QED
      BY <3>1, <3>2, <3>3 DEF Box!Next, Box!Forget
  <2>6. CASE \/ \E i \in Items, s \in Sizes : ChangeItem(i, s)
             \/ NoToken \/ Exchange \/ SelectItem \/ AllocateBody
             \/ \E w \in Sizes, short \in BOOLEAN : AddItem(w, short)
             \/ SendBody \/ RejectResponse \/ ServiceRejects
             \/ UNCHANGED vars
    BY <2>6 DEF ChangeItem, NoToken, Exchange, SelectItem, AllocateBody,
       AddItem, SendBody, RejectResponse, ServiceRejects, vars, store, history,
       Box!vars
  <2>7. QED
    BY <2>2, <2>3, <2>4, <2>5, <2>6 DEF Next, Round, Box!Next
<1>3. QED
  BY <1>1, <1>2, Invariance, PTL DEF Spec, RefinesOutbox, Box!Spec

-----------------------------------------------------------------------------
(* LinkedList: the inductive invariant.                                    *)

\* The nodes the scan has still to meet are the last ones of the list, and the
\* cursor stands at the first of them.
ScanTail ==
    loop = "scan" =>
        /\ index <= limit
        /\ limit = Len(present)
        /\ limit - index <= Len(order)
        /\ \A k \in 1 .. limit - index :
              order[Len(order) - (limit - index) + k] = present[index + k]
        /\ current = At(Len(order) - (limit - index) + 1)
        /\ Len(visited) = index
        /\ \A k \in 1 .. index : visited[k] = present[k]

\* The first left places of chain hold those of the first met nodes that were to stay, in the
\* order in which they were met.
Leaves(chain, nodes, away, met, left) ==
    /\ \A k \in 1 .. left : \E i \in 1 .. met : chain[k] = nodes[i] /\ nodes[i] \notin away
    /\ \A i \in 1 .. met : nodes[i] \notin away => \E k \in 1 .. left : chain[k] = nodes[i]
    /\ \A j, k \in 1 .. left, i, l \in 1 .. met :
          chain[j] = nodes[i] /\ chain[k] = nodes[l] /\ j < k => i < l

\* Before the nodes that are to come, the list holds what the scan has left of the others.
ScanKept ==
    loop = "scan" =>
        /\ \A i, l \in 1 .. Len(present) : present[i] = present[l] => i = l
        /\ Leaves(order, present, doomed, index, Len(order) - (limit - index))

ListInv == ListTypeOK /\ Linked /\ ScanTail /\ ScanKept

-----------------------------------------------------------------------------
(* Sequences.                                                              *)

\* What is left of a sequence without one of its elements.
LEMMA WithoutOne ==
    ASSUME NEW S, NEW s \in Seq(S), NEW k \in 1 .. Len(s),
           \A i, j \in 1 .. Len(s) : s[i] = s[j] => i = j
    PROVE  /\ Without(s, s[k]) \in Seq(S)
           /\ Len(Without(s, s[k])) = Len(s) - 1
           /\ \A i \in 1 .. Len(s) - 1 :
                 Without(s, s[k])[i] = IF i < k THEN s[i] ELSE s[i + 1]
<1>1. (CHOOSE i \in 1 .. Len(s) : s[i] = s[k]) = k
  OBVIOUS
<1> DEFINE a == SubSeq(s, 1, k - 1)
           b == SubSeq(s, k + 1, Len(s))
<1>2. Without(s, s[k]) = a \o b
  BY <1>1 DEF Without
<1>3. /\ a \in Seq(S)
      /\ Len(a) = k - 1
      /\ \A i \in 1 .. k - 1 : a[i] = s[i]
  BY SubSeqProperties, ElementOfSeq, LenProperties
<1>4. /\ b \in Seq(S)
      /\ Len(b) = Len(s) - k
      /\ \A i \in 1 .. Len(s) - k : b[i] = s[k + i]
  BY SubSeqProperties, ElementOfSeq, LenProperties
<1> HIDE DEF a, b
<1>5. /\ a \o b \in Seq(S)
      /\ Len(a \o b) = Len(a) + Len(b)
      /\ \A i \in 1 .. Len(a) + Len(b) :
            (a \o b)[i] = IF i <= Len(a) THEN a[i] ELSE b[i - Len(a)]
  <2>1. a \in Seq(S) /\ b \in Seq(S)
    BY <1>3, <1>4
  <2>2. QED
    BY <2>1, ConcatProperties, Zenon
<1>6. Len(s) \in Nat /\ Len(a) + Len(b) = Len(s) - 1
  BY <1>3, <1>4, LenProperties
<1>7. ASSUME NEW i \in 1 .. Len(s) - 1
      PROVE  Without(s, s[k])[i] = IF i < k THEN s[i] ELSE s[i + 1]
  <2>1. Without(s, s[k])[i] = IF i <= k - 1 THEN a[i] ELSE b[i - (k - 1)]
    BY <1>2, <1>3, <1>5, <1>6
  <2>2. CASE i < k
    <3>1. i \in 1 .. k - 1
      BY <1>6, <2>2
    <3>2. QED
      BY <1>3, <1>6, <2>1, <2>2, <3>1
  <2>3. CASE i >= k
    <3>1. i - (k - 1) \in 1 .. Len(s) - k /\ k + (i - (k - 1)) = i + 1
      BY <1>6, <2>3
    <3>2. QED
      BY <1>4, <1>6, <2>1, <2>3, <3>1
  <2>4. QED
    BY <1>6, <2>2, <2>3
<1>8. QED
  BY <1>2, <1>5, <1>6, <1>7

-----------------------------------------------------------------------------
(* The operations.                                                         *)

\* mcl_list_next does not leave the list.
LEMMA AdvancedInList ==
    ASSUME ListTypeOK, Linked
    PROVE  /\ Advanced \in Pointers
           /\ Advanced # Null => InList(Advanced)
BY NullAssumption, LenProperties
   DEF ListTypeOK, Linked, Advanced, Pointers, InList, At

\* mcl_list_add keeps the list linked.
LEMMA LinkStep ==
    ASSUME ListTypeOK, Linked, NEW n \in Nodes, Link(n)
    PROVE  /\ {head', last', current'} \subseteq Pointers
           /\ count' \in Nat
           /\ next' \in [Nodes -> Pointers]
           /\ prev' \in [Nodes -> Pointers]
           /\ order' \in Seq(Nodes)
           /\ Linked'
<1>1. /\ order' \in Seq(Nodes)
      /\ Len(order') = Len(order) + 1
      /\ order'[Len(order) + 1] = n
      /\ \A k \in 1 .. Len(order) : order'[k] = order[k] /\ order[k] # n
      /\ Len(order) \in Nat
  BY LenProperties DEF ListTypeOK, Link, InList
<1>2. \A k \in 1 .. Len(order) : order[k] \in Nodes
  BY ElementOfSeq DEF ListTypeOK
<1>3. /\ {head', last', current'} \subseteq Pointers
      /\ count' \in Nat
      /\ next' \in [Nodes -> Pointers]
      /\ prev' \in [Nodes -> Pointers]
  BY DEF ListTypeOK, Link, Pointers
<1>4. count' = Len(order') /\ head' = At(1)' /\ last' = At(Len(order))'
  BY <1>1 DEF Link, Linked, At
<1>5. current' # Null => InList(current)'
  <2>1. current' = n \/ current' = current
    BY DEF Link
  <2>2. Len(order) + 1 \in 1 .. Len(order') /\ 1 .. Len(order) \subseteq 1 .. Len(order')
    BY <1>1
  <2>3. CASE current' = n
    BY <1>1, <2>2, <2>3 DEF InList
  <2>4. CASE current' = current
    BY <1>1, <2>2, <2>4 DEF Linked, InList
  <2>5. QED
    BY <2>1, <2>3, <2>4
<1>6. \A j, k \in 1 .. Len(order') : order'[j] = order'[k] => j = k
  <2>1. \A j, k \in 1 .. Len(order) : order[j] = order[k] => j = k
    BY DEF Linked
  <2>2. QED
    BY <1>1, <2>1
<1>7. ASSUME NEW k \in 1 .. Len(order')
      PROVE  next'[order'[k]] = At(k + 1)' /\ prev'[order'[k]] = At(k - 1)'
  <2>1. CASE k = Len(order) + 1
    BY <1>1, <1>2, <2>1 DEF Link, Linked, At, ListTypeOK
  <2>2. CASE k \in 1 .. Len(order)
    <3>1. order'[k] = order[k] /\ order[k] \in Nodes /\ order[k] # n
      BY <1>1, <1>2, <2>2
    <3>2. prev'[order'[k]] = At(k - 1)'
      BY <1>1, <2>2, <3>1 DEF Link, Linked, At, ListTypeOK
    <3>3. order[k] = last <=> k = Len(order)
      BY <1>1, <2>2 DEF Linked, At
    <3>4. next'[order'[k]] = At(k + 1)'
      <4>1. /\ next[order[k]] = At(k + 1) /\ next \in [Nodes -> Pointers] /\ last = At(Len(order))
            /\ count = Len(order)
        BY <2>2 DEF Linked, ListTypeOK
      <4>2. CASE k = Len(order)
        <5>1. count # 0 /\ last = order[k]
          BY <1>1, <2>2, <4>1, <4>2 DEF At
        <5>2. next'[order[k]] = n
          BY <3>1, <4>1, <5>1 DEF Link
        <5>3. At(k + 1)' = n
          BY <1>1, <4>2 DEF At
        <5>. QED BY <3>1, <5>2, <5>3
      <4>3. CASE k < Len(order)
        <5>1. last # order[k]
          BY <1>1, <3>3, <4>3
        <5>2. next'[order[k]] = next[order[k]]
          BY <3>1, <4>1, <5>1 DEF Link
        <5>3. k + 1 \in 1 .. Len(order) /\ k + 1 \in 1 .. Len(order')
          BY <1>1, <2>2, <4>3
        <5>4. At(k + 1)' = At(k + 1)
          BY <1>1, <5>3 DEF At
        <5>. QED BY <3>1, <4>1, <5>2, <5>4
      <4>. QED BY <1>1, <2>2, <4>2, <4>3
    <3>5. QED
      BY <3>2, <3>4
  <2>3. QED
    BY <1>1, <2>1, <2>2
<1>8. QED
  BY <1>1, <1>3, <1>4, <1>5, <1>6, <1>7 DEF Linked

\* mcl_list_remove keeps the list linked, wherever in it the cursor stands.
LEMMA UnlinkStep ==
    ASSUME ListTypeOK, Linked, NEW k \in 1 .. Len(order),
           NEW c \in Pointers, c # Null => InList(c),
           Unlink(order[k], c)
    PROVE  /\ {head', last', current'} \subseteq Pointers
           /\ count' \in Nat
           /\ next' \in [Nodes -> Pointers]
           /\ prev' \in [Nodes -> Pointers]
           /\ order' \in Seq(Nodes)
           /\ Len(order') = Len(order) - 1
           /\ \A i \in 1 .. Len(order) - 1 :
                 order'[i] = IF i < k THEN order[i] ELSE order[i + 1]
           /\ Linked'
<1> DEFINE n == order[k]
<1>1. /\ order' \in Seq(Nodes)
      /\ Len(order') = Len(order) - 1
      /\ \A i \in 1 .. Len(order) - 1 :
            order'[i] = IF i < k THEN order[i] ELSE order[i + 1]
  <2>1. order \in Seq(Nodes) /\ order' = Without(order, order[k])
    BY DEF Unlink, ListTypeOK
  <2>2. \A i, j \in 1 .. Len(order) : order[i] = order[j] => i = j
    BY DEF Linked
  <2>3. QED
    BY <2>1, <2>2, WithoutOne
<1>2. /\ Len(order) \in Nat
      /\ \A i \in 1 .. Len(order) : order[i] \in Nodes
  BY ElementOfSeq, LenProperties DEF ListTypeOK
<1>3. next[n] = At(k + 1) /\ prev[n] = At(k - 1)
  BY DEF Linked
<1>4. /\ {head', last', current'} \subseteq Pointers
      /\ count' \in Nat
      /\ next' \in [Nodes -> Pointers]
      /\ prev' \in [Nodes -> Pointers]
  BY <1>2 DEF ListTypeOK, Unlink, Pointers, Slid, Linked
<1>5. count' = Len(order') /\ head' = At(1)' /\ last' = At(Len(order))'
  <2>1. count' = Len(order')
    BY <1>1, <1>2 DEF Unlink, Linked
  <2>2. head' = At(1)'
    BY <1>1, <1>2, <1>3 DEF Unlink, Linked, At
  <2>3. last' = At(Len(order))'
    BY <1>1, <1>2, <1>3 DEF Unlink, Linked, At
  <2>. QED BY <2>1, <2>2, <2>3
<1>6. current' # Null => InList(current)'
  <2>1. ASSUME NEW i \in 1 .. Len(order), i # k
        PROVE  \E j \in 1 .. Len(order') : order'[j] = order[i]
    <3>1. CASE i < k
      BY <1>1, <1>2, <2>1, <3>1
    <3>2. CASE i > k
      <4>1. i - 1 \in 1 .. Len(order') /\ order'[i - 1] = order[i]
        BY <1>1, <1>2, <3>2
      <4>2. QED
        BY <4>1
    <3>3. QED
      BY <2>1, <3>1, <3>2
  <2>2. CASE c = n
    <3>1. current' = At(k + 1)
      BY <1>3, <2>2 DEF Unlink, Slid
    <3>2. QED
      BY <1>2, <2>1, <3>1 DEF InList, At
  <2>3. CASE c # n
    BY <2>1, <2>3 DEF Unlink, Slid, InList
  <2>4. QED
    BY <2>2, <2>3
<1>7. \A i, j \in 1 .. Len(order') : order'[i] = order'[j] => i = j
  <2>1. SUFFICES ASSUME NEW i \in 1 .. Len(order'), NEW j \in 1 .. Len(order'),
                        order'[i] = order'[j]
                 PROVE  i = j
    OBVIOUS
  <2>2. i \in 1 .. Len(order) - 1 /\ j \in 1 .. Len(order) - 1
    BY <1>1
  <2>3. \A x, y \in 1 .. Len(order) : order[x] = order[y] => x = y
    BY DEF Linked
  <2> DEFINE before(x) == IF x < k THEN x ELSE x + 1
  <2>4. /\ before(i) \in 1 .. Len(order) /\ order'[i] = order[before(i)]
        /\ before(j) \in 1 .. Len(order) /\ order'[j] = order[before(j)]
    BY <1>1, <1>2, <2>2
  <2>5. before(i) = before(j)
    BY <2>1, <2>3, <2>4
  <2>6. QED
    BY <1>2, <2>2, <2>5
<1>8. ASSUME NEW i \in 1 .. Len(order')
      PROVE  next'[order'[i]] = At(i + 1)' /\ prev'[order'[i]] = At(i - 1)'
  <2>1. CASE i < k
    <3>1. order'[i] = order[i] /\ order[i] \in Nodes /\ order[i] # n
      BY <1>1, <1>2, <2>1 DEF Linked
    <3>2. (order[i] = prev[n] <=> i = k - 1) /\ order[i] # next[n]
      BY <1>2, <1>3, <2>1, <3>1, NullAssumption DEF Linked, At
    <3>3. /\ next'[order[i]] = IF i = k - 1 THEN At(k + 1) ELSE At(i + 1)
          /\ prev'[order[i]] = At(i - 1)
      BY <1>2, <1>3, <2>1, <3>1, <3>2 DEF Unlink, Linked
    <3>4. QED
      BY <1>1, <1>2, <2>1, <3>1, <3>3 DEF At
  <2>2. CASE i >= k
    <3>1. order'[i] = order[i + 1] /\ order[i + 1] \in Nodes /\ i + 1 \in 1 .. Len(order)
      BY <1>1, <1>2, <2>2
    <3>2. (order[i + 1] = next[n] <=> i = k) /\ order[i + 1] # prev[n]
      BY <1>2, <1>3, <2>2, <3>1, NullAssumption DEF Linked, At
    <3>3. /\ prev'[order[i + 1]] = IF i = k THEN At(k - 1) ELSE At(i)
          /\ next'[order[i + 1]] = At(i + 2)
      BY <1>2, <1>3, <2>2, <3>1, <3>2 DEF Unlink, Linked
    <3>4. QED
      BY <1>1, <1>2, <2>2, <3>1, <3>3 DEF At
  <2>3. QED
    BY <1>1, <1>2, <2>1, <2>2
<1>9. QED
  BY <1>1, <1>4, <1>5, <1>6, <1>7, <1>8 DEF Linked

-----------------------------------------------------------------------------
(* The invariant is inductive.                                             *)

LEMMA ListInitHolds == ListInit => ListInv
BY DEF ListInit, ListInv, ListTypeOK, Linked, ScanTail, ScanKept, Leaves, Pointers, At, InList

\* A turn of a loop that removes leaves the nodes that are to stay, in order.
LEMMA VisitKeeps ==
    ASSUME ListInv, Visit
    PROVE  ScanKept'
<1>. USE DEF ListInv
<1>. SUFFICES ASSUME loop = "scan"
              PROVE  ScanKept'
  BY DEF ScanKept, Visit
<1>. DEFINE d == Len(order) - (limit - index)
<1>1. /\ index' = index + 1 /\ index \in Nat /\ limit \in Nat /\ index < limit
      /\ limit' = limit /\ present' = present /\ loop' = loop /\ doomed' = doomed
      /\ Len(order) \in Nat /\ limit = Len(present) /\ d \in Nat /\ d < Len(order)
      /\ index + 1 \in 1 .. Len(present) /\ d + 1 \in 1 .. Len(order)
      /\ current # Null
  <2>1. index \in Nat /\ limit \in Nat /\ Len(order) \in Nat
    BY LenProperties DEF ListTypeOK
  <2>2. limit = Len(present) /\ limit - index <= Len(order)
    BY DEF ScanTail
  <2>. QED BY <2>1, <2>2 DEF Visit
<1>2. order[d + 1] = present[index + 1] /\ current = order[d + 1]
  <2>1. /\ \A k \in 1 .. limit - index : order[d + k] = present[index + k]
        /\ current = At(d + 1)
    BY DEF ScanTail
  <2>2. 1 \in 1 .. limit - index
    BY <1>1
  <2>3. current = order[d + 1]
    BY <1>1, <2>1 DEF At
  <2>. QED BY <2>1, <2>2, <2>3
<1>3. /\ \A i, l \in 1 .. Len(present) : present[i] = present[l] => i = l
      /\ \A k \in 1 .. d : \E i \in 1 .. index : order[k] = present[i] /\ present[i] \notin doomed
      /\ \A i \in 1 .. index : present[i] \notin doomed => \E k \in 1 .. d : order[k] = present[i]
      /\ \A j, k \in 1 .. d, i, l \in 1 .. index :
            order[j] = present[i] /\ order[k] = present[l] /\ j < k => i < l
  BY DEF ScanKept, Leaves
<1>4. \A j, k \in 1 .. Len(order) : order[j] = order[k] => j = k
  BY DEF Linked
<1>5. \A k \in 1 .. d : k \in 1 .. Len(order) /\ order[k] # order[d + 1]
  BY <1>1, <1>4
<1>6. CASE current \in doomed
  <2>1. Unlink(order[d + 1], Advanced)
    BY <1>2, <1>6 DEF Visit
  <2>2. Advanced \in Pointers /\ (Advanced # Null => InList(Advanced))
    BY AdvancedInList
  <2>3. /\ Len(order') = Len(order) - 1
        /\ \A i \in 1 .. Len(order) - 1 :
              order'[i] = IF i < d + 1 THEN order[i] ELSE order[i + 1]
    BY <1>1, <2>1, <2>2, UnlinkStep
  <2>4. Len(order') - (limit' - index') = d
    BY <1>1, <2>3
  <2>5. \A k \in 1 .. d : order'[k] = order[k]
    BY <1>1, <2>3
  <2>. HIDE DEF d
  <2>6. \A k \in 1 .. d : order'[k] # present[index + 1]
    BY <1>2, <1>5, <2>5
  <2>7. \A i \in 1 .. index + 1 : i \in 1 .. index \/ i = index + 1
    BY <1>1
  <2>8. \A i \in 1 .. index : i \in 1 .. index + 1
    BY <1>1
  <2>9. /\ \A k \in 1 .. d : \E i \in 1 .. index + 1 : order'[k] = present[i] /\ present[i] \notin doomed
        /\ \A i \in 1 .. index + 1 : present[i] \notin doomed => \E k \in 1 .. d : order'[k] = present[i]
        /\ \A j, k \in 1 .. d, i, l \in 1 .. index + 1 :
              order'[j] = present[i] /\ order'[k] = present[l] /\ j < k => i < l
    <3>1. \A k \in 1 .. d : \E i \in 1 .. index + 1 : order'[k] = present[i] /\ present[i] \notin doomed
      BY <1>3, <2>5, <2>8
    <3>2. \A i \in 1 .. index + 1 : present[i] \notin doomed => \E k \in 1 .. d : order'[k] = present[i]
      BY <1>2, <1>3, <1>6, <2>5, <2>7
    <3>3. \A j, k \in 1 .. d, i, l \in 1 .. index + 1 :
              order'[j] = present[i] /\ order'[k] = present[l] /\ j < k => i < l
      BY <1>3, <2>5, <2>6, <2>7
    <3>. QED BY <3>1, <3>2, <3>3
  <2>10. index' = index + 1 /\ present' = present /\ doomed' = doomed
    BY <1>1
  <2>11. \A i, l \in 1 .. Len(present) : present[i] = present[l] => i = l
    BY <1>3
  <2>12. Leaves(order', present, doomed, index + 1, d)
    BY ONLY <2>9 DEF Leaves
  <2>. QED BY ONLY <2>4, <2>10, <2>11, <2>12 DEF ScanKept
<1>7. CASE current \notin doomed
  <2>1. order' = order
    BY <1>7 DEF Visit
  <2>2. Len(order') - (limit' - index') = d + 1
    BY <1>1, <2>1
  <2>3. d \in Nat
    BY <1>1
  <2>. HIDE DEF d
  <2>4. \A i \in 1 .. index + 1 : i \in 1 .. index \/ i = index + 1
    BY <1>1
  <2>5. \A i \in 1 .. index : i \in 1 .. index + 1 /\ i < index + 1 /\ ~(index + 1 < i)
    BY <1>1
  <2>6. \A k \in 1 .. d + 1 : k \in 1 .. d \/ k = d + 1
    BY <2>3
  <2>7. \A k \in 1 .. d : k \in 1 .. d + 1 /\ ~(d + 1 < k)
    BY <2>3
  <2>8. \A i \in 1 .. index : present[i] # present[index + 1]
    BY <1>1, <1>3
  <2>9. d + 1 \in 1 .. d + 1 /\ ~(d + 1 < d + 1) /\ index + 1 \in 1 .. index + 1
    BY <1>1, <2>3
  <2>10. \A k \in 1 .. d + 1 : \E i \in 1 .. index + 1 : order[k] = present[i] /\ present[i] \notin doomed
    BY <1>2, <1>3, <1>7, <2>5, <2>6, <2>9
  <2>11. \A i \in 1 .. index + 1 : present[i] \notin doomed => \E k \in 1 .. d + 1 : order[k] = present[i]
    BY <1>2, <1>3, <2>4, <2>7, <2>9
  <2>12. ASSUME NEW j \in 1 .. d + 1, NEW k \in 1 .. d + 1, NEW i \in 1 .. index + 1,
                NEW l \in 1 .. index + 1, order[j] = present[i], order[k] = present[l], j < k
         PROVE  i < l
    <3>1. j \in 1 .. d
      BY <2>3, <2>12
    <3>2. i \in 1 .. index
      BY <1>2, <1>5, <2>4, <2>12, <3>1
    <3>3. CASE k = d + 1
      <4>1. l = index + 1
        BY <1>2, <2>4, <2>8, <2>12, <3>3
      <4>. QED BY <2>5, <3>2, <4>1
    <3>4. CASE k \in 1 .. d
      <4>1. l \in 1 .. index
        BY <1>2, <1>5, <2>4, <2>12, <3>4
      <4>. QED BY <1>3, <2>12, <3>1, <3>2, <3>4, <4>1
    <3>. QED BY <2>6, <3>3, <3>4
  <2>13. index' = index + 1 /\ present' = present /\ doomed' = doomed
    BY <1>1
  <2>14. \A i, l \in 1 .. Len(present) : present[i] = present[l] => i = l
    BY <1>3
  <2>15. \A j, k \in 1 .. d + 1, i, l \in 1 .. index + 1 :
            order[j] = present[i] /\ order[k] = present[l] /\ j < k => i < l
    BY <2>12
  <2>16. Leaves(order, present, doomed, index + 1, d + 1)
    BY ONLY <2>10, <2>11, <2>15 DEF Leaves
  <2>. QED BY ONLY <2>1, <2>2, <2>13, <2>14, <2>16 DEF ScanKept
<1>. QED BY <1>6, <1>7

\* A turn of a loop (_remove_uploaded_store_items).
LEMMA VisitStep ==
    ASSUME ListInv, Visit
    PROVE  ListInv'
<1> USE DEF ListInv
<1>1. PICK k \in 1 .. Len(order) : current = order[k]
  BY DEF Visit, Linked, InList
<1>2. /\ current \in Nodes
      /\ index' = index + 1 /\ index \in Nat /\ limit \in Nat /\ index < limit
      /\ limit' = limit /\ present' = present /\ loop' = loop
      /\ Len(order) \in Nat
      /\ \A i \in 1 .. Len(order) : order[i] \in Nodes
  BY LenProperties, ElementOfSeq DEF Visit, ListTypeOK, Pointers
<1>3. /\ visited' \in Seq(Nodes)
      /\ Len(visited') = Len(visited) + 1
      /\ visited'[Len(visited) + 1] = current
      /\ \A i \in 1 .. Len(visited) : visited'[i] = visited[i]
  BY <1>2, LenProperties DEF Visit, ListTypeOK
<1>4. Advanced = At(k + 1)
  BY <1>1, <1>2, NullAssumption DEF Advanced, Linked
<1>5. Advanced \in Pointers /\ (Advanced # Null => InList(Advanced))
  BY AdvancedInList
<1>6. /\ {head', last', current'} \subseteq Pointers /\ count' \in Nat
      /\ next' \in [Nodes -> Pointers] /\ prev' \in [Nodes -> Pointers]
      /\ order' \in Seq(Nodes)
      /\ Linked'
  <2>1. CASE current \in doomed
    <3>1. Unlink(order[k], Advanced)
      BY <1>1, <2>1 DEF Visit
    <3>2. QED
      BY <1>5, <3>1, UnlinkStep
  <2>2. CASE current \notin doomed
    BY <1>5, <2>2 DEF Visit, ListTypeOK, Linked, At, InList
  <2>3. QED
    BY <2>1, <2>2
<1>7. ListTypeOK'
  BY <1>2, <1>3, <1>6 DEF ListTypeOK, Visit
<1>8. ScanTail'
  <2> SUFFICES ASSUME loop = "scan"
               PROVE  ScanTail'
    BY <1>2 DEF ScanTail
  <2> DEFINE rest == limit - index
             d == Len(order) - rest
             \* At and the cursor after the step.
             AtNew(m) == IF m \in 1 .. Len(order') THEN order'[m] ELSE Null
  <2>1. /\ rest \in Nat \ {0} /\ rest <= Len(order) /\ d \in Nat
        /\ Len(order) = d + rest
        /\ limit = Len(present)
        /\ \A j \in 1 .. rest : order[d + j] = present[index + j]
        /\ current = At(d + 1)
        /\ Len(visited) = index
        /\ \A j \in 1 .. index : visited[j] = present[j]
    <3>1. /\ limit - index <= Len(order)
          /\ limit = Len(present)
          /\ \A j \in 1 .. limit - index :
                order[Len(order) - (limit - index) + j] = present[index + j]
          /\ current = At(Len(order) - (limit - index) + 1)
          /\ Len(visited) = index
          /\ \A j \in 1 .. index : visited[j] = present[j]
      BY DEF ScanTail
    <3>2. rest \in Nat \ {0} /\ d \in Nat /\ Len(order) = d + rest
      BY <1>2, <3>1
    <3>3. QED
      BY <3>1, <3>2
  <2>2. rest = limit - index
    OBVIOUS
  <2> HIDE DEF rest, d
  <2>3. k = d + 1
    <3>1. d + 1 \in 1 .. Len(order)
      BY <2>1
    <3>2. current = order[d + 1]
      BY <2>1, <3>1 DEF At
    <3>3. QED
      BY <1>1, <3>1, <3>2 DEF Linked
  <2>4. current = present[index + 1]
    <3>1. 1 \in 1 .. rest
      BY <2>1
    <3>2. QED
      BY <1>1, <2>1, <2>3, <3>1
  <2>5. /\ Len(visited') = index'
        /\ \A j \in 1 .. index' : visited'[j] = present'[j]
    BY <1>2, <1>3, <2>1, <2>4
  <2>6. /\ rest - 1 <= Len(order')
        /\ \A j \in 1 .. rest - 1 :
              order'[Len(order') - (rest - 1) + j] = present[(index + 1) + j]
        /\ current' = AtNew(Len(order') - (rest - 1) + 1)
    <3>1. CASE current \in doomed
      <4>1. Unlink(order[k], Advanced)
        BY <1>1, <3>1 DEF Visit
      <4>2. /\ Len(order') = Len(order) - 1
            /\ \A i \in 1 .. Len(order) - 1 :
                  order'[i] = IF i < k THEN order[i] ELSE order[i + 1]
        BY <1>5, <4>1, UnlinkStep
      <4>3. current' = At(k + 1)
        <5>1. next[order[k]] = At(k + 1)
          BY DEF Linked
        <5>2. QED
          BY <1>4, <4>1, <5>1 DEF Unlink, Slid
      <4>4. \A j \in 1 .. rest - 1 : order'[d + j] = present[(index + 1) + j]
        <5> SUFFICES ASSUME NEW j \in 1 .. rest - 1
                     PROVE  order'[d + j] = present[(index + 1) + j]
          OBVIOUS
        <5>1. /\ d + j \in 1 .. Len(order) - 1 /\ ~(d + j < k)
              /\ j + 1 \in 1 .. rest
              /\ (d + j) + 1 = d + (j + 1) /\ (index + 1) + j = index + (j + 1)
          BY <1>2, <2>1, <2>3
        <5>2. order'[d + j] = order[d + (j + 1)]
          BY <4>2, <5>1
        <5>3. order[d + (j + 1)] = present[index + (j + 1)]
          BY <2>1, <5>1
        <5>4. QED
          BY <5>1, <5>2, <5>3
      <4>5. Len(order') - (rest - 1) = d
        BY <2>1, <4>2
      <4>6. current' = AtNew(d + 1)
        <5>1. CASE rest = 1
          BY <2>1, <2>3, <4>2, <4>3, <5>1 DEF At
        <5>2. CASE rest # 1
          <6>1. /\ d + 1 \in 1 .. Len(order) - 1 /\ ~(d + 1 < k)
                /\ k + 1 \in 1 .. Len(order)
            BY <2>1, <2>3, <5>2
          <6>2. order'[d + 1] = order[k + 1]
            BY <2>3, <4>2, <6>1
          <6>3. QED
            BY <4>2, <4>3, <6>1, <6>2 DEF At
        <5>3. QED
          BY <5>1, <5>2
      <4>7. rest - 1 <= Len(order')
        BY <2>1, <4>2
      <4>8. QED
        BY <4>4, <4>5, <4>6, <4>7
    <3>2. CASE current \notin doomed
      <4>1. order' = order /\ current' = At(k + 1)
        BY <1>4, <3>2 DEF Visit
      <4>2. \A j \in 1 .. rest - 1 :
               order[(d + 1) + j] = present[(index + 1) + j]
        <5> SUFFICES ASSUME NEW j \in 1 .. rest - 1
                     PROVE  order[(d + 1) + j] = present[(index + 1) + j]
          OBVIOUS
        <5>1. j + 1 \in 1 .. rest /\ d + (j + 1) = (d + 1) + j
              /\ index + (j + 1) = (index + 1) + j
          BY <1>2, <2>1
        <5>2. QED
          BY <2>1, <5>1
      <4>3. Len(order') - (rest - 1) = d + 1
        BY <2>1, <4>1
      <4>4. current' = AtNew((d + 1) + 1)
        BY <2>3, <4>1 DEF At
      <4>5. rest - 1 <= Len(order')
        BY <2>1, <4>1
      <4>6. QED
        BY <4>1, <4>2, <4>3, <4>4, <4>5
    <3>3. QED
      BY <3>1, <3>2
  <2>7. limit' - index' = rest - 1
    BY <1>2, <2>2
  <2>8. /\ index' <= limit'
        /\ limit' = Len(present')
        /\ limit' - index' <= Len(order')
    BY <1>2, <2>1, <2>6, <2>7
  <2>9. \A j \in 1 .. limit' - index' :
           order'[Len(order') - (limit' - index') + j] = present'[index' + j]
    BY <1>2, <2>6, <2>7
  <2>10. current' = AtNew(Len(order') - (limit' - index') + 1)
    BY <2>6, <2>7
  <2> HIDE DEF AtNew
  <2>11. QED
    BY <2>5, <2>8, <2>9, <2>10 DEF ScanTail, At, AtNew
<1>9. QED
  BY <1>6, <1>7, <1>8, VisitKeeps

\* What the owner of the list does between loops.
LEMMA OwnerStep ==
    ASSUME ListInv, Add \/ TakeNext \/ Reset \/ Remove
    PROVE  ListInv'
<1> USE DEF ListInv, scan
<1>1. CASE Add
  <2>1. PICK n \in Nodes : Link(n)
    BY <1>1 DEF Add
  <2>2. QED
    BY <1>1, <2>1, LinkStep DEF Add, ListTypeOK, ScanTail, ScanKept, Leaves
<1>2. CASE TakeNext
  BY <1>2, AdvancedInList DEF TakeNext, ListTypeOK, ScanTail, ScanKept, Linked, At, InList
<1>3. CASE Reset
  BY <1>3 DEF Reset, ListTypeOK, ScanTail, ScanKept, Linked, At, InList
<1>4. CASE Remove
  <2>1. PICK k \in 1 .. Len(order) : Unlink(order[k], current)
    BY <1>4 DEF Remove, InList
  <2>2. current \in Pointers /\ (current # Null => InList(current))
    BY DEF ListTypeOK, Linked
  <2>3. /\ {head', last', current'} \subseteq Pointers /\ count' \in Nat
        /\ next' \in [Nodes -> Pointers] /\ prev' \in [Nodes -> Pointers]
        /\ order' \in Seq(Nodes)
        /\ Linked'
    BY <2>1, <2>2, UnlinkStep
  <2>4. QED
    BY <1>4, <2>3 DEF Remove, ListTypeOK, ScanTail, ScanKept, Leaves
<1>5. QED
  BY <1>1, <1>2, <1>3, <1>4

\* Loops begin and end.
LEMMA LoopStep ==
    ASSUME ListInv, StartScan \/ StartArray \/ ReadNull \/ End
    PROVE  ListInv'
<1> USE DEF ListInv, list
<1>1. CASE StartScan
  <2>1. order' = order /\ order \in Seq(Nodes) /\ Len(order) \in Nat
    BY <1>1, LenProperties DEF StartScan, ListTypeOK
  <2>2. ListTypeOK' /\ Linked'
    BY <1>1, <2>1, EmptySeq DEF StartScan, Start, ListTypeOK, Linked, At, InList
  <2>3. ScanTail'
    BY <1>1, <2>1 DEF StartScan, Start, Linked, ScanTail, At
  <2>4. ScanKept'
    BY <1>1, <2>1 DEF StartScan, Start, Linked, ScanKept, Leaves
  <2>5. QED
    BY <2>2, <2>3, <2>4
<1>2. CASE StartArray
  BY <1>2, EmptySeq DEF StartArray, Start, ListTypeOK, Linked, At, InList, ScanTail, ScanKept, Leaves
<1>3. CASE ReadNull
  BY <1>3 DEF ReadNull, ListTypeOK, Linked, At, InList, ScanTail, ScanKept, Leaves
<1>4. CASE End
  BY <1>4, EmptySeq DEF End, ListTypeOK, Linked, At, InList, ScanTail, ScanKept, Leaves
<1>5. QED
  BY <1>1, <1>2, <1>3, <1>4

\* The invariant the other theorems rest on.
THEOREM ListInvariance == ListSpec => []ListInv
<1>1. ASSUME ListInv, [ListNext]_listVars
      PROVE  ListInv'
  <2>1. CASE UNCHANGED listVars
    BY <1>1, <2>1 DEF listVars, list, scan, ListInv, ListTypeOK, Linked, At, InList, ScanTail, ScanKept, Leaves
  <2>2. QED
    BY <1>1, <2>1, VisitStep, OwnerStep, LoopStep DEF ListNext
<1>2. QED
  BY ListInitHolds, <1>1, PTL DEF ListSpec

\* The fields of the list and of its nodes are addresses or MCL_NULL.
THEOREM ListTypeCorrect == ListSpec => []ListTypeOK
<1>1. ListInv => ListTypeOK
  BY DEF ListInv
<1>2. QED
  BY <1>1, ListInvariance, PTL

\* mcl_list_add, mcl_list_next, mcl_list_reset and mcl_list_remove keep the list
\* linked, in any order of calls, and no pointer in use leads to a freed node.
THEOREM ListStaysLinked == ListSpec => []Linked
<1>1. ListInv => Linked
  BY DEF ListInv
<1>2. QED
  BY <1>1, ListInvariance, PTL

\* The loop of _remove_uploaded_store_items meets every node once, whatever it
\* removes on its way.
THEOREM ScanIsComplete == ListSpec => []ScanMeetsAll
<1>1. ASSUME ListInv
      PROVE  ScanMeetsAll
  <2> SUFFICES ASSUME loop = "scan"
               PROVE  /\ visited = SubSeq(present, 1, index)
                      /\ limit = Len(present)
                      /\ index < limit => current = present[index + 1]
    BY DEF ScanMeetsAll
  <2>1. /\ index \in Nat /\ limit \in Nat /\ index <= limit
        /\ limit = Len(present)
        /\ limit - index <= Len(order) /\ Len(order) \in Nat
        /\ \A k \in 1 .. limit - index :
              order[Len(order) - (limit - index) + k] = present[index + k]
        /\ current = At(Len(order) - (limit - index) + 1)
        /\ Len(visited) = index
        /\ \A k \in 1 .. index : visited[k] = present[k]
        /\ visited \in Seq(Nodes) /\ present \in Seq(Nodes)
    BY <1>1, LenProperties DEF ListInv, ListTypeOK, ScanTail
  <2>2. visited = SubSeq(present, 1, index)
    <3>1. \A i \in 1 .. index : present[i] \in Nodes
      BY <2>1, ElementOfSeq
    <3>2. /\ SubSeq(present, 1, index) \in Seq(Nodes)
          /\ Len(SubSeq(present, 1, index)) = index
          /\ \A i \in 1 .. index : SubSeq(present, 1, index)[i] = present[i]
      BY <2>1, <3>1, SubSeqProperties
    <3>3. QED
      BY <2>1, <3>2, SeqEqual
  <2>3. ASSUME index < limit
        PROVE  current = present[index + 1]
    <3>1. 1 \in 1 .. limit - index
      BY <2>1, <2>3
    <3>2. Len(order) - (limit - index) + 1 \in 1 .. Len(order)
      BY <2>1, <2>3
    <3>3. QED
      BY <2>1, <3>1, <3>2 DEF At
  <2>4. QED
    BY <2>1, <2>2, <2>3
<1>2. QED
  BY <1>1, ListInvariance, PTL

\* What _remove_uploaded_store_items leaves in the store is what it was not to remove, and in
\* the order it was in.
THEOREM ScanLeavesTheOthers == ListSpec => []ScanRemovesDoomed
<1>1. ASSUME ListInv
      PROVE  ScanRemovesDoomed
  <2>. SUFFICES ASSUME loop = "scan", index = limit
                PROVE  /\ \A n \in Nodes :
                             InList(n) <=> n \notin doomed /\ \E i \in 1 .. Len(present) : present[i] = n
                       /\ \A j, k \in 1 .. Len(order), i, l \in 1 .. Len(present) :
                             order[j] = present[i] /\ order[k] = present[l] /\ j < k => i < l
    BY DEF ScanRemovesDoomed
  <2>1. limit = Len(present) /\ index = Len(present) /\ Len(order) \in Nat /\ index \in Nat
    BY <1>1, LenProperties DEF ListInv, ScanTail, ListTypeOK
  <2>2. Len(order) - (limit - index) = Len(order)
    BY <2>1
  <2>. QED BY <1>1, <2>1, <2>2 DEF ListInv, ScanKept, Leaves, InList
<1>2. QED
  BY <1>1, ListInvariance, PTL

=============================================================================
