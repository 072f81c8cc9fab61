--------------------------- MODULE StockLocksProofs ---------------------------
(***************************************************************************)
(* Proof that the row-by-row transactions of StockLocks implement the      *)
(* reservations of StockReservation, for any numbers of orders, variants   *)
(* and requests.                                                           *)
(***************************************************************************)
EXTENDS StockLocks, TLAPS
-----------------------------------------------------------------------------
\* A sequence that is not empty holds its head and the items of its tail.
LEMMA TailItems ==
    ASSUME NEW s \in Seq(Variants), s # <<>>
    PROVE  /\ Head(s) \in Variants /\ Tail(s) \in Seq(Variants)
           /\ Items(s) \subseteq Items(Tail(s)) \cup {Head(s)}
  <1>1. Head(s) \in Variants /\ Tail(s) \in Seq(Variants)
    OBVIOUS
  <1>2. ASSUME NEW n \in DOMAIN s PROVE s[n] \in Items(Tail(s)) \cup {Head(s)}
    <2>1. CASE n = 1
      BY <2>1
    <2>2. CASE n # 1
      <3>1. n - 1 \in DOMAIN Tail(s) /\ Tail(s)[n - 1] = s[n]
        BY <2>2
      <3>2. QED
        BY <3>1 DEF Items
    <2>3. QED
      BY <2>1, <2>2
  <1>3. QED
    BY <1>1, <1>2 DEF Items

\* The empty sequence has no items.
LEMMA NoItems == Items(<<>>) = {}
  BY DEF Items

\* Giving locks back touches nobody else's.
LEMMA UnlockedOthers ==
    ASSUME NEW D, NEW t \in Transactions, NEW locks \in [D -> Holder]
    PROVE  /\ Unlocked(t, locks) \in [D -> Holder]
           /\ \A s \in Transactions, d \in D : s # t => (Unlocked(t, locks)[d] = s <=> locks[d] = s)
           /\ \A d \in D : Unlocked(t, locks)[d] # t
  BY LocksAssumption DEF Unlocked, Holder

\* The initial states satisfy the invariant.
LEMMA InitLocksInv == Init => LocksInv
  <1> SUFFICES ASSUME Init PROVE LocksInv
    OBVIOUS
  <1>1. NoUnits \in [Variants -> 0..MaxQuantity]
    BY LocksAssumption DEF NoUnits
  <1>2. Ended \in Transaction
    BY <1>1 DEF Ended, Transaction
  <1>3. TypeOK
    BY <1>1, <1>2, LocksAssumption DEF Init, TypeOK, Holder
  <1>4. ASSUME NEW t \in Transactions PROVE TxnOK(t)
    BY DEF Init, TxnOK, Claimed, Ends, Ended
  <1>5. QED
    BY <1>3, <1>4 DEF LocksInv

\* When a transaction ends, the others keep their records and their locks.
LEMMA EndKeepsOthers ==
    ASSUME LocksInv, NEW t \in Transactions, End(t)
    PROVE  /\ variantLock' \in [Variants -> Holder] /\ orderLock' \in [Orders -> Holder]
           /\ txn' \in [Transactions -> Transaction] /\ txn'[t] = Ended
           /\ \A s \in Transactions : s # t =>
                /\ txn'[s] = txn[s]
                /\ \A v \in Variants : variantLock'[v] = s <=> variantLock[v] = s
                /\ \A o \in Orders : orderLock'[o] = s <=> orderLock[o] = s
  <1>1. Ended \in Transaction
    BY LocksAssumption DEF Ended, Transaction, NoUnits
  <1>2. txn' \in [Transactions -> Transaction] /\ txn'[t] = Ended
        /\ \A s \in Transactions : s # t => txn'[s] = txn[s]
    BY <1>1 DEF LocksInv, TypeOK, End
  <1>3. variantLock \in [Variants -> Holder] /\ variantLock' = Unlocked(t, variantLock)
    BY DEF LocksInv, TypeOK, End
  <1>4. orderLock \in [Orders -> Holder] /\ orderLock' = Unlocked(t, orderLock)
    BY DEF LocksInv, TypeOK, End
  <1>5. /\ variantLock' \in [Variants -> Holder]
        /\ \A s \in Transactions, v \in Variants :
             s # t => (variantLock'[v] = s <=> variantLock[v] = s)
    BY <1>3, UnlockedOthers
  <1>6. /\ orderLock' \in [Orders -> Holder]
        /\ \A s \in Transactions, o \in Orders :
             s # t => (orderLock'[o] = s <=> orderLock[o] = s)
    BY <1>4, UnlockedOthers
  <1>7. QED
    BY <1>2, <1>5, <1>6

\* A transaction whose order has not changed, and whose variants have not, is
\* as before when another one ends.
LEMMA OthersKeepAtEnd ==
    ASSUME LocksInv, NEW t \in Transactions, NEW s \in Transactions, s # t, End(t),
           listed' = listed,
           \A v \in txn[s].taken : stock'[v] = stock[v],
           txn[s].kind # "none" =>
             /\ units'[txn[s].order] = units[txn[s].order]
             /\ \/ hold'[txn[s].order] = hold[txn[s].order]
                \/ Ends(s) /\ ~Claimed(s) /\ hold'[txn[s].order] # "none"
    PROVE  TxnOK(s)'
  <1>1. txn'[s] = txn[s] /\ txn'[t].kind = "none"
        /\ \A r \in Transactions : txn'[r].kind # "none" => txn'[r] = txn[r]
    BY EndKeepsOthers DEF Ended
  <1>2. TxnOK(s) /\ txn[s] \in Transaction
    BY DEF LocksInv, TypeOK
  <1>3. \A v \in txn[s].taken : variantLock'[v] = s <=> variantLock[v] = s
    BY <1>2, EndKeepsOthers DEF Transaction
  <1>4. Claimed(s)' <=> Claimed(s)
    BY <1>1, <1>2, EndKeepsOthers DEF Claimed, Ends, TxnOK
  <1>5. ASSUME txn[s].kind # "none"
        PROVE  /\ units'[txn[s].order] = units[txn[s].order]
               /\ txn[s].kind = "checkout" => hold'[txn[s].order] = "none"
               /\ Ends(s) => hold'[txn[s].order] # "none"
               /\ Claimed(s) => hold'[txn[s].order] = "reserved"
    BY <1>2, <1>5 DEF TxnOK, Ends
  <1>6. CASE txn[s].kind = "none"
    BY <1>1, <1>2, <1>3, <1>4, <1>6 DEF TxnOK, Claimed, Ends
  <1>7. CASE txn[s].kind # "none"
    <2>1. /\ txn'[s].order \in Orders
          /\ txn'[s].kind = "checkout" => hold'[txn'[s].order] = "none"
          /\ txn'[s].kind \in {"release", "consume"} => hold'[txn'[s].order] # "none"
          /\ Claimed(s)' => hold'[txn'[s].order] = "reserved"
      BY <1>1, <1>2, <1>4, <1>5, <1>7 DEF TxnOK, Ends
    <2>2. txn'[s].kind = "checkout" =>
            \A r \in Transactions : r # s /\ txn'[r].kind # "none" => txn'[r].order # txn'[s].order
      BY <1>1, <1>2 DEF TxnOK
    <2>3. /\ \A v \in txn'[s].taken : variantLock'[v] = s /\ v \in listed'
          /\ txn'[s].kind = "checkout" => \A v \in txn'[s].taken : stock'[v] >= txn'[s].wants[v]
      BY <1>1, <1>2, <1>3 DEF TxnOK
    <2>4. /\ txn'[s].kind = "consume" => txn'[s].taken = {} /\ txn'[s].todo = <<>>
          /\ txn'[s].kind = "checkout" /\ ~txn'[s].failed =>
               \A v \in Variants :
                 txn'[s].wants[v] > 0 => v \in txn'[s].taken \cup Items(txn'[s].todo)
      BY <1>1, <1>2 DEF TxnOK
    <2>5. txn'[s].kind = "release" =>
            \A v \in listed' :
              units'[txn'[s].order][v] > 0 => v \in txn'[s].taken \cup Items(txn'[s].todo)
      BY <1>1, <1>2, <1>5, <1>7 DEF TxnOK
    <2>6. QED
      BY <2>1, <2>2, <2>3, <2>4, <2>5 DEF TxnOK
  <1>8. QED
    BY <1>6, <1>7

\* What has ended satisfies its part of the invariant.
LEMMA EndedOK ==
    ASSUME LocksInv, NEW t \in Transactions, End(t)
    PROVE  TxnOK(t)'
  BY EndKeepsOthers DEF TxnOK, Claimed, Ends, Ended

\* A transaction that is undone leaves the others as they were.
LEMMA UndoKeepsInv ==
    ASSUME LocksInv, NEW t \in Transactions, End(t), UNCHANGED committed
    PROVE  LocksInv'
  <1>1. TypeOK'
    BY EndKeepsOthers DEF LocksInv, TypeOK, committed
  <1>2. ASSUME NEW s \in Transactions, s # t PROVE TxnOK(s)'
    <2>1. listed' = listed /\ stock' = stock /\ units' = units /\ hold' = hold
      BY DEF committed
    <2>2. /\ \A v \in txn[s].taken : stock'[v] = stock[v]
          /\ units'[txn[s].order] = units[txn[s].order]
          /\ hold'[txn[s].order] = hold[txn[s].order]
      BY <2>1
    <2>3. QED
      BY <1>2, <2>1, <2>2, OthersKeepAtEnd
  <1>3. QED
    BY <1>1, <1>2, EndedOK DEF LocksInv

\* An action of one transaction that changes its record and no committed row
\* keeps the invariant of the others.
LEMMA OthersKeep ==
    ASSUME LocksInv, NEW t \in Transactions, NEW s \in Transactions, s # t,
           UNCHANGED committed,
           NEW x \in Transaction, txn' = [txn EXCEPT ![t] = x],
           \A v \in Variants : variantLock[v] = s => variantLock'[v] = s,
           \A o \in Orders : orderLock'[o] = s => orderLock[o] = s,
           txn[s].kind = "checkout" /\ x.kind # "none" => x.order # txn[s].order
    PROVE  TxnOK(s)'
  <1>1. txn'[s] = txn[s] /\ txn'[t] = x
    BY DEF LocksInv, TypeOK
  <1>2. \A r \in Transactions : r # t => txn'[r] = txn[r]
    BY DEF LocksInv, TypeOK
  <1>3. TxnOK(s) /\ txn[s] \in Transaction
    BY DEF LocksInv, TypeOK
  <1>4. \A v \in txn[s].taken : v \in Variants
    BY <1>3 DEF Transaction
  <1>5. QED
    BY <1>1, <1>2, <1>3, <1>4 DEF TxnOK, Claimed, Ends, committed

\* A checkout begins.
LEMMA BeginCheckoutKeeps ==
    ASSUME LocksInv, NEW t \in Transactions, NEW o \in Orders, BeginCheckout(t, o)
    PROVE  LocksInv'
  <1>1. PICK cart \in Carts, wants \in [Variants -> 0..MaxQuantity] :
          /\ \A v \in Variants : wants[v] > 0 <=> v \in Items(cart)
          /\ txn' = [txn EXCEPT ![t] = [Ended EXCEPT !.kind = "checkout", !.order = o,
                                           !.wants = wants, !.todo = cart]]
    BY DEF BeginCheckout
  <1> DEFINE x == [Ended EXCEPT !.kind = "checkout", !.order = o,
                                !.wants = wants, !.todo = cart]
  <1>2. x \in Transaction /\ x.kind = "checkout" /\ x.order = o /\ x.wants = wants
        /\ x.todo = cart /\ x.taken = {}
    BY LocksAssumption DEF Transaction, Ended
  <1>3. txn' = [txn EXCEPT ![t] = x]
    BY <1>1
  <1> HIDE DEF x
  <1>4. /\ hold[o] = "none" /\ \A s \in Transactions : txn[s].order # o
        /\ UNCHANGED <<committed, variantLock, orderLock>>
    BY DEF BeginCheckout
  <1>5. TypeOK'
    BY <1>2, <1>3, <1>4 DEF LocksInv, TypeOK, committed
  <1>6. ASSUME NEW s \in Transactions PROVE TxnOK(s)'
    <2>1. CASE s = t
      <3>1. txn'[t] = x /\ \A r \in Transactions : r # t => txn'[r] = txn[r]
        BY <1>3 DEF LocksInv, TypeOK
      <3>2. QED
        BY <1>1, <1>2, <1>4, <2>1, <3>1 DEF TxnOK, Claimed, Ends, committed
    <2>2. CASE s # t
      BY <1>2, <1>3, <1>4, <2>2, OthersKeep
    <2>3. QED
      BY <2>1, <2>2
  <1>7. QED
    BY <1>5, <1>6 DEF LocksInv

\* An update of a checkout.
LEMMA TakeUnitsKeeps ==
    ASSUME LocksInv, NEW t \in Transactions, TakeUnits(t)
    PROVE  LocksInv'
  <1> DEFINE v == Head(txn[t].todo)
             more == [txn[t] EXCEPT !.todo = Tail(@), !.taken = @ \cup {v}]
             less == [txn[t] EXCEPT !.todo = Tail(@), !.failed = TRUE]
  <1>1. txn[t] \in Transaction /\ txn[t].kind = "checkout" /\ TxnOK(t)
    BY DEF LocksInv, TypeOK, TakeUnits
  <1>2. /\ v \in Variants /\ Tail(txn[t].todo) \in Seq(Variants)
        /\ Items(txn[t].todo) \subseteq Items(Tail(txn[t].todo)) \cup {v}
    <2>1. txn[t].todo \in Seq(Variants) /\ txn[t].todo # <<>>
      BY <1>1 DEF Transaction, TakeUnits
    <2>2. QED
      BY <2>1, TailItems
  <1>3. UNCHANGED <<committed, orderLock>>
    BY DEF TakeUnits
  <1>4. CASE Matches(t, v)
    <2>1. /\ variantLock[v] = None /\ variantLock' = [variantLock EXCEPT ![v] = t]
          /\ txn' = [txn EXCEPT ![t] = more]
      BY <1>4 DEF TakeUnits
    <2>2. /\ more \in Transaction /\ more.kind = "checkout" /\ more.order = txn[t].order
          /\ more.wants = txn[t].wants /\ more.taken = txn[t].taken \cup {v}
          /\ more.todo = Tail(txn[t].todo) /\ more.failed = txn[t].failed
      BY <1>1, <1>2 DEF Transaction
    <2> HIDE DEF more
    <2>3. TypeOK'
      BY <1>2, <1>3, <2>1, <2>2 DEF LocksInv, TypeOK, committed, Holder
    <2>4. ASSUME NEW s \in Transactions PROVE TxnOK(s)'
      <3>1. CASE s = t
        <4>1. txn'[t] = more /\ \A r \in Transactions : r # t => txn'[r] = txn[r]
          BY <2>1 DEF LocksInv, TypeOK
        <4>2. \A w \in more.taken : variantLock'[w] = t /\ w \in listed /\ stock[w] >= more.wants[w]
          BY <1>1, <1>2, <1>4, <2>1, <2>2 DEF TxnOK, Matches, LocksInv, TypeOK, Transaction
        <4>3. ~more.failed => \A w \in Variants : more.wants[w] > 0 => w \in more.taken \cup Items(more.todo)
          BY <1>1, <1>2, <2>2 DEF TxnOK
        <4>4. QED
          BY <1>1, <1>3, <2>2, <3>1, <4>1, <4>2, <4>3 DEF TxnOK, Claimed, Ends, committed
      <3>2. CASE s # t
        <4>1. \A w \in Variants : variantLock[w] = s => variantLock'[w] = s
          BY <2>1, LocksAssumption DEF LocksInv, TypeOK
        <4>2. txn[s].kind = "checkout" => more.order # txn[s].order
          BY <1>1, <2>2, <3>2 DEF TxnOK, LocksInv
        <4>3. QED
          BY <1>3, <2>1, <2>2, <3>2, <4>1, <4>2, OthersKeep
      <3>3. QED
        BY <3>1, <3>2
    <2>5. QED
      BY <2>3, <2>4 DEF LocksInv
  <1>5. CASE ~Matches(t, v)
    <2>1. UNCHANGED variantLock /\ txn' = [txn EXCEPT ![t] = less]
      BY <1>5 DEF TakeUnits
    <2>2. /\ less \in Transaction /\ less.kind = "checkout" /\ less.order = txn[t].order
          /\ less.wants = txn[t].wants /\ less.taken = txn[t].taken /\ less.failed
      BY <1>1, <1>2 DEF Transaction
    <2> HIDE DEF less
    <2>3. TypeOK'
      BY <1>3, <2>1, <2>2 DEF LocksInv, TypeOK, committed
    <2>4. ASSUME NEW s \in Transactions PROVE TxnOK(s)'
      <3>1. CASE s = t
        <4>1. txn'[t] = less /\ \A r \in Transactions : r # t => txn'[r] = txn[r]
          BY <2>1 DEF LocksInv, TypeOK
        <4>2. QED
          BY <1>1, <1>3, <2>1, <2>2, <3>1, <4>1 DEF TxnOK, Claimed, Ends, committed
      <3>2. CASE s # t
        <4>1. txn[s].kind = "checkout" => less.order # txn[s].order
          BY <1>1, <2>2, <3>2 DEF TxnOK, LocksInv
        <4>2. QED
          BY <1>3, <2>1, <2>2, <3>2, <4>1, OthersKeep
      <3>3. QED
        BY <3>1, <3>2
    <2>5. QED
      BY <2>3, <2>4 DEF LocksInv
  <1>6. QED
    BY <1>4, <1>5

\* A request to end a reservation begins.
LEMMA BeginEndKeeps ==
    ASSUME LocksInv, NEW t \in Transactions, NEW o \in Orders,
           NEW kind \in {"release", "consume"}, BeginEnd(t, o, kind)
    PROVE  LocksInv'
  <1>1. PICK items \in Carts :
          /\ \A v \in Variants : units[o][v] > 0 <=> v \in Items(items)
          /\ txn' = [txn EXCEPT ![t] = [Ended EXCEPT !.kind = kind, !.order = o,
                       !.todo = IF kind = "release" THEN items ELSE <<>>]]
    BY DEF BeginEnd
  <1> DEFINE x == [Ended EXCEPT !.kind = kind, !.order = o,
                                !.todo = IF kind = "release" THEN items ELSE <<>>]
  <1>2. x \in Transaction /\ x.kind = kind /\ x.order = o /\ x.taken = {}
        /\ x.todo = IF kind = "release" THEN items ELSE <<>>
    <2>1. NoUnits \in [Variants -> 0..MaxQuantity]
      BY LocksAssumption DEF NoUnits
    <2>2. (IF kind = "release" THEN items ELSE <<>>) \in Seq(Variants)
      BY LocksAssumption
    <2>3. QED
      BY <2>1, <2>2 DEF Transaction, Ended
  <1>3. txn' = [txn EXCEPT ![t] = x]
    BY <1>1
  <1> HIDE DEF x
  <1>4. hold[o] = "reserved" /\ UNCHANGED <<committed, variantLock, orderLock>>
    BY DEF BeginEnd
  <1>5. TypeOK'
    BY <1>2, <1>3, <1>4 DEF LocksInv, TypeOK, committed
  <1>6. ASSUME NEW s \in Transactions PROVE TxnOK(s)'
    <2>1. CASE s = t
      <3>1. txn'[t] = x /\ listed \subseteq Variants
        BY <1>3 DEF LocksInv, TypeOK
      <3>2. QED
        BY <1>1, <1>2, <1>4, <2>1, <3>1 DEF TxnOK, Claimed, Ends, committed
    <2>2. CASE s # t
      <3>1. txn[s].kind = "checkout" => x.order # txn[s].order
        BY <1>2, <1>4 DEF TxnOK, LocksInv
      <3>2. QED
        BY <1>2, <1>3, <1>4, <2>2, <3>1, OthersKeep
    <2>3. QED
      BY <2>1, <2>2
  <1>7. QED
    BY <1>5, <1>6 DEF LocksInv

\* An order's row is locked.
LEMMA ClaimOrderKeeps ==
    ASSUME LocksInv, NEW t \in Transactions, ClaimOrder(t)
    PROVE  LocksInv'
  <1> DEFINE o == txn[t].order
  <1>1. /\ txn[t].kind \in {"release", "consume"} /\ TxnOK(t)
        /\ orderLock[o] = None /\ hold[o] = "reserved"
        /\ orderLock' = [orderLock EXCEPT ![o] = t]
        /\ UNCHANGED <<committed, variantLock, txn>>
    BY DEF ClaimOrder, Ends, LocksInv
  <1>2. o \in Orders
    BY <1>1 DEF TxnOK
  <1>3. TypeOK'
    BY <1>1 DEF LocksInv, TypeOK, committed, Holder
  <1>4. ASSUME NEW s \in Transactions PROVE TxnOK(s)'
    <2>1. TxnOK(s)
      BY DEF LocksInv
    <2>2. Claimed(s)' => Claimed(s) \/ txn[s].order = o
      BY <1>1, <1>2 DEF Claimed, Ends, TxnOK, LocksInv, TypeOK
    <2>3. Claimed(s)' => hold[txn[s].order] = "reserved"
      BY <1>1, <2>1, <2>2 DEF TxnOK
    <2>4. QED
      BY <1>1, <2>1, <2>3 DEF TxnOK, committed
  <1>5. QED
    BY <1>3, <1>4 DEF LocksInv

\* An update of a release.
LEMMA ReturnUnitsKeeps ==
    ASSUME LocksInv, NEW t \in Transactions, ReturnUnits(t)
    PROVE  LocksInv'
  <1> DEFINE v == Head(txn[t].todo)
             more == [txn[t] EXCEPT !.todo = Tail(@), !.taken = @ \cup {v}]
             less == [txn[t] EXCEPT !.todo = Tail(@)]
  <1>1. /\ txn[t] \in Transaction /\ txn[t].kind = "release" /\ TxnOK(t)
        /\ hold[txn[t].order] = "reserved" /\ txn[t].order \in Orders
        /\ orderLock[txn[t].order] = t
    BY DEF LocksInv, TypeOK, ReturnUnits, Claimed, Ends, TxnOK
  <1>2. /\ v \in Variants /\ Tail(txn[t].todo) \in Seq(Variants)
        /\ Items(txn[t].todo) \subseteq Items(Tail(txn[t].todo)) \cup {v}
    <2>1. txn[t].todo \in Seq(Variants) /\ txn[t].todo # <<>>
      BY <1>1 DEF Transaction, ReturnUnits
    <2>2. QED
      BY <2>1, TailItems
  <1>3. UNCHANGED <<committed, orderLock>>
    BY DEF ReturnUnits
  <1>4. ASSUME NEW s \in Transactions, s # t, txn[s].kind = "checkout"
        PROVE  txn[t].order # txn[s].order
    BY <1>1, <1>4 DEF TxnOK, LocksInv
  <1>5. CASE v \in listed
    <2>1. /\ variantLock[v] = None /\ variantLock' = [variantLock EXCEPT ![v] = t]
          /\ txn' = [txn EXCEPT ![t] = more]
      BY <1>5 DEF ReturnUnits
    <2>2. /\ more \in Transaction /\ more.kind = "release" /\ more.order = txn[t].order
          /\ more.taken = txn[t].taken \cup {v} /\ more.todo = Tail(txn[t].todo)
      BY <1>1, <1>2 DEF Transaction
    <2> HIDE DEF more
    <2>3. TypeOK'
      BY <1>2, <1>3, <2>1, <2>2 DEF LocksInv, TypeOK, committed, Holder
    <2>4. ASSUME NEW s \in Transactions PROVE TxnOK(s)'
      <3>1. CASE s = t
        <4>1. txn'[t] = more /\ \A r \in Transactions : r # t => txn'[r] = txn[r]
          BY <2>1 DEF LocksInv, TypeOK
        <4>2. \A w \in more.taken : variantLock'[w] = t /\ w \in listed
          BY <1>1, <1>2, <1>5, <2>1, <2>2 DEF TxnOK, LocksInv, TypeOK, Transaction
        <4>3. \A w \in listed : units[more.order][w] > 0 => w \in more.taken \cup Items(more.todo)
          BY <1>1, <1>2, <2>2 DEF TxnOK
        <4>4. QED
          BY <1>1, <1>3, <2>2, <3>1, <4>1, <4>2, <4>3 DEF TxnOK, Claimed, Ends, committed
      <3>2. CASE s # t
        <4>1. \A w \in Variants : variantLock[w] = s => variantLock'[w] = s
          BY <2>1, LocksAssumption DEF LocksInv, TypeOK
        <4>2. QED
          BY <1>3, <1>4, <2>1, <2>2, <3>2, <4>1, OthersKeep
      <3>3. QED
        BY <3>1, <3>2
    <2>5. QED
      BY <2>3, <2>4 DEF LocksInv
  <1>6. CASE v \notin listed
    <2>1. UNCHANGED variantLock /\ txn' = [txn EXCEPT ![t] = less]
      BY <1>6 DEF ReturnUnits
    <2>2. /\ less \in Transaction /\ less.kind = "release" /\ less.order = txn[t].order
          /\ less.taken = txn[t].taken /\ less.todo = Tail(txn[t].todo)
      BY <1>1, <1>2 DEF Transaction
    <2> HIDE DEF less
    <2>3. TypeOK'
      BY <1>3, <2>1, <2>2 DEF LocksInv, TypeOK, committed
    <2>4. ASSUME NEW s \in Transactions PROVE TxnOK(s)'
      <3>1. CASE s = t
        <4>1. txn'[t] = less /\ \A r \in Transactions : r # t => txn'[r] = txn[r]
          BY <2>1 DEF LocksInv, TypeOK
        <4>2. \A w \in listed : units[less.order][w] > 0 => w \in less.taken \cup Items(less.todo)
          BY <1>1, <1>2, <1>6, <2>2 DEF TxnOK
        <4>3. QED
          BY <1>1, <1>3, <2>1, <2>2, <3>1, <4>1, <4>2 DEF TxnOK, Claimed, Ends, committed
      <3>2. CASE s # t
        BY <1>3, <1>4, <2>1, <2>2, <3>2, OthersKeep
      <3>3. QED
        BY <3>1, <3>2
    <2>5. QED
      BY <2>3, <2>4 DEF LocksInv
  <1>7. QED
    BY <1>5, <1>6

\* A checkout commits: it has a lock on all that it changes.
LEMMA CommitCheckoutKeeps ==
    ASSUME LocksInv, NEW t \in Transactions, CommitCheckout(t)
    PROVE  LocksInv'
  <1> DEFINE o == txn[t].order
  <1>1. /\ txn[t].kind = "checkout" /\ TxnOK(t) /\ txn[t] \in Transaction
        /\ o \in Orders /\ End(t) /\ listed' = listed
        /\ stock' = [v \in Variants |->
                       IF v \in txn[t].taken THEN stock[v] - txn[t].wants[v] ELSE stock[v]]
        /\ hold' = [hold EXCEPT ![o] = "reserved"]
        /\ units' = [units EXCEPT ![o] = txn[t].wants]
    BY DEF CommitCheckout, LocksInv, TypeOK, TxnOK
  <1>2. TypeOK'
    <2>1. ASSUME NEW v \in Variants PROVE stock'[v] \in Nat
      <3>1. stock[v] \in Nat /\ txn[t].wants[v] \in Nat
        BY <1>1, LocksAssumption DEF LocksInv, TypeOK, Transaction
      <3>2. v \in txn[t].taken => stock[v] >= txn[t].wants[v]
        BY <1>1 DEF TxnOK
      <3>3. QED
        BY <1>1, <3>1, <3>2
    <2>2. stock' \in [Variants -> Nat]
      BY <1>1, <2>1
    <2>3. units' \in [Orders -> [Variants -> 0..MaxQuantity]]
      BY <1>1 DEF LocksInv, TypeOK, Transaction
    <2>4. QED
      BY <1>1, <2>2, <2>3, EndKeepsOthers DEF LocksInv, TypeOK
  <1>3. ASSUME NEW s \in Transactions, s # t PROVE TxnOK(s)'
    <2>1. TxnOK(s) /\ txn[s] \in Transaction
      BY DEF LocksInv, TypeOK
    <2>2. \A v \in txn[s].taken : stock'[v] = stock[v]
      BY <1>1, <1>3, <2>1 DEF TxnOK, Transaction
    <2>3. txn[s].kind # "none" =>
            units'[txn[s].order] = units[txn[s].order] /\ hold'[txn[s].order] = hold[txn[s].order]
      BY <1>1, <1>3, <2>1 DEF TxnOK, LocksInv, TypeOK
    <2>4. QED
      BY <1>1, <1>3, <2>2, <2>3, OthersKeepAtEnd
  <1>4. QED
    BY <1>1, <1>2, <1>3, EndedOK DEF LocksInv

\* A release or consumption commits.
LEMMA CommitEndKeeps ==
    ASSUME LocksInv, NEW t \in Transactions, CommitEnd(t)
    PROVE  LocksInv'
  <1> DEFINE o == txn[t].order
  <1>1. /\ Claimed(t) /\ TxnOK(t) /\ txn[t] \in Transaction /\ Ends(t)
        /\ o \in Orders /\ End(t) /\ listed' = listed /\ units' = units
        /\ stock' = [v \in Variants |->
                       IF v \in txn[t].taken THEN stock[v] + units[o][v] ELSE stock[v]]
        /\ hold' = [hold EXCEPT ![o] = IF txn[t].kind = "release" THEN "released"
                                       ELSE "consumed"]
    BY DEF CommitEnd, LocksInv, TypeOK, TxnOK, Claimed, Ends
  <1>2. TypeOK'
    <2>1. ASSUME NEW v \in Variants PROVE stock'[v] \in Nat
      <3>1. stock[v] \in Nat /\ units[o][v] \in Nat
        BY <1>1, LocksAssumption DEF LocksInv, TypeOK
      <3>2. QED
        BY <1>1, <3>1
    <2>2. stock' \in [Variants -> Nat]
      BY <1>1, <2>1
    <2>3. QED
      BY <1>1, <2>2, EndKeepsOthers DEF LocksInv, TypeOK
  <1>3. ASSUME NEW s \in Transactions, s # t PROVE TxnOK(s)'
    <2>1. TxnOK(s) /\ txn[s] \in Transaction
      BY DEF LocksInv, TypeOK
    <2>2. \A v \in txn[s].taken : stock'[v] = stock[v]
      BY <1>1, <1>3, <2>1 DEF TxnOK, Transaction
    <2>3. ASSUME txn[s].kind # "none"
          PROVE  \/ hold'[txn[s].order] = hold[txn[s].order]
                 \/ Ends(s) /\ ~Claimed(s) /\ hold'[txn[s].order] # "none"
      <3>1. CASE txn[s].order = o
        <4>1. hold[o] = "reserved" /\ orderLock[o] = t
          BY <1>1 DEF TxnOK, Claimed
        <4>2. Ends(s) /\ ~Claimed(s)
          BY <1>3, <2>1, <2>3, <3>1, <4>1 DEF TxnOK, Claimed, Ends, Transaction
        <4>3. hold'[o] # "none"
          BY <1>1 DEF LocksInv, TypeOK
        <4>4. QED
          BY <3>1, <4>2, <4>3
      <3>2. CASE txn[s].order # o
        BY <1>1, <2>1, <2>3, <3>2 DEF TxnOK, LocksInv, TypeOK
      <3>3. QED
        BY <3>1, <3>2
    <2>4. QED
      BY <1>1, <1>3, <2>2, <2>3, OthersKeepAtEnd
  <1>4. QED
    BY <1>1, <1>2, <1>3, EndedOK DEF LocksInv

\* The owner changes only rows that no transaction holds.
LEMMA OwnerKeeps ==
    ASSUME LocksInv, NEW v \in Variants, Restock(v) \/ Delist(v)
    PROVE  LocksInv'
  <1>1. /\ variantLock[v] = None /\ UNCHANGED <<hold, units, variantLock, orderLock, txn>>
        /\ \A w \in Variants : w # v => stock'[w] = stock[w]
        /\ listed' \subseteq listed /\ listed \subseteq listed' \cup {v}
    BY DEF Restock, Delist, LocksInv, TypeOK
  <1>2. TypeOK'
    <2>1. stock' \in [Variants -> Nat]
      <3>1. CASE Restock(v)
        <4>1. PICK n \in 0..MaxStock : stock' = [stock EXCEPT ![v] = n]
          BY <3>1 DEF Restock
        <4>2. n \in Nat
          BY LocksAssumption
        <4>3. QED
          BY <4>1, <4>2 DEF LocksInv, TypeOK
      <3>2. CASE Delist(v)
        BY <3>2 DEF Delist, LocksInv, TypeOK
      <3>3. QED
        BY <3>1, <3>2
    <2>2. QED
      BY <1>1, <2>1 DEF LocksInv, TypeOK
  <1>3. ASSUME NEW s \in Transactions PROVE TxnOK(s)'
    <2>1. TxnOK(s) /\ txn[s] \in Transaction
      BY DEF LocksInv, TypeOK
    <2>2. \A w \in txn[s].taken : w \in Variants /\ w # v
      BY <1>1, <2>1, LocksAssumption DEF TxnOK, Transaction
    <2>3. QED
      BY <1>1, <2>1, <2>2 DEF TxnOK, Claimed, Ends
  <1>4. QED
    BY <1>2, <1>3 DEF LocksInv
-----------------------------------------------------------------------------
\* Every step keeps the invariant.
LEMMA NextLocksInv == LocksInv /\ [Next]_vars => LocksInv'
  <1> SUFFICES ASSUME LocksInv, [Next]_vars PROVE LocksInv'
    OBVIOUS
  <1>1. ASSUME NEW t \in Transactions, NEW o \in Orders, BeginCheckout(t, o) PROVE LocksInv'
    BY <1>1, BeginCheckoutKeeps
  <1>2. ASSUME NEW t \in Transactions, NEW o \in Orders,
               NEW kind \in {"release", "consume"}, BeginEnd(t, o, kind)
        PROVE  LocksInv'
    BY <1>2, BeginEndKeeps
  <1>3. ASSUME NEW t \in Transactions, TransactionStep(t) PROVE LocksInv'
    <2>1. CASE TakeUnits(t)
      BY <2>1, TakeUnitsKeeps
    <2>2. CASE CommitCheckout(t)
      BY <2>2, CommitCheckoutKeeps
    <2>3. CASE Reject(t)
      BY <2>3, UndoKeepsInv DEF Reject, Undo
    <2>4. CASE ClaimOrder(t)
      BY <2>4, ClaimOrderKeeps
    <2>5. CASE MissOrder(t)
      BY <2>5, UndoKeepsInv DEF MissOrder
    <2>6. CASE ReturnUnits(t)
      BY <2>6, ReturnUnitsKeeps
    <2>7. CASE CommitEnd(t)
      BY <2>7, CommitEndKeeps
    <2>8. QED
      BY <1>3, <2>1, <2>2, <2>3, <2>4, <2>5, <2>6, <2>7 DEF TransactionStep
  <1>4. ASSUME NEW t \in Transactions, BreakDeadlock(t) PROVE LocksInv'
    BY <1>4, UndoKeepsInv DEF BreakDeadlock
  <1>5. ASSUME NEW t \in Transactions, Abort(t) PROVE LocksInv'
    BY <1>5, UndoKeepsInv DEF Abort, Undo
  <1>6. ASSUME NEW v \in Variants, Restock(v) \/ Delist(v) PROVE LocksInv'
    BY <1>6, OwnerKeeps
  <1>7. CASE UNCHANGED vars
    <2>1. TypeOK'
      BY <1>7 DEF LocksInv, TypeOK, vars, committed
    <2>2. ASSUME NEW s \in Transactions PROVE TxnOK(s)'
      BY <1>7 DEF LocksInv, TxnOK, Claimed, Ends, vars, committed
    <2>3. QED
      BY <2>1, <2>2 DEF LocksInv
  <1>8. QED
    BY <1>1, <1>2, <1>3, <1>4, <1>5, <1>6, <1>7 DEF Next

\* Whatever the transactions do, each has the locks its commit needs.
THEOREM LocksAreSufficient == Spec => []LocksInv
  BY InitLocksInv, NextLocksInv, PTL DEF Spec
-----------------------------------------------------------------------------
ReservationStep == [Reservation!Next]_(Reservation!vars)

\* A checkout that commits takes all of its order's units at once.
LEMMA CommitReserves ==
    ASSUME LocksInv, NEW t \in Transactions, CommitCheckout(t)
    PROVE  ReservationStep
  <1> DEFINE o == txn[t].order
             wants == txn[t].wants
  <1>1. /\ txn[t].kind = "checkout" /\ txn[t].todo = <<>> /\ ~txn[t].failed
        /\ stock' = [v \in Variants |->
                       IF v \in txn[t].taken THEN stock[v] - wants[v] ELSE stock[v]]
        /\ hold' = [hold EXCEPT ![o] = "reserved"] /\ units' = [units EXCEPT ![o] = wants]
        /\ UNCHANGED listed
    BY DEF CommitCheckout
  <1>2. TxnOK(t) /\ txn[t] \in Transaction /\ TypeOK
    BY DEF LocksInv, TypeOK
  <1>3. o \in Orders /\ wants \in [Variants -> 0..MaxQuantity] /\ hold[o] = "none"
    BY <1>1, <1>2 DEF TxnOK, Transaction
  <1>4. ASSUME NEW v \in Variants
        PROVE  /\ wants[v] > 0 => v \in txn[t].taken
               /\ v \in txn[t].taken => v \in listed /\ wants[v] <= stock[v]
               /\ stock[v] \in Nat /\ wants[v] \in Nat
    <2>1. wants[v] > 0 => v \in txn[t].taken
      BY <1>1, <1>2, NoItems DEF TxnOK
    <2>2. stock[v] \in Nat /\ wants[v] \in Nat
      BY <1>2, <1>3, LocksAssumption DEF TypeOK
    <2>3. v \in txn[t].taken => v \in listed /\ stock[v] >= wants[v]
      BY <1>1, <1>2 DEF TxnOK
    <2>4. QED
      BY <2>1, <2>2, <2>3
  <1> HIDE DEF o, wants
  <1>5. stock' = [v \in Variants |-> stock[v] - wants[v]]
    BY <1>1, <1>4
  <1>6. Reservation!Reserve(o, wants)
    BY <1>1, <1>3, <1>4, <1>5 DEF Reservation!Reserve
  <1>7. QED
    BY <1>3, <1>6 DEF ReservationStep, Reservation!Next

\* A release that commits gives back the units of what is still listed, a
\* consumption leaves the stock alone.
LEMMA CommitEndsReservation ==
    ASSUME LocksInv, NEW t \in Transactions, CommitEnd(t)
    PROVE  ReservationStep
  <1> DEFINE o == txn[t].order
  <1>1. /\ Claimed(t) /\ Ends(t) /\ txn[t].todo = <<>>
        /\ stock' = [v \in Variants |->
                       IF v \in txn[t].taken THEN stock[v] + units[o][v] ELSE stock[v]]
        /\ hold' = [hold EXCEPT ![o] = IF txn[t].kind = "release" THEN "released"
                                       ELSE "consumed"]
        /\ UNCHANGED <<listed, units>>
    BY DEF CommitEnd, Claimed
  <1>2. TxnOK(t) /\ txn[t] \in Transaction /\ TypeOK
    BY DEF LocksInv, TypeOK
  <1>3. o \in Orders /\ hold[o] = "reserved"
    BY <1>1, <1>2 DEF TxnOK, Ends
  <1>4. \A v \in Variants : stock[v] \in Nat /\ units[o][v] \in Nat
    BY <1>2, <1>3, LocksAssumption DEF TypeOK
  <1>5. CASE txn[t].kind = "release"
    <2>1. ASSUME NEW v \in Variants
          PROVE  stock'[v] = IF v \in listed THEN stock[v] + units[o][v] ELSE stock[v]
      <3>1. v \in listed /\ units[o][v] > 0 => v \in txn[t].taken
        BY <1>1, <1>2, <1>5, NoItems DEF TxnOK
      <3>2. v \in txn[t].taken => v \in listed
        BY <1>2 DEF TxnOK
      <3>3. QED
        BY <1>1, <1>4, <3>1, <3>2
    <2>2. stock' = [v \in Variants |-> IF v \in listed THEN stock[v] + units[o][v] ELSE stock[v]]
      BY <1>1, <2>1
    <2>3. hold' = [hold EXCEPT ![o] = "released"]
      BY <1>1, <1>5
    <2>4. Reservation!Release(o)
      BY <1>1, <1>3, <2>2, <2>3 DEF Reservation!Release
    <2>5. QED
      BY <1>3, <2>4 DEF ReservationStep, Reservation!Next
  <1>6. CASE txn[t].kind = "consume"
    <2>1. txn[t].taken = {}
      BY <1>2, <1>6 DEF TxnOK
    <2>2. stock' = stock
      BY <1>1, <1>2, <2>1 DEF TypeOK
    <2>3. hold' = [hold EXCEPT ![o] = "consumed"]
      BY <1>1, <1>6
    <2>4. Reservation!Consume(o)
      BY <1>1, <1>3, <2>2, <2>3 DEF Reservation!Consume
    <2>5. QED
      BY <1>3, <2>4 DEF ReservationStep, Reservation!Next
  <1>7. QED
    BY <1>1, <1>5, <1>6 DEF Ends

\* What is not committed is a stutter.
LEMMA UncommittedStutters ==
    ASSUME UNCHANGED committed
    PROVE  ReservationStep
  BY DEF committed, ReservationStep, Reservation!vars

\* Every step of the transactions is a step of the abstract reservation, or none.
LEMMA StepImplements == LocksInv /\ [Next]_vars => ReservationStep
  <1> SUFFICES ASSUME LocksInv, [Next]_vars PROVE ReservationStep
    OBVIOUS
  <1>1. ASSUME NEW t \in Transactions, NEW o \in Orders, BeginCheckout(t, o)
        PROVE  ReservationStep
    BY <1>1, UncommittedStutters DEF BeginCheckout
  <1>2. ASSUME NEW t \in Transactions, NEW o \in Orders,
               NEW kind \in {"release", "consume"}, BeginEnd(t, o, kind)
        PROVE  ReservationStep
    BY <1>2, UncommittedStutters DEF BeginEnd
  <1>3. ASSUME NEW t \in Transactions, TransactionStep(t) PROVE ReservationStep
    <2>1. CASE TakeUnits(t)
      BY <2>1, UncommittedStutters DEF TakeUnits
    <2>2. CASE CommitCheckout(t)
      BY <2>2, CommitReserves
    <2>3. CASE Reject(t)
      BY <2>3, UncommittedStutters DEF Reject
    <2>4. CASE ClaimOrder(t)
      BY <2>4, UncommittedStutters DEF ClaimOrder
    <2>5. CASE MissOrder(t)
      BY <2>5, UncommittedStutters DEF MissOrder
    <2>6. CASE ReturnUnits(t)
      BY <2>6, UncommittedStutters DEF ReturnUnits
    <2>7. CASE CommitEnd(t)
      BY <2>7, CommitEndsReservation
    <2>8. QED
      BY <1>3, <2>1, <2>2, <2>3, <2>4, <2>5, <2>6, <2>7 DEF TransactionStep
  <1>4. ASSUME NEW t \in Transactions, BreakDeadlock(t) PROVE ReservationStep
    BY <1>4, UncommittedStutters DEF BreakDeadlock
  <1>5. ASSUME NEW t \in Transactions, Abort(t) PROVE ReservationStep
    BY <1>5, UncommittedStutters DEF Abort
  <1>6. ASSUME NEW v \in Variants, Restock(v) PROVE ReservationStep
    <2>1. Reservation!Restock(v)
      BY <1>6 DEF Restock, Reservation!Restock
    <2>2. QED
      BY <2>1 DEF ReservationStep, Reservation!Next
  <1>7. ASSUME NEW v \in Variants, Delist(v) PROVE ReservationStep
    <2>1. Reservation!Delist(v)
      BY <1>7 DEF Delist, Reservation!Delist
    <2>2. QED
      BY <2>1 DEF ReservationStep, Reservation!Next
  <1>8. CASE UNCHANGED vars
    BY <1>8, UncommittedStutters DEF vars
  <1>9. QED
    BY <1>1, <1>2, <1>3, <1>4, <1>5, <1>6, <1>7, <1>8 DEF Next

\* Taking units row by row under locks, in any order, with deadlocks, failures of
\* Stripe and lost connections, is taking them at once.
THEOREM LocksImplement == Spec => ReservationSpec
  <1>1. Init => Reservation!Init
    BY DEF Init, Reservation!Init, NoUnits
  <1>2. LocksInv /\ [Next]_vars => [Reservation!Next]_(Reservation!vars)
    BY StepImplements DEF ReservationStep
  <1>3. QED
    BY <1>1, <1>2, LocksAreSufficient, PTL DEF Spec, ReservationSpec, Reservation!Spec
=============================================================================
