------------------------- MODULE AddressBookProofs -------------------------
(***************************************************************************)
(* A customer has at most one default address, for any number of addresses *)
(* and of requests in flight.  The statements of AddressBook change the    *)
(* table in four ways only: a request writes its version of a row, writes  *)
(* a default one, ends without a trace, or commits.  Each is a lemma.      *)
(* The second half is about a request that nobody has overlapped: it sees  *)
(* the committed rows and its own, so it neither fails nor loses a default.*)
(***************************************************************************)
EXTENDS AddressBook, TLAPS

TableOK == /\ rows \in [Addresses -> RowState]
           /\ lock \in [Addresses -> Procs \cup {None}]
           /\ new \in [Addresses -> RowState]

Safe == TableOK /\ AtMostOneDefault /\ PendingDefaultIsAlone

\* A request that writes a row its transaction may write, and does not make it
\* a default one, keeps the table safe.
LEMMA PlainWrite ==
    ASSUME Safe, NEW p \in Procs, NEW a \in Addresses, Free(p, a),
           NEW v \in RowState, v # "default",
           Write(p, a, v), UNCHANGED rows
    PROVE  Safe'
<1>1. TableOK'
  BY DEF Safe, TableOK, Write
<1>2. AtMostOneDefault'
  BY DEF Safe, AtMostOneDefault
<1>3. ASSUME NEW b \in Addresses, NEW c \in Addresses,
             b # c, lock'[b] # None, new'[b] = "default"
      PROVE  Excludes(b, c)'
  <2>1. b # a /\ lock'[b] = lock[b] /\ new'[b] = new[b]
    BY <1>3 DEF Safe, TableOK, Write
  <2>2. Excludes(b, c)
    BY <1>3, <2>1 DEF Safe, PendingDefaultIsAlone
  <2>3. CASE c = a
    <3>1. lock'[a] = p /\ new'[a] = v /\ rows'[a] = rows[a]
      BY DEF Safe, TableOK, Write
    <3> QED
      BY <1>3, <2>1, <2>2, <2>3, <3>1, ProcsAssumption DEF Free, Excludes
  <2>4. CASE c # a
    <3>1. lock'[c] = lock[c] /\ new'[c] = new[c] /\ rows'[c] = rows[c]
      BY <2>4 DEF Safe, TableOK, Write
    <3> QED
      BY <2>1, <2>2, <3>1 DEF Excludes
  <2> QED
    BY <2>3, <2>4
<1> QED
  BY <1>1, <1>2, <1>3 DEF Safe, PendingDefaultIsAlone

\* A request that writes a default row finds no other that stands, and has
\* awaited the transactions that might leave one.
LEMMA DefaultWrite ==
    ASSUME Safe, NEW p \in Procs, NEW a \in Addresses, Free(p, a),
           ~AwaitsDefault(p, a), ~ClashesWithDefault(p, a),
           Write(p, a, "default"), UNCHANGED rows
    PROVE  Safe'
<1>1. TableOK'
  BY DEF Safe, TableOK, Write, RowState
<1>2. AtMostOneDefault'
  BY DEF Safe, AtMostOneDefault
<1>3. ASSUME NEW b \in Addresses, NEW c \in Addresses,
             b # c, lock'[b] # None, new'[b] = "default"
      PROVE  Excludes(b, c)'
  <2>1. lock'[a] = p /\ new'[a] = "default" /\ rows'[a] = rows[a]
    BY DEF Safe, TableOK, Write
  <2>2. \A d \in Addresses \ {a} :
           lock'[d] = lock[d] /\ new'[d] = new[d] /\ rows'[d] = rows[d]
    BY DEF Safe, TableOK, Write
  <2>3. CASE b = a
    <3>1. lock'[c] = lock[c] /\ new'[c] = new[c] /\ rows'[c] = rows[c]
      BY <1>3, <2>2, <2>3
    <3>2. /\ lock[c] \in {p, None} => Seen(p, c) # "default"
          /\ lock[c] \notin {p, None} => "default" \notin {rows[c], new[c]}
      BY <1>3, <2>3 DEF AwaitsDefault, ClashesWithDefault, Free
    <3> QED
      BY <2>1, <2>3, <3>1, <3>2, ProcsAssumption DEF Excludes, Seen
  <2>4. CASE b # a
    \* A default row another transaction has written would have been awaited,
    \* and one of this transaction would have clashed.
    <3>1. lock[b] # None /\ new[b] = "default"
      BY <1>3, <2>2, <2>4
    <3>2. CASE lock[b] = p
      BY <2>4, <3>1, <3>2 DEF ClashesWithDefault, Free, Seen
    <3>3. CASE lock[b] # p
      BY <2>4, <3>1, <3>3 DEF AwaitsDefault, Free
    <3> QED
      BY <3>2, <3>3
  <2> QED
    BY <2>3, <2>4
<1> QED
  BY <1>1, <1>2, <1>3 DEF Safe, PendingDefaultIsAlone

\* Rewriting a default row as it is needs no check: the row already excludes
\* every other.
LEMMA DefaultStands ==
    ASSUME Safe, NEW p \in Procs, NEW a \in Addresses, Free(p, a),
           Seen(p, a) = "default"
    PROVE  ~AwaitsDefault(p, a) /\ ~ClashesWithDefault(p, a)
<1> SUFFICES ASSUME NEW b \in Addresses, b # a
             PROVE  /\ ~Free(p, b) => "default" \notin {rows[b], new[b]}
                    /\ Free(p, b) => Seen(p, b) # "default"
  BY DEF AwaitsDefault, ClashesWithDefault
<1>1. CASE lock[a] = p
  <2>1. Excludes(a, b)
    BY <1>1, ProcsAssumption DEF Safe, PendingDefaultIsAlone, Seen
  <2> QED
    BY <1>1, <2>1, ProcsAssumption DEF Excludes, Free, Seen
<1>2. CASE lock[a] # p
  <2>1. lock[a] = None /\ rows[a] = "default"
    BY <1>2 DEF Free, Seen
  <2>2. rows[b] # "default"
    BY <2>1 DEF Safe, AtMostOneDefault
  <2>3. lock[b] # None /\ new[b] = "default" => Excludes(b, a)
    BY DEF Safe, PendingDefaultIsAlone
  <2>4. lock[b] # None => new[b] # "default"
    BY <2>1, <2>3 DEF Excludes
  <2> QED
    BY <2>2, <2>4, ProcsAssumption DEF Free, Seen
<1> QED
  BY <1>1, <1>2

\* A rollback gives every row of the transaction back as it was.
LEMMA RollbackIsSafe ==
    ASSUME Safe, NEW p \in Procs, Rollback(p) PROVE Safe'
<1>1. TableOK'
  BY DEF Safe, TableOK, Rollback, EndTx
<1>2. AtMostOneDefault'
  BY DEF Safe, AtMostOneDefault, Rollback
<1>3. ASSUME NEW a \in Addresses
      PROVE  /\ lock'[a] = IF lock[a] = p THEN None ELSE lock[a]
             /\ new'[a] = new[a] /\ rows'[a] = rows[a]
  BY DEF Rollback, EndTx
<1>4. ASSUME NEW b \in Addresses, NEW c \in Addresses,
             b # c, lock'[b] # None, new'[b] = "default"
      PROVE  Excludes(b, c)'
  <2>1. Excludes(b, c)
    BY <1>3, <1>4 DEF Safe, PendingDefaultIsAlone
  <2> QED
    BY <1>3, <1>4, <2>1, ProcsAssumption DEF Excludes
<1> QED
  BY <1>1, <1>2, <1>4 DEF Safe, PendingDefaultIsAlone
-----------------------------------------------------------------------------
\* A commit publishes at most one default row, and none beside a committed one.
LEMMA CommitIsSafe ==
    ASSUME Safe, NEW p \in Procs, Commit(p) PROVE Safe'
<1>1. ASSUME NEW a \in Addresses
      PROVE  /\ lock'[a] = IF lock[a] = p THEN None ELSE lock[a]
             /\ new'[a] = new[a]
             /\ rows'[a] = IF lock[a] = p THEN new[a] ELSE rows[a]
  BY DEF Commit, EndTx, Seen
<1>2. TableOK'
  BY DEF Safe, TableOK, Commit, EndTx, Seen
<1>3. ASSUME NEW a \in Addresses, NEW b \in Addresses, a # b,
             lock[a] = p, rows'[a] = "default", rows'[b] = "default"
      PROVE  FALSE
  <2>1. Excludes(a, b)
    BY <1>1, <1>3, ProcsAssumption DEF Safe, PendingDefaultIsAlone
  <2> QED
    BY <1>1, <1>3, <2>1, ProcsAssumption DEF Excludes
<1>4. AtMostOneDefault'
  BY <1>1, <1>3 DEF Safe, AtMostOneDefault
<1>5. ASSUME NEW b \in Addresses, NEW c \in Addresses,
             b # c, lock'[b] # None, new'[b] = "default"
      PROVE  Excludes(b, c)'
  <2>1. lock[b] # p /\ Excludes(b, c)
    BY <1>1, <1>5 DEF Safe, PendingDefaultIsAlone
  <2> QED
    BY <1>1, <1>5, <2>1, ProcsAssumption DEF Excludes
<1> QED
  BY <1>2, <1>4, <1>5 DEF Safe, PendingDefaultIsAlone

\* A statement or an arrival that leaves the table alone.
LEMMA Untouched ==
    ASSUME Safe, UNCHANGED <<rows, lock, new>> PROVE Safe'
BY DEF Safe, TableOK, AtMostOneDefault, PendingDefaultIsAlone, Excludes
-----------------------------------------------------------------------------
\* The requests in flight keep their types.
LEMMA RequestsKeepTypes ==
    ASSUME TypeOK, NEW p \in Procs, Arrive(p) \/ Statement(p)
    PROVE  tx' \in [Procs -> Request \cup {Idle}]
<1>1. ASSUME NEW op \in Operations, NEW a \in Addresses,
             NEW wants \in BOOLEAN \cup {None}, NEW was \in BOOLEAN,
             NEW dirty \in BOOLEAN, NEW step \in Steps,
             Begin(p, op, a, wants, was, dirty, step)
      PROVE  tx' \in [Procs -> Request \cup {Idle}]
  BY <1>1 DEF TypeOK, Begin, Request
<1>2. ASSUME NEW r \in Request, tx' = [tx EXCEPT ![p] = r]
      PROVE  tx' \in [Procs -> Request \cup {Idle}]
  BY <1>2 DEF TypeOK
<1>0. ASSUME NEW step \in Steps, tx[p] # Idle, GoTo(p, step)
      PROVE  tx' \in [Procs -> Request \cup {Idle}]
  <2>1. tx[p] \in Request
    BY <1>0 DEF TypeOK
  <2>2. tx' = [tx EXCEPT ![p] = [tx[p] EXCEPT !.at = step]]
    BY <1>0 DEF GoTo
  <2>3. [tx[p] EXCEPT !.at = step] \in Request
    BY <2>1 DEF Request
  <2> QED
    BY <1>2, <2>2, <2>3
<1>3. ASSUME Rollback(p) \/ Commit(p)
      PROVE  tx' \in [Procs -> Request \cup {Idle}]
  BY <1>3 DEF TypeOK, Rollback, Commit, EndTx
<1>4. ASSUME Arrive(p) PROVE tx' \in [Procs -> Request \cup {Idle}]
  <2>1. CASE CreateAddress(p)
    BY <1>1, <2>1 DEF CreateAddress, Operations, Steps
  <2>2. CASE UpdateAddress(p)
    <3>1. PICK a \in Addresses, wants \in BOOLEAN \cup {None}, dirty \in BOOLEAN,
               step \in Steps :
             Begin(p, "update", a, wants, rows[a] = "default", dirty, step)
      BY <2>2 DEF UpdateAddress, Steps
    <3>2. "update" \in Operations /\ (rows[a] = "default") \in BOOLEAN
      BY DEF Operations
    <3> QED
      BY <1>1, <3>1, <3>2
  <2>3. CASE DeleteAddress(p)
    BY <1>1, <2>3 DEF DeleteAddress, Operations, Steps
  <2>4. CASE SetDefaultAddress(p)
    BY <1>1, <2>4 DEF SetDefaultAddress, Operations, Steps, FirstStep
  <2> QED
    BY <1>4, <2>1, <2>2, <2>3, <2>4 DEF Arrive
<1>5. ASSUME Statement(p) PROVE tx' \in [Procs -> Request \cup {Idle}]
  <2>1. CASE WriteRow(p)
    BY <1>0, <1>3, <2>1 DEF WriteRow, Steps
  <2>2. CASE DeleteRow(p)
    BY <1>0, <2>2 DEF DeleteRow, AfterDelete, Steps
  <2>3. CASE PickHeir(p)
    <3>1. tx[p] # Idle
      BY <2>3 DEF PickHeir
    <3>2. CASE GoTo(p, "commit")
      BY <1>0, <3>1, <3>2 DEF Steps
    <3>3. ASSUME NEW a \in Addresses,
                 tx' = [tx EXCEPT ![p].at = "unset", ![p].target = a]
          PROVE  tx' \in [Procs -> Request \cup {Idle}]
      <4>1. tx[p] \in Request
        BY <3>1 DEF TypeOK
      <4>2. tx' = [tx EXCEPT ![p] = [tx[p] EXCEPT !.at = "unset", !.target = a]]
        BY <3>3
      <4>3. [tx[p] EXCEPT !.at = "unset", !.target = a] \in Request
        BY <4>1 DEF Request, Steps
      <4> QED
        BY <1>2, <4>2, <4>3
    <3> QED
      BY <2>3, <3>2, <3>3 DEF PickHeir, SeenRows
  <2>4. CASE BeginUnset(p) \/ UnsetRow(p)
    <3>1. PICK step \in Steps, S \in SUBSET Addresses :
             tx' = [tx EXCEPT ![p] = [tx[p] EXCEPT !.todo = S, !.at = step]]
      <4>1. CASE BeginUnset(p)
        <5>1. SeenRows(p) \in SUBSET Addresses
          BY DEF SeenRows
        <5>2. (IF SeenRows(p) = {} THEN AfterUnset(p) ELSE "unsetting") \in Steps
          BY DEF AfterUnset, Steps
        <5> HIDE DEF SeenRows
        <5> QED
          BY <4>1, <5>1, <5>2 DEF BeginUnset
      <4>2. CASE UnsetRow(p)
        <5>1. tx[p] \in Request
          BY <4>2 DEF UnsetRow, TypeOK
        <5>2. PICK a \in tx[p].todo :
                 tx' = [tx EXCEPT ![p].todo = @ \ {a},
                                  ![p].at = IF tx[p].todo = {a}
                                            THEN AfterUnset(p) ELSE @]
          BY <4>2 DEF UnsetRow
        <5> DEFINE S == tx[p].todo \ {a}
                   step == IF tx[p].todo = {a} THEN AfterUnset(p) ELSE tx[p].at
        <5>3. S \in SUBSET Addresses /\ step \in Steps
          BY <5>1 DEF Request, AfterUnset, Steps
        <5>4. tx' = [tx EXCEPT ![p] = [tx[p] EXCEPT !.todo = S, !.at = step]]
          BY <5>1, <5>2 DEF Request
        <5> HIDE DEF S, step
        <5> QED
          BY <5>3, <5>4
      <4> QED
        BY <2>4, <4>1, <4>2
    <3>2. tx[p] \in Request
      BY <2>4 DEF BeginUnset, UnsetRow, TypeOK
    <3>3. [tx[p] EXCEPT !.todo = S, !.at = step] \in Request
      BY <3>2 DEF Request
    <3> QED
      BY <1>2, <3>1, <3>3
  <2>6. CASE SetRow(p)
    BY <1>0, <1>3, <2>6 DEF SetRow, Steps
  <2>7. CASE InsertRow(p)
    BY <1>0, <1>3, <2>7 DEF InsertRow, Steps
  <2>8. CASE Commit(p) \/ DeadlockAbort(p)
    BY <1>3, <2>8 DEF DeadlockAbort
  <2> QED
    BY <1>5, <2>1, <2>2, <2>3, <2>4, <2>6, <2>7, <2>8 DEF Statement
<1> QED
  BY <1>4, <1>5

\* Every statement of a request is one of the four changes above.
LEMMA StatementIsSafe ==
    ASSUME TypeOK, Safe, NEW p \in Procs, Statement(p) PROVE Safe'
<1>0. tx[p] # Idle => tx[p] \in Request
  BY DEF TypeOK
<1>1. CASE WriteRow(p)
  <2>1. tx[p] # Idle /\ tx[p].target \in Addresses
    BY <1>0, <1>1 DEF WriteRow, Request
  <2>2. CASE Rollback(p)
    BY <2>2, RollbackIsSafe
  <2>3. CASE ~Rollback(p)
    <3> DEFINE a == tx[p].target
               v == IF tx[p].at = "clear" THEN "plain" ELSE Seen(p, a)
    <3>1. Free(p, a) /\ Write(p, a, v) /\ UNCHANGED rows
      BY <1>1, <2>3 DEF WriteRow
    <3>2. v \in RowState
      BY <2>1 DEF Safe, TableOK, Seen, RowState
    <3>3. CASE v = "default"
      <4>1. Seen(p, a) = "default"
        BY <3>3
      <4>2. ~AwaitsDefault(p, a) /\ ~ClashesWithDefault(p, a)
        BY <2>1, <3>1, <4>1, DefaultStands
      <4> QED
        BY <2>1, <3>1, <3>3, <4>2, DefaultWrite
    <3>4. CASE v # "default"
      <4> HIDE DEF v
      <4> QED
        BY <2>1, <3>1, <3>2, <3>4, PlainWrite
    <3> QED
      BY <3>3, <3>4
  <2> QED
    BY <2>2, <2>3
<1>2. CASE DeleteRow(p)
  <2>1. tx[p].target \in Addresses
    BY <1>0, <1>2 DEF DeleteRow, Request
  <2> QED
    BY <1>2, <2>1, PlainWrite DEF DeleteRow, RowState
<1>3. CASE PickHeir(p) \/ BeginUnset(p)
  BY <1>3, Untouched DEF PickHeir, BeginUnset
<1>4. CASE UnsetRow(p)
  <2>1. PICK a \in tx[p].todo :
           Free(p, a) /\ (UNCHANGED <<lock, new>> \/ Write(p, a, "plain"))
    BY <1>4 DEF UnsetRow
  <2>2. a \in Addresses /\ UNCHANGED rows
    BY <1>0, <1>4 DEF UnsetRow, Request
  <2> QED
    BY <2>1, <2>2, PlainWrite, Untouched DEF RowState
<1>5. CASE SetRow(p)
  <2>1. tx[p].target \in Addresses
    BY <1>0, <1>5 DEF SetRow, Request
  <2> QED
    BY <1>5, <2>1, DefaultWrite, RollbackIsSafe DEF SetRow
<1>6. CASE InsertRow(p)
  <2>1. tx[p].target \in Addresses
    BY <1>0, <1>6 DEF InsertRow, Request
  <2>2. CASE Rollback(p)
    BY <2>2, RollbackIsSafe
  <2>3. CASE ~Rollback(p) /\ tx[p].wants = TRUE
    BY <1>6, <2>1, <2>3, DefaultWrite DEF InsertRow
  <2>4. CASE ~Rollback(p) /\ tx[p].wants # TRUE
    BY <1>6, <2>1, <2>4, PlainWrite DEF InsertRow, RowState
  <2> QED
    BY <2>2, <2>3, <2>4
<1>7. CASE Commit(p)
  BY <1>7, CommitIsSafe
<1>8. CASE DeadlockAbort(p)
  BY <1>8, RollbackIsSafe DEF DeadlockAbort
<1> QED
  BY <1>1, <1>2, <1>3, <1>4, <1>5, <1>6, <1>7, <1>8 DEF Statement
-----------------------------------------------------------------------------
\* An arrival writes nothing.
LEMMA ArrivalIsSafe ==
    ASSUME Safe, NEW p \in Procs, Arrive(p) PROVE Safe'
<1>1. UNCHANGED <<rows, lock, new>>
  BY DEF Arrive, CreateAddress, UpdateAddress, DeleteAddress, SetDefaultAddress
<1> QED
  BY <1>1, Untouched

\* The invariant is the types, the property and the reason for it.
LEMMA IndInvIsSafe == IndInv <=> TypeOK /\ Safe
BY DEF IndInv, Safe, TableOK, TypeOK

\* The empty book is consistent.
LEMMA InitIsSafe == Init => IndInv
BY DEF Init, IndInv, TypeOK, RowState, AtMostOneDefault, PendingDefaultIsAlone

\* Every statement, arrival, undoing and commit keeps the inductive invariant.
LEMMA NextIsSafe == IndInv /\ [Next]_vars => IndInv'
<1> SUFFICES ASSUME IndInv, [Next]_vars PROVE IndInv'
  OBVIOUS
<1>1. TypeOK /\ Safe
  BY IndInvIsSafe
<1>2. CASE UNCHANGED vars
  <2>1. UNCHANGED <<rows, lock, new>> /\ tx' = tx
    BY <1>2 DEF vars
  <2>2. Safe'
    BY <1>1, <2>1, Untouched
  <2> QED
    BY <1>1, <2>1, <2>2 DEF IndInv, Safe, TableOK, TypeOK
<1>3. ASSUME NEW p \in Procs, Arrive(p) \/ Statement(p) PROVE IndInv'
  <2>1. Safe'
    BY <1>1, <1>3, ArrivalIsSafe, StatementIsSafe
  <2>2. tx' \in [Procs -> Request \cup {Idle}]
    BY <1>1, <1>3, RequestsKeepTypes
  <2> QED
    BY <2>1, <2>2 DEF IndInv, Safe, TableOK, TypeOK
<1> QED
  BY <1>2, <1>3 DEF Next

\* The reason why no two defaults meet holds in every state, for any number of
\* addresses and of requests that overlap.
THEOREM BookIsConsistent == Spec => []IndInv
BY InitIsSafe, NextIsSafe, PTL DEF Spec

\* A customer never has two default addresses (address_service.py and the
\* partial unique index of user_addresses).
THEOREM OneDefault == Spec => []AtMostOneDefault
<1>1. IndInv => AtMostOneDefault
  BY DEF IndInv
<1> QED
  BY <1>1, BookIsConsistent, PTL
-----------------------------------------------------------------------------
(***************************************************************************)
(* Requests that overlap, and the one that nobody overlaps.                *)
(***************************************************************************)
\* What a statement leaves of the requests in flight.
LEMMA StatementFrame ==
    ASSUME TypeOK, NEW p \in Procs, Statement(p)
    PROVE  /\ tx[p] # Idle
           /\ \A q \in Procs : q # p => tx'[q] = tx[q]
           /\ \/ /\ tx'[p] = Idle
                 /\ lock' = [a \in Addresses |-> IF lock[a] = p THEN None ELSE lock[a]]
              \/ /\ tx'[p] # Idle /\ tx'[p].raced = tx[p].raced
                 /\ \A a \in Addresses : lock'[a] \in {p, lock[a]}
                 /\ UNCHANGED rows
<1> DEFINE Ends == /\ tx[p] # Idle /\ tx'[p] = Idle
                   /\ \A q \in Procs : q # p => tx'[q] = tx[q]
                   /\ lock' = [a \in Addresses |-> IF lock[a] = p THEN None ELSE lock[a]]
           Goes == /\ tx[p] # Idle
                   /\ \A q \in Procs : q # p => tx'[q] = tx[q]
                   /\ tx'[p] # Idle /\ tx'[p].raced = tx[p].raced
           Table == /\ \A a \in Addresses : lock'[a] \in {p, lock[a]}
                    /\ UNCHANGED rows
<1>0. tx[p] # Idle => tx[p] \in Request
  BY DEF TypeOK
<1>1. tx[p] # Idle /\ (Rollback(p) \/ EndTx(p)) => Ends
  BY DEF TypeOK, Rollback, EndTx
<1>2. ASSUME tx[p] # Idle, NEW step, GoTo(p, step) PROVE Goes
  <2>1. tx'[p] = [tx[p] EXCEPT !.at = step] /\ \A q \in Procs : q # p => tx'[q] = tx[q]
    BY <1>2 DEF TypeOK, GoTo
  <2>2. tx'[p].op = tx[p].op /\ tx'[p].raced = tx[p].raced
    BY <1>0, <1>2, <2>1 DEF Request
  <2> QED
    BY <1>0, <1>2, <2>1, <2>2 DEF Request, Operations, Idle
<1>3. ASSUME NEW a \in Addresses, NEW v, Write(p, a, v), UNCHANGED rows PROVE Table
  BY <1>3 DEF Write, TypeOK
<1>4. ASSUME UNCHANGED <<rows, lock>> PROVE Table
  BY <1>4
<1>5. tx[p] # Idle => tx[p].target \in Addresses /\ tx[p].todo \subseteq Addresses
  BY <1>0 DEF Request
<1>6. ASSUME tx[p] # Idle, NEW r, r.op = tx[p].op, r.raced = tx[p].raced,
             tx' = [tx EXCEPT ![p] = r]
      PROVE  Goes
  BY <1>0, <1>6 DEF TypeOK, Request, Operations, Idle
<1>7. CASE WriteRow(p)
  <2>0. tx[p] # Idle
    BY <1>7 DEF WriteRow
  <2> QED
    BY <1>1, <1>2, <1>3, <1>5, <1>7, <2>0 DEF WriteRow
<1>8. CASE DeleteRow(p)
  BY <1>2, <1>3, <1>5, <1>8 DEF DeleteRow
<1>9. CASE PickHeir(p)
  <2>1. tx[p] # Idle /\ UNCHANGED <<rows, lock>>
    BY <1>9 DEF PickHeir
  <2>2. CASE GoTo(p, "commit")
    BY <1>2, <1>4, <2>1, <2>2
  <2>3. CASE \E a \in Addresses : tx' = [tx EXCEPT ![p].at = "unset", ![p].target = a]
    <3>1. PICK a \in Addresses : tx' = [tx EXCEPT ![p].at = "unset", ![p].target = a]
      BY <2>3
    <3>2. tx' = [tx EXCEPT ![p] = [tx[p] EXCEPT !.at = "unset", !.target = a]]
      BY <3>1
    <3>3. /\ [tx[p] EXCEPT !.at = "unset", !.target = a].op = tx[p].op
          /\ [tx[p] EXCEPT !.at = "unset", !.target = a].raced = tx[p].raced
      BY <1>0, <2>1 DEF Request
    <3> QED
      BY <1>4, <1>6, <2>1, <3>2, <3>3
  <2> QED
    BY <1>9, <2>2, <2>3 DEF PickHeir, SeenRows
<1>10. CASE BeginUnset(p)
  <2>1. tx[p] # Idle /\ UNCHANGED <<rows, lock>>
    BY <1>10 DEF BeginUnset
  <2>2. PICK S, step : tx' = [tx EXCEPT ![p] = [tx[p] EXCEPT !.todo = S, !.at = step]]
    BY <1>10 DEF BeginUnset
  <2>3. /\ [tx[p] EXCEPT !.todo = S, !.at = step].op = tx[p].op
        /\ [tx[p] EXCEPT !.todo = S, !.at = step].raced = tx[p].raced
    BY <1>0, <2>1 DEF Request
  <2> QED
    BY <1>4, <1>6, <2>1, <2>2, <2>3
<1>11. CASE UnsetRow(p)
  <2>1. tx[p] # Idle /\ UNCHANGED rows
    BY <1>11 DEF UnsetRow
  <2>2. PICK S, step : tx' = [tx EXCEPT ![p] = [tx[p] EXCEPT !.todo = S, !.at = step]]
    <3>1. PICK a \in tx[p].todo :
             tx' = [tx EXCEPT ![p].todo = @ \ {a},
                              ![p].at = IF tx[p].todo = {a} THEN AfterUnset(p) ELSE @]
      BY <1>11 DEF UnsetRow
    <3> DEFINE step == IF tx[p].todo = {a} THEN AfterUnset(p) ELSE tx[p].at
    <3>2. tx' = [tx EXCEPT ![p] = [tx[p] EXCEPT !.todo = tx[p].todo \ {a}, !.at = step]]
      BY <1>0, <2>1, <3>1 DEF Request
    <3> HIDE DEF step
    <3> QED
      BY <3>2
  <2>3. /\ [tx[p] EXCEPT !.todo = S, !.at = step].op = tx[p].op
        /\ [tx[p] EXCEPT !.todo = S, !.at = step].raced = tx[p].raced
    BY <1>0, <2>1 DEF Request
  <2>4. Goes
    BY <1>6, <2>1, <2>2, <2>3
  <2>5. Table
    BY <1>3, <1>4, <1>5, <1>11, <2>1 DEF UnsetRow
  <2> QED
    BY <2>4, <2>5
<1>12. CASE SetRow(p)
  <2>1. tx[p] # Idle
    BY <1>12 DEF SetRow
  <2> QED
    BY <1>1, <1>2, <1>3, <1>5, <1>12, <2>1 DEF SetRow
<1>13. CASE InsertRow(p)
  <2>1. tx[p] # Idle
    BY <1>13 DEF InsertRow
  <2> QED
    BY <1>1, <1>2, <1>3, <1>5, <1>13, <2>1 DEF InsertRow
<1>14. CASE Commit(p)
  BY <1>1, <1>14 DEF Commit
<1>15. CASE DeadlockAbort(p)
  BY <1>1, <1>15 DEF DeadlockAbort, DeadlockVictims, Active
<1> QED
  BY <1>7, <1>8, <1>9, <1>10, <1>11, <1>12, <1>13, <1>14, <1>15 DEF Statement

\* A request that nobody has overlapped finds every row free, and is nobody's
\* deadlock.
Lone(p) ==
    /\ tx[p] # Idle
    /\ Active = {p}
    /\ \A a \in Addresses : Free(p, a)
    /\ LoneStep(p)

\* What the invariant says of a request that nobody has overlapped.
LEMMA UnracedIsLone ==
    ASSUME TypeOK, RaceInv, NEW p \in Procs, tx[p] # Idle, ~tx[p].raced
    PROVE  Lone(p)
<1>1. Active = {p}
  BY DEF RaceInv, RacesAreMarked, Active
<1>2. \A a \in Addresses : Free(p, a)
  BY <1>1 DEF RaceInv, LocksAreHeld, TypeOK, Active, Free
<1>3. LoneStep(p)
  BY DEF RaceInv, LoneRequest, Active
<1> QED
  BY <1>1, <1>2, <1>3 DEF Lone

\* A request that is alone is in no cycle of waiting ones.
LEMMA LoneIsNoVictim ==
    ASSUME NEW p \in Procs, Lone(p) PROVE ~DeadlockAbort(p)
<1> SUFFICES ASSUME DeadlockAbort(p) PROVE FALSE
  OBVIOUS
<1>1. PICK S \in SUBSET Active : p \in S /\ \A q \in S : Blockers(q) \cap S # {}
  BY DEF DeadlockAbort, DeadlockVictims
<1>2. p \in Blockers(p)
  BY <1>1 DEF Lone
<1>3. ASSUME \A a \in tx[p].todo : ~Free(p, a), tx[p].at = "unsetting"
      PROVE  p \notin Holders(tx[p].todo)
  BY <1>3 DEF Holders, Free
<1> QED
  BY <1>2, <1>3 DEF Blockers

\* What it sees after a write.
LEMMA SeenAfterWrite ==
    ASSUME TypeOK, NEW p \in Procs, NEW a \in Addresses, NEW v,
           Write(p, a, v), UNCHANGED rows
    PROVE  /\ Seen(p, a)' = v
           /\ \A b \in Addresses : b # a => Seen(p, b)' = Seen(p, b)
BY DEF TypeOK, Write, Seen

\* Each statement takes it to where LoneStep says it stands next; it is never
\* turned down, and ends by its commit.
LEMMA LoneStatement ==
    ASSUME TypeOK, NEW p \in Procs, Lone(p), Statement(p)
    PROVE  \/ tx'[p] = Idle /\ tx[p].at = "commit"
           \/ tx'[p].op = tx[p].op /\ LoneStep(p)'
<1>00. PICK r \in Request, t \in Addresses : r = tx[p] /\ t = tx[p].target
  BY DEF Lone, TypeOK, Request
<1> USE <1>00
<1>0. /\ r.todo \subseteq Addresses /\ r.op \in Operations
      /\ r.wants \in BOOLEAN \cup {None}
  BY DEF Request
<1>1. /\ LoneStep(p)
      /\ \A a \in Addresses : Free(p, a)
  BY DEF Lone
<1>2. ASSUME NEW step, GoTo(p, step)
      PROVE  /\ tx'[p].at = step /\ tx'[p].op = r.op /\ tx'[p].target = t
             /\ tx'[p].wants = r.wants /\ tx'[p].was = r.was
             /\ tx'[p].todo = r.todo
  BY <1>0, <1>2 DEF TypeOK, GoTo, Request
<1>3. CASE WriteRow(p)
  <2>1. /\ r.op = "update" /\ WroteNothing(p) /\ rows[t] \in Present
        /\ r.at = "clear" => r.wants = FALSE
    BY <1>1, <1>3 DEF WriteRow, LoneStep
  <2>2. Seen(p, t) \in Present
    BY <1>0, <2>1 DEF WroteNothing
  <2> DEFINE v == IF r.at = "clear" THEN "plain" ELSE Seen(p, t)
             next == IF r.wants = TRUE THEN "unset" ELSE "commit"
  <2>3. Write(p, t, v) /\ GoTo(p, next) /\ UNCHANGED rows
    BY <1>3, <2>2 DEF WriteRow, Present
  <2>4. /\ Seen(p, t)' = v
        /\ \A b \in Addresses : b # t => Seen(p, b)' = Seen(p, b)
    BY <1>0, <2>3, SeenAfterWrite
  <2>5. v \in Present
    BY <2>2 DEF Present
  <2>6. /\ tx'[p].at = next /\ tx'[p].op = r.op /\ tx'[p].target = t
        /\ tx'[p].wants = r.wants
    BY <1>2, <2>3
  <2>7. CASE r.wants = TRUE
    BY <2>1, <2>4, <2>5, <2>6, <2>7 DEF LoneStep
  <2>8. CASE r.wants = FALSE
    BY <2>1, <2>6, <2>8 DEF LoneStep
  <2>9. CASE r.wants \notin {TRUE, FALSE}
    <3>1. \A b \in Addresses : Seen(p, b)' = rows[b]
      BY <1>0, <2>1, <2>4, <2>9 DEF WroteNothing
    <3>2. SeesDefault(p)' \/ (~HasDefault' /\ ~IsEmpty')
      BY <1>0, <2>1, <2>3, <3>1 DEF SeesDefault, HasDefault, IsEmpty
    <3> QED
      BY <2>6, <2>9, <3>2 DEF LoneStep
  <2> QED
    BY <2>7, <2>8, <2>9
<1>4. CASE DeleteRow(p)
  <2>1. /\ r.op = "delete" /\ WroteNothing(p) /\ rows[t] \in Present
        /\ r.was <=> rows[t] = "default"
    BY <1>1, <1>4 DEF DeleteRow, LoneStep
  <2>2. Write(p, t, "deleted") /\ GoTo(p, AfterDelete(p)) /\ UNCHANGED rows
    BY <1>4 DEF DeleteRow
  <2>3. \A b \in Addresses : b # t => Seen(p, b)' = rows[b]
    BY <1>0, <2>1, <2>2, SeenAfterWrite DEF WroteNothing
  <2>4. tx'[p].at = AfterDelete(p) /\ tx'[p].op = "delete"
    BY <1>2, <2>1, <2>2
  <2>5. CASE r.was
    BY <2>1, <2>4, <2>5 DEF AfterDelete, LoneStep
  <2>6. CASE ~r.was
    <3>1. SeesDefault(p)' \/ (~HasDefault' /\ ~IsEmpty')
      BY <1>0, <2>1, <2>2, <2>3, <2>6 DEF SeesDefault, HasDefault, IsEmpty
    <3> QED
      BY <2>1, <2>4, <2>6, <3>1 DEF AfterDelete, LoneStep
  <2> QED
    BY <2>5, <2>6
<1>5. CASE PickHeir(p)
  <2>1. r.op = "delete" /\ UNCHANGED <<rows, lock, new>>
    BY <1>1, <1>5 DEF PickHeir, LoneStep
  <2>2. \A b \in Addresses : Seen(p, b)' = Seen(p, b)
    BY <2>1 DEF Seen
  <2>3. CASE SeenRows(p) = {} /\ GoTo(p, "commit")
    <3>1. SeesNothing(p)'
      BY <2>2, <2>3 DEF SeesNothing, SeenRows
    <3>2. tx'[p].at = "commit" /\ tx'[p].op = r.op
      BY <1>2, <2>3
    <3> QED
      BY <3>1, <3>2 DEF LoneStep
  <2>4. ASSUME NEW a \in SeenRows(p),
               tx' = [tx EXCEPT ![p].at = "unset", ![p].target = a]
        PROVE  tx'[p].op = r.op /\ LoneStep(p)'
    <3>1. tx'[p].at = "unset" /\ tx'[p].target = a /\ tx'[p].op = "delete"
      BY <1>0, <2>1, <2>4 DEF TypeOK, Request
    <3>2. a \in Addresses /\ Seen(p, a) \in Present
      BY <2>4 DEF SeenRows
    <3> QED
      BY <2>1, <2>2, <3>1, <3>2 DEF LoneStep
  <2> DEFINE first == IF \E a \in SeenRows(p) : Seen(p, a) = "default"
                      THEN {a \in SeenRows(p) : Seen(p, a) = "default"}
                      ELSE SeenRows(p)
  <2>5. first \subseteq SeenRows(p) /\ (first = {} => SeenRows(p) = {})
    OBVIOUS
  <2>6. \/ first = {} /\ GoTo(p, "commit")
        \/ \E a \in first : tx' = [tx EXCEPT ![p].at = "unset", ![p].target = a]
    BY <1>5 DEF PickHeir
  <2> HIDE DEF first
  <2> QED
    BY <2>3, <2>4, <2>5, <2>6
<1>6. CASE BeginUnset(p)
  <2> DEFINE next == IF SeenRows(p) = {} THEN AfterUnset(p) ELSE "unsetting"
  <2>1. /\ r.op # "create" => Seen(p, t) \in Present
        /\ r.op = "create" => r.wants = TRUE
        /\ UNCHANGED <<rows, lock, new>>
    BY <1>1, <1>6 DEF BeginUnset, LoneStep
  <2>2. tx' = [tx EXCEPT ![p].todo = SeenRows(p), ![p].at = next]
    BY <1>6 DEF BeginUnset
  <2>3. /\ tx'[p].at = next /\ tx'[p].todo = SeenRows(p) /\ tx'[p].op = r.op
        /\ tx'[p].target = t /\ tx'[p].wants = r.wants
    <3> HIDE DEF next
    <3> QED
      BY <1>0, <2>2 DEF TypeOK, Request
  <2>4. \A b \in Addresses : Seen(p, b)' = Seen(p, b)
    BY <2>1 DEF Seen
  <2>5. \A b \in Addresses : Seen(p, b) = "default" => b \in SeenRows(p)
    BY DEF SeenRows, Present
  <2>6. CASE SeenRows(p) = {}
    <3>1. ~SeesDefault(p)'
      BY <2>4, <2>5, <2>6 DEF SeesDefault
    <3> QED
      BY <1>0, <2>1, <2>3, <2>4, <2>6, <3>1 DEF LoneStep, AfterUnset
  <2>7. CASE SeenRows(p) # {}
    BY <1>0, <2>1, <2>3, <2>4, <2>5, <2>7 DEF LoneStep
  <2> QED
    BY <2>6, <2>7
<1>7. CASE UnsetRow(p)
  <2>1. /\ r.op # "create" => Seen(p, t) \in Present
        /\ r.op = "create" => r.wants = TRUE
        /\ \A b \in Addresses : Seen(p, b) = "default" => b \in r.todo
        /\ r.at = "unsetting"
    BY <1>1, <1>7 DEF UnsetRow, LoneStep
  <2>2. PICK a \in r.todo :
          /\ IF Seen(p, a) = "deleted" THEN UNCHANGED <<lock, new>>
                                       ELSE Write(p, a, "plain")
          /\ tx' = [tx EXCEPT ![p].todo = @ \ {a},
                              ![p].at = IF tx[p].todo = {a} THEN AfterUnset(p) ELSE @]
          /\ UNCHANGED rows
    BY <1>7 DEF UnsetRow
  <2> DEFINE next == IF tx[p].todo = {a} THEN AfterUnset(p) ELSE "unsetting"
  <2>3. /\ tx'[p].at = next /\ tx'[p].todo = r.todo \ {a} /\ tx'[p].op = r.op
        /\ tx'[p].target = t /\ tx'[p].wants = r.wants
    <3>1. tx'[p] = [r EXCEPT !.todo = r.todo \ {a}, !.at = next]
      BY <1>0, <2>1, <2>2 DEF TypeOK, Request
    <3> HIDE DEF next
    <3> QED
      BY <1>0, <3>1 DEF Request
  <2>4. /\ \A b \in Addresses : b # a => Seen(p, b)' = Seen(p, b)
        /\ Seen(p, a) = "deleted" => Seen(p, a)' = "deleted"
        /\ Seen(p, a) # "deleted" => Seen(p, a)' = "plain"
    <3>1. CASE Seen(p, a) = "deleted"
      BY <2>2, <3>1 DEF Seen
    <3>2. CASE Seen(p, a) # "deleted"
      BY <1>0, <2>2, <3>2, SeenAfterWrite
    <3> QED
      BY <3>1, <3>2
  <2>5. /\ r.op # "create" => Seen(p, t)' \in Present
        /\ \A b \in Addresses : Seen(p, b)' = "default" => b \in r.todo \ {a}
    BY <1>0, <2>1, <2>4 DEF Present
  <2>6. CASE r.todo = {a}
    <3>1. ~SeesDefault(p)'
      BY <2>5, <2>6 DEF SeesDefault
    <3> QED
      BY <1>0, <2>1, <2>3, <2>5, <2>6, <3>1 DEF LoneStep, AfterUnset
  <2>7. CASE r.todo # {a}
    BY <1>0, <2>1, <2>3, <2>5, <2>7 DEF LoneStep
  <2> QED
    BY <2>6, <2>7
<1>8. CASE SetRow(p)
  <2>1. Seen(p, t) \in Present /\ ~SeesDefault(p)
    BY <1>1, <1>8 DEF SetRow, LoneStep
  <2>2. ~ClashesWithDefault(p, t)
    BY <2>1 DEF ClashesWithDefault, SeesDefault
  <2>3. Write(p, t, "default") /\ GoTo(p, "commit") /\ UNCHANGED rows
    BY <1>8, <2>1, <2>2 DEF SetRow, Present
  <2>4. SeesDefault(p)'
    BY <1>0, <2>3, SeenAfterWrite DEF SeesDefault
  <2>5. tx'[p].at = "commit" /\ tx'[p].op = r.op
    BY <1>2, <2>3
  <2> QED
    BY <2>4, <2>5 DEF LoneStep
<1>9. CASE InsertRow(p)
  <2>1. /\ r.wants = TRUE => ~SeesDefault(p)
        /\ r.wants # TRUE => WroteNothing(p) /\ ~IsEmpty /\ rows[t] = "unused"
    BY <1>1, <1>9 DEF InsertRow, LoneStep
  <2>2. ~(r.wants = TRUE /\ ClashesWithDefault(p, t))
    BY <2>1 DEF ClashesWithDefault, SeesDefault
  <2> DEFINE v == IF r.wants = TRUE THEN "default" ELSE "plain"
  <2>3. Write(p, t, v) /\ GoTo(p, "commit") /\ UNCHANGED rows
    BY <1>9, <2>2 DEF InsertRow
  <2>4. /\ Seen(p, t)' = v
        /\ \A b \in Addresses : b # t => Seen(p, b)' = Seen(p, b)
    BY <1>0, <2>3, SeenAfterWrite
  <2>5. SeesDefault(p)' \/ (~HasDefault' /\ ~IsEmpty')
    <3>1. CASE r.wants = TRUE
      BY <1>0, <2>4, <3>1 DEF SeesDefault
    <3>2. CASE r.wants # TRUE
      BY <1>0, <2>1, <2>3, <2>4, <3>2
      DEF SeesDefault, HasDefault, IsEmpty, WroteNothing
    <3> QED
      BY <3>1, <3>2
  <2>6. tx'[p].at = "commit" /\ tx'[p].op = r.op
    BY <1>2, <2>3
  <2> QED
    BY <2>5, <2>6 DEF LoneStep
<1>10. CASE Commit(p)
  BY <1>10 DEF Commit, EndTx, TypeOK
<1> QED
  BY <1>3, <1>4, <1>5, <1>6, <1>7, <1>8, <1>9, <1>10, LoneIsNoVictim DEF Statement

\* An arrival marks those it overlaps, or is alone and starts at a first step.
LEMMA ArrivalFrame ==
    ASSUME TypeOK, NEW p \in Procs, Arrive(p)
    PROVE  /\ tx[p] = Idle /\ UNCHANGED <<rows, lock, new>>
           /\ tx'[p] # Idle /\ (tx'[p].raced <=> Active # {})
           /\ \A q \in Procs : q # p =>
                /\ tx[q] = Idle => tx'[q] = Idle
                /\ tx[q] # Idle => tx'[q] # Idle /\ tx'[q].raced
<1>1. ASSUME NEW op \in Operations, NEW a, NEW wants, NEW was, NEW dirty, NEW step,
             Begin(p, op, a, wants, was, dirty, step)
      PROVE  /\ tx'[p] # Idle /\ (tx'[p].raced <=> Active # {})
             /\ \A q \in Procs : q # p =>
                  /\ tx[q] = Idle => tx'[q] = Idle
                  /\ tx[q] # Idle => tx'[q] # Idle /\ tx'[q].raced
  <2>1. /\ tx'[p].op = op /\ (tx'[p].raced <=> Active # {})
        /\ \A q \in Procs : q # p =>
             tx'[q] = IF tx[q] = Idle THEN Idle ELSE [tx[q] EXCEPT !.raced = TRUE]
    BY <1>1 DEF Begin
  <2>2. ASSUME NEW q \in Procs, tx[q] # Idle
        PROVE  /\ [tx[q] EXCEPT !.raced = TRUE] # Idle
               /\ [tx[q] EXCEPT !.raced = TRUE].raced
    <3>1. tx[q] \in Request
      BY <2>2 DEF TypeOK
    <3>2. [tx[q] EXCEPT !.raced = TRUE].op \in Operations
      BY <3>1 DEF Request
    <3>3. [tx[q] EXCEPT !.raced = TRUE].raced
      BY <3>1 DEF Request
    <3> QED
      BY <3>2, <3>3 DEF Operations, Idle
  <2>3. tx'[p] # Idle
    BY <2>1 DEF Operations, Idle
  <2> QED
    BY <2>1, <2>2, <2>3
<1>2. PICK op \in Operations : \E a, wants, was, dirty, step :
          Begin(p, op, a, wants, was, dirty, step)
  BY DEF Arrive, CreateAddress, UpdateAddress, DeleteAddress, SetDefaultAddress, Operations
<1>3. tx[p] = Idle /\ UNCHANGED <<rows, lock, new>>
  BY DEF Arrive, CreateAddress, UpdateAddress, DeleteAddress, SetDefaultAddress
<1> QED
  BY <1>1, <1>2, <1>3

\* A request that arrives when nobody is at work sees the committed rows.
LEMMA LoneArrival ==
    ASSUME TypeOK, LocksAreHeld, NEW p \in Procs, Arrive(p), Active = {}
    PROVE  LoneStep(p)'
<1>1. \A a \in Addresses : lock[a] = None
  BY DEF LocksAreHeld, TypeOK, Active
<1>2. UNCHANGED <<rows, lock, new>>
  BY ArrivalFrame
<1>3. \A a \in Addresses : Seen(p, a)' = rows[a] /\ Seen(p, a) = rows[a]
  BY <1>1, <1>2, ProcsAssumption DEF Seen
<1>4. WroteNothing(p)'
  BY <1>2, <1>3 DEF WroteNothing
<1>5. ASSUME NEW op, NEW a, NEW wants, NEW was, NEW dirty, NEW step,
             Begin(p, op, a, wants, was, dirty, step)
      PROVE  /\ tx'[p].op = op /\ tx'[p].target = a /\ tx'[p].wants = wants
             /\ tx'[p].was = was /\ tx'[p].at = step
  BY <1>5 DEF Begin
<1>6. CASE CreateAddress(p)
  <2>1. PICK a \in Addresses, asked \in BOOLEAN :
          LET default == asked \/ SeenRows(p) = {}
          IN  /\ rows[a] = "unused"
              /\ Begin(p, "create", a, default, FALSE, TRUE,
                       IF default THEN "unset" ELSE "insert")
    BY <1>6 DEF CreateAddress
  <2> DEFINE default == asked \/ SeenRows(p) = {}
  <2>2. CASE default
    <3>1. Begin(p, "create", a, TRUE, FALSE, TRUE, "unset")
      BY <2>1, <2>2
    <3>2. tx'[p].op = "create" /\ tx'[p].wants = TRUE /\ tx'[p].at = "unset"
      BY <1>5, <3>1
    <3> QED
      BY <3>2 DEF LoneStep
  <2>3. CASE ~default
    <3>1. Begin(p, "create", a, FALSE, FALSE, TRUE, "insert")
      BY <2>1, <2>3
    <3>2. /\ tx'[p].op = "create" /\ tx'[p].wants = FALSE /\ tx'[p].at = "insert"
          /\ tx'[p].target = a
      BY <1>5, <3>1
    <3>3. ~IsEmpty'
      BY <1>2, <1>3, <2>3 DEF IsEmpty, SeenRows
    <3> QED
      BY <1>2, <1>4, <2>1, <3>2, <3>3 DEF LoneStep
  <2> QED
    BY <2>2, <2>3
<1>7. CASE UpdateAddress(p)
  <2>1. PICK a \in Addresses, wants \in BOOLEAN \cup {None}, dirty \in BOOLEAN :
          LET was == rows[a] = "default"
          IN  /\ rows[a] \in Present
              /\ Begin(p, "update", a, wants, was, dirty,
                   CASE wants = FALSE /\ was -> "clear"
                     [] wants = TRUE /\ ~dirty -> "unset"
                     [] wants # TRUE /\ ~dirty /\ ~(wants = FALSE /\ was) -> "commit"
                     [] OTHER -> "write")
    BY <1>7 DEF UpdateAddress
  <2> DEFINE was == rows[a] = "default"
             step == CASE wants = FALSE /\ was -> "clear"
                       [] wants = TRUE /\ ~dirty -> "unset"
                       [] wants # TRUE /\ ~dirty /\ ~(wants = FALSE /\ was) -> "commit"
                       [] OTHER -> "write"
  <2>2. /\ tx'[p].op = "update" /\ tx'[p].target = a /\ tx'[p].wants = wants
        /\ tx'[p].at = step
    <3>1. Begin(p, "update", a, wants, was, dirty, step)
      BY <2>1
    <3> HIDE DEF was, step
    <3> QED
      BY <1>5, <3>1
  <2>3. /\ step \in {"clear", "unset", "commit", "write"}
        /\ step = "clear" => wants = FALSE
    OBVIOUS
  <2>4. Seen(p, a)' \in Present /\ rows'[a] \in Present
    BY <1>2, <1>3, <2>1
  <2>5. SeesDefault(p)' \/ (~HasDefault' /\ ~IsEmpty')
    BY <1>2, <1>3, <2>4 DEF SeesDefault, HasDefault, IsEmpty
  <2> QED
    BY <1>4, <2>2, <2>3, <2>4, <2>5 DEF LoneStep
<1>8. CASE DeleteAddress(p)
  <2>1. PICK a \in Addresses, was \in BOOLEAN :
          /\ rows[a] \in Present /\ (was <=> rows[a] = "default")
          /\ Begin(p, "delete", a, None, was, FALSE, "delete")
    <3>1. PICK a \in Addresses :
            /\ rows[a] \in Present
            /\ Begin(p, "delete", a, None, rows[a] = "default", FALSE, "delete")
      BY <1>8 DEF DeleteAddress
    <3>2. (rows[a] = "default") \in BOOLEAN
      OBVIOUS
    <3> QED
      BY <3>1, <3>2
  <2>2. /\ tx'[p].op = "delete" /\ tx'[p].target = a /\ tx'[p].was = was
        /\ tx'[p].at = "delete"
    BY <1>5, <2>1
  <2> QED
    BY <1>2, <1>4, <2>1, <2>2 DEF LoneStep
<1>9. CASE SetDefaultAddress(p)
  <2>1. PICK a \in Addresses :
          /\ rows[a] \in Present
          /\ \E was : Begin(p, "set_default", a, TRUE, was, FALSE, "unset")
    BY <1>9 DEF SetDefaultAddress, FirstStep
  <2>2. tx'[p].op = "set_default" /\ tx'[p].target = a /\ tx'[p].at = "unset"
    BY <1>5, <2>1
  <2>3. Seen(p, a)' \in Present
    BY <1>3, <2>1
  <2> QED
    BY <2>2, <2>3 DEF LoneStep
<1> QED
  BY <1>6, <1>7, <1>8, <1>9 DEF Arrive
-----------------------------------------------------------------------------
\* Every step keeps what is known of requests that nobody has overlapped.
LEMMA RaceInvIsKept == TypeOK /\ RaceInv /\ [Next]_vars => RaceInv'
<1> SUFFICES ASSUME TypeOK, RaceInv, [Next]_vars PROVE RaceInv'
  OBVIOUS
<1>1. CASE UNCHANGED vars
  <2>1. UNCHANGED <<rows, lock, new, tx>>
    BY <1>1 DEF vars
  <2>2. LocksAreHeld' /\ RacesAreMarked'
    BY <2>1 DEF RaceInv, LocksAreHeld, RacesAreMarked, Active
  <2>3. ASSUME NEW p \in Procs, tx[p] # Idle, LoneStep(p) PROVE LoneStep(p)'
    <3>1. \A a \in Addresses : Seen(p, a)' = Seen(p, a)
      BY <2>1 DEF Seen
    <3>2. /\ HasDefault' = HasDefault /\ IsEmpty' = IsEmpty
          /\ SeesDefault(p)' = SeesDefault(p) /\ SeesNothing(p)' = SeesNothing(p)
          /\ WroteNothing(p)' = WroteNothing(p)
      BY <2>1, <3>1
      DEF HasDefault, IsEmpty, SeesDefault, SeesNothing, SeenRows, WroteNothing
    <3>3. PICK r \in Request : r = tx[p] /\ r = tx'[p]
      BY <2>1, <2>3 DEF TypeOK
    <3>4. r.target \in Addresses /\ Seen(p, r.target)' = Seen(p, r.target)
      BY <3>1, <3>3 DEF Request
    <3> QED
      BY <2>1, <2>3, <3>1, <3>2, <3>3, <3>4 DEF LoneStep
  <2> QED
    BY <2>1, <2>2, <2>3 DEF RaceInv, LoneRequest, Active
<1>2. ASSUME NEW p \in Procs, Arrive(p) PROVE RaceInv'
  <2>1. LocksAreHeld'
    BY <1>2, ArrivalFrame DEF RaceInv, LocksAreHeld, TypeOK
  <2>2. RacesAreMarked'
    BY <1>2, ArrivalFrame DEF RacesAreMarked, Active
  <2>3. ASSUME NEW q \in Procs, tx'[q] # Idle, ~tx'[q].raced PROVE LoneStep(q)'
    <3>1. q = p /\ Active = {}
      BY <1>2, <2>3, ArrivalFrame
    <3> QED
      BY <1>2, <3>1, LoneArrival DEF RaceInv
  <2> QED
    BY <2>1, <2>2, <2>3 DEF RaceInv, LoneRequest, Active
<1>3. ASSUME NEW p \in Procs, Statement(p) PROVE RaceInv'
  <2>1. LocksAreHeld'
    BY <1>3, StatementFrame, ProcsAssumption DEF RaceInv, LocksAreHeld, TypeOK
  <2>2. RacesAreMarked'
    BY <1>3, StatementFrame DEF RaceInv, RacesAreMarked, Active
  <2>3. ASSUME NEW q \in Procs, tx'[q] # Idle, ~tx'[q].raced PROVE LoneStep(q)'
    <3>1. q = p
      BY <1>3, <2>3, StatementFrame DEF RaceInv, RacesAreMarked, Active
    <3>2. tx[p] # Idle /\ ~tx[p].raced
      BY <1>3, <2>3, <3>1, StatementFrame
    <3> QED
      BY <1>3, <2>3, <3>1, <3>2, UnracedIsLone, LoneStatement
  <2> QED
    BY <2>1, <2>2, <2>3 DEF RaceInv, LoneRequest, Active
<1> QED
  BY <1>1, <1>2, <1>3 DEF Next

\* Requests that overlap know of it, and one that nobody overlaps stands where
\* its statements have brought it (address_service.py).
THEOREM RacesAreKnown == Spec => []RaceInv
<1>1. Init => RaceInv
  BY DEF Init, RaceInv, LocksAreHeld, RacesAreMarked, LoneRequest, Active
<1>2. IndInv /\ RaceInv /\ [Next]_vars => RaceInv'
  BY RaceInvIsKept DEF IndInv
<1> QED
  BY <1>1, <1>2, BookIsConsistent, PTL DEF Spec

\* The step that ends a request is one of its own.
LEMMA EndsByItself ==
    ASSUME TypeOK, Next, NEW p \in Procs, tx[p] # Idle, tx'[p] = Idle
    PROVE  Statement(p)
<1>1. PICK q \in Procs : Arrive(q) \/ Statement(q)
  BY DEF Next
<1> QED
  BY <1>1, ArrivalFrame, StatementFrame

\* A request of the address book fails only when another one overlapped it: the
\* old default is unset before the new one is set.
THEOREM FailuresAreRaces == Spec => OnlyRacesFail
<1> DEFINE Ends == \A p \in Procs :
                      /\ tx[p] # Idle
                      /\ tx'[p] = Idle
                      => tx[p].at = "commit" \/ tx[p].raced
<1>1. ASSUME IndInv, RaceInv, Next, NEW p \in Procs, tx[p] # Idle, tx'[p] = Idle,
             tx[p].at # "commit", ~tx[p].raced
      PROVE  FALSE
  <2>1. TypeOK
    BY <1>1 DEF IndInv
  <2>2. Statement(p) /\ Lone(p)
    BY <1>1, <2>1, EndsByItself, UnracedIsLone
  <2> QED
    BY <1>1, <2>1, <2>2, LoneStatement DEF TypeOK, Request, Operations, Idle
<1>2. IndInv /\ RaceInv /\ [Next]_vars => [Ends]_vars
  BY <1>1
<1> QED
  BY <1>2, BookIsConsistent, RacesAreKnown, PTL DEF Spec, OnlyRacesFail

\* Only a commit changes the committed rows.
LEMMA CommitsWrite ==
    ASSUME Next, TypeOK, rows' # rows
    PROVE  \E p \in Procs : Commit(p) /\ tx[p] # Idle /\ tx'[p] = Idle
<1>1. PICK p \in Procs : Arrive(p) \/ Statement(p)
  BY DEF Next
<1>2. Statement(p)
  BY <1>1, ArrivalFrame
<1>3. Commit(p)
  BY <1>2 DEF Statement, WriteRow, DeleteRow, PickHeir, BeginUnset, UnsetRow, SetRow,
              InsertRow, DeadlockAbort, Rollback
<1> QED
  BY <1>3 DEF Commit, EndTx, TypeOK

\* A book with addresses keeps a default one, unless the customer asked for none
\* or the request that ended without one was overlapped (address_service.py).
THEOREM DefaultIsKept == Spec => DefaultIsHandedOn
<1> DEFINE HandedOn ==
        (HasDefault \/ IsEmpty) /\ ~HasDefault' /\ ~IsEmpty' =>
          \E p \in Procs : /\ tx[p] # Idle /\ tx'[p] = Idle
                           /\ \/ tx[p].op = "update" /\ tx[p].wants = FALSE
                              \/ tx[p].raced
<1>1. ASSUME IndInv, RaceInv, Next, HasDefault \/ IsEmpty, ~HasDefault', ~IsEmpty'
      PROVE  \E p \in Procs : /\ tx[p] # Idle /\ tx'[p] = Idle
                              /\ \/ tx[p].op = "update" /\ tx[p].wants = FALSE
                                 \/ tx[p].raced
  <2>1. TypeOK
    BY <1>1 DEF IndInv
  <2>2. rows' # rows
    BY <1>1 DEF HasDefault, IsEmpty
  <2>3. PICK p \in Procs : Commit(p) /\ tx[p] # Idle /\ tx'[p] = Idle
    BY <1>1, <2>1, <2>2, CommitsWrite
  <2>4. CASE ~tx[p].raced
    <3>1. LoneStep(p)
      BY <1>1, <2>1, <2>3, <2>4, UnracedIsLone DEF Lone
    <3>2. ~SeesDefault(p) /\ ~SeesNothing(p)
      BY <1>1, <2>3 DEF Commit, SeesDefault, SeesNothing, SeenRows, HasDefault, IsEmpty
    <3>3. tx[p].op = "update" /\ tx[p].wants = FALSE
      BY <1>1, <2>3, <3>1, <3>2 DEF Commit, LoneStep
    <3> QED
      BY <2>3, <3>3
  <2> QED
    BY <2>3, <2>4
<1>2. IndInv /\ RaceInv /\ [Next]_vars => [HandedOn]_vars
  BY <1>1
<1> QED
  BY <1>2, BookIsConsistent, RacesAreKnown, PTL DEF Spec, DefaultIsHandedOn
=============================================================================
