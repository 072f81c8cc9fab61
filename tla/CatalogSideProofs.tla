-------------------------- MODULE CatalogSideProofs --------------------------
(***************************************************************************)
(* The catalog stays consistent under the owners' requests, for any number *)
(* of entries, variants, images, objects and requests in flight.           *)
(***************************************************************************)
EXTENDS MCCatalogSide, SequenceTheorems, FiniteSetTheorems, TLAPS

-----------------------------------------------------------------------------
\* The components count as this module does.
LEMMA SameFinite ==
    \A S : /\ Catalog!IsFiniteSet(S) = IsFiniteSet(S)
           /\ Parts!IsFiniteSet(S) = IsFiniteSet(S)
           /\ Images!IsFiniteSet(S) = IsFiniteSet(S)
BY DEF Catalog!IsFiniteSet, Parts!IsFiniteSet, Images!IsFiniteSet, IsFiniteSet

\* Likewise for cardinalities.
LEMMA SameCardinality ==
    \A S : /\ Catalog!Cardinality(S) = Cardinality(S)
           /\ Parts!Cardinality(S) = Cardinality(S)
           /\ Images!Cardinality(S) = Cardinality(S)
BY DEF Catalog!Cardinality, Parts!Cardinality, Images!Cardinality, Cardinality

\* Two values are no three.
LEMMA AtMostTwo == \A a, b : Cardinality({a, b}) <= 2
<1> SUFFICES ASSUME NEW a, NEW b PROVE Cardinality({a, b}) <= 2
  OBVIOUS
<1>1. IsFiniteSet({a}) /\ Cardinality({a}) = 1
  BY FS_Singleton
<1>2. Cardinality({a} \cup {b}) <= 2
  BY <1>1, FS_AddElement
<1>3. {a} \cup {b} = {a, b}
  OBVIOUS
<1> QED
  BY <1>2, <1>3

\* The marks of the rows that are missing and of the fields that are not named
\* differ.
LEMMA MarksDiffer == None # Deleted /\ None # Absent /\ Deleted # Absent
<1>1. Cardinality({None, Deleted, Absent}) = 3
  BY PartsAssumption, SameCardinality DEF Parts!PartsAssumption
<1>2. ASSUME None = Deleted PROVE FALSE
  <2>0. Cardinality({None, Absent}) <= 2
    BY AtMostTwo
  <2>1. {None, Deleted, Absent} = {None, Absent}
    BY <1>2
  <2> QED
    BY <1>1, <2>0, <2>1
<1>3. ASSUME None = Absent PROVE FALSE
  <2>0. Cardinality({None, Deleted}) <= 2
    BY AtMostTwo
  <2>1. {None, Deleted, Absent} = {None, Deleted}
    BY <1>3
  <2> QED
    BY <1>1, <2>0, <2>1
<1>4. ASSUME Deleted = Absent PROVE FALSE
  <2>0. Cardinality({None, Deleted}) <= 2
    BY AtMostTwo
  <2>1. {None, Deleted, Absent} = {None, Deleted}
    BY <1>4
  <2> QED
    BY <1>1, <2>0, <2>1
<1> QED
  BY <1>2, <1>3, <1>4
-----------------------------------------------------------------------------
(***************************************************************************)
(* Variants and care parameters.                                           *)
(***************************************************************************)
\* What a request has asked for and loaded.
LEMMA PartsRequests ==
    ASSUME Parts!TypeOK, NEW p \in Procs, NEW r, r = partsTx[p]
    PROVE  /\ r = Parts!Idle \/ r.at \in {"insert", "update", "delete", "find", "care"}
           /\ r \in Parts!Requests \cup {Parts!Idle}
           /\ r.at = "insert" => r.variant \in Variants /\ r.payload \in Parts!Variant
           /\ r.at = "update" => /\ r.variant \in Variants /\ r.loaded \in Parts!Variant
                                 /\ r.payload \in Parts!VariantPayload
           /\ r.at = "delete" => r.variant \in Variants
           /\ r.at = "find" => r.payload \in Parts!CarePayload
           /\ r.at = "care" => /\ r.loaded \in Parts!Care \cup {None}
                               /\ r.payload \in Parts!CarePayload
<1>1. r \in Parts!Requests \cup {Parts!Idle}
  BY DEF Parts!TypeOK
<1> QED
  BY <1>1 DEF Parts!Requests, Parts!Idle

\* The requests that begin are requests.
LEMMA PartsRequestsAre ==
    /\ Parts!Idle.at = "idle"
    /\ \A v \in Variants, payload \in Parts!Variant :
          [at |-> "insert", variant |-> v, payload |-> payload] \in Parts!Requests
    /\ \A v \in Variants, loaded \in Parts!Variant, payload \in Parts!VariantPayload :
          [at |-> "update", variant |-> v, loaded |-> loaded, payload |-> payload]
             \in Parts!Requests
    /\ \A v \in Variants : [at |-> "delete", variant |-> v] \in Parts!Requests
    /\ \A payload \in Parts!CarePayload :
          [at |-> "find", payload |-> payload] \in Parts!Requests
    /\ \A loaded \in Parts!Care \cup {None}, payload \in Parts!CarePayload :
          [at |-> "care", loaded |-> loaded, payload |-> payload] \in Parts!Requests
BY DEF Parts!Requests, Parts!Idle

\* A payload is merged into a row column by column.
LEMMA VariantMerged ==
    ASSUME NEW row \in Parts!Variant, NEW loaded \in Parts!Variant,
           NEW payload \in Parts!VariantPayload
    PROVE  /\ Parts!Merged(row, loaded, payload) \in Parts!Variant
           /\ payload.stock_quantity = Absent =>
                 Parts!Merged(row, loaded, payload).stock_quantity = row.stock_quantity
BY DEF Parts!Merged, Parts!Variant, Parts!VariantPayload

\* An edit of care parameters gives a row, and a limit that the row has stays.
LEMMA CareMerged ==
    ASSUME NEW row \in Parts!Care, NEW loaded \in Parts!Care,
           NEW payload \in Parts!CarePayload
    PROVE  /\ Parts!Merged(row, loaded, payload) \in Parts!Care
           /\ row.ph_min # None => Parts!Merged(row, loaded, payload).ph_min # None
<1>1. None \notin Limits
  BY PartsAssumption DEF Parts!PartsAssumption
<1> QED
  BY <1>1 DEF Parts!Merged, Parts!Care, Parts!CarePayload

\* The first PUT of care parameters gives a row.
LEMMA FreshCareIsCare ==
    \A payload \in Parts!CarePayload : Parts!FreshCare(payload) \in Parts!Care
BY DEF Parts!FreshCare, Parts!Care, Parts!CarePayload

\* A request that begins is alone or is not counted so.
LEMMA PartsBeginIsSafe ==
    ASSUME Parts!IndInv, NEW p \in Procs, NEW r \in Parts!Requests, Parts!Begin(p, r),
           r.at \in {"insert", "find"} => present,
           r.at # "care",
           r.at = "update" => Parts!HasRow(r.variant),
           r.at = "insert" => /\ variants[r.variant] = None
                              /\ \A q \in Procs : Parts!At(q, "insert")
                                    => partsTx[q].variant # r.variant,
           r.at \in {"update", "delete"} => variants[r.variant] # None
    PROVE  Parts!IndInv'
<1>0. Parts!TypeOK /\ Parts!InsertsAreFresh /\ Parts!LoneCopies
  BY DEF Parts!IndInv
<1>1. /\ partsTx \in [Procs -> Parts!Requests \cup {Parts!Idle}]
      /\ partsTx[p] = Parts!Idle /\ partsTx' = [partsTx EXCEPT ![p] = r]
      /\ partsAlone' = IF \A q \in Procs : partsTx[q] = Parts!Idle THEN {p} ELSE {}
      /\ UNCHANGED <<present, variants, care, partsFailed>>
  BY <1>0 DEF Parts!TypeOK, Parts!Begin, Parts!rows
<1>2. partsTx'[p] = r /\ \A q \in Procs : q # p => partsTx'[q] = partsTx[q]
  BY <1>1
<1>3. Parts!TypeOK' /\ Parts!PartsNeedShrimp' /\ Parts!OnlyRacesFail'
  <2>1. partsTx' \in [Procs -> Parts!Requests \cup {Parts!Idle}] /\ partsAlone' \subseteq Procs
    BY <1>1
  <2> QED
    BY <1>1, <2>1 DEF Parts!IndInv, Parts!TypeOK, Parts!PartsNeedShrimp, Parts!HasRow,
                      Parts!OnlyRacesFail
<1>4. Parts!InsertsAreFresh'
  <2> SUFFICES ASSUME NEW q \in Procs
               PROVE  /\ partsTx'[q].at = "insert" =>
                           /\ variants[partsTx'[q].variant] = None
                           /\ \A s \in Procs \ {q} : partsTx'[s].at = "insert"
                                => partsTx'[s].variant # partsTx'[q].variant
                      /\ partsTx'[q].at \in {"update", "delete"}
                           => variants[partsTx'[q].variant] # None
    BY <1>1 DEF Parts!InsertsAreFresh, Parts!At
  <2>1. CASE q = p
    BY <1>2, <2>1 DEF Parts!At
  <2>2. CASE q # p
    <3>1. /\ partsTx[q].at = "insert" =>
               /\ variants[partsTx[q].variant] = None
               /\ \A s \in Procs \ {q} : partsTx[s].at = "insert"
                    => partsTx[s].variant # partsTx[q].variant
          /\ partsTx[q].at \in {"update", "delete"} => variants[partsTx[q].variant] # None
          /\ partsTx[q].at = "insert" /\ r.at = "insert" => partsTx[q].variant # r.variant
      BY <1>0 DEF Parts!InsertsAreFresh, Parts!At
    <3> QED
      BY <1>2, <2>2, <3>1
  <2> QED
    BY <2>1, <2>2
<1>5. Parts!LoneCopies'
  <2> SUFFICES ASSUME NEW q \in Procs, q \in partsAlone'
               PROVE  /\ partsTx'[q] # Parts!Idle
                      /\ \A s \in Procs \ {q} : partsTx'[s] = Parts!Idle
                      /\ partsTx'[q].at \in {"insert", "find", "care"} => present
                      /\ partsTx'[q].at = "update" => Parts!HasRow(partsTx'[q].variant)
                      /\ partsTx'[q].at = "care" => partsTx'[q].loaded = care
    <3>1. partsAlone' \subseteq Procs
      BY <1>1
    <3> QED
      BY <1>1, <3>1 DEF Parts!LoneCopies, Parts!HasRow
  <2>1. q = p /\ \A s \in Procs \ {p} : partsTx[s] = Parts!Idle
    BY <1>1
  <2>2. r # Parts!Idle
    BY DEF Parts!Requests, Parts!Idle
  <2> QED
    BY <1>2, <2>1, <2>2
<1> QED
  BY <1>3, <1>4, <1>5 DEF Parts!IndInv

\* A request that ends leaves nobody alone.
LEMMA PartsEndIsSafe ==
    ASSUME Parts!IndInv, NEW p \in Procs, partsTx[p] # Parts!Idle,
           Parts!Leave(p), partsFailed' = FALSE,
           present' = present,
           variants' \in [Variants -> Parts!Variant \cup Parts!NoRow],
           care' \in Parts!Care \cup {None},
           ~present => care' = None /\ \A v \in Variants : ~Parts!HasRow(v)',
           \A v \in Variants :
              /\ variants'[v] = None => variants[v] = None
              /\ variants[v] = None => \/ variants'[v] = None
                                       \/ Parts!At(p, "insert") /\ partsTx[p].variant = v
    PROVE  Parts!IndInv'
<1>0. Parts!TypeOK /\ Parts!InsertsAreFresh /\ Parts!LoneCopies
  BY DEF Parts!IndInv
<1>1. /\ partsTx \in [Procs -> Parts!Requests \cup {Parts!Idle}]
      /\ partsTx' = [partsTx EXCEPT ![p] = Parts!Idle]
      /\ partsAlone' = partsAlone \ {p} /\ partsAlone \subseteq Procs
  BY <1>0 DEF Parts!TypeOK, Parts!Leave
<1>2. /\ partsTx'[p] = Parts!Idle
      /\ \A q \in Procs : q # p => partsTx'[q] = partsTx[q]
      /\ partsTx' \in [Procs -> Parts!Requests \cup {Parts!Idle}]
  BY <1>1
<1>3. partsAlone' = {}
  BY <1>0, <1>1 DEF Parts!LoneCopies
<1>4. Parts!TypeOK' /\ Parts!OnlyRacesFail' /\ Parts!LoneCopies'
  <2>1. Parts!TypeOK'
    BY <1>0, <1>2, <1>3 DEF Parts!TypeOK
  <2> QED
    BY <1>3, <2>1 DEF Parts!OnlyRacesFail, Parts!LoneCopies
<1>5. Parts!PartsNeedShrimp'
  BY DEF Parts!PartsNeedShrimp
<1>6. Parts!InsertsAreFresh'
  <2> SUFFICES ASSUME NEW q \in Procs
               PROVE  /\ partsTx'[q].at = "insert" =>
                           /\ variants'[partsTx'[q].variant] = None
                           /\ \A s \in Procs \ {q} : partsTx'[s].at = "insert"
                                => partsTx'[s].variant # partsTx'[q].variant
                      /\ partsTx'[q].at \in {"update", "delete"}
                           => variants'[partsTx'[q].variant] # None
    BY DEF Parts!InsertsAreFresh, Parts!At
  <2>1. CASE q = p
    BY <1>2, <2>1 DEF Parts!Idle
  <2>2. CASE q # p
    <3>1. /\ partsTx[q].at = "insert" =>
               /\ variants[partsTx[q].variant] = None
               /\ \A s \in Procs \ {q} : partsTx[s].at = "insert"
                    => partsTx[s].variant # partsTx[q].variant
          /\ partsTx[q].at \in {"update", "delete"} => variants[partsTx[q].variant] # None
      BY <1>0 DEF Parts!InsertsAreFresh, Parts!At
    <3>2. partsTx[q].at \in {"insert", "update", "delete"} => partsTx[q].variant \in Variants
      BY <1>0, PartsRequests
    <3>3. \A s \in Procs \ {q} : partsTx'[s].at = "insert"
             => partsTx[s].at = "insert" /\ partsTx'[s] = partsTx[s]
      BY <1>2 DEF Parts!Idle
    <3> QED
      BY <1>2, <2>2, <3>1, <3>2, <3>3 DEF Parts!At
  <2> QED
    BY <2>1, <2>2
<1> QED
  BY <1>4, <1>5, <1>6 DEF Parts!IndInv

\* The owner's commits.
LEMMA PartsCommitsAreSafe ==
    ASSUME Parts!IndInv, NEW p \in Procs,
           \/ Parts!CommitInsert(p) \/ Parts!CommitEdit(p) \/ Parts!CommitRemove(p)
           \/ Parts!CommitFirstCare(p) \/ Parts!CommitCare(p) \/ Parts!Crash(p)
    PROVE  Parts!IndInv'
<1> DEFINE r == partsTx[p]
<1>0. /\ Parts!TypeOK /\ Parts!InsertsAreFresh /\ Parts!LoneCopies /\ Parts!PartsNeedShrimp
      /\ partsFailed = FALSE
  BY DEF Parts!IndInv, Parts!OnlyRacesFail, Parts!TypeOK
<1>1. /\ present \in BOOLEAN /\ variants \in [Variants -> Parts!Variant \cup Parts!NoRow]
      /\ care \in Parts!Care \cup {None}
      /\ None \in Parts!NoRow /\ Deleted \in Parts!NoRow /\ None # Deleted
      /\ \A row \in Parts!Variant : row \notin Parts!NoRow
      /\ ~present => care = None /\ \A v \in Variants : ~Parts!HasRow(v)
  BY <1>0, MarksDiffer, PartsAssumption DEF Parts!TypeOK, Parts!PartsAssumption, Parts!NoRow,
     Parts!PartsNeedShrimp
<1>2. /\ r.at = "insert" => r.variant \in Variants /\ r.payload \in Parts!Variant
      /\ r.at = "update" => /\ r.variant \in Variants /\ r.loaded \in Parts!Variant
                            /\ r.payload \in Parts!VariantPayload
      /\ r.at = "delete" => r.variant \in Variants
      /\ r.at = "care" => /\ r.loaded \in Parts!Care \cup {None}
                          /\ r.payload \in Parts!CarePayload
      /\ r.at \in {"insert", "update", "delete", "care"} => r # Parts!Idle
  BY <1>0, PartsRequests DEF Parts!Idle
<1>3. /\ r.at = "insert" => variants[r.variant] = None
      /\ r.at \in {"update", "delete"} => variants[r.variant] # None
  BY <1>0 DEF Parts!InsertsAreFresh, Parts!At
<1>4. p \in partsAlone =>
        /\ r.at \in {"insert", "care"} => present
        /\ r.at = "update" => Parts!HasRow(r.variant)
        /\ r.at = "care" => r.loaded = care
  BY <1>0 DEF Parts!LoneCopies
<1>5. r # Parts!Idle /\ Parts!Leave(p)
  BY <1>2 DEF Parts!CommitInsert, Parts!CommitEdit, Parts!CommitRemove,
     Parts!CommitFirstCare, Parts!CommitCare, Parts!Crash, Parts!At, Parts!End, Parts!Fail
<1>6. ASSUME Parts!Fail(p), p \notin partsAlone
      PROVE  Parts!IndInv'
  <2>1. partsFailed' = FALSE /\ UNCHANGED <<present, variants, care>>
    BY <1>0, <1>6 DEF Parts!Fail, Parts!rows
  <2> QED
    BY <1>1, <1>3, <1>5, <2>1, PartsEndIsSafe DEF Parts!At, Parts!HasRow
<1>7. CASE Parts!CommitInsert(p) /\ present
  <2>1. /\ variants' = [variants EXCEPT ![r.variant] = r.payload]
        /\ UNCHANGED <<present, care>> /\ present /\ r.at = "insert" /\ partsFailed' = FALSE
    BY <1>0, <1>7 DEF Parts!CommitInsert, Parts!At, Parts!ParentExists, Parts!End
  <2> QED
    BY <1>1, <1>2, <1>5, <2>1, PartsEndIsSafe DEF Parts!At
<1>8. CASE Parts!CommitEdit(p) /\ ~(~Parts!HasRow(r.variant) /\ Parts!Fail(p))
  <2>1. /\ UNCHANGED <<present, care>> /\ r.at = "update" /\ partsFailed' = FALSE
        /\ \/ UNCHANGED variants
           \/ /\ Parts!HasRow(r.variant)
              /\ variants' = [variants EXCEPT ![r.variant] =
                                Parts!Merged(variants[r.variant], r.loaded, r.payload)]
    BY <1>0, <1>8 DEF Parts!CommitEdit, Parts!At, Parts!End, Parts!rows
  <2>2. Parts!HasRow(r.variant) =>
          Parts!Merged(variants[r.variant], r.loaded, r.payload) \in Parts!Variant
    BY <1>1, <1>2, <2>1, VariantMerged DEF Parts!HasRow
  <2> QED
    BY <1>1, <1>2, <1>3, <1>5, <2>1, <2>2, PartsEndIsSafe DEF Parts!HasRow
<1>9. CASE Parts!CommitRemove(p)
  <2>1. /\ variants' = [variants EXCEPT ![r.variant] = Deleted]
        /\ UNCHANGED <<present, care>> /\ r.at = "delete" /\ partsFailed' = FALSE
    BY <1>0, <1>9 DEF Parts!CommitRemove, Parts!At, Parts!End
  <2> QED
    BY <1>1, <1>2, <1>3, <1>5, <2>1, PartsEndIsSafe DEF Parts!HasRow
<1>10. CASE /\ Parts!CommitFirstCare(p) \/ Parts!CommitCare(p)
           /\ ~(r.loaded = None /\ ~Parts!Insertable /\ Parts!Fail(p))
           /\ ~(r.loaded # None /\ care = None /\ Parts!Fail(p))
  <2>1. /\ UNCHANGED <<present, variants>> /\ r.at = "care" /\ partsFailed' = FALSE
        /\ \/ UNCHANGED care
           \/ present /\ care' = Parts!FreshCare(r.payload)
           \/ /\ care # None /\ r.loaded # None
              /\ care' = Parts!Merged(care, r.loaded, r.payload)
    BY <1>0, <1>10 DEF Parts!CommitFirstCare, Parts!CommitCare, Parts!At, Parts!End,
       Parts!Insertable, Parts!ParentExists, Parts!rows
  <2>2. Parts!FreshCare(r.payload) \in Parts!Care
    BY <1>2, <2>1, FreshCareIsCare
  <2>3. care # None /\ r.loaded # None =>
          Parts!Merged(care, r.loaded, r.payload) \in Parts!Care
    BY <1>1, <1>2, <2>1, CareMerged
  <2> QED
    BY <1>1, <1>5, <2>1, <2>2, <2>3, PartsEndIsSafe DEF Parts!HasRow
<1>11. CASE Parts!Crash(p)
  <2>1. partsFailed' = FALSE /\ UNCHANGED <<present, variants, care>>
    BY <1>0, <1>11 DEF Parts!Crash, Parts!End, Parts!rows
  <2> QED
    BY <1>1, <1>5, <2>1, PartsEndIsSafe DEF Parts!HasRow
<1>12. CASE Parts!CommitInsert(p) /\ ~present
  BY <1>4, <1>6, <1>12 DEF Parts!CommitInsert, Parts!At, Parts!ParentExists
<1>13. CASE Parts!CommitEdit(p) /\ ~Parts!HasRow(r.variant) /\ Parts!Fail(p)
  BY <1>4, <1>6, <1>13 DEF Parts!CommitEdit, Parts!At
<1>14. CASE /\ Parts!CommitFirstCare(p) \/ Parts!CommitCare(p)
            /\ Parts!Fail(p)
            /\ \/ r.loaded = None /\ ~Parts!Insertable
               \/ r.loaded # None /\ care = None
  BY <1>4, <1>6, <1>14 DEF Parts!CommitFirstCare, Parts!CommitCare, Parts!At,
     Parts!Insertable, Parts!ParentExists
<1> QED
  BY <1>7, <1>8, <1>9, <1>10, <1>11, <1>12, <1>13, <1>14

\* What the owner's requests load.
LEMMA PartsLoadsAreSafe ==
    ASSUME Parts!IndInv, NEW p \in Procs,
           \/ Parts!AddVariant(p) \/ Parts!EditVariant(p) \/ Parts!RemoveVariant(p)
           \/ Parts!UpsertCare(p) \/ Parts!FindCare(p)
    PROVE  Parts!IndInv'
<1>0. Parts!TypeOK /\ Parts!InsertsAreFresh /\ Parts!LoneCopies
  BY DEF Parts!IndInv
<1>1. /\ variants \in [Variants -> Parts!Variant \cup Parts!NoRow]
      /\ care \in Parts!Care \cup {None}
      /\ partsTx \in [Procs -> Parts!Requests \cup {Parts!Idle}]
      /\ None \in Parts!NoRow
  BY <1>0 DEF Parts!TypeOK, Parts!NoRow
<1>2. CASE Parts!AddVariant(p)
  <2>1. PICK v \in Variants, payload \in Parts!Variant :
            /\ variants[v] = None /\ present
            /\ \A q \in Procs : Parts!At(q, "insert") => partsTx[q].variant # v
            /\ Parts!Begin(p, [at |-> "insert", variant |-> v, payload |-> payload])
    BY <1>2 DEF Parts!AddVariant
  <2> DEFINE r == [at |-> "insert", variant |-> v, payload |-> payload]
  <2>2. r \in Parts!Requests /\ r.at = "insert" /\ r.variant = v
    BY PartsRequestsAre
  <2> HIDE DEF r
  <2>3. Parts!Begin(p, r)
    BY <2>1 DEF r
  <2> QED
    BY <2>1, <2>2, <2>3, PartsBeginIsSafe
<1>3. CASE Parts!EditVariant(p)
  <2>1. PICK v \in Variants, payload \in Parts!VariantPayload :
            /\ Parts!HasRow(v)
            /\ Parts!Begin(p, [at |-> "update", variant |-> v, loaded |-> variants[v],
                               payload |-> payload])
    BY <1>3 DEF Parts!EditVariant
  <2> DEFINE r == [at |-> "update", variant |-> v, loaded |-> variants[v],
                   payload |-> payload]
  <2>2. variants[v] \in Parts!Variant /\ variants[v] # None
    BY <1>1, <2>1 DEF Parts!HasRow
  <2>3. r \in Parts!Requests /\ r.at = "update" /\ r.variant = v
    BY <2>2, PartsRequestsAre
  <2> HIDE DEF r
  <2>4. Parts!Begin(p, r)
    BY <2>1 DEF r
  <2> QED
    BY <2>1, <2>2, <2>3, <2>4, PartsBeginIsSafe
<1>4. CASE Parts!RemoveVariant(p)
  <2>1. PICK v \in Variants :
            Parts!HasRow(v) /\ Parts!Begin(p, [at |-> "delete", variant |-> v])
    BY <1>4 DEF Parts!RemoveVariant
  <2> DEFINE r == [at |-> "delete", variant |-> v]
  <2>2. variants[v] # None
    BY <1>1, <2>1 DEF Parts!HasRow
  <2>3. r \in Parts!Requests /\ r.at = "delete" /\ r.variant = v
    BY PartsRequestsAre
  <2> HIDE DEF r
  <2>4. Parts!Begin(p, r)
    BY <2>1 DEF r
  <2> QED
    BY <2>2, <2>3, <2>4, PartsBeginIsSafe
<1>5. CASE Parts!UpsertCare(p)
  <2>1. PICK payload \in Parts!CarePayload :
            present /\ Parts!Begin(p, [at |-> "find", payload |-> payload])
    BY <1>5 DEF Parts!UpsertCare
  <2> DEFINE r == [at |-> "find", payload |-> payload]
  <2>2. r \in Parts!Requests /\ r.at = "find"
    BY PartsRequestsAre
  <2> HIDE DEF r
  <2>3. Parts!Begin(p, r)
    BY <2>1 DEF r
  <2> QED
    BY <2>1, <2>2, <2>3, PartsBeginIsSafe
<1>6. CASE Parts!FindCare(p)
  <2> DEFINE r == [at |-> "care", loaded |-> care, payload |-> partsTx[p].payload]
  <2>1. /\ partsTx[p].at = "find" /\ partsTx' = [partsTx EXCEPT ![p] = r]
        /\ UNCHANGED <<present, variants, care, partsAlone, partsFailed>>
    BY <1>6 DEF Parts!FindCare, Parts!At, Parts!rows, Parts!history
  <2>2. r \in Parts!Requests /\ r.at = "care" /\ r.loaded = care /\ r # Parts!Idle
    <3>1. r \in Parts!Requests
      BY <1>0, <1>1, <2>1, PartsRequests, PartsRequestsAre
    <3> QED
      BY <3>1 DEF Parts!Idle
  <2> HIDE DEF r
  <2>3. partsTx'[p] = r /\ \A q \in Procs : q # p => partsTx'[q] = partsTx[q]
    BY <1>1, <2>1
  <2>4. partsTx' \in [Procs -> Parts!Requests \cup {Parts!Idle}]
    BY <1>1, <2>1, <2>2
  <2>5. Parts!TypeOK' /\ Parts!PartsNeedShrimp' /\ Parts!OnlyRacesFail'
    BY <2>1, <2>4 DEF Parts!IndInv, Parts!TypeOK, Parts!PartsNeedShrimp, Parts!HasRow,
                      Parts!OnlyRacesFail
  <2>6. Parts!InsertsAreFresh'
    <3>1. \A q \in Procs : partsTx'[q].at \in {"insert", "update", "delete"}
             => partsTx'[q] = partsTx[q]
      BY <2>2, <2>3
    <3> QED
      BY <1>0, <2>1, <3>1 DEF Parts!InsertsAreFresh, Parts!At
  <2>7. Parts!LoneCopies'
    <3>1. \A q \in partsAlone : q = p /\ present
             /\ \A s \in Procs \ {p} : partsTx[s] = Parts!Idle
      <4>1. partsTx[p] # Parts!Idle /\ partsAlone \subseteq Procs
        BY <1>0, <2>1 DEF Parts!Idle, Parts!TypeOK
      <4> QED
        BY <1>0, <2>1, <4>1 DEF Parts!LoneCopies
    <3> QED
      BY <2>1, <2>2, <2>3, <3>1 DEF Parts!LoneCopies
  <2> QED
    BY <2>5, <2>6, <2>7 DEF Parts!IndInv
<1> QED
  BY <1>2, <1>3, <1>4, <1>5, <1>6

\* Orders and the deletion of the entry.
LEMMA PartsMeanwhileIsSafe ==
    ASSUME Parts!IndInv,
           \/ \E v \in Variants : Parts!Sell(v) \/ Parts!Release(v)
           \/ Parts!DeleteShrimp
    PROVE  Parts!IndInv'
<1>0. Parts!TypeOK /\ Parts!InsertsAreFresh /\ Parts!LoneCopies
  BY DEF Parts!IndInv
<1>1. /\ variants \in [Variants -> Parts!Variant \cup Parts!NoRow]
      /\ None \in Parts!NoRow /\ Deleted \in Parts!NoRow /\ None # Deleted
      /\ \A row \in Parts!Variant : row \notin Parts!NoRow
  BY <1>0, MarksDiffer, PartsAssumption DEF Parts!TypeOK, Parts!PartsAssumption, Parts!NoRow
<1>2. ASSUME UNCHANGED <<partsTx, partsFailed, care>>, UNCHANGED partsAlone,
             UNCHANGED present,
             variants' \in [Variants -> Parts!Variant \cup Parts!NoRow],
             \A v \in Variants : /\ Parts!HasRow(v)' <=> Parts!HasRow(v)
                                 /\ variants'[v] = None <=> variants[v] = None
      PROVE  Parts!IndInv'
  <2>1. Parts!TypeOK' /\ Parts!PartsNeedShrimp' /\ Parts!OnlyRacesFail'
    BY <1>2 DEF Parts!IndInv, Parts!TypeOK, Parts!PartsNeedShrimp, Parts!OnlyRacesFail
  <2>2. Parts!InsertsAreFresh'
    BY <1>0, <1>2, PartsRequests DEF Parts!InsertsAreFresh, Parts!At
  <2>3. \A p \in partsAlone : p \in Procs
    BY <1>0 DEF Parts!TypeOK
  <2>4. Parts!LoneCopies'
    <3> SUFFICES ASSUME NEW p \in Procs, p \in partsAlone
                 PROVE  /\ partsTx[p] # Parts!Idle
                        /\ \A q \in Procs \ {p} : partsTx[q] = Parts!Idle
                        /\ partsTx[p].at \in {"insert", "find", "care"} => present
                        /\ partsTx[p].at = "update" => Parts!HasRow(partsTx[p].variant)'
                        /\ partsTx[p].at = "care" => partsTx[p].loaded = care
      BY <1>2, <2>3 DEF Parts!LoneCopies, Parts!HasRow
    <3>1. partsTx[p].at = "update" => partsTx[p].variant \in Variants
      BY <1>0, PartsRequests
    <3> QED
      BY <1>0, <1>2, <3>1 DEF Parts!LoneCopies
  <2> QED
    BY <2>1, <2>2, <2>4 DEF Parts!IndInv
<1>3. ASSUME NEW v \in Variants, Parts!Sell(v) \/ Parts!Release(v)
      PROVE  Parts!IndInv'
  <2>1. PICK n \in 0..MaxStock :
            /\ Parts!HasRow(v) /\ variants' = [variants EXCEPT ![v] =
                                      [variants[v] EXCEPT !.stock_quantity = n]]
            /\ UNCHANGED <<present, care, partsTx, partsAlone, partsFailed>>
    <3>1. variants[v] \in Parts!Variant /\ MaxStock \in Nat
      BY <1>1, <1>3, PartsAssumption DEF Parts!Sell, Parts!Release, Parts!HasRow,
                                         Parts!PartsAssumption
    <3>2. variants[v].stock_quantity \in 0..MaxStock
      BY <3>1 DEF Parts!Variant
    <3>3. CASE Parts!Sell(v)
      <4>1. variants[v].stock_quantity - 1 \in 0..MaxStock
        BY <3>1, <3>2, <3>3 DEF Parts!Sell
      <4> QED
        BY <3>3, <4>1 DEF Parts!Sell, Parts!history
    <3>4. CASE Parts!Release(v)
      <4>1. variants[v].stock_quantity + 1 \in 0..MaxStock
        BY <3>1, <3>2, <3>4 DEF Parts!Release
      <4> QED
        BY <3>4, <4>1 DEF Parts!Release, Parts!history
    <3> QED
      BY <1>3, <3>3, <3>4
  <2>2. [variants[v] EXCEPT !.stock_quantity = n] \in Parts!Variant
    <3>1. variants[v] \in Parts!Variant
      BY <1>1, <2>1 DEF Parts!HasRow
    <3> QED
      BY <3>1 DEF Parts!Variant
  <2>3. /\ variants'[v] = [variants[v] EXCEPT !.stock_quantity = n]
        /\ \A w \in Variants : w # v => variants'[w] = variants[w]
        /\ variants' \in [Variants -> Parts!Variant \cup Parts!NoRow]
    BY <1>1, <2>1, <2>2
  <2>4. variants'[v] \in Parts!Variant /\ variants[v] \notin Parts!NoRow
    BY <2>1, <2>2, <2>3 DEF Parts!HasRow
  <2>5. \A w \in Variants : /\ Parts!HasRow(w)' <=> Parts!HasRow(w)
                            /\ variants'[w] = None <=> variants[w] = None
    BY <1>1, <2>3, <2>4 DEF Parts!HasRow
  <2> QED
    BY <1>2, <2>1, <2>3, <2>5
<1>4. CASE Parts!DeleteShrimp
  <2>1. /\ present' = FALSE /\ care' = None /\ partsAlone' = {}
        /\ variants' = [v \in Variants |-> IF Parts!HasRow(v) THEN Deleted ELSE variants[v]]
        /\ UNCHANGED <<partsTx, partsFailed>>
    BY <1>4 DEF Parts!DeleteShrimp
  <2>2. /\ variants' \in [Variants -> Parts!Variant \cup Parts!NoRow]
        /\ \A v \in Variants : /\ ~Parts!HasRow(v)'
                               /\ variants'[v] = None <=> variants[v] = None
    BY <1>1, <2>1 DEF Parts!HasRow
  <2>3. Parts!TypeOK' /\ Parts!PartsNeedShrimp' /\ Parts!OnlyRacesFail' /\ Parts!LoneCopies'
    BY <2>1, <2>2 DEF Parts!IndInv, Parts!TypeOK, Parts!PartsNeedShrimp,
                      Parts!OnlyRacesFail, Parts!LoneCopies
  <2>4. Parts!InsertsAreFresh'
    BY <1>0, <2>1, <2>2, PartsRequests DEF Parts!InsertsAreFresh, Parts!At
  <2> QED
    BY <2>3, <2>4 DEF Parts!IndInv
<1> QED
  BY <1>3, <1>4

\* Every step on variants and care parameters keeps their invariant.
LEMMA PartsSafe == Parts!IndInv /\ [Parts!Next]_(Parts!vars) => Parts!IndInv'
<1> SUFFICES ASSUME Parts!IndInv, [Parts!Next]_(Parts!vars) PROVE Parts!IndInv'
  OBVIOUS
<1>1. CASE Parts!Next
  BY <1>1, PartsLoadsAreSafe, PartsCommitsAreSafe, PartsMeanwhileIsSafe
  DEF Parts!Next, Parts!Step
<1>2. CASE UNCHANGED Parts!vars
  <2>1. UNCHANGED <<present, variants, care, partsTx, partsAlone, partsFailed>>
    BY <1>2 DEF Parts!vars, Parts!rows, Parts!history
  <2>2. Parts!TypeOK' /\ Parts!PartsNeedShrimp' /\ Parts!OnlyRacesFail'
    BY <2>1 DEF Parts!IndInv, Parts!TypeOK, Parts!PartsNeedShrimp, Parts!HasRow,
                Parts!OnlyRacesFail
  <2>3. Parts!InsertsAreFresh' /\ Parts!LoneCopies'
    BY <2>1 DEF Parts!IndInv, Parts!InsertsAreFresh, Parts!LoneCopies, Parts!At,
                Parts!HasRow
  <2> QED
    BY <2>2, <2>3 DEF Parts!IndInv
<1> QED
  BY <1>1, <1>2

\* Variants and care parameters are consistent: they go with their entry, a
\* request that nothing overlaps finds what it loaded and does not fail
\* (owner_service.py).
THEOREM PartsAreConsistent == Parts!Spec => []Parts!IndInv
<1>1. Parts!Init => Parts!IndInv
  <2> SUFFICES ASSUME Parts!Init PROVE Parts!IndInv
    OBVIOUS
  <2>1. Parts!TypeOK
    BY DEF Parts!Init, Parts!TypeOK, Parts!NoRow
  <2>2. Parts!PartsNeedShrimp /\ Parts!OnlyRacesFail /\ Parts!LoneCopies
    BY DEF Parts!Init, Parts!PartsNeedShrimp, Parts!OnlyRacesFail, Parts!LoneCopies
  <2>3. Parts!InsertsAreFresh
    BY DEF Parts!Init, Parts!InsertsAreFresh, Parts!At, Parts!Idle
  <2> QED
    BY <2>1, <2>2, <2>3 DEF Parts!IndInv
<1> QED
  BY <1>1, PartsSafe, PTL DEF Parts!Spec

\* A sale is not undone by an edit that was loaded before it and says nothing of
\* the stock (update_shrimp_variant).
THEOREM SalesAreKept == Parts!Spec => Parts!SalesSurviveEdits
<1> DEFINE Kept == \A v \in Variants :
              Parts!HasRow(v) /\ variants'[v] \notin Parts!NoRow =>
                 \/ variants'[v].stock_quantity = variants[v].stock_quantity
                 \/ partsTx' = partsTx
                 \/ \E p \in Procs : /\ Parts!At(p, "update") /\ partsTx'[p] = Parts!Idle
                                     /\ partsTx[p].variant = v
                                     /\ partsTx[p].payload.stock_quantity # Absent
<1>1. ASSUME Parts!IndInv, Parts!Next, NEW v \in Variants, Parts!HasRow(v),
             variants'[v] \notin Parts!NoRow, partsTx' # partsTx,
             variants'[v].stock_quantity # variants[v].stock_quantity
      PROVE  \E p \in Procs : /\ Parts!At(p, "update") /\ partsTx'[p] = Parts!Idle
                              /\ partsTx[p].variant = v
                              /\ partsTx[p].payload.stock_quantity # Absent
  <2>0. Parts!TypeOK /\ Parts!InsertsAreFresh
    BY <1>1 DEF Parts!IndInv
  <2>1. /\ variants \in [Variants -> Parts!Variant \cup Parts!NoRow]
        /\ partsTx \in [Procs -> Parts!Requests \cup {Parts!Idle}]
        /\ None \in Parts!NoRow /\ Deleted \in Parts!NoRow
    BY <2>0 DEF Parts!TypeOK, Parts!NoRow
  <2>2. PICK p \in Procs : Parts!CommitInsert(p) \/ Parts!CommitEdit(p)
                           \/ Parts!CommitRemove(p)
    <3>1. variants' # variants
      BY <1>1
    <3>2. ~Parts!DeleteShrimp
      BY <1>1 DEF Parts!DeleteShrimp
    <3>3. ~\E w \in Variants : Parts!Sell(w) \/ Parts!Release(w)
      BY <1>1 DEF Parts!Sell, Parts!Release, Parts!history
    <3>4. PICK p \in Procs : Parts!Step(p)
      BY <1>1, <3>2, <3>3 DEF Parts!Next
    <3> QED
      BY <3>1, <3>4 DEF Parts!Step, Parts!AddVariant, Parts!EditVariant,
         Parts!RemoveVariant, Parts!UpsertCare, Parts!FindCare, Parts!CommitFirstCare,
         Parts!CommitCare, Parts!Crash, Parts!Begin, Parts!Fail, Parts!rows
  <2>3. ~Parts!CommitInsert(p)
    <3> SUFFICES ASSUME Parts!CommitInsert(p) PROVE FALSE
      OBVIOUS
    <3>1. variants[partsTx[p].variant] = None /\ partsTx[p].variant \in Variants
      BY <2>0, PartsRequests DEF Parts!CommitInsert, Parts!InsertsAreFresh, Parts!At
    <3>2. partsTx[p].variant # v
      BY <1>1, <2>1, <3>1 DEF Parts!HasRow
    <3> QED
      BY <1>1, <2>1, <3>2 DEF Parts!CommitInsert, Parts!Fail, Parts!rows
  <2>4. ~Parts!CommitRemove(p)
    BY <1>1, <2>1 DEF Parts!CommitRemove
  <2>5. Parts!CommitEdit(p)
    BY <2>2, <2>3, <2>4
  <2> DEFINE r == partsTx[p]
  <2>6. /\ Parts!At(p, "update") /\ Parts!Leave(p)
        /\ variants' = [variants EXCEPT ![r.variant] =
                          Parts!Merged(variants[r.variant], r.loaded, r.payload)]
    BY <1>1, <2>5 DEF Parts!CommitEdit, Parts!End, Parts!Fail, Parts!rows
  <2>7. r.variant = v
    BY <1>1, <2>1, <2>6
  <2>8. variants[v] \in Parts!Variant /\ r.loaded \in Parts!Variant
        /\ r.payload \in Parts!VariantPayload
    BY <1>1, <2>0, <2>1, <2>6, PartsRequests DEF Parts!HasRow, Parts!At
  <2>9. r.payload.stock_quantity # Absent
    BY <1>1, <2>1, <2>6, <2>7, <2>8, VariantMerged
  <2>10. partsTx'[p] = Parts!Idle
    BY <2>1, <2>6 DEF Parts!Leave
  <2> QED
    BY <2>6, <2>7, <2>9, <2>10
<1>2. Parts!IndInv /\ [Parts!Next]_(Parts!vars) => [Kept]_(Parts!vars)
  BY <1>1
<1> QED
  BY <1>2, PartsAreConsistent, PTL DEF Parts!Spec, Parts!SalesSurviveEdits

\* A limit of the care parameters that was entered is not emptied by a request that
\* leaves it out (upsert_shrimp_care_parameter).
THEOREM LimitsStay == Parts!Spec => Parts!LimitsAreKept
<1> DEFINE Kept == care # None /\ care' # None /\ care.ph_min # None => care'.ph_min # None
<1>1. ASSUME Parts!IndInv, Parts!Next, care # None, care' # None, care.ph_min # None
      PROVE  care'.ph_min # None
  <2>0. Parts!TypeOK
    BY <1>1 DEF Parts!IndInv
  <2>1. care \in Parts!Care
    BY <1>1, <2>0 DEF Parts!TypeOK
  <2>2. CASE UNCHANGED care
    BY <1>1, <2>2
  <2>3. ASSUME NEW p \in Procs, Parts!CommitCare(p), care' # care
        PROVE  care'.ph_min # None
    <3>1. /\ care' = Parts!Merged(care, partsTx[p].loaded, partsTx[p].payload)
          /\ partsTx[p].at = "care" /\ partsTx[p].loaded # None
      BY <1>1, <2>3 DEF Parts!CommitCare, Parts!Fail, Parts!At, Parts!rows
    <3>2. partsTx[p].loaded \in Parts!Care /\ partsTx[p].payload \in Parts!CarePayload
      BY <2>0, <3>1, PartsRequests
    <3> QED
      BY <1>1, <2>1, <3>1, <3>2, CareMerged
  <2>4. UNCHANGED care \/ \E p \in Procs : Parts!CommitCare(p)
    BY <1>1 DEF Parts!Next, Parts!Step, Parts!AddVariant, Parts!EditVariant,
       Parts!RemoveVariant, Parts!UpsertCare, Parts!FindCare, Parts!CommitInsert,
       Parts!CommitEdit, Parts!CommitRemove, Parts!CommitFirstCare, Parts!Insertable,
       Parts!Crash, Parts!Sell, Parts!Release, Parts!DeleteShrimp, Parts!Begin,
       Parts!Fail, Parts!rows
  <2> QED
    BY <2>2, <2>3, <2>4
<1>2. Parts!IndInv /\ [Parts!Next]_(Parts!vars) => [Kept]_(Parts!vars)
  BY <1>1
<1> QED
  BY <1>2, PartsAreConsistent, PTL DEF Parts!Spec, Parts!LimitsAreKept
-----------------------------------------------------------------------------
(***************************************************************************)
(* Images.                                                                 *)
(***************************************************************************)
ImageIds == 1..LastImage

\* What a row holds.
LEMMA ImageRows ==
    ASSUME Images!TypeOK, NEW i \in ImageIds
    PROVE  /\ images[i].state \in {"unused", "shown", "removed"}
           /\ images[i].state = "unused" <=> images[i] = Images!Unused
           /\ images[i].state \in {"shown", "removed"} => images[i].key \in Keys
           /\ images[i].state = "shown" => images[i].slot \in Images!Slots
           /\ images[i].state = "shown" <=> i \in Images!Shown
           /\ images[i].state \in {"shown", "removed"} =>
                 /\ Images!Removed(i) \in Images!Row
                 /\ Images!Removed(i).state = "removed"
                 /\ Images!Removed(i).key = images[i].key
<1>1. images[i] \in Images!Row
  BY DEF Images!TypeOK, ImageIds
<1>2. /\ images[i].state \in {"unused", "shown", "removed"}
      /\ images[i].state = "unused" <=> images[i] = Images!Unused
      /\ images[i].state \in {"shown", "removed"} => images[i].key \in Keys
      /\ images[i].state = "shown" => images[i].slot \in Images!Slots
  BY <1>1 DEF Images!Row, Images!Unused
<1> QED
  BY <1>2 DEF Images!Shown, ImageIds, Images!Removed, Images!Row

\* Slots are numbers, and there is one for each of MAX_SHRIMP_IMAGES images and for
\* whatever the client asks for.
LEMMA SlotsAre ==
    /\ MaxImages \in Nat \ {0} /\ MaxSlot \in Nat
    /\ Images!Slots \subseteq Nat
    /\ 0..MaxSlot \subseteq Images!Slots /\ 0..(MaxImages - 1) \subseteq Images!Slots
    /\ IsFiniteSet(Procs) /\ IsFiniteSet(ImageIds) /\ ImageIds \subseteq Nat
<1>1. MaxImages \in Nat \ {0} /\ MaxSlot \in Nat /\ Images!IsFiniteSet(Procs)
      /\ LastImage \in Nat
  BY ImagesAssumption DEF Images!ImagesAssumption
<1>2. IsFiniteSet(Procs) /\ IsFiniteSet(ImageIds) /\ ImageIds \subseteq Nat
  BY <1>1, SameFinite, FS_Interval DEF ImageIds
<1>3. /\ Images!Slots \subseteq Nat
      /\ 0..MaxSlot \subseteq Images!Slots /\ 0..(MaxImages - 1) \subseteq Images!Slots
  BY <1>1 DEF Images!Slots
<1> QED
  BY <1>1, <1>2, <1>3

\* What a request has asked for and loaded.
LEMMA ImagesRequests ==
    ASSUME Images!TypeOK, NEW p \in Procs, NEW r, r = imagesTx[p]
    PROVE  /\ r \in Images!Requests \cup {Images!Idle}
           /\ r = Images!Idle <=> r.op = "idle"
           /\ r # Images!Idle => r.op \in {"add", "edit", "remove", "delete", "status"}
           /\ r.op = "add" => /\ r.key \in Keys /\ r.slot \in Images!Slots
                              /\ r.at = "commit" /\ r.raced \in BOOLEAN
                              /\ DOMAIN r.moves \subseteq ImageIds
                              /\ r.moves \in [DOMAIN r.moves -> Images!Slots]
           /\ r.op = "edit" => /\ r.image \in ImageIds /\ r.slot \in 0..MaxSlot
                               /\ r.changed \in BOOLEAN /\ r.at = "commit"
           /\ r.op = "remove" => /\ r.image \in ImageIds /\ r.key \in Keys
                                 /\ r.at \in {"storage", "commit"}
           /\ r.op = "delete" => /\ r.keys \subseteq Keys /\ r.raced \in BOOLEAN
                                 /\ r.at \in {"storage", "commit"}
           /\ r.op = "status" => /\ r.to \in {"active", "inactive"} /\ r.at = "commit"
                                 /\ r.changed \in BOOLEAN
<1>1. r \in Images!Requests \cup {Images!Idle}
  BY DEF Images!TypeOK
<1>2. ASSUME r \in [op : {"add"}, key : Keys, slot : Images!Slots, at : {"commit"},
                    raced : BOOLEAN,
                    moves : UNION {[S -> Images!Slots] : S \in SUBSET ImageIds}]
      PROVE  /\ r.op = "add" /\ r.key \in Keys /\ r.slot \in Images!Slots
             /\ r.at = "commit" /\ r.raced \in BOOLEAN
             /\ DOMAIN r.moves \subseteq ImageIds
             /\ r.moves \in [DOMAIN r.moves -> Images!Slots]
  <2>1. PICK S \in SUBSET ImageIds : r.moves \in [S -> Images!Slots]
    BY <1>2
  <2> QED
    BY <1>2, <2>1
<1>3. \/ r = Images!Idle
      \/ r \in [op : {"add"}, key : Keys, slot : Images!Slots, at : {"commit"},
                raced : BOOLEAN,
                moves : UNION {[S -> Images!Slots] : S \in SUBSET ImageIds}]
      \/ r \in [op : {"edit"}, image : ImageIds, slot : 0..MaxSlot, changed : BOOLEAN,
                at : {"commit"}]
      \/ r \in [op : {"remove"}, image : ImageIds, key : Keys, at : {"storage", "commit"}]
      \/ r \in [op : {"delete"}, keys : SUBSET Keys, at : {"storage", "commit"},
                raced : BOOLEAN]
      \/ r \in [op : {"status"}, to : {"active", "inactive"}, changed : BOOLEAN,
                at : {"commit"}]
  BY <1>1 DEF Images!Requests, ImageIds
<1>4. Images!Idle.op = "idle"
  BY DEF Images!Idle
<1> QED
  BY <1>1, <1>2, <1>3, <1>4

\* The requests that begin or go on are requests.
LEMMA ImagesRequestsAre ==
    /\ \A k \in Keys, slot \in Images!Slots, S \in SUBSET ImageIds, raced \in BOOLEAN :
          \A moves \in [S -> Images!Slots] :
             [op |-> "add", key |-> k, slot |-> slot, moves |-> moves, at |-> "commit",
              raced |-> raced] \in Images!Requests
    /\ \A i \in ImageIds, slot \in 0..MaxSlot, changed \in BOOLEAN :
          [op |-> "edit", image |-> i, slot |-> slot, changed |-> changed,
           at |-> "commit"] \in Images!Requests
    /\ \A i \in ImageIds, k \in Keys, at \in {"storage", "commit"} :
          [op |-> "remove", image |-> i, key |-> k, at |-> at] \in Images!Requests
    /\ \A keys \in SUBSET Keys, at \in {"storage", "commit"}, raced \in BOOLEAN :
          [op |-> "delete", keys |-> keys, at |-> at, raced |-> raced] \in Images!Requests
    /\ \A to \in {"active", "inactive"}, changed \in BOOLEAN :
          [op |-> "status", to |-> to, changed |-> changed, at |-> "commit"]
             \in Images!Requests
<1>1. ASSUME NEW k \in Keys, NEW slot \in Images!Slots, NEW S \in SUBSET ImageIds,
             NEW raced \in BOOLEAN, NEW moves \in [S -> Images!Slots]
      PROVE  [op |-> "add", key |-> k, slot |-> slot, moves |-> moves, at |-> "commit",
              raced |-> raced] \in Images!Requests
  <2>1. moves \in UNION {[T -> Images!Slots] : T \in SUBSET ImageIds}
    OBVIOUS
  <2>2. [op |-> "add", key |-> k, slot |-> slot, moves |-> moves, at |-> "commit",
         raced |-> raced]
        \in [op : {"add"}, key : Keys, slot : Images!Slots, at : {"commit"},
             raced : BOOLEAN,
             moves : UNION {[T -> Images!Slots] : T \in SUBSET ImageIds}]
    BY <2>1
  <2> QED
    BY <2>2 DEF Images!Requests, ImageIds
<1> QED
  BY <1>1 DEF Images!Requests, ImageIds

\* What an overlapping request does to the others: adds and deletions are told.
LEMMA ImagesOthers ==
    ASSUME Images!TypeOK, NEW p \in Procs, NEW r \in Images!Requests \cup {Images!Idle},
           Images!Begin(p, r)
    PROVE  /\ imagesTx'[p] = r
           /\ imagesTx' \in [Procs -> Images!Requests \cup {Images!Idle}]
           /\ \A q \in Procs \ {p} :
                 /\ imagesTx'[q].op = imagesTx[q].op
                 /\ imagesTx[q].op \notin {"add", "delete"} => imagesTx'[q] = imagesTx[q]
                 /\ imagesTx[q].op \in {"add", "delete"} => imagesTx'[q].raced
<1>1. imagesTx' = [q \in Procs |->
          IF q = p THEN r
          ELSE IF imagesTx[q] # Images!Idle /\ imagesTx[q].op \in {"add", "delete"}
               THEN [imagesTx[q] EXCEPT !.raced = TRUE] ELSE imagesTx[q]]
  BY DEF Images!Begin
<1>2. ASSUME NEW q \in Procs \ {p}
      PROVE  /\ imagesTx'[q] \in Images!Requests \cup {Images!Idle}
             /\ imagesTx'[q].op = imagesTx[q].op
             /\ imagesTx[q].op \notin {"add", "delete"} => imagesTx'[q] = imagesTx[q]
             /\ imagesTx[q].op \in {"add", "delete"} => imagesTx'[q].raced
  <2> DEFINE s == imagesTx[q]
  <2>1. CASE s.op \notin {"add", "delete"}
    BY <1>1, <2>1, ImagesRequests
  <2>2. CASE s.op = "add"
    <3>1. /\ s \in Images!Requests /\ s # Images!Idle
      BY <2>2, ImagesRequests DEF Images!Idle
    <3>2. s \in [op : {"add"}, key : Keys, slot : Images!Slots, at : {"commit"},
                 raced : BOOLEAN,
                 moves : UNION {[S -> Images!Slots] : S \in SUBSET ImageIds}]
      BY <2>2, <3>1 DEF Images!Requests, ImageIds
    <3>3. /\ [s EXCEPT !.raced = TRUE]
               \in [op : {"add"}, key : Keys, slot : Images!Slots, at : {"commit"},
                    raced : BOOLEAN,
                    moves : UNION {[S -> Images!Slots] : S \in SUBSET ImageIds}]
          /\ [s EXCEPT !.raced = TRUE].op = "add" /\ [s EXCEPT !.raced = TRUE].raced
      BY <3>2
    <3>4. [s EXCEPT !.raced = TRUE] \in Images!Requests
      BY <3>3 DEF Images!Requests, ImageIds
    <3>5. imagesTx'[q] = [s EXCEPT !.raced = TRUE]
      BY <1>1, <2>2, <3>1
    <3> QED
      BY <2>2, <3>3, <3>4, <3>5
  <2>3. CASE s.op = "delete"
    <3>1. /\ s \in Images!Requests /\ s # Images!Idle
      BY <2>3, ImagesRequests DEF Images!Idle
    <3>2. s \in [op : {"delete"}, keys : SUBSET Keys, at : {"storage", "commit"},
                 raced : BOOLEAN]
      BY <2>3, <3>1 DEF Images!Requests
    <3>3. /\ [s EXCEPT !.raced = TRUE]
               \in [op : {"delete"}, keys : SUBSET Keys, at : {"storage", "commit"},
                    raced : BOOLEAN]
          /\ [s EXCEPT !.raced = TRUE].op = "delete" /\ [s EXCEPT !.raced = TRUE].raced
      BY <3>2
    <3>4. [s EXCEPT !.raced = TRUE] \in Images!Requests
      BY <3>3 DEF Images!Requests
    <3>5. imagesTx'[q] = [s EXCEPT !.raced = TRUE]
      BY <1>1, <2>3, <3>1
    <3> QED
      BY <2>3, <3>3, <3>4, <3>5
  <2> QED
    BY <2>1, <2>2, <2>3
<1>3. imagesTx'[p] = r
  BY <1>1
<1>4. imagesTx' \in [Procs -> Images!Requests \cup {Images!Idle}]
  BY <1>1, <1>2, <1>3
<1> QED
  BY <1>2, <1>3, <1>4

\* A request that ends leaves the others as they are.
LEMMA ImagesEnds ==
    ASSUME Images!TypeOK, NEW p \in Procs, Images!End(p)
    PROVE  /\ imagesTx'[p] = Images!Idle
           /\ imagesTx' \in [Procs -> Images!Requests \cup {Images!Idle}]
           /\ \A q \in Procs \ {p} : imagesTx'[q] = imagesTx[q]
BY DEF Images!TypeOK, Images!End

\* Uploads in flight are processes, so there are finitely many.
LEMMA UploadsAreFinite ==
    /\ IsFiniteSet(Images!Adding) /\ Cardinality(Images!Adding) \in Nat
    /\ Cardinality(Images!Adding) <= Cardinality(Procs) /\ Cardinality(Procs) \in Nat
<1>1. Images!Adding \subseteq Procs
  BY DEF Images!Adding
<1> QED
  BY <1>1, SlotsAre, FS_Subset, FS_CardinalityType

\* The images that are shown are rows, so there are finitely many.
LEMMA ShownIsFinite ==
    /\ Images!Shown \subseteq ImageIds
    /\ IsFiniteSet(Images!Shown) /\ Cardinality(Images!Shown) \in Nat
<1>1. Images!Shown \subseteq ImageIds
  BY DEF Images!Shown, ImageIds
<1> QED
  BY <1>1, SlotsAre, FS_Subset, FS_CardinalityType

\* A request that begins: an upload has found room.
LEMMA ImagesBeginIsSafe ==
    ASSUME Images!IndInv, NEW p \in Procs, NEW r \in Images!Requests,
           imagesTx[p] = Images!Idle, Images!Begin(p, r), UNCHANGED <<shrimp, images, object>>,
           r.op = "add" => Cardinality(Images!Shown) < MaxImages,
           r.op = "remove" => /\ images[r.image].state = "shown"
                              /\ images[r.image].key = r.key /\ r.at = "storage",
           r.op \in {"add", "delete"} /\ ~r.raced =>
              /\ Images!Active = {}
              /\ r.op = "delete" => Images!Deletable
              /\ r.op = "add" =>
                    r.moves = [i \in {j \in Images!Shown :
                                        Images!Renumbered(j, r.slot) # images[j].slot}
                                 |-> Images!Renumbered(i, r.slot)]
    PROVE  Images!IndInv'
<1>0. Images!TypeOK /\ Images!RoomIsShared /\ Images!ObjectsGoFirst /\ Images!LoneCopies
  BY DEF Images!IndInv
<1>1. /\ imagesTx'[p] = r
      /\ imagesTx' \in [Procs -> Images!Requests \cup {Images!Idle}]
      /\ \A q \in Procs \ {p} :
            /\ imagesTx'[q].op = imagesTx[q].op
            /\ imagesTx[q].op \notin {"add", "delete"} => imagesTx'[q] = imagesTx[q]
            /\ imagesTx[q].op \in {"add", "delete"} => imagesTx'[q].raced
  BY <1>0, ImagesOthers
<1>2. Images!TypeOK'
  BY <1>0, <1>1 DEF Images!TypeOK
<1>3. r # Images!Idle /\ Images!Shown' = Images!Shown
  BY DEF Images!Requests, Images!Idle, Images!Shown
<1>4. Images!ImagesNeedShrimp'
  BY <1>3 DEF Images!IndInv, Images!ImagesNeedShrimp
<1>5. Images!RoomIsShared'
  <2>1. /\ IsFiniteSet(Images!Adding) /\ IsFiniteSet(Images!Adding')
        /\ Cardinality(Images!Adding) \in Nat /\ Cardinality(Images!Adding') \in Nat
        /\ Cardinality(Images!Adding') <= Cardinality(Procs) /\ Cardinality(Procs) \in Nat
    <3>1. Images!Adding' \subseteq Procs
      BY DEF Images!Adding
    <3> QED
      BY <3>1, UploadsAreFinite, SlotsAre, FS_Subset, FS_CardinalityType
  <2>2. CASE r.op = "add"
    BY <1>0, <1>3, <2>1, <2>2, ShownIsFinite, SlotsAre, SameFinite, SameCardinality
    DEF Images!RoomIsShared
  <2>3. CASE r.op # "add"
    <3>1. Images!Adding' = Images!Adding
      <4>1. ASSUME NEW q \in Procs
            PROVE  q \in Images!Adding' <=> q \in Images!Adding
        <5>1. CASE q = p
          BY <1>1, <1>3, <2>3, <5>1 DEF Images!Adding
        <5>2. CASE q # p
          <6>1. imagesTx'[q].op = imagesTx[q].op
            BY <1>1, <5>2
          <6>2. /\ imagesTx[q] = Images!Idle <=> imagesTx[q].op = "idle"
                /\ imagesTx'[q] = Images!Idle => imagesTx'[q].op = "idle"
            BY <1>0, ImagesRequests DEF Images!Idle
          <6> QED
            BY <6>1, <6>2 DEF Images!Adding
        <5> QED
          BY <5>1, <5>2
      <4> QED
        BY <4>1 DEF Images!Adding
    <3> QED
      BY <1>0, <1>3, <3>1 DEF Images!RoomIsShared
  <2> QED
    BY <2>2, <2>3
<1>6. Images!ObjectsGoFirst'
  <2> SUFFICES ASSUME NEW q \in Procs, imagesTx'[q] # Images!Idle, imagesTx'[q].op = "remove"
               PROVE  /\ images[imagesTx'[q].image].state \in {"shown", "removed"}
                      /\ images[imagesTx'[q].image].key = imagesTx'[q].key
                      /\ imagesTx'[q].at = "commit" => object[imagesTx'[q].key] = "gone"
    BY <1>0 DEF Images!ObjectsGoFirst
  <2>1. CASE q = p
    BY <1>1, <2>1
  <2>2. CASE q # p
    <3>1. imagesTx'[q] = imagesTx[q]
      BY <1>1, <2>2
    <3> QED
      BY <1>0, <3>1 DEF Images!ObjectsGoFirst
  <2> QED
    BY <2>1, <2>2
<1>7. Images!LoneCopies'
  <2>1. ASSUME NEW q \in Procs, imagesTx'[q].op \in {"add", "delete"}, ~imagesTx'[q].raced
        PROVE  q = p
    BY <1>1, <2>1
  <2>2. Images!Active = {} => Images!Active' = {p}
    <3> SUFFICES ASSUME Images!Active = {} PROVE Images!Active' = {p}
      OBVIOUS
    <3>1. ASSUME NEW q \in Procs \ {p} PROVE imagesTx'[q] = Images!Idle
      <4>1. imagesTx[q] = Images!Idle
        BY DEF Images!Active
      <4>2. imagesTx[q].op \notin {"add", "delete"}
        BY <4>1 DEF Images!Idle
      <4> QED
        BY <1>1, <4>1, <4>2
    <3> QED
      BY <1>1, <1>3, <3>1 DEF Images!Active
  <2>3. \A i, slot : Images!Renumbered(i, slot)' = Images!Renumbered(i, slot)
    BY <1>3 DEF Images!Renumbered, Images!Rank, Images!Before
  <2> QED
    BY <1>1, <1>3, <2>1, <2>2, <2>3 DEF Images!LoneCopies, Images!Deletable
<1> QED
  BY <1>2, <1>4, <1>5, <1>6, <1>7 DEF Images!IndInv

\* A request that ends: no upload nor deletion in flight is alone afterwards.
LEMMA ImagesEndIsSafe ==
    ASSUME Images!IndInv, NEW p \in Procs, imagesTx[p] # Images!Idle, Images!End(p),
           shrimp' \in {"active", "inactive", "deleted"},
           images' \in [ImageIds -> Images!Row],
           UNCHANGED object,
           Images!ImagesNeedShrimp',
           Cardinality(Images!Shown') <=
              Cardinality(Images!Shown) + IF imagesTx[p].op = "add" THEN 1 ELSE 0,
           \A i \in ImageIds : images[i].state \in {"shown", "removed"} =>
              images'[i].state \in {"shown", "removed"} /\ images'[i].key = images[i].key,
           shrimp' # "deleted" =>
              \A i \in ImageIds : images'[i].state = "removed" => object[images'[i].key] = "gone"
    PROVE  Images!IndInv'
<1>0. Images!TypeOK /\ Images!RoomIsShared /\ Images!ObjectsGoFirst /\ Images!LoneCopies
  BY DEF Images!IndInv
<1>1. /\ imagesTx'[p] = Images!Idle
      /\ imagesTx' \in [Procs -> Images!Requests \cup {Images!Idle}]
      /\ \A q \in Procs \ {p} : imagesTx'[q] = imagesTx[q]
  BY <1>0, ImagesEnds
<1>2. Images!TypeOK'
  BY <1>0, <1>1 DEF Images!TypeOK, ImageIds
<1>3. Images!RoomIsShared'
  <2>1. Images!Adding' = Images!Adding \ {p}
    BY <1>1 DEF Images!Adding
  <2>2. IsFiniteSet(Images!Shown') /\ Cardinality(Images!Shown') \in Nat
    <3>1. Images!Shown' \subseteq ImageIds
      BY DEF Images!Shown, ImageIds
    <3> QED
      BY <3>1, SlotsAre, FS_Subset, FS_CardinalityType
  <2>3. Cardinality(Images!Adding') =
           IF imagesTx[p].op = "add" THEN Cardinality(Images!Adding) - 1
           ELSE Cardinality(Images!Adding)
    <3>1. p \in Images!Adding <=> imagesTx[p].op = "add"
      BY DEF Images!Adding
    <3> QED
      BY <2>1, <3>1, UploadsAreFinite, FS_RemoveElement
  <2>4. Cardinality(Images!Shown) + Cardinality(Images!Adding)
           <= MaxImages + Cardinality(Procs) - 1
    BY <1>0, SameCardinality DEF Images!RoomIsShared
  <2>5. Cardinality(Images!Shown') + Cardinality(Images!Adding')
           <= MaxImages + Cardinality(Procs) - 1
    BY <2>2, <2>3, <2>4, UploadsAreFinite, ShownIsFinite, SlotsAre
  <2> QED
    BY <2>2, <2>5, SameFinite, SameCardinality DEF Images!RoomIsShared
<1>4. Images!ObjectsGoFirst'
  <2>1. ASSUME NEW q \in Procs, imagesTx'[q] # Images!Idle, imagesTx'[q].op = "remove"
        PROVE  /\ images'[imagesTx'[q].image].state \in {"shown", "removed"}
               /\ images'[imagesTx'[q].image].key = imagesTx'[q].key
               /\ imagesTx'[q].at = "commit" => object'[imagesTx'[q].key] = "gone"
    <3>1. q # p /\ imagesTx'[q] = imagesTx[q]
      BY <1>1, <2>1
    <3>2. /\ images[imagesTx[q].image].state \in {"shown", "removed"}
          /\ images[imagesTx[q].image].key = imagesTx[q].key
          /\ imagesTx[q].at = "commit" => object[imagesTx[q].key] = "gone"
      BY <1>0, <2>1, <3>1 DEF Images!ObjectsGoFirst
    <3>3. imagesTx[q].image \in ImageIds
      BY <1>0, <2>1, <3>1, ImagesRequests
    <3> QED
      BY <3>1, <3>2, <3>3
  <2> QED
    BY <2>1 DEF Images!ObjectsGoFirst, ImageIds
<1>5. Images!LoneCopies'
  <2> SUFFICES ASSUME NEW q \in Procs, imagesTx'[q] # Images!Idle,
                      imagesTx'[q].op \in {"add", "delete"}, ~imagesTx'[q].raced
               PROVE  FALSE
    BY DEF Images!LoneCopies
  <2>1. q # p /\ imagesTx'[q] = imagesTx[q]
    BY <1>1
  <2>2. Images!Active = {q}
    BY <1>0, <2>1 DEF Images!LoneCopies
  <2> QED
    BY <2>1, <2>2 DEF Images!Active
<1> QED
  BY <1>2, <1>3, <1>4, <1>5 DEF Images!IndInv

\* A request that fails, or whose process dies.
LEMMA ImagesFailIsSafe ==
    ASSUME Images!IndInv, NEW p \in Procs, imagesTx[p] # Images!Idle, Images!End(p),
           UNCHANGED <<shrimp, images, object>>
    PROVE  Images!IndInv'
<1>0. Images!TypeOK /\ Images!ObjectsGoFirst /\ Images!ImagesNeedShrimp
  BY DEF Images!IndInv
<1>1. Images!Shown' = Images!Shown
  BY DEF Images!Shown
<1>2. Images!ImagesNeedShrimp'
  BY <1>0, <1>1 DEF Images!ImagesNeedShrimp
<1>3. /\ shrimp \in {"active", "inactive", "deleted"} /\ images \in [ImageIds -> Images!Row]
      /\ shrimp # "deleted" =>
            \A i \in ImageIds : images[i].state = "removed" => object[images[i].key] = "gone"
  BY <1>0 DEF Images!TypeOK, Images!ObjectsGoFirst, ImageIds
<1>4. Cardinality(Images!Shown') <=
         Cardinality(Images!Shown) + IF imagesTx[p].op = "add" THEN 1 ELSE 0
  BY <1>1, ShownIsFinite
<1> QED
  BY <1>2, <1>3, <1>4, ImagesEndIsSafe

\* Moving images keeps their rows.
LEMMA ImagesMoved ==
    ASSUME Images!TypeOK, NEW moves, DOMAIN moves \subseteq Images!Shown,
           \A i \in DOMAIN moves : moves[i] \in Images!Slots
    PROVE  /\ Images!Change(moves) \in [ImageIds -> Images!Row]
           /\ \A i \in ImageIds :
                 /\ Images!Change(moves)[i].state = images[i].state
                 /\ images[i].state \in {"shown", "removed"} =>
                       Images!Change(moves)[i].key = images[i].key
                 /\ i \in DOMAIN moves => Images!Change(moves)[i].slot = moves[i]
                 /\ i \notin DOMAIN moves => Images!Change(moves)[i] = images[i]
<1>1. ASSUME NEW i \in ImageIds
      PROVE  /\ Images!Change(moves)[i] \in Images!Row
             /\ Images!Change(moves)[i].state = images[i].state
             /\ images[i].state \in {"shown", "removed"} =>
                   Images!Change(moves)[i].key = images[i].key
             /\ i \in DOMAIN moves => Images!Change(moves)[i].slot = moves[i]
             /\ i \notin DOMAIN moves => Images!Change(moves)[i] = images[i]
  <2>0. images[i] \in Images!Row
    BY DEF Images!TypeOK, ImageIds
  <2>1. CASE i \in DOMAIN moves
    <3>1. images[i].state = "shown"
      BY <2>1, ImageRows
    <3>2. images[i] \in [state : {"shown"}, key : Keys, slot : Images!Slots]
      BY <2>0, <3>1 DEF Images!Row
    <3>3. Images!Change(moves)[i] = [images[i] EXCEPT !.slot = moves[i]]
      BY <2>1 DEF Images!Change, ImageIds
    <3>4. [images[i] EXCEPT !.slot = moves[i]]
             \in [state : {"shown"}, key : Keys, slot : Images!Slots]
      BY <2>1, <3>2
    <3> QED
      BY <2>1, <3>2, <3>3, <3>4 DEF Images!Row
  <2>2. CASE i \notin DOMAIN moves
    <3>1. Images!Change(moves)[i] = images[i]
      BY <2>2 DEF Images!Change, ImageIds
    <3> QED
      BY <2>0, <2>2, <3>1
  <2> QED
    BY <2>1, <2>2
<1>2. Images!Change(moves) = [i \in ImageIds |-> Images!Change(moves)[i]]
  BY DEF Images!Change, ImageIds
<1> QED
  BY <1>1, <1>2

\* The images are shown in a total order.
LEMMA ImagesAreOrdered ==
    ASSUME Images!TypeOK
    PROVE  /\ \A i \in Images!Shown : ~Images!Before(i, i)
           /\ \A i, j \in Images!Shown : i # j => Images!Before(i, j) \/ Images!Before(j, i)
           /\ \A i, j, k \in Images!Shown :
                 Images!Before(i, j) /\ Images!Before(j, k) => Images!Before(i, k)
<1>1. \A i \in Images!Shown : i \in Nat /\ images[i].slot \in Nat
  <2> SUFFICES ASSUME NEW i \in Images!Shown PROVE i \in Nat /\ images[i].slot \in Nat
    OBVIOUS
  <2>1. i \in ImageIds /\ images[i].state = "shown"
    BY DEF Images!Shown, ImageIds
  <2> QED
    BY <2>1, ImageRows, SlotsAre
<1> QED
  BY <1>1 DEF Images!Before

\* The rank of an image is a number below theirs, and grows with the order.
LEMMA RanksAre ==
    ASSUME Images!TypeOK, NEW i \in Images!Shown
    PROVE  /\ Images!Rank(i) \in Nat /\ Images!Rank(i) < Cardinality(Images!Shown)
           /\ \A j \in Images!Shown : Images!Before(i, j) => Images!Rank(i) < Images!Rank(j)
<1> DEFINE Earlier(j) == {k \in Images!Shown : Images!Before(k, j)}
<1>1. ASSUME NEW j \in Images!Shown
      PROVE  /\ Images!Rank(j) = Cardinality(Earlier(j)) /\ IsFiniteSet(Earlier(j))
             /\ Images!Rank(j) \in Nat
  <2>1. Earlier(j) \subseteq Images!Shown
    OBVIOUS
  <2>2. Images!Rank(j) = Cardinality(Earlier(j))
    BY SameCardinality DEF Images!Rank
  <2> QED
    BY <2>1, <2>2, ShownIsFinite, FS_Subset, FS_CardinalityType
<1>2. \A S : S \subseteq Images!Shown => IsFiniteSet(S)
  BY ShownIsFinite, FS_Subset
<1>3. ASSUME NEW S, NEW T, IsFiniteSet(T), S \subseteq T, NEW x \in T, x \notin S
      PROVE  Cardinality(S) < Cardinality(T)
  <2>1. IsFiniteSet(S) /\ Cardinality(S) <= Cardinality(T)
        /\ (Cardinality(T) = Cardinality(S) => T = S)
    BY <1>3, FS_Subset
  <2>2. Cardinality(S) \in Nat /\ Cardinality(T) \in Nat
    BY <1>3, <2>1, FS_CardinalityType
  <2> QED
    BY <1>3, <2>1, <2>2
<1>4. Images!Rank(i) < Cardinality(Images!Shown)
  <2>1. i \notin Earlier(i) /\ Earlier(i) \subseteq Images!Shown
    BY ImagesAreOrdered
  <2> QED
    BY <1>1, <1>3, <2>1, ShownIsFinite
<1>5. ASSUME NEW j \in Images!Shown, Images!Before(i, j)
      PROVE  Images!Rank(i) < Images!Rank(j)
  <2>1. Earlier(i) \subseteq Earlier(j) /\ i \in Earlier(j) /\ i \notin Earlier(i)
    BY <1>5, ImagesAreOrdered
  <2> QED
    BY <1>1, <1>3, <2>1
<1> QED
  BY <1>1, <1>4, <1>5

\* Renumbered, the images leave the slot of the new one out and keep their order.
LEMMA RenumberingKeepsOrder ==
    ASSUME Images!TypeOK, NEW slot \in Nat
    PROVE  /\ \A i \in Images!Shown :
                 /\ Images!Renumbered(i, slot) \in Nat /\ Images!Renumbered(i, slot) # slot
                 /\ Images!Renumbered(i, slot) <= Cardinality(Images!Shown)
           /\ \A i, j \in Images!Shown : Images!Before(i, j) =>
                 Images!Renumbered(i, slot) < Images!Renumbered(j, slot)
<1>1. ASSUME NEW i \in Images!Shown
      PROVE  /\ Images!Renumbered(i, slot) \in Nat /\ Images!Renumbered(i, slot) # slot
             /\ Images!Renumbered(i, slot) <= Cardinality(Images!Shown)
  BY RanksAre, ShownIsFinite DEF Images!Renumbered
<1>2. ASSUME NEW i \in Images!Shown, NEW j \in Images!Shown, Images!Before(i, j)
      PROVE  Images!Renumbered(i, slot) < Images!Renumbered(j, slot)
  <2>1. Images!Rank(i) \in Nat /\ Images!Rank(j) \in Nat /\ Images!Rank(i) < Images!Rank(j)
    BY <1>2, RanksAre
  <2> QED
    BY <2>1 DEF Images!Renumbered
<1> QED
  BY <1>1, <1>2

\* An upload finds room, and a slot for every image.
LEMMA BeginAddIsSafe ==
    ASSUME Images!IndInv, NEW p \in Procs, Images!BeginAdd(p) PROVE Images!IndInv'
<1>0. Images!TypeOK
  BY DEF Images!IndInv
<1>1. PICK k \in Keys, asked \in 0..MaxSlot :
         LET slot == Images!Requested(asked)
             moved == {i \in Images!Shown : Images!Renumbered(i, slot) # images[i].slot}
         IN  /\ imagesTx[p] = Images!Idle /\ ~Images!Full(Images!Shown)
             /\ Images!Begin(p, [op |-> "add", key |-> k, slot |-> slot,
                         moves |-> [i \in moved |-> Images!Renumbered(i, slot)],
                         at |-> "commit", raced |-> Images!Active # {}])
             /\ UNCHANGED <<shrimp, images, object>>
  BY DEF Images!BeginAdd
<1> DEFINE slot == Images!Requested(asked)
           moved == {i \in Images!Shown : Images!Renumbered(i, slot) # images[i].slot}
           moves == [i \in moved |-> Images!Renumbered(i, slot)]
           r == [op |-> "add", key |-> k, slot |-> slot, moves |-> moves,
                 at |-> "commit", raced |-> Images!Active # {}]
<1>2. slot \in Images!Slots /\ slot \in Nat
  BY SlotsAre DEF Images!Requested
<1>3. Cardinality(Images!Shown) < MaxImages
  BY <1>1, ShownIsFinite, SlotsAre, SameCardinality DEF Images!Full
<1>4. moved \in SUBSET ImageIds /\ moves \in [moved -> Images!Slots]
  <2>1. \A i \in Images!Shown : Images!Renumbered(i, slot) \in 0..(MaxImages - 1)
    BY <1>0, <1>2, <1>3, RenumberingKeepsOrder, ShownIsFinite, SlotsAre
  <2> QED
    BY <2>1, ShownIsFinite, SlotsAre
<1>5. r \in Images!Requests
  <2>1. (Images!Active # {}) \in BOOLEAN
    OBVIOUS
  <2> HIDE DEF moves, moved, slot
  <2> QED
    BY <1>2, <1>4, <2>1, ImagesRequestsAre
<1>6. /\ r.op = "add" /\ r.slot = slot /\ r.moves = moves
      /\ ~r.raced => Images!Active = {}
  OBVIOUS
<1>7. Images!Begin(p, r)
  BY <1>1
<1>8. r.moves = [i \in {j \in Images!Shown :
                          Images!Renumbered(j, r.slot) # images[j].slot}
                   |-> Images!Renumbered(i, r.slot)]
  OBVIOUS
<1> HIDE DEF r
<1> QED
  BY <1>1, <1>3, <1>5, <1>6, <1>7, <1>8, ImagesBeginIsSafe

\* The other requests, as they begin.
LEMMA ImagesLoadsAreSafe ==
    ASSUME Images!IndInv, NEW p \in Procs,
           \/ Images!BeginEdit(p) \/ Images!BeginRemove(p) \/ Images!BeginDelete(p)
           \/ Images!BeginStatus(p)
    PROVE  Images!IndInv'
<1>0. Images!TypeOK
  BY DEF Images!IndInv
<1>1. CASE Images!BeginEdit(p)
  <2>1. PICK i \in Images!Shown, slot \in 0..MaxSlot :
           /\ imagesTx[p] = Images!Idle
           /\ Images!Begin(p, [op |-> "edit", image |-> i, slot |-> slot,
                               changed |-> slot # images[i].slot, at |-> "commit"])
           /\ UNCHANGED <<shrimp, images, object>>
    BY <1>1 DEF Images!BeginEdit
  <2> DEFINE r == [op |-> "edit", image |-> i, slot |-> slot,
                   changed |-> slot # images[i].slot, at |-> "commit"]
  <2>2. r \in Images!Requests /\ r.op = "edit"
    <3>1. (slot # images[i].slot) \in BOOLEAN /\ i \in ImageIds
      BY ShownIsFinite
    <3> QED
      BY <3>1, ImagesRequestsAre
  <2>3. Images!Begin(p, r)
    BY <2>1
  <2> HIDE DEF r
  <2> QED
    BY <2>1, <2>2, <2>3, ImagesBeginIsSafe
<1>2. CASE Images!BeginRemove(p)
  <2>1. PICK i \in Images!Shown :
           /\ imagesTx[p] = Images!Idle
           /\ Images!Begin(p, [op |-> "remove", image |-> i, key |-> images[i].key,
                               at |-> "storage"])
           /\ UNCHANGED <<shrimp, images, object>>
    BY <1>2 DEF Images!BeginRemove, Images!FirstStep
  <2> DEFINE r == [op |-> "remove", image |-> i, key |-> images[i].key, at |-> "storage"]
  <2>2. i \in ImageIds /\ images[i].state = "shown" /\ images[i].key \in Keys
    BY <1>0, ShownIsFinite, ImageRows
  <2>3. /\ r \in Images!Requests /\ r.op = "remove" /\ r.image = i /\ r.key = images[i].key
        /\ r.at = "storage"
    BY <2>2, ImagesRequestsAre
  <2>4. Images!Begin(p, r)
    BY <2>1
  <2> HIDE DEF r
  <2> QED
    BY <2>1, <2>2, <2>3, <2>4, ImagesBeginIsSafe
<1>3. CASE Images!BeginDelete(p)
  <2> DEFINE keys == {images[i].key : i \in Images!Shown}
             r == [op |-> "delete", keys |-> keys, at |-> "storage",
                   raced |-> Images!Active # {}]
  <2>1. /\ imagesTx[p] = Images!Idle /\ Images!Deletable /\ Images!Begin(p, r)
        /\ UNCHANGED <<shrimp, images, object>>
    BY <1>3 DEF Images!BeginDelete, Images!FirstStep
  <2>2. keys \in SUBSET Keys /\ (Images!Active # {}) \in BOOLEAN
    BY <1>0, ShownIsFinite, ImageRows
  <2>3. r \in Images!Requests /\ r.op = "delete" /\ (~r.raced => Images!Active = {})
    <3>1. r.op = "delete" /\ (~r.raced => Images!Active = {})
      OBVIOUS
    <3> HIDE DEF keys
    <3> QED
      BY <2>2, <3>1, ImagesRequestsAre
  <2> HIDE DEF r
  <2> QED
    BY <2>1, <2>3, ImagesBeginIsSafe
<1>4. CASE Images!BeginStatus(p)
  <2>1. PICK status \in {"active", "inactive"} :
           /\ imagesTx[p] = Images!Idle
           /\ Images!Begin(p, [op |-> "status", to |-> status,
                               changed |-> shrimp # status, at |-> "commit"])
           /\ UNCHANGED <<shrimp, images, object>>
    BY <1>4 DEF Images!BeginStatus
  <2> DEFINE r == [op |-> "status", to |-> status, changed |-> shrimp # status,
                   at |-> "commit"]
  <2>2. r \in Images!Requests /\ r.op = "status"
    <3>1. (shrimp # status) \in BOOLEAN
      OBVIOUS
    <3> QED
      BY <3>1, ImagesRequestsAre
  <2>3. Images!Begin(p, r)
    BY <2>1
  <2> HIDE DEF r
  <2> QED
    BY <2>1, <2>2, <2>3, ImagesBeginIsSafe
<1> QED
  BY <1>1, <1>2, <1>3, <1>4

\* The commits that change no set of images.
LEMMA ImagesEditsAreSafe ==
    ASSUME Images!IndInv, NEW p \in Procs,
           \/ Images!CommitEdit(p) \/ Images!CommitStatus(p)
           \/ Images!StorageFails(p) \/ Images!Crash(p)
    PROVE  Images!IndInv'
<1>0. /\ Images!TypeOK /\ Images!ObjectsGoFirst /\ Images!ImagesNeedShrimp
      /\ shrimp \in {"active", "inactive", "deleted"} /\ images \in [ImageIds -> Images!Row]
  BY DEF Images!IndInv, Images!TypeOK, ImageIds
<1>1. imagesTx[p] # Images!Idle /\ Images!End(p)
  BY DEF Images!CommitEdit, Images!CommitStatus, Images!StorageFails, Images!Crash,
         Images!Fail
<1>2. CASE UNCHANGED <<shrimp, images, object>>
  BY <1>1, <1>2, ImagesFailIsSafe
<1>3. CASE Images!CommitEdit(p) /\ ~UNCHANGED <<shrimp, images, object>>
  <2> DEFINE moves == [i \in {imagesTx[p].image} |-> imagesTx[p].slot]
  <2>1. /\ imagesTx[p].op = "edit" /\ imagesTx[p].image \in Images!Shown
        /\ images' = Images!Change(moves) /\ UNCHANGED <<shrimp, object>>
    BY <1>3 DEF Images!CommitEdit, Images!Fail
  <2>2. imagesTx[p].slot \in Images!Slots
    BY <1>0, <2>1, ImagesRequests, SlotsAre
  <2>3. DOMAIN moves \subseteq Images!Shown /\ \A i \in DOMAIN moves : moves[i] \in Images!Slots
    BY <2>1, <2>2
  <2> HIDE DEF moves
  <2>4. /\ images' \in [ImageIds -> Images!Row]
        /\ \A i \in ImageIds :
              /\ images'[i].state = images[i].state
              /\ images[i].state \in {"shown", "removed"} => images'[i].key = images[i].key
    BY <1>0, <2>1, <2>3, ImagesMoved
  <2>5. Images!Shown' = Images!Shown
    BY <2>4 DEF Images!Shown, ImageIds
  <2>6. /\ Images!ImagesNeedShrimp'
        /\ Cardinality(Images!Shown') <=
              Cardinality(Images!Shown) + IF imagesTx[p].op = "add" THEN 1 ELSE 0
    BY <1>0, <2>1, <2>5, ShownIsFinite DEF Images!ImagesNeedShrimp
  <2>7. shrimp' # "deleted" =>
           \A i \in ImageIds : images'[i].state = "removed" => object[images'[i].key] = "gone"
    BY <1>0, <2>1, <2>4 DEF Images!ObjectsGoFirst, ImageIds
  <2> QED
    BY <1>0, <1>1, <2>1, <2>4, <2>6, <2>7, ImagesEndIsSafe
<1>4. CASE Images!CommitStatus(p) /\ ~UNCHANGED <<shrimp, images, object>>
  <2>1. /\ imagesTx[p].op = "status" /\ shrimp # "deleted" /\ shrimp' = imagesTx[p].to
        /\ UNCHANGED <<images, object>>
    BY <1>4 DEF Images!CommitStatus, Images!Fail
  <2>2. shrimp' \in {"active", "inactive"} /\ Images!Shown' = Images!Shown
    BY <1>0, <2>1, ImagesRequests DEF Images!Shown
  <2>3. /\ Images!ImagesNeedShrimp'
        /\ Cardinality(Images!Shown') <=
              Cardinality(Images!Shown) + IF imagesTx[p].op = "add" THEN 1 ELSE 0
    BY <2>1, <2>2, ShownIsFinite DEF Images!ImagesNeedShrimp
  <2>4. \A i \in ImageIds : images'[i].state = "removed" => object[images'[i].key] = "gone"
    BY <1>0, <2>1 DEF Images!ObjectsGoFirst, ImageIds
  <2> QED
    BY <1>0, <1>1, <2>1, <2>2, <2>3, <2>4, ImagesEndIsSafe
<1> QED
  BY <1>2, <1>3, <1>4 DEF Images!StorageFails, Images!Crash, Images!Fail

\* An upload shows one image more.
LEMMA CommitAddShows ==
    ASSUME Images!TypeOK, NEW p \in Procs, Images!CommitAdd(p), ~UNCHANGED images
    PROVE  /\ images' \in [ImageIds -> Images!Row] /\ UNCHANGED <<shrimp, object>>
           /\ shrimp # "deleted" /\ DOMAIN imagesTx[p].moves \subseteq Images!Shown
           /\ \E new \in ImageIds :
                 /\ images[new].state = "unused" /\ Images!Shown' = Images!Shown \cup {new}
                 /\ new \notin Images!Shown
                 /\ images'[new].slot = imagesTx[p].slot
                 /\ images'[new].state = "shown"
                 /\ \A i \in ImageIds \ {new} :
                       images'[i] = Images!Change(imagesTx[p].moves)[i]
<1> DEFINE r == imagesTx[p]
           row == [state |-> "shown", key |-> r.key, slot |-> r.slot]
<1>1. PICK new \in ImageIds :
         /\ images[new] = Images!Unused
         /\ images' = [Images!Change(r.moves) EXCEPT ![new] = row]
         /\ UNCHANGED <<shrimp, object>> /\ shrimp # "deleted" /\ r.op = "add"
         /\ DOMAIN r.moves \subseteq Images!Shown
  BY DEF Images!CommitAdd, Images!IsNext, Images!Fail, Images!ParentExists, ImageIds
<1>2. r.key \in Keys /\ r.slot \in Images!Slots /\ r.moves \in [DOMAIN r.moves -> Images!Slots]
  BY <1>1, ImagesRequests
<1>3. row \in Images!Row /\ row.state = "shown" /\ row.slot = r.slot
  BY <1>2 DEF Images!Row
<1>4. /\ Images!Change(r.moves) \in [ImageIds -> Images!Row]
      /\ \A i \in ImageIds : Images!Change(r.moves)[i].state = images[i].state
  BY <1>1, <1>2, ImagesMoved
<1>5. images[new].state = "unused" /\ new \notin Images!Shown
  BY <1>1, ImageRows
<1> HIDE DEF row
<1>6. /\ images' \in [ImageIds -> Images!Row] /\ images'[new] = row
      /\ \A i \in ImageIds \ {new} : images'[i] = Images!Change(r.moves)[i]
  BY <1>1, <1>3, <1>4
<1>7. Images!Shown' = Images!Shown \cup {new}
  BY <1>3, <1>4, <1>6 DEF Images!Shown, ImageIds
<1> QED
  BY <1>1, <1>3, <1>5, <1>6, <1>7

\* An upload commits: its row enters and the rows it loaded are numbered anew, or it fails.
LEMMA CommitAddIsSafe ==
    ASSUME Images!IndInv, NEW p \in Procs, Images!CommitAdd(p) PROVE Images!IndInv'
<1>0. Images!TypeOK /\ Images!ObjectsGoFirst
  BY DEF Images!IndInv
<1>1. /\ imagesTx[p] # Images!Idle /\ Images!End(p) /\ imagesTx[p].op = "add"
      /\ UNCHANGED <<shrimp, object>>
  BY DEF Images!CommitAdd, Images!Fail
<1>2. CASE UNCHANGED images
  BY <1>1, <1>2, ImagesFailIsSafe
<1>3. CASE ~UNCHANGED images
  <2>1. PICK new \in ImageIds :
           /\ images[new].state = "unused" /\ Images!Shown' = Images!Shown \cup {new}
           /\ new \notin Images!Shown /\ images'[new].state = "shown"
           /\ \A i \in ImageIds \ {new} : images'[i] = Images!Change(imagesTx[p].moves)[i]
    BY <1>0, <1>3, CommitAddShows
  <2>2. /\ images' \in [ImageIds -> Images!Row] /\ shrimp # "deleted"
        /\ DOMAIN imagesTx[p].moves \subseteq Images!Shown
        /\ imagesTx[p].moves \in [DOMAIN imagesTx[p].moves -> Images!Slots]
    BY <1>0, <1>1, <1>3, CommitAddShows, ImagesRequests
  <2>3. \A i \in ImageIds \ {new} :
           /\ images'[i].state = images[i].state
           /\ images[i].state \in {"shown", "removed"} => images'[i].key = images[i].key
    BY <1>0, <2>1, <2>2, ImagesMoved
  <2>4. Cardinality(Images!Shown') <= Cardinality(Images!Shown) + 1
    <3>1. IsFiniteSet(Images!Shown) /\ Cardinality(Images!Shown) \in Nat
      BY ShownIsFinite
    <3>2. Cardinality(Images!Shown \cup {new}) = Cardinality(Images!Shown) + 1
      BY <2>1, <3>1, FS_AddElement
    <3> QED
      BY <2>1, <3>1, <3>2
  <2>5. Images!ImagesNeedShrimp'
    BY <1>1, <2>2 DEF Images!ImagesNeedShrimp
  <2>6. \A i \in ImageIds : images[i].state \in {"shown", "removed"} =>
           images'[i].state \in {"shown", "removed"} /\ images'[i].key = images[i].key
    BY <2>1, <2>3
  <2>7. \A i \in ImageIds : images'[i].state = "removed" => object[images'[i].key] = "gone"
    BY <1>0, <2>1, <2>2, <2>3 DEF Images!ObjectsGoFirst, ImageIds
  <2>8. shrimp' \in {"active", "inactive", "deleted"}
    BY <1>0, <1>1 DEF Images!TypeOK
  <2> QED
    BY <1>1, <2>2, <2>4, <2>5, <2>6, <2>7, <2>8, ImagesEndIsSafe
<1> QED
  BY <1>2, <1>3

\* R2 deletes objects: none comes back.
LEMMA DeleteObjectsIsSafe ==
    ASSUME Images!IndInv, NEW p \in Procs, Images!DeleteObjects(p) PROVE Images!IndInv'
<1>0. Images!TypeOK /\ Images!RoomIsShared /\ Images!ObjectsGoFirst /\ Images!LoneCopies
  BY DEF Images!IndInv
<1> DEFINE r == imagesTx[p]
           next == [imagesTx[p] EXCEPT !.at = "commit"]
<1>1. PICK gone \in IF r.op = "remove" THEN {{r.key}} ELSE SUBSET r.keys :
         /\ object' = [k \in Keys |-> IF k \in gone THEN "gone" ELSE object[k]]
         /\ imagesTx' = [imagesTx EXCEPT ![p] = next]
         /\ r # Images!Idle /\ r.at = "storage"
         /\ UNCHANGED <<shrimp, images>>
  BY DEF Images!DeleteObjects
<1>2. r.op \in {"remove", "delete"} /\ r \in Images!Requests
  BY <1>0, <1>1, ImagesRequests
<1>3. /\ next \in Images!Requests /\ next # Images!Idle
      /\ next.op = r.op /\ next.at = "commit"
      /\ r.op = "remove" => next.image = r.image /\ next.key = r.key
      /\ r.op = "delete" => next.raced = r.raced
  <2>1. CASE r.op = "remove"
    <3>1. r \in [op : {"remove"}, image : ImageIds, key : Keys, at : {"storage", "commit"}]
      BY <1>2, <2>1 DEF Images!Requests, ImageIds
    <3>2. /\ next \in [op : {"remove"}, image : ImageIds, key : Keys,
                       at : {"storage", "commit"}]
          /\ next.image = r.image /\ next.key = r.key /\ next.at = "commit"
      BY <3>1
    <3> QED
      BY <2>1, <3>2 DEF Images!Requests, Images!Idle, ImageIds
  <2>2. CASE r.op = "delete"
    <3>1. r \in [op : {"delete"}, keys : SUBSET Keys, at : {"storage", "commit"},
                 raced : BOOLEAN]
      BY <1>2, <2>2 DEF Images!Requests
    <3>2. /\ next \in [op : {"delete"}, keys : SUBSET Keys, at : {"storage", "commit"},
                       raced : BOOLEAN]
          /\ next.raced = r.raced /\ next.at = "commit"
      BY <3>1
    <3> QED
      BY <2>2, <3>2 DEF Images!Requests, Images!Idle
  <2> QED
    BY <1>2, <2>1, <2>2
<1> HIDE DEF next
<1>4. /\ imagesTx \in [Procs -> Images!Requests \cup {Images!Idle}]
      /\ object \in [Keys -> {"none", "signed", "stored", "gone"}]
  BY <1>0 DEF Images!TypeOK
<1>5. /\ imagesTx'[p] = next /\ \A q \in Procs \ {p} : imagesTx'[q] = imagesTx[q]
      /\ imagesTx' \in [Procs -> Images!Requests \cup {Images!Idle}]
      /\ object' \in [Keys -> {"none", "signed", "stored", "gone"}]
      /\ \A k \in Keys : object[k] = "gone" \/ k \in gone => object'[k] = "gone"
  BY <1>1, <1>3, <1>4
<1>6. Images!TypeOK' /\ Images!ImagesNeedShrimp' /\ Images!Shown' = Images!Shown
  <2>1. Images!Shown' = Images!Shown
    BY <1>1 DEF Images!Shown
  <2> QED
    BY <1>0, <1>1, <1>5, <2>1 DEF Images!IndInv, Images!TypeOK, Images!ImagesNeedShrimp
<1>7. Images!RoomIsShared'
  <2>1. Images!Adding' = Images!Adding
    BY <1>1, <1>2, <1>3, <1>5 DEF Images!Adding
  <2> QED
    BY <1>0, <1>6, <2>1 DEF Images!RoomIsShared
<1>8. Images!ObjectsGoFirst'
  <2>1. ASSUME NEW q \in Procs, imagesTx'[q] # Images!Idle, imagesTx'[q].op = "remove"
        PROVE  /\ images[imagesTx'[q].image].state \in {"shown", "removed"}
               /\ images[imagesTx'[q].image].key = imagesTx'[q].key
               /\ imagesTx'[q].at = "commit" => object'[imagesTx'[q].key] = "gone"
    <3>1. CASE q = p
      <4>1. /\ r.op = "remove" /\ imagesTx'[q].image = r.image /\ imagesTx'[q].key = r.key
            /\ r.key \in Keys /\ r.key \in gone
        BY <1>0, <1>1, <1>3, <1>5, <2>1, <3>1, ImagesRequests
      <4> QED
        BY <1>0, <1>1, <1>5, <4>1 DEF Images!ObjectsGoFirst
    <3>2. CASE q # p
      <4>1. imagesTx'[q] = imagesTx[q] /\ imagesTx[q].key \in Keys
        BY <1>0, <1>5, <2>1, <3>2, ImagesRequests
      <4> QED
        BY <1>0, <1>5, <2>1, <4>1 DEF Images!ObjectsGoFirst
    <3> QED
      BY <3>1, <3>2
  <2>2. ASSUME shrimp # "deleted", NEW i \in ImageIds, images[i].state = "removed"
        PROVE  object'[images[i].key] = "gone"
    <3>1. images[i].key \in Keys /\ object[images[i].key] = "gone"
      BY <1>0, <2>2, ImageRows DEF Images!ObjectsGoFirst, ImageIds
    <3> QED
      BY <1>5, <3>1
  <2> QED
    BY <1>1, <2>1, <2>2 DEF Images!ObjectsGoFirst, ImageIds
<1>9. Images!LoneCopies'
  <2> SUFFICES ASSUME NEW q \in Procs, imagesTx'[q] # Images!Idle,
                      imagesTx'[q].op \in {"add", "delete"}, ~imagesTx'[q].raced
               PROVE  /\ Images!Active' = {q} /\ imagesTx'[q].op = "delete"
                      /\ Images!Deletable'
    BY DEF Images!LoneCopies
  <2>1. /\ imagesTx[q] # Images!Idle /\ imagesTx[q].op = imagesTx'[q].op
        /\ imagesTx[q].raced = imagesTx'[q].raced
    BY <1>1, <1>2, <1>3, <1>5
  <2>2. Images!Active = {q} /\ (imagesTx[q].op = "delete" => Images!Deletable)
    BY <1>0, <2>1 DEF Images!LoneCopies
  <2>3. q = p /\ imagesTx[q].op = "delete"
    BY <1>1, <1>2, <2>1, <2>2 DEF Images!Active
  <2>4. Images!Active' = Images!Active
    BY <1>1, <1>3, <1>5 DEF Images!Active
  <2> QED
    BY <1>1, <2>1, <2>2, <2>3, <2>4 DEF Images!Deletable
<1> QED
  BY <1>6, <1>7, <1>8, <1>9 DEF Images!IndInv

\* Rows go after their objects, or with the shrimp.
LEMMA ImagesRemovalsAreSafe ==
    ASSUME Images!IndInv, NEW p \in Procs, Images!CommitRemove(p) \/ Images!CommitDelete(p)
    PROVE  Images!IndInv'
<1>0. /\ Images!TypeOK /\ Images!ObjectsGoFirst /\ Images!ImagesNeedShrimp
      /\ shrimp \in {"active", "inactive", "deleted"} /\ images \in [ImageIds -> Images!Row]
  BY DEF Images!IndInv, Images!TypeOK, ImageIds
<1>1. imagesTx[p] # Images!Idle /\ Images!End(p) /\ UNCHANGED object
  BY DEF Images!CommitRemove, Images!CommitDelete
<1>2. CASE Images!CommitRemove(p)
  <2> DEFINE i == imagesTx[p].image
  <2>1. /\ images' = [images EXCEPT ![i] = Images!Removed(i)]
        /\ shrimp' = shrimp /\ imagesTx[p].op = "remove" /\ imagesTx[p].at = "commit"
    BY <1>2 DEF Images!CommitRemove
  <2>2. /\ i \in ImageIds /\ images[i].state \in {"shown", "removed"}
        /\ object[images[i].key] = "gone"
    BY <1>0, <1>1, <2>1, ImagesRequests DEF Images!ObjectsGoFirst
  <2>3. /\ Images!Removed(i) \in Images!Row /\ Images!Removed(i).state = "removed"
        /\ Images!Removed(i).key = images[i].key
    BY <1>0, <2>2, ImageRows
  <2>4. /\ images' \in [ImageIds -> Images!Row] /\ images'[i] = Images!Removed(i)
        /\ \A j \in ImageIds \ {i} : images'[j] = images[j]
    BY <1>0, <2>1, <2>2, <2>3
  <2>5. Images!Shown' \subseteq Images!Shown
    BY <2>3, <2>4 DEF Images!Shown, ImageIds
  <2>6. Cardinality(Images!Shown') <=
           Cardinality(Images!Shown) + IF imagesTx[p].op = "add" THEN 1 ELSE 0
    BY <2>1, <2>5, ShownIsFinite, FS_Subset
  <2>7. Images!ImagesNeedShrimp'
    BY <1>0, <2>1, <2>5 DEF Images!ImagesNeedShrimp
  <2>8. shrimp' # "deleted" =>
           \A j \in ImageIds : images'[j].state = "removed" => object[images'[j].key] = "gone"
    BY <1>0, <2>1, <2>2, <2>3, <2>4 DEF Images!ObjectsGoFirst, ImageIds
  <2>9. \A j \in ImageIds : images[j].state \in {"shown", "removed"} =>
           images'[j].state \in {"shown", "removed"} /\ images'[j].key = images[j].key
    BY <2>3, <2>4
  <2> QED
    BY <1>0, <1>1, <2>1, <2>4, <2>6, <2>7, <2>8, <2>9, ImagesEndIsSafe
<1>3. CASE Images!CommitDelete(p)
  <2>1. /\ shrimp' = "deleted" /\ imagesTx[p].op = "delete"
        /\ images' = [j \in ImageIds |-> IF j \in Images!Shown THEN Images!Removed(j)
                                         ELSE images[j]]
    BY <1>3 DEF Images!CommitDelete, ImageIds
  <2>2. ASSUME NEW j \in ImageIds
        PROVE  /\ images'[j] \in Images!Row /\ images'[j].state # "shown"
               /\ images[j].state \in {"shown", "removed"} =>
                    images'[j].state \in {"shown", "removed"} /\ images'[j].key = images[j].key
    BY <1>0, <2>1, ImageRows
  <2>3. images' \in [ImageIds -> Images!Row]
    BY <2>1, <2>2
  <2>4. Images!Shown' = {}
    BY <2>2 DEF Images!Shown, ImageIds
  <2>5. /\ Images!ImagesNeedShrimp'
        /\ Cardinality(Images!Shown') <=
              Cardinality(Images!Shown) + IF imagesTx[p].op = "add" THEN 1 ELSE 0
    BY <2>1, <2>4, ShownIsFinite, FS_EmptySet DEF Images!ImagesNeedShrimp
  <2> QED
    BY <1>1, <2>1, <2>2, <2>3, <2>5, ImagesEndIsSafe
<1> QED
  BY <1>2, <1>3

\* Presigned URLs and the clients' PUTs concern objects that are not gone.
LEMMA UploadingIsSafe ==
    ASSUME Images!IndInv, NEW k \in Keys, Images!Presign(k) \/ Images!PutObject(k)
    PROVE  Images!IndInv'
<1>0. /\ Images!TypeOK /\ Images!RoomIsShared /\ Images!ObjectsGoFirst /\ Images!LoneCopies
      /\ Images!ImagesNeedShrimp
  BY DEF Images!IndInv
<1>1. PICK state \in {"signed", "stored"} :
         /\ object[k] # "gone" /\ object' = [object EXCEPT ![k] = state]
         /\ UNCHANGED <<shrimp, images, imagesTx>>
  BY DEF Images!Presign, Images!PutObject
<1>2. object \in [Keys -> {"none", "signed", "stored", "gone"}]
  BY <1>0 DEF Images!TypeOK
<1>3. /\ object' \in [Keys -> {"none", "signed", "stored", "gone"}]
      /\ \A key \in Keys : object[key] = "gone" => object'[key] = "gone"
  BY <1>1, <1>2
<1>4. Images!TypeOK' /\ Images!ImagesNeedShrimp' /\ Images!RoomIsShared'
  <2>1. Images!Shown' = Images!Shown /\ Images!Adding' = Images!Adding
    BY <1>1 DEF Images!Shown, Images!Adding
  <2> QED
    BY <1>0, <1>1, <1>3, <2>1 DEF Images!TypeOK, Images!ImagesNeedShrimp,
                                  Images!RoomIsShared
<1>5. Images!ObjectsGoFirst'
  <2>1. ASSUME NEW p \in Procs, imagesTx[p] # Images!Idle, imagesTx[p].op = "remove",
               imagesTx[p].at = "commit"
        PROVE  object'[imagesTx[p].key] = "gone"
    <3>1. imagesTx[p].key \in Keys /\ object[imagesTx[p].key] = "gone"
      BY <1>0, <2>1, ImagesRequests DEF Images!ObjectsGoFirst
    <3> QED
      BY <1>3, <3>1
  <2>2. ASSUME shrimp # "deleted", NEW i \in ImageIds, images[i].state = "removed"
        PROVE  object'[images[i].key] = "gone"
    <3>1. images[i].key \in Keys /\ object[images[i].key] = "gone"
      BY <1>0, <2>2, ImageRows DEF Images!ObjectsGoFirst, ImageIds
    <3> QED
      BY <1>3, <3>1
  <2> QED
    BY <1>0, <1>1, <2>1, <2>2 DEF Images!ObjectsGoFirst, ImageIds
<1>6. Images!LoneCopies'
  <2>1. Images!Active' = Images!Active /\ Images!Shown' = Images!Shown
    BY <1>1 DEF Images!Active, Images!Shown
  <2>2. \A i, slot : Images!Renumbered(i, slot)' = Images!Renumbered(i, slot)
    BY <1>1, <2>1 DEF Images!Renumbered, Images!Rank, Images!Before
  <2> QED
    BY <1>0, <1>1, <2>1, <2>2 DEF Images!LoneCopies, Images!Deletable
<1> QED
  BY <1>4, <1>5, <1>6 DEF Images!IndInv

\* Every step on images keeps their invariant.
LEMMA ImagesSafe == Images!IndInv /\ [Images!Next]_(Images!vars) => Images!IndInv'
<1> SUFFICES ASSUME Images!IndInv, [Images!Next]_(Images!vars) PROVE Images!IndInv'
  OBVIOUS
<1>1. CASE Images!Next
  BY <1>1, UploadingIsSafe, BeginAddIsSafe, ImagesLoadsAreSafe, CommitAddIsSafe,
     ImagesEditsAreSafe, DeleteObjectsIsSafe, ImagesRemovalsAreSafe
  DEF Images!Next, Images!Step
<1>2. CASE UNCHANGED Images!vars
  <2>1. UNCHANGED <<shrimp, images, object, imagesTx>>
    BY <1>2 DEF Images!vars
  <2>2. /\ Images!Shown' = Images!Shown /\ Images!Adding' = Images!Adding
        /\ Images!Active' = Images!Active
    BY <2>1 DEF Images!Shown, Images!Adding, Images!Active
  <2>3. \A i, slot : Images!Renumbered(i, slot)' = Images!Renumbered(i, slot)
    BY <2>1, <2>2 DEF Images!Renumbered, Images!Rank, Images!Before
  <2>4. Images!TypeOK' /\ Images!ImagesNeedShrimp' /\ Images!RoomIsShared'
    BY <2>1, <2>2 DEF Images!IndInv, Images!TypeOK, Images!ImagesNeedShrimp,
                      Images!RoomIsShared
  <2>5. Images!ObjectsGoFirst'
    BY <2>1 DEF Images!IndInv, Images!ObjectsGoFirst
  <2>6. Images!LoneCopies'
    BY <2>1, <2>2, <2>3 DEF Images!IndInv, Images!LoneCopies, Images!Deletable
  <2> QED
    BY <2>4, <2>5, <2>6 DEF Images!IndInv
<1> QED
  BY <1>1, <1>2

\* Images are consistent: they go with their shrimp, an image loses its row after
\* its object, and the uploads in flight have found room (owner_service.py).
THEOREM ImagesAreConsistent == Images!Spec => []Images!IndInv
<1>1. Images!Init => Images!IndInv
  <2> SUFFICES ASSUME Images!Init PROVE Images!IndInv
    OBVIOUS
  <2>1. Images!TypeOK
    BY DEF Images!Init, Images!TypeOK, Images!Row, Images!Unused
  <2>2. Images!Shown = {} /\ Images!Adding = {}
    BY DEF Images!Init, Images!Shown, Images!Unused, Images!Adding
  <2>3. Images!ImagesNeedShrimp /\ Images!LoneCopies
    BY <2>2 DEF Images!Init, Images!ImagesNeedShrimp, Images!LoneCopies
  <2>4. Images!RoomIsShared
    <3>1. Cardinality(Procs) \in Nat \ {0}
      <4>1. Procs # {}
        BY ImagesAssumption DEF Images!ImagesAssumption
      <4> QED
        BY <4>1, SlotsAre, FS_CardinalityType, FS_EmptySet
    <3>2. IsFiniteSet({}) /\ Cardinality({}) = 0
      BY FS_EmptySet
    <3> QED
      BY <2>2, <3>1, <3>2, SlotsAre, SameFinite, SameCardinality DEF Images!RoomIsShared
  <2>5. Images!ObjectsGoFirst
    BY DEF Images!Init, Images!ObjectsGoFirst, Images!Unused
  <2> QED
    BY <2>1, <2>3, <2>4, <2>5 DEF Images!IndInv
<1> QED
  BY <1>1, ImagesSafe, PTL DEF Images!Spec

\* A shrimp that is on sale goes only with a deletion another request has overlapped
\* (delete_inactive_shrimp_catalog_item).
THEOREM SaleOutlivesLoneDeletions == Images!Spec => Images!OnlyRacesDeleteActive
<1> DEFINE Raced == shrimp = "active" /\ shrimp' = "deleted" =>
              \E p \in Procs : /\ imagesTx[p] # Images!Idle /\ imagesTx'[p] = Images!Idle
                               /\ imagesTx[p].op = "delete" /\ imagesTx[p].raced
<1>1. ASSUME Images!IndInv, Images!Next, shrimp = "active", shrimp' = "deleted"
      PROVE  \E p \in Procs : /\ imagesTx[p] # Images!Idle /\ imagesTx'[p] = Images!Idle
                              /\ imagesTx[p].op = "delete" /\ imagesTx[p].raced
  <2>0. Images!TypeOK /\ Images!LoneCopies
    BY <1>1 DEF Images!IndInv
  <2>1. PICK p \in Procs : Images!CommitDelete(p) \/ Images!CommitStatus(p)
    BY <1>1 DEF Images!Next, Images!Step, Images!Presign, Images!PutObject,
       Images!BeginAdd, Images!CommitAdd, Images!BeginEdit, Images!CommitEdit,
       Images!BeginRemove, Images!BeginDelete, Images!DeleteObjects, Images!StorageFails,
       Images!CommitRemove, Images!BeginStatus, Images!Crash, Images!Fail
  <2>2. ~Images!CommitStatus(p)
    BY <1>1, <2>0, ImagesRequests DEF Images!CommitStatus, Images!Fail
  <2>3. /\ imagesTx[p] # Images!Idle /\ imagesTx[p].op = "delete" /\ Images!End(p)
    BY <2>1, <2>2 DEF Images!CommitDelete
  <2>4. imagesTx'[p] = Images!Idle
    BY <2>0, <2>3, ImagesEnds
  <2>5. imagesTx[p].raced
    BY <1>1, <2>0, <2>3 DEF Images!LoneCopies, Images!Deletable
  <2> QED
    BY <2>3, <2>4, <2>5
<1>2. Images!IndInv /\ [Images!Next]_(Images!vars) => [Raced]_(Images!vars)
  BY <1>1
<1> QED
  BY <1>2, ImagesAreConsistent, PTL DEF Images!Spec, Images!OnlyRacesDeleteActive

\* An image that is added while nothing else happens gets its slot for itself, and
\* the others keep their order (add_shrimp_image).
THEOREM AddsKeepTheOrder == Images!Spec => Images!AddTakesItsSlot
<1> DEFINE Orderly ==
       \A p \in Procs :
          LET r == imagesTx[p]
          IN  r # Images!Idle /\ r.op = "add" /\ ~r.raced /\ Images!Shown' # Images!Shown =>
                /\ \A i, j \in Images!Shown' : i # j => images'[i].slot # images'[j].slot
                /\ \A i, j \in Images!Shown : Images!Before(i, j) <=> Images!Before(i, j)'
                /\ \E i \in Images!Shown' \ Images!Shown : images'[i].slot = r.slot
<1>1. ASSUME Images!IndInv, Images!Next, NEW p \in Procs, imagesTx[p] # Images!Idle,
             imagesTx[p].op = "add", ~imagesTx[p].raced, Images!Shown' # Images!Shown
      PROVE  /\ \A i, j \in Images!Shown' : i # j => images'[i].slot # images'[j].slot
             /\ \A i, j \in Images!Shown : Images!Before(i, j) <=> Images!Before(i, j)'
             /\ \E i \in Images!Shown' \ Images!Shown : images'[i].slot = imagesTx[p].slot
  <2> DEFINE slot == imagesTx[p].slot
             Place(i) == Images!Renumbered(i, slot)
  <2>0. Images!TypeOK /\ Images!LoneCopies
    BY <1>1 DEF Images!IndInv
  <2>1. /\ Images!Active = {p}
        /\ imagesTx[p].moves = [i \in {j \in Images!Shown : Place(j) # images[j].slot}
                                  |-> Place(i)]
    BY <1>1, <2>0 DEF Images!LoneCopies
  <2>2. ~UNCHANGED images
    BY <1>1 DEF Images!Shown
  <2>3. Images!CommitAdd(p)
    <3>1. PICK q \in Procs : \/ Images!CommitAdd(q) \/ Images!CommitEdit(q)
                             \/ Images!CommitRemove(q) \/ Images!CommitDelete(q)
      BY <1>1, <2>2 DEF Images!Next, Images!Step, Images!Presign, Images!PutObject,
         Images!BeginAdd, Images!BeginEdit, Images!BeginRemove, Images!BeginDelete,
         Images!DeleteObjects, Images!StorageFails, Images!BeginStatus,
         Images!CommitStatus, Images!Crash, Images!Fail
    <3>2. q = p
      BY <2>1, <3>1 DEF Images!Active, Images!CommitAdd, Images!CommitEdit,
         Images!CommitRemove, Images!CommitDelete
    <3> QED
      BY <1>1, <3>1, <3>2 DEF Images!CommitEdit, Images!CommitRemove, Images!CommitDelete
  <2>4. PICK new \in ImageIds :
           /\ Images!Shown' = Images!Shown \cup {new} /\ new \notin Images!Shown
           /\ images'[new].slot = slot
           /\ \A i \in ImageIds \ {new} : images'[i] = Images!Change(imagesTx[p].moves)[i]
    BY <2>0, <2>2, <2>3, CommitAddShows
  <2>5. slot \in Nat /\ Images!Shown \subseteq ImageIds /\ ImageIds \subseteq Nat
    BY <1>1, <2>0, ImagesRequests, SlotsAre, ShownIsFinite
  <2>6. \A i \in Images!Shown : images'[i].slot = Place(i)
    <3>1. /\ DOMAIN imagesTx[p].moves \subseteq Images!Shown
          /\ \A i \in DOMAIN imagesTx[p].moves : imagesTx[p].moves[i] \in Images!Slots
      BY <1>1, <2>0, <2>1, ImagesRequests
    <3>2. ASSUME NEW i \in Images!Shown PROVE images'[i].slot = Place(i)
      <4>1. i \in ImageIds /\ images'[i] = Images!Change(imagesTx[p].moves)[i]
        BY <2>4, <2>5
      <4>2. CASE Place(i) # images[i].slot
        <5>1. i \in DOMAIN imagesTx[p].moves /\ imagesTx[p].moves[i] = Place(i)
          BY <2>1, <4>2
        <5> QED
          BY <2>0, <3>1, <4>1, <5>1, ImagesMoved
      <4>3. CASE Place(i) = images[i].slot
        <5>1. i \notin DOMAIN imagesTx[p].moves
          BY <2>1, <4>3
        <5> QED
          BY <2>0, <3>1, <4>1, <4>3, <5>1, ImagesMoved
      <4> QED
        BY <4>2, <4>3
    <3> QED
      BY <3>2
  <2> HIDE DEF Place
  <2>7. /\ \A i \in Images!Shown : Place(i) \in Nat /\ Place(i) # slot
        /\ \A i, j \in Images!Shown : Images!Before(i, j) => Place(i) < Place(j)
    BY <2>0, <2>5, RenumberingKeepsOrder DEF Place
  <2>8. \A i, j \in Images!Shown : i # j => Place(i) # Place(j)
    BY <2>0, <2>7, ImagesAreOrdered
  <2>9. \A i, j \in Images!Shown' : i # j => images'[i].slot # images'[j].slot
    BY <2>4, <2>6, <2>7, <2>8
  <2>10. \A i, j \in Images!Shown : Images!Before(i, j) <=> Images!Before(i, j)'
    <3> SUFFICES ASSUME NEW i \in Images!Shown, NEW j \in Images!Shown
                 PROVE  Images!Before(i, j) <=> Images!Before(i, j)'
      OBVIOUS
    <3>1. CASE i = j
      <4>1. ~Images!Before(i, j)
        BY <2>0, <3>1, ImagesAreOrdered
      <4>2. ~Images!Before(i, j)'
        BY <2>5, <2>6, <2>7, <3>1 DEF Images!Before
      <4> QED
        BY <4>1, <4>2
    <3>2. CASE i # j
      <4>1. Images!Before(i, j)' <=> Place(i) < Place(j)
        BY <2>6, <2>7, <2>8, <3>2 DEF Images!Before
      <4>2. Images!Before(i, j) \/ Images!Before(j, i)
        BY <2>0, <3>2, ImagesAreOrdered
      <4> QED
        BY <2>7, <4>1, <4>2
    <3> QED
      BY <3>1, <3>2
  <2> QED
    BY <2>4, <2>9, <2>10
<1>2. Images!IndInv /\ [Images!Next]_(Images!vars) => [Orderly]_(Images!vars)
  BY <1>1
<1> QED
  BY <1>2, ImagesAreConsistent, PTL DEF Images!Spec, Images!AddTakesItsSlot
-----------------------------------------------------------------------------
(***************************************************************************)
(* Entries and their slugs.                                                *)
(***************************************************************************)
\* What a request has asked for.
LEMMA CatalogRequests ==
    ASSUME Catalog!TypeOK, NEW p \in Procs, NEW r, r = catalogTx[p]
    PROVE  /\ r = Catalog!Idle \/ r.at \in {"create", "update", "write", "delete"}
           /\ r = Catalog!Idle <=> r.at = "idle"
           /\ r # Catalog!Idle => r.id \in Ids
           /\ r.at \in {"create", "update", "write"} =>
                 /\ DOMAIN r.payload = {"slug", "catalog_status"}
                 /\ r.payload.catalog_status \in Catalog!CatalogStatus \cup {Absent}
                 /\ r.loaded = None => r.payload.catalog_status # Absent
           /\ r.at \in {"create", "update"} =>
                 /\ r.n \in Nat \ {0} /\ r.payload.slug \in Bases
                 /\ r = [at |-> r.at, id |-> r.id, loaded |-> r.loaded, n |-> r.n,
                         payload |-> r.payload]
<1>1. Catalog!Idle.at = "idle"
  BY DEF Catalog!Idle
<1> QED
  BY <1>1 DEF Catalog!TypeOK, Catalog!Columns

\* The candidates of a base differ.
LEMMA CandidatesDiffer ==
    ASSUME NEW base \in Bases, NEW m \in Nat \ {0}, NEW n \in Nat \ {0},
           Catalog!Candidate(base, m) = Catalog!Candidate(base, n)
    PROVE  m = n
<1> DEFINE S == {base[i] : i \in DOMAIN base} \cup {m, n}
<1>1. Len(base) \in Nat /\ base = [i \in 1..Len(base) |-> base[i]]
  BY CatalogAssumption DEF Catalog!CatalogAssumption
<1>2. base \in Seq(S)
  <2>1. base \in [1..Len(base) -> S]
    BY <1>1
  <2> HIDE DEF S
  <2> QED
    BY <1>1, <2>1, SeqDef
<1> HIDE DEF S
<1>3. m \in S /\ n \in S
  BY DEF S
<1>4. ASSUME NEW k \in S
      PROVE  Append(base, k) # base /\ Append(base, k)[Len(base) + 1] = k
  <2>1. Len(Append(base, k)) = Len(base) + 1 /\ Append(base, k)[Len(base) + 1] = k
    BY <1>2, <1>4, AppendProperties
  <2>2. Len(base) \in Nat
    BY <1>1
  <2> QED
    BY <2>1, <2>2
<1> QED
  BY <1>3, <1>4 DEF Catalog!Candidate

\* A slug is found at the latest after as many candidates as there are entries, and
\* it is the first that no other entry has.
LEMMA FirstFreeIs ==
    ASSUME NEW base \in Bases, NEW me \in Ids, NEW n \in Nat \ {0},
           \A k \in 1..(n - 1) : Catalog!TakenBy(Catalog!Candidate(base, k), me),
           ~Catalog!TakenBy(Catalog!Candidate(base, n), me)
    PROVE  Catalog!FirstFree(base, me) = Catalog!Candidate(base, n)
<1> DEFINE Holds(i, k) == Catalog!Present(i) /\ entries[i].slug = Catalog!Candidate(base, k)
           holder == [k \in 1..(n - 1) |-> CHOOSE i \in Ids \ {me} : Holds(i, k)]
           others == {entries[i].slug : i \in {j \in Ids \ {me} : Catalog!Present(j)}}
           free == {k \in Catalog!Suffixes : Catalog!Candidate(base, k) \notin others}
<1>1. IsFiniteSet(Ids) /\ Cardinality(Ids) \in Nat
  BY CatalogAssumption, SameFinite, FS_CardinalityType DEF Catalog!CatalogAssumption
<1>2. \A k \in 1..(n - 1) : holder[k] \in Ids \ {me} /\ Holds(holder[k], k)
  <2> SUFFICES ASSUME NEW k \in 1..(n - 1)
               PROVE  \E i \in Ids \ {me} : Holds(i, k)
    OBVIOUS
  <2> QED
    BY DEF Catalog!TakenBy
<1> HIDE DEF holder
<1>3. holder \in Injection(1..(n - 1), Ids)
  <2>1. holder \in [1..(n - 1) -> Ids]
    BY <1>2 DEF holder
  <2>2. ASSUME NEW j \in 1..(n - 1), NEW k \in 1..(n - 1), holder[j] = holder[k]
        PROVE  j = k
    BY <1>2, <2>2, CandidatesDiffer
  <2> QED
    BY <2>1, <2>2 DEF Injection, IsInjective
<1>4. n - 1 <= Cardinality(Ids)
  <2>1. Cardinality(1..(n - 1)) <= Cardinality(Ids)
    BY <1>1, <1>3, FS_Injection
  <2>2. Cardinality(1..(n - 1)) = n - 1
    BY FS_Interval
  <2> QED
    BY <2>1, <2>2
<1>5. n \in Catalog!Suffixes
  BY <1>1, <1>4, SameCardinality DEF Catalog!Suffixes
<1>6. \A k : Catalog!Candidate(base, k) \in others
               <=> Catalog!TakenBy(Catalog!Candidate(base, k), me)
  BY DEF Catalog!TakenBy
<1> HIDE DEF others
<1>7. n \in free /\ \A k \in free : k \in Nat /\ n <= k
  <2>1. \A k \in Catalog!Suffixes : k \in Nat /\ 1 <= k
    BY <1>1, SameCardinality DEF Catalog!Suffixes
  <2> QED
    BY <1>5, <1>6, <2>1
<1> HIDE DEF free
<1>8. (CHOOSE m \in free : \A k \in free : m <= k) = n
  <2> DEFINE m == CHOOSE m \in free : \A k \in free : m <= k
  <2>1. m \in free /\ \A k \in free : m <= k
    BY <1>7
  <2> HIDE DEF m
  <2>2. m = n
    BY <1>7, <2>1
  <2> QED
    BY <2>2 DEF m
<1> QED
  BY <1>8 DEF Catalog!FirstFree, free, others

\* A request that begins is alone or is not counted so.
LEMMA CatalogBeginIsSafe ==
    ASSUME Catalog!IndInv, NEW p \in Procs, NEW r, Catalog!Begin(p, r), UNCHANGED entries,
           r.at \in {"create", "update", "write", "delete"}, r.id \in Ids,
           r.at \in {"create", "update", "write"} =>
              /\ DOMAIN r.payload = {"slug", "catalog_status"}
              /\ r.payload.catalog_status \in Catalog!CatalogStatus \cup {Absent},
           r.at \in {"create", "update"} =>
              /\ r.n = 1 /\ r.payload.slug \in Bases
              /\ r = [at |-> r.at, id |-> r.id, loaded |-> r.loaded, n |-> r.n,
                      payload |-> r.payload],
           r.at = "create" =>
              /\ r.loaded = None /\ r.payload.catalog_status # Absent
              /\ entries[r.id] = None
              /\ \A q \in Procs : catalogTx[q].at # "idle" => catalogTx[q].id # r.id,
           r.at # "create" => Catalog!Present(r.id),
           r.at \in {"update", "write"} => r.loaded = entries[r.id],
           r.at = "write" => r.base = Absent /\ r.payload.slug = Absent
    PROVE  Catalog!IndInv'
<1>0. /\ Catalog!TypeOK /\ Catalog!SlugsAreUnique /\ Catalog!CreatesAreFresh
      /\ Catalog!OnlyRacesFail
  BY DEF Catalog!IndInv
<1>1. /\ catalogTx = [q \in Procs |-> catalogTx[q]]
      /\ catalogTx[p] = Catalog!Idle /\ catalogTx' = [catalogTx EXCEPT ![p] = r]
      /\ catalogAlone' = IF \A q \in Procs : catalogTx[q] = Catalog!Idle THEN {p} ELSE {}
      /\ UNCHANGED <<entries, catalogFailed>>
  BY <1>0 DEF Catalog!TypeOK, Catalog!Begin
<1>2. /\ catalogTx'[p] = r /\ \A q \in Procs : q # p => catalogTx'[q] = catalogTx[q]
      /\ catalogTx' = [q \in Procs |-> catalogTx'[q]]
  BY <1>1
<1>3. None \in Catalog!NoRow /\ r # Catalog!Idle
  BY DEF Catalog!NoRow, Catalog!Idle
<1>4. r.at \in {"update", "write"} => r.loaded # None
  BY <1>3 DEF Catalog!Present
<1>5. Catalog!TypeOK'
  <2>1. ASSUME NEW q \in Procs
        PROVE  LET s == catalogTx'[q]
               IN  /\ s = Catalog!Idle \/ s.at \in {"create", "update", "write", "delete"}
                   /\ s # Catalog!Idle => s.id \in Ids
                   /\ s.at \in {"create", "update", "write"} =>
                         /\ DOMAIN s.payload = {"slug", "catalog_status"}
                         /\ s.payload.catalog_status \in Catalog!CatalogStatus \cup {Absent}
                         /\ s.loaded = None => s.payload.catalog_status # Absent
                   /\ s.at \in {"create", "update"} =>
                         /\ s.n \in Nat \ {0} /\ s.payload.slug \in Bases
                         /\ s = [at |-> s.at, id |-> s.id, loaded |-> s.loaded, n |-> s.n,
                                 payload |-> s.payload]
    <3>1. CASE q = p
      BY <1>2, <1>4, <3>1
    <3>2. CASE q # p
      BY <1>0, <1>2, <3>2, CatalogRequests
    <3> QED
      BY <3>1, <3>2
  <2>2. catalogAlone' \subseteq Procs /\ catalogFailed' \in BOOLEAN
    BY <1>0, <1>1 DEF Catalog!TypeOK
  <2>3. entries' = [i \in Ids |-> entries'[i]]
        /\ \A i \in Ids : Catalog!Present(i)' => Catalog!IsRow(entries'[i])
    BY <1>0, <1>1 DEF Catalog!TypeOK, Catalog!Present
  <2> QED
    BY <1>2, <2>1, <2>2, <2>3 DEF Catalog!TypeOK, Catalog!Columns
<1>6. Catalog!SlugsAreUnique' /\ Catalog!OnlyRacesFail'
  BY <1>0, <1>1 DEF Catalog!SlugsAreUnique, Catalog!Present, Catalog!OnlyRacesFail
<1>7. Catalog!CreatesAreFresh'
  <2> SUFFICES ASSUME NEW q \in Procs, catalogTx'[q].at \in {"create", "update", "write"},
                      catalogTx'[q].loaded = None
               PROVE  /\ entries[catalogTx'[q].id] = None
                      /\ \A s \in Procs \ {q} : catalogTx'[s] # Catalog!Idle
                            => catalogTx'[s].id # catalogTx'[q].id
    BY <1>1 DEF Catalog!CreatesAreFresh
  <2>1. CASE q = p
    <3>1. r.at = "create"
      BY <1>2, <1>4, <2>1
    <3>2. \A s \in Procs : catalogTx[s] # Catalog!Idle => catalogTx[s].id # r.id
      BY <1>0, <3>1, CatalogRequests
    <3> QED
      BY <1>2, <2>1, <3>1, <3>2
  <2>2. CASE q # p
    <3>1. /\ catalogTx'[q] = catalogTx[q] /\ entries[catalogTx[q].id] = None
          /\ \A s \in Procs \ {q} : catalogTx[s] # Catalog!Idle
                => catalogTx[s].id # catalogTx[q].id
      BY <1>0, <1>2, <2>2 DEF Catalog!CreatesAreFresh
    <3>2. r.id # catalogTx[q].id
      <4>1. CASE r.at = "create"
        BY <2>2, <3>1, <4>1
      <4>2. CASE r.at # "create"
        BY <1>3, <3>1, <4>2 DEF Catalog!Present
      <4> QED
        BY <4>1, <4>2
    <3> QED
      BY <1>2, <3>1, <3>2
  <2> QED
    BY <2>1, <2>2
<1>8. Catalog!LoneCopies' /\ Catalog!SlugIsFirstFree'
  <2>1. ASSUME NEW q \in catalogAlone'
        PROVE  /\ q = p /\ catalogTx'[q] = r
               /\ \A s \in Procs \ {q} : catalogTx'[s] = Catalog!Idle
    BY <1>1, <1>2
  <2>2. r.at \in {"create", "update"} => 1..(r.n - 1) = {}
    OBVIOUS
  <2>3. \A q \in catalogAlone' : r.at # "create" => Catalog!Present(r.id)'
    BY <1>1 DEF Catalog!Present
  <2>4. Catalog!LoneCopies'
    BY <1>3, <1>4, <2>1, <2>2, <2>3 DEF Catalog!LoneCopies
  <2>5. Catalog!SlugIsFirstFree'
    BY <2>1 DEF Catalog!SlugIsFirstFree, Catalog!At
  <2> QED
    BY <2>4, <2>5
<1> QED
  BY <1>5, <1>6, <1>7, <1>8 DEF Catalog!IndInv

\* The owner's requests, as they begin.
LEMMA CatalogLoadsAreSafe ==
    ASSUME Catalog!IndInv, NEW p \in Procs,
           \/ Catalog!CreateShrimp(p) \/ Catalog!UpdateShrimp(p) \/ Catalog!SetStatus(p)
           \/ Catalog!DeleteShrimp(p)
    PROVE  Catalog!IndInv'
<1>1. CASE Catalog!CreateShrimp(p)
  <2>1. PICK i \in Ids, base \in Bases, status \in Catalog!CatalogStatus :
           /\ entries[i] = None
           /\ \A q \in Procs : catalogTx[q].at # "idle" => catalogTx[q].id # i
           /\ Catalog!Begin(p, [at |-> "create", id |-> i, loaded |-> None, n |-> 1,
                                payload |-> [slug |-> base, catalog_status |-> status]])
           /\ UNCHANGED entries
    BY <1>1 DEF Catalog!CreateShrimp, Catalog!At
  <2> DEFINE payload == [slug |-> base, catalog_status |-> status]
             r == [at |-> "create", id |-> i, loaded |-> None, n |-> 1, payload |-> payload]
  <2>2. /\ DOMAIN payload = {"slug", "catalog_status"} /\ payload.slug = base
        /\ payload.catalog_status \in Catalog!CatalogStatus \cup {Absent}
        /\ payload.catalog_status = status
    OBVIOUS
  <2>3. status # Absent
    BY CatalogAssumption DEF Catalog!CatalogAssumption, Catalog!CatalogStatus
  <2> HIDE DEF payload
  <2>4. /\ r.at = "create" /\ r.id = i /\ r.loaded = None /\ r.n = 1 /\ r.payload = payload
        /\ r = [at |-> r.at, id |-> r.id, loaded |-> r.loaded, n |-> r.n,
                payload |-> r.payload]
    OBVIOUS
  <2>5. Catalog!Begin(p, r)
    BY <2>1 DEF payload
  <2> HIDE DEF r
  <2> QED
    BY <2>1, <2>2, <2>3, <2>4, <2>5, CatalogBeginIsSafe
<1>2. CASE Catalog!UpdateShrimp(p)
  <2>1. PICK i \in Ids, payload \in Catalog!Payload :
           /\ Catalog!Present(i)
           /\ Catalog!Begin(p, IF payload.slug = Absent
                     THEN [at |-> "write", id |-> i, loaded |-> entries[i],
                           base |-> Absent, payload |-> payload]
                     ELSE [at |-> "update", id |-> i, loaded |-> entries[i],
                           n |-> 1, payload |-> payload])
           /\ UNCHANGED entries
    BY <1>2 DEF Catalog!UpdateShrimp
  <2>2. /\ DOMAIN payload = {"slug", "catalog_status"} /\ payload.slug \in Bases \cup {Absent}
        /\ payload.catalog_status \in Catalog!CatalogStatus \cup {Absent}
    BY DEF Catalog!Payload
  <2>3. CASE payload.slug = Absent
    <3> DEFINE r == [at |-> "write", id |-> i, loaded |-> entries[i], base |-> Absent,
                     payload |-> payload]
    <3>1. /\ r.at = "write" /\ r.id = i /\ r.loaded = entries[i] /\ r.payload = payload
          /\ r.base = Absent
      OBVIOUS
    <3>2. Catalog!Begin(p, r)
      BY <2>1, <2>3
    <3> HIDE DEF r
    <3> QED
      BY <2>1, <2>2, <2>3, <3>1, <3>2, CatalogBeginIsSafe
  <2>4. CASE payload.slug # Absent
    <3> DEFINE r == [at |-> "update", id |-> i, loaded |-> entries[i], n |-> 1,
                     payload |-> payload]
    <3>1. /\ r.at = "update" /\ r.id = i /\ r.loaded = entries[i] /\ r.payload = payload
          /\ r.n = 1
          /\ r = [at |-> r.at, id |-> r.id, loaded |-> r.loaded, n |-> r.n,
                  payload |-> r.payload]
      OBVIOUS
    <3>2. Catalog!Begin(p, r)
      BY <2>1, <2>4
    <3> HIDE DEF r
    <3> QED
      BY <2>1, <2>2, <2>4, <3>1, <3>2, CatalogBeginIsSafe
  <2> QED
    BY <2>3, <2>4
<1>3. CASE Catalog!SetStatus(p)
  <2>1. PICK i \in Ids, status \in Catalog!CatalogStatus :
           /\ Catalog!Present(i)
           /\ Catalog!Begin(p, [at |-> "write", id |-> i, loaded |-> entries[i],
                                base |-> Absent,
                                payload |-> [c \in Catalog!Columns |->
                                  IF c = "catalog_status" THEN status ELSE Absent]])
           /\ UNCHANGED entries
    BY <1>3 DEF Catalog!SetStatus
  <2> DEFINE payload == [c \in Catalog!Columns |->
                           IF c = "catalog_status" THEN status ELSE Absent]
             r == [at |-> "write", id |-> i, loaded |-> entries[i], base |-> Absent,
                   payload |-> payload]
  <2>2. /\ DOMAIN payload = {"slug", "catalog_status"} /\ payload.slug = Absent
        /\ payload.catalog_status \in Catalog!CatalogStatus \cup {Absent}
    BY DEF Catalog!Columns
  <2> HIDE DEF payload
  <2>3. /\ r.at = "write" /\ r.id = i /\ r.loaded = entries[i] /\ r.payload = payload
        /\ r.base = Absent
    OBVIOUS
  <2>4. Catalog!Begin(p, r)
    BY <2>1 DEF payload
  <2> HIDE DEF r
  <2> QED
    BY <2>1, <2>2, <2>3, <2>4, CatalogBeginIsSafe
<1>4. CASE Catalog!DeleteShrimp(p)
  <2>1. PICK i \in Ids :
           /\ Catalog!Present(i) /\ Catalog!Begin(p, [at |-> "delete", id |-> i])
           /\ UNCHANGED entries
    BY <1>4 DEF Catalog!DeleteShrimp
  <2> DEFINE r == [at |-> "delete", id |-> i]
  <2>2. r.at = "delete" /\ r.id = i /\ Catalog!Begin(p, r)
    BY <2>1
  <2> HIDE DEF r
  <2> QED
    BY <2>1, <2>2, CatalogBeginIsSafe
<1> QED
  BY <1>1, <1>2, <1>3, <1>4

\* A request that ends leaves nobody alone, and has written its own entry only.
LEMMA CatalogEndIsSafe ==
    ASSUME Catalog!IndInv, NEW p \in Procs, catalogTx[p] # Catalog!Idle,
           Catalog!Leave(p), catalogFailed' = FALSE,
           entries' = [i \in Ids |-> entries'[i]],
           \A i \in Ids : Catalog!Present(i)' => Catalog!IsRow(entries'[i]),
           Catalog!SlugsAreUnique',
           \A i \in Ids : i # catalogTx[p].id => entries'[i] = entries[i]
    PROVE  Catalog!IndInv'
<1>0. Catalog!TypeOK /\ Catalog!CreatesAreFresh /\ Catalog!LoneCopies
  BY DEF Catalog!IndInv
<1>1. /\ catalogTx = [q \in Procs |-> catalogTx[q]]
      /\ catalogTx' = [catalogTx EXCEPT ![p] = Catalog!Idle]
      /\ catalogAlone' = catalogAlone \ {p} /\ catalogAlone \subseteq Procs
  BY <1>0 DEF Catalog!TypeOK, Catalog!Leave
<1>2. /\ catalogTx'[p] = Catalog!Idle
      /\ \A q \in Procs : q # p => catalogTx'[q] = catalogTx[q]
      /\ catalogTx' = [q \in Procs |-> catalogTx'[q]]
  BY <1>1
<1>3. catalogAlone' = {}
  BY <1>0, <1>1 DEF Catalog!LoneCopies
<1>4. Catalog!TypeOK'
  <2>1. ASSUME NEW q \in Procs
        PROVE  LET s == catalogTx'[q]
               IN  /\ s = Catalog!Idle \/ s.at \in {"create", "update", "write", "delete"}
                   /\ s # Catalog!Idle => s.id \in Ids
                   /\ s.at \in {"create", "update", "write"} =>
                         /\ DOMAIN s.payload = {"slug", "catalog_status"}
                         /\ s.payload.catalog_status \in Catalog!CatalogStatus \cup {Absent}
                         /\ s.loaded = None => s.payload.catalog_status # Absent
                   /\ s.at \in {"create", "update"} =>
                         /\ s.n \in Nat \ {0} /\ s.payload.slug \in Bases
                         /\ s = [at |-> s.at, id |-> s.id, loaded |-> s.loaded, n |-> s.n,
                                 payload |-> s.payload]
    <3>1. CASE q = p
      BY <1>2, <3>1 DEF Catalog!Idle
    <3>2. CASE q # p
      BY <1>0, <1>2, <3>2, CatalogRequests
    <3> QED
      BY <3>1, <3>2
  <2>2. catalogAlone' \subseteq Procs /\ catalogFailed' \in BOOLEAN
    BY <1>3
  <2> QED
    BY <1>2, <2>1, <2>2 DEF Catalog!TypeOK, Catalog!Columns
<1>5. Catalog!CreatesAreFresh'
  <2> SUFFICES ASSUME NEW q \in Procs, catalogTx'[q].at \in {"create", "update", "write"},
                      catalogTx'[q].loaded = None
               PROVE  /\ entries'[catalogTx'[q].id] = None
                      /\ \A s \in Procs \ {q} : catalogTx'[s] # Catalog!Idle
                            => catalogTx'[s].id # catalogTx'[q].id
    BY DEF Catalog!CreatesAreFresh
  <2>1. q # p /\ catalogTx'[q] = catalogTx[q]
    BY <1>2 DEF Catalog!Idle
  <2>2. /\ entries[catalogTx[q].id] = None
        /\ \A s \in Procs \ {q} : catalogTx[s] # Catalog!Idle
              => catalogTx[s].id # catalogTx[q].id
    BY <1>0, <2>1 DEF Catalog!CreatesAreFresh
  <2>3. catalogTx[q].id \in Ids
    BY <1>0, <2>1, CatalogRequests
  <2> QED
    BY <1>2, <2>1, <2>2, <2>3
<1>6. Catalog!OnlyRacesFail' /\ Catalog!LoneCopies' /\ Catalog!SlugIsFirstFree'
  BY <1>3 DEF Catalog!OnlyRacesFail, Catalog!LoneCopies, Catalog!SlugIsFirstFree
<1> QED
  BY <1>4, <1>5, <1>6 DEF Catalog!IndInv

\* A request goes on to the next candidate, or has found its slug.
LEMMA CatalogGoIsSafe ==
    ASSUME Catalog!IndInv, NEW p \in Procs, NEW r, r = catalogTx[p], NEW next,
           r.at \in {"create", "update"},
           catalogTx' = [catalogTx EXCEPT ![p] = next],
           UNCHANGED <<entries, catalogAlone, catalogFailed>>,
           next.id = r.id, next.loaded = r.loaded, next.at \in {r.at, "write"},
           DOMAIN next.payload = {"slug", "catalog_status"},
           next.payload.catalog_status = r.payload.catalog_status,
           next.at = r.at =>
              /\ next.n \in Nat \ {0} /\ next.payload.slug \in Bases
              /\ next = [at |-> next.at, id |-> next.id, loaded |-> next.loaded,
                         n |-> next.n, payload |-> next.payload]
              /\ p \in catalogAlone => \A k \in 1..(next.n - 1) :
                    Catalog!TakenBy(Catalog!Candidate(next.payload.slug, k), next.id),
           next.at = "write" =>
              /\ ~Catalog!TakenBy(next.payload.slug, next.id)
              /\ p \in catalogAlone => next.payload.slug = Catalog!FirstFree(next.base, next.id)
    PROVE  Catalog!IndInv'
<1>0. /\ Catalog!TypeOK /\ Catalog!SlugsAreUnique /\ Catalog!CreatesAreFresh
      /\ Catalog!OnlyRacesFail /\ Catalog!LoneCopies
  BY DEF Catalog!IndInv
<1>1. catalogTx = [q \in Procs |-> catalogTx[q]] /\ catalogAlone \subseteq Procs
  BY <1>0 DEF Catalog!TypeOK
<1>2. /\ catalogTx'[p] = next /\ \A q \in Procs : q # p => catalogTx'[q] = catalogTx[q]
      /\ catalogTx' = [q \in Procs |-> catalogTx'[q]]
  BY <1>1
<1>3. r # Catalog!Idle /\ next # Catalog!Idle
  BY DEF Catalog!Idle
<1>4. Catalog!TypeOK'
  <2>1. ASSUME NEW q \in Procs
        PROVE  LET s == catalogTx'[q]
               IN  /\ s = Catalog!Idle \/ s.at \in {"create", "update", "write", "delete"}
                   /\ s # Catalog!Idle => s.id \in Ids
                   /\ s.at \in {"create", "update", "write"} =>
                         /\ DOMAIN s.payload = {"slug", "catalog_status"}
                         /\ s.payload.catalog_status \in Catalog!CatalogStatus \cup {Absent}
                         /\ s.loaded = None => s.payload.catalog_status # Absent
                   /\ s.at \in {"create", "update"} =>
                         /\ s.n \in Nat \ {0} /\ s.payload.slug \in Bases
                         /\ s = [at |-> s.at, id |-> s.id, loaded |-> s.loaded, n |-> s.n,
                                 payload |-> s.payload]
    <3>1. CASE q = p
      <4>1. /\ r.id \in Ids
            /\ r.payload.catalog_status \in Catalog!CatalogStatus \cup {Absent}
            /\ r.loaded = None => r.payload.catalog_status # Absent
        BY <1>0, <1>3, CatalogRequests
      <4> QED
        BY <1>2, <3>1, <4>1
    <3>2. CASE q # p
      BY <1>0, <1>2, <3>2, CatalogRequests
    <3> QED
      BY <3>1, <3>2
  <2>2. entries' = [i \in Ids |-> entries'[i]]
        /\ \A i \in Ids : Catalog!Present(i)' => Catalog!IsRow(entries'[i])
    BY <1>0 DEF Catalog!TypeOK, Catalog!Present
  <2> QED
    BY <1>0, <1>2, <2>1, <2>2 DEF Catalog!TypeOK, Catalog!Columns
<1>5. Catalog!SlugsAreUnique' /\ Catalog!OnlyRacesFail'
  BY <1>0 DEF Catalog!SlugsAreUnique, Catalog!Present, Catalog!OnlyRacesFail
<1>6. Catalog!CreatesAreFresh'
  <2>1. \A q \in Procs : catalogTx'[q].id = catalogTx[q].id
        /\ (catalogTx'[q] # Catalog!Idle => catalogTx[q] # Catalog!Idle)
    BY <1>2, <1>3
  <2>2. \A q \in Procs : catalogTx'[q].at \in {"create", "update", "write"} =>
           /\ catalogTx[q].at \in {"create", "update", "write"}
           /\ catalogTx'[q].loaded = catalogTx[q].loaded
    BY <1>2
  <2> QED
    BY <1>0, <2>1, <2>2 DEF Catalog!CreatesAreFresh
<1>7. ASSUME NEW q \in catalogAlone
      PROVE  /\ q = p /\ catalogTx'[q] = next
             /\ \A s \in Procs \ {q} : catalogTx'[s] = Catalog!Idle
  <2>1. \A s \in Procs \ {q} : catalogTx[s] = Catalog!Idle
    BY <1>0, <1>1 DEF Catalog!LoneCopies
  <2> QED
    BY <1>1, <1>2, <1>3, <2>1
<1>8. Catalog!LoneCopies'
  <2> SUFFICES ASSUME p \in catalogAlone
               PROVE  /\ next.at \in {"create", "update", "write"} /\ next.loaded # None
                            => Catalog!Present(next.id)'
                      /\ next.at \in {"create", "update"} =>
                            \A k \in 1..(next.n - 1) :
                               Catalog!TakenBy(Catalog!Candidate(next.payload.slug, k),
                                               next.id)'
                      /\ next.at = "write" => ~Catalog!TakenBy(next.payload.slug, next.id)'
    BY <1>3, <1>7 DEF Catalog!LoneCopies
  <2>1. \A slug, me : Catalog!TakenBy(slug, me)' <=> Catalog!TakenBy(slug, me)
    BY DEF Catalog!TakenBy, Catalog!Present
  <2>2. r.loaded # None => Catalog!Present(r.id)
    BY <1>0 DEF Catalog!LoneCopies
  <2> QED
    BY <2>1, <2>2 DEF Catalog!Present
<1>9. Catalog!SlugIsFirstFree'
  <2>1. \A base, me : Catalog!FirstFree(base, me)' = Catalog!FirstFree(base, me)
    BY DEF Catalog!FirstFree, Catalog!Present
  <2> QED
    BY <1>7, <2>1 DEF Catalog!SlugIsFirstFree, Catalog!At
<1> QED
  BY <1>4, <1>5, <1>6, <1>8, <1>9 DEF Catalog!IndInv

\* One turn of the search for a slug.
LEMMA ProbeIsSafe ==
    ASSUME Catalog!IndInv, NEW p \in Procs, Catalog!Probe(p) PROVE Catalog!IndInv'
<1> DEFINE r == catalogTx[p]
           candidate == Catalog!Candidate(catalogTx[p].payload.slug, catalogTx[p].n)
           next == IF Catalog!TakenBy(candidate, r.id)
                   THEN [r EXCEPT !.n = r.n + 1]
                   ELSE [at |-> "write", id |-> r.id, loaded |-> r.loaded,
                         base |-> r.payload.slug,
                         payload |-> [r.payload EXCEPT !.slug = candidate]]
<1>0. /\ Catalog!TypeOK /\ Catalog!SlugsAreUnique /\ Catalog!CreatesAreFresh
      /\ Catalog!OnlyRacesFail /\ Catalog!LoneCopies
  BY DEF Catalog!IndInv
<1>1. /\ r.at \in {"create", "update"} /\ catalogTx = [q \in Procs |-> catalogTx[q]]
      /\ catalogTx' = [catalogTx EXCEPT ![p] = next]
      /\ UNCHANGED <<entries, catalogAlone, catalogFailed>>
  BY <1>0 DEF Catalog!Probe, Catalog!Go, Catalog!TypeOK
<1>2. /\ r # Catalog!Idle /\ r.id \in Ids
      /\ DOMAIN r.payload = {"slug", "catalog_status"}
      /\ r.payload.catalog_status \in Catalog!CatalogStatus \cup {Absent}
      /\ r.loaded = None => r.payload.catalog_status # Absent
      /\ r.n \in Nat \ {0} /\ r.payload.slug \in Bases
      /\ r = [at |-> r.at, id |-> r.id, loaded |-> r.loaded, n |-> r.n,
              payload |-> r.payload]
  BY <1>0, <1>1, CatalogRequests
<1>3. catalogAlone \subseteq Procs
      /\ (p \in catalogAlone => \A k \in 1..(r.n - 1) :
             Catalog!TakenBy(Catalog!Candidate(r.payload.slug, k), r.id))
  BY <1>0, <1>1 DEF Catalog!TypeOK, Catalog!LoneCopies
<1>4. CASE Catalog!TakenBy(candidate, r.id)
  <2>1. next = [at |-> r.at, id |-> r.id, loaded |-> r.loaded, n |-> r.n + 1,
                payload |-> r.payload]
    BY <1>2, <1>4
  <2> HIDE DEF next
  <2>2. /\ next.at = r.at /\ next.n = r.n + 1 /\ next.payload = r.payload
        /\ next.id = r.id /\ next.loaded = r.loaded
        /\ next = [at |-> next.at, id |-> next.id, loaded |-> next.loaded, n |-> next.n,
                   payload |-> next.payload]
    BY <2>1
  <2>3. r.at # "write" /\ r.n + 1 \in Nat \ {0}
    BY <1>1, <1>2
  <2>4. p \in catalogAlone => \A k \in 1..(next.n - 1) :
           Catalog!TakenBy(Catalog!Candidate(next.payload.slug, k), next.id)
    <3>1. \A k \in 1..(next.n - 1) : k \in 1..(r.n - 1) \/ k = r.n
      BY <1>2, <2>2
    <3> QED
      BY <1>3, <1>4, <2>2, <3>1
  <2> QED
    BY <1>1, <1>2, <2>2, <2>3, <2>4, CatalogGoIsSafe
<1>5. CASE ~Catalog!TakenBy(candidate, r.id)
  <2>1. next = [at |-> "write", id |-> r.id, loaded |-> r.loaded, base |-> r.payload.slug,
                payload |-> [r.payload EXCEPT !.slug = candidate]]
    BY <1>5
  <2>2. /\ next.at = "write" /\ next.id = r.id /\ next.loaded = r.loaded
        /\ next.base = r.payload.slug
        /\ DOMAIN next.payload = {"slug", "catalog_status"}
        /\ next.payload.slug = candidate
        /\ next.payload.catalog_status = r.payload.catalog_status
    <3>1. LET payload == [r.payload EXCEPT !.slug = candidate]
          IN  /\ DOMAIN payload = {"slug", "catalog_status"} /\ payload.slug = candidate
              /\ payload.catalog_status = r.payload.catalog_status
      BY <1>2
    <3> QED
      BY <2>1, <3>1
  <2> HIDE DEF next
  <2>3. p \in catalogAlone => candidate = Catalog!FirstFree(r.payload.slug, r.id)
    BY <1>2, <1>3, <1>5, FirstFreeIs
  <2>4. r.at # "write"
    BY <1>1
  <2> QED
    BY <1>1, <1>5, <2>2, <2>3, <2>4, CatalogGoIsSafe
<1> QED
  BY <1>4, <1>5

\* The commits: the index on slug has the last word.
LEMMA CatalogCommitsAreSafe ==
    ASSUME Catalog!IndInv, NEW p \in Procs,
           \/ Catalog!CommitCreate(p) \/ Catalog!CommitUpdate(p) \/ Catalog!CommitDelete(p)
           \/ Catalog!Crash(p)
    PROVE  Catalog!IndInv'
<1> DEFINE r == catalogTx[p]
<1>0. /\ Catalog!TypeOK /\ Catalog!SlugsAreUnique /\ Catalog!CreatesAreFresh
      /\ Catalog!LoneCopies /\ catalogFailed = FALSE
      /\ entries = [i \in Ids |-> entries[i]]
      /\ \A i \in Ids : Catalog!Present(i) => Catalog!IsRow(entries[i])
  BY DEF Catalog!IndInv, Catalog!OnlyRacesFail, Catalog!TypeOK
<1>1. /\ r # Catalog!Idle /\ Catalog!Leave(p) /\ r.id \in Ids
      /\ r.at = "write" =>
            /\ DOMAIN r.payload = {"slug", "catalog_status"}
            /\ r.payload.catalog_status \in Catalog!CatalogStatus \cup {Absent}
            /\ r.loaded = None => r.payload.catalog_status # Absent
  <2>1. r # Catalog!Idle /\ Catalog!Leave(p)
    BY DEF Catalog!CommitCreate, Catalog!CommitUpdate, Catalog!CommitDelete, Catalog!Crash,
           Catalog!At, Catalog!End, Catalog!Fail, Catalog!Idle
  <2> QED
    BY <1>0, <2>1, CatalogRequests
<1>2. None \in Catalog!NoRow /\ Deleted \in Catalog!NoRow
  BY DEF Catalog!NoRow
<1>3. ASSUME UNCHANGED entries, catalogFailed' = FALSE
      PROVE  Catalog!IndInv'
  BY <1>0, <1>1, <1>3, CatalogEndIsSafe DEF Catalog!SlugsAreUnique, Catalog!Present
<1>4. ASSUME NEW row, entries' = [entries EXCEPT ![r.id] = row], catalogFailed' = FALSE,
             row \notin Catalog!NoRow =>
                Catalog!IsRow(row) /\ ~Catalog!ClashesWith(row.slug, r.id)
      PROVE  Catalog!IndInv'
  <2>1. /\ entries'[r.id] = row /\ entries' = [i \in Ids |-> entries'[i]]
        /\ \A i \in Ids : i # r.id => entries'[i] = entries[i]
    BY <1>0, <1>1, <1>4
  <2>2. \A i \in Ids : Catalog!Present(i)' => Catalog!IsRow(entries'[i])
    BY <1>0, <1>4, <2>1 DEF Catalog!Present
  <2>3. Catalog!SlugsAreUnique'
    BY <1>0, <1>1, <1>4, <2>1 DEF Catalog!SlugsAreUnique, Catalog!Present,
                                  Catalog!ClashesWith
  <2> QED
    BY <1>1, <1>4, <2>1, <2>2, <2>3, CatalogEndIsSafe
<1>5. \A slug : Catalog!ClashesWith(slug, r.id) <=> Catalog!TakenBy(slug, r.id)
  BY DEF Catalog!ClashesWith, Catalog!TakenBy
<1>6. CASE Catalog!CommitCreate(p) /\ ~Catalog!ClashesWith(r.payload.slug, r.id)
  <2>1. r.payload \notin Catalog!NoRow => Catalog!IsRow(r.payload)
    BY <1>1, <1>6 DEF Catalog!CommitCreate, Catalog!At, Catalog!IsRow, Catalog!Columns
  <2>2. entries' = [entries EXCEPT ![r.id] = r.payload] /\ catalogFailed' = FALSE
    BY <1>0, <1>6 DEF Catalog!CommitCreate, Catalog!End
  <2> QED
    BY <1>4, <1>6, <2>1, <2>2
<1>7. CASE Catalog!CommitCreate(p) /\ Catalog!ClashesWith(r.payload.slug, r.id)
  <2>1. p \notin catalogAlone
    BY <1>0, <1>5, <1>7 DEF Catalog!CommitCreate, Catalog!At, Catalog!LoneCopies
  <2>2. UNCHANGED entries /\ catalogFailed' = FALSE
    BY <1>0, <1>7, <2>1 DEF Catalog!CommitCreate, Catalog!Fail
  <2> QED
    BY <1>3, <2>2
<1>8. CASE Catalog!CommitUpdate(p)
  <2> DEFINE row == [c \in Catalog!Columns |-> IF c \in Catalog!Written(r)
                                               THEN Catalog!Copy(r, c)
                                               ELSE entries[r.id][c]]
  <2>1. r.at = "write" /\ r.loaded # None
    BY <1>8 DEF Catalog!CommitUpdate, Catalog!At
  <2>2. CASE Catalog!Written(r) = {} /\ Catalog!End(p) /\ UNCHANGED entries
    BY <1>0, <1>3, <2>2 DEF Catalog!End
  <2>3. \A c \in Catalog!Written(r) : r.payload[c] # Absent /\ Catalog!Copy(r, c) = r.payload[c]
    BY DEF Catalog!Written, Catalog!Copy
  <2>4. CASE Catalog!Rejected(r) /\ Catalog!Fail(p)
    <3>1. p \notin catalogAlone
      BY <1>0, <1>5, <2>1, <2>3, <2>4 DEF Catalog!LoneCopies, Catalog!Rejected
    <3>2. UNCHANGED entries /\ catalogFailed' = FALSE
      BY <1>0, <2>4, <3>1 DEF Catalog!Fail
    <3> QED
      BY <1>3, <3>2
  <2>5. CASE ~Catalog!Rejected(r) /\ entries' = [entries EXCEPT ![r.id] = row]
             /\ Catalog!End(p)
    <3>1. /\ Catalog!Present(r.id) /\ Catalog!IsRow(entries[r.id])
          /\ "slug" \in Catalog!Written(r) => ~Catalog!ClashesWith(Catalog!Copy(r, "slug"), r.id)
      BY <1>0, <1>1, <2>5 DEF Catalog!Rejected
    <3>2. /\ DOMAIN row = Catalog!Columns
          /\ row.slug = IF "slug" \in Catalog!Written(r) THEN Catalog!Copy(r, "slug")
                        ELSE entries[r.id].slug
          /\ row.catalog_status = IF "catalog_status" \in Catalog!Written(r)
                                  THEN Catalog!Copy(r, "catalog_status")
                                  ELSE entries[r.id].catalog_status
      BY DEF Catalog!Columns
    <3> HIDE DEF row
    <3>3. Catalog!IsRow(row)
      BY <1>1, <2>1, <2>3, <3>1, <3>2 DEF Catalog!IsRow
    <3>4. ~Catalog!ClashesWith(entries[r.id].slug, r.id)
      BY <1>0, <1>1, <3>1 DEF Catalog!ClashesWith, Catalog!SlugsAreUnique
    <3>5. catalogFailed' = FALSE
      BY <1>0, <2>5 DEF Catalog!End
    <3> QED
      BY <1>4, <2>5, <3>1, <3>2, <3>3, <3>4, <3>5
  <2> QED
    BY <1>8, <2>2, <2>4, <2>5 DEF Catalog!CommitUpdate
<1>9. CASE Catalog!CommitDelete(p)
  <2>1. entries' = [entries EXCEPT ![r.id] = Deleted] /\ catalogFailed' = FALSE
    BY <1>0, <1>9 DEF Catalog!CommitDelete, Catalog!End
  <2> QED
    BY <1>2, <1>4, <2>1
<1>10. CASE Catalog!Crash(p)
  BY <1>0, <1>3, <1>10 DEF Catalog!Crash, Catalog!End
<1> QED
  BY <1>6, <1>7, <1>8, <1>9, <1>10

\* Every step on entries keeps their invariant.
LEMMA CatalogSafe == Catalog!IndInv /\ [Catalog!Next]_(Catalog!vars) => Catalog!IndInv'
<1> SUFFICES ASSUME Catalog!IndInv, [Catalog!Next]_(Catalog!vars) PROVE Catalog!IndInv'
  OBVIOUS
<1>1. CASE Catalog!Next
  BY <1>1, CatalogLoadsAreSafe, ProbeIsSafe, CatalogCommitsAreSafe
  DEF Catalog!Next, Catalog!Step
<1>2. CASE UNCHANGED Catalog!vars
  <2>1. UNCHANGED <<entries, catalogTx, catalogAlone, catalogFailed>>
    BY <1>2 DEF Catalog!vars
  <2>2. Catalog!TypeOK' /\ Catalog!SlugsAreUnique' /\ Catalog!OnlyRacesFail'
        /\ Catalog!CreatesAreFresh'
    BY <2>1 DEF Catalog!IndInv, Catalog!TypeOK, Catalog!SlugsAreUnique, Catalog!Present,
                Catalog!OnlyRacesFail, Catalog!CreatesAreFresh
  <2>3. \A slug, me : Catalog!TakenBy(slug, me)' <=> Catalog!TakenBy(slug, me)
    BY <2>1 DEF Catalog!TakenBy, Catalog!Present
  <2>4. Catalog!LoneCopies'
    BY <2>1, <2>3 DEF Catalog!IndInv, Catalog!LoneCopies, Catalog!Present
  <2>5. \A base, me : Catalog!FirstFree(base, me)' = Catalog!FirstFree(base, me)
    BY <2>1 DEF Catalog!FirstFree, Catalog!Present
  <2>6. Catalog!SlugIsFirstFree'
    BY <2>1, <2>5 DEF Catalog!IndInv, Catalog!SlugIsFirstFree, Catalog!At
  <2> QED
    BY <2>2, <2>4, <2>6 DEF Catalog!IndInv
<1> QED
  BY <1>1, <1>2

\* The entries are consistent: no two share a slug, and a request that no other
\* overlaps gets the first slug that is free and does not fail (shrimp_service.py).
THEOREM EntriesAreConsistent == Catalog!Spec => []Catalog!IndInv
<1>1. Catalog!Init => Catalog!IndInv
  <2> SUFFICES ASSUME Catalog!Init PROVE Catalog!IndInv
    OBVIOUS
  <2>1. /\ \A i \in Ids : ~Catalog!Present(i)
        /\ \A q \in Procs : catalogTx[q] = Catalog!Idle /\ catalogTx[q].at = "idle"
    BY DEF Catalog!Init, Catalog!Present, Catalog!NoRow, Catalog!Idle
  <2>2. Catalog!TypeOK
    BY <2>1 DEF Catalog!Init, Catalog!TypeOK
  <2>3. Catalog!SlugsAreUnique /\ Catalog!CreatesAreFresh
    BY <2>1 DEF Catalog!SlugsAreUnique, Catalog!CreatesAreFresh
  <2>4. Catalog!LoneCopies /\ Catalog!OnlyRacesFail /\ Catalog!SlugIsFirstFree
    BY DEF Catalog!Init, Catalog!LoneCopies, Catalog!OnlyRacesFail, Catalog!SlugIsFirstFree
  <2> QED
    BY <2>2, <2>3, <2>4 DEF Catalog!IndInv
<1> QED
  BY <1>1, CatalogSafe, PTL DEF Catalog!Spec

\* A column of an entry changes in the commit of a request that named it
\* (update_shrimp_catalog_item).
THEOREM UpdatesKeepOtherColumns == Catalog!Spec => Catalog!OtherColumnsKept
<1> DEFINE Kept ==
       \A i \in Ids : Catalog!Present(i) /\ entries'[i] \notin Catalog!NoRow =>
         \A c \in Catalog!Columns : entries'[i][c] # entries[i][c] =>
            \E p \in Procs : /\ Catalog!At(p, "write") /\ catalogTx'[p] = Catalog!Idle
                             /\ catalogTx[p].id = i /\ catalogTx[p].payload[c] # Absent
<1>1. ASSUME Catalog!IndInv, Catalog!Next, NEW i \in Ids, Catalog!Present(i),
             entries'[i] \notin Catalog!NoRow, NEW c \in Catalog!Columns,
             entries'[i][c] # entries[i][c]
      PROVE  \E p \in Procs : /\ Catalog!At(p, "write") /\ catalogTx'[p] = Catalog!Idle
                              /\ catalogTx[p].id = i /\ catalogTx[p].payload[c] # Absent
  <2>0. /\ Catalog!TypeOK /\ Catalog!CreatesAreFresh
        /\ entries = [j \in Ids |-> entries[j]] /\ catalogTx = [q \in Procs |-> catalogTx[q]]
        /\ None \in Catalog!NoRow /\ Deleted \in Catalog!NoRow
    BY <1>1 DEF Catalog!IndInv, Catalog!TypeOK, Catalog!NoRow
  <2>1. PICK p \in Procs : Catalog!CommitCreate(p) \/ Catalog!CommitUpdate(p)
                           \/ Catalog!CommitDelete(p)
    BY <1>1 DEF Catalog!Next, Catalog!Step, Catalog!CreateShrimp, Catalog!UpdateShrimp,
       Catalog!SetStatus, Catalog!DeleteShrimp, Catalog!Probe, Catalog!Crash
  <2>2. ~Catalog!CommitDelete(p)
    BY <1>1, <2>0 DEF Catalog!CommitDelete
  <2>3. ~Catalog!CommitCreate(p)
    <3> SUFFICES ASSUME Catalog!CommitCreate(p) PROVE FALSE
      OBVIOUS
    <3>1. entries' = [entries EXCEPT ![catalogTx[p].id] = catalogTx[p].payload]
      BY <1>1 DEF Catalog!CommitCreate, Catalog!Fail
    <3>2. entries[catalogTx[p].id] = None
      BY <2>0 DEF Catalog!CommitCreate, Catalog!At, Catalog!CreatesAreFresh
    <3>3. catalogTx[p].id # i
      BY <1>1, <2>0, <3>2 DEF Catalog!Present
    <3> QED
      BY <1>1, <2>0, <3>1, <3>3
  <2> DEFINE r == catalogTx[p]
  <2>4. /\ Catalog!At(p, "write") /\ Catalog!Leave(p)
        /\ entries' = [entries EXCEPT ![r.id] =
             [d \in Catalog!Columns |-> IF d \in Catalog!Written(r) THEN Catalog!Copy(r, d)
                                        ELSE entries[r.id][d]]]
    BY <1>1, <2>1, <2>2, <2>3 DEF Catalog!CommitUpdate, Catalog!Fail, Catalog!End
  <2>5. r.id = i
    BY <1>1, <2>0, <2>4
  <2>6. c \in Catalog!Written(r)
    BY <1>1, <2>0, <2>4, <2>5
  <2>7. catalogTx'[p] = Catalog!Idle
    BY <2>0, <2>4 DEF Catalog!Leave
  <2> QED
    BY <2>4, <2>5, <2>6, <2>7 DEF Catalog!Written
<1>2. Catalog!IndInv /\ [Catalog!Next]_(Catalog!vars) => [Kept]_(Catalog!vars)
  BY <1>1
<1> QED
  BY <1>2, EntriesAreConsistent, PTL DEF Catalog!Spec, Catalog!OtherColumnsKept
-----------------------------------------------------------------------------
(***************************************************************************)
(* The components side by side.                                            *)
(***************************************************************************)
\* A behaviour of the composition is one of every component.
LEMMA EachCatalogComponent == Spec => Catalog!Spec /\ Parts!Spec /\ Images!Spec
<1>1. Init => Catalog!Init /\ Parts!Init /\ Images!Init
  BY DEF Init
<1>2. /\ UNCHANGED CatalogVars => UNCHANGED Catalog!vars
      /\ UNCHANGED PartsVars => UNCHANGED Parts!vars
      /\ UNCHANGED ImagesVars => UNCHANGED Images!vars
  BY DEF CatalogVars, Catalog!vars, PartsVars, Parts!vars, Parts!rows, Parts!history,
         ImagesVars, Images!vars
<1>3. UNCHANGED vars => UNCHANGED <<CatalogVars, PartsVars, ImagesVars>>
  BY DEF vars
<1>4. [Next]_vars => [Catalog!Next]_(Catalog!vars)
  BY <1>2, <1>3 DEF Next, CatalogStep, PartsStep, ImagesStep
<1>5. [Next]_vars => [Parts!Next]_(Parts!vars)
  BY <1>2, <1>3 DEF Next, CatalogStep, PartsStep, ImagesStep
<1>6. [Next]_vars => [Images!Next]_(Images!vars)
  BY <1>2, <1>3 DEF Next, CatalogStep, PartsStep, ImagesStep
<1> QED
  BY <1>1, <1>4, <1>5, <1>6, PTL DEF Spec, Catalog!Spec, Parts!Spec, Images!Spec

\* The tables of the catalog and the requests in flight are consistent, component
\* by component.
THEOREM CatalogTablesAreConsistent == Spec => []TablesAreConsistent
<1>1. Catalog!IndInv /\ Parts!IndInv /\ Images!IndInv => TablesAreConsistent
  BY DEF TablesAreConsistent
<1> QED
  BY <1>1, EachCatalogComponent, EntriesAreConsistent, PartsAreConsistent,
     ImagesAreConsistent, PTL

\* A request that no other overlaps does not fail, and gets the first slug that is
\* free (create_unique_shrimp_slug, upsert_shrimp_care_parameter).
THEOREM LoneRequestsSucceed == Spec => []RequestsAloneSucceed
<1>1. Catalog!IndInv /\ Parts!IndInv => RequestsAloneSucceed
  BY DEF Catalog!IndInv, Parts!IndInv, RequestsAloneSucceed
<1> QED
  BY <1>1, EachCatalogComponent, EntriesAreConsistent, PartsAreConsistent, PTL

\* An image that is removed leaves no object in R2 (remove_shrimp_image).
THEOREM ObjectsGoWithTheirImages == Spec => []RemovedImagesLeaveNoObject
<1>1. Images!IndInv => RemovedImagesLeaveNoObject
  BY DEF Images!IndInv, Images!ObjectsGoFirst, RemovedImagesLeaveNoObject,
         Images!RemovedImagesLeaveNoObject
<1> QED
  BY <1>1, EachCatalogComponent, ImagesAreConsistent, PTL

\* As many images too many as there were overlapping uploads but one
\* (add_shrimp_image).
THEOREM TheLimitIsNearlyKept == Spec => []OverrunIsBounded
<1>1. Images!IndInv => OverrunIsBounded
  <2> SUFFICES ASSUME Images!IndInv PROVE OverrunIsBounded
    OBVIOUS
  <2>1. Cardinality(Images!Shown) + Cardinality(Images!Adding)
           <= MaxImages + Cardinality(Procs) - 1
    BY SameCardinality DEF Images!IndInv, Images!RoomIsShared
  <2>2. Cardinality(Images!Shown) <= MaxImages + Cardinality(Procs) - 1
    BY <2>1, UploadsAreFinite, ShownIsFinite, SlotsAre
  <2> QED
    BY <2>2, SameCardinality DEF OverrunIsBounded, Images!OverrunIsBounded
<1> QED
  BY <1>1, EachCatalogComponent, ImagesAreConsistent, PTL

\* A shrimp on sale is deleted only by a request that another one overlaps
\* (delete_inactive_shrimp_catalog_item).
THEOREM OnlyOverlapsDeleteWhatIsOnSale == Spec => OnlyRacesDeleteActive
BY EachCatalogComponent, SaleOutlivesLoneDeletions, PTL DEF OnlyRacesDeleteActive

\* An edit leaves alone what it does not name, whatever committed since it was
\* loaded: other owners' columns, limits, and the stock that orders took.
THEOREM StaleEditsAreHarmless == Spec => EditsUndoNothing
BY EachCatalogComponent, UpdatesKeepOtherColumns, SalesAreKept, LimitsStay, PTL
DEF EditsUndoNothing

\* An image added by itself takes its slot and the others keep their order
\* (add_shrimp_image).
THEOREM AddedImagesTakeTheirSlot == Spec => AddTakesItsSlot
BY EachCatalogComponent, AddsKeepTheOrder, PTL DEF AddTakesItsSlot
=============================================================================
