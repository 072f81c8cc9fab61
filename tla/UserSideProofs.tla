--------------------------- MODULE UserSideProofs ---------------------------
(***************************************************************************)
(* What the system keeps of its users stays consistent, for any numbers of *)
(* users, sessions, codes, addresses and requests: the profile, the        *)
(* administration of accounts, sign-in, and the overlapping requests of    *)
(* the address book.                                                       *)
(***************************************************************************)
EXTENDS MCUserSide, AddressBookProofs

-----------------------------------------------------------------------------
(***************************************************************************)
(* The profile.                                                            *)
(***************************************************************************)
\* What a request has loaded, and what it makes of it, are rows.
LEMMA ProfileRows ==
    ASSUME Profile!TypeOK, NEW r \in Procs
    PROVE  /\ req[r] \in Profile!Request /\ req[r].asked \in Profile!Row
           /\ Profile!Loaded(r) \in Profile!Row
           /\ \A row \in Profile!Row : Profile!Merge(r, row) \in Profile!Row
<1>1. req[r] \in Profile!Request
  BY DEF Profile!TypeOK
<1>2. req[r].asked \in Profile!Row /\ req[r].loaded \in Profile!Row \cup {NoProfile}
  BY <1>1 DEF Profile!Request
<1>3. Profile!EmptyRow \in Profile!Row
  BY DEF Profile!EmptyRow, Profile!Row
<1>4. Profile!Loaded(r) \in Profile!Row
  BY <1>2, <1>3 DEF Profile!Loaded
<1>5. ASSUME NEW row \in Profile!Row PROVE Profile!Merge(r, row) \in Profile!Row
  BY <1>2 DEF Profile!Merge, Profile!Row
<1> QED
  BY <1>1, <1>2, <1>4, <1>5

\* Every step keeps the types of the profile.
LEMMA ProfileTyped == Profile!TypeOK /\ [Profile!Next]_(Profile!vars) => Profile!TypeOK'
<1> SUFFICES ASSUME Profile!TypeOK, [Profile!Next]_(Profile!vars) PROVE Profile!TypeOK'
  OBVIOUS
<1>0. /\ owned \in BOOLEAN /\ profile \in Profile!Row \cup {NoProfile}
      /\ req \in [Procs -> Profile!Request] /\ (profile # NoProfile => owned)
  BY DEF Profile!TypeOK
<1>1. ASSUME NEW r \in Procs, NEW q \in Profile!Request, req' = [req EXCEPT ![r] = q]
      PROVE  req' \in [Procs -> Profile!Request]
  BY <1>0, <1>1
<1>2. /\ Profile!Idle \in Profile!Request
      /\ [Profile!Idle EXCEPT !.at = "failed"] \in Profile!Request
  BY DEF Profile!Idle, Profile!Request, Profile!EmptyRow, Profile!Row
<1>3. ASSUME NEW r \in Procs, NEW at \in {"idle", "loaded", "committed", "failed"},
             Profile!Put(r, at)
      PROVE  req' \in [Procs -> Profile!Request]
  <2>1. [req[r] EXCEPT !.at = at] \in Profile!Request
    BY <1>0 DEF Profile!Request
  <2> QED
    BY <1>1, <1>3, <2>1 DEF Profile!Put
<1>4. ASSUME NEW r \in Procs, Profile!Load(r) PROVE Profile!TypeOK'
  <2>1. PICK fields \in SUBSET Profile!Columns, asked \in Profile!Row :
            req' = [req EXCEPT ![r] = [at |-> "loaded", fields |-> fields,
                                       asked |-> asked, loaded |-> profile]]
    BY <1>4 DEF Profile!Load
  <2>2. [at |-> "loaded", fields |-> fields, asked |-> asked, loaded |-> profile]
          \in Profile!Request
    BY <1>0 DEF Profile!Request
  <2> QED
    BY <1>0, <1>1, <1>4, <2>1, <2>2 DEF Profile!TypeOK, Profile!Load
<1>5. ASSUME NEW r \in Procs, Profile!Create(r) \/ Profile!Update(r) PROVE Profile!TypeOK'
  <2>1. Profile!EmptyRow \in Profile!Row
    BY DEF Profile!EmptyRow, Profile!Row
  <2>2. owned /\ owned' = owned /\ profile' \in Profile!Row
    BY <1>0, <1>5, <2>1, ProfileRows DEF Profile!Create, Profile!Update, Profile!Insertable
  <2>3. req' \in [Procs -> Profile!Request]
    BY <1>3, <1>5 DEF Profile!Create, Profile!Update
  <2> QED
    BY <1>0, <2>2, <2>3 DEF Profile!TypeOK
<1>6. ASSUME NEW r \in Procs,
             \/ Profile!CommitNothing(r) \/ Profile!Fail(r)
             \/ Profile!Answer(r) \/ Profile!AnswerFails(r)
      PROVE  Profile!TypeOK'
  <2>1. req' \in [Procs -> Profile!Request]
    BY <1>1, <1>2, <1>3, <1>6
    DEF Profile!CommitNothing, Profile!Fail, Profile!Answer, Profile!AnswerFails
  <2>2. UNCHANGED <<owned, profile>>
    BY <1>6
    DEF Profile!CommitNothing, Profile!Fail, Profile!Answer, Profile!AnswerFails
  <2> QED
    BY <1>0, <2>1, <2>2 DEF Profile!TypeOK
<1>7. CASE Profile!DeleteUser \/ UNCHANGED Profile!vars
  BY <1>0, <1>7 DEF Profile!DeleteUser, Profile!vars, Profile!TypeOK
<1> QED
  BY <1>4, <1>5, <1>6, <1>7 DEF Profile!Next, Profile!RequestStep

\* A save keeps the columns a request did not name.
LEMMA ProfileWrites ==
    ASSUME Profile!TypeOK, Profile!Next, NEW r \in Procs, Profile!Commits(r),
           profile # NoProfile, profile' # NoProfile, NEW c \in Profile!Columns
    PROVE  /\ c \notin req[r].fields => profile'[c] = profile[c]
           /\ c \in req[r].fields => req[r].asked[c] \in {profile'[c], req[r].loaded[c]}
<1>0. req[r].at = "loaded" /\ req'[r].at = "committed"
  BY DEF Profile!Commits
<1>1. PICK q \in Procs : Profile!Load(q) \/ Profile!RequestStep(q)
  BY <1>0 DEF Profile!Next, Profile!DeleteUser
<1>2. req \in [Procs -> Profile!Request]
  BY DEF Profile!TypeOK
<1>3. \A p \in Procs : p # q => req'[p] = req[p]
  BY <1>1, <1>2
  DEF Profile!Load, Profile!RequestStep, Profile!Create, Profile!Update, Profile!Put,
      Profile!CommitNothing, Profile!Fail, Profile!Answer, Profile!AnswerFails
<1>4. q = r
  BY <1>0, <1>3
<1>5. CASE Profile!Update(r)
  BY <1>5 DEF Profile!Update, Profile!Merge, Profile!Changed, Profile!Named,
              Profile!Loaded
<1>6. CASE Profile!CommitNothing(r)
  BY <1>6 DEF Profile!CommitNothing, Profile!Changed, Profile!Named, Profile!Loaded
<1>7. CASE \/ Profile!Load(r) \/ Profile!Create(r) \/ Profile!Fail(r)
           \/ Profile!Answer(r) \/ Profile!AnswerFails(r)
  BY <1>0, <1>2, <1>7
  DEF Profile!Load, Profile!Create, Profile!Insertable, Profile!Fail, Profile!Answer,
      Profile!AnswerFails, Profile!Idle
<1> QED
  BY <1>1, <1>4, <1>5, <1>6, <1>7 DEF Profile!RequestStep

\* A profile row is there only for a user, and every request's copy is a row.
THEOREM ProfileIsTyped == Profile!Spec => []Profile!TypeOK
<1>1. Profile!Init => Profile!TypeOK
  BY DEF Profile!Init, Profile!TypeOK, Profile!Idle, Profile!Request,
         Profile!EmptyRow, Profile!Row
<1> QED
  BY <1>1, ProfileTyped, PTL DEF Profile!Spec

\* A page saves what it names and nothing else, however old the copy is that it
\* started from (update_current_user_profile).
THEOREM ProfileKeepsTheRest == Profile!Spec => Profile!WritesWhatItNames
<1> DEFINE Writes ==
        \A r \in Procs :
            Profile!Commits(r) /\ profile # NoProfile /\ profile' # NoProfile =>
              \A c \in Profile!Columns :
                /\ c \notin req[r].fields => profile'[c] = profile[c]
                /\ c \in req[r].fields =>
                      req[r].asked[c] \in {profile'[c], req[r].loaded[c]}
<1>1. Profile!TypeOK /\ [Profile!Next]_(Profile!vars) => [Writes]_(Profile!vars)
  BY ProfileWrites
<1> QED
  BY <1>1, ProfileIsTyped, PTL DEF Profile!Spec, Profile!WritesWhatItNames
-----------------------------------------------------------------------------
(***************************************************************************)
(* The administration of accounts.                                         *)
(***************************************************************************)
\* What a process may be handling, by its stage.
LEMMA AccountsRequests ==
    ASSUME Accounts!TypeOK, NEW p \in Procs, NEW r, r = accountsTx[p]
    PROVE  /\ r = Accounts!Idle \/ r.at \in {"target", "commit"}
           /\ r.at = "target" => /\ r.actor \in Staff /\ r.as \in Accounts!UserRole
                                 /\ r.op \in Accounts!Operations
           /\ r.at = "commit" => r.target \in Staff /\ r.op \in Accounts!Operations
           /\ r.at = "commit" /\ r.op = "role" => r.to \in Accounts!UserRole
<1>1. r \in Accounts!Requests \cup {Accounts!Idle}
  BY DEF Accounts!TypeOK
<1> QED
  BY <1>1 DEF Accounts!Requests, Accounts!Idle, Accounts!Operations

\* A process that goes on to another request, or ends, leaves the others alone.
LEMMA AccountsTxTyped ==
    ASSUME Accounts!TypeOK, NEW p \in Procs,
           NEW r \in Accounts!Requests \cup {Accounts!Idle},
           accountsTx' = [accountsTx EXCEPT ![p] = r]
    PROVE  /\ accountsTx' \in [Procs -> Accounts!Requests \cup {Accounts!Idle}]
           /\ accountsTx'[p] = r
           /\ \A q \in Procs : q # p => accountsTx'[q] = accountsTx[q]
  BY DEF Accounts!TypeOK

\* What is planned from a target is a request of the commit stage for it.
LEMMA PlansAreRequests ==
    ASSUME Accounts!TypeOK, NEW p \in Procs, accountsTx[p].at = "target",
           NEW u \in Staff, NEW plan \in Accounts!Plan(accountsTx[p], u)
    PROVE  /\ plan \in Accounts!Requests
           /\ plan.at = "commit" /\ plan.target = u /\ plan.op = accountsTx[p].op
<1> DEFINE op == accountsTx[p].op
<1>1. op \in Accounts!Operations
  BY AccountsRequests
<1>2. deactivated[u] \in BOOLEAN
  BY DEF Accounts!TypeOK
<1>3. CASE op \in {"activate", "deactivate"}
  <2>1. plan = [at |-> "commit", op |-> op, target |-> u, dated |-> deactivated[u],
                changes |-> (status[u] = "active") # (op = "activate")]
    BY <1>3 DEF Accounts!Plan
  <2>2. ((status[u] = "active") # (op = "activate")) \in BOOLEAN
    OBVIOUS
  <2> QED
    BY <1>2, <1>3, <2>1, <2>2 DEF Accounts!Requests
<1>4. CASE op = "role"
  <2>1. PICK to \in Accounts!UserRole :
            plan = [at |-> "commit", op |-> op, target |-> u, to |-> to,
                    changes |-> role[u] # to]
    BY <1>4 DEF Accounts!Plan, Accounts!RequestedRoles
  <2>2. (role[u] # to) \in BOOLEAN
    OBVIOUS
  <2> QED
    BY <1>4, <2>1, <2>2 DEF Accounts!Requests
<1>5. CASE op = "delete"
  BY <1>5 DEF Accounts!Plan, Accounts!Requests
<1> QED
  BY <1>1, <1>3, <1>4, <1>5 DEF Accounts!Operations

\* Every step keeps the types of the accounts.
LEMMA AccountsTyped ==
    Accounts!TypeOK /\ [Accounts!Next]_(Accounts!vars) => Accounts!TypeOK'
<1> SUFFICES ASSUME Accounts!TypeOK, [Accounts!Next]_(Accounts!vars)
             PROVE  Accounts!TypeOK'
  OBVIOUS
<1>0. /\ role \in [Staff -> Accounts!UserRole]
      /\ status \in [Staff -> Accounts!UserStatus \cup {"deleted"}]
      /\ deactivated \in [Staff -> BOOLEAN]
      /\ ordered \subseteq Staff
      /\ accountsOverlapped \in BOOLEAN
  BY DEF Accounts!TypeOK
<1>1. ASSUME NEW p \in Procs, Accounts!Authenticate(p) PROVE Accounts!TypeOK'
  <2>1. PICK u \in Staff, op \in Accounts!Operations :
            /\ accountsTx' = [accountsTx EXCEPT ![p] =
                   [at |-> "target", op |-> op, actor |-> u, as |-> role[u]]]
            /\ accountsOverlapped' = (accountsOverlapped
                 \/ \E q \in Procs : accountsTx[q] # Accounts!Idle)
            /\ UNCHANGED Accounts!rows
    BY <1>1 DEF Accounts!Authenticate
  <2>2. [at |-> "target", op |-> op, actor |-> u, as |-> role[u]] \in Accounts!Requests
    BY <1>0 DEF Accounts!Requests
  <2>3. accountsTx' \in [Procs -> Accounts!Requests \cup {Accounts!Idle}]
    BY <2>1, <2>2, AccountsTxTyped
  <2>4. accountsOverlapped' \in BOOLEAN
    BY <2>1
  <2> QED
    BY <1>0, <2>1, <2>3, <2>4 DEF Accounts!TypeOK, Accounts!rows
<1>2. ASSUME NEW p \in Procs, Accounts!LoadTarget(p) PROVE Accounts!TypeOK'
  <2>1. PICK r \in Accounts!Requests \cup {Accounts!Idle} : Accounts!Go(p, r)
    BY <1>2, PlansAreRequests DEF Accounts!LoadTarget
  <2>2. accountsTx' \in [Procs -> Accounts!Requests \cup {Accounts!Idle}]
    BY <2>1, AccountsTxTyped DEF Accounts!Go
  <2> QED
    BY <1>0, <2>1, <2>2 DEF Accounts!TypeOK, Accounts!rows, Accounts!Go
<1>3. ASSUME NEW p \in Procs,
             \/ Accounts!CommitActivate(p) \/ Accounts!CommitDeactivate(p)
             \/ Accounts!CommitRole(p) \/ Accounts!CommitDelete(p)
      PROVE  Accounts!TypeOK'
  <2> DEFINE r == accountsTx[p]
  <2>1. /\ Accounts!End(p)
        /\ UNCHANGED ordered
    BY <1>3 DEF Accounts!CommitActivate, Accounts!CommitDeactivate, Accounts!CommitRole,
                Accounts!CommitDelete
  <2>2. /\ accountsTx' \in [Procs -> Accounts!Requests \cup {Accounts!Idle}]
        /\ UNCHANGED accountsOverlapped
    BY <2>1, AccountsTxTyped DEF Accounts!End
  <2>3. /\ status' \in [Staff -> Accounts!UserStatus \cup {"deleted"}]
        /\ deactivated' \in [Staff -> BOOLEAN]
    BY <1>0, <1>3 DEF Accounts!CommitActivate, Accounts!CommitDeactivate,
       Accounts!CommitRole, Accounts!CommitDelete, Accounts!UserStatus
  <2>4. role' \in [Staff -> Accounts!UserRole]
    BY <1>0, <1>3, AccountsRequests DEF Accounts!CommitActivate, Accounts!CommitDeactivate,
       Accounts!CommitRole, Accounts!CommitDelete, Accounts!Ready
  <2> QED
    BY <1>0, <2>1, <2>2, <2>3, <2>4 DEF Accounts!TypeOK
<1>4. ASSUME NEW p \in Procs, Accounts!Crash(p) PROVE Accounts!TypeOK'
  <2>1. accountsTx' \in [Procs -> Accounts!Requests \cup {Accounts!Idle}]
    BY <1>4, AccountsTxTyped DEF Accounts!Crash, Accounts!Go
  <2> QED
    BY <1>0, <1>4, <2>1 DEF Accounts!TypeOK, Accounts!rows, Accounts!Crash, Accounts!Go
<1>5. CASE Accounts!PlaceOrder
  BY <1>0, <1>5 DEF Accounts!PlaceOrder, Accounts!TypeOK
<1>6. CASE UNCHANGED Accounts!vars
  BY <1>6 DEF Accounts!TypeOK, Accounts!vars, Accounts!rows
<1> QED
  BY <1>1, <1>2, <1>3, <1>4, <1>5, <1>6 DEF Accounts!Next, Accounts!Step

\* Until two requests have overlapped, whoever takes a step is alone.
LEMMA AccountsAlone ==
    ASSUME Accounts!TypeOK, Accounts!OneByOne, NEW p \in Procs, Accounts!Step(p),
           ~accountsOverlapped'
    PROVE  /\ ~accountsOverlapped
           /\ \A q \in Procs : q # p => /\ accountsTx[q] = Accounts!Idle
                                        /\ accountsTx'[q] = Accounts!Idle
<1>1. CASE Accounts!Authenticate(p)
  <2>1. PICK u \in Staff, op \in Accounts!Operations :
            /\ accountsTx' = [accountsTx EXCEPT ![p] =
                   [at |-> "target", op |-> op, actor |-> u, as |-> role[u]]]
            /\ accountsOverlapped' = (accountsOverlapped
                 \/ \E q \in Procs : accountsTx[q] # Accounts!Idle)
    BY <1>1 DEF Accounts!Authenticate
  <2> QED
    BY <2>1 DEF Accounts!TypeOK
<1>2. CASE ~Accounts!Authenticate(p)
  <2>1. /\ accountsTx[p] # Accounts!Idle
        /\ accountsOverlapped' = accountsOverlapped
        /\ \A q \in Procs : q # p => accountsTx'[q] = accountsTx[q]
    <3>1. ASSUME NEW r, Accounts!Go(p, r)
          PROVE  /\ accountsOverlapped' = accountsOverlapped
                 /\ \A q \in Procs : q # p => accountsTx'[q] = accountsTx[q]
      BY <3>1 DEF Accounts!Go, Accounts!TypeOK
    <3>2. CASE Accounts!LoadTarget(p)
      BY <3>1, <3>2 DEF Accounts!LoadTarget, Accounts!Idle
    <3>3. CASE Accounts!Crash(p)
      BY <3>1, <3>3 DEF Accounts!Crash
    <3>4. CASE \/ Accounts!CommitActivate(p) \/ Accounts!CommitDeactivate(p)
               \/ Accounts!CommitRole(p) \/ Accounts!CommitDelete(p)
      <4>1. accountsTx[p].at = "commit" /\ Accounts!End(p)
        BY <3>4 DEF Accounts!CommitActivate, Accounts!CommitDeactivate,
                    Accounts!CommitRole, Accounts!CommitDelete, Accounts!Ready
      <4> QED
        BY <4>1 DEF Accounts!End, Accounts!TypeOK, Accounts!Idle
    <3> QED
      BY <1>2, <3>2, <3>3, <3>4 DEF Accounts!Step
  <2> QED
    BY <2>1 DEF Accounts!OneByOne
<1> QED
  BY <1>1, <1>2

\* A request that is refused, and what a request alone plans, leaves another
\* active admin in place: an owner manages customers, and nobody himself.
LEMMA AnAdminIsLeft ==
    ASSUME Accounts!TypeOK, Accounts!ActiveAdmins # {},
           NEW p \in Procs, accountsTx[p].at = "target",
           Accounts!ActorHolds(accountsTx[p]),
           NEW u \in Staff, Accounts!CanManage(accountsTx[p], u)
    PROVE  Accounts!ActiveAdmins \ {u} # {}
<1> DEFINE r == accountsTx[p]
<1>0. r.actor \in Staff /\ r.op \in Accounts!Operations /\ r.actor # u
  BY AccountsRequests DEF Accounts!CanManage
<1>1. CASE r.as = "admin"
  BY <1>0, <1>1 DEF Accounts!ActorHolds, Accounts!ActiveAdmins
<1>2. CASE r.as = "owner"
  <2>1. role[u] = "customer"
    BY <1>0, <1>2 DEF Accounts!ActorHolds, Accounts!Allowed, Accounts!CanManage,
                      Accounts!Operations
  <2> QED
    BY <2>1 DEF Accounts!ActiveAdmins
<1> QED
  BY <1>1, <1>2 DEF Accounts!ActorHolds, Accounts!Allowed

\* What an authorised request means to write leaves an active admin.
LEMMA PlansHold ==
    ASSUME Accounts!TypeOK, Accounts!ActiveAdmins # {},
           NEW p \in Procs, accountsTx[p].at = "target",
           Accounts!ActorHolds(accountsTx[p]),
           NEW u \in Staff, Accounts!CanManage(accountsTx[p], u),
           NEW plan \in Accounts!Plan(accountsTx[p], u)
    PROVE  Accounts!PlanHolds(plan)
<1> DEFINE op == accountsTx[p].op
<1>0. plan.op = op /\ plan.target = u
  BY PlansAreRequests
<1>1. Accounts!ActiveAdmins \ {plan.target} # {}
  BY <1>0, AnAdminIsLeft
<1>2. ASSUME op \in {"activate", "deactivate"}
      PROVE  /\ plan.dated = deactivated[u]
             /\ plan.changes = ((status[u] = "active") # (op = "activate"))
  BY <1>2 DEF Accounts!Plan
<1>3. op = "activate" => /\ plan.changes <=> status[u] # "active"
                         /\ plan.dated <=> deactivated[u]
  BY <1>2
<1>4. op = "deactivate" => (plan.changes <=> status[u] = "active")
  BY <1>2
<1>5. op = "delete" => status[u] = "inactive"
  BY DEF Accounts!CanManage
<1> QED
  BY <1>0, <1>1, <1>3, <1>4, <1>5 DEF Accounts!PlanHolds

\* Restated for what a step leaves of the requests.
LEMMA AccountsOneByOne ==
    ASSUME Accounts!TypeOK, NEW p \in Procs,
           \A q \in Procs : q # p => accountsTx'[q] = Accounts!Idle,
           \/ accountsTx'[p] = Accounts!Idle
           \/ accountsTx'[p].at = "target" /\ Accounts!ActorHolds(accountsTx[p])'
           \/ accountsTx'[p].at = "commit" /\ Accounts!PlanHolds(accountsTx[p])'
    PROVE  Accounts!OneByOne'
<1>1. ASSUME NEW q \in Procs
      PROVE  /\ accountsTx'[q].at = "target" => Accounts!ActorHolds(accountsTx[q])'
             /\ accountsTx'[q].at = "commit" => Accounts!PlanHolds(accountsTx[q])'
  <2>1. CASE q = p
    <3>1. CASE accountsTx'[p] = Accounts!Idle
      BY <2>1, <3>1 DEF Accounts!Idle
    <3>2. CASE accountsTx'[p].at = "target" /\ Accounts!ActorHolds(accountsTx[p])'
      BY <2>1, <3>2
    <3>3. CASE accountsTx'[p].at = "commit" /\ Accounts!PlanHolds(accountsTx[p])'
      BY <2>1, <3>3
    <3> QED
      BY <3>1, <3>2, <3>3
  <2>2. CASE q # p
    BY <2>2 DEF Accounts!Idle
  <2> QED
    BY <2>1, <2>2
<1>2. \A q, r \in Procs : accountsTx'[q] # Accounts!Idle /\ accountsTx'[r] # Accounts!Idle
        => q = r
  OBVIOUS
<1> QED
  BY <1>1, <1>2 DEF Accounts!OneByOne

\* Every step keeps the invariant of the accounts.
LEMMA AccountsSafe ==
    Accounts!IndInv /\ [Accounts!Next]_(Accounts!vars) => Accounts!IndInv'
<1> SUFFICES ASSUME Accounts!IndInv, [Accounts!Next]_(Accounts!vars)
             PROVE  Accounts!IndInv'
  OBVIOUS
<1> USE DEF Accounts!IndInv
<1>0. /\ role \in [Staff -> Accounts!UserRole]
      /\ status \in [Staff -> Accounts!UserStatus \cup {"deleted"}]
      /\ deactivated \in [Staff -> BOOLEAN]
      /\ ordered \subseteq Staff
      /\ accountsTx \in [Procs -> Accounts!Requests \cup {Accounts!Idle}]
  BY DEF Accounts!TypeOK
<1>1. Accounts!TypeOK'
  BY AccountsTyped
<1>2. ASSUME NEW p \in Procs, Accounts!Authenticate(p)
      PROVE  Accounts!IndInv'
  <2>1. PICK u \in Staff, op \in Accounts!Operations :
            /\ status[u] = "active" /\ role[u] \in Accounts!Allowed(op)
            /\ accountsTx' = [accountsTx EXCEPT ![p] =
                   [at |-> "target", op |-> op, actor |-> u, as |-> role[u]]]
            /\ accountsOverlapped' = (accountsOverlapped
                 \/ \E q \in Procs : accountsTx[q] # Accounts!Idle)
            /\ UNCHANGED <<role, status, deactivated, ordered>>
    BY <1>2 DEF Accounts!Authenticate, Accounts!rows
  <2>2. Accounts!OrdersKeepTheirCustomer'
    BY <2>1 DEF Accounts!OrdersKeepTheirCustomer, Accounts!Present
  <2>3. Accounts!AnAdminRemains' /\ Accounts!DateFollowsStatus'
    BY <2>1 DEF Accounts!AnAdminRemains, Accounts!DateFollowsStatus, Accounts!ActiveAdmins,
                Accounts!Present
  <2>4. ASSUME ~accountsOverlapped' PROVE Accounts!OneByOne'
    <3>1. \A q \in Procs : q # p => accountsTx'[q] = Accounts!Idle
      BY <1>2, <2>4, AccountsAlone DEF Accounts!Step
    <3>2. accountsTx'[p] = [at |-> "target", op |-> op, actor |-> u, as |-> role[u]]
      BY <1>0, <2>1
    <3>3. accountsTx'[p].at = "target" /\ Accounts!ActorHolds(accountsTx[p])'
      BY <2>1, <3>2 DEF Accounts!ActorHolds
    <3> QED
      BY <3>1, <3>3, AccountsOneByOne
  <2>5. Accounts!OneByOne'
    BY <2>4 DEF Accounts!OneByOne
  <2> QED
    BY <1>1, <2>2, <2>3, <2>5
<1>3. ASSUME NEW p \in Procs, Accounts!LoadTarget(p) \/ Accounts!Crash(p)
      PROVE  Accounts!IndInv'
  <2>1. UNCHANGED <<role, status, deactivated, ordered, accountsOverlapped>>
    BY <1>3 DEF Accounts!LoadTarget, Accounts!Crash, Accounts!Go, Accounts!rows
  <2>2. /\ Accounts!OrdersKeepTheirCustomer'
        /\ Accounts!AnAdminRemains' /\ Accounts!DateFollowsStatus'
    BY <2>1 DEF Accounts!OrdersKeepTheirCustomer, Accounts!Present, Accounts!AnAdminRemains,
                Accounts!DateFollowsStatus, Accounts!ActiveAdmins
  <2>3. ASSUME ~accountsOverlapped' PROVE Accounts!OneByOne'
    <3>1. \A q \in Procs : q # p => accountsTx'[q] = Accounts!Idle
      BY <1>3, <2>3, AccountsAlone DEF Accounts!Step
    <3>2. CASE Accounts!Go(p, Accounts!Idle)
      <4>1. accountsTx'[p] = Accounts!Idle
        BY <1>0, <3>2 DEF Accounts!Go
      <4> QED
        BY <3>1, <4>1, AccountsOneByOne
    <3>3. CASE ~Accounts!Go(p, Accounts!Idle)
      <4>0. PICK u \in Staff :
                /\ accountsTx[p].at = "target"
                /\ Accounts!CanManage(accountsTx[p], u)
                /\ \E plan \in Accounts!Plan(accountsTx[p], u) : Accounts!Go(p, plan)
        BY <1>3, <3>3 DEF Accounts!LoadTarget, Accounts!Crash
      <4>1. PICK plan \in Accounts!Plan(accountsTx[p], u) : Accounts!Go(p, plan)
        BY <4>0
      <4>2. /\ Accounts!ActiveAdmins # {}
            /\ Accounts!ActorHolds(accountsTx[p])
        BY <2>1, <2>3, <4>0 DEF Accounts!AnAdminRemains, Accounts!OneByOne
      <4>3. Accounts!PlanHolds(plan) /\ plan.at = "commit"
        BY <4>0, <4>1, <4>2, PlansHold, PlansAreRequests
      <4>4. accountsTx'[p] = plan
        BY <1>0, <4>1 DEF Accounts!Go
      <4>5. accountsTx'[p].at = "commit" /\ Accounts!PlanHolds(accountsTx[p])'
        BY <2>1, <4>3, <4>4 DEF Accounts!PlanHolds, Accounts!ActiveAdmins
      <4> QED
        BY <3>1, <4>5, AccountsOneByOne
    <3> QED
      BY <3>2, <3>3
  <2>4. Accounts!OneByOne'
    BY <2>3 DEF Accounts!OneByOne
  <2> QED
    BY <1>1, <2>2, <2>4
<1>4. ASSUME NEW p \in Procs, Accounts!Step(p), accountsTx[p].at = "commit",
             UNCHANGED ordered, Accounts!End(p),
             \A u \in ordered : status[u] # "deleted" => status'[u] # "deleted",
             ~accountsOverlapped /\ Accounts!PlanHolds(accountsTx[p])
               => Accounts!AnAdminRemains' /\ Accounts!DateFollowsStatus'
      PROVE  Accounts!IndInv'
  <2>1. Accounts!OrdersKeepTheirCustomer'
    BY <1>4 DEF Accounts!OrdersKeepTheirCustomer, Accounts!Present
  <2>2. UNCHANGED accountsOverlapped /\ accountsTx'[p] = Accounts!Idle
    BY <1>0, <1>4 DEF Accounts!End
  <2>3. Accounts!AnAdminRemains' /\ Accounts!DateFollowsStatus'
    BY <1>4, <2>2 DEF Accounts!OneByOne, Accounts!AnAdminRemains,
                      Accounts!DateFollowsStatus
  <2>4. ASSUME ~accountsOverlapped' PROVE Accounts!OneByOne'
    BY <1>4, <2>2, <2>4, AccountsAlone, AccountsOneByOne
  <2>5. Accounts!OneByOne'
    BY <2>4 DEF Accounts!OneByOne
  <2> QED
    BY <1>1, <2>1, <2>3, <2>5
<1>5. ASSUME NEW p \in Procs, Accounts!CommitActivate(p) PROVE Accounts!IndInv'
  <2> DEFINE u == accountsTx[p].target
  <2>1. /\ accountsTx[p].at = "commit" /\ accountsTx[p].op = "activate" /\ u \in Staff
        /\ Accounts!End(p) /\ UNCHANGED <<role, ordered>>
    BY <1>5, AccountsRequests DEF Accounts!CommitActivate, Accounts!Ready
  <2>2. \A v \in Staff : status[v] # "deleted" => status'[v] # "deleted"
    BY <1>0, <1>5 DEF Accounts!CommitActivate
  <2>3. ASSUME ~accountsOverlapped, Accounts!PlanHolds(accountsTx[p])
        PROVE  Accounts!AnAdminRemains' /\ Accounts!DateFollowsStatus'
    <3>1. /\ accountsTx[p].changes <=> status[u] # "active"
          /\ accountsTx[p].dated <=> deactivated[u]
      BY <2>1, <2>3 DEF Accounts!PlanHolds
    <3>2. \A v \in Staff : v # u => status'[v] = status[v] /\ deactivated'[v] = deactivated[v]
      BY <1>0, <1>5 DEF Accounts!CommitActivate
    <3>3. CASE Accounts!Present(u)
      <4>1. status'[u] = "active"
        BY <1>0, <1>5, <2>1, <3>1, <3>3 DEF Accounts!CommitActivate
      <4>2. ~deactivated'[u]
        BY <1>0, <1>5, <2>1, <3>1, <3>3 DEF Accounts!CommitActivate, Accounts!Cleared
      <4> QED
        BY <2>1, <2>3, <3>2, <4>1, <4>2 DEF Accounts!PlanHolds, Accounts!ActiveAdmins,
           Accounts!AnAdminRemains, Accounts!DateFollowsStatus, Accounts!Present
    <3>4. CASE ~Accounts!Present(u)
      BY <1>5, <2>1, <2>3, <3>4 DEF Accounts!CommitActivate, Accounts!ActiveAdmins,
         Accounts!AnAdminRemains, Accounts!DateFollowsStatus, Accounts!Present
    <3> QED
      BY <3>3, <3>4
  <2> QED
    BY <1>0, <1>4, <1>5, <2>1, <2>2, <2>3 DEF Accounts!Step
<1>6. ASSUME NEW p \in Procs, Accounts!CommitDeactivate(p) PROVE Accounts!IndInv'
  <2> DEFINE u == accountsTx[p].target
  <2>1. /\ accountsTx[p].at = "commit" /\ accountsTx[p].op = "deactivate" /\ u \in Staff
        /\ Accounts!End(p) /\ UNCHANGED <<role, ordered>>
    BY <1>6, AccountsRequests DEF Accounts!CommitDeactivate, Accounts!Ready
  <2>2. \A v \in Staff : status[v] # "deleted" => status'[v] # "deleted"
    BY <1>0, <1>6 DEF Accounts!CommitDeactivate
  <2>3. ASSUME ~accountsOverlapped, Accounts!PlanHolds(accountsTx[p])
        PROVE  Accounts!AnAdminRemains' /\ Accounts!DateFollowsStatus'
    <3>1. accountsTx[p].changes <=> status[u] = "active"
      BY <2>1, <2>3 DEF Accounts!PlanHolds
    <3>2. \A v \in Staff : v # u => status'[v] = status[v] /\ deactivated'[v] = deactivated[v]
      BY <1>0, <1>6 DEF Accounts!CommitDeactivate
    <3>3. CASE Accounts!Present(u)
      <4>1. status'[u] = "inactive"
        BY <1>0, <1>6, <2>1, <3>1, <3>3 DEF Accounts!CommitDeactivate, Accounts!UserStatus,
                                            Accounts!Present
      <4>2. deactivated'[u]
        BY <1>0, <1>6, <2>1, <3>3 DEF Accounts!CommitDeactivate
      <4> QED
        BY <2>1, <2>3, <3>2, <4>1, <4>2 DEF Accounts!PlanHolds, Accounts!ActiveAdmins,
           Accounts!AnAdminRemains, Accounts!DateFollowsStatus, Accounts!Present
    <3>4. CASE ~Accounts!Present(u)
      BY <1>6, <2>1, <2>3, <3>4 DEF Accounts!CommitDeactivate, Accounts!ActiveAdmins,
         Accounts!AnAdminRemains, Accounts!DateFollowsStatus, Accounts!Present
    <3> QED
      BY <3>3, <3>4
  <2> QED
    BY <1>0, <1>4, <1>6, <2>1, <2>2, <2>3 DEF Accounts!Step
<1>7. ASSUME NEW p \in Procs, Accounts!CommitRole(p) PROVE Accounts!IndInv'
  <2> DEFINE u == accountsTx[p].target
  <2>1. /\ accountsTx[p].at = "commit" /\ u \in Staff
        /\ Accounts!End(p) /\ UNCHANGED <<status, deactivated, ordered>>
    BY <1>7, AccountsRequests DEF Accounts!CommitRole, Accounts!Ready
  <2>2. \A v \in Staff : v # u => role'[v] = role[v]
    BY <1>0, <1>7 DEF Accounts!CommitRole
  <2>3. ASSUME ~accountsOverlapped, Accounts!PlanHolds(accountsTx[p])
        PROVE  Accounts!AnAdminRemains' /\ Accounts!DateFollowsStatus'
    BY <2>1, <2>2, <2>3 DEF Accounts!PlanHolds, Accounts!ActiveAdmins,
       Accounts!AnAdminRemains, Accounts!DateFollowsStatus, Accounts!Present
  <2> QED
    BY <1>0, <1>4, <1>7, <2>1, <2>3 DEF Accounts!Step
<1>8. ASSUME NEW p \in Procs, Accounts!CommitDelete(p) PROVE Accounts!IndInv'
  <2> DEFINE u == accountsTx[p].target
  <2>1. /\ accountsTx[p].at = "commit" /\ u \in Staff
        /\ Accounts!End(p) /\ UNCHANGED <<role, deactivated, ordered>>
    BY <1>8, AccountsRequests DEF Accounts!CommitDelete, Accounts!Ready
  <2>2. /\ \A v \in Staff : v # u => status'[v] = status[v]
        /\ status'[u] \in {status[u], "deleted"}
        /\ u \in ordered => status'[u] = status[u]
    BY <1>0, <1>8, <2>1 DEF Accounts!CommitDelete, Accounts!Restricted
  <2>3. ASSUME ~accountsOverlapped, Accounts!PlanHolds(accountsTx[p])
        PROVE  Accounts!AnAdminRemains' /\ Accounts!DateFollowsStatus'
    BY <2>1, <2>2, <2>3 DEF Accounts!PlanHolds, Accounts!ActiveAdmins,
       Accounts!AnAdminRemains, Accounts!DateFollowsStatus, Accounts!Present
  <2> QED
    BY <1>0, <1>4, <1>8, <2>1, <2>2, <2>3 DEF Accounts!Step
<1>9. CASE Accounts!PlaceOrder
  <2>1. /\ UNCHANGED <<role, status, deactivated, accountsTx, accountsOverlapped>>
        /\ \E u \in Staff : Accounts!Present(u) /\ ordered' = ordered \cup {u}
    BY <1>9 DEF Accounts!PlaceOrder
  <2>2. Accounts!OrdersKeepTheirCustomer'
    BY <2>1 DEF Accounts!OrdersKeepTheirCustomer, Accounts!Present
  <2>3. Accounts!AnAdminRemains' /\ Accounts!DateFollowsStatus' /\ Accounts!OneByOne'
    BY <2>1 DEF Accounts!AnAdminRemains, Accounts!DateFollowsStatus, Accounts!OneByOne,
       Accounts!ActiveAdmins, Accounts!Present, Accounts!ActorHolds, Accounts!PlanHolds
  <2> QED
    BY <1>1, <2>2, <2>3
<1>10. CASE UNCHANGED Accounts!vars
  <2>1. UNCHANGED <<role, status, deactivated, ordered, accountsTx, accountsOverlapped>>
    BY <1>10 DEF Accounts!vars, Accounts!rows
  <2> QED
    BY <1>1, <2>1 DEF Accounts!AnAdminRemains, Accounts!DateFollowsStatus,
       Accounts!OneByOne, Accounts!ActiveAdmins, Accounts!Present, Accounts!ActorHolds,
       Accounts!PlanHolds, Accounts!OrdersKeepTheirCustomer
<1> QED
  BY <1>2, <1>3, <1>5, <1>6, <1>7, <1>8, <1>9, <1>10 DEF Accounts!Next, Accounts!Step

\* The accounts are consistent, and until two requests have overlapped each
\* decides by roles and statuses that are still true when it commits
\* (owner_user_service.py).
THEOREM AccountsAreConsistent == Accounts!Spec => []Accounts!IndInv
<1>1. Accounts!Init => Accounts!IndInv
  <2> SUFFICES ASSUME Accounts!Init PROVE Accounts!IndInv
    OBVIOUS
  <2>1. Accounts!TypeOK
    BY DEF Accounts!Init, Accounts!TypeOK, Accounts!UserRole, Accounts!UserStatus
  <2>2. Accounts!AnAdminRemains
    BY AdminAssumption DEF Accounts!Init, Accounts!AnAdminRemains, Accounts!ActiveAdmins,
                           Accounts!AdminAssumption
  <2>3. Accounts!OrdersKeepTheirCustomer /\ Accounts!DateFollowsStatus
    BY DEF Accounts!Init, Accounts!OrdersKeepTheirCustomer, Accounts!DateFollowsStatus
  <2>4. Accounts!OneByOne
    BY DEF Accounts!Init, Accounts!OneByOne, Accounts!Idle
  <2> QED
    BY <2>1, <2>2, <2>3, <2>4 DEF Accounts!IndInv
<1> QED
  BY <1>1, AccountsSafe, PTL DEF Accounts!Spec

\* Only inactive users are deleted, unless requests have overlapped: the status
\* a deletion checked is still the one it deletes (delete_user).
THEOREM OnlyOverlapsDeleteActive == Accounts!Spec => Accounts!OnlyRacesDeleteActive
<1> DEFINE DeletesActive ==
        \E u \in Staff : status[u] = "active" /\ status'[u] = "deleted"
<1>1. ASSUME Accounts!IndInv, Accounts!Next, NEW u \in Staff,
             status[u] = "active", status'[u] = "deleted"
      PROVE  accountsOverlapped
  <2>1. Accounts!TypeOK
    BY <1>1 DEF Accounts!IndInv
  <2>2. status \in [Staff -> Accounts!UserStatus \cup {"deleted"}]
    BY <2>1 DEF Accounts!TypeOK
  <2>3. PICK p \in Procs : Accounts!Step(p)
    BY <1>1 DEF Accounts!Next, Accounts!PlaceOrder
  <2>4. Accounts!CommitDelete(p)
    <3>1. CASE \/ Accounts!Authenticate(p) \/ Accounts!LoadTarget(p)
               \/ Accounts!CommitRole(p) \/ Accounts!Crash(p)
      BY <1>1, <3>1 DEF Accounts!Authenticate, Accounts!LoadTarget, Accounts!CommitRole,
                        Accounts!Crash, Accounts!Go, Accounts!rows
    <3>2. CASE Accounts!CommitActivate(p) \/ Accounts!CommitDeactivate(p)
      BY <1>1, <2>2, <3>2 DEF Accounts!CommitActivate, Accounts!CommitDeactivate
    <3> QED
      BY <2>3, <3>1, <3>2 DEF Accounts!Step
  <2>5. accountsTx[p].target = u
    BY <1>1, <2>2, <2>4 DEF Accounts!CommitDelete
  <2> QED
    BY <1>1, <2>4, <2>5 DEF Accounts!IndInv, Accounts!OneByOne, Accounts!PlanHolds,
                            Accounts!CommitDelete, Accounts!Ready
<1>2. Accounts!IndInv /\ [Accounts!Next]_(Accounts!vars)
        => [DeletesActive => accountsOverlapped]_(Accounts!vars)
  BY <1>1
<1> QED
  BY <1>2, AccountsAreConsistent, PTL DEF Accounts!Spec, Accounts!OnlyRacesDeleteActive
-----------------------------------------------------------------------------
(***************************************************************************)
(* Signing in.                                                             *)
(***************************************************************************)
\* What a process may be handling, by its stage.
LEMMA SignInRequests ==
    ASSUME SignIn!TypeOK, NEW p \in Procs, NEW r, r = signInTx[p]
    PROVE  /\ r \in SignIn!Requests \cup {SignIn!Idle}
           /\ r.at \in {"fresh", "cooldown", "mail", "get"} => r.code \in Codes \cup {None}
           /\ r.at \in {"ttl", "set"} => r.payload \in SignIn!Payload
           /\ r.at = "use" => r.code \in Codes
           /\ r.at = "sign_in" => r.user \in EmailUsers \cup {None}
           /\ r.at \in {"touch", "revoke"} => r.session \in Sessions
<1>1. r \in SignIn!Requests \cup {SignIn!Idle}
  BY DEF SignIn!TypeOK
<1> QED
  BY <1>1 DEF SignIn!Requests, SignIn!Idle

\* A code on its way to the customer is one, a code that is entered was mailed.
MailFacts(r) ==
    /\ r.at \in {"cooldown", "mail"} => r.code \in Codes
    /\ r.at = "get" => r.code \in mailed \cup {None}
    /\ r.at = "use" => r.code \in mailed

\* Every step of a request is a Begin or a Go of its process.
LEMMA SignInSteps ==
    ASSUME SignIn!TypeOK, NEW p \in Procs, SignIn!Step(p)
    PROVE  \E r : \/ SignIn!Begin(p, r)
                  \/ signInTx[p] # SignIn!Idle /\ SignIn!Go(p, r)
<1>1. ASSUME NEW step, SignIn!At(p, step), step # "idle"
      PROVE  signInTx[p] # SignIn!Idle
  BY <1>1 DEF SignIn!At, SignIn!Idle
<1>2. CASE SignIn!AskCode(p) \/ SignIn!EnterCode(p) \/ SignIn!BeginRefresh(p)
           \/ SignIn!BeginLogout(p)
  BY <1>2 DEF SignIn!AskCode, SignIn!EnterCode, SignIn!BeginRefresh, SignIn!BeginLogout
<1>3. CASE SignIn!SetCode(p) \/ SignIn!SetCooldown(p) \/ SignIn!SendMail(p)
  BY <1>1, <1>3 DEF SignIn!SetCode, SignIn!SetCooldown, SignIn!SendMail, SignIn!End
<1>4. CASE SignIn!GetCode(p) \/ SignIn!DropCode(p)
  BY <1>1, <1>4 DEF SignIn!GetCode, SignIn!DropCode, SignIn!End
<1>5. CASE SignIn!ReadTtl(p) \/ SignIn!CountAttempt(p) \/ SignIn!UseCode(p)
  BY <1>1, <1>5 DEF SignIn!ReadTtl, SignIn!CountAttempt, SignIn!UseCode, SignIn!End
<1>6. CASE SignIn!FindUser(p) \/ SignIn!CommitSignIn(p)
  BY <1>1, <1>6 DEF SignIn!FindUser, SignIn!CommitSignIn, SignIn!End
<1>7. CASE SignIn!CommitRefresh(p) \/ SignIn!CommitLogout(p) \/ SignIn!Crash(p)
  BY <1>1, <1>7 DEF SignIn!CommitRefresh, SignIn!CommitLogout, SignIn!Crash, SignIn!End
<1> QED
  BY <1>2, <1>3, <1>4, <1>5, <1>6, <1>7 DEF SignIn!Step

\* Until two requests have overlapped, whoever takes a step is alone.
LEMMA SignInAlone ==
    ASSUME SignIn!TypeOK, SignIn!OneByOne, NEW p \in Procs, SignIn!Step(p),
           ~signInOverlapped'
    PROVE  /\ ~signInOverlapped
           /\ \A q \in Procs : q # p => signInTx'[q] = SignIn!Idle
<1>1. PICK r : \/ SignIn!Begin(p, r)
               \/ signInTx[p] # SignIn!Idle /\ SignIn!Go(p, r)
  BY SignInSteps
<1>2. \A q \in Procs : q # p => signInTx'[q] = signInTx[q]
  BY <1>1 DEF SignIn!Begin, SignIn!Go, SignIn!TypeOK
<1>3. CASE SignIn!Begin(p, r)
  BY <1>2, <1>3 DEF SignIn!Begin
<1>4. CASE signInTx[p] # SignIn!Idle /\ SignIn!Go(p, r)
  BY <1>2, <1>4 DEF SignIn!Go, SignIn!OneByOne
<1> QED
  BY <1>1, <1>3, <1>4

\* The requests in flight stay requests, and keep what CodesWereMailed says.
LEMMA SignInRequestsStay ==
    ASSUME SignIn!TypeOK, NEW p \in Procs,
           NEW r \in SignIn!Requests \cup {SignIn!Idle}, MailFacts(r)',
           SignIn!CodesWereMailed, mailed \subseteq mailed',
           SignIn!Go(p, r) \/ SignIn!Begin(p, r)
    PROVE  /\ signInTx' \in [Procs -> SignIn!Requests \cup {SignIn!Idle}]
           /\ signInTx'[p] = r
           /\ signInOverlapped' \in BOOLEAN
           /\ SignIn!CodesWereMailed'
<1>1. signInTx' = [signInTx EXCEPT ![p] = r]
  BY DEF SignIn!Go, SignIn!Begin
<1>2. /\ signInTx' \in [Procs -> SignIn!Requests \cup {SignIn!Idle}]
      /\ signInTx'[p] = r
      /\ \A q \in Procs : q # p => signInTx'[q] = signInTx[q]
  BY <1>1 DEF SignIn!TypeOK
<1>3. signInOverlapped' \in BOOLEAN
  BY DEF SignIn!Go, SignIn!Begin, SignIn!TypeOK
<1>4. ASSUME NEW q \in Procs PROVE MailFacts(signInTx[q])'
  <2>1. CASE q = p
    BY <1>2, <2>1 DEF MailFacts
  <2>2. CASE q # p
    BY <1>2, <2>2 DEF MailFacts, SignIn!CodesWereMailed, SignIn!At
  <2> QED
    BY <2>1, <2>2
<1>5. SignIn!CodesWereMailed'
  BY <1>4 DEF MailFacts, SignIn!CodesWereMailed, SignIn!At
<1> QED
  BY <1>2, <1>3, <1>5

\* The tables of PostgreSQL, and the keys of Redis, are well-formed.
DatabaseOK ==
    /\ account \in EmailUsers \cup {None}
    /\ gone \subseteq EmailUsers
    /\ sessions \in [Sessions -> [state : SignIn!NoSession] \cup SignIn!SessionRow]
    /\ SignIn!SessionsHaveUser

RedisOK ==
    /\ otp \in SignIn!Payload \cup {None}
    /\ cooldown \in BOOLEAN
    /\ mailed \subseteq Codes
    /\ tries \in Nat
    /\ spent \subseteq mailed

\* What OneByOne says of the only request.
CountedBy(r) ==
    /\ tries <= MaxAttempts
    /\ otp # None => tries <= otp.attempts /\ otp.code \notin spent
    /\ r.at = "use" => tries < MaxAttempts
    /\ r.at \in {"ttl", "set"} =>
          tries < r.payload.attempts /\ r.payload.code \notin spent

\* A step keeps the invariant if it leaves these, for what it turns the request
\* into.
LEMMA SignInStepIsSafe ==
    ASSUME SignIn!IndInv, NEW p \in Procs, SignIn!Step(p),
           NEW r \in SignIn!Requests \cup {SignIn!Idle},
           SignIn!Go(p, r) \/ SignIn!Begin(p, r), MailFacts(r)',
           mailed \subseteq mailed', DatabaseOK', RedisOK',
           ~signInOverlapped => CountedBy(r)'
    PROVE  SignIn!IndInv'
<1>0. SignIn!TypeOK /\ SignIn!CodesWereMailed /\ SignIn!OneByOne
  BY DEF SignIn!IndInv
<1>1. /\ signInTx' \in [Procs -> SignIn!Requests \cup {SignIn!Idle}]
      /\ signInTx'[p] = r
      /\ signInOverlapped' \in BOOLEAN
      /\ SignIn!CodesWereMailed'
  BY <1>0, SignInRequestsStay
<1>2. SignIn!TypeOK' /\ SignIn!SessionsHaveUser'
  BY <1>1 DEF SignIn!TypeOK, DatabaseOK, RedisOK
<1>3. ASSUME ~signInOverlapped' PROVE SignIn!OneByOne'
  <2>1. ~signInOverlapped /\ \A q \in Procs : q # p => signInTx'[q] = SignIn!Idle
    BY <1>0, <1>3, SignInAlone
  <2>2. CountedBy(r)'
    BY <2>1
  <2>3. ASSUME NEW q \in Procs
        PROVE  CountedBy(signInTx[q])'
    <3>1. CASE q = p
      BY <1>1, <2>2, <3>1 DEF CountedBy
    <3>2. CASE q # p
      BY <2>1, <2>2, <3>2 DEF CountedBy, SignIn!Idle
    <3> QED
      BY <3>1, <3>2
  <2>4. \A q \in Procs :
           /\ signInTx'[q].at = "use" => tries' < MaxAttempts
           /\ signInTx'[q].at \in {"ttl", "set"} =>
                tries' < signInTx'[q].payload.attempts /\ signInTx'[q].payload.code \notin spent'
    BY <2>3 DEF CountedBy
  <2>5. /\ tries' <= MaxAttempts
        /\ otp' # None => tries' <= otp'.attempts /\ otp'.code \notin spent'
    BY <2>2 DEF CountedBy
  <2> QED
    BY <2>1, <2>4, <2>5 DEF SignIn!OneByOne, SignIn!At
<1>4. SignIn!OneByOne'
  BY <1>3 DEF SignIn!OneByOne
<1> QED
  BY <1>1, <1>2, <1>4 DEF SignIn!IndInv

\* Nothing of the database changes, or nothing of Redis.
LEMMA DatabaseStays ==
    ASSUME SignIn!IndInv, UNCHANGED <<account, gone, sessions>> PROVE DatabaseOK'
BY DEF SignIn!IndInv, SignIn!TypeOK, DatabaseOK, SignIn!SessionsHaveUser, SignIn!Present

\* Nothing in Redis changes.
LEMMA RedisStays ==
    ASSUME SignIn!IndInv, UNCHANGED <<otp, cooldown, mailed, tries, spent>> PROVE RedisOK'
BY DEF SignIn!IndInv, SignIn!TypeOK, RedisOK

\* Nothing a count of attempts depends on changes.
LEMMA CountStays ==
    ASSUME SignIn!IndInv, NEW r, r.at \notin {"use", "ttl", "set"},
           UNCHANGED <<otp, tries, spent>>
    PROVE  ~signInOverlapped => CountedBy(r)'
BY DEF SignIn!IndInv, SignIn!OneByOne, CountedBy

\* The customer asks for a code.
LEMMA AskingIsSafe ==
    ASSUME SignIn!IndInv, NEW p \in Procs,
           \/ SignIn!AskCode(p) \/ SignIn!SetCode(p)
           \/ SignIn!SetCooldown(p) \/ SignIn!SendMail(p)
    PROVE  SignIn!IndInv'
<1>0. SignIn!TypeOK /\ SignIn!CodesWereMailed /\ SignIn!OneByOne /\ SignIn!Step(p)
  BY DEF SignIn!IndInv, SignIn!Step
<1>1. /\ otp \in SignIn!Payload \cup {None} /\ cooldown \in BOOLEAN
      /\ mailed \subseteq Codes /\ tries \in Nat /\ spent \subseteq mailed
  BY <1>0 DEF SignIn!TypeOK
<1>2. MaxAttempts \in Nat /\ MaxAttempts >= 1
  BY SignInAssumption DEF SignIn!SignInAssumption
<1>3. CASE SignIn!AskCode(p)
  <2> DEFINE r == [at |-> "fresh", code |-> None]
  <2>1. /\ SignIn!Begin(p, r)
        /\ UNCHANGED <<otp, cooldown, mailed, account, gone, sessions, tries, spent>>
    BY <1>3 DEF SignIn!AskCode, SignIn!redis, SignIn!database, SignIn!history
  <2>2. r \in SignIn!Requests /\ MailFacts(r)'
    BY DEF SignIn!Requests, MailFacts
  <2>3. RedisOK' /\ DatabaseOK' /\ (~signInOverlapped => CountedBy(r)')
    BY <2>1, DatabaseStays, RedisStays, CountStays
  <2> HIDE DEF r
  <2> QED
    BY <1>0, <2>1, <2>2, <2>3, SignInStepIsSafe
<1>4. CASE SignIn!SetCode(p)
  <2>1. PICK c \in Codes \ mailed :
            /\ otp' = [code |-> c, attempts |-> 0]
            /\ SignIn!Go(p, [at |-> "cooldown", code |-> c])
    BY <1>4 DEF SignIn!SetCode
  <2>2. /\ tries' = IF signInOverlapped THEN tries ELSE 0
        /\ UNCHANGED <<cooldown, mailed, account, gone, sessions, spent>>
    BY <1>4 DEF SignIn!SetCode, SignIn!database
  <2> DEFINE r == [at |-> "cooldown", code |-> c]
  <2>3. r \in SignIn!Requests /\ MailFacts(r)' /\ DatabaseOK'
    BY <2>2, DatabaseStays DEF SignIn!Requests, MailFacts
  <2>4. RedisOK'
    BY <1>1, <1>2, <2>1, <2>2 DEF RedisOK, SignIn!Payload
  <2>5. ~signInOverlapped => CountedBy(r)'
    BY <1>1, <1>2, <2>1, <2>2 DEF CountedBy
  <2> QED
    BY <1>0, <2>1, <2>2, <2>3, <2>4, <2>5, SignInStepIsSafe
<1>5. CASE SignIn!SetCooldown(p)
  <2>1. PICK r \in SignIn!Requests :
            /\ SignIn!Go(p, r) /\ r.at = "mail" /\ r.code \in Codes
    <3>1. signInTx[p] \in SignIn!Requests /\ signInTx[p].at = "cooldown"
          /\ signInTx[p].code \in Codes
      BY <1>0, <1>5, SignInRequests
      DEF SignIn!SetCooldown, SignIn!At, SignIn!CodesWereMailed, SignIn!Idle
    <3>2. signInTx[p] = [at |-> "cooldown", code |-> signInTx[p].code]
      BY <3>1 DEF SignIn!Requests
    <3>3. /\ [signInTx[p] EXCEPT !.at = "mail"] = [at |-> "mail", code |-> signInTx[p].code]
          /\ [at |-> "mail", code |-> signInTx[p].code] \in SignIn!Requests
      BY <3>1, <3>2 DEF SignIn!Requests
    <3> QED
      BY <1>5, <3>1, <3>3 DEF SignIn!SetCooldown
  <2>2. /\ cooldown' = TRUE
        /\ UNCHANGED <<otp, mailed, account, gone, sessions, tries, spent>>
    BY <1>5 DEF SignIn!SetCooldown, SignIn!database, SignIn!history
  <2>3. MailFacts(r)' /\ DatabaseOK' /\ (~signInOverlapped => CountedBy(r)')
    BY <2>1, <2>2, DatabaseStays, CountStays DEF MailFacts
  <2>4. RedisOK'
    BY <1>1, <2>2 DEF RedisOK
  <2> QED
    BY <1>0, <2>1, <2>2, <2>3, <2>4, SignInStepIsSafe
<1>6. CASE SignIn!SendMail(p)
  <2>1. /\ SignIn!Go(p, SignIn!Idle)
        /\ mailed' \in {mailed, mailed \cup {signInTx[p].code}}
        /\ UNCHANGED <<otp, cooldown, account, gone, sessions, tries, spent>>
    BY <1>6 DEF SignIn!SendMail, SignIn!End, SignIn!redis, SignIn!database, SignIn!history
  <2>2. signInTx[p].code \in Codes
    BY <1>0, <1>6 DEF SignIn!SendMail, SignIn!At, SignIn!CodesWereMailed
  <2>3. SignIn!Idle.at = "idle"
    BY DEF SignIn!Idle
  <2>4. MailFacts(SignIn!Idle)' /\ DatabaseOK'
        /\ (~signInOverlapped => CountedBy(SignIn!Idle)')
    BY <2>1, <2>3, DatabaseStays, CountStays DEF MailFacts
  <2>5. RedisOK' /\ mailed \subseteq mailed'
    BY <1>1, <2>1, <2>2 DEF RedisOK
  <2> QED
    BY <1>0, <2>1, <2>4, <2>5, SignInStepIsSafe
<1> QED
  BY <1>3, <1>4, <1>5, <1>6

\* The customer enters a code.
LEMMA VerifyingIsSafe ==
    ASSUME SignIn!IndInv, NEW p \in Procs,
           \/ SignIn!EnterCode(p) \/ SignIn!GetCode(p) \/ SignIn!DropCode(p)
           \/ SignIn!ReadTtl(p) \/ SignIn!CountAttempt(p) \/ SignIn!UseCode(p)
    PROVE  SignIn!IndInv'
<1>0. SignIn!TypeOK /\ SignIn!CodesWereMailed /\ SignIn!OneByOne /\ SignIn!Step(p)
  BY DEF SignIn!IndInv, SignIn!Step
<1>1. /\ otp \in SignIn!Payload \cup {None} /\ cooldown \in BOOLEAN
      /\ mailed \subseteq Codes /\ tries \in Nat /\ spent \subseteq mailed
  BY <1>0 DEF SignIn!TypeOK
<1>2. MaxAttempts \in Nat /\ MaxAttempts >= 1 /\ None \notin Codes
  BY SignInAssumption DEF SignIn!SignInAssumption
<1>3. SignIn!Idle.at = "idle" /\ MailFacts(SignIn!Idle)'
  BY DEF SignIn!Idle, MailFacts
<1>4. CASE SignIn!EnterCode(p)
  <2>1. PICK c \in mailed \cup {None} : SignIn!Begin(p, [at |-> "get", code |-> c])
    BY <1>4 DEF SignIn!EnterCode
  <2>2. UNCHANGED <<otp, cooldown, mailed, account, gone, sessions, tries, spent>>
    BY <1>4 DEF SignIn!EnterCode, SignIn!redis, SignIn!database, SignIn!history
  <2> DEFINE r == [at |-> "get", code |-> c]
  <2>3. r \in SignIn!Requests /\ MailFacts(r)'
    BY <1>1, <2>2 DEF SignIn!Requests, MailFacts
  <2>4. RedisOK' /\ DatabaseOK' /\ (~signInOverlapped => CountedBy(r)')
    BY <2>2, DatabaseStays, RedisStays, CountStays
  <2> HIDE DEF r
  <2>5. SignIn!Begin(p, r)
    BY <2>1 DEF r
  <2> QED
    BY <1>0, <2>2, <2>3, <2>4, <2>5, SignInStepIsSafe
<1>5. CASE SignIn!GetCode(p)
  <2>1. UNCHANGED <<otp, cooldown, mailed, account, gone, sessions, tries, spent>>
    BY <1>5 DEF SignIn!GetCode, SignIn!redis, SignIn!database, SignIn!history
  <2>2. RedisOK' /\ DatabaseOK'
    BY <2>1, DatabaseStays, RedisStays
  <2>3. CASE otp = None
    <3>1. SignIn!Go(p, SignIn!Idle)
      BY <1>5, <2>3 DEF SignIn!GetCode
    <3> QED
      BY <1>0, <1>3, <2>1, <2>2, <3>1, CountStays, SignInStepIsSafe
  <2>4. CASE otp # None /\ SignIn!Exhausted(otp)
    <3> DEFINE r == [at |-> "drop"]
    <3>1. SignIn!Go(p, r) /\ r \in SignIn!Requests /\ MailFacts(r)' /\ r.at = "drop"
      BY <1>5, <2>4 DEF SignIn!GetCode, SignIn!Requests, MailFacts
    <3> HIDE DEF r
    <3> QED
      BY <1>0, <2>1, <2>2, <3>1, CountStays, SignInStepIsSafe
  <2>5. CASE otp # None /\ ~SignIn!Exhausted(otp)
    <3>0. otp.code \in Codes /\ otp.attempts \in Nat /\ otp.attempts < MaxAttempts
      BY <1>1, <1>2, <2>5 DEF SignIn!Payload, SignIn!Exhausted
    <3>1. ~signInOverlapped => tries <= otp.attempts /\ otp.code \notin spent
      BY <1>0, <2>5 DEF SignIn!OneByOne
    <3>2. CASE signInTx[p].code = otp.code
      <4> DEFINE r == [at |-> "use", code |-> otp.code]
      <4>1. SignIn!Go(p, r) /\ r \in SignIn!Requests
        BY <1>5, <2>5, <3>0, <3>2 DEF SignIn!GetCode, SignIn!Requests
      <4>2. otp.code \in mailed
        BY <1>0, <1>2, <1>5, <3>0, <3>2
        DEF SignIn!GetCode, SignIn!At, SignIn!CodesWereMailed
      <4>3. MailFacts(r)'
        BY <2>1, <4>2 DEF MailFacts
      <4>4. ~signInOverlapped => CountedBy(r)'
        BY <1>1, <1>2, <2>1, <3>0, <3>1 DEF CountedBy
      <4> QED
        BY <1>0, <2>1, <2>2, <4>1, <4>3, <4>4, SignInStepIsSafe
    <3>3. CASE signInTx[p].code # otp.code
      <4> DEFINE payload == [code |-> otp.code, attempts |-> otp.attempts + 1]
                 r == [at |-> "ttl", payload |-> payload]
      <4>1. payload \in SignIn!Payload
        BY <1>2, <3>0 DEF SignIn!Payload
      <4>2. SignIn!Go(p, r) /\ r \in SignIn!Requests
        BY <1>5, <2>5, <3>3, <4>1 DEF SignIn!GetCode, SignIn!Requests
      <4>3. MailFacts(r)'
        BY DEF MailFacts
      <4>4. ~signInOverlapped => CountedBy(r)'
        BY <1>1, <1>2, <2>1, <3>0, <3>1 DEF CountedBy
      <4> QED
        BY <1>0, <2>1, <2>2, <4>2, <4>3, <4>4, SignInStepIsSafe
    <3> QED
      BY <3>2, <3>3
  <2> QED
    BY <2>3, <2>4, <2>5
<1>6. CASE SignIn!DropCode(p)
  <2>1. /\ SignIn!Go(p, SignIn!Idle) /\ otp' = None
        /\ UNCHANGED <<cooldown, mailed, account, gone, sessions, tries, spent>>
    BY <1>6 DEF SignIn!DropCode, SignIn!End, SignIn!database, SignIn!history
  <2>2. RedisOK' /\ DatabaseOK'
    BY <1>1, <2>1, DatabaseStays DEF RedisOK
  <2>3. ~signInOverlapped => CountedBy(SignIn!Idle)'
    BY <1>0, <1>3, <2>1 DEF CountedBy, SignIn!OneByOne
  <2> QED
    BY <1>0, <1>3, <2>1, <2>2, <2>3, SignInStepIsSafe
<1>7. CASE SignIn!ReadTtl(p)
  <2>1. /\ signInTx[p].at = "ttl"
        /\ signInTx[p].payload \in SignIn!Payload
        /\ signInTx[p] = [at |-> "ttl", payload |-> signInTx[p].payload]
    <3>1. signInTx[p] \in SignIn!Requests /\ signInTx[p].at = "ttl"
      BY <1>0, <1>7, SignInRequests DEF SignIn!ReadTtl, SignIn!At, SignIn!Idle
    <3> QED
      BY <3>1 DEF SignIn!Requests
  <2>2. UNCHANGED <<otp, cooldown, mailed, account, gone, sessions, spent>>
    BY <1>7 DEF SignIn!ReadTtl, SignIn!redis, SignIn!database
  <2>3. ~signInOverlapped =>
          /\ tries < signInTx[p].payload.attempts
          /\ signInTx[p].payload.code \notin spent
    BY <1>0, <2>1 DEF SignIn!OneByOne, SignIn!At
  <2>4. signInTx[p].payload.attempts \in 0..MaxAttempts
    BY <2>1 DEF SignIn!Payload
  <2>5. CASE otp = None
    <3>1. /\ SignIn!Go(p, SignIn!Idle)
          /\ tries' = IF signInOverlapped THEN tries ELSE tries + 1
      BY <1>7, <2>5 DEF SignIn!ReadTtl, SignIn!End, SignIn!Compared
    <3>2. RedisOK' /\ DatabaseOK'
      BY <1>1, <2>2, <3>1, DatabaseStays DEF RedisOK
    <3>3. ~signInOverlapped => CountedBy(SignIn!Idle)'
      BY <1>1, <1>2, <1>3, <2>2, <2>3, <2>4, <2>5, <3>1 DEF CountedBy
    <3> QED
      BY <1>0, <1>3, <2>2, <3>1, <3>2, <3>3, SignInStepIsSafe
  <2>6. CASE otp # None
    <3>1. /\ SignIn!Go(p, [signInTx[p] EXCEPT !.at = "set"]) /\ UNCHANGED tries
      BY <1>7, <2>6 DEF SignIn!ReadTtl
    <3>2. PICK payload \in SignIn!Payload : payload = signInTx[p].payload
      BY <2>1
    <3> DEFINE r == [at |-> "set", payload |-> payload]
    <3>3. [signInTx[p] EXCEPT !.at = "set"] = r
      BY <2>1, <3>2
    <3>4. SignIn!Go(p, r) /\ r \in SignIn!Requests /\ MailFacts(r)'
      BY <3>1, <3>3 DEF SignIn!Requests, MailFacts
    <3>5. RedisOK' /\ DatabaseOK'
      BY <2>2, <3>1, DatabaseStays, RedisStays
    <3>6. ~signInOverlapped => CountedBy(r)'
      BY <1>0, <2>2, <2>3, <3>1, <3>2 DEF CountedBy, SignIn!OneByOne
    <3> QED
      BY <1>0, <2>2, <3>4, <3>5, <3>6, SignInStepIsSafe
  <2> QED
    BY <2>5, <2>6
<1>8. CASE SignIn!CountAttempt(p)
  <2>1. signInTx[p].at = "set" /\ signInTx[p].payload \in SignIn!Payload
    BY <1>0, <1>8, SignInRequests DEF SignIn!CountAttempt, SignIn!At
  <2>2. /\ otp' = signInTx[p].payload
        /\ SignIn!Go(p, SignIn!Idle)
        /\ tries' = IF signInOverlapped THEN tries ELSE tries + 1
        /\ UNCHANGED <<cooldown, mailed, account, gone, sessions, spent>>
    BY <1>8 DEF SignIn!CountAttempt, SignIn!End, SignIn!Compared, SignIn!database
  <2>3. ~signInOverlapped =>
          /\ tries < signInTx[p].payload.attempts
          /\ signInTx[p].payload.code \notin spent
    BY <1>0, <2>1 DEF SignIn!OneByOne, SignIn!At
  <2>4. signInTx[p].payload.attempts \in 0..MaxAttempts
    BY <2>1 DEF SignIn!Payload
  <2>5. RedisOK' /\ DatabaseOK'
    BY <1>1, <2>1, <2>2, DatabaseStays DEF RedisOK
  <2>6. ~signInOverlapped => CountedBy(SignIn!Idle)'
    BY <1>1, <1>2, <1>3, <2>2, <2>3, <2>4 DEF CountedBy
  <2> QED
    BY <1>0, <1>3, <2>2, <2>5, <2>6, SignInStepIsSafe
<1>9. CASE SignIn!UseCode(p)
  <2> DEFINE r == [at |-> "user"]
  <2>1. /\ otp' = None /\ spent' = spent \cup {signInTx[p].code}
        /\ SignIn!Go(p, r)
        /\ tries' = IF signInOverlapped THEN tries ELSE tries + 1
        /\ UNCHANGED <<cooldown, mailed, account, gone, sessions>>
    BY <1>9 DEF SignIn!UseCode, SignIn!Compared, SignIn!database
  <2>2. r \in SignIn!Requests /\ MailFacts(r)' /\ r.at = "user"
    BY DEF SignIn!Requests, MailFacts
  <2>3. /\ signInTx[p].code \in mailed
        /\ ~signInOverlapped => tries < MaxAttempts
    BY <1>0, <1>9 DEF SignIn!UseCode, SignIn!At, SignIn!CodesWereMailed, SignIn!OneByOne
  <2>4. RedisOK' /\ DatabaseOK'
    BY <1>1, <2>1, <2>3, DatabaseStays DEF RedisOK
  <2>5. ~signInOverlapped => CountedBy(r)'
    BY <1>1, <1>2, <2>1, <2>2, <2>3 DEF CountedBy
  <2> HIDE DEF r
  <2> QED
    BY <1>0, <2>1, <2>2, <2>4, <2>5, SignInStepIsSafe
<1> QED
  BY <1>4, <1>5, <1>6, <1>7, <1>8, <1>9

\* The session is made for the account that has the e-mail.
LEMMA SigningInIsSafe ==
    ASSUME SignIn!IndInv, NEW p \in Procs, SignIn!FindUser(p) \/ SignIn!CommitSignIn(p)
    PROVE  SignIn!IndInv'
<1>0. SignIn!TypeOK /\ SignIn!Step(p)
  BY DEF SignIn!IndInv, SignIn!Step
<1>1. /\ account \in EmailUsers \cup {None} /\ gone \subseteq EmailUsers
      /\ sessions \in [Sessions -> [state : SignIn!NoSession] \cup SignIn!SessionRow]
      /\ SignIn!SessionsHaveUser
  BY <1>0 DEF SignIn!TypeOK, SignIn!IndInv
<1>2. CASE SignIn!FindUser(p)
  <2>1. PICK u \in EmailUsers \cup {None} :
            SignIn!Go(p, [at |-> "sign_in", user |-> u])
    BY <1>1, <1>2 DEF SignIn!FindUser
  <2>2. UNCHANGED <<otp, cooldown, mailed, account, gone, sessions, tries, spent>>
    BY <1>2 DEF SignIn!FindUser, SignIn!redis, SignIn!database, SignIn!history
  <2> DEFINE r == [at |-> "sign_in", user |-> u]
  <2>3. r \in SignIn!Requests /\ MailFacts(r)' /\ r.at = "sign_in"
    BY DEF SignIn!Requests, MailFacts
  <2>4. SignIn!Go(p, r)
    BY <2>1
  <2> HIDE DEF r
  <2>5. RedisOK' /\ DatabaseOK' /\ (~signInOverlapped => CountedBy(r)')
    BY <2>2, <2>3, DatabaseStays, RedisStays, CountStays
  <2> QED
    BY <1>0, <2>2, <2>3, <2>4, <2>5, SignInStepIsSafe
<1>3. CASE SignIn!CommitSignIn(p)
  <2>1. /\ SignIn!Go(p, SignIn!Idle)
        /\ UNCHANGED <<otp, cooldown, mailed, gone, tries, spent>>
    BY <1>3 DEF SignIn!CommitSignIn, SignIn!End, SignIn!redis, SignIn!history
  <2>2. SignIn!Idle.at = "idle" /\ MailFacts(SignIn!Idle)'
    BY DEF SignIn!Idle, MailFacts
  <2>3. signInTx[p].user \in EmailUsers \cup {None}
    BY <1>0, <1>3, SignInRequests DEF SignIn!CommitSignIn, SignIn!At
  <2>4. DatabaseOK'
    <3>1. CASE UNCHANGED <<account, sessions>>
      BY <2>1, <3>1, DatabaseStays
    <3>2. CASE ~UNCHANGED <<account, sessions>>
      <4>1. PICK s \in Sessions, u \in EmailUsers :
              /\ account' = u
              /\ sessions' = [sessions EXCEPT ![s] = [state |-> "live", user |-> u]]
              /\ account \in {u, None}
        BY <1>3, <2>3, <3>2 DEF SignIn!CommitSignIn, SignIn!Inserts
      <4>2. [state |-> "live", user |-> u] \in SignIn!SessionRow
        BY DEF SignIn!SessionRow
      <4>3. sessions' \in [Sessions -> [state : SignIn!NoSession] \cup SignIn!SessionRow]
        BY <1>1, <4>1, <4>2
      <4>4. ASSUME NEW q \in Sessions, sessions'[q].state \notin SignIn!NoSession
            PROVE  sessions'[q].user = u
        <5>1. CASE q = s
          BY <1>1, <4>1, <5>1
        <5>2. CASE q # s
          <6>1. sessions'[q] = sessions[q] /\ sessions[q].state \notin SignIn!NoSession
            BY <1>1, <4>1, <4>4, <5>2
          <6>2. sessions[q] \in SignIn!SessionRow /\ sessions[q].user = account
            BY <1>1, <6>1 DEF SignIn!SessionsHaveUser, SignIn!Present
          <6>3. account # None
            BY <6>2, SignInAssumption DEF SignIn!SessionRow, SignIn!SignInAssumption
          <6> QED
            BY <4>1, <6>1, <6>2, <6>3
        <5> QED
          BY <5>1, <5>2
      <4> QED
        BY <1>1, <2>1, <4>1, <4>3, <4>4 DEF DatabaseOK, SignIn!SessionsHaveUser,
                                            SignIn!Present
    <3> QED
      BY <3>1, <3>2
  <2> QED
    BY <1>0, <2>1, <2>2, <2>4, RedisStays, CountStays, SignInStepIsSafe
<1> QED
  BY <1>2, <1>3

\* Refresh and logout keep a session's account.
LEMMA SessionsAreSafe ==
    ASSUME SignIn!IndInv, NEW p \in Procs,
           \/ SignIn!BeginRefresh(p) \/ SignIn!CommitRefresh(p)
           \/ SignIn!BeginLogout(p) \/ SignIn!CommitLogout(p) \/ SignIn!Crash(p)
    PROVE  SignIn!IndInv'
<1>0. SignIn!TypeOK /\ SignIn!Step(p)
  BY DEF SignIn!IndInv, SignIn!Step
<1>1. /\ account \in EmailUsers \cup {None} /\ gone \subseteq EmailUsers
      /\ sessions \in [Sessions -> [state : SignIn!NoSession] \cup SignIn!SessionRow]
      /\ SignIn!SessionsHaveUser
  BY <1>0 DEF SignIn!TypeOK, SignIn!IndInv
<1>2. SignIn!Idle.at = "idle" /\ MailFacts(SignIn!Idle)'
  BY DEF SignIn!Idle, MailFacts
<1>3. CASE SignIn!BeginRefresh(p) \/ SignIn!BeginLogout(p)
  <2>1. UNCHANGED <<otp, cooldown, mailed, account, gone, sessions, tries, spent>>
    BY <1>3 DEF SignIn!BeginRefresh, SignIn!BeginLogout, SignIn!redis, SignIn!database,
                SignIn!history
  <2>2. PICK r \in SignIn!Requests : SignIn!Begin(p, r) /\ r.at \in {"touch", "revoke"}
    <3>1. PICK s \in Sessions, at \in {"touch", "revoke"} :
              SignIn!Begin(p, [at |-> at, session |-> s])
      BY <1>3 DEF SignIn!BeginRefresh, SignIn!BeginLogout
    <3>2. [at |-> at, session |-> s] \in SignIn!Requests
      BY DEF SignIn!Requests
    <3> QED
      BY <3>1, <3>2
  <2>3. MailFacts(r)'
    BY <2>2 DEF MailFacts
  <2> QED
    BY <1>0, <2>1, <2>2, <2>3, DatabaseStays, RedisStays, CountStays, SignInStepIsSafe
<1>4. CASE SignIn!CommitRefresh(p) \/ SignIn!CommitLogout(p) \/ SignIn!Crash(p)
  <2>1. /\ SignIn!Go(p, SignIn!Idle)
        /\ UNCHANGED <<otp, cooldown, mailed, account, gone, tries, spent>>
    BY <1>4 DEF SignIn!CommitRefresh, SignIn!CommitLogout, SignIn!Crash, SignIn!End,
                SignIn!redis, SignIn!database, SignIn!history
  <2>2. DatabaseOK'
    <3>1. CASE UNCHANGED sessions
      BY <2>1, <3>1, DatabaseStays
    <3>2. CASE ~UNCHANGED sessions
      <4>1. CASE SignIn!CommitRefresh(p)
        <5>1. signInTx[p].session \in Sessions
          BY <1>0, <4>1, SignInRequests DEF SignIn!CommitRefresh, SignIn!At
        <5>2. UNCHANGED sessions
          BY <1>1, <4>1, <5>1 DEF SignIn!CommitRefresh, SignIn!Touched
        <5> QED
          BY <3>2, <5>2
      <4>2. CASE SignIn!CommitLogout(p)
        <5>1. PICK s \in Sessions :
                /\ SignIn!Present(s)
                /\ sessions' = [sessions EXCEPT ![s].state = "revoked"]
          BY <1>0, <3>2, <4>2, SignInRequests DEF SignIn!CommitLogout, SignIn!At
        <5>2. sessions[s] \in SignIn!SessionRow
          BY <1>1, <5>1 DEF SignIn!Present
        <5>3. sessions' = [sessions EXCEPT ![s] = [state |-> "revoked",
                                                   user |-> sessions[s].user]]
          <6>1. [sessions[s] EXCEPT !.state = "revoked"]
                  = [state |-> "revoked", user |-> sessions[s].user]
            BY <5>2 DEF SignIn!SessionRow
          <6>2. sessions' = [sessions EXCEPT ![s] = [sessions[s] EXCEPT !.state = "revoked"]]
            BY <5>1
          <6> QED
            BY <6>1, <6>2
        <5>4. [state |-> "revoked", user |-> sessions[s].user] \in SignIn!SessionRow
          BY <5>2 DEF SignIn!SessionRow
        <5>5. sessions' \in [Sessions -> [state : SignIn!NoSession] \cup SignIn!SessionRow]
          BY <1>1, <5>3, <5>4
        <5>6. \A q \in Sessions : sessions'[q].state \notin SignIn!NoSession
                => sessions'[q].user = account
          BY <1>1, <5>1, <5>3 DEF SignIn!SessionsHaveUser, SignIn!Present
        <5> QED
          BY <1>1, <2>1, <5>5, <5>6 DEF DatabaseOK, SignIn!SessionsHaveUser, SignIn!Present
      <4>3. CASE SignIn!Crash(p)
        BY <3>2, <4>3 DEF SignIn!Crash, SignIn!database
      <4> QED
        BY <1>4, <4>1, <4>2, <4>3
    <3> QED
      BY <3>1, <3>2
  <2> QED
    BY <1>0, <1>2, <2>1, <2>2, RedisStays, CountStays, SignInStepIsSafe
<1> QED
  BY <1>3, <1>4

\* Keys expire, and an account is deleted with its sessions.
LEMMA ExpiryIsSafe ==
    ASSUME SignIn!IndInv,
           SignIn!ExpireCode \/ SignIn!ExpireCooldown \/ SignIn!DeleteUser
    PROVE  SignIn!IndInv'
<1>0. SignIn!TypeOK /\ SignIn!CodesWereMailed /\ SignIn!OneByOne
  BY DEF SignIn!IndInv
<1>1. UNCHANGED <<mailed, signInTx, signInOverlapped, tries, spent>> /\ otp' \in {otp, None}
  BY DEF SignIn!ExpireCode, SignIn!ExpireCooldown, SignIn!DeleteUser, SignIn!redis,
         SignIn!history
<1>2. SignIn!CodesWereMailed'
  BY <1>0, <1>1 DEF SignIn!CodesWereMailed, SignIn!At
<1>3. SignIn!OneByOne'
  BY <1>0, <1>1 DEF SignIn!OneByOne, SignIn!At
<1>4. DatabaseOK'
  <2>1. CASE UNCHANGED <<account, gone, sessions>>
    BY <2>1, DatabaseStays
  <2>2. CASE SignIn!DeleteUser
    <3>1. /\ account' = None /\ account \in EmailUsers
          /\ gone' = gone \cup {account}
          /\ sessions' = [s \in Sessions |-> IF SignIn!Present(s) THEN [state |-> "deleted"]
                                             ELSE sessions[s]]
      BY <1>0, <2>2 DEF SignIn!DeleteUser, SignIn!TypeOK
    <3>2. sessions \in [Sessions -> [state : SignIn!NoSession] \cup SignIn!SessionRow]
          /\ gone \subseteq EmailUsers
      BY <1>0 DEF SignIn!TypeOK
    <3>3. [state |-> "deleted"] \in [state : SignIn!NoSession]
      BY DEF SignIn!NoSession
    <3>4. \A s \in Sessions : sessions'[s].state \in SignIn!NoSession
      BY <3>1, <3>3 DEF SignIn!Present
    <3> QED
      BY <3>1, <3>2, <3>3, <3>4 DEF DatabaseOK, SignIn!SessionsHaveUser, SignIn!Present
  <2> QED
    BY <2>1, <2>2 DEF SignIn!ExpireCode, SignIn!ExpireCooldown, SignIn!database
<1>5. cooldown' \in BOOLEAN
  BY <1>0 DEF SignIn!ExpireCode, SignIn!ExpireCooldown, SignIn!DeleteUser, SignIn!redis,
              SignIn!TypeOK
<1>6. SignIn!TypeOK'
  BY <1>0, <1>1, <1>4, <1>5 DEF SignIn!TypeOK, DatabaseOK
<1> QED
  BY <1>2, <1>3, <1>4, <1>6 DEF SignIn!IndInv, DatabaseOK

\* Every step keeps the invariant of sign-in.
LEMMA SignInSafe ==
    SignIn!IndInv /\ [SignIn!Next]_(SignIn!vars) => SignIn!IndInv'
<1> SUFFICES ASSUME SignIn!IndInv, [SignIn!Next]_(SignIn!vars) PROVE SignIn!IndInv'
  OBVIOUS
<1>1. CASE SignIn!Next
  BY <1>1, AskingIsSafe, VerifyingIsSafe, SigningInIsSafe, SessionsAreSafe, ExpiryIsSafe
  DEF SignIn!Next, SignIn!Step
<1>2. CASE UNCHANGED SignIn!vars
  <2>1. UNCHANGED <<otp, cooldown, mailed, account, gone, sessions, signInTx,
                    signInOverlapped, tries, spent>>
    BY <1>2 DEF SignIn!vars, SignIn!redis, SignIn!database, SignIn!history
  <2>2. SignIn!TypeOK' /\ SignIn!SessionsHaveUser'
    BY <2>1 DEF SignIn!IndInv, SignIn!TypeOK, SignIn!SessionsHaveUser, SignIn!Present
  <2>3. SignIn!CodesWereMailed' /\ SignIn!OneByOne'
    BY <2>1 DEF SignIn!IndInv, SignIn!CodesWereMailed, SignIn!OneByOne, SignIn!At
  <2> QED
    BY <2>2, <2>3 DEF SignIn!IndInv
<1> QED
  BY <1>1, <1>2

\* Sign-in is consistent: every session is one of the account that has the
\* e-mail, a code that is used was mailed, and until two requests have overlapped
\* the attempts in Redis are at least those that were answered (otp_service.py).
THEOREM SignInIsConsistent == SignIn!Spec => []SignIn!IndInv
<1>1. SignIn!Init => SignIn!IndInv
  <2> SUFFICES ASSUME SignIn!Init PROVE SignIn!IndInv
    OBVIOUS
  <2>1. MaxAttempts \in Nat
    BY SignInAssumption DEF SignIn!SignInAssumption
  <2>2. SignIn!TypeOK
    BY DEF SignIn!Init, SignIn!TypeOK, SignIn!NoSession
  <2>3. SignIn!SessionsHaveUser
    BY DEF SignIn!Init, SignIn!SessionsHaveUser, SignIn!Present, SignIn!NoSession
  <2>4. SignIn!CodesWereMailed
    BY DEF SignIn!Init, SignIn!CodesWereMailed, SignIn!At, SignIn!Idle
  <2>5. SignIn!OneByOne
    BY <2>1 DEF SignIn!Init, SignIn!OneByOne, SignIn!At, SignIn!Idle
  <2> QED
    BY <2>2, <2>3, <2>4, <2>5 DEF SignIn!IndInv
<1> QED
  BY <1>1, SignInSafe, PTL DEF SignIn!Spec

\* A session that was logged out stays so, whatever a refresh had loaded
\* (auth_service.py).
THEOREM LogoutsLast == SignIn!Spec => SignIn!RevokedStaysRevoked
<1> DEFINE Stays == \A s \in Sessions : sessions[s].state = "revoked"
                      => sessions'[s].state \in {"revoked", "deleted"}
<1>1. ASSUME SignIn!IndInv, SignIn!Next, NEW s \in Sessions, sessions[s].state = "revoked"
      PROVE  sessions'[s].state \in {"revoked", "deleted"}
  <2>0. SignIn!TypeOK
    BY <1>1 DEF SignIn!IndInv
  <2>1. sessions \in [Sessions -> [state : SignIn!NoSession] \cup SignIn!SessionRow]
    BY <2>0 DEF SignIn!TypeOK
  <2>2. CASE SignIn!DeleteUser
    BY <1>1, <2>2 DEF SignIn!DeleteUser
  <2>3. ASSUME NEW p \in Procs, SignIn!CommitSignIn(p)
        PROVE  sessions'[s].state \in {"revoked", "deleted"}
    BY <1>1, <2>1, <2>3 DEF SignIn!CommitSignIn
  <2>4. ASSUME NEW p \in Procs, SignIn!CommitRefresh(p)
        PROVE  sessions'[s].state \in {"revoked", "deleted"}
    BY <1>1, <2>1, <2>4 DEF SignIn!CommitRefresh, SignIn!Touched
  <2>5. ASSUME NEW p \in Procs, SignIn!CommitLogout(p)
        PROVE  sessions'[s].state \in {"revoked", "deleted"}
    <3>1. PICK q \in Sessions : \/ UNCHANGED sessions
                                \/ /\ SignIn!Present(q)
                                   /\ sessions' = [sessions EXCEPT ![q].state = "revoked"]
      BY <2>0, <2>5, SignInRequests DEF SignIn!CommitLogout, SignIn!At
    <3>2. SignIn!Present(q) => [sessions[q] EXCEPT !.state = "revoked"].state = "revoked"
      BY <2>1 DEF SignIn!Present, SignIn!SessionRow
    <3> QED
      BY <1>1, <2>1, <3>1, <3>2
  <2>6. CASE UNCHANGED sessions
    BY <1>1, <2>6
  <2>7. \/ SignIn!DeleteUser \/ UNCHANGED sessions
        \/ \E p \in Procs : SignIn!CommitSignIn(p) \/ SignIn!CommitRefresh(p)
                            \/ SignIn!CommitLogout(p)
    BY <1>1 DEF SignIn!Next, SignIn!Step, SignIn!database, SignIn!AskCode, SignIn!SetCode,
       SignIn!SetCooldown, SignIn!SendMail, SignIn!EnterCode, SignIn!GetCode,
       SignIn!DropCode, SignIn!ReadTtl, SignIn!CountAttempt, SignIn!UseCode,
       SignIn!FindUser, SignIn!BeginRefresh, SignIn!BeginLogout, SignIn!Crash,
       SignIn!ExpireCode, SignIn!ExpireCooldown
  <2> QED
    BY <2>2, <2>3, <2>4, <2>5, <2>6, <2>7
<1>2. SignIn!IndInv /\ [SignIn!Next]_(SignIn!vars) => [Stays]_(SignIn!vars)
  BY <1>1
<1> QED
  BY <1>2, SignInIsConsistent, PTL DEF SignIn!Spec, SignIn!RevokedStaysRevoked
-----------------------------------------------------------------------------
(***************************************************************************)
(* The components side by side: each step is one of a component and leaves *)
(* the others alone.                                                       *)
(***************************************************************************)
\* A behaviour of the composition is one of every component.
LEMMA EachComponent ==
    UserSideSpec => SignIn!Spec /\ Accounts!Spec /\ Spec /\ Profile!Spec
<1>1. UserSideInit => SignIn!Init /\ Accounts!Init /\ Init /\ Profile!Init
  BY DEF UserSideInit
<1>2. /\ UNCHANGED SignInVars => UNCHANGED SignIn!vars
      /\ UNCHANGED AccountsVars => UNCHANGED Accounts!vars
      /\ UNCHANGED BookVars => UNCHANGED vars
      /\ UNCHANGED ProfileVars => UNCHANGED Profile!vars
  BY DEF SignInVars, SignIn!vars, SignIn!redis, SignIn!database, SignIn!history,
         AccountsVars, Accounts!vars, Accounts!rows, BookVars, vars, ProfileVars,
         Profile!vars
<1>3. UNCHANGED UserSideVars =>
         UNCHANGED <<SignInVars, AccountsVars, BookVars, ProfileVars>>
  BY DEF UserSideVars
<1>4. [UserSideNext]_UserSideVars => [SignIn!Next]_(SignIn!vars)
  BY <1>2, <1>3 DEF UserSideNext, SignInStep, AccountsStep, BookStep, ProfileStep
<1>5. [UserSideNext]_UserSideVars => [Accounts!Next]_(Accounts!vars)
  BY <1>2, <1>3 DEF UserSideNext, SignInStep, AccountsStep, BookStep, ProfileStep
<1>6. [UserSideNext]_UserSideVars => [Next]_vars
  BY <1>2, <1>3 DEF UserSideNext, SignInStep, AccountsStep, BookStep, ProfileStep
<1>7. [UserSideNext]_UserSideVars => [Profile!Next]_(Profile!vars)
  BY <1>2, <1>3 DEF UserSideNext, SignInStep, AccountsStep, BookStep, ProfileStep
<1> QED
  BY <1>1, <1>4, <1>5, <1>6, <1>7, PTL
  DEF UserSideSpec, SignIn!Spec, Accounts!Spec, Spec, Profile!Spec

\* The rows, keys and requests of the user side are consistent, component by
\* component.
THEOREM UserTablesAreConsistent == UserSideSpec => []TablesAreConsistent
<1>1. SignIn!IndInv /\ Accounts!IndInv /\ IndInv /\ RaceInv /\ Profile!TypeOK
        => TablesAreConsistent
  BY DEF TablesAreConsistent
<1> QED
  BY <1>1, EachComponent, SignInIsConsistent, AccountsAreConsistent, BookIsConsistent,
     RacesAreKnown, ProfileIsTyped, PTL

\* Until two requests overlap, a customer is told at most otp_max_attempts times
\* whether a code is right (verify_otp).
THEOREM AttemptsRunOut == UserSideSpec => []AttemptsAreCounted
<1>1. SignIn!IndInv => AttemptsAreCounted
  BY DEF SignIn!IndInv, SignIn!OneByOne, AttemptsAreCounted, SignIn!AttemptsAreCounted
<1> QED
  BY <1>1, EachComponent, SignInIsConsistent, PTL

\* Until two requests overlap, a code signs in at most once
\* (verify_otp_and_create_session).
THEOREM CodesAreUsedUp == UserSideSpec => []CodesSignInOnce
<1>1. SignIn!IndInv => CodesSignInOnce
  BY DEF SignIn!IndInv, SignIn!OneByOne, CodesSignInOnce, SignIn!CodesSignInOnce
<1> QED
  BY <1>1, EachComponent, SignInIsConsistent, PTL

\* Owners and admins whose requests come one by one leave an active admin
\* (assert_can_manage_user).
THEOREM SomebodyCanManage == UserSideSpec => []AnAdminRemains
<1>1. Accounts!IndInv => AnAdminRemains
  BY DEF Accounts!IndInv, AnAdminRemains
<1> QED
  BY <1>1, EachComponent, AccountsAreConsistent, PTL

\* A request that loaded a row before another one committed does not undo it: a
\* logout lasts, and a profile keeps the values a save did not name
\* (refresh_access_token, profile_service.py).
THEOREM StaleCopiesAreHarmless == UserSideSpec => StaleCopiesUndoNothing
BY EachComponent, LogoutsLast, ProfileKeepsTheRest, PTL DEF StaleCopiesUndoNothing

\* Only requests that overlap delete an active user, are turned down by an index
\* of the address book, or leave it without a default address.
THEOREM OverlapsAreToBlame == UserSideSpec => OnlyRacesHurt
BY EachComponent, OnlyOverlapsDeleteActive, FailuresAreRaces, DefaultIsKept, PTL
DEF OnlyRacesHurt
=============================================================================
