------------------------------ MODULE Accounts ------------------------------
(***************************************************************************)
(* The administration of user accounts (owner_user_service.py) by owners   *)
(* and admins, themselves accounts that can be administered.               *)
(*                                                                         *)
(* A request loads its actor (get_current_user), then its target, and      *)
(* writes what it changed in its copy of the target: whoever commits in    *)
(* between, it decides by the roles and the status it has loaded.          *)
(***************************************************************************)
EXTENDS Naturals, FiniteSets

CONSTANTS
    Users,   \* users rows
    Admin,   \* the account create_user.py made
    Procs    \* requests in flight

\* Assumed by the module that gives the constants their values.
AdminAssumption == Admin \in Users

VARIABLES
    role,         \* users.role
    status,       \* users.status, or "deleted"
    deactivated,  \* whether users.deactivated_at is set
    ordered,      \* users with orders
    tx,           \* the request each process handles
    overlapped    \* two requests have been in flight at once (history)

rows == <<role, status, deactivated, ordered>>
vars == <<rows, tx, overlapped>>
-----------------------------------------------------------------------------
UserRole == {"customer", "owner", "admin"}
UserStatus == {"active", "inactive"}
Operations == {"activate", "deactivate", "role", "delete"}

Idle == [at |-> "idle"]
Requests ==
    [at : {"target"}, op : Operations, actor : Users, as : UserRole]
    \cup [at : {"commit"}, op : {"activate", "deactivate"}, target : Users,
          changes : BOOLEAN,                 \* the status it loaded is another
          dated : BOOLEAN]                   \* deactivated_at was set
    \cup [at : {"commit"}, op : {"role"}, target : Users, changes : BOOLEAN,
          to : UserRole]
    \cup [at : {"commit"}, op : {"delete"}, target : Users]

TypeOK ==
    /\ role \in [Users -> UserRole]
    /\ status \in [Users -> UserStatus \cup {"deleted"}]
    /\ deactivated \in [Users -> BOOLEAN]
    /\ ordered \subseteq Users
    /\ tx \in [Procs -> Requests \cup {Idle}]
    /\ overlapped \in BOOLEAN

\* Users sign in as active customers; create_user.py makes the first admin.
Init ==
    /\ role = [u \in Users |-> IF u = Admin THEN "admin" ELSE "customer"]
    /\ status = [u \in Users |-> "active"]
    /\ deactivated = [u \in Users |-> FALSE]
    /\ ordered = {}
    /\ tx = [p \in Procs |-> Idle]
    /\ overlapped = FALSE

Present(u) == status[u] # "deleted"

Go(p, r) == tx' = [tx EXCEPT ![p] = r] /\ UNCHANGED <<rows, overlapped>>
End(p) == tx' = [tx EXCEPT ![p] = Idle] /\ UNCHANGED overlapped
-----------------------------------------------------------------------------
(***************************************************************************)
(* get_current_user and require_roles; a refusal leaves no trace.          *)
(***************************************************************************)
Allowed(op) == IF op = "role" THEN {"admin"} ELSE {"owner", "admin"}

Authenticate(p) ==
    \E u \in Users, op \in Operations :
        /\ tx[p] = Idle
        /\ status[u] = "active"
        /\ role[u] \in Allowed(op)
        /\ tx' = [tx EXCEPT ![p] = [at |-> "target", op |-> op, actor |-> u,
                                    as |-> role[u]]]
        /\ overlapped' = (overlapped \/ \E q \in Procs : tx[q] # Idle)
        /\ UNCHANGED rows

\* Mutant of CanManage: it is not checked whether the actor is the target.
CanManageAnybody(r, u) ==
    /\ r.op \in {"activate", "deactivate", "delete"} /\ r.as = "owner"
         => role[u] = "customer"
    /\ r.op = "delete" => status[u] = "inactive"

\* assert_can_manage_user, and what the role change and the deletion check.
CanManage(r, u) ==
    /\ r.actor # u
    /\ r.op \in {"activate", "deactivate", "delete"} /\ r.as = "owner"
         => role[u] = "customer"
    /\ r.op = "delete" => status[u] = "inactive"

\* UpdateUserRoleRequest.
RequestedRoles == UserRole

\* What the request will write, from what it loaded.
Plan(r, u) ==
    CASE r.op \in {"activate", "deactivate"} ->
           {[at |-> "commit", op |-> r.op, target |-> u, dated |-> deactivated[u],
             changes |-> (status[u] = "active") # (r.op = "activate")]}
      [] r.op = "role" ->
           {[at |-> "commit", op |-> r.op, target |-> u, to |-> to,
             changes |-> role[u] # to] : to \in RequestedRoles}
      [] OTHER -> {[at |-> "commit", op |-> r.op, target |-> u]}

\* 404, 403 or 400 when there is no such target.
LoadTarget(p) ==
    LET r == tx[p]
    IN  /\ r.at = "target"
        /\ \/ \E u \in Users : /\ Present(u) /\ CanManage(r, u)
                              /\ \E plan \in Plan(r, u) : Go(p, plan)
           \/ Go(p, Idle)
-----------------------------------------------------------------------------
(***************************************************************************)
(* The commits.  A row that is gone fails the UPDATE of a changed column.  *)
(***************************************************************************)
Ready(p, op) == tx[p].at = "commit" /\ tx[p].op = op

\* Activating clears the date, if one was loaded.
Cleared(r) == r.dated

CommitActivate(p) ==
    LET r == tx[p]
        u == r.target
    IN  /\ Ready(p, "activate")
        /\ IF Present(u)
           THEN /\ status' = IF r.changes
                             THEN [status EXCEPT ![u] = "active"] ELSE status
                /\ deactivated' = IF Cleared(r)
                                  THEN [deactivated EXCEPT ![u] = FALSE]
                                  ELSE deactivated
           ELSE UNCHANGED <<status, deactivated>>
        /\ End(p)
        /\ UNCHANGED <<role, ordered>>

\* The date is always new, the status only where it was loaded active.
CommitDeactivate(p) ==
    LET r == tx[p]
        u == r.target
    IN  /\ Ready(p, "deactivate")
        /\ IF Present(u)
           THEN /\ status' = IF r.changes
                             THEN [status EXCEPT ![u] = "inactive"] ELSE status
                /\ deactivated' = [deactivated EXCEPT ![u] = TRUE]
           ELSE UNCHANGED <<status, deactivated>>
        /\ End(p)
        /\ UNCHANGED <<role, ordered>>

CommitRole(p) ==
    LET r == tx[p]
    IN  /\ Ready(p, "role")
        /\ role' = IF r.changes /\ Present(r.target)
                   THEN [role EXCEPT ![r.target] = r.to] ELSE role
        /\ End(p)
        /\ UNCHANGED <<status, deactivated, ordered>>

\* orders.user_id is ON DELETE RESTRICT.
Restricted(u) == u \in ordered

CommitDelete(p) ==
    LET u == tx[p].target
    IN  /\ Ready(p, "delete")
        /\ status' = IF Restricted(u) THEN status
                     ELSE [status EXCEPT ![u] = "deleted"]
        /\ End(p)
        /\ UNCHANGED <<role, deactivated, ordered>>

\* A customer's checkout needs the row; its status was read before.
PlaceOrder ==
    /\ \E u \in Users : Present(u) /\ ordered' = ordered \cup {u}
    /\ UNCHANGED <<role, status, deactivated, tx, overlapped>>

Crash(p) == tx[p] # Idle /\ Go(p, Idle)

Step(p) == \/ Authenticate(p)
           \/ LoadTarget(p)
           \/ CommitActivate(p)
           \/ CommitDeactivate(p)
           \/ CommitRole(p)
           \/ CommitDelete(p)
           \/ Crash(p)

Next == (\E p \in Procs : Step(p)) \/ PlaceOrder

Spec == Init /\ [][Next]_vars
-----------------------------------------------------------------------------
(***************************************************************************)
(* Properties.                                                             *)
(***************************************************************************)
ActiveAdmins == {u \in Users : role[u] = "admin" /\ status[u] = "active"}

\* Nobody can change, deactivate or delete himself: whatever requests the
\* accounts send one after the other, one active admin remains to undo them.
AnAdminRemains == ~overlapped => ActiveAdmins # {}

\* Sent one after the other, (de)activations keep the date in step with the
\* status, though each writes only the column it found different.
DateFollowsStatus ==
    ~overlapped =>
        \A u \in Users : Present(u) => (deactivated[u] <=> status[u] = "inactive")

\* A customer with orders is never deleted, also if the first order is placed
\* while the deletion is on its way.
OrdersKeepTheirCustomer == \A u \in ordered : Present(u)

\* "Only inactive users can be deleted." (owner_user_service.py:184): an active
\* one goes only when requests have overlapped.
OnlyRacesDeleteActive ==
    [][(\E u \in Users : status[u] = "active" /\ status'[u] = "deleted") => overlapped]_vars
-----------------------------------------------------------------------------
(***************************************************************************)
(* The inductive invariant behind these (UserSideProofs).                  *)
(***************************************************************************)
\* The actor of a request alone is still what it was when it authenticated.
ActorHolds(r) ==
    /\ status[r.actor] = "active"
    /\ role[r.actor] = r.as
    /\ r.as \in Allowed(r.op)

\* What a request alone is about to write, it has decided by its target as it is
\* now, and another active admin remains.
PlanHolds(r) ==
    /\ ActiveAdmins \ {r.target} # {}
    /\ r.op = "activate" => /\ r.changes <=> status[r.target] # "active"
                            /\ r.dated <=> deactivated[r.target]
    /\ r.op = "deactivate" => (r.changes <=> status[r.target] = "active")
    /\ r.op = "delete" => status[r.target] = "inactive"

OneByOne ==
    ~overlapped =>
        /\ \A p, q \in Procs : tx[p] # Idle /\ tx[q] # Idle => p = q
        /\ \A p \in Procs : /\ tx[p].at = "target" => ActorHolds(tx[p])
                            /\ tx[p].at = "commit" => PlanHolds(tx[p])

IndInv ==
    TypeOK /\ OrdersKeepTheirCustomer /\ AnAdminRemains /\ DateFollowsStatus /\ OneByOne
=============================================================================
