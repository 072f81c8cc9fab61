------------------------------ MODULE Profile ------------------------------
(***************************************************************************)
(* The profile of one user: created by the first request that asks for it, *)
(* read and edited from several pages (profile_service, with               *)
(* profile_repository), while the owner may delete the user.               *)
(*                                                                         *)
(* A request loads the row, and later commits what it changed of it; the   *)
(* ORM writes only the columns whose values differ from the loaded ones.   *)
(***************************************************************************)
EXTENDS Integers, FiniteSets

CONSTANTS
    Requests,
    Values,     \* names and phone numbers
    Null,       \* an empty column
    NoProfile   \* no row

Columns == {"full_name", "phone"}

Row == [Columns -> Values \cup {Null}]

EmptyRow == [c \in Columns |-> Null]

VARIABLES
    user,      \* whether the user's row is there
    profile,   \* his profile's row
    req        \* requests: what they ask and what they have loaded

vars == <<user, profile, req>>

Request == [at : {"idle", "loaded", "committed", "failed"}, fields : SUBSET Columns,
            asked : Row, loaded : Row \cup {NoProfile}]

Idle == [at |-> "idle", fields |-> {}, asked |-> EmptyRow, loaded |-> NoProfile]

Init == user = TRUE /\ profile = NoProfile /\ req = [r \in Requests |-> Idle]
-----------------------------------------------------------------------------
Put(r, at) == req' = [req EXCEPT ![r].at = at]

\* The request names some columns with values or nulls, or, when it only reads, none.
Load(r) ==
    /\ user /\ req[r].at \in {"idle", "failed"}
    /\ \E fields \in SUBSET Columns : \E asked \in Row :
         /\ \A c \in Columns \ fields : asked[c] = Null
         /\ req' = [req EXCEPT ![r] = [at |-> "loaded", fields |-> fields,
                                       asked |-> asked, loaded |-> profile]]
    /\ UNCHANGED <<user, profile>>

\* The row as the request has it in memory
Loaded(r) == IF req[r].loaded = NoProfile THEN EmptyRow ELSE req[r].loaded

Named(r) == req[r].fields

\* A phone number is encrypted anew each time and never equals the loaded one.
Changed(r) ==
    {c \in Named(r) : \/ req[r].asked[c] # Loaded(r)[c]
                      \/ c = "phone" /\ req[r].asked[c] # Null}

Merge(r, row) == [c \in Columns |-> IF c \in Changed(r) THEN req[r].asked[c] ELSE row[c]]

\* One profile per user, and none without one
Insertable == user /\ profile = NoProfile

\* Mutant of Create: reading does not commit the row.
CreateToUpdate(r) ==
    /\ req[r].at = "loaded" /\ req[r].loaded = NoProfile /\ Insertable
    /\ profile' = IF req[r].fields = {} THEN profile ELSE Merge(r, EmptyRow)
    /\ Put(r, "committed")
    /\ UNCHANGED user

\* get_or_create_user_profile found no row.
Create(r) ==
    /\ req[r].at = "loaded" /\ req[r].loaded = NoProfile /\ Insertable
    /\ profile' = Merge(r, EmptyRow)
    /\ Put(r, "committed")
    /\ UNCHANGED user

Update(r) ==
    /\ req[r].at = "loaded" /\ req[r].loaded # NoProfile /\ Changed(r) # {}
    /\ profile # NoProfile
    /\ profile' = Merge(r, profile)
    /\ Put(r, "committed")
    /\ UNCHANGED user

CommitNothing(r) ==
    /\ req[r].at = "loaded" /\ req[r].loaded # NoProfile /\ Changed(r) = {}
    /\ Put(r, "committed")
    /\ UNCHANGED <<user, profile>>

\* The row has been inserted by another request, or it has gone.
Fail(r) ==
    /\ req[r].at = "loaded"
    /\ IF req[r].loaded = NoProfile THEN ~Insertable ELSE Changed(r) # {} /\ profile = NoProfile
    /\ req' = [req EXCEPT ![r] = [Idle EXCEPT !.at = "failed"]]
    /\ UNCHANGED <<user, profile>>

Answerable(r) == profile # NoProfile

\* The row is read again for the answer.
Answer(r) ==
    /\ req[r].at = "committed" /\ Answerable(r)
    /\ req' = [req EXCEPT ![r] = Idle]
    /\ UNCHANGED <<user, profile>>

AnswerFails(r) ==
    /\ req[r].at = "committed" /\ ~Answerable(r)
    /\ req' = [req EXCEPT ![r] = [Idle EXCEPT !.at = "failed"]]
    /\ UNCHANGED <<user, profile>>

\* The owner deletes the user, and the profile with him.
DeleteUser == user /\ user' = FALSE /\ profile' = NoProfile /\ UNCHANGED req
-----------------------------------------------------------------------------
RequestStep(r) ==
    Create(r) \/ Update(r) \/ CommitNothing(r) \/ Fail(r) \/ Answer(r) \/ AnswerFails(r)

Next == DeleteUser \/ \E r \in Requests : Load(r) \/ RequestStep(r)

Spec == Init /\ [][Next]_vars

\* Requests end, and a page asks again when its request has failed.
FairSpec ==
    Spec /\ \A r \in Requests : WF_vars(RequestStep(r)) /\ WF_vars(req[r].at = "failed" /\ Load(r))
-----------------------------------------------------------------------------
\* The tables hold what their columns may; a profile belongs to a user.
TypeOK ==
    /\ user \in BOOLEAN
    /\ profile \in Row \cup {NoProfile}
    /\ req \in [Requests -> Request]
    /\ profile # NoProfile => user

\* The request that a step commits.
Commits(r) == req[r].at = "loaded" /\ req'[r].at = "committed"

\* A request that succeeds has in the row, or found there, every value it named,
\* nulls too, and leaves what it did not name as others have made it meanwhile
\* (update_current_user_profile writes both columns back).
WritesWhatItNames ==
    [][\A r \in Requests : Commits(r) /\ profile # NoProfile /\ profile' # NoProfile =>
         \A c \in Columns :
           /\ c \notin req[r].fields => profile'[c] = profile[c]
           /\ c \in req[r].fields => req[r].asked[c] \in {profile'[c], req[r].loaded[c]}]_vars

\* A page that asks until it is answered gets the profile, although two first
\* requests insert it at once and one of them fails (get_or_create_user_profile).
AskingSucceeds == \A r \in Requests : req[r].at = "failed" ~> req[r].at = "idle" \/ ~user
=============================================================================
