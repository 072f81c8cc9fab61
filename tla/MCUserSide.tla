----------------------------- MODULE MCUserSide -----------------------------
(***************************************************************************)
(* What the system keeps of its users, for TLC: sign-in and sessions, the  *)
(* administration of accounts, the address book and the profile.  The      *)
(* requests of one component do not interleave with those of another: in   *)
(* each behaviour one component, chosen at the start, handles requests and *)
(* the tables of the others stay empty.                                    *)
(***************************************************************************)
EXTENDS AddressBook, TLC

CONSTANTS
    Codes, EmailUsers, Sessions, MaxAttempts,   \* SignIn
    Staff, Admin,                               \* Accounts
    Values, Null, NoProfile                     \* Profile

VARIABLES
    component,
    otp, cooldown, mailed, account, gone, sessions, signInTx, signInOverlapped, tries, spent,
    role, status, deactivated, ordered, accountsTx, accountsOverlapped,
    owned, profile, req

SignInVars == <<otp, cooldown, mailed, account, gone, sessions, signInTx,
                signInOverlapped, tries, spent>>
AccountsVars == <<role, status, deactivated, ordered, accountsTx, accountsOverlapped>>
BookVars == vars
ProfileVars == <<owned, profile, req>>

SignIn == INSTANCE SignIn WITH Users <- EmailUsers, user <- account, tx <- signInTx,
                               overlapped <- signInOverlapped
Accounts == INSTANCE Accounts WITH Users <- Staff, tx <- accountsTx,
                                   overlapped <- accountsOverlapped
Profile == INSTANCE Profile WITH Requests <- Procs, user <- owned

ASSUME SignInAssumption == SignIn!SignInAssumption
ASSUME AdminAssumption == Accounts!AdminAssumption

UserSideInit ==
    /\ component \in {"sign-in", "accounts", "book", "profile"}
    /\ SignIn!Init /\ Accounts!Init /\ Init /\ Profile!Init

SignInStep == /\ component = "sign-in" /\ SignIn!Next
              /\ UNCHANGED <<component, AccountsVars, BookVars, ProfileVars>>

AccountsStep == /\ component = "accounts" /\ Accounts!Next
                /\ UNCHANGED <<component, SignInVars, BookVars, ProfileVars>>

BookStep == /\ component = "book" /\ Next
            /\ UNCHANGED <<component, SignInVars, AccountsVars, ProfileVars>>

ProfileStep == /\ component = "profile" /\ Profile!Next
               /\ UNCHANGED <<component, SignInVars, AccountsVars, BookVars>>

UserSideNext == SignInStep \/ AccountsStep \/ BookStep \/ ProfileStep

UserSideVars == <<component, SignInVars, AccountsVars, BookVars, ProfileVars>>

UserSideSpec == UserSideInit /\ [][UserSideNext]_UserSideVars

\* Codes, Sessions and Values may be one set: a component uses what it needs of it.
UserSideSymmetry ==
    Permutations(Codes) \cup Permutations(EmailUsers) \cup Permutations(Sessions)
      \cup Permutations(Procs)
-----------------------------------------------------------------------------
(***************************************************************************)
(* Properties.                                                             *)
(***************************************************************************)
\* The tables hold what their columns may, and each row what it refers to: a
\* session its account, an order its customer, a profile its user; the date of a
\* deactivation follows the status; and what requests in flight rely on is true
\* (the inductive invariants of the components).
TablesAreConsistent ==
    /\ component = "sign-in" => SignIn!IndInv
    /\ component = "accounts" => Accounts!IndInv
    /\ component = "book" => IndInv /\ RaceInv
    /\ component = "profile" => Profile!TypeOK

\* Until two requests overlap, a customer is told at most otp_max_attempts times
\* whether a code is right (verify_otp).
AttemptsAreCounted == SignIn!AttemptsAreCounted

\* Until two requests overlap, a code signs in at most once
\* (verify_otp_and_create_session).
CodesSignInOnce == SignIn!CodesSignInOnce

\* What a request has committed is not undone by one that loaded the row before:
\* a session stays revoked (refresh_access_token), and a profile keeps the values
\* a request did not name (profile_service.py).
StaleCopiesUndoNothing == SignIn!RevokedStaysRevoked /\ Profile!WritesWhatItNames

\* Sent one after the other, requests leave an active admin
\* (assert_can_manage_user).
AnAdminRemains == Accounts!AnAdminRemains

\* Only requests that overlap delete an active user, are turned down by an index
\* of the address book, or leave it without a default address.
OnlyRacesHurt ==
    Accounts!OnlyRacesDeleteActive /\ OnlyRacesFail /\ DefaultIsHandedOn
=============================================================================
