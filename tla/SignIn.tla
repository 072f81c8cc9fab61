------------------------------- MODULE SignIn -------------------------------
(***************************************************************************)
(* Signing in by a mailed code, and the sessions that follow, for one      *)
(* e-mail address: otp_service.py on Redis, auth_service.py on PostgreSQL. *)
(*                                                                         *)
(* Each command of Redis is atomic and the service issues several for one  *)
(* decision; keys vanish when their time to live has passed.  A request on *)
(* the database loads and commits.  Hashes, tokens and expiry dates of     *)
(* sessions are left out: a code or a token is right or it is not.         *)
(***************************************************************************)
EXTENDS Naturals, FiniteSets

CONSTANTS
    Codes,        \* the codes that are generated, each once
    Users,        \* users rows the address may get, one after another
    Sessions,     \* sessions rows
    Procs,        \* requests in flight
    MaxAttempts,  \* otp_max_attempts
    None

\* Assumed by the module that gives the constants their values.
SignInAssumption ==
    /\ MaxAttempts \in Nat \ {0}
    /\ None \notin Codes \cup Users

VARIABLES
    otp,         \* auth:otp:<email> in Redis: the code and its attempts
    cooldown,    \* auth:otp:cooldown:<email> is there
    mailed,      \* codes the customer has received
    user,        \* the users row with this e-mail
    gone,        \* rows that were deleted
    sessions,    \* sessions rows
    tx,          \* the request each process handles
    overlapped,  \* two requests have been in flight at once (history)
    tries,       \* answers about the code in Redis (history, until the
                 \* first overlap)
    spent        \* codes that have signed in (history)

redis == <<otp, cooldown>>
database == <<user, gone, sessions>>
history == <<tries, spent>>
vars == <<redis, mailed, database, tx, overlapped, history>>
-----------------------------------------------------------------------------
Payload == [code : Codes, attempts : 0..MaxAttempts]
SessionRow == [state : {"live", "revoked"}, user : Users]
NoSession == {"unused", "deleted"}

Idle == [at |-> "idle"]
Requests ==
    [at : {"fresh", "cooldown", "mail"}, code : Codes \cup {None}]
    \cup [at : {"get"}, code : Codes \cup {None}]
    \cup [at : {"ttl", "set"}, payload : Payload]
    \cup [at : {"use"}, code : Codes]
    \cup [at : {"drop", "user"}]
    \cup [at : {"sign_in"}, user : Users \cup {None}]
    \cup [at : {"touch", "revoke"}, session : Sessions]

TypeOK ==
    /\ otp \in Payload \cup {None}
    /\ cooldown \in BOOLEAN
    /\ mailed \subseteq Codes
    /\ user \in Users \cup {None}
    /\ gone \subseteq Users
    /\ sessions \in [Sessions -> [state : NoSession] \cup SessionRow]
    /\ tx \in [Procs -> Requests \cup {Idle}]
    /\ overlapped \in BOOLEAN
    /\ tries \in Nat
    /\ spent \subseteq mailed

Init ==
    /\ otp = None /\ cooldown = FALSE /\ mailed = {}
    /\ user = None /\ gone = {}
    /\ sessions = [s \in Sessions |-> [state |-> "unused"]]
    /\ tx = [p \in Procs |-> Idle]
    /\ overlapped = FALSE /\ tries = 0 /\ spent = {}

Begin(p, r) ==
    /\ tx[p] = Idle
    /\ tx' = [tx EXCEPT ![p] = r]
    /\ overlapped' = (overlapped \/ \E q \in Procs : tx[q] # Idle)

Go(p, r) == tx' = [tx EXCEPT ![p] = r] /\ UNCHANGED overlapped
End(p) == Go(p, Idle)

At(p, step) == tx[p].at = step

Compared == tries' = IF overlapped THEN tries ELSE tries + 1
-----------------------------------------------------------------------------
(***************************************************************************)
(* POST /auth/request-otp.                                                 *)
(***************************************************************************)
AskCode(p) ==
    /\ ~cooldown
    /\ Begin(p, [at |-> "fresh", code |-> None])
    /\ UNCHANGED <<redis, mailed, database, history>>

\* A new code replaces the one before, with its attempts.
SetCode(p) ==
    /\ At(p, "fresh")
    /\ \E c \in Codes \ mailed :
         /\ \A q \in Procs : At(q, "mail") \/ At(q, "cooldown") => tx[q].code # c
         /\ otp' = [code |-> c, attempts |-> 0]
         /\ Go(p, [at |-> "cooldown", code |-> c])
    /\ tries' = IF overlapped THEN tries ELSE 0
    /\ UNCHANGED <<cooldown, mailed, database, spent>>

SetCooldown(p) ==
    /\ At(p, "cooldown")
    /\ cooldown' = TRUE
    /\ Go(p, [tx[p] EXCEPT !.at = "mail"])
    /\ UNCHANGED <<otp, mailed, database, history>>

\* When the provider fails the request does, and the cooldown stays.
SendMail(p) ==
    /\ At(p, "mail")
    /\ mailed' \in {mailed, mailed \cup {tx[p].code}}
    /\ End(p)
    /\ UNCHANGED <<redis, database, history>>
-----------------------------------------------------------------------------
(***************************************************************************)
(* POST /auth/verify-otp, with a code that was mailed or a wrong one.      *)
(***************************************************************************)
EnterCode(p) ==
    /\ \E c \in mailed \cup {None} : Begin(p, [at |-> "get", code |-> c])
    /\ UNCHANGED <<redis, mailed, database, history>>

\* Mutant of Exhausted: one attempt too many.
ExhaustedLater(payload) == payload.attempts > MaxAttempts

Exhausted(payload) == payload.attempts >= MaxAttempts

GetCode(p) ==
    /\ At(p, "get")
    /\ Go(p, IF otp = None THEN Idle
             ELSE IF Exhausted(otp) THEN [at |-> "drop"]
             ELSE IF tx[p].code = otp.code THEN [at |-> "use", code |-> otp.code]
             ELSE [at |-> "ttl", payload |->
                     [code |-> otp.code, attempts |-> otp.attempts + 1]])
    /\ UNCHANGED <<redis, mailed, database, history>>

DropCode(p) ==
    /\ At(p, "drop")
    /\ otp' = None
    /\ End(p)
    /\ UNCHANGED <<cooldown, mailed, database, history>>

\* A wrong attempt is counted if the key still has time to live.
ReadTtl(p) ==
    /\ At(p, "ttl")
    /\ IF otp = None
       THEN End(p) /\ Compared
       ELSE Go(p, [tx[p] EXCEPT !.at = "set"]) /\ UNCHANGED tries
    /\ UNCHANGED <<redis, mailed, database, spent>>

\* Mutant of CountAttempt: what is stored is what was read.
ForgetAttempt(p) ==
    /\ At(p, "set")
    /\ otp' = [tx[p].payload EXCEPT !.attempts = @ - 1]
    /\ End(p) /\ Compared
    /\ UNCHANGED <<cooldown, mailed, database, spent>>

\* It writes back the payload it has read, whatever the key holds by now.
CountAttempt(p) ==
    /\ At(p, "set")
    /\ otp' = tx[p].payload
    /\ End(p) /\ Compared
    /\ UNCHANGED <<cooldown, mailed, database, spent>>

\* Mutant of UseCode: the key is left to its time to live.
KeepCode(p) ==
    /\ At(p, "use")
    /\ spent' = spent \cup {tx[p].code}
    /\ Go(p, [at |-> "user"]) /\ Compared
    /\ UNCHANGED <<redis, mailed, database>>

UseCode(p) ==
    /\ At(p, "use")
    /\ otp' = None
    /\ spent' = spent \cup {tx[p].code}
    /\ Go(p, [at |-> "user"]) /\ Compared
    /\ UNCHANGED <<cooldown, mailed, database>>

FindUser(p) ==
    /\ At(p, "user")
    /\ Go(p, [at |-> "sign_in", user |-> user])
    /\ UNCHANGED <<redis, mailed, database, history>>

\* The row it found must still be there, or the one it makes must be the first.
Inserts(found) == found = user

CommitSignIn(p) ==
    /\ At(p, "sign_in")
    /\ IF Inserts(tx[p].user)
       THEN \E s \in Sessions,
               u \in IF tx[p].user = None THEN Users \ gone ELSE {tx[p].user} :
              /\ sessions[s].state = "unused"
              /\ user' = u
              /\ sessions' = [sessions EXCEPT ![s] = [state |-> "live", user |-> u]]
       ELSE UNCHANGED <<user, sessions>>
    /\ End(p)
    /\ UNCHANGED <<redis, mailed, gone, history>>
-----------------------------------------------------------------------------
(***************************************************************************)
(* POST /auth/refresh and /auth/logout.  The ORM writes the columns that   *)
(* the request changed; a session that is gone makes it fail.              *)
(***************************************************************************)
Present(s) == sessions[s].state \notin NoSession

BeginRefresh(p) ==
    /\ \E s \in Sessions : /\ sessions[s].state = "live"
                           /\ Begin(p, [at |-> "touch", session |-> s])
    /\ UNCHANGED <<redis, mailed, database, history>>

\* Mutant of Touched: the whole row is written as it was loaded.
WrittenBack(row) == [row EXCEPT !.state = "live"]

\* last_used_at is all that changes.
Touched(row) == row

CommitRefresh(p) ==
    /\ At(p, "touch")
    /\ LET s == tx[p].session
       IN  sessions' = IF Present(s)
                       THEN [sessions EXCEPT ![s] = Touched(@)] ELSE sessions
    /\ End(p)
    /\ UNCHANGED <<redis, mailed, user, gone, history>>

BeginLogout(p) ==
    /\ \E s \in Sessions : /\ sessions[s].state = "live"
                           /\ Begin(p, [at |-> "revoke", session |-> s])
    /\ UNCHANGED <<redis, mailed, database, history>>

CommitLogout(p) ==
    /\ At(p, "revoke")
    /\ LET s == tx[p].session
       IN  sessions' = IF Present(s)
                       THEN [sessions EXCEPT ![s].state = "revoked"] ELSE sessions
    /\ End(p)
    /\ UNCHANGED <<redis, mailed, user, gone, history>>
-----------------------------------------------------------------------------
(***************************************************************************)
(* What happens to a request: keys expire, an owner deletes the account    *)
(* (its sessions go with it), the process dies.                            *)
(***************************************************************************)
ExpireCode ==
    /\ otp # None
    /\ otp' = None
    /\ UNCHANGED <<cooldown, mailed, database, tx, overlapped, history>>

ExpireCooldown ==
    /\ cooldown
    /\ cooldown' = FALSE
    /\ UNCHANGED <<otp, mailed, database, tx, overlapped, history>>

\* The last of Users stays: a bound on the deletions.
DeleteUser ==
    /\ user # None
    /\ Users \ gone # {user}
    /\ user' = None
    /\ gone' = gone \cup {user}
    /\ sessions' = [s \in Sessions |-> IF Present(s) THEN [state |-> "deleted"]
                                       ELSE sessions[s]]
    /\ UNCHANGED <<redis, mailed, tx, overlapped, history>>

Crash(p) ==
    /\ tx[p] # Idle
    /\ End(p)
    /\ UNCHANGED <<redis, mailed, database, history>>

Step(p) == \/ AskCode(p) \/ SetCode(p) \/ SetCooldown(p) \/ SendMail(p)
           \/ EnterCode(p) \/ GetCode(p) \/ DropCode(p)
           \/ ReadTtl(p) \/ CountAttempt(p) \/ UseCode(p)
           \/ FindUser(p) \/ CommitSignIn(p)
           \/ BeginRefresh(p) \/ CommitRefresh(p)
           \/ BeginLogout(p) \/ CommitLogout(p)
           \/ Crash(p)

Next == \/ \E p \in Procs : Step(p)
        \/ ExpireCode \/ ExpireCooldown \/ DeleteUser

Spec == Init /\ [][Next]_vars
-----------------------------------------------------------------------------
(***************************************************************************)
(* Properties.                                                             *)
(***************************************************************************)
\* Until two requests overlap, a customer is told at most otp_max_attempts times
\* whether a code is right, whatever expires and whichever request dies.
AttemptsAreCounted == ~overlapped => tries <= MaxAttempts

\* Until two requests overlap, a code that has signed in is out of Redis before
\* the session is made: it does not sign in again.
CodesSignInOnce == ~overlapped => otp = None \/ otp.code \notin spent

\* A session that was logged out stays so, though a refresh that loaded it
\* before commits after.
RevokedStaysRevoked ==
    [][\A s \in Sessions : sessions[s].state = "revoked"
         => sessions'[s].state \in {"revoked", "deleted"}]_vars

\* Every session is one of the account that has the e-mail now: sign-ins that
\* raced each other or a deletion leave no second account and no stray session.
SessionsHaveUser ==
    \A s \in Sessions : Present(s) => sessions[s].user = user
-----------------------------------------------------------------------------
(***************************************************************************)
(* The inductive invariant behind these (UserSideProofs).                  *)
(***************************************************************************)
\* A code is mailed before it can be entered, and used only when it matched.
CodesWereMailed ==
    \A p \in Procs :
        /\ At(p, "cooldown") \/ At(p, "mail") => tx[p].code \in Codes
        /\ At(p, "get") => tx[p].code \in mailed \cup {None}
        /\ At(p, "use") => tx[p].code \in mailed

\* Requests that come one by one find in Redis what the one before left there:
\* the answers given so far are counted, and no code that has been used.
OneByOne ==
    ~overlapped =>
        /\ \A p, q \in Procs : tx[p] # Idle /\ tx[q] # Idle => p = q
        /\ tries <= MaxAttempts
        /\ otp # None => tries <= otp.attempts /\ otp.code \notin spent
        /\ \A p \in Procs :
              /\ At(p, "use") => tries < MaxAttempts
              /\ At(p, "ttl") \/ At(p, "set") =>
                    tries < tx[p].payload.attempts /\ tx[p].payload.code \notin spent

IndInv == TypeOK /\ SessionsHaveUser /\ CodesWereMailed /\ OneByOne
=============================================================================
