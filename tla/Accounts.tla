------------------------------ MODULE Accounts ------------------------------
(***************************************************************************)
(* Accounts and credentials: the tables users and credentials of           *)
(* platform/store.py, and the requests of platform/api.py that use them.   *)
(*                                                                         *)
(* A request is served by a thread of its own in several transactions:     *)
(* principal() authenticates the credential, and the handler follows with  *)
(* up to three more.  Anything may happen between two of them.  Passwords, *)
(* the CSRF token and the rate limits (module RateLimit) are a free choice *)
(* between going on and a refusal that changes nothing here.               *)
(***************************************************************************)

CONSTANTS
    Users,         \* accounts that may come to exist
    HomeOf,        \* the workspace of each
    Creds,         \* credentials that may be issued
    Requests,      \* threads that serve requests
    NoUser, NoCred

ASSUME AccountsAssumption == NoUser \notin Users /\ NoCred \notin Creds

VARIABLES
    account, role,                     \* users
    owner, kind, expired, revoked,     \* credentials
    req,                               \* what each thread is doing
    dropped, overlap                   \* history, for the properties

users   == <<account, role>>
creds   == <<owner, kind, expired, revoked>>
history == <<dropped, overlap>>
accountsVars == <<users, creds, req, history>>

Operations == {"key", "rotate", "revoke", "disable", "create"}

\* A thread is before a transaction ("handler", "issue" or "revoke") of the operation
\* op, by a user, about a target.
Idle == [at |-> "idle", op |-> "key", by |-> NoUser, target |-> NoCred]

AccountsInit ==
    /\ account = [u \in Users |-> "absent"] /\ role = [u \in Users |-> "analyst"]
    /\ owner   = [c \in Creds |-> NoUser]   /\ kind = [c \in Creds |-> "key"]
    /\ expired = [c \in Creds |-> FALSE]    /\ revoked = [c \in Creds |-> FALSE]
    /\ req     = [r \in Requests |-> Idle]
    /\ dropped = {} /\ overlap = FALSE

\* What thread r does next; a reply, 200 or not, makes it idle.
RequestAt(r, l) == req' = [req EXCEPT ![r].at = l]
Replies(r) == req' = [req EXCEPT ![r] = Idle]

\* The lifetime of a credential ends, at any time.
Expire(c) ==
    /\ owner[c] # NoUser /\ ~expired[c]
    /\ expired' = [expired EXCEPT ![c] = TRUE]
    /\ UNCHANGED <<users, owner, kind, revoked, req, history>>

-----------------------------------------------------------------------------
\* authenticate(): one query over both tables.
Authentic(c) ==
    /\ owner[c] # NoUser /\ ~revoked[c] /\ ~expired[c]
    /\ account[owner[c]] = "active"

Disabling(r) == req[r].op = "disable" /\ req[r].at = "handler"

\* A request arrives with a credential, and is refused or served.
Refuse(r, c) == req[r] = Idle /\ owner[c] # NoUser /\ ~Authentic(c) /\ UNCHANGED accountsVars

Authenticate(r, o, c, x) ==
    /\ req[r] = Idle
    /\ Authentic(c)
    /\ req' = [req EXCEPT ![r] = [at |-> IF o = "key" THEN "issue" ELSE "handler", op |-> o,
                                  by |-> owner[c], target |-> x]]
    /\ overlap' = (overlap \/ (o = "disable" /\ \E q \in Requests : Disabling(q)))
    /\ UNCHANGED <<users, creds, dropped>>

-----------------------------------------------------------------------------
\* login() reads an active account and compares passwords; key-issue of the
\* command line reads one too.  Both issue in a transaction of their own.
LookUp(r, o, u) ==
    /\ req[r] = Idle
    /\ account[u] = "active"
    /\ req' = [req EXCEPT ![r] = [Idle EXCEPT !.at = "issue", !.op = o, !.by = u]]
    /\ UNCHANGED <<users, creds, history>>

\* issue(), for POST /api/keys, a rotation, a login and the command line.
Kind(r) == IF req[r].op = "login" THEN "session" ELSE "key"

Issue(r, c) ==
    /\ req[r].at = "issue"
    /\ owner[c] = NoUser
    /\ owner' = [owner EXCEPT ![c] = req[r].by]
    /\ kind'  = [kind EXCEPT ![c] = Kind(r)]
    /\ IF req[r].op = "rotate" THEN RequestAt(r, "revoke") ELSE Replies(r)
    /\ UNCHANGED <<users, expired, revoked, history>>

\* POST /api/keys/{kid}/rotate: look, issue, revoke.
RotateRevokesFirst(r) ==                                                     \* mutant
    LET c == req[r].target
    IN /\ req[r].at = "handler" /\ req[r].op = "rotate"
       /\ c \in Creds
       /\ IF owner[c] = req[r].by /\ kind[c] = "key" /\ ~revoked[c]
          THEN RequestAt(r, "issue") /\ revoked' = [revoked EXCEPT ![c] = TRUE]
          ELSE Replies(r) /\ UNCHANGED revoked
       /\ UNCHANGED <<users, owner, kind, expired, history>>

Rotate(r) ==
    LET c == req[r].target
    IN /\ req[r].at = "handler" /\ req[r].op = "rotate"
       /\ c \in Creds
       /\ IF owner[c] = req[r].by /\ kind[c] = "key" /\ ~revoked[c]
          THEN RequestAt(r, "issue") ELSE Replies(r)
       /\ UNCHANGED <<users, creds, history>>

\* store.revoke(), at the end of a rotation and for a key or (logout) a session.
Revoke(r) ==
    LET c == req[r].target
    IN /\ \/ req[r].at = "revoke"
          \/ req[r].at = "handler" /\ req[r].op = "revoke"
       /\ c \in Creds
       /\ revoked' = IF owner[c] = req[r].by THEN [revoked EXCEPT ![c] = TRUE] ELSE revoked
       /\ dropped' = IF req[r].op = "revoke" THEN dropped \cup {req[r].by} ELSE dropped
       /\ Replies(r)
       /\ UNCHANGED <<users, owner, kind, expired, overlap>>

MayDisableAnyone(r) == role[req[r].by] = "admin"                             \* mutant

MayDisable(r) == role[req[r].by] = "admin" /\ req[r].target # req[r].by

\* DELETE /api/users/{uid}.
Disable(r) ==
    LET u == req[r].target
    IN /\ req[r].at = "handler" /\ req[r].op = "disable"
       /\ u \in Users
       /\ account' = IF MayDisable(r) /\ account[u] = "active" /\ HomeOf[u] = HomeOf[req[r].by]
                     THEN [account EXCEPT ![u] = "disabled"] ELSE account
       /\ Replies(r)
       /\ UNCHANGED <<role, creds, history>>

\* create_user(), by an administrator for the own workspace.
Create(r, p) ==
    LET u == req[r].target
    IN /\ req[r].at = "handler" /\ req[r].op = "create"
       /\ u \in Users
       /\ IF role[req[r].by] = "admin" /\ account[u] = "absent" /\ HomeOf[u] = HomeOf[req[r].by]
          THEN account' = [account EXCEPT ![u] = "active"] /\ role' = [role EXCEPT ![u] = p]
          ELSE UNCHANGED users
       /\ Replies(r)
       /\ UNCHANGED <<creds, history>>

\* Refusals by principal() (CSRF, rate limits) and by the handler (roles, limits).
Closes(r) ==
    /\ req[r].at = "handler" \/ (req[r].at = "issue" /\ req[r].op = "key")
    /\ Replies(r)
    /\ UNCHANGED <<users, creds, history>>

\* user-add of the command line.
UserAdd(u, p) ==
    /\ account[u] = "absent"
    /\ account' = [account EXCEPT ![u] = "active"]
    /\ role' = [role EXCEPT ![u] = p]
    /\ UNCHANGED <<creds, req, history>>

\* External: the API dies in the middle of its requests.
ApiDies ==
    /\ \E r \in Requests : req[r] # Idle
    /\ req' = [r \in Requests |-> Idle]
    /\ UNCHANGED <<users, creds, history>>

\* What a request is about: a credential, or an account to disable or to create.
Targets(o) == CASE o \in {"rotate", "revoke"} -> {c \in Creds : owner[c] # NoUser}
                [] o = "disable"              -> {u \in Users : account[u] # "absent"}
                [] o = "create"               -> {u \in Users : account[u] = "absent"}
                [] OTHER                      -> {NoCred}

Serve(r) ==
    \/ \E o \in Operations, c \in Creds : \E x \in Targets(o) : Authenticate(r, o, c, x)
    \/ \E c \in Creds : Refuse(r, c)
    \/ \E o \in {"login", "cli"}, u \in Users : LookUp(r, o, u)
    \/ \E c \in Creds : Issue(r, c)
    \/ Rotate(r) \/ Revoke(r) \/ Disable(r) \/ Closes(r)
    \/ \E p \in {"admin", "analyst"} : Create(r, p)

AccountsNext ==
    \/ \E c \in Creds : Expire(c)
    \/ \E r \in Requests : Serve(r)
    \/ \E u \in Users, p \in {"admin", "analyst"} : UserAdd(u, p)
    \/ ApiDies

AccountsSpec == AccountsInit /\ [][AccountsNext]_accountsVars

-----------------------------------------------------------------------------
\* Whoever only rotates keys, from several places at once and with an API that
\* dies in between, always has one that is not revoked.
KeysOf(u) == {c \in Creds : owner[c] = u /\ kind[c] = "key"}

RotationKeepsKey ==
    \A u \in Users \ dropped : KeysOf(u) # {} => \E c \in KeysOf(u) : ~revoked[c]

\* A workspace with an administrator keeps one, unless two of them were disabling
\* at the same time: disable() looks at the role and the own account only.
WorkspaceKeepsAdmin ==
    overlap \/ \A u \in Users : account[u] # "absent" /\ role[u] = "admin" =>
        \E v \in Users : HomeOf[v] = HomeOf[u] /\ role[v] = "admin" /\ account[v] = "active"
=============================================================================
