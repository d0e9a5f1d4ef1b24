------------------------------ MODULE Sessions -----------------------------
(***************************************************************************)
(* Accounts and their sessions: registration, login, change of password    *)
(* and logout.  The account is a row of the database, the sessions and the *)
(* index of the sessions of an account are keys of Redis with a time to    *)
(* live.  Each request runs in a thread of its own; one step of a request  *)
(* is one call to Redis or to the database.                                *)
(*                                                                         *)
(* A session is named by the login that opened it (ids are random), an     *)
(* account by its mail, and verifying a password compares it with the one  *)
(* that was hashed.  The limit on failed logins is LoginAttempts' concern. *)
(***************************************************************************)
EXTENDS Naturals

CONSTANTS
    Requests,
    Mails,
    Passwords,
    None,         \* no row, no key, no answer yet
    TTL,          \* session_ttl_seconds
    MaxTime       \* bound on the clock

SessionConstants ==
    /\ None \notin Requests \union Passwords \union Mails
    /\ TTL \in Nat \ {0}
    /\ MaxTime \in Nat

VARIABLES
    users,        \* committed rows of users
    writer,       \* the request whose uncommitted write holds the row
    session,      \* keys auth_session:*
    index,        \* keys auth_user_sessions:*
    req,          \* the requests
    crossed,      \* logins that ran while a change was revoking sessions
    now

vars == <<users, writer, session, index, req, crossed, now>>

\* version counts the changes of the password.
User == [password : Passwords, version : Nat]
Session == [mail : Mails, version : Nat, expires : Nat]
Index == [members : SUBSET Requests, expires : Nat]

Steps == {"new", "verify", "create", "lookup", "insert", "register",
          "account", "flush", "members", "revoke", "commit",
          "drop", "done"}
Answers == {"ok", "refused", "error", "clash", None}

(***************************************************************************)
(* password: what the client typed; new: the one to change to.  version is *)
(* that of the password which was verified; of: the session of the cookie; *)
(* keys: what SMEMBERS returned, or the GET of a logout found.             *)
(***************************************************************************)
Request == [ step : Steps,
             mail : Mails \union {None},
             password : Passwords \union {None},
             new : Passwords \union {None},
             version : Nat,
             of : Requests \union {None},
             keys : SUBSET Requests,
             answer : Answers ]

TypeOK ==
    /\ users \in [Mails -> User \union {None}]
    /\ writer \in [Mails -> Requests \union {None}]
    /\ session \in [Requests -> Session \union {None}]
    /\ index \in [Mails -> Index]
    /\ req \in [Requests -> Request]
    /\ crossed \subseteq Requests
    /\ now \in Nat

Live(s) == session[s] # None /\ now < session[s].expires

\* What SMEMBERS returns; a key that expired is an empty set.
Members(m) == IF now < index[m].expires THEN index[m].members ELSE {}

-----------------------------------------------------------------------------
NewRequest ==
    [ step |-> "new", mail |-> None, password |-> None, new |-> None,
      version |-> 0, of |-> None, keys |-> {}, answer |-> None ]

Init ==
    /\ users \in [Mails -> {None} \union [password : Passwords, version : {0}]]
    /\ writer = [m \in Mails |-> None]
    /\ session = [r \in Requests |-> None]
    /\ index = [m \in Mails |-> [members |-> {}, expires |-> 0]]
    /\ req = [r \in Requests |-> NewRequest]
    /\ crossed = {}
    /\ now = 0

At(r, step) == req[r].step = step

Becomes(r, record) == req' = [req EXCEPT ![r] = record]
Goto(r, step) == Becomes(r, [req[r] EXCEPT !.step = step])
Ends(r, answer) ==
    Becomes(r, [req[r] EXCEPT !.step = "done", !.answer = answer])

Holds(r) == {m \in Mails : writer[m] = r}

\* slip: the session of the database is not closed after an error
Kept(r) == writer

\* The end of a transaction, by commit, rollback or the death of the process.
Released(r) == [m \in Mails |-> IF m \in Holds(r) THEN None ELSE writer[m]]

\* A call fails, without effect, or the process dies: the client gets 500 or
\* nothing, get_db closes the transaction.
RequestFails(r) ==
    /\ ~At(r, "new") /\ ~At(r, "done")
    /\ Ends(r, "error")
    /\ writer' = Released(r)
    /\ UNCHANGED <<users, session, index, crossed, now>>

-----------------------------------------------------------------------------
\* register_user: the look-up, the insert, the commit.
StartRegister(r, m, password) ==
    /\ At(r, "new")
    /\ Becomes(r, [req[r] EXCEPT !.step = "lookup", !.mail = m,
                                 !.password = password])
    /\ UNCHANGED <<users, writer, session, index, crossed, now>>

LookUp(r) ==
    /\ At(r, "lookup")
    /\ IF users[req[r].mail] = None
       THEN Goto(r, "insert")
       ELSE Ends(r, "refused")
    /\ UNCHANGED <<users, writer, session, index, crossed, now>>

\* The unique index makes an insert wait for an uncommitted one ...
CanInsert(m) == writer[m] = None

\* ... and raises for a committed one: IntegrityError, which nothing catches.
Insert(r) ==
    LET m == req[r].mail IN
    /\ At(r, "insert")
    /\ CanInsert(m)
    /\ IF users[m] = None
       THEN Goto(r, "register") /\ writer' = [writer EXCEPT ![m] = r]
       ELSE Ends(r, "clash") /\ UNCHANGED writer
    /\ UNCHANGED <<users, session, index, crossed, now>>

\* The answer may be lost after the commit.
CommitRegister(r) ==
    LET m == req[r].mail IN
    /\ At(r, "register")
    /\ \E answer \in {"ok", "error"} : Ends(r, answer)
    /\ users' = [users EXCEPT ![m] =
                   [password |-> req[r].password, version |-> 0]]
    /\ writer' = Released(r)
    /\ UNCHANGED <<session, index, crossed, now>>

-----------------------------------------------------------------------------
StartLogin(r, m, password) ==
    /\ At(r, "new")
    /\ Becomes(r, [req[r] EXCEPT !.step = "verify", !.mail = m,
                                 !.password = password])
    /\ UNCHANGED <<users, writer, session, index, crossed, now>>

\* A change of the account is past its SMEMBERS and not yet committed.
Revoking(m) ==
    \E r \in Requests : req[r].mail = m /\ req[r].step \in {"revoke", "commit"}

\* login_user.
Verify(r) ==
    LET m == req[r].mail IN
    /\ At(r, "verify")
    /\ IF users[m] # None /\ users[m].password = req[r].password
       THEN /\ Becomes(r, [req[r] EXCEPT !.step = "create",
                                         !.version = users[m].version])
            /\ crossed' = IF Revoking(m) THEN crossed \union {r} ELSE crossed
       ELSE Ends(r, "refused") /\ UNCHANGED crossed
    /\ UNCHANGED <<users, writer, session, index, now>>

\* slip: EXPIRE with NX, the index keeps the time of its first session
KeepsTime(m) == IF now < index[m].expires THEN index[m].expires ELSE now + TTL

IndexExpires(m) == now + TTL

\* create_session: SET, SADD and EXPIRE in one transaction of Redis, whose
\* answer may be lost.
CreateSession(r) ==
    LET m == req[r].mail IN
    /\ At(r, "create")
    /\ \E answer \in {"ok", "error"} : Ends(r, answer)
    /\ session' = [session EXCEPT ![r] =
         [mail |-> m, version |-> req[r].version, expires |-> now + TTL]]
    /\ index' = [index EXCEPT ![m] =
         [members |-> Members(m) \union {r}, expires |-> IndexExpires(m)]]
    /\ UNCHANGED <<users, writer, crossed, now>>

-----------------------------------------------------------------------------
\* A client has the cookies of the answers that reached it.
HasCookie(s) == req[s].answer = "ok"

\* change_password: get_current_user looks the session of the cookie up ...
StartChange(r, s, password, new) ==
    /\ At(r, "new")
    /\ HasCookie(s)
    /\ IF Live(s)
       THEN Becomes(r, [req[r] EXCEPT !.step = "account", !.of = s,
                                      !.mail = session[s].mail,
                                      !.password = password, !.new = new])
       ELSE Ends(r, "refused")
    /\ UNCHANGED <<users, writer, session, index, crossed, now>>

\* ... and reads the row, which the service compares with what was typed.
VerifyCurrent(r) ==
    LET user == users[req[r].mail] IN
    /\ At(r, "account")
    /\ IF user # None /\ user.password = req[r].password
                      /\ req[r].new # user.password
       THEN Goto(r, "flush")
       ELSE Ends(r, "refused")
    /\ UNCHANGED <<users, writer, session, index, crossed, now>>

\* The UPDATE waits for the lock on the row.
Flush(r) ==
    LET m == req[r].mail IN
    /\ At(r, "flush")
    /\ writer[m] = None
    /\ Goto(r, "members")
    /\ writer' = [writer EXCEPT ![m] = r]
    /\ UNCHANGED <<users, session, index, crossed, now>>

\* delete_all_user_sessions: the SMEMBERS.
ReadMembers(r) ==
    LET m == req[r].mail IN
    /\ At(r, "members")
    /\ Becomes(r, [req[r] EXCEPT !.step = "revoke", !.keys = Members(m)])
    /\ crossed' = crossed \union
                    {q \in Requests : At(q, "create") /\ req[q].mail = m}
    /\ UNCHANGED <<users, writer, session, index, now>>

\* The sessions without those of the keys.
Without(keys) == [s \in Requests |-> IF s \in keys THEN None ELSE session[s]]

\* slip: only the session of the request is ended
OwnRevoked(r) == {req[r].of}

Revoked(r) == req[r].keys

\* delete_all_user_sessions: both deletions in one transaction of Redis.
Revoke(r) ==
    /\ At(r, "revoke")
    /\ session' = Without(Revoked(r))
    /\ index' = [index EXCEPT ![req[r].mail] = [members |-> {}, expires |-> 0]]
    /\ \/ Goto(r, "commit") /\ UNCHANGED writer
       \/ Ends(r, "error") /\ writer' = Released(r)
    /\ UNCHANGED <<users, crossed, now>>

CommitChange(r) ==
    LET m == req[r].mail IN
    /\ At(r, "commit")
    /\ \E answer \in {"ok", "error"} : Ends(r, answer)
    /\ users' = [users EXCEPT ![m] = [password |-> req[r].new,
                                      version |-> users[m].version + 1]]
    /\ writer' = Released(r)
    /\ UNCHANGED <<session, index, crossed, now>>

-----------------------------------------------------------------------------
\* delete_session: the GET ...
StartLogout(r, s) ==
    /\ At(r, "new")
    /\ HasCookie(s)
    /\ IF Live(s)
       THEN Becomes(r, [req[r] EXCEPT !.step = "drop", !.of = s,
                                      !.mail = session[s].mail,
                                      !.keys = {s}])
       ELSE Becomes(r, [req[r] EXCEPT !.step = "drop", !.of = s])
    /\ UNCHANGED <<users, writer, session, index, crossed, now>>

\* ... and the transaction: SREM only if the GET found the owner.  SREM
\* leaves the time to live of the index alone.
Drop(r) ==
    LET s == req[r].of
        m == req[r].mail IN
    /\ At(r, "drop")
    /\ \E answer \in {"ok", "error"} : Ends(r, answer)
    /\ session' = Without({s})
    /\ IF req[r].keys = {} THEN UNCHANGED index
       ELSE index' = [index EXCEPT ![m] =
              [members |-> Members(m) \ {s}, expires |-> index[m].expires]]
    /\ UNCHANGED <<users, writer, crossed, now>>

Tick ==
    /\ now < MaxTime
    /\ now' = now + 1
    /\ UNCHANGED <<users, writer, session, index, req, crossed>>

Step(r) ==
    \/ LookUp(r) \/ Insert(r) \/ CommitRegister(r)
    \/ Verify(r) \/ CreateSession(r)
    \/ VerifyCurrent(r) \/ Flush(r) \/ ReadMembers(r) \/ Revoke(r)
    \/ CommitChange(r)
    \/ Drop(r)

Next ==
    \/ \E r \in Requests :
          \/ \E m \in Mails, password \in Passwords :
                StartRegister(r, m, password) \/ StartLogin(r, m, password)
          \/ \E s \in Requests, password, new \in Passwords :
                StartChange(r, s, password, new)
          \/ \E s \in Requests : StartLogout(r, s)
          \/ Step(r)
          \/ RequestFails(r)
    \/ Tick

Spec == Init /\ [][Next]_vars

\* Threads go on; clients and the clock owe nothing.
Fairness == \A r \in Requests : WF_vars(Step(r))

FairSpec == Spec /\ Fairness

-----------------------------------------------------------------------------
\* A session opened with a password that has been changed since has been
\* ended, and one that lives is where the next change will find it, in the
\* index of its account: whatever logged in, logged out, failed or expired
\* before, when changes meet, when a commit is not answered and when the
\* revocation succeeds before a change fails.  Only a login that ran while a
\* change was revoking the sessions may be missed.
OldPasswordsSignedOut ==
    \A s \in Requests :
        Live(s) /\ s \notin crossed =>
            LET m == session[s].mail IN
            /\ s \in Members(m)
            /\ users[m] # None
            /\ session[s].version = users[m].version

\* No request waits for ever for the lock of another one, also not for one
\* that failed or died between its write and its commit.
RequestsEnd == \A r \in Requests : ~At(r, "new") ~> At(r, "done")
=============================================================================
