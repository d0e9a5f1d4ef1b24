--------------------------- MODULE AccountsProofs ---------------------------
(***************************************************************************)
(* Proofs about what signing in is made of, for any requests, mails,       *)
(* passwords, limits and numbers of requests in flight: the sessions of    *)
(* the server, the limit on failed logins and the session of a tab, each   *)
(* from an inductive invariant of its own, and that every run of           *)
(* MCAccounts is a run of each of them.                                    *)
(***************************************************************************)
EXTENDS MCAccounts, FiniteSetTheorems, TLAPS

-----------------------------------------------------------------------------
(***************************************************************************)
(* Sessions.  A session that lives is in an index that lives as long       *)
(* (Indexed), so what a change reads between taking the lock on the row    *)
(* and revoking is every session there is but those of logins in progress, *)
(* which are the crossed ones (LoggingIn); what it revokes is therefore    *)
(* all that was opened with the old password (Revocations).                *)
(***************************************************************************)

\* The steps at which a request holds the lock on the row of its account.
Locking == {"register", "members", "revoke", "commit"}

\* What a request needs to know at its step.
Placed(r) ==
    /\ req[r].step \notin {"new", "drop", "done"} =>
          req[r].mail \in Mails /\ req[r].password \in Passwords
    /\ req[r].step = "new" => req[r].keys = {}
    /\ req[r].step = "drop" /\ req[r].keys # {} => req[r].mail \in Mails
    /\ req[r].step \in {"account", "flush", "members", "revoke", "commit"} =>
          req[r].new \in Passwords
    /\ req[r].step \in {"flush", "members", "revoke", "commit"} =>
          users[req[r].mail] \in User
    /\ req[r].step \in Locking => writer[req[r].mail] = r
    /\ req[r].step = "register" => users[req[r].mail] = None

\* The sessions the next change is responsible for.
Valid(s) == Live(s) /\ s \notin crossed

\* A valid session was opened with the present password, and the index of its
\* account has it for as long as it lives.
Indexed ==
    \A s \in Requests :
        /\ session[s] # None => session[s].expires <= now + TTL
        /\ Valid(s) =>
              LET m == session[s].mail IN
              /\ s \in index[m].members
              /\ session[s].expires <= index[m].expires
              /\ users[m] # None
              /\ session[s].version = users[m].version

\* A login in progress has verified the present password, or crosses a change.
LoggingIn ==
    \A q \in Requests :
        At(q, "create") /\ q \notin crossed =>
            /\ users[req[q].mail] # None
            /\ req[q].version = users[req[q].mail].version
            /\ ~Revoking(req[q].mail)

\* What a change has read, and then revoked, are all valid sessions.
Revocations ==
    \A r, s \in Requests :
        Valid(s) /\ session[s].mail = req[r].mail =>
            /\ At(r, "revoke") => s \in req[r].keys
            /\ ~At(r, "commit")

SessionInv ==
    /\ TypeOK
    /\ \A r \in Requests : Placed(r)
    /\ Indexed
    /\ LoggingIn
    /\ Revocations

-----------------------------------------------------------------------------
LEMMA SessionInit ==
  ASSUME SessionConstants, Init
  PROVE  SessionInv
<1>1. /\ req \in [Requests -> Request]
      /\ \A r \in Requests : req[r].step = "new" /\ req[r].keys = {}
  BY DEF Init, NewRequest, Request, Steps, Answers
<1>2. TypeOK
  BY <1>1 DEF Init, TypeOK, User, Session, Index
<1>3. \A r \in Requests : Placed(r)
  BY <1>1 DEF Placed, Locking
<1>4. Indexed /\ LoggingIn /\ Revocations
  BY <1>1 DEF Init, Indexed, LoggingIn, Revocations, Valid, Live, At
<1>5. QED
  BY <1>2, <1>3, <1>4 DEF SessionInv

\* What becomes of the requests when one is replaced.
LEMMA Replaced ==
  ASSUME TypeOK, NEW r \in Requests, NEW x \in Request, Becomes(r, x)
  PROVE  /\ req' \in [Requests -> Request]
         /\ req'[r] = x
         /\ \A q \in Requests : q # r => req'[q] = req[q]
  BY DEF TypeOK, Becomes

\* A request that goes on, and one that ends.
LEMMA Gone ==
  ASSUME TypeOK, NEW r \in Requests
  PROVE  /\ \A step \in Steps : Goto(r, step) =>
              \E x \in Request :
                 /\ Becomes(r, x)
                 /\ x.step = step /\ x.mail = req[r].mail
                 /\ x.password = req[r].password /\ x.new = req[r].new
                 /\ x.version = req[r].version /\ x.of = req[r].of
                 /\ x.keys = req[r].keys
         /\ \A answer \in Answers : Ends(r, answer) =>
              \E x \in Request : Becomes(r, x) /\ x.step = "done"
<1>1. req[r] \in Request
  BY DEF TypeOK
<1>2. ASSUME NEW step \in Steps, Goto(r, step)
      PROVE  \E x \in Request :
                /\ Becomes(r, x)
                /\ x.step = step /\ x.mail = req[r].mail
                /\ x.password = req[r].password /\ x.new = req[r].new
                /\ x.version = req[r].version /\ x.of = req[r].of
                /\ x.keys = req[r].keys
  <2> DEFINE x == [req[r] EXCEPT !.step = step]
  <2>1. x \in Request
    BY <1>1 DEF Request
  <2>2. /\ x.step = step /\ x.mail = req[r].mail
        /\ x.password = req[r].password /\ x.new = req[r].new
        /\ x.version = req[r].version /\ x.of = req[r].of
        /\ x.keys = req[r].keys
    BY <1>1 DEF Request
  <2>3. QED
    BY <1>2, <2>1, <2>2 DEF Goto
<1>3. ASSUME NEW answer \in Answers, Ends(r, answer)
      PROVE  \E x \in Request : Becomes(r, x) /\ x.step = "done"
  <2> DEFINE x == [req[r] EXCEPT !.step = "done", !.answer = answer]
  <2>1. x \in Request
    BY <1>1 DEF Request, Steps
  <2>2. x.step = "done"
    BY <1>1 DEF Request
  <2>3. QED
    BY <1>3, <2>1, <2>2 DEF Ends
<1>4. QED
  BY <1>2, <1>3

\* The end of a transaction frees the rows of its request only.
LEMMA ReleasedType ==
  ASSUME SessionConstants, TypeOK, NEW r \in Requests
  PROVE  /\ Released(r) \in [Mails -> Requests \union {None}]
         /\ \A m \in Mails : writer[m] # r => Released(r)[m] = writer[m]
  BY DEF TypeOK, Released, Holds

\* A request goes to a step at which it neither holds a lock nor has a session
\* to open; it may end its transaction.
LEMMA PlainStep ==
  ASSUME SessionConstants, SessionInv, NEW r \in Requests, NEW x \in Request,
         Becomes(r, x),
         x.step \notin Locking \union {"new", "create"},
         x.step \notin {"drop", "done"} =>
            x.mail \in Mails /\ x.password \in Passwords,
         x.step = "drop" /\ x.keys # {} => x.mail \in Mails,
         x.step \in {"account", "flush"} => x.new \in Passwords,
         x.step = "flush" => users[x.mail] \in User,
         writer' = writer \/ writer' = Released(r),
         UNCHANGED <<users, session, index, crossed, now>>
  PROVE  SessionInv'
<1>1. /\ req' \in [Requests -> Request]
      /\ req'[r] = x
      /\ \A q \in Requests : q # r => req'[q] = req[q]
  BY Replaced DEF SessionInv
<1>2. /\ writer' \in [Mails -> Requests \union {None}]
      /\ \A m \in Mails : writer[m] # r => writer'[m] = writer[m]
  BY ReleasedType DEF SessionInv, TypeOK
<1>3. TypeOK'
  BY <1>1, <1>2 DEF SessionInv, TypeOK
<1>4. Placed(r)'
  BY <1>1 DEF Placed, Locking
<1>5. ASSUME NEW q \in Requests, q # r PROVE Placed(q)'
  BY <1>1, <1>2, <1>5 DEF SessionInv, Placed, Locking
<1>6. Indexed'
  BY DEF SessionInv, Indexed, Valid, Live
<1>7. LoggingIn'
  BY <1>1 DEF SessionInv, LoggingIn, At, Revoking, Locking
<1>8. Revocations'
  BY <1>1 DEF SessionInv, Revocations, At, Valid, Live, Locking
<1>9. QED
  BY <1>3, <1>4, <1>5, <1>6, <1>7, <1>8 DEF SessionInv

LEMMA EndsKeep ==
  ASSUME SessionConstants, SessionInv, NEW r \in Requests,
         NEW answer \in Answers,
         Ends(r, answer),
         writer' = writer \/ writer' = Released(r),
         UNCHANGED <<users, session, index, crossed, now>>
  PROVE  SessionInv'
<1>1. PICK x \in Request : Becomes(r, x) /\ x.step = "done"
  BY Gone DEF SessionInv
<1>2. QED
  BY <1>1, PlainStep DEF Locking

\* The requests that arrive.
LEMMA StartsKeep ==
  ASSUME SessionConstants, SessionInv, NEW r \in Requests,
         \/ \E m \in Mails, password \in Passwords :
               StartRegister(r, m, password) \/ StartLogin(r, m, password)
         \/ \E s \in Requests, password, new \in Passwords :
               StartChange(r, s, password, new)
         \/ \E s \in Requests : StartLogout(r, s)
  PROVE  SessionInv'
<1>1. req[r] \in Request
  BY DEF SessionInv, TypeOK
<1>2. UNCHANGED <<users, writer, session, index, crossed, now>>
  BY DEF StartRegister, StartLogin, StartChange, StartLogout
<1>3. ASSUME NEW s \in Requests, Live(s)
      PROVE  session[s].mail \in Mails
  BY <1>3 DEF SessionInv, TypeOK, Live, Session
<1>4. ASSUME NEW m \in Mails, NEW password \in Passwords,
             StartRegister(r, m, password) \/ StartLogin(r, m, password)
      PROVE  SessionInv'
  <2>1. PICK step \in {"lookup", "verify"} :
           Becomes(r, [req[r] EXCEPT !.step = step, !.mail = m,
                                     !.password = password])
    BY <1>4 DEF StartRegister, StartLogin
  <2> DEFINE x == [req[r] EXCEPT !.step = step, !.mail = m,
                                 !.password = password]
  <2>2. x \in Request
    BY <1>1 DEF Request, Steps
  <2>3. x.step = step /\ x.mail = m /\ x.password = password
    BY <1>1 DEF Request
  <2> HIDE DEF x
  <2>4. QED
    BY <1>2, <2>1, <2>2, <2>3, PlainStep DEF Locking, x
<1>5. ASSUME NEW s \in Requests, NEW password \in Passwords,
             NEW new \in Passwords,
             StartChange(r, s, password, new)
      PROVE  SessionInv'
  <2>1. CASE ~Live(s)
    BY <1>2, <1>5, <2>1, EndsKeep DEF StartChange, Answers
  <2>2. CASE Live(s)
    <3> DEFINE x == [req[r] EXCEPT !.step = "account", !.of = s,
                                   !.mail = session[s].mail,
                                   !.password = password, !.new = new]
    <3>1. Becomes(r, x)
      BY <1>5, <2>2 DEF StartChange
    <3>2. x \in Request
      BY <1>1, <1>3, <2>2 DEF Request, Steps
    <3>3. /\ x.step = "account" /\ x.mail \in Mails
          /\ x.password = password /\ x.new = new
      BY <1>1, <1>3, <2>2 DEF Request
    <3> HIDE DEF x
    <3>4. QED
      BY <1>2, <3>1, <3>2, <3>3, PlainStep DEF Locking
  <2>3. QED
    BY <2>1, <2>2
<1>6. ASSUME NEW s \in Requests, StartLogout(r, s)
      PROVE  SessionInv'
  <2>1. req[r].step = "new"
    BY <1>6 DEF StartLogout, At
  <2>2. CASE ~Live(s)
    <3> DEFINE x == [req[r] EXCEPT !.step = "drop", !.of = s]
    <3>1. Becomes(r, x)
      BY <1>6, <2>2 DEF StartLogout
    <3>2. x \in Request
      BY <1>1 DEF Request, Steps
    <3>3. x.step = "drop" /\ x.keys = req[r].keys /\ x.mail = req[r].mail
      BY <1>1 DEF Request
    <3> HIDE DEF x
    <3>4. x.keys = {}
      BY <2>1, <3>3 DEF SessionInv, Placed
    <3>5. QED
      BY <1>2, <3>1, <3>2, <3>3, <3>4, PlainStep DEF Locking
  <2>3. CASE Live(s)
    <3> DEFINE x == [req[r] EXCEPT !.step = "drop", !.of = s,
                                   !.mail = session[s].mail, !.keys = {s}]
    <3>1. Becomes(r, x)
      BY <1>6, <2>3 DEF StartLogout
    <3>2. x \in Request
      BY <1>1, <1>3, <2>3 DEF Request, Steps
    <3>3. x.step = "drop" /\ x.mail \in Mails
      BY <1>1, <1>3, <2>3 DEF Request
    <3> HIDE DEF x
    <3>4. QED
      BY <1>2, <3>1, <3>2, <3>3, PlainStep DEF Locking
  <2>4. QED
    BY <2>2, <2>3
<1>7. QED
  BY <1>4, <1>5, <1>6

\* The steps that read, and the ends without an effect.
LEMMA ReadsKeep ==
  ASSUME SessionConstants, SessionInv, NEW r \in Requests,
         \/ LookUp(r) \/ VerifyCurrent(r) \/ RequestFails(r)
         \/ Verify(r) /\ req'[r].step # "create"
         \/ Insert(r) /\ req'[r].step # "register"
  PROVE  SessionInv'
<1>1. ASSUME NEW step \in {"insert", "flush"}, Goto(r, step),
             req[r].step \in {"lookup", "account"},
             step = "flush" => /\ users[req[r].mail] \in User
                               /\ req[r].step = "account",
             UNCHANGED <<users, writer, session, index, crossed, now>>
      PROVE  SessionInv'
  <2>1. step \in Steps
    BY DEF Steps
  <2>2. PICK x \in Request :
           /\ Becomes(r, x)
           /\ x.step = step /\ x.mail = req[r].mail
           /\ x.password = req[r].password /\ x.new = req[r].new
    BY <1>1, <2>1, Gone DEF SessionInv
  <2>3. /\ req[r].mail \in Mails /\ req[r].password \in Passwords
        /\ req[r].step = "account" => req[r].new \in Passwords
    BY <1>1 DEF SessionInv, Placed
  <2>4. QED
    BY <1>1, <2>2, <2>3, PlainStep DEF Locking
<1>2. CASE LookUp(r)
  <2>1. CASE users[req[r].mail] = None
    BY <1>1, <1>2, <2>1 DEF LookUp, At
  <2>2. CASE users[req[r].mail] # None
    BY <1>2, <2>2, EndsKeep DEF LookUp, Answers
  <2>3. QED
    BY <2>1, <2>2
<1>3. CASE VerifyCurrent(r)
  <2> DEFINE account == users[req[r].mail]
             right == /\ account # None /\ account.password = req[r].password
                      /\ req[r].new # account.password
  <2>1. CASE right
    <3>1. req[r].step = "account" /\ Goto(r, "flush")
          /\ UNCHANGED <<users, writer, session, index, crossed, now>>
      BY <1>3, <2>1 DEF VerifyCurrent, At
    <3>2. req[r].mail \in Mails
      BY <3>1 DEF SessionInv, Placed
    <3>3. users[req[r].mail] \in User
      BY <2>1, <3>2 DEF SessionInv, TypeOK
    <3>4. QED
      BY <1>1, <3>1, <3>3
  <2>2. CASE ~right
    BY <1>3, <2>2, EndsKeep DEF VerifyCurrent, Answers
  <2>3. QED
    BY <2>1, <2>2
<1>4. CASE RequestFails(r)
  BY <1>4, EndsKeep DEF RequestFails, Answers
<1>5. CASE Verify(r) /\ req'[r].step # "create"
  <2>1. req \in [Requests -> Request] /\ req[r] \in Request
    BY DEF SessionInv, TypeOK
  <2>2. ~(users[req[r].mail] # None
          /\ users[req[r].mail].password = req[r].password)
    <3>1. SUFFICES ASSUME NEW version,
                          Becomes(r, [req[r] EXCEPT !.step = "create",
                                                    !.version = version])
                   PROVE  req'[r].step = "create"
      BY <1>5 DEF Verify
    <3>2. [req[r] EXCEPT !.step = "create",
          !.version = version].step = "create"
      BY <2>1 DEF Request
    <3>3. QED
      BY <2>1, <3>1, <3>2 DEF Becomes
  <2>3. QED
    BY <1>5, <2>2, EndsKeep DEF Verify, Answers
<1>6. CASE Insert(r) /\ req'[r].step # "register"
  <2>1. req \in [Requests -> Request] /\ req[r] \in Request
    BY DEF SessionInv, TypeOK
  <2>2. users[req[r].mail] # None
    BY <1>6, <2>1 DEF Insert, Goto, Becomes, Request
  <2>3. QED
    BY <1>6, <2>2, EndsKeep DEF Insert, Answers
<1>7. QED
  BY <1>2, <1>3, <1>4, <1>5, <1>6

\* A request takes the lock on the row of its account.
LEMMA LocksKeep ==
  ASSUME SessionConstants, SessionInv, NEW r \in Requests,
         Flush(r) \/ (Insert(r) /\ req'[r].step = "register")
  PROVE  SessionInv'
<1> DEFINE m == req[r].mail
<1>1. /\ req \in [Requests -> Request] /\ req[r] \in Request
      /\ writer \in [Mails -> Requests \union {None}]
  BY DEF SessionInv, TypeOK
<1>2. PICK step \in {"members", "register"} :
         /\ Goto(r, step)
         /\ writer[m] = None
         /\ writer' = [writer EXCEPT ![m] = r]
         /\ UNCHANGED <<users, session, index, crossed, now>>
         /\ step = "members" => req[r].step = "flush"
         /\ step = "register" => req[r].step = "insert" /\ users[m] = None
  <2>1. CASE Flush(r)
    BY <2>1 DEF Flush, At
  <2>2. CASE Insert(r) /\ req'[r].step = "register"
    <3>1. users[m] = None
      <4>1. SUFFICES ASSUME Ends(r, "clash") PROVE FALSE
        BY <2>2 DEF Insert
      <4>2. QED
        BY <1>1, <2>2, <4>1 DEF Ends, Becomes, Request
    <3>2. QED
      BY <2>2, <3>1 DEF Insert, At, CanInsert
  <2>3. QED
    BY <2>1, <2>2
<1>3. step \in Steps
  BY DEF Steps
<1>4. PICK x \in Request :
         /\ Becomes(r, x)
         /\ x.step = step /\ x.mail = m
         /\ x.password = req[r].password /\ x.new = req[r].new
  BY <1>2, <1>3, Gone DEF SessionInv
<1>5. /\ req' \in [Requests -> Request]
      /\ req'[r] = x
      /\ \A q \in Requests : q # r => req'[q] = req[q]
  BY <1>4, Replaced DEF SessionInv
<1>6. /\ m \in Mails /\ req[r].password \in Passwords
      /\ step = "members" => req[r].new \in Passwords /\ users[m] \in User
  BY <1>2 DEF SessionInv, Placed
<1>7. /\ writer' \in [Mails -> Requests \union {None}]
      /\ writer'[m] = r
      /\ \A n \in Mails : n # m => writer'[n] = writer[n]
  BY <1>1, <1>2, <1>6
<1>8. TypeOK'
  BY <1>2, <1>5, <1>7 DEF SessionInv, TypeOK
<1>9. Placed(r)'
  BY <1>2, <1>4, <1>5, <1>6, <1>7 DEF Placed, Locking
<1>10. ASSUME NEW q \in Requests, q # r PROVE Placed(q)'
  <2>1. Placed(q) /\ req'[q] = req[q] /\ UNCHANGED users
    BY <1>2, <1>5, <1>10 DEF SessionInv
  <2>2. req[q].step \in Locking => req[q].mail # m
    BY <1>2, <2>1 DEF Placed, Locking, SessionConstants
  <2>3. QED
    BY <1>7, <2>1, <2>2 DEF Placed, Locking
<1>11. Indexed'
  BY <1>2 DEF SessionInv, Indexed, Valid, Live
<1>12. LoggingIn'
  BY <1>2, <1>4, <1>5 DEF SessionInv, LoggingIn, At, Revoking
<1>13. Revocations'
  BY <1>2, <1>4, <1>5 DEF SessionInv, Revocations, At, Valid, Live
<1>14. QED
  BY <1>8, <1>9, <1>10, <1>11, <1>12, <1>13 DEF SessionInv

\* A login verifies the password: the present one, or it crosses a change.
LEMMA VerifyKeeps ==
  ASSUME SessionConstants, SessionInv, NEW r \in Requests,
         Verify(r), req'[r].step = "create"
  PROVE  SessionInv'
<1> DEFINE m == req[r].mail
           x == [req[r] EXCEPT !.step = "create", !.version = users[m].version]
<1>1. /\ req \in [Requests -> Request] /\ req[r] \in Request
      /\ At(r, "verify") /\ m \in Mails /\ req[r].password \in Passwords
      /\ UNCHANGED <<users, writer, session, index, now>>
  BY DEF SessionInv, TypeOK, Verify, At, Placed
<1>2. /\ users[m] # None /\ Becomes(r, x)
      /\ crossed' = IF Revoking(m) THEN crossed \union {r} ELSE crossed
  <2>1. SUFFICES ASSUME Ends(r, "refused") PROVE FALSE
    BY DEF Verify
  <2>2. QED
    BY <1>1, <2>1 DEF Ends, Becomes, Request
<1>3. users[m] \in User /\ users[m].version \in Nat
  BY <1>1, <1>2 DEF SessionInv, TypeOK, User
<1>4. x \in Request
  BY <1>1, <1>3 DEF Request, Steps
<1>5. /\ x.step = "create" /\ x.mail = m /\ x.password = req[r].password
      /\ x.version = users[m].version
  BY <1>1 DEF Request
<1> HIDE DEF x
<1>6. /\ req' \in [Requests -> Request]
      /\ req'[r] = x
      /\ \A q \in Requests : q # r => req'[q] = req[q]
  BY <1>2, <1>4, Replaced DEF SessionInv
<1>7. TypeOK'
  BY <1>1, <1>2, <1>6 DEF SessionInv, TypeOK
<1>8. \A q \in Requests : Placed(q)'
  BY <1>1, <1>5, <1>6 DEF SessionInv, Placed, Locking
<1>9. crossed \subseteq crossed' /\ (Revoking(m) => r \in crossed')
  BY <1>2
<1>10. Indexed' /\ Revocations'
  BY <1>1, <1>5, <1>6, <1>9 DEF SessionInv, Indexed, Revocations, Valid, Live,
     At
<1>11. \A n : Revoking(n)' => Revoking(n)
  BY <1>5, <1>6 DEF Revoking
<1>12. LoggingIn'
  BY <1>1, <1>2, <1>5, <1>6, <1>9, <1>11 DEF SessionInv, LoggingIn, At
<1>13. QED
  BY <1>7, <1>8, <1>10, <1>12 DEF SessionInv

\* Time passes: sessions expire, and none sooner than its index.
LEMMA TickKeeps ==
  ASSUME SessionConstants, SessionInv, Tick
  PROVE  SessionInv'
<1>1. /\ now \in Nat /\ now' = now + 1 /\ TTL \in Nat
      /\ UNCHANGED <<users, writer, session, index, req, crossed>>
  BY DEF Tick, SessionInv, TypeOK, SessionConstants
<1>2. TypeOK' /\ \A r \in Requests : Placed(r)'
  BY <1>1 DEF SessionInv, TypeOK, Placed, Locking
<1>3. ASSUME NEW s \in Requests, session[s] # None
      PROVE  session[s].expires \in Nat
  BY <1>3 DEF SessionInv, TypeOK, Session
<1>4. \A s \in Requests : Valid(s)' => Valid(s)
  BY <1>1, <1>3 DEF Valid, Live
<1>5. Indexed'
  BY <1>1, <1>3, <1>4 DEF SessionInv, Indexed
<1>6. LoggingIn' /\ Revocations'
  BY <1>1, <1>4 DEF SessionInv, LoggingIn, Revocations, At, Revoking
<1>7. QED
  BY <1>2, <1>5, <1>6 DEF SessionInv

\* A registration or a change of the password is committed.  Nobody else
\* writes to the account, no valid session is left of it, and no login in
\* progress that does not cross.
LEMMA CommitsKeep ==
  ASSUME SessionConstants, SessionInv, NEW r \in Requests,
         CommitRegister(r) \/ CommitChange(r)
  PROVE  SessionInv'
<1> DEFINE m == req[r].mail
<1>1. PICK account \in User :
         /\ users' = [users EXCEPT ![m] = account]
         /\ \E answer \in Answers : Ends(r, answer)
         /\ writer' = Released(r)
         /\ UNCHANGED <<session, index, crossed, now>>
         /\ req[r].step \in {"register", "commit"}
         /\ req[r].step = "register" => users[m] = None
  <2>1. CASE CommitRegister(r)
    <3>1. /\ req[r].password \in Passwords /\ req[r].step = "register"
          /\ users[m] = None
      BY <2>1 DEF CommitRegister, At, SessionInv, Placed
    <3>2. [password |-> req[r].password, version |-> 0] \in User
      BY <3>1 DEF User
    <3>3. QED
      BY <2>1, <3>1, <3>2 DEF CommitRegister, Answers
  <2>2. CASE CommitChange(r)
    <3>1. /\ req[r].new \in Passwords /\ req[r].step = "commit"
          /\ users[m].version \in Nat
      BY <2>2 DEF CommitChange, At, SessionInv, Placed, User
    <3>2. [password |-> req[r].new, version |-> users[m].version + 1] \in User
      BY <3>1 DEF User
    <3>3. QED
      BY <2>2, <3>1, <3>2 DEF CommitChange, Answers
  <2>3. QED
    BY <2>1, <2>2
<1>2. PICK x \in Request : Becomes(r, x) /\ x.step = "done"
  BY <1>1, Gone DEF SessionInv
<1>3. /\ req' \in [Requests -> Request]
      /\ req'[r] = x
      /\ \A q \in Requests : q # r => req'[q] = req[q]
  BY <1>2, Replaced DEF SessionInv
<1>4. m \in Mails /\ writer[m] = r
  BY <1>1 DEF SessionInv, Placed, Locking
<1>5. /\ users' \in [Mails -> User \union {None}]
      /\ users'[m] = account
      /\ \A n \in Mails : n # m => users'[n] = users[n]
  BY <1>1, <1>4 DEF SessionInv, TypeOK
<1>6. /\ writer' \in [Mails -> Requests \union {None}]
      /\ \A n \in Mails : writer[n] # r => writer'[n] = writer[n]
  BY <1>1, ReleasedType DEF SessionInv
<1>7. TypeOK'
  BY <1>1, <1>3, <1>5, <1>6 DEF SessionInv, TypeOK
<1>8. Placed(r)'
  BY <1>2, <1>3 DEF Placed, Locking
<1>9. ASSUME NEW q \in Requests, q # r PROVE Placed(q)'
  <2>1. Placed(q) /\ req'[q] = req[q]
    BY <1>3, <1>9 DEF SessionInv
  <2>2. req[q].step \in Locking => req[q].mail # m
    BY <1>4, <1>9, <2>1 DEF Placed
  <2>3. req[q].step \notin {"new", "drop", "done"} => req[q].mail \in Mails
    BY <2>1 DEF Placed
  <2>4. req[q].step \in {"flush", "members", "revoke", "commit"} =>
           users'[req[q].mail] \in User
    BY <1>5, <2>1, <2>3 DEF Placed
  <2>5. req[q].step = "register" => users'[req[q].mail] = None
    BY <1>5, <2>1, <2>2, <2>3 DEF Placed, Locking
  <2>6. req[q].step \in Locking => writer'[req[q].mail] = q
    BY <1>6, <1>9, <2>1, <2>3 DEF Placed, Locking
  <2>7. QED
    BY <2>1, <2>4, <2>5, <2>6 DEF Placed
<1>10. ASSUME NEW s \in Requests, Valid(s) PROVE session[s].mail # m
  BY <1>1, <1>10 DEF SessionInv, Indexed, Revocations, At
<1>11. ASSUME NEW s \in Requests,
              session[s] # None PROVE session[s].mail \in Mails
  BY <1>11 DEF SessionInv, TypeOK, Session
<1>12. Indexed'
  BY <1>1, <1>5, <1>10, <1>11 DEF SessionInv, Indexed, Valid, Live
<1>13. Revocations'
  BY <1>1, <1>2, <1>3 DEF SessionInv, Revocations, At, Valid, Live
<1>14. ASSUME NEW q \in Requests, At(q, "create"), q \notin crossed
       PROVE  req[q].mail # m /\ req[q].mail \in Mails
  <2>1. req[q].mail \in Mails
    BY <1>14 DEF SessionInv, Placed, At
  <2>2. CASE req[r].step = "register"
    BY <1>1, <1>14, <2>1, <2>2 DEF SessionInv, LoggingIn
  <2>3. CASE req[r].step = "commit"
    BY <1>14, <2>1, <2>3 DEF SessionInv, LoggingIn, Revoking
  <2>4. QED
    BY <1>1, <2>2, <2>3
<1>15. \A n : Revoking(n)' => Revoking(n)
  BY <1>2, <1>3 DEF Revoking
<1>16. LoggingIn'
  BY <1>1, <1>2, <1>3, <1>5, <1>14, <1>15 DEF SessionInv, LoggingIn, At
<1>17. QED
  BY <1>7, <1>8, <1>9, <1>12, <1>13, <1>16 DEF SessionInv

\* A session is opened and indexed.
LEMMA CreateKeeps ==
  ASSUME SessionConstants, SessionInv, NEW r \in Requests, CreateSession(r)
  PROVE  SessionInv'
<1> DEFINE m == req[r].mail
           new == [mail |-> m, version |-> req[r].version,
                 expires |-> now + TTL]
           list == [members |-> Members(m) \union {r}, expires |-> now + TTL]
<1>1. /\ At(r, "create") /\ \E answer \in Answers : Ends(r, answer)
      /\ session' = [session EXCEPT ![r] = new]
      /\ index' = [index EXCEPT ![m] = list]
      /\ UNCHANGED <<users, writer, crossed, now>>
  BY DEF CreateSession, IndexExpires, Answers
<1>2. /\ m \in Mails /\ req[r] \in Request /\ req[r].version \in Nat
      /\ now \in Nat /\ TTL \in Nat /\ TTL > 0 /\ now + TTL \in Nat
  BY <1>1 DEF SessionInv, Placed, At, TypeOK, Request, SessionConstants
<1>3. PICK x \in Request : Becomes(r, x) /\ x.step = "done"
  BY <1>1, Gone DEF SessionInv
<1>4. /\ req' \in [Requests -> Request]
      /\ req'[r] = x
      /\ \A q \in Requests : q # r => req'[q] = req[q]
  BY <1>3, Replaced DEF SessionInv
<1>5. /\ new \in Session
      /\ new.mail = m /\ new.version = req[r].version
      /\ new.expires = now + TTL
  BY <1>2 DEF Session
<1>6. Members(m) \subseteq Requests
  BY <1>2 DEF SessionInv, TypeOK, Index, Members
<1>7. /\ list \in Index
      /\ list.members = Members(m) \union {r} /\ list.expires = now + TTL
  BY <1>2, <1>6 DEF Index
<1> HIDE DEF new, list
<1>8. /\ session' \in [Requests -> Session \union {None}]
      /\ session'[r] = new
      /\ \A s \in Requests : s # r => session'[s] = session[s]
  BY <1>1, <1>5 DEF SessionInv, TypeOK
<1>9. /\ index' \in [Mails -> Index]
      /\ index'[m] = list
      /\ \A n \in Mails : n # m => index'[n] = index[n]
  BY <1>1, <1>2, <1>7 DEF SessionInv, TypeOK
<1>10. TypeOK'
  BY <1>1, <1>4, <1>8, <1>9 DEF SessionInv, TypeOK
<1>11. \A q \in Requests : Placed(q)'
  BY <1>1, <1>3, <1>4 DEF SessionInv, Placed, Locking
<1>12. \A n : Revoking(n)' => Revoking(n)
  BY <1>3, <1>4 DEF Revoking
<1>13. LoggingIn'
  BY <1>1, <1>3, <1>4, <1>12 DEF SessionInv, LoggingIn, At
<1>14. \A s \in Requests : s # r => (Valid(s)' <=> Valid(s))
  BY <1>1, <1>8 DEF Valid, Live
<1>15. r \notin crossed => /\ users[m] # None
                           /\ new.version = users[m].version
                           /\ ~Revoking(m)
  BY <1>1, <1>5 DEF SessionInv, LoggingIn
<1>16. ASSUME NEW s \in Requests, s # r
       PROVE  /\ session'[s] # None => session'[s].expires <= now + TTL
              /\ Valid(s)' =>
                    LET n == session'[s].mail IN
                    /\ s \in index'[n].members
                    /\ session'[s].expires <= index'[n].expires
                    /\ users'[n] # None
                    /\ session'[s].version = users'[n].version
  <2>1. session'[s] = session[s] /\ (Valid(s)' <=> Valid(s))
    BY <1>8, <1>14, <1>16
  <2>2. session[s] # None =>
           /\ session[s].expires <= now + TTL
           /\ session[s].expires \in Nat /\ session[s].mail \in Mails
    BY DEF SessionInv, TypeOK, Session, Indexed
  <2>3. ASSUME Valid(s)
        PROVE  LET n == session[s].mail IN
               /\ n \in Mails
               /\ s \in index[n].members
               /\ session[s].expires <= index[n].expires
               /\ users[n] # None
               /\ session[s].version = users[n].version
               /\ now < session[s].expires
               /\ session[s].expires <= now + TTL
    BY <2>2, <2>3 DEF SessionInv, Indexed, Valid, Live
  <2>4. ASSUME Valid(s), session[s].mail = m
        PROVE  s \in list.members /\ session[s].expires <= list.expires
    <3>1. index[m].expires \in Nat /\ session[s].expires \in Nat
      BY <1>2, <2>2, <2>4 DEF SessionInv, TypeOK, Index, Valid, Live
    <3>2. now < index[m].expires
      BY <1>2, <2>3, <2>4, <3>1
    <3>3. QED
      BY <1>7, <2>3, <2>4, <3>2 DEF Members
  <2>5. QED
    BY <1>1, <1>9, <2>1, <2>2, <2>3, <2>4
<1>17. Indexed'
  <2>1. /\ session'[r].expires <= now + TTL
        /\ Valid(r)' => LET n == session'[r].mail IN
                        /\ r \in index'[n].members
                        /\ session'[r].expires <= index'[n].expires
                        /\ users'[n] # None
                        /\ session'[r].version = users'[n].version
    BY <1>1, <1>2, <1>5, <1>7, <1>8, <1>9, <1>15 DEF Valid
  <2>2. QED
    BY <1>1, <1>16, <2>1 DEF Indexed
<1>18. Revocations'
  <2>1. ASSUME NEW q \in Requests, NEW s \in Requests, Valid(s)',
               session'[s].mail = req'[q].mail,
               At(q, "revoke")' \/ At(q, "commit")'
        PROVE  s \in req'[q].keys /\ ~At(q, "commit")'
    <3>1. q # r /\ req'[q] = req[q]
      BY <1>3, <1>4, <2>1 DEF At
    <3>2. CASE s = r
      BY <1>1, <1>5, <1>8, <1>15, <2>1, <3>1, <3>2 DEF Valid, Revoking, At
    <3>3. CASE s # r
      BY <1>8, <1>14, <2>1, <3>1, <3>3 DEF SessionInv, Revocations, At
    <3>4. QED
      BY <3>2, <3>3
  <2>2. QED
    BY <2>1 DEF Revocations
<1>19. QED
  BY <1>10, <1>11, <1>13, <1>17, <1>18 DEF SessionInv

\* A change reads which sessions there are: every valid one.
LEMMA MembersKeep ==
  ASSUME SessionConstants, SessionInv, NEW r \in Requests, ReadMembers(r)
  PROVE  SessionInv'
<1> DEFINE m == req[r].mail
           x == [req[r] EXCEPT !.step = "revoke", !.keys = Members(m)]
           crossing == {q \in Requests : At(q, "create") /\ req[q].mail = m}
<1>1. /\ At(r, "members") /\ Becomes(r, x)
      /\ crossed' = crossed \union crossing
      /\ UNCHANGED <<users, writer, session, index, now>>
  BY DEF ReadMembers
<1>2. m \in Mails /\ req[r] \in Request
  BY <1>1 DEF SessionInv, TypeOK, Placed, At
<1>3. Members(m) \subseteq Requests
  BY <1>2 DEF SessionInv, TypeOK, Index, Members
<1>4. /\ x \in Request
      /\ x.step = "revoke" /\ x.keys = Members(m) /\ x.mail = m
      /\ x.password = req[r].password /\ x.new = req[r].new
  BY <1>2, <1>3 DEF Request, Steps
<1> HIDE DEF x
<1>5. /\ req' \in [Requests -> Request]
      /\ req'[r] = x
      /\ \A q \in Requests : q # r => req'[q] = req[q]
  BY <1>1, <1>4, Replaced DEF SessionInv
<1>6. TypeOK'
  BY <1>1, <1>5 DEF SessionInv, TypeOK
<1>7. \A q \in Requests : Placed(q)'
  BY <1>1, <1>4, <1>5 DEF SessionInv, Placed, Locking, At
<1>8. \A s \in Requests : Valid(s)' => Valid(s)
  BY <1>1 DEF Valid, Live
<1>9. Indexed'
  BY <1>1, <1>8 DEF SessionInv, Indexed
<1>10. LoggingIn'
  BY <1>1, <1>4, <1>5 DEF SessionInv, LoggingIn, At, Revoking
<1>11. ASSUME NEW s \in Requests, Valid(s), session[s].mail = m
       PROVE  s \in Members(m)
  <2>1. /\ s \in index[m].members /\ now < session[s].expires
        /\ session[s].expires <= index[m].expires
    BY <1>11 DEF SessionInv, Indexed, Valid, Live
  <2>2. now \in Nat /\ session[s].expires \in Nat /\ index[m].expires \in Nat
    BY <1>2, <1>11 DEF SessionInv, TypeOK, Session, Index, Valid, Live
  <2>3. QED
    BY <2>1, <2>2 DEF Members
<1>12. Revocations'
  BY <1>1, <1>4, <1>5, <1>8, <1>11 DEF SessionInv, Revocations, At
<1>13. QED
  BY <1>6, <1>7, <1>9, <1>10, <1>12 DEF SessionInv

\* What is left when sessions are deleted and an index changes: as long as
\* the index keeps the sessions that are valid.
LEMMA DeletionKeeps ==
  ASSUME SessionConstants, SessionInv, NEW r \in Requests, NEW x \in Request,
         Becomes(r, x),
         NEW keys \in SUBSET Requests, session' = Without(keys),
         NEW i \in [Mails -> Index], index' = i,
         \A s \in Requests \ keys : Valid(s) =>
            /\ s \in i[session[s].mail].members
            /\ i[session[s].mail].expires = index[session[s].mail].expires,
         x.step \in {"commit", "done"},
         x.step = "commit" =>
            /\ req[r].step = "revoke"
            /\ x.mail = req[r].mail /\ x.password = req[r].password
            /\ x.new = req[r].new
            /\ keys = req[r].keys,
         \/ UNCHANGED writer
         \/ x.step = "done" /\ writer' = Released(r),
         UNCHANGED <<users, crossed, now>>
  PROVE  SessionInv'
<1>1. /\ req' \in [Requests -> Request]
      /\ req'[r] = x
      /\ \A q \in Requests : q # r => req'[q] = req[q]
  BY Replaced DEF SessionInv
<1>2. /\ writer' \in [Mails -> Requests \union {None}]
      /\ \A m \in Mails : writer[m] # r => writer'[m] = writer[m]
  BY ReleasedType DEF SessionInv, TypeOK
<1>3. /\ session' \in [Requests -> Session \union {None}]
      /\ \A s \in Requests : session'[s] = IF s
         \in keys THEN None ELSE session[s]
  BY DEF SessionInv, TypeOK, Without
<1>4. TypeOK'
  BY <1>1, <1>2, <1>3 DEF SessionInv, TypeOK
<1>5. Placed(r)'
  <2>1. CASE x.step = "commit"
    BY <1>1, <2>1 DEF SessionInv, Placed, Locking
  <2>2. CASE x.step = "done"
    BY <1>1, <2>2 DEF Placed, Locking
  <2>3. QED
    BY <2>1, <2>2
<1>6. ASSUME NEW q \in Requests, q # r PROVE Placed(q)'
  BY <1>1, <1>2, <1>6 DEF SessionInv, Placed, Locking
<1>7. \A s \in Requests : Valid(s)' =>
         Valid(s) /\ s \notin keys /\ session'[s] = session[s]
  BY <1>3 DEF Valid, Live
<1>8. Indexed'
  BY <1>3, <1>7 DEF SessionInv, Indexed
<1>9. \A n : Revoking(n)' => Revoking(n)
  BY <1>1 DEF Revoking
<1>10. LoggingIn'
  BY <1>1, <1>9 DEF SessionInv, LoggingIn, At
<1>11. Revocations'
  BY <1>1, <1>7 DEF SessionInv, Revocations, At
<1>12. QED
  BY <1>4, <1>5, <1>6, <1>8, <1>10, <1>11 DEF SessionInv

LEMMA RevokeKeeps ==
  ASSUME SessionConstants, SessionInv, NEW r \in Requests, Revoke(r)
  PROVE  SessionInv'
<1> DEFINE m == req[r].mail
           keys == req[r].keys
           empty == [members |-> {}, expires |-> 0]
           i == [index EXCEPT ![m] = empty]
<1>1. /\ At(r, "revoke") /\ session' = Without(keys) /\ index' = i
      /\ UNCHANGED <<users, crossed, now>>
  BY DEF Revoke, Revoked
<1>2. m \in Mails /\ keys \in SUBSET Requests
  BY <1>1 DEF SessionInv, TypeOK, Request, Placed, At
<1>3. empty \in Index
  BY DEF Index
<1>4. i \in [Mails -> Index] /\ \A n \in Mails : n # m => i[n] = index[n]
  BY <1>2, <1>3 DEF SessionInv, TypeOK
<1>5. ASSUME NEW s \in Requests \ keys, Valid(s)
      PROVE  /\ s \in i[session[s].mail].members
             /\ i[session[s].mail].expires = index[session[s].mail].expires
  <2>1. session[s].mail # m /\ session[s].mail \in Mails
    BY <1>1, <1>5 DEF SessionInv, TypeOK, Session, Revocations, Valid, Live
  <2>2. QED
    BY <1>4, <1>5, <2>1 DEF SessionInv, Indexed
<1> HIDE DEF i
<1>6. CASE Goto(r, "commit") /\ UNCHANGED writer
  <2>1. "commit" \in Steps
    BY DEF Steps
  <2>2. PICK x \in Request :
           /\ Becomes(r, x)
           /\ x.step = "commit" /\ x.mail = req[r].mail
           /\ x.password = req[r].password /\ x.new = req[r].new
    BY <1>6, <2>1, Gone DEF SessionInv
  <2>3. QED
    BY <1>1, <1>2, <1>4, <1>5, <1>6, <2>2, DeletionKeeps DEF At
<1>7. CASE Ends(r, "error") /\ writer' = Released(r)
  <2>1. PICK x \in Request : Becomes(r, x) /\ x.step = "done"
    BY <1>7, Gone DEF SessionInv, Answers
  <2>2. QED
    BY <1>1, <1>2, <1>4, <1>5, <1>7, <2>1, DeletionKeeps
<1>8. QED
  BY <1>6, <1>7 DEF Revoke

LEMMA DropKeeps ==
  ASSUME SessionConstants, SessionInv, NEW r \in Requests, Drop(r)
  PROVE  SessionInv'
<1> DEFINE s == req[r].of
           m == req[r].mail
           keys == {s} \intersect Requests
           list == [members |-> Members(m) \ {s}, expires |-> index[m].expires]
<1>1. /\ At(r, "drop") /\ session' = Without({s})
      /\ \E answer \in Answers : Ends(r, answer)
      /\ IF req[r].keys = {} THEN UNCHANGED index
         ELSE index' = [index EXCEPT ![m] = list]
      /\ UNCHANGED <<users, writer, crossed, now>>
  BY DEF Drop, Answers
<1>2. PICK x \in Request : Becomes(r, x) /\ x.step = "done"
  BY <1>1, Gone DEF SessionInv
<1>3. session' = Without(keys)
  BY <1>1 DEF Without
<1>4. req[r].keys # {} => m \in Mails
  BY <1>1 DEF SessionInv, Placed, At
<1>5. req[r].keys # {} =>
         /\ list \in Index
         /\ list.members = Members(m) \ {s} /\ list.expires = index[m].expires
  <2>1. SUFFICES ASSUME m \in Mails
                 PROVE  /\ list \in Index
                        /\ list.members = Members(m) \ {s}
                        /\ list.expires = index[m].expires
    BY <1>4
  <2>2. Members(m) \subseteq Requests /\ index[m].expires \in Nat
    BY <2>1 DEF SessionInv, TypeOK, Index, Members
  <2>3. QED
    BY <2>2 DEF Index
<1> HIDE DEF list
<1>6. index' \in [Mails -> Index]
  BY <1>1, <1>4, <1>5 DEF SessionInv, TypeOK
<1>7. ASSUME NEW u \in Requests \ keys, Valid(u)
      PROVE  /\ u \in index'[session[u].mail].members
             /\ index'[session[u].mail].expires
                = index[session[u].mail].expires
  <2>1. session[u].mail \in Mails /\ session[u].expires \in Nat
    BY <1>7 DEF SessionInv, TypeOK, Session, Valid, Live
  <2>2. /\ u \in index[session[u].mail].members
        /\ session[u].expires <= index[session[u].mail].expires
        /\ now < session[u].expires
    BY <1>7 DEF SessionInv, Indexed, Valid, Live
  <2>3. now \in Nat /\ index[session[u].mail].expires \in Nat
    BY <2>1 DEF SessionInv, TypeOK, Index
  <2>4. u \in Members(session[u].mail)
    BY <2>1, <2>2, <2>3 DEF Members
  <2>5. u # s
    BY <1>7
  <2>6. CASE req[r].keys = {}
    BY <1>1, <2>2, <2>6
  <2>7. CASE req[r].keys # {}
    BY <1>1, <1>4, <1>5, <2>1, <2>2, <2>4, <2>5, <2>7 DEF SessionInv, TypeOK
  <2>8. QED
    BY <2>6, <2>7
<1>8. keys \in SUBSET Requests
  OBVIOUS
<1> HIDE DEF keys
<1>9. PICK i \in [Mails -> Index] : index' = i
  BY <1>6
<1>10. \A u \in Requests \ keys : Valid(u) =>
          /\ u \in i[session[u].mail].members
          /\ i[session[u].mail].expires = index[session[u].mail].expires
  BY <1>7, <1>9
<1>11. UNCHANGED writer /\ UNCHANGED <<users, crossed, now>>
  BY <1>1
<1>12. QED
  BY <1>2, <1>3, <1>8, <1>9, <1>10, <1>11, DeletionKeeps

LEMMA SessionNext ==
  ASSUME SessionConstants, SessionInv, [Next]_vars
  PROVE  SessionInv'
<1>1. ASSUME NEW r \in Requests, Step(r)
      PROVE  SessionInv'
  <2>1. CASE LookUp(r) \/ VerifyCurrent(r)
    BY <2>1, ReadsKeep
  <2>2. CASE Insert(r)
    BY <2>2, ReadsKeep, LocksKeep
  <2>3. CASE Verify(r)
    BY <2>3, ReadsKeep, VerifyKeeps
  <2>4. CASE CommitRegister(r) \/ CommitChange(r)
    BY <2>4, CommitsKeep
  <2>5. CASE Flush(r)
    BY <2>5, LocksKeep
  <2>6. CASE CreateSession(r) \/ ReadMembers(r)
    BY <2>6, CreateKeeps, MembersKeep
  <2>7. CASE Revoke(r) \/ Drop(r)
    BY <2>7, RevokeKeeps, DropKeeps
  <2>8. QED
    BY <1>1, <2>1, <2>2, <2>3, <2>4, <2>5, <2>6, <2>7 DEF Step
<1>2. CASE Next
  BY <1>1, <1>2, StartsKeep, ReadsKeep, TickKeeps DEF Next
<1>3. CASE UNCHANGED vars
  BY <1>3 DEF vars, SessionInv, TypeOK, Placed, Locking, Indexed, LoggingIn,
     Revocations,
              Valid, Live, At, Revoking
<1>4. QED
  BY <1>2, <1>3

-----------------------------------------------------------------------------
\* In every run the invariant holds.
LEMMA SessionInvariance == Spec => []SessionInv
<1>1. Init => SessionInv
  BY SessionInit, AccountConstants
<1>2. SessionInv /\ [Next]_vars => SessionInv'
  BY SessionNext, AccountConstants
<1>3. QED
  BY <1>1, <1>2, PTL DEF Spec

\* No session outlives the password it was opened with, and every one that
\* lives is where the next change of the password finds it; only a login that
\* runs while a change revokes the sessions may be missed.
THEOREM OldPasswordsAlwaysSignedOut ==
  Spec => []OldPasswordsSignedOut
<1>1. SessionInv => OldPasswordsSignedOut
  <2>1. SUFFICES ASSUME SessionInv, NEW s \in Requests, Valid(s)
                 PROVE  LET m == session[s].mail IN
                        /\ s \in Members(m)
                        /\ users[m] # None
                        /\ session[s].version = users[m].version
    BY DEF OldPasswordsSignedOut, Valid
  <2> DEFINE m == session[s].mail
  <2>2. /\ s \in index[m].members /\ now < session[s].expires
        /\ session[s].expires <= index[m].expires
        /\ users[m] # None /\ session[s].version = users[m].version
    BY <2>1 DEF SessionInv, Indexed, Valid, Live
  <2>3. m \in Mails /\ session[s].expires \in Nat /\ now \in Nat
    BY <2>1 DEF SessionInv, TypeOK, Session, Valid, Live
  <2>4. index[m].expires \in Nat
    BY <2>1, <2>3 DEF SessionInv, TypeOK, Index
  <2>5. QED
    BY <2>2, <2>3, <2>4 DEF Members
<1>2. QED
  BY <1>1, SessionInvariance, PTL

-----------------------------------------------------------------------------
(***************************************************************************)
(* LoginAttempts.  LimitHolds is inductive with the types: who passes the  *)
(* check before a login sees a counter below the limit, or one of which    *)
(* Redis tells no second any more.  That waiting is enough rests on        *)
(* Waiting: a counter lives at most half a second longer than whoever was  *)
(* told about it still waits.                                              *)
(***************************************************************************)

Waiting ==
    \A t \in Threads : login[t].of =>
        /\ counter # None
        /\ counter.left + PerSecond \div 2 < login[t].wait + PerSecond

LoginInv == Logins!TypeOK /\ Logins!LimitHolds /\ Waiting

-----------------------------------------------------------------------------
\* Seconds rounds to the nearest.
LEMMA Rounding ==
  ASSUME Logins!LimitConstants, NEW left \in Nat
  PROVE  /\ Logins!Seconds(left) \in Nat
         /\ left + PerSecond \div 2
            < Logins!Seconds(left) * PerSecond + PerSecond
         /\ Logins!Seconds(left) > 0 <=> left + PerSecond \div 2 >= PerSecond
<1> DEFINE half == PerSecond \div 2
           sum == left + half
<1>1. PerSecond \in Nat \ {0}
  BY DEF Logins!LimitConstants
<1>2. half \in Nat
  BY <1>1
<1>3. sum \in Nat
  BY <1>2
<1> HIDE DEF half, sum
<1>4. /\ sum \div PerSecond \in Nat
      /\ PerSecond * (sum \div PerSecond) <= sum
      /\ sum < PerSecond * (sum \div PerSecond + 1)
  BY <1>1, <1>3
<1>5. Logins!Seconds(left) = sum \div PerSecond
  BY DEF Logins!Seconds, sum, half
<1>6. ASSUME NEW k \in Nat,
             PerSecond * k <= sum, sum < PerSecond * (k + 1)
      PROVE  /\ sum < k * PerSecond + PerSecond
             /\ k > 0 <=> sum >= PerSecond
  <2>1. PerSecond * (k + 1) = k * PerSecond + PerSecond
    BY <1>1
  <2>2. k > 0 => PerSecond * k >= PerSecond
    BY <1>1
  <2>3. k = 0 => PerSecond * (k + 1) = PerSecond
    BY <1>1
  <2>4. PerSecond * k \in Nat
    BY <1>1
  <2>5. QED
    BY <1>1, <1>3, <1>6, <2>1, <2>2, <2>3, <2>4
<1>7. QED
  BY <1>4, <1>5, <1>6 DEF sum, half

\* Less is told of less.
LEMMA SecondsLater ==
  ASSUME Logins!LimitConstants, NEW left \in Nat, NEW later \in Nat,
         later <= left,
         Logins!Seconds(later) > 0
  PROVE  Logins!Seconds(left) > 0
<1>1. PerSecond \in Nat /\ PerSecond \div 2 \in Nat
  BY DEF Logins!LimitConstants
<1>2. QED
  BY <1>1, Rounding

\* What is counted of a finite set and of its parts.
LEMMA CountedSets ==
  ASSUME NEW U, IsFiniteSet(U), NEW S \in SUBSET U
  PROVE  /\ IsFiniteSet(S)
         /\ Cardinality(S) \in Nat
         /\ Cardinality(U) \in Nat
         /\ Cardinality(S) <= Cardinality(U)
         /\ \A t \in U \ S : Cardinality(S) + 1 <= Cardinality(U)
         /\ \A T \in SUBSET S : Cardinality(T) <= Cardinality(S)
         /\ \A t \in S : \A T \in SUBSET (S \ {t}) :
               Cardinality(T) + 1 <= Cardinality(S)
         /\ \A t : \A T \in SUBSET (S \cup {t}) :
               Cardinality(T) <= Cardinality(S) + 1
<1>1. IsFiniteSet(S) /\ Cardinality(S) <= Cardinality(U)
  BY FS_Subset
<1>2. Cardinality(S) \in Nat /\ Cardinality(U) \in Nat
  BY <1>1, FS_CardinalityType
<1>3. ASSUME NEW t \in U \ S
      PROVE  Cardinality(S) + 1 <= Cardinality(U)
  <2>1. Cardinality(S \cup {t}) = Cardinality(S) + 1
    BY <1>1, <1>3, FS_AddElement
  <2>2. S \cup {t} \in SUBSET U
    BY <1>3
  <2>3. QED
    BY <2>1, <2>2, FS_Subset
<1>4. ASSUME NEW T \in SUBSET S PROVE Cardinality(T) <= Cardinality(S)
  BY <1>1, FS_Subset
<1>5. ASSUME NEW t \in S, NEW T \in SUBSET (S \ {t})
      PROVE  Cardinality(T) + 1 <= Cardinality(S)
  <2>1. /\ IsFiniteSet(S \ {t})
        /\ Cardinality(S \ {t}) = Cardinality(S) - 1
    BY <1>1, <1>5, FS_RemoveElement
  <2>2. Cardinality(T) <= Cardinality(S \ {t}) /\ IsFiniteSet(T)
    BY <2>1, FS_Subset
  <2>3. Cardinality(T) \in Nat
    BY <2>2, FS_CardinalityType
  <2>4. QED
    BY <1>2, <2>1, <2>2, <2>3
<1>6. ASSUME NEW t, NEW T \in SUBSET (S \cup {t})
      PROVE  Cardinality(T) <= Cardinality(S) + 1
  <2>1. /\ IsFiniteSet(S \cup {t})
        /\ Cardinality(S \cup {t}) \in {Cardinality(S), Cardinality(S) + 1}
    BY <1>1, FS_AddElement
  <2>2. Cardinality(T) <= Cardinality(S \cup {t}) /\ IsFiniteSet(T)
    BY <2>1, FS_Subset
  <2>3. Cardinality(T) \in Nat /\ Cardinality(S \cup {t}) \in Nat
    BY <2>1, <2>2, FS_CardinalityType
  <2>4. QED
    BY <1>2, <2>1, <2>2, <2>3
<1>7. QED
  BY <1>1, <1>2, <1>3, <1>4, <1>5, <1>6

\* LoginAttempts counts as the library does.
LEMMA SameCounting ==
  ASSUME NEW S
  PROVE  /\ Logins!IsFiniteSet(S) <=> IsFiniteSet(S)
         /\ Logins!Cardinality(S) = Cardinality(S)
<1>1. Logins!IsFiniteSet(S) <=> IsFiniteSet(S)
  BY DEF Logins!IsFiniteSet, IsFiniteSet
<1>2. Logins!Cardinality(S) = Cardinality(S)
  BY <1>1 DEF Logins!Cardinality, Cardinality
<1>3. QED
  BY <1>1, <1>2

\* The logins in progress are at most all of them.
LEMMA Counted ==
  ASSUME Logins!LimitConstants, NEW S \in SUBSET Threads
  PROVE  /\ Logins!IsFiniteSet(S)
         /\ Logins!Cardinality(S) \in Nat
         /\ Logins!Cardinality(Threads) \in Nat
         /\ Logins!Cardinality(S) <= Logins!Cardinality(Threads)
         /\ \A t \in Threads \ S :
               Logins!Cardinality(S) + 1 <= Logins!Cardinality(Threads)
         /\ \A T \in SUBSET S : Logins!Cardinality(T) <= Logins!Cardinality(S)
         /\ \A t \in S : \A T \in SUBSET (S \ {t}) :
               Logins!Cardinality(T) + 1 <= Logins!Cardinality(S)
         /\ \A t : \A T \in SUBSET (S \cup {t}) :
               Logins!Cardinality(T) <= Logins!Cardinality(S) + 1
<1>1. IsFiniteSet(Threads)
  BY SameCounting DEF Logins!LimitConstants
<1>2. QED
  BY <1>1, CountedSets, SameCounting

-----------------------------------------------------------------------------
\* Constants and types every step needs.
LEMMA LimitTypes ==
  ASSUME Logins!LimitConstants
  PROVE  /\ Limit \in Nat \ {0} /\ Window \in Nat \ {0}
         /\ PerSecond \in Nat \ {0} /\ PerSecond \div 2 \in Nat
         /\ PerSecond \div 2 < PerSecond
         /\ Window * PerSecond \in Nat
         /\ Logins!MaxCount \in Nat
         /\ Logins!Cardinality(Threads) \in Nat
         /\ Logins!MaxCount = Limit + Logins!Cardinality(Threads) + 1
<1>1. /\ Limit \in Nat \ {0} /\ Window \in Nat \ {0}
      /\ PerSecond \in Nat \ {0}
      /\ Logins!Cardinality(Threads) \in Nat
  BY Counted DEF Logins!LimitConstants
<1>2. Window * PerSecond \in Nat
  BY <1>1
<1>3. PerSecond \div 2 \in Nat /\ PerSecond \div 2 < PerSecond
  BY <1>1
<1>4. QED
  BY <1>1, <1>2, <1>3 DEF Logins!MaxCount

LEMMA LoginInit ==
  ASSUME Logins!LimitConstants, Logins!Init
  PROVE  LoginInv
  BY DEF Logins!Init, LoginInv, Logins!TypeOK, Logins!Login, Logins!Steps,
     Logins!LimitHolds, Waiting

\* What Redis answers about a counter of the invariant.
LEMMA RemainingType ==
  ASSUME Logins!LimitConstants, Logins!TypeOK
  PROVE  /\ Logins!Remaining \in Nat
         /\ counter # None => counter \in Logins!Counter
         /\ counter # None /\ Logins!Remaining > 0 =>
               counter.left + PerSecond \div 2
               < Logins!Remaining * PerSecond + PerSecond
         /\ counter # None /\ Logins!Remaining = 0 =>
               counter.left + PerSecond \div 2 < PerSecond
<1>1. counter # None => counter \in Logins!Counter /\ counter.left \in Nat
  BY DEF Logins!TypeOK, Logins!Counter
<1>2. CASE counter = None
  BY <1>2 DEF Logins!Remaining
<1>3. CASE counter # None
  <2>1. Logins!Remaining = Logins!Seconds(counter.left)
    BY <1>3 DEF Logins!Remaining
  <2>2. /\ Logins!Seconds(counter.left) \in Nat
        /\ counter.left + PerSecond \div 2
           < Logins!Seconds(counter.left) * PerSecond + PerSecond
    BY <1>1, <1>3, Rounding
  <2>3. 0 * PerSecond + PerSecond = PerSecond
    BY LimitTypes
  <2>4. QED
    BY <1>1, <1>3, <2>1, <2>2, <2>3
<1>4. QED
  BY <1>2, <1>3

\* A login that goes on to another step, or is answered, while the counter
\* stays.  Who passes the check passes it below the limit or in the last half
\* second.
LEMMA LoginStep ==
  ASSUME Logins!LimitConstants, LoginInv, NEW t \in Threads, UNCHANGED counter,
         NEW r \in Logins!Login, login' = [login EXCEPT ![t] = r],
         r.step \in {"verify", "record"} =>
            \/ login[t].step \in {"verify", "record"}
            \/ counter # None =>
                  counter.count < Limit \/ Logins!Seconds(counter.left) = 0,
         r.of =>
            /\ counter # None
            /\ counter.left + PerSecond \div 2 < r.wait + PerSecond
  PROVE  LoginInv'
<1>1. login' \in [Threads -> Logins!Login] /\ login'[t] = r
      /\ \A u \in Threads : u # t => login'[u] = login[u]
  BY DEF LoginInv, Logins!TypeOK
<1>2. Logins!TypeOK'
  BY <1>1 DEF LoginInv, Logins!TypeOK
<1>3. Waiting'
  BY <1>1 DEF LoginInv, Waiting
<1>4. Logins!LimitHolds'
  <2>1. SUFFICES ASSUME counter # None, Logins!Seconds(counter.left) > 0
                 PROVE  counter.count + Logins!Cardinality(Logins!Passed')
                        <= Limit + Logins!Cardinality(Threads) - 1
    BY DEF LoginInv, Logins!LimitHolds, Logins!Seconds
  <2>2. /\ counter.count \in Nat /\ counter.left \in Nat
        /\ counter.count + Logins!Cardinality(Logins!Passed)
           <= Limit + Logins!Cardinality(Threads) - 1
    BY <2>1, LimitTypes DEF LoginInv, Logins!TypeOK, Logins!Counter,
       Logins!LimitHolds
  <2>3. Logins!Passed \in SUBSET Threads /\ Logins!Passed' \in SUBSET Threads
    BY DEF Logins!Passed
  <2>4. CASE t \in Logins!Passed \/ t \notin Logins!Passed'
    <3>1. Logins!Passed' \in SUBSET Logins!Passed
      BY <1>1, <2>4 DEF Logins!Passed
    <3>2. QED
      BY <2>2, <2>3, <3>1, Counted, LimitTypes
  <2>5. CASE t \notin Logins!Passed /\ t \in Logins!Passed'
    <3>1. counter.count < Limit
      BY <1>1, <2>1, <2>5 DEF Logins!Passed
    <3>2. Logins!Cardinality(Logins!Passed') <= Logins!Cardinality(Threads)
          /\ Logins!Cardinality(Logins!Passed') \in Nat
      BY <2>3, Counted
    <3>3. QED
      BY <2>2, <3>1, <3>2, LimitTypes
  <2>6. QED
    BY <2>4, <2>5
<1>5. QED
  BY <1>2, <1>3, <1>4 DEF LoginInv

\* The records the steps write.
LEMMA Records ==
  ASSUME Logins!TypeOK, NEW t \in Threads
  PROVE  /\ \A step \in Logins!Steps : Logins!Goto(t, step) =>
              \E r \in Logins!Login : /\ login' = [login EXCEPT ![t] = r]
                               /\ r.step = step
                               /\ r.answer = login[t].answer
                               /\ r.wait = login[t].wait
                               /\ r.of = login[t].of
         /\ \A answer \in {"none", "welcome", "wrong", "limited"},
               after \in Nat, of \in BOOLEAN :
              PerSecond \in Nat /\ Logins!Answered(t, answer, after, of) =>
                 \E r \in Logins!Login : /\ login' = [login EXCEPT ![t] = r]
                                  /\ r.step = "idle"
                                  /\ r.wait = after * PerSecond
                                  /\ r.of = of
<1>1. login[t] \in Logins!Login
  BY DEF Logins!TypeOK
<1>2. ASSUME NEW step \in Logins!Steps, Logins!Goto(t, step)
      PROVE  \E r \in Logins!Login : /\ login' = [login EXCEPT ![t] = r]
                              /\ r.step = step
                              /\ r.answer = login[t].answer
                              /\ r.wait = login[t].wait
                              /\ r.of = login[t].of
  <2> DEFINE r == [login[t] EXCEPT !.step = step]
  <2>1. r \in Logins!Login
    BY <1>1 DEF Logins!Login
  <2>2. r.step = step /\ r.answer = login[t].answer
        /\ r.wait = login[t].wait /\ r.of = login[t].of
    BY <1>1 DEF Logins!Login
  <2>3. login' = [login EXCEPT ![t] = r]
    BY <1>2 DEF Logins!Goto
  <2>4. QED
    BY <2>1, <2>2, <2>3
<1>3. ASSUME NEW answer \in {"none", "welcome", "wrong", "limited"},
             NEW after \in Nat, NEW of \in BOOLEAN,
             PerSecond \in Nat, Logins!Answered(t, answer, after, of)
      PROVE  \E r \in Logins!Login : /\ login' = [login EXCEPT ![t] = r]
                              /\ r.step = "idle"
                              /\ r.wait = after * PerSecond
                              /\ r.of = of
  <2> DEFINE r == [ step |-> "idle", answer |-> answer, after |-> after,
                    wait |-> after * PerSecond, of |-> of ]
  <2>1. after * PerSecond \in Nat
    BY <1>3
  <2>2. r \in Logins!Login
    BY <2>1 DEF Logins!Login, Logins!Steps
  <2>3. QED
    BY <1>3, <2>2 DEF Logins!Answered
<1>4. QED
  BY <1>2, <1>3

\* The steps that only read the counter.
LEMMA LoginReadsKeep ==
  ASSUME Logins!LimitConstants, LoginInv, NEW t \in Threads,
         \/ Logins!StartLogin(t) \/ Logins!Check(t) \/ Logins!Limited(t)
         \/ Logins!Verify(t)
         \/ Logins!CheckAgain(t) \/ Logins!LimitedAgain(t)
         \/ Logins!LoginFails(t)
  PROVE  LoginInv'
<1>1. UNCHANGED counter
  BY DEF Logins!StartLogin, Logins!Check, Logins!Limited, Logins!Verify,
     Logins!CheckAgain, Logins!LimitedAgain, Logins!LoginFails
<1>2. /\ Logins!TypeOK
      /\ login[t].of => /\ counter # None
                        /\ counter.left + PerSecond \div 2
                           < login[t].wait + PerSecond
  BY DEF LoginInv, Waiting
<1>3. PerSecond \in Nat /\ Window \in Nat /\ Window * PerSecond \in Nat
  BY LimitTypes
<1>4. ASSUME NEW step \in Logins!Steps, Logins!Goto(t, step),
             step \in {"verify", "record"} =>
                \/ login[t].step \in {"verify", "record"}
                \/ counter # None =>
                      counter.count < Limit \/ Logins!Seconds(counter.left) = 0
      PROVE  LoginInv'
  <2>1. PICK r \in Logins!Login : /\ login' = [login EXCEPT ![t] = r]
                           /\ r.step = step
                           /\ r.wait = login[t].wait
                           /\ r.of = login[t].of
    BY <1>2, <1>4, Records
  <2>2. QED
    BY <1>1, <1>2, <1>4, <2>1, LoginStep
<1>5. ASSUME NEW answer \in {"none", "welcome", "wrong", "limited"},
             NEW after \in Nat, NEW of \in BOOLEAN,
             Logins!Answered(t, answer, after, of),
             of => /\ counter # None
                   /\ counter.left + PerSecond \div 2
                      < after * PerSecond + PerSecond
      PROVE  LoginInv'
  <2>1. PICK r \in Logins!Login : /\ login' = [login EXCEPT ![t] = r]
                           /\ r.step = "idle"
                           /\ r.wait = after * PerSecond
                           /\ r.of = of
    BY <1>2, <1>3, <1>5, Records
  <2>2. QED
    BY <1>1, <1>5, <2>1, LoginStep
<1>6. CASE Logins!StartLogin(t) \/ Logins!Verify(t)
  BY <1>4, <1>6 DEF Logins!StartLogin, Logins!Verify, Logins!At, Logins!Steps
<1>7. CASE Logins!Check(t)
  <2>1. ~Logins!Reached => (counter # None => counter.count < Limit)
    BY <1>2, LimitTypes, RemainingType DEF Logins!Reached, Logins!Counter
  <2>2. QED
    BY <1>4, <1>7, <2>1 DEF Logins!Check, Logins!Steps
<1>8. CASE Logins!Limited(t)
  <2>1. CASE Logins!Refuses(Logins!Remaining)
    <3>1. counter # None
      BY <2>1 DEF Logins!Refuses, Logins!Remaining
    <3>2. QED
      BY <1>2, <1>5, <1>8, <2>1, <3>1, RemainingType DEF Logins!Limited,
         Logins!Refuses
  <2>2. CASE ~Logins!Refuses(Logins!Remaining)
    <3>1. counter # None => Logins!Seconds(counter.left) = 0
      BY <1>2, <2>2, RemainingType DEF Logins!Refuses, Logins!Remaining
    <3>2. QED
      BY <1>4, <1>8, <2>2, <3>1 DEF Logins!Limited, Logins!Steps
  <2>3. QED
    BY <2>1, <2>2
<1>9. CASE Logins!CheckAgain(t)
  BY <1>3, <1>4, <1>5, <1>9 DEF Logins!CheckAgain, Logins!Steps
<1>10. CASE Logins!LimitedAgain(t)
  <2>1. CASE Logins!Refuses(Logins!Remaining)
    <3>1. counter # None
      BY <2>1 DEF Logins!Refuses, Logins!Remaining
    <3>2. QED
      BY <1>2, <1>5, <1>10, <2>1, <3>1, RemainingType DEF Logins!LimitedAgain,
         Logins!Refuses
  <2>2. CASE ~Logins!Refuses(Logins!Remaining)
    <3>1. Logins!Remaining = 0 /\ (counter # None => counter.left \in Nat)
      BY <1>2, <2>2, RemainingType DEF Logins!Refuses, Logins!Counter
    <3>2. counter # None =>
             counter.left + PerSecond \div 2 < Window * PerSecond + PerSecond
      BY <1>2, <1>3, <3>1, LimitTypes, RemainingType
    <3>3. QED
      BY <1>3, <1>5, <1>10, <2>2, <3>2 DEF Logins!LimitedAgain
  <2>3. QED
    BY <2>1, <2>2
<1>11. CASE Logins!LoginFails(t)
  BY <1>5, <1>11 DEF Logins!LoginFails
<1>12. QED
  BY <1>6, <1>7, <1>8, <1>9, <1>10, <1>11

\* A counted failure is one of those that passed the check.
LEMMA RecordKeeps ==
  ASSUME Logins!LimitConstants, LoginInv, NEW t \in Threads,
         Logins!RecordFailure(t)
  PROVE  LoginInv'
<1> DEFINE left == Logins!TimeToLive
           opened == IF counter = None THEN Window * PerSecond
                     ELSE counter.opened
<1>0. Limit \in Nat \ {0} /\ Logins!Cardinality(Threads) \in Nat
  BY LimitTypes
<1>1. counter # None => /\ counter \in Logins!Counter
                        /\ counter.count \in 1 .. Logins!MaxCount
                        /\ counter.left \in Nat /\ counter.opened \in Nat
                        /\ counter.left <= counter.opened
  BY DEF LoginInv, Logins!TypeOK, Logins!Counter, Logins!LimitHolds
<1>2. /\ Logins!Raised \in 1 .. Logins!MaxCount
      /\ left \in Nat /\ opened \in Nat /\ left <= opened
      /\ counter # None => left = counter.left
  BY <1>1, LimitTypes DEF Logins!Raised, Logins!TimeToLive
<1>3. /\ counter' = [count |-> Logins!Raised, left |-> left, opened |-> opened]
      /\ counter' \in Logins!Counter
      /\ counter'.count = Logins!Raised /\ counter'.left = left
      /\ counter'.opened = opened
  BY <1>2 DEF Logins!RecordFailure, Logins!Counter
<1>4. counter' # None
  BY <1>3 DEF Logins!LimitConstants
<1>5. PICK r \in Logins!Login :
         /\ login' = [login EXCEPT ![t] = r]
         /\ r.step \notin {"verify", "record"}
         /\ r.of => login[t].of /\ r.wait = login[t].wait
  <2>1. CASE Logins!Goto(t, "again")
    <3>1. "again" \in Logins!Steps
      BY DEF Logins!Steps
    <3>2. PICK r \in Logins!Login : /\ login' = [login EXCEPT ![t] = r]
                             /\ r.step = "again"
                             /\ r.wait = login[t].wait
                             /\ r.of = login[t].of
      BY <2>1, <3>1, Records DEF LoginInv
    <3>3. QED
      BY <3>2
  <2>2. CASE Logins!Answered(t, "wrong", 0, FALSE) \/ Logins!Answered(t,
             "none", 0, FALSE)
    BY <2>2, Records, LimitTypes DEF LoginInv
  <2>3. QED
    BY <2>1, <2>2 DEF Logins!RecordFailure
<1>6. /\ login' \in [Threads -> Logins!Login] /\ login'[t] = r
      /\ \A u \in Threads : u # t => login'[u] = login[u]
  BY <1>5 DEF LoginInv, Logins!TypeOK
<1>7. Waiting'
  BY <1>2, <1>3, <1>4, <1>5, <1>6 DEF LoginInv, Waiting
<1>8. Logins!LimitHolds'
  <2>1. SUFFICES ASSUME Logins!Seconds(left) > 0
                 PROVE  Logins!Raised + Logins!Cardinality(Logins!Passed')
                        <= Limit + Logins!Cardinality(Threads) - 1
    BY <1>2, <1>3 DEF Logins!LimitHolds, Logins!Seconds
  <2>2. /\ Logins!Passed \in SUBSET Threads /\ t \in Logins!Passed
        /\ Logins!Passed' \in SUBSET (Logins!Passed \ {t})
    BY <1>5, <1>6 DEF Logins!Passed, Logins!RecordFailure, Logins!At
  <2>3. /\ Logins!Cardinality(Logins!Passed)
           \in Nat /\ Logins!Cardinality(Logins!Passed') \in Nat
        /\ Logins!Cardinality(Logins!Passed') + 1
           <= Logins!Cardinality(Logins!Passed)
        /\ Logins!Cardinality(Logins!Passed) <= Logins!Cardinality(Threads)
    BY <2>2, Counted
  <2>4. CASE counter = None
    BY <1>0, <2>3, <2>4 DEF Logins!Raised
  <2>5. CASE counter # None
    <3>1. counter.count + Logins!Cardinality(Logins!Passed)
          <= Limit + Logins!Cardinality(Threads) - 1
      BY <1>2, <2>1, <2>5 DEF LoginInv, Logins!LimitHolds
    <3>2. Logins!Raised <= counter.count + 1
      BY <1>1, <2>5, LimitTypes DEF Logins!Raised
    <3>3. QED
      BY <1>1, <1>2, <2>3, <2>5, <3>1, <3>2, LimitTypes
  <2>6. QED
    BY <2>4, <2>5
<1>9. QED
  BY <1>3, <1>6, <1>7, <1>8 DEF LoginInv, Logins!TypeOK

\* Logins that forget which counter they were told about.
LEMMA ForgottenType ==
  ASSUME NEW others \in [Threads -> Logins!Login]
  PROVE  /\ Logins!Forgotten(others) \in [Threads -> Logins!Login]
         /\ \A t \in Threads : ~Logins!Forgotten(others)[t].of
<1>1. ASSUME NEW t \in Threads
      PROVE  /\ [others[t] EXCEPT !.of = FALSE] \in Logins!Login
             /\ [others[t] EXCEPT !.of = FALSE].of = FALSE
  BY DEF Logins!Login
<1>2. QED
  BY <1>1 DEF Logins!Forgotten

\* A counter that is gone leaves nothing to show.
LEMMA GoneKeeps ==
  ASSUME counter' = None, login' \in [Threads -> Logins!Login],
         \A t \in Threads : ~login'[t].of
  PROVE  LoginInv'
  BY DEF LoginInv, Logins!TypeOK, Logins!LimitHolds, Waiting

LEMMA ResetKeeps ==
  ASSUME Logins!LimitConstants, LoginInv, NEW t \in Threads, Logins!Reset(t)
  PROVE  LoginInv'
<1>1. PICK answer \in {"welcome", "none"} :
         login' = [Logins!Forgotten(login) EXCEPT ![t] =
            [ step |-> "idle", answer |-> answer, after |-> 0, wait |-> 0,
              of |-> FALSE ]]
  BY DEF Logins!Reset
<1> DEFINE r == [ step |-> "idle", answer |-> answer, after |-> 0, wait |-> 0,
                  of |-> FALSE ]
<1>2. r \in Logins!Login /\ ~r.of
  BY DEF Logins!Login, Logins!Steps
<1>3. /\ Logins!Forgotten(login) \in [Threads -> Logins!Login]
      /\ \A u \in Threads : ~Logins!Forgotten(login)[u].of
  BY ForgottenType DEF LoginInv, Logins!TypeOK
<1>4. /\ login' \in [Threads -> Logins!Login]
      /\ \A u \in Threads : ~login'[u].of
  BY <1>1, <1>2, <1>3
<1>5. QED
  BY <1>4, GoneKeeps DEF Logins!Reset

LEMMA LessType ==
  ASSUME NEW ticks \in Nat
  PROVE  Logins!Less(ticks) \in Nat /\ ticks - 1 <= Logins!Less(ticks)
  BY DEF Logins!Less

\* Time passes for who waits and for the counter alike.
LEMMA LoginTickKeeps ==
  ASSUME Logins!LimitConstants, LoginInv, Logins!Tick
  PROVE  LoginInv'
<1> DEFINE waited == [t \in Threads |->
                        [login[t] EXCEPT !.wait = Logins!Less(login[t].wait)]]
<1>1. ASSUME NEW t \in Threads
      PROVE  /\ waited[t] \in Logins!Login
             /\ waited[t].step = login[t].step
             /\ waited[t].of = login[t].of
             /\ waited[t].wait = Logins!Less(login[t].wait)
             /\ login[t].wait \in Nat /\ Logins!Less(login[t].wait) \in Nat
  <2>1. login[t] \in Logins!Login /\ login[t].wait \in Nat
    BY DEF LoginInv, Logins!TypeOK, Logins!Login
  <2>2. Logins!Less(login[t].wait) \in Nat
    BY <2>1, LessType
  <2>3. QED
    BY <2>1, <2>2 DEF Logins!Login
<1>2. waited \in [Threads -> Logins!Login]
  BY <1>1
<1>3. CASE counter # None /\ counter.left > 1
  <2>1. /\ counter \in Logins!Counter
        /\ counter.count \in 1 .. Logins!MaxCount
        /\ counter.left \in Nat /\ counter.opened \in Nat
        /\ counter.left <= counter.opened
    BY <1>3 DEF LoginInv, Logins!TypeOK, Logins!Counter, Logins!LimitHolds
  <2>2. /\ counter.left - 1 \in Nat
        /\ Logins!Less(counter.opened) = counter.opened - 1
        /\ Logins!Less(counter.opened) \in Nat
    BY <1>3, <2>1 DEF Logins!Less
  <2>3. /\ counter' \in Logins!Counter
        /\ counter'.count = counter.count
        /\ counter'.left = counter.left - 1
        /\ counter'.opened = counter.opened - 1
    BY <1>3, <2>1, <2>2 DEF Logins!Tick, Logins!Counter
  <2>4. counter' # None
    BY <2>3 DEF Logins!LimitConstants
  <2>5. login' = waited
    BY <1>3 DEF Logins!Tick
  <2>6. Logins!Passed' = Logins!Passed
    BY <1>1, <2>5 DEF Logins!Passed
  <2>7. Logins!LimitHolds'
    <3>1. SUFFICES ASSUME Logins!Seconds(counter.left - 1) > 0
                   PROVE  counter.count + Logins!Cardinality(Logins!Passed)
                          <= Limit + Logins!Cardinality(Threads) - 1
      BY <2>1, <2>3, <2>6 DEF Logins!LimitHolds, Logins!Seconds
    <3>2. Logins!Seconds(counter.left) > 0
      BY <2>1, <2>2, <3>1, SecondsLater
    <3>3. QED
      BY <1>3, <3>2 DEF LoginInv, Logins!LimitHolds
  <2>8. Waiting'
    <3>1. SUFFICES ASSUME NEW t \in Threads, login[t].of
                   PROVE  counter.left - 1 + PerSecond \div 2
                          < Logins!Less(login[t].wait) + PerSecond
      BY <1>1, <2>3, <2>4, <2>5 DEF Waiting
    <3>2. counter.left + PerSecond \div 2 < login[t].wait + PerSecond
      BY <3>1 DEF LoginInv, Waiting
    <3>3. QED
      <4>1. PerSecond \in Nat /\ PerSecond \div 2 \in Nat
        BY LimitTypes
      <4>2. login[t].wait \in Nat /\ login[t].wait - 1
            <= Logins!Less(login[t].wait)
        BY <1>1, LessType
      <4>3. Logins!Less(login[t].wait) \in Nat
        BY <1>1
      <4> HIDE DEF waited
      <4>4. QED
        BY <2>1, <3>2, <4>1, <4>2, <4>3
  <2>9. QED
    BY <1>2, <2>3, <2>5, <2>7, <2>8 DEF LoginInv, Logins!TypeOK
<1>4. CASE ~(counter # None /\ counter.left > 1)
  BY <1>2, <1>4, ForgottenType, GoneKeeps DEF Logins!Tick
<1>5. QED
  BY <1>3, <1>4

LEMMA LoginNext ==
  ASSUME Logins!LimitConstants, LoginInv, [Logins!Next]_Logins!vars
  PROVE  LoginInv'
<1>1. CASE Logins!Next
  BY <1>1, LoginReadsKeep, RecordKeeps, ResetKeeps,
     LoginTickKeeps DEF Logins!Next, Logins!Step
<1>2. CASE UNCHANGED Logins!vars
  BY <1>2 DEF Logins!vars, LoginInv, Logins!TypeOK, Logins!LimitHolds,
     Waiting, Logins!Passed, Logins!Seconds
<1>3. QED
  BY <1>1, <1>2

-----------------------------------------------------------------------------
\* In every run the invariant holds.
LEMMA LoginInvariance == Logins!Spec => []LoginInv
<1>1. Logins!Init => LoginInv
  BY LoginInit, AccountConstants
<1>2. LoginInv /\ [Logins!Next]_Logins!vars => LoginInv'
  BY LoginNext, AccountConstants
<1>3. QED
  BY <1>1, <1>2, PTL DEF Logins!Spec

\* However logins interleave and the counter expires, few more failures than
\* the limit are counted in a window, and the window does not grow.
THEOREM LimitAlwaysHolds ==
  Logins!Spec => []LimitHolds
<1>1. LoginInv => LimitHolds
  BY DEF LoginInv, LimitHolds
<1>2. QED
  BY <1>1, LoginInvariance, PTL

\* A client that waits as long as it was told is not refused again because of
\* the counter it was told about.
THEOREM WaitingIsAlwaysEnough ==
  Logins!Spec => []WaitingIsEnough
<1>1. LoginInv => WaitingIsEnough
  <2>1. SUFFICES ASSUME LoginInv, NEW t \in Threads, login[t].of,
                 login[t].wait = 0
                 PROVE  ~Logins!Refuses(Logins!Remaining)
    BY DEF WaitingIsEnough, Logins!WaitingIsEnough
  <2>2. counter # None /\ counter.left \in Nat
    BY <2>1, RemainingType, AccountConstants DEF LoginInv, Waiting,
       Logins!TypeOK, Logins!Counter
  <2>3. counter.left + PerSecond \div 2 < PerSecond
    BY <2>1, LimitTypes, AccountConstants DEF LoginInv, Waiting
  <2>4. ~(Logins!Seconds(counter.left) > 0)
    <3>1. PerSecond \in Nat /\ PerSecond \div 2 \in Nat
      BY LimitTypes, AccountConstants
    <3>2. Logins!Seconds(counter.left) > 0
          <=> counter.left + PerSecond \div 2 >= PerSecond
      BY <2>2, Rounding, AccountConstants
    <3>3. QED
      BY <2>2, <2>3, <3>1, <3>2
  <2>5. QED
    BY <2>2, <2>4 DEF Logins!Refuses, Logins!Remaining
<1>2. QED
  BY <1>1, LoginInvariance, PTL

-----------------------------------------------------------------------------
(***************************************************************************)
(* ClientSession.  Two things have to be told apart: the cookie, which the *)
(* answer to a login or a logout changes before the page knows, and what   *)
(* the page shows.  While a user is shown the cookie is that of the        *)
(* session shown or gone (Signed), because only a page that shows nobody   *)
(* logs in and only a fresh one asks who is signed in (Asking, SigningIn). *)
(* A request of the present epoch was therefore sent with that cookie      *)
(* (Current), and an answer is about the owner of its cookie (Told).       *)
(***************************************************************************)

Flying(q) == request[q].stage # "free"

\* What the page shows is the session it was told of.
Signed ==
    user # None =>
        /\ mine \in SessionIds
        /\ owner[mine] = user
        /\ cookie \in {mine, None}

\* A fresh page only asks who is signed in, with the cookie there is.
Asking ==
    /\ checking => user = None /\ \A q \in Slots :
          Flying(q) => request[q].kind = "me" /\ request[q].with = cookie
    /\ \A q \in Slots : Flying(q) /\ request[q].kind = "me" => checking
    /\ \A p, q \in Slots : /\ Flying(p) /\ request[p].kind = "me"
                           /\ Flying(q) /\ request[q].kind = "me"
                           => p = q

\* A page that logs in shows nobody, and the cookie it gets is the new one.
SigningIn ==
    /\ \A q \in Slots : Flying(q) /\ request[q].kind = "login" =>
          /\ user = None
          /\ request[q].stage = "sent" => request[q].who \in Users
          /\ request[q].status = "ok" =>
                /\ request[q].session \in SessionIds
                /\ request[q].who \in Users
                /\ owner[request[q].session] = request[q].who
                /\ request[q].stage = "arrived" =>
                      cookie \in {request[q].session, None}
    /\ \A p, q \in Slots : /\ Flying(p) /\ request[p].kind = "login"
                           /\ Flying(q) /\ request[q].kind = "login"
                           => p = q

\* What was sent in the present epoch was sent for the user shown.
Current ==
    \A q \in Slots : Flying(q) =>
        /\ request[q].epoch <= epoch
        /\ request[q].kind \in {"data", "logout"} /\ Client!SameEpoch(q) =>
              user # None /\ request[q].with \in {mine, None}

\* An answer is about the owner of the cookie it came for.
Told ==
    \A q \in Slots :
        Flying(q) /\ request[q].kind \in {"me", "data"}
        /\ request[q].status = "ok" =>
            /\ request[q].with \in SessionIds
            /\ request[q].who \in Users
            /\ owner[request[q].with] = request[q].who

Unanswered ==
    \A q \in Slots : request[q].stage = "sent" => request[q].status = "none"

ClientInv ==
    /\ Client!TypeOK
    /\ Signed
    /\ Asking
    /\ SigningIn
    /\ Current
    /\ Told
    /\ Unanswered
    /\ Client!ShownDataIsOwn

-----------------------------------------------------------------------------
LEMMA ClientInit ==
  ASSUME Client!ClientConstants, Client!Init
  PROVE  ClientInv
<1>1. Client!TypeOK
  BY DEF Client!Init, Client!TypeOK, Client!Request, Client!Free, Client!Kinds
<1>2. \A q \in Slots : ~Flying(q) /\ request[q].stage # "sent"
  BY DEF Client!Init, Flying, Client!Free
<1>3. QED
  BY <1>1, <1>2 DEF Client!Init, ClientInv, Signed, Asking, SigningIn,
     Current, Told,
                    Unanswered, Client!ShownDataIsOwn

-----------------------------------------------------------------------------
\* What becomes of the requests when one is replaced.
LEMMA RequestReplaced ==
  ASSUME Client!TypeOK, NEW q \in Slots, NEW r \in Client!Request,
         Client!Becomes(q, r)
  PROVE  /\ request' \in [Slots -> Client!Request]
         /\ request'[q] = r
         /\ \A p \in Slots : p # q => request'[p] = request[p]
  BY DEF Client!TypeOK, Client!Becomes

\* A request that is sent.
LEMMA SentRecord ==
  ASSUME Client!ClientConstants, Client!TypeOK, NEW q \in Slots,
         NEW kind \in Client!Kinds,
         NEW who \in Users \cup {None}, Client!Send(q, kind, who)
  PROVE  \E r \in Client!Request :
            /\ Client!Becomes(q, r)
            /\ r.kind = kind /\ r.stage = "sent" /\ r.with = cookie
            /\ r.epoch = epoch /\ r.who = who /\ r.status = "none"
<1> DEFINE r == [Client!Free EXCEPT !.kind = kind, !.stage = "sent",
                             !.with = cookie, !.epoch = epoch, !.who = who]
<1>1. Client!Free \in Client!Request
  BY DEF Client!Free, Client!Request, Client!Kinds
<1>2. r \in Client!Request
  BY <1>1 DEF Client!Request, Client!TypeOK
<1>3. /\ r.kind = kind /\ r.stage = "sent" /\ r.with = cookie
      /\ r.epoch = epoch /\ r.who = who /\ r.status = "none"
  BY <1>1 DEF Client!Free
<1>4. QED
  BY <1>2, <1>3 DEF Client!Send

\* A request that is answered.
LEMMA AnsweredRecord ==
  ASSUME Client!TypeOK, NEW q \in Slots,
         NEW status \in {"ok", "unauthorized"},
         NEW who \in Users \cup {None},
         NEW opened \in SessionIds \cup {None},
         Client!Answered(q, status, who, opened)
  PROVE  \E r \in Client!Request :
            /\ Client!Becomes(q, r)
            /\ r.kind = request[q].kind /\ r.stage = "answered"
            /\ r.with = request[q].with /\ r.epoch = request[q].epoch
            /\ r.who = who /\ r.status = status /\ r.session = opened
<1> DEFINE r == [request[q] EXCEPT !.stage = "answered", !.status = status,
                                   !.who = who, !.session = opened]
<1>1. request[q] \in Client!Request
  BY DEF Client!TypeOK
<1>2. r \in Client!Request
  BY <1>1 DEF Client!Request
<1>3. /\ r.kind = request[q].kind /\ r.stage = "answered"
      /\ r.with = request[q].with /\ r.epoch = request[q].epoch
      /\ r.who = who /\ r.status = status /\ r.session = opened
  BY <1>1 DEF Client!Request
<1>4. QED
  BY <1>2, <1>3 DEF Client!Answered

\* A request whose answer arrives or will not: status is the new one.
LEMMA ArrivedRecord ==
  ASSUME Client!TypeOK, NEW q \in Slots, Client!Arrive(q) \/ Client!Lose(q)
  PROVE  \E r \in Client!Request :
            /\ Client!Becomes(q, r)
            /\ r.kind = request[q].kind
            /\ r.stage = "arrived"
            /\ r.with = request[q].with
            /\ r.epoch = request[q].epoch
            /\ r.who = request[q].who
            /\ r.session = request[q].session
            /\ \/ Client!Lose(q) /\ r.status = "failed"
               \/ Client!Arrive(q) /\ r.status = request[q].status
<1>1. request[q] \in Client!Request
  BY DEF Client!TypeOK
<1>2. CASE Client!Arrive(q)
  <2> DEFINE r == [request[q] EXCEPT !.stage = "arrived"]
  <2>1. r \in Client!Request
    BY <1>1 DEF Client!Request
  <2> QED
    BY <1>1, <1>2, <2>1 DEF Client!Arrive, Client!Request
<1>3. CASE Client!Lose(q)
  <2> DEFINE r == [request[q] EXCEPT !.stage = "arrived", !.status = "failed"]
  <2>1. r \in Client!Request
    BY <1>1 DEF Client!Request
  <2>2. /\ r.kind = request[q].kind
        /\ r.stage = "arrived"
        /\ r.with = request[q].with
        /\ r.epoch = request[q].epoch
        /\ r.who = request[q].who
        /\ r.session = request[q].session
        /\ r.status = "failed"
    BY <1>1 DEF Client!Request
  <2> QED
    BY <1>3, <2>1, <2>2 DEF Client!Lose
<1>4. QED
  BY <1>2, <1>3

-----------------------------------------------------------------------------
\* What is sent keeps the invariant.
LEMMA SendsKeep ==
  ASSUME Client!ClientConstants, ClientInv, NEW q \in Slots,
         Client!SendMe(q) \/ Client!SendLogin(q) \/ Client!SendLogout(q)
               \/ Client!SendData(q)
  PROVE  ClientInv'
<1>1. PICK kind \in Client!Kinds, who \in Users \cup {None} :
         /\ Client!Send(q, kind, who)
         /\ kind = "me" => checking /\ ~Client!InFlight("me")
         /\ kind = "login" => /\ ~checking /\ user = None
                              /\ ~Client!InFlight("login") /\ who \in Users
         /\ kind \in {"logout", "data"} => user # None
  BY DEF Client!SendMe, Client!SendLogin, Client!SendLogout, Client!SendData,
     Client!Kinds
<1>2. PICK r \in Client!Request :
         /\ Client!Becomes(q, r)
         /\ r.kind = kind /\ r.stage = "sent" /\ r.with = cookie
         /\ r.epoch = epoch /\ r.who = who /\ r.status = "none"
  BY <1>1, SentRecord DEF ClientInv
<1>3. UNCHANGED <<owner, live, cookie, user, checking, epoch, cache, mine>>
  BY <1>1 DEF Client!Send, Client!server, Client!page
<1>4. /\ request' \in [Slots -> Client!Request]
      /\ request'[q] = r
      /\ \A p \in Slots : p # q => request'[p] = request[p]
  BY <1>2, RequestReplaced DEF ClientInv
<1>5. Client!TypeOK' /\ Signed' /\ Client!ShownDataIsOwn'
  BY <1>3, <1>4 DEF ClientInv, Client!TypeOK, Signed, Client!ShownDataIsOwn
<1>6. Asking'
  BY <1>1, <1>2, <1>3, <1>4 DEF ClientInv, Asking, Flying, Client!InFlight,
     Client!Kinds
<1>7. SigningIn'
  BY <1>1, <1>2, <1>3, <1>4 DEF ClientInv, SigningIn, Flying, Client!InFlight,
     Client!Kinds
<1>8. Current'
  BY <1>1, <1>2, <1>3, <1>4 DEF ClientInv, Client!TypeOK, Signed, Current,
     Client!SameEpoch,
                                Flying, Client!Kinds
<1>9. Told' /\ Unanswered'
  BY <1>1, <1>2, <1>3, <1>4 DEF ClientInv, Told, Unanswered, Flying,
     Client!Kinds
<1>10. QED
  BY <1>5, <1>6, <1>7, <1>8, <1>9 DEF ClientInv

\* The server answers a login.
LEMMA ServeLoginKeeps ==
  ASSUME Client!ClientConstants, ClientInv, NEW q \in Slots,
         Client!ServeLogin(q)
  PROVE  ClientInv'
<1>1. request[q].who \in Users /\ user = None
  BY DEF Client!ServeLogin, Client!Is, ClientInv, SigningIn, Flying
<1>2. PICK status \in {"ok", "unauthorized"}, who \in Users \cup {None},
           opened \in SessionIds \cup {None} :
         /\ Client!Answered(q, status, who, opened)
         /\ \/ /\ status = "ok" /\ who \in Users /\ opened \in SessionIds
               /\ owner[opened] = None
               /\ owner' = [owner EXCEPT ![opened] = who]
               /\ live' = live \cup {opened}
            \/ status = "unauthorized" /\ UNCHANGED <<owner, live>>
  BY <1>1 DEF Client!ServeLogin, Client!server
<1>3. PICK r \in Client!Request :
         /\ Client!Becomes(q, r)
         /\ r.kind = "login" /\ r.stage = "answered"
         /\ r.with = request[q].with /\ r.epoch = request[q].epoch
         /\ r.who = who /\ r.status = status /\ r.session = opened
  BY <1>2, AnsweredRecord DEF ClientInv, Client!ServeLogin, Client!Is
<1>4. /\ request' \in [Slots -> Client!Request]
      /\ request'[q] = r
      /\ \A p \in Slots : p # q => request'[p] = request[p]
  BY <1>3, RequestReplaced DEF ClientInv
<1>5. UNCHANGED <<cookie, user, checking, epoch, cache, mine>>
  BY DEF Client!ServeLogin, Client!page
<1>6. /\ owner' \in [SessionIds -> Users \cup {None}]
      /\ \A s \in SessionIds : owner[s] # None => owner'[s] = owner[s]
      /\ status = "ok" => owner'[opened] = who
      /\ live' \subseteq {s \in SessionIds : owner'[s] # None}
  BY <1>2 DEF ClientInv, Client!TypeOK, Client!ClientConstants
<1>7. Client!TypeOK' /\ Client!ShownDataIsOwn'
  BY <1>4, <1>5, <1>6 DEF ClientInv, Client!TypeOK, Client!ShownDataIsOwn
<1>8. request[q].kind = "login" /\ request[q].stage = "sent" /\ Flying(q)
  BY DEF Client!ServeLogin, Client!Is, Flying
<1>9. Signed' /\ Asking'
  BY <1>1, <1>3, <1>4, <1>5, <1>8 DEF ClientInv, Signed, Asking, Flying
<1>10. SigningIn'
  BY <1>1, <1>2, <1>3, <1>4, <1>5, <1>6, <1>8, Client!ClientConstants
     DEF ClientInv, SigningIn, Flying, Client!ClientConstants
<1>11. Current'
  BY <1>3, <1>4, <1>5, <1>8 DEF ClientInv, Current, Client!SameEpoch, Flying
<1>12. Told' /\ Unanswered'
  BY <1>3, <1>4, <1>6, <1>8, Client!ClientConstants
     DEF ClientInv, Told, Unanswered, Flying, Client!ClientConstants
<1>13. QED
  BY <1>7, <1>9, <1>10, <1>11, <1>12 DEF ClientInv

\* The server answers any other request.
LEMMA ServesKeep ==
  ASSUME Client!ClientConstants, ClientInv, NEW q \in Slots,
         Client!ServeLogout(q) \/ Client!ServeOwner(q)
  PROVE  ClientInv'
<1>1. /\ request[q].kind \in {"logout", "me", "data"}
      /\ request[q].stage = "sent"
  BY DEF Client!ServeLogout, Client!ServeOwner, Client!Is
<1>2. PICK status \in {"ok", "unauthorized"}, who \in Users \cup {None} :
         /\ Client!Answered(q, status, who, None)
         /\ request[q].kind # "logout" /\ status = "ok" =>
               /\ request[q].with \in SessionIds
               /\ who \in Users
               /\ owner[request[q].with] = who
  <2>1. CASE Client!ServeLogout(q)
    BY <2>1 DEF Client!ServeLogout, Client!Is
  <2>2. CASE Client!ServeOwner(q)
    <3>1. request[q].with \in live =>
             /\ request[q].with \in SessionIds
             /\ owner[request[q].with] \in Users
      BY DEF ClientInv, Client!TypeOK
    <3>2. QED
      BY <2>2, <3>1 DEF Client!ServeOwner
  <2>3. QED
    BY <2>1, <2>2
<1>3. PICK r \in Client!Request :
         /\ Client!Becomes(q, r)
         /\ r.kind = request[q].kind /\ r.stage = "answered"
         /\ r.with = request[q].with /\ r.epoch = request[q].epoch
         /\ r.who = who /\ r.status = status /\ r.session = None
  BY <1>2, AnsweredRecord DEF ClientInv
<1>4. /\ request' \in [Slots -> Client!Request]
      /\ request'[q] = r
      /\ \A p \in Slots : p # q => request'[p] = request[p]
  BY <1>3, RequestReplaced DEF ClientInv
<1>5. /\ UNCHANGED <<owner, cookie, user, checking, epoch, cache, mine>>
      /\ live' \subseteq live
  BY DEF Client!ServeLogout, Client!ServeOwner, Client!server, Client!page
<1>6. Client!TypeOK' /\ Client!ShownDataIsOwn'
  BY <1>4, <1>5 DEF ClientInv, Client!TypeOK, Client!ShownDataIsOwn
<1>7. Signed' /\ Asking' /\ SigningIn'
  BY <1>1, <1>3, <1>4, <1>5 DEF ClientInv, Signed, Asking, SigningIn, Flying
<1>8. Current'
  BY <1>1, <1>3, <1>4, <1>5 DEF ClientInv, Current, Client!SameEpoch, Flying
<1>9. Told' /\ Unanswered'
  BY <1>1, <1>2, <1>3, <1>4, <1>5 DEF ClientInv, Told, Unanswered, Flying
<1>10. QED
  BY <1>6, <1>7, <1>8, <1>9 DEF ClientInv

\* An answer arrives or is lost.
LEMMA ArrivalsKeep ==
  ASSUME Client!ClientConstants, ClientInv, NEW q \in Slots,
         Client!Arrive(q) \/ Client!Lose(q)
  PROVE  ClientInv'
<1>1. PICK r \in Client!Request :
         /\ Client!Becomes(q, r)
         /\ r.kind = request[q].kind
         /\ r.stage = "arrived"
         /\ r.with = request[q].with
         /\ r.epoch = request[q].epoch
         /\ r.who = request[q].who
         /\ r.session = request[q].session
         /\ \/ Client!Lose(q) /\ r.status = "failed"
            \/ Client!Arrive(q) /\ r.status = request[q].status
  BY ArrivedRecord DEF ClientInv
<1>2. /\ request' \in [Slots -> Client!Request]
      /\ request'[q] = r
      /\ \A p \in Slots : p # q => request'[p] = request[p]
  BY <1>1, RequestReplaced DEF ClientInv
<1>3. /\ UNCHANGED <<owner, live, user, checking, epoch, cache, mine>>
      /\ Flying(q)
  BY DEF Client!Arrive, Client!Lose, Client!server, Client!page, Flying
<1>4. \/ cookie' = cookie /\ ~(r.kind = "login" /\ r.status = "ok")
      \/ r.kind = "login" /\ r.status = "ok" /\ cookie' = r.session
      \/ r.kind = "logout" /\ cookie' = None
  BY <1>1 DEF Client!Arrive, Client!Lose
<1>5. r.kind = "login" => user = None
  BY <1>1, <1>3 DEF ClientInv, SigningIn
<1>6. r.kind = "login" /\ r.status = "ok" => r.session \in SessionIds
  BY <1>1, <1>3 DEF ClientInv, SigningIn
<1>7. Client!TypeOK' /\ Client!ShownDataIsOwn'
  BY <1>2, <1>3, <1>4, <1>6 DEF ClientInv, Client!TypeOK, Client!ShownDataIsOwn
<1>8. Signed'
  BY <1>3, <1>4, <1>5 DEF ClientInv, Signed
<1>9. r.kind \in {"login", "logout"} => ~checking
  BY <1>1, <1>3 DEF ClientInv, Asking
<1>10. Asking'
  BY <1>1, <1>2, <1>3, <1>4, <1>9 DEF ClientInv, Asking, Flying
<1>11. SigningIn'
  BY <1>1, <1>2, <1>3, <1>4 DEF ClientInv, SigningIn, Flying
<1>12. Current'
  BY <1>1, <1>2, <1>3 DEF ClientInv, Current, Client!SameEpoch, Flying
<1>13. Told' /\ Unanswered'
  BY <1>1, <1>2, <1>3 DEF ClientInv, Told, Unanswered, Flying
<1>14. QED
  BY <1>7, <1>8, <1>10, <1>11, <1>12, <1>13 DEF ClientInv

\* The page handles an answer: it shows another user, takes what it fetched,
\* or goes on.
LEMMA HandleKeeps ==
  ASSUME Client!ClientConstants, ClientInv, NEW q \in Slots, Client!Handle(q)
  PROVE  ClientInv'
<1> DEFINE r == request[q]
<1>1. /\ r \in Client!Request
      /\ r.stage = "arrived" /\ Flying(q)
      /\ UNCHANGED <<owner, live, cookie>>
  BY DEF ClientInv, Client!TypeOK, Client!Handle, Flying, Client!server
<1>2. Client!Free \in Client!Request /\ Client!Free.stage = "free"
  BY DEF Client!Free, Client!Request, Client!Kinds
<1>3. /\ request' \in [Slots -> Client!Request]
      /\ request'[q] = Client!Free
      /\ \A p \in Slots : p # q => request'[p] = request[p]
  BY <1>2, RequestReplaced DEF ClientInv, Client!Handle
<1>4. \A p \in Slots : Flying(p)'
      => p # q /\ Flying(p) /\ request'[p] = request[p]
  BY <1>2, <1>3 DEF Flying
<1>5. /\ checking' \in BOOLEAN
      /\ checking' => checking
      /\ r.kind = "me" /\ r.status # "failed" => ~checking'
      /\ r.kind = "me" /\ r.status = "failed" => checking' = checking
      /\ r.kind # "me" => checking' = checking
  BY DEF ClientInv, Client!TypeOK, Client!Handle
<1>6. r.kind = "me" =>
         /\ checking /\ user = None
         /\ \A p \in Slots : Flying(p)' => request[p].kind = "me" /\ FALSE
  BY <1>1, <1>4 DEF ClientInv, Asking
<1>7. r.kind = "login" =>
         /\ user = None /\ ~checking
         /\ \A p \in Slots : Flying(p)' => request[p].kind # "login"
  BY <1>1, <1>4 DEF ClientInv, Asking, SigningIn
<1>8. Told'
  BY <1>1, <1>3, <1>4 DEF ClientInv, Told
<1>9. Unanswered'
  BY <1>2, <1>3 DEF ClientInv, Unanswered
<1>10. ASSUME NEW who \in Users \cup {None},
              NEW opened \in SessionIds \cup {None},
              Client!Show(who, opened),
              ~checking',
              who # None => /\ opened \in SessionIds /\ owner[opened] = who
                            /\ cookie \in {opened, None}
                            /\ r.kind \in {"me", "login"}
       PROVE  ClientInv'
  <2>1. Client!TypeOK' /\ Client!ShownDataIsOwn'
    BY <1>1, <1>3, <1>5, <1>10 DEF ClientInv, Client!TypeOK,
       Client!ShownDataIsOwn, Client!Show, Client!CacheOf
  <2>2. Signed'
    BY <1>1, <1>10 DEF Signed, Client!Show
  <2>3. Asking'
    BY <1>1, <1>3, <1>4, <1>5, <1>6, <1>10 DEF ClientInv, Asking
  <2>4. SigningIn'
    BY <1>1, <1>3, <1>4, <1>6, <1>7, <1>10 DEF ClientInv, SigningIn,
       Client!Show
  <2>5. Current'
    BY <1>1, <1>3, <1>4, <1>10 DEF ClientInv, Client!TypeOK, Client!Request,
       Current, Client!SameEpoch, Client!Show
  <2>6. QED
    BY <1>8, <1>9, <2>1, <2>2, <2>3, <2>4, <2>5 DEF ClientInv
<1>11. ASSUME UNCHANGED <<user, epoch, mine>>,
              cache' \subseteq {user}, cache' \subseteq Users
       PROVE  ClientInv'
  <2>1. Client!TypeOK' /\ Client!ShownDataIsOwn'
    BY <1>1, <1>3, <1>5, <1>11 DEF ClientInv, Client!TypeOK,
       Client!ShownDataIsOwn
  <2>2. Signed' /\ SigningIn' /\ Current'
    BY <1>1, <1>3, <1>4, <1>11
       DEF ClientInv, Signed, SigningIn, Current, Client!SameEpoch
  <2>3. Asking'
    BY <1>1, <1>3, <1>4, <1>5, <1>6, <1>11 DEF ClientInv, Asking
  <2>4. QED
    BY <1>8, <1>9, <2>1, <2>2, <2>3 DEF ClientInv
<1>12. CASE Client!Expires(q)
  <2>1. Client!Show(None, None)
    BY <1>12 DEF Client!Handle, Client!Expires
  <2>2. ~checking'
    BY <1>1, <1>5, <1>12 DEF ClientInv, Asking, Client!Expires
  <2>3. QED
    BY <1>10, <2>1, <2>2
<1>13. CASE ~Client!Expires(q) /\ r.kind = "me" /\ r.status = "ok"
  <2>1. Client!Show(r.who, r.with)
    BY <1>13 DEF Client!Handle
  <2>2. /\ r.with \in SessionIds /\ r.who \in Users /\ owner[r.with] = r.who
        /\ cookie = r.with
    BY <1>1, <1>6, <1>13 DEF ClientInv, Told, Asking
  <2>3. QED
    BY <1>5, <1>10, <1>13, <2>1, <2>2
<1>14. CASE ~Client!Expires(q) /\ r.kind = "login" /\ r.status = "ok"
  <2>1. Client!Show(r.who, r.session)
    BY <1>14 DEF Client!Handle
  <2>2. /\ r.session \in SessionIds /\ r.who \in Users
        /\ owner[r.session] = r.who /\ cookie \in {r.session, None}
    BY <1>1, <1>14 DEF ClientInv, SigningIn
  <2>3. QED
    BY <1>5, <1>7, <1>10, <1>14, <2>1, <2>2
<1>15. CASE ~Client!Expires(q) /\ r.kind = "logout" /\ r.status = "ok"
  <2>1. Client!Show(None, None)
    BY <1>15 DEF Client!Handle
  <2>2. ~checking'
    BY <1>1, <1>5, <1>15 DEF ClientInv, Asking
  <2>3. QED
    BY <1>10, <2>1, <2>2
<1>16. CASE /\ ~Client!Expires(q)
            /\ r.kind = "data" /\ r.status = "ok" /\ Client!SameEpoch(q)
  <2>1. cache' = cache \cup {r.who} /\ UNCHANGED <<user, epoch, mine>>
    BY <1>16 DEF Client!Handle
  <2>2. r.who = user /\ r.who \in Users
    BY <1>1, <1>16 DEF ClientInv, Signed, Current, Told, Client!ClientConstants
  <2>3. QED
    BY <1>11, <2>1, <2>2 DEF ClientInv, Client!TypeOK, Client!ShownDataIsOwn
<1>17. CASE /\ ~Client!Expires(q)
            /\ ~(r.kind \in {"me", "login", "logout"} /\ r.status = "ok")
            /\ ~(r.kind = "data" /\ r.status = "ok" /\ Client!SameEpoch(q))
  <2>1. Client!Kept
    BY <1>17 DEF Client!Handle
  <2>2. QED
    BY <1>11, <2>1 DEF Client!Kept, ClientInv, Client!TypeOK,
       Client!ShownDataIsOwn
<1>18. QED
  BY <1>12, <1>13, <1>14, <1>15, <1>16, <1>17

\* A session ends, or the tab is reloaded.
LEMMA ReloadKeeps ==
  ASSUME Client!ClientConstants, ClientInv,
         Client!Reload \/ \E s \in SessionIds : Client!Expire(s)
  PROVE  ClientInv'
<1>1. CASE Client!Reload
  <2>1. Client!Free \in Client!Request /\ Client!Free.stage = "free"
    BY DEF Client!Free, Client!Request, Client!Kinds
  <2>2. Client!TypeOK'
    BY <1>1, <2>1 DEF Client!Reload, ClientInv, Client!TypeOK, Client!server
  <2>3. \A q \in Slots : ~Flying(q)' /\ request'[q].stage # "sent"
    BY <1>1, <2>1 DEF Client!Reload, Flying
  <2>4. QED
    BY <1>1, <2>2, <2>3 DEF Client!Reload, ClientInv, Signed, Asking,
       SigningIn, Current,
                            Told, Unanswered, Client!ShownDataIsOwn
<1>2. CASE \E s \in SessionIds : Client!Expire(s)
  <2>1. /\ UNCHANGED <<owner, cookie, user, checking, epoch, cache, mine,
           request>>
        /\ live' \subseteq live
    BY <1>2 DEF Client!Expire, Client!page
  <2>2. Client!TypeOK' /\ Signed' /\ Asking' /\ SigningIn'
    BY <2>1 DEF ClientInv, Client!TypeOK, Signed, Asking, SigningIn, Flying
  <2>3. Current' /\ Told' /\ Unanswered' /\ Client!ShownDataIsOwn'
    BY <2>1 DEF ClientInv, Current, Client!SameEpoch, Told, Unanswered,
       Flying, Client!ShownDataIsOwn
  <2>4. QED
    BY <2>2, <2>3 DEF ClientInv
<1>3. QED
  BY <1>1, <1>2

LEMMA ClientNext ==
  ASSUME Client!ClientConstants, ClientInv, [Client!Next]_Client!vars
  PROVE  ClientInv'
<1>1. CASE Client!Next
  BY <1>1, SendsKeep, ServeLoginKeeps, ServesKeep, ArrivalsKeep, HandleKeeps,
     ReloadKeeps DEF Client!Next
<1>2. CASE UNCHANGED Client!vars
  BY <1>2 DEF Client!vars, ClientInv, Client!TypeOK, Signed, Asking,
     SigningIn, Current, Client!SameEpoch,
              Told, Unanswered, Flying, Client!ShownDataIsOwn
<1>3. QED
  BY <1>1, <1>2

-----------------------------------------------------------------------------
\* In every run the invariant holds.
LEMMA ClientInvariance == Client!Spec => []ClientInv
<1>1. Client!Init => ClientInv
  BY ClientInit, AccountConstants
<1>2. ClientInv /\ [Client!Next]_Client!vars => ClientInv'
  BY ClientNext, AccountConstants
<1>3. QED
  BY <1>1, <1>2, PTL DEF Client!Spec

\* What the page shows under the name of a user is that user's, however the
\* answers to requests of earlier sessions arrive.
THEOREM ShownDataIsOwnAlways ==
  Client!Spec => []ShownDataIsOwn
<1>1. ClientInv => ShownDataIsOwn
  BY DEF ClientInv, ShownDataIsOwn
<1>2. QED
  BY <1>1, ClientInvariance, PTL

\* Only a logout, or an answer about the session shown or to a request without
\* a cookie, signs the user out.
THEOREM OnlyOwnAnswersEndSessionAlways ==
  Client!Spec => OnlyOwnAnswersEndSession
<1> DEFINE A == user # None /\ user' = None /\ ~Client!Reload =>
                  \E q \in Slots :
                     /\ Client!Handle(q)
                     /\ request[q].kind = "logout"
                        \/ request[q].with \in {mine, None}
<1>1. ASSUME ClientInv, [Client!Next]_Client!vars PROVE [A]_Client!vars
  <2>1. SUFFICES ASSUME Client!Next, user # None, user' = None,
                 ~Client!Reload PROVE A
    BY <1>1
  <2>2. PICK q \in Slots : Client!Handle(q)
    BY <2>1 DEF Client!Next, Client!SendMe, Client!SendLogin,
       Client!SendLogout, Client!SendData, Client!Send, Client!ServeLogin,
                Client!ServeLogout, Client!ServeOwner, Client!Lose,
                      Client!Arrive, Client!Expire, Client!page
  <2>3. Flying(q)
    BY <2>2 DEF Client!Handle, Flying
  <2>4. request[q].kind # "me" /\ request[q].kind # "login"
    BY <1>1, <2>1, <2>3 DEF ClientInv, Asking, SigningIn
  <2>5. \/ Client!Expires(q)
        \/ request[q].kind = "logout"
    BY <2>1, <2>2, <2>4 DEF Client!Handle, Client!Kept
  <2>6. request[q].kind \in {"data", "logout"}
    BY <1>1, <2>4 DEF ClientInv, Client!TypeOK, Client!Request, Client!Kinds
  <2>7. QED
    BY <1>1, <2>2, <2>3, <2>5, <2>6 DEF ClientInv, Current, Client!Expires
<1>2. QED
  BY <1>1, ClientInvariance, PTL
     DEF Client!Spec, OnlyOwnAnswersEndSession, Client!OnlyOwnAnswersEndSession

-----------------------------------------------------------------------------
(***************************************************************************)
(* The three together: they share no variable, so that to each what the    *)
(* others do is stuttering.                                                *)
(***************************************************************************)

\* Every run of MCAccounts is one of each of its parts.
THEOREM PartsRunAlone ==
  AccountsSpec => Spec /\ Logins!Spec /\ Client!Spec
<1>1. AccountsInit => Init /\ Logins!Init /\ Client!Init
  BY DEF AccountsInit
<1>2. ASSUME [AccountsNext]_<<part, vars, logins, client>>
      PROVE  /\ [Next]_vars
             /\ [Logins!Next]_Logins!vars /\ [Client!Next]_Client!vars
  BY <1>2 DEF AccountsNext, logins, client, Logins!vars, Client!vars
<1>3. QED
  BY <1>1, <1>2, PTL DEF AccountsSpec, Spec, Logins!Spec, Client!Spec

\* So the properties of the parts are properties of the whole.
THEOREM AccountsAreSafe ==
  AccountsSpec => /\ []OldPasswordsSignedOut
                  /\ []LimitHolds
                  /\ []WaitingIsEnough
                  /\ []ShownDataIsOwn
                  /\ OnlyOwnAnswersEndSession
  BY PartsRunAlone, OldPasswordsAlwaysSignedOut, LimitAlwaysHolds,
     WaitingIsAlwaysEnough, ShownDataIsOwnAlways,
     OnlyOwnAnswersEndSessionAlways, PTL
=============================================================================
