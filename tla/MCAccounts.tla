----------------------------- MODULE MCAccounts -----------------------------
(***************************************************************************)
(* An instance for TLC of what signing in is made of: the sessions of the  *)
(* server, its limit on failed logins, and the session of a tab.  They     *)
(* share no variable, and to each what the others do is stuttering; so     *)
(* one of them runs at a time.                                             *)
(***************************************************************************)
EXTENDS Sessions

CONSTANTS
    Threads, Limit, Window, PerSecond,
    Slots, Users, SessionIds

VARIABLES
    part,         \* what runs
    counter, login,
    owner, live, cookie, user, checking, epoch, cache, request, mine

logins == <<counter, login>>
client == <<owner, live, cookie, user, checking, epoch, cache, request, mine>>

Logins == INSTANCE LoginAttempts
Client == INSTANCE ClientSession

ASSUME AccountConstants ==
    SessionConstants /\ Logins!LimitConstants /\ Client!ClientConstants

AccountsInit ==
    /\ part \in {"sessions", "logins", "client"}
    /\ Init /\ Logins!Init /\ Client!Init
    /\ part # "sessions" => users = [m \in Mails |-> None]
    /\ part # "client" => cookie = None

AccountsNext ==
    /\ UNCHANGED part
    /\ \/ /\ part = "sessions" /\ Next
          /\ UNCHANGED <<logins, client>>
       \/ /\ part = "logins" /\ Logins!Next
          /\ UNCHANGED <<vars, client>>
       \/ /\ part = "client" /\ Client!Next
          /\ UNCHANGED <<vars, logins>>

AccountsSpec ==
    /\ AccountsInit
    /\ [][AccountsNext]_<<part, vars, logins, client>>
    /\ Fairness
    /\ Logins!Fairness

-----------------------------------------------------------------------------
\* Few more failures than the limit are counted, however logins interleave,
\* in a window that begins with the first one.
LimitHolds == Logins!LimitHolds

\* A client that waits as long as it was told is let in.
WaitingIsEnough == Logins!WaitingIsEnough

\* Every counter ends.
CountersEnd == Logins!CountersEnd

\* Nobody's data is shown beside another name.
ShownDataIsOwn == Client!ShownDataIsOwn

\* A late answer does not end the session that followed.
OnlyOwnAnswersEndSession == Client!OnlyOwnAnswersEndSession
=============================================================================
