--------------------------- MODULE LoginAttempts ---------------------------
(***************************************************************************)
(* The limit on failed logins of one mail from one address: a counter in   *)
(* Redis with a time to live, read before a login is verified and raised   *)
(* after it failed.  The calls of concurrent logins interleave; the        *)
(* counter may expire between any two of them.                             *)
(*                                                                         *)
(* Time passes in ticks, PerSecond of them in a second, and is counted     *)
(* down: what matters is how much is left, not when it is.                 *)
(***************************************************************************)
EXTENDS Naturals, FiniteSets

CONSTANTS
    Threads,      \* the logins that can be in progress at once
    None,         \* no key, no value
    Limit,        \* login_rate_limit_attempts
    Window,       \* login_rate_limit_window_seconds
    PerSecond

VARIABLES
    counter,      \* the key auth:login:failures:*
    login         \* the logins in progress or answered last

vars == <<counter, login>>

\* Bound on the counter: more than this is not told apart.
MaxCount == Limit + Cardinality(Threads) + 1

\* left: the ticks to live; opened: the ticks until a window after the first
\* failure is over.
Counter == [count : 1 .. MaxCount, left : Nat, opened : Nat]

LimitConstants ==
    /\ Limit \in Nat \ {0}
    /\ Window \in Nat \ {0}
    /\ PerSecond \in Nat \ {0}
    /\ IsFiniteSet(Threads)
    /\ None \notin Counter

Steps == {"idle", "check", "ttl", "verify", "record", "again", "again ttl",
          "reset"}

(***************************************************************************)
(* answer: what was answered last; after: the Retry-After of that answer;  *)
(* wait: the ticks a client that obeys it still waits; of: whether the     *)
(* counter it was told about is still the one in Redis.                    *)
(***************************************************************************)
Login == [ step : Steps,
           answer : {"none", "welcome", "wrong", "limited"},
           after : Nat,
           wait : Nat,
           of : BOOLEAN ]

TypeOK ==
    /\ counter = None \/ counter \in Counter
    /\ login \in [Threads -> Login]

Init ==
    /\ counter = None
    /\ login = [t \in Threads |->
                  [ step |-> "idle", answer |-> "none", after |-> 0,
                    wait |-> 0, of |-> FALSE ]]

-----------------------------------------------------------------------------
At(t, step) == login[t].step = step
Goto(t, step) == login' = [login EXCEPT ![t].step = step]

Answered(t, answer, after, of) ==
    login' = [login EXCEPT ![t] =
        [ step |-> "idle", answer |-> answer, after |-> after,
          wait |-> after * PerSecond, of |-> of ]]

\* External: TTL answers in seconds, rounded to the nearest.
Seconds(left) == (left + PerSecond \div 2) \div PerSecond

\* slip: one failure more is let through
ReachedAbove == counter # None /\ counter.count > Limit

\* What a GET makes of the key.
Reached == counter # None /\ counter.count >= Limit

\* TTL of a key that has gone is negative.
Remaining == IF counter = None THEN 0 ELSE Seconds(counter.left)

\* slip: the last half second, which is told as 0, still refuses
Refusing(seconds) == counter # None

\* "ttl if ttl > 0 else None"
Refuses(seconds) == seconds > 0

StartLogin(t) ==
    /\ At(t, "idle")
    /\ login[t].wait = 0
    /\ Goto(t, "check")
    /\ UNCHANGED counter

\* get_retry_after before the login: the GET ...
Check(t) ==
    /\ At(t, "check")
    /\ Goto(t, IF Reached THEN "ttl" ELSE "verify")
    /\ UNCHANGED counter

\* ... and the TTL of a key which may have expired or been deleted since.
Limited(t) ==
    /\ At(t, "ttl")
    /\ IF Refuses(Remaining)
       THEN Answered(t, "limited", Remaining, TRUE)
       ELSE Goto(t, "verify")
    /\ UNCHANGED counter

Verify(t) ==
    /\ At(t, "verify")
    /\ \E right \in BOOLEAN : Goto(t, IF right THEN "reset" ELSE "record")
    /\ UNCHANGED counter

\* slip: the window starts again with every failure
Restarted == Window * PerSecond

\* EXPIRE with NX gives a time to live only to a key that has none.
TimeToLive == IF counter = None THEN Window * PerSecond ELSE counter.left

\* Counts beyond MaxCount are not told apart.
Raised == IF counter = None THEN 1
          ELSE IF counter.count < MaxCount THEN counter.count + 1
          ELSE MaxCount

\* record_failure: INCR and EXPIRE in one transaction, whose answer may be
\* lost.
RecordFailure(t) ==
    /\ At(t, "record")
    /\ counter' = [ count |-> Raised,
                    left |-> TimeToLive,
                    opened |-> IF counter = None THEN Window * PerSecond
                               ELSE counter.opened ]
    /\ \/ Raised >= Limit /\ Goto(t, "again")
       \/ Raised < Limit /\ Answered(t, "wrong", 0, FALSE)
       \/ Answered(t, "none", 0, FALSE)

\* get_retry_after after the failure; None becomes the whole window.
CheckAgain(t) ==
    /\ At(t, "again")
    /\ IF Reached
       THEN Goto(t, "again ttl")
       ELSE Answered(t, "limited", Window, FALSE)
    /\ UNCHANGED counter

LimitedAgain(t) ==
    /\ At(t, "again ttl")
    /\ IF Refuses(Remaining)
       THEN Answered(t, "limited", Remaining, TRUE)
       ELSE Answered(t, "limited", Window, counter # None)
    /\ UNCHANGED counter

\* Answers about a key that is gone are about no counter.
Forgotten(logins) == [t \in Threads |-> [logins[t] EXCEPT !.of = FALSE]]

\* reset_failures; the session is opened next, see Sessions.
Reset(t) ==
    /\ At(t, "reset")
    /\ counter' = None
    /\ \E answer \in {"welcome", "none"} :
          login' = [Forgotten(login) EXCEPT ![t] =
             [ step |-> "idle", answer |-> answer, after |-> 0, wait |-> 0,
               of |-> FALSE ]]

\* A call to Redis or the database fails, or the process dies.
LoginFails(t) ==
    /\ ~At(t, "idle")
    /\ Answered(t, "none", 0, FALSE)
    /\ UNCHANGED counter

Less(ticks) == IF ticks = 0 THEN 0 ELSE ticks - 1

\* External: a tick passes for clients and for Redis, which drops the key.
Tick ==
    LET waited == [t \in Threads |->
                     [login[t] EXCEPT !.wait = Less(login[t].wait)]]
    IN
    IF counter # None /\ counter.left > 1
    THEN /\ counter' = [counter EXCEPT !.left = counter.left - 1,
                                       !.opened = Less(counter.opened)]
         /\ login' = waited
    ELSE /\ counter' = None
         /\ login' = Forgotten(waited)

Step(t) ==
    \/ Check(t) \/ Limited(t) \/ Verify(t) \/ RecordFailure(t)
    \/ CheckAgain(t) \/ LimitedAgain(t) \/ Reset(t)

Next ==
    \/ \E t \in Threads : StartLogin(t) \/ Step(t) \/ LoginFails(t)
    \/ Tick

\* Time passes; the threads and the clients need not go on.
Fairness == WF_vars(Tick)

Spec == Init /\ [][Next]_vars /\ Fairness

-----------------------------------------------------------------------------
\* The logins that are past the check before and did not fail yet.
Passed == {t \in Threads : login[t].step \in {"verify", "record"}}

\* While Redis tells at least a second of a counter, at most Limit failures
\* and one for every other login in progress were counted: those that had
\* passed the check before.  And it lives no longer than a window from the
\* failure that made it, so that no client is kept out by its own refused or
\* failing attempts.
LimitHolds ==
    counter # None =>
        /\ counter.left <= counter.opened
        /\ Seconds(counter.left) > 0 =>
              counter.count + Cardinality(Passed)
              <= Limit + Cardinality(Threads) - 1

\* A client that waits as long as it was told finds the limit lifted if the
\* counter is still the one it was told about.
WaitingIsEnough ==
    \A t \in Threads :
        /\ login[t].answer = "limited" /\ At(t, "idle")
        /\ login[t].of /\ login[t].wait = 0
        => ~(Reached /\ Refuses(Remaining))

\* Every counter ends, however many attempts go on.
CountersEnd == (counter # None) ~> (counter = None)
=============================================================================
