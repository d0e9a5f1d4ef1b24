--------------------------- MODULE MonthlyReport ---------------------------
(***************************************************************************)
(* Monthly reports of one owner.  A request reads the aggregates in one    *)
(* read-only transaction, asks a language model served by Ollama without   *)
(* any transaction open, and stores the answer together with what was read *)
(* in another transaction.  Meanwhile the owner goes on editing purchases, *)
(* the account may be deleted, the model behind the configured name may be *)
(* replaced, every call may fail, and saved reports are listed.            *)
(*                                                                         *)
(* The content of the purchases and rules is named by the number of the    *)
(* commit that made it.  What a report says is left out: an answer of the  *)
(* model either passes the validation or not.                              *)
(***************************************************************************)
EXTENDS Naturals, Sequences, FiniteSets, Functions

CONSTANTS
    Requests,     \* POST /api/llm/reports/monthly
    Retries,      \* length of retry_intervals_seconds
    MaxCommit,    \* bound on the owner's edits
    EmptyAt,      \* commits after which the month has no confirmed purchase
    InvalidAt,    \* commits whose data MonthlyReportData rejects
    PageSizes,    \* the page_size a listing may ask for
    MaxPage       \* bound on the page asked for

\* The deletion of the account is the last commit; nothing is read after it.
Gone == MaxCommit + 1
Commits == 0 .. Gone

ASSUME ReportConstants ==
    /\ Retries \in Nat
    /\ MaxCommit \in Nat
    /\ EmptyAt \subseteq 0 .. MaxCommit
    /\ InvalidAt \subseteq 0 .. MaxCommit
    /\ PageSizes \subseteq Nat \ {0}
    /\ MaxPage \in Nat

VARIABLES
    commit,       \* the last commit of the owner's account, purchases and rules
    model,        \* what Ollama serves under the configured name
    exposed,      \* requests whose data was posted to a remote model
    reports,      \* rows of llm_reports: whose they are and their input_data
    request,
    listing       \* a request of the list of saved reports

vars == <<commit, model, exposed, reports, request, listing>>

Models == {"local", "remote", "unusable"}

\* The queries of monthly_aggregates in the order they are sent.
Queries == <<"categories", "rules", "current", "previous", "weekly_trends">>
CurrentMonth == 3

Answers == {"none", "created", "storage_unavailable", "input", "no_purchases",
            "llm_unavailable", "llm_rejected", "invalid_session"}

(***************************************************************************)
(* input: for each query already answered, the commit it saw; attempt: the *)
(* index of the loop in generate.  "chat" is reached with the model just   *)
(* seen to be local, "pause" is the sleep before the next attempt.         *)
(***************************************************************************)
Request == [ step : {"new", "read", "show", "chat", "pause", "store", "done"},
             input : Seq(Commits),
             attempt : 0 .. Retries,
             replaced : BOOLEAN,    \* the model changed in this attempt, since its show
             answer : Answers ]

Report == [ request : Requests, input : Seq(Commits) ]

Listing == [ step : {"new", "counted", "answered"},
             snapshot : SUBSET Report,
             page : Nat, size : Nat, total : Nat, items : Nat ]

TypeOK ==
    /\ commit \in Commits
    /\ model \in Models
    /\ exposed \subseteq Requests
    /\ reports \subseteq Report
    /\ request \in [Requests -> Request]
    /\ listing \in Listing

Init ==
    /\ commit = 0
    /\ model = "local"
    /\ exposed = {}
    /\ reports = {}
    /\ request = [r \in Requests |->
                    [ step |-> "new", input |-> <<>>, attempt |-> 0,
                      replaced |-> FALSE, answer |-> "none" ]]
    /\ listing = [ step |-> "new", snapshot |-> {}, page |-> 1, size |-> 1,
                   total |-> 0, items |-> 0 ]

Owner == commit # Gone

Becomes(r, value) == request' = [request EXCEPT ![r] = value]
Answer(r, answer) ==
    Becomes(r, [request[r] EXCEPT !.step = "done", !.answer = answer])

-----------------------------------------------------------------------------
\* get_current_user_id lets only an existing account in.
Start(r) ==
    /\ request[r].step = "new"
    /\ Owner
    /\ Becomes(r, [request[r] EXCEPT !.step = "read"])
    /\ UNCHANGED <<commit, model, exposed, reports, listing>>

\* slip: READ COMMITTED, every query sees the last commit
LastCommit(r) == commit

\* REPEATABLE READ: every query sees what the first one saw.
View(r) == IF request[r].input = <<>> THEN commit ELSE Head(request[r].input)

Read(r) ==
    /\ request[r].step = "read"
    /\ Len(request[r].input) < Len(Queries)
    /\ Becomes(r, [request[r] EXCEPT !.input = Append(@, View(r))])
    /\ UNCHANGED <<commit, model, exposed, reports, listing>>

ReadFails(r) ==
    /\ request[r].step = "read"
    /\ Answer(r, "storage_unavailable")
    /\ UNCHANGED <<commit, model, exposed, reports, listing>>

\* Validation of the data, and the check of purchase_count in the generator.
Prepare(r) ==
    LET input == request[r].input IN
    /\ request[r].step = "read"
    /\ Len(input) = Len(Queries)
    /\ IF \E q \in 1 .. Len(Queries) : input[q] \in InvalidAt
       THEN Answer(r, "input")
       ELSE IF input[CurrentMonth] \in EmptyAt \union {Gone}
       THEN Answer(r, "no_purchases")
       ELSE Becomes(r, [request[r] EXCEPT !.step = "show"])
    /\ UNCHANGED <<commit, model, exposed, reports, listing>>

\* slip: a failed attempt is not counted
RetriedForEver(r) == Becomes(r, [request[r] EXCEPT !.step = "pause"])

\* A timeout, a transport error or a retryable status.
Backoff(r) ==
    IF request[r].attempt = Retries
    THEN Answer(r, "llm_unavailable")
    ELSE Becomes(r, [request[r] EXCEPT !.step = "pause", !.attempt = @ + 1])

\* slip: the model is checked once, before the loop
ResumeUnchecked(r) ==
    /\ request[r].step = "pause"
    /\ Becomes(r, [request[r] EXCEPT !.step = "chat", !.replaced = FALSE])
    /\ UNCHANGED <<commit, model, exposed, reports, listing>>

Resume(r) ==
    /\ request[r].step = "pause"
    /\ Becomes(r, [request[r] EXCEPT !.step = "show", !.replaced = FALSE])
    /\ UNCHANGED <<commit, model, exposed, reports, listing>>

\* _ensure_local_model.  "rejected": a status that is not retried, or an
\* answer that is too long or not of the expected form.
Show(r, outcome) ==
    /\ request[r].step = "show"
    /\ CASE outcome = "unavailable" -> Backoff(r)
         [] outcome = "rejected" -> Answer(r, "llm_rejected")
         [] outcome = "answered" ->
              IF model = "local"
              THEN Becomes(r, [request[r] EXCEPT !.step = "chat",
                                                 !.replaced = FALSE])
              ELSE Answer(r, "llm_rejected")
    /\ UNCHANGED <<commit, model, exposed, reports, listing>>

\* The post of /api/chat carries the aggregates, whatever comes back.
\* "answered" is an answer that passes every validation.
Chat(r, outcome) ==
    /\ request[r].step = "chat"
    /\ exposed' = IF model = "remote" THEN exposed \union {r} ELSE exposed
    /\ CASE outcome = "unavailable" -> Backoff(r)
         [] outcome = "rejected" -> Answer(r, "llm_rejected")
         [] outcome = "answered" ->
              /\ model # "unusable"
              /\ Becomes(r, [request[r] EXCEPT !.step = "store"])
    /\ UNCHANGED <<commit, model, reports, listing>>

Outcomes == {"answered", "unavailable", "rejected"}

NewReport(r) == [ request |-> r, input |-> request[r].input ]

\* slip: the report is answered whatever comes of the commit
AnsweredBeforeCommit(r, outcome) == Answer(r, "created")

\* The response leaves after the commit.
AfterCommit(r, outcome) ==
    Answer(r, IF outcome = "done" THEN "created" ELSE "storage_unavailable")

\* lock_owner holds the owner's row until the commit; a commit that raises
\* may have stored the report all the same.
Store(r, outcome) ==
    /\ request[r].step = "store"
    /\ Owner
    /\ reports' = IF outcome = "rolled_back" THEN reports
                                             ELSE reports \union {NewReport(r)}
    /\ AfterCommit(r, outcome)
    /\ UNCHANGED <<commit, model, exposed, listing>>

StoreWithoutOwner(r) ==
    /\ request[r].step = "store"
    /\ ~Owner
    /\ Answer(r, "invalid_session")
    /\ UNCHANGED <<commit, model, exposed, reports, listing>>

RequestDies(r) ==
    /\ request[r].step \notin {"new", "done"}
    /\ Answer(r, "none")
    /\ UNCHANGED <<commit, model, exposed, reports, listing>>

-----------------------------------------------------------------------------
\* list_reports: both queries in one REPEATABLE READ transaction.
Count(page, size) ==
    /\ listing.step = "new"
    /\ Owner
    /\ listing' = [ step |-> "counted", snapshot |-> reports, page |-> page,
                    size |-> size, total |-> Cardinality(reports), items |-> 0 ]
    /\ UNCHANGED <<commit, model, exposed, reports, request>>

\* slip: the second query sees reports stored since the first
ListedCurrent == reports

Listed == listing.snapshot

\* LIMIT size OFFSET (page - 1) * size
Rows(n, page, size) ==
    LET offset == (page - 1) * size IN
    IF n <= offset THEN 0
    ELSE IF n - offset < size THEN n - offset ELSE size

\* The transaction ends, and what it saw with it.
List ==
    /\ listing.step = "counted"
    /\ listing' = [ step |-> "answered", snapshot |-> {},
                    page |-> listing.page, size |-> listing.size,
                    total |-> listing.total,
                    items |-> Rows(Cardinality(Listed), listing.page,
                                   listing.size) ]
    /\ UNCHANGED <<commit, model, exposed, reports, request>>

TotalPages == (listing.total + listing.size - 1) \div listing.size

-----------------------------------------------------------------------------
\* The owner confirms, reopens or edits a receipt, or changes a rule.
Edit ==
    /\ commit < MaxCommit
    /\ commit' = commit + 1
    /\ UNCHANGED <<model, exposed, reports, request, listing>>

\* The account goes, and its reports with it: ON DELETE CASCADE.
DeleteOwner ==
    /\ Owner
    /\ commit' = Gone
    /\ reports' = {}
    /\ UNCHANGED <<model, exposed, request, listing>>

\* Another model is installed or removed under the configured name.
ReplaceModel(m) ==
    /\ m # model
    /\ model' = m
    /\ request' = [r \in Requests |-> [request[r] EXCEPT !.replaced = TRUE]]
    /\ UNCHANGED <<commit, exposed, reports, listing>>

Step(r) ==
    \/ Read(r) \/ ReadFails(r) \/ Prepare(r) \/ Resume(r)
    \/ \E outcome \in Outcomes : Show(r, outcome)
    \/ \E outcome \in Outcomes : Chat(r, outcome)
    \/ \E outcome \in {"done", "rolled_back", "raised"} : Store(r, outcome)
    \/ StoreWithoutOwner(r)

Next ==
    \/ \E r \in Requests : Start(r) \/ Step(r) \/ RequestDies(r)
    \/ \E page \in 1 .. MaxPage, size \in PageSizes : Count(page, size)
    \/ List
    \/ Edit
    \/ DeleteOwner
    \/ \E m \in Models : ReplaceModel(m)

Spec == Init /\ [][Next]_vars

\* Every call to PostgreSQL returns, and every call to Ollama answers or runs
\* into the client's timeouts.
FairSpec == Spec /\ \A r \in Requests : WF_vars(Step(r))

-----------------------------------------------------------------------------
\* What a saved report was computed from is the content of one commit in all
\* its parts, however many edits were committed between the queries and while
\* the model worked, and it is one with confirmed purchases.
InputIsOneReading ==
    \A report \in reports :
        \E c \in 0 .. MaxCommit :
            /\ c \notin EmptyAt \union InvalidAt
            /\ report.input = [q \in 1 .. Len(Queries) |-> c]

(***************************************************************************)
(* Refinement: what a request has seen is all that its queries saw.        *)
(***************************************************************************)
OutcomeOf(r) ==
    IF request[r].step # "done" THEN "open"
    ELSE IF request[r].answer = "created" THEN "created" ELSE "ended"

Promise == INSTANCE SavedReports
    WITH Contents <- Commits, Parts <- 1 .. Len(Queries),
         Reportable <- (0 .. MaxCommit) \ (EmptyAt \union InvalidAt),
         content <- commit, saved <- reports,
         seen <- [r \in Requests |-> Range(request[r].input)],
         outcome <- [r \in Requests |-> OutcomeOf(r)]

\* However edits, deletions, the model and failures come between its queries
\* and its commit, a request reports what it saw at one moment, once or not at
\* all, and says so only if it did.
KeepsPromise == Promise!Spec

\* Aggregates reach a remote model only if it was installed between the check
\* and the post of one attempt: whatever happened before, during a pause or a
\* failed attempt, is noticed.
OnlyRacesExpose ==
    [][ \A r \in Requests : r \in exposed' \ exposed => request[r].replaced ]_vars

\* A listing leads to its rows: a page has rows exactly if the page count of
\* the same answer says it exists, though reports are stored meanwhile.
PagesExist ==
    listing.step = "answered" =>
        (listing.items > 0 <=> listing.page <= TotalPages)

\* Every request that has started is answered: the retries come to an end.
RequestsEnd ==
    \A r \in Requests : request[r].step # "new" ~> request[r].step = "done"
=============================================================================
