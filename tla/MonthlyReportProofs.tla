------------------------ MODULE MonthlyReportProofs ------------------------
(***************************************************************************)
(* Proofs about MonthlyReport, for any number of requests, retries and     *)
(* commits.                                                                *)
(*                                                                         *)
(* That a report was computed from one reading follows from what every     *)
(* request has read so far (OneView) and from what a request that reaches  *)
(* the model has passed (Prepared); that only a race exposes data, from    *)
(* what a request about to post has seen (Checked); that pages exist, from *)
(* the count having been taken of the rows that are listed (Counted).      *)
(* From the same invariant follows that MonthlyReport implements the       *)
(* promise of SavedReports.                                                *)
(***************************************************************************)
EXTENDS MonthlyReport, FiniteSetTheorems, TLAPS

OneView ==
    \A r \in Requests :
        /\ Len(request[r].input) <= Len(Queries)
        /\ \A q \in 1 .. Len(request[r].input) :
               request[r].input[q] = request[r].input[1]

Reading(input) ==
    \E c \in 0 .. MaxCommit :
        /\ c \notin EmptyAt \union InvalidAt
        /\ input = [q \in 1 .. Len(Queries) |-> c]

Prepared ==
    \A r \in Requests :
        request[r].step \in {"show", "chat", "pause", "store"} =>
            Reading(request[r].input)

\* A client told that a report was created finds it as long as the account
\* exists.
CreatedIsStored ==
    Owner => \A r \in Requests : request[r].answer = "created" =>
                \E report \in reports : report.request = r

\* A created report was stored by a request that has ended.
Created ==
    /\ CreatedIsStored
    /\ \A r \in Requests :
           request[r].answer = "created" => request[r].step = "done"

Checked ==
    \A r \in Requests :
        request[r].step = "chat" /\ ~request[r].replaced => model = "local"

Counted ==
    /\ IsFiniteSet(reports) /\ IsFiniteSet(listing.snapshot)
    /\ listing.page > 0 /\ listing.size > 0
    /\ listing.step = "counted" => listing.total = Cardinality(listing.snapshot)
    /\ PagesExist

IInv ==
    /\ TypeOK
    /\ OneView
    /\ Prepared
    /\ InputIsOneReading
    /\ Created
    /\ Checked
    /\ Counted

-----------------------------------------------------------------------------
LEMMA InitIInv == Init => IInv
  BY ReportConstants, FS_EmptySet
  DEF Init, IInv, TypeOK, OneView, Prepared, InputIsOneReading, Created, Checked,
      CreatedIsStored, Counted, PagesExist, Request, Report, Listing, Models,
      Answers, Commits, Gone, Queries

\* A step of one request that leaves the rest alone: what the invariant asks
\* of it is asked of the request's new state only.
LEMMA RequestStep ==
  ASSUME IInv, NEW r \in Requests, NEW value \in Request,
         Becomes(r, value),
         UNCHANGED <<commit, model, reports, listing>>,
         exposed' \subseteq Requests,
         Len(value.input) <= Len(Queries),
         \A q \in 1 .. Len(value.input) : value.input[q] = value.input[1],
         value.step \in {"show", "chat", "pause", "store"} =>
            Reading(value.input),
         value.answer # "created",
         value.step = "chat" /\ ~value.replaced => model = "local"
  PROVE  IInv'
<1>1. TypeOK'
  BY DEF IInv, TypeOK, Becomes
<1>2. OneView'
  BY DEF IInv, TypeOK, OneView, Becomes
<1>3. Prepared'
  BY DEF IInv, TypeOK, Prepared, Becomes, Reading
<1>4. InputIsOneReading'
  BY DEF IInv, InputIsOneReading
<1>5. Created'
  BY DEF IInv, TypeOK, Created, CreatedIsStored, Becomes, Owner
<1>6. Checked'
  BY DEF IInv, TypeOK, Checked, Becomes
<1>7. Counted'
  BY DEF IInv, Counted, PagesExist, TotalPages
<1> QED  BY <1>1, <1>2, <1>3, <1>4, <1>5, <1>6, <1>7 DEF IInv

\* An answer other than "created" ends a request.
LEMMA AnswerStep ==
  ASSUME IInv, NEW r \in Requests, NEW answer \in Answers \ {"created"},
         Answer(r, answer),
         UNCHANGED <<commit, model, reports, listing>>,
         exposed' \subseteq Requests
  PROVE  IInv'
<1> DEFINE value == [request[r] EXCEPT !.step = "done", !.answer = answer]
<1>1. value \in Request /\ value.input = request[r].input
      /\ value.step = "done" /\ value.answer = answer
  BY DEF IInv, TypeOK, Request
<1> QED  BY <1>1, RequestStep DEF Answer, IInv, OneView

\* A step that moves a request on without touching what it has read.
LEMMA MoveStep ==
  ASSUME IInv, NEW r \in Requests,
         request[r].answer # "created",
         NEW step \in {"read", "show", "chat", "pause", "store"},
         NEW attempt \in 0 .. Retries, NEW replaced \in BOOLEAN,
         Becomes(r, [request[r] EXCEPT !.step = step, !.attempt = attempt,
                                       !.replaced = replaced]),
         UNCHANGED <<commit, model, reports, listing>>,
         exposed' \subseteq Requests,
         step # "read" => Reading(request[r].input),
         step = "chat" /\ ~replaced => model = "local"
  PROVE  IInv'
<1> DEFINE value == [request[r] EXCEPT !.step = step, !.attempt = attempt,
                                       !.replaced = replaced]
<1>1. value \in Request /\ value.input = request[r].input
      /\ value.step = step /\ value.answer = request[r].answer
      /\ value.replaced = replaced
  BY DEF IInv, TypeOK, Request
<1> QED  BY <1>1, RequestStep DEF IInv, OneView

\* A request that has not ended has not been told that a report was created.
LEMMA Unended ==
  ASSUME IInv, NEW r \in Requests, request[r].step # "done"
  PROVE  request[r].answer # "created"
  BY DEF IInv, Created

LEMMA StartIInv == ASSUME IInv, NEW r \in Requests, Start(r) PROVE IInv'
<1>1. Becomes(r, [request[r] EXCEPT !.step = "read",
                                    !.attempt = request[r].attempt,
                                    !.replaced = request[r].replaced])
  BY DEF Start, Becomes, IInv, TypeOK, Request
<1> QED  BY <1>1, Unended, MoveStep DEF Start, IInv, TypeOK, Request

LEMMA ReadIInv == ASSUME IInv, NEW r \in Requests, Read(r) PROVE IInv'
<1> DEFINE input == request[r].input
           value == [request[r] EXCEPT !.input = Append(@, View(r))]
<1>1. input \in Seq(Commits) /\ Len(input) < Len(Queries) /\ commit \in Commits
  BY DEF Read, IInv, TypeOK, Request
<1>2. View(r) \in Commits /\ (Len(input) > 0 => View(r) = input[1])
  BY <1>1 DEF View
<1>3. value \in Request /\ value.input = Append(input, View(r))
      /\ value.step = "read" /\ value.answer = request[r].answer
  <2>1. Append(input, View(r)) \in Seq(Commits)
    BY <1>1, <1>2
  <2> QED  BY <2>1 DEF Read, IInv, TypeOK, Request
<1>4. Len(value.input) <= Len(Queries)
  BY <1>1, <1>2, <1>3 DEF Queries
<1>5. ASSUME NEW q \in 1 .. Len(value.input)
      PROVE  value.input[q] = value.input[1]
  BY <1>1, <1>2, <1>3 DEF IInv, OneView
<1> HIDE DEF value, input
<1>6. Becomes(r, value) /\ UNCHANGED <<commit, model, exposed, reports, listing>>
  BY DEF Read, value
<1>7. request[r].answer # "created"
  BY Unended DEF Read
<1>8. exposed' \subseteq Requests
  BY <1>6 DEF IInv, TypeOK
<1> QED  BY <1>3, <1>4, <1>5, <1>6, <1>7, <1>8, RequestStep

LEMMA PrepareIInv == ASSUME IInv, NEW r \in Requests, Prepare(r) PROVE IInv'
<1> DEFINE input == request[r].input
<1>1. CASE \E q \in 1 .. Len(Queries) : input[q] \in InvalidAt
  BY <1>1, AnswerStep DEF Prepare, Answers, IInv, TypeOK
<1>2. CASE /\ ~\E q \in 1 .. Len(Queries) : input[q] \in InvalidAt
           /\ input[CurrentMonth] \in EmptyAt \union {Gone}
  BY <1>2, AnswerStep DEF Prepare, Answers, IInv, TypeOK
<1>3. CASE /\ ~\E q \in 1 .. Len(Queries) : input[q] \in InvalidAt
           /\ input[CurrentMonth] \notin EmptyAt \union {Gone}
  <2>1. input \in Seq(Commits) /\ Len(input) = Len(Queries) /\ Len(Queries) = 5
    BY DEF Prepare, IInv, TypeOK, Request, Queries
  <2>2. \A q \in 1 .. Len(Queries) : input[q] = input[1]
    BY <2>1 DEF IInv, OneView
  <2>3. input[1] \in Commits \ (EmptyAt \union InvalidAt \union {Gone})
    BY <1>3, <2>1, <2>2 DEF CurrentMonth
  <2>4. input = [q \in 1 .. Len(Queries) |-> input[1]]
    BY <2>1, <2>2
  <2>5. input[1] \in 0 .. MaxCommit
    BY <2>3, ReportConstants DEF Commits, Gone
  <2>6. Reading(input)
    BY <2>3, <2>4, <2>5 DEF Reading
  <2>7. Becomes(r, [request[r] EXCEPT !.step = "show",
                                      !.attempt = request[r].attempt,
                                      !.replaced = request[r].replaced])
    BY <1>3 DEF Prepare, Becomes, IInv, TypeOK, Request
  <2> QED  BY <2>6, <2>7, Unended, MoveStep DEF Prepare, IInv, TypeOK, Request
<1> QED  BY <1>1, <1>2, <1>3

LEMMA ResumeIInv == ASSUME IInv, NEW r \in Requests, Resume(r) PROVE IInv'
<1>1. Becomes(r, [request[r] EXCEPT !.step = "show",
                                    !.attempt = request[r].attempt,
                                    !.replaced = FALSE])
  BY DEF Resume, Becomes, IInv, TypeOK, Request
<1> QED  BY <1>1, Unended, MoveStep DEF Resume, Prepared, IInv, TypeOK, Request

\* The end of an attempt, whichever of the two posts failed.
LEMMA BackoffIInv ==
  ASSUME IInv, NEW r \in Requests, request[r].step \in {"show", "chat"},
         Backoff(r), UNCHANGED <<commit, model, reports, listing>>,
         exposed' \subseteq Requests
  PROVE  IInv'
<1>1. CASE request[r].attempt = Retries
  BY <1>1, AnswerStep DEF Backoff, Answers
<1>2. CASE request[r].attempt # Retries
  <2>1. request[r].attempt + 1 \in 0 .. Retries
    BY <1>2, ReportConstants DEF IInv, TypeOK, Request
  <2>2. Becomes(r, [request[r] EXCEPT !.step = "pause",
                                      !.attempt = request[r].attempt + 1,
                                      !.replaced = request[r].replaced])
    BY <1>2 DEF Backoff, Becomes, IInv, TypeOK, Request
  <2> QED  BY <2>1, <2>2, Unended, MoveStep DEF IInv, TypeOK, Request, Prepared
<1> QED  BY <1>1, <1>2

LEMMA ShowIInv ==
  ASSUME IInv, NEW r \in Requests, NEW outcome \in Outcomes, Show(r, outcome)
  PROVE  IInv'
<1>1. /\ request[r].step = "show" /\ exposed' \subseteq Requests
      /\ UNCHANGED <<commit, model, reports, listing>>
  BY DEF Show, IInv, TypeOK
<1>2. CASE outcome = "unavailable"
  BY <1>1, <1>2, BackoffIInv DEF Show
<1>3. CASE outcome = "rejected" \/ (outcome = "answered" /\ model # "local")
  BY <1>1, <1>3, AnswerStep DEF Show, Answers
<1>4. CASE outcome = "answered" /\ model = "local"
  <2>1. Becomes(r, [request[r] EXCEPT !.step = "chat",
                                      !.attempt = request[r].attempt,
                                      !.replaced = FALSE])
    BY <1>4 DEF Show, Becomes, IInv, TypeOK, Request
  <2> QED  BY <1>1, <1>4, <2>1, Unended, MoveStep
           DEF Prepared, IInv, TypeOK, Request
<1> QED  BY <1>2, <1>3, <1>4 DEF Outcomes

LEMMA ChatIInv ==
  ASSUME IInv, NEW r \in Requests, NEW outcome \in Outcomes, Chat(r, outcome)
  PROVE  IInv'
<1>1. /\ request[r].step = "chat" /\ exposed' \subseteq Requests
      /\ UNCHANGED <<commit, model, reports, listing>>
  BY DEF Chat, IInv, TypeOK
<1>2. CASE outcome = "unavailable"
  BY <1>1, <1>2, BackoffIInv DEF Chat
<1>3. CASE outcome = "rejected"
  BY <1>1, <1>3, AnswerStep DEF Chat, Answers
<1>4. CASE outcome = "answered"
  <2>1. Becomes(r, [request[r] EXCEPT !.step = "store",
                                      !.attempt = request[r].attempt,
                                      !.replaced = request[r].replaced])
    BY <1>4 DEF Chat, Becomes, IInv, TypeOK, Request
  <2> QED  BY <1>1, <2>1, Unended, MoveStep DEF Prepared, IInv, TypeOK, Request
<1> QED  BY <1>2, <1>3, <1>4 DEF Outcomes

LEMMA StoreIInv ==
  ASSUME IInv, NEW r \in Requests,
         NEW outcome \in {"done", "rolled_back", "raised"}, Store(r, outcome)
  PROVE  IInv'
<1> DEFINE answer == IF outcome = "done" THEN "created" ELSE "storage_unavailable"
           value == [request[r] EXCEPT !.step = "done", !.answer = answer]
<1>1. value \in Request /\ value.input = request[r].input
      /\ value.step = "done" /\ value.answer = answer
  BY DEF IInv, TypeOK, Request, Answers
<1> HIDE DEF value
<1>2. request' = [request EXCEPT ![r] = value]
  BY DEF Store, AfterCommit, Answer, Becomes, value
<1>3. /\ UNCHANGED <<commit, model, exposed, listing>>
      /\ reports' \in {reports, reports \union {NewReport(r)}}
      /\ outcome = "done" => NewReport(r) \in reports'
  BY DEF Store
<1>4. NewReport(r) \in Report /\ NewReport(r).request = r
      /\ NewReport(r).input = request[r].input
  BY DEF NewReport, Report, IInv, TypeOK, Request
<1>5. TypeOK'
  BY <1>1, <1>2, <1>3, <1>4 DEF IInv, TypeOK
<1>6. OneView' /\ Checked'
  BY <1>1, <1>2, <1>3 DEF IInv, TypeOK, OneView, Checked
<1>7. Prepared'
  BY <1>1, <1>2 DEF IInv, TypeOK, Prepared, Reading
<1>8. InputIsOneReading'
  <2>1. Reading(request[r].input)
    BY DEF Store, IInv, Prepared
  <2> QED  BY <1>3, <1>4, <2>1 DEF Reading, IInv, InputIsOneReading
<1>9. Created'
  BY <1>1, <1>2, <1>3, <1>4
  DEF IInv, TypeOK, Created, CreatedIsStored, Owner, Commits
<1>10. Counted'
  BY <1>3, FS_AddElement DEF IInv, Counted, PagesExist, TotalPages
<1> QED  BY <1>5, <1>6, <1>7, <1>8, <1>9, <1>10 DEF IInv

LEMMA ReplaceModelIInv ==
  ASSUME IInv, NEW m \in Models, ReplaceModel(m) PROVE IInv'
<1>1. \A r \in Requests :
        /\ request'[r] \in Request
        /\ request'[r].replaced
        /\ request'[r].step = request[r].step
        /\ request'[r].input = request[r].input
        /\ request'[r].answer = request[r].answer
  BY DEF ReplaceModel, IInv, TypeOK, Request
<1>2. TypeOK'
  BY <1>1 DEF ReplaceModel, IInv, TypeOK
<1>3. OneView' /\ Prepared' /\ Checked'
  BY <1>1 DEF IInv, OneView, Prepared, Checked, Reading
<1>4. InputIsOneReading' /\ Created'
  BY <1>1 DEF ReplaceModel, IInv, InputIsOneReading, Created, CreatedIsStored,
              Owner
<1>5. Counted'
  BY DEF ReplaceModel, IInv, Counted, PagesExist, TotalPages
<1> QED  BY <1>2, <1>3, <1>4, <1>5 DEF IInv

LEMMA DeleteOwnerIInv == ASSUME IInv, DeleteOwner PROVE IInv'
<1>1. TypeOK'
  BY ReportConstants DEF DeleteOwner, IInv, TypeOK, Commits, Gone
<1>2. OneView' /\ Prepared' /\ Checked'
  BY DEF DeleteOwner, IInv, OneView, Prepared, Checked, Reading
<1>3. InputIsOneReading' /\ Created'
  BY DEF DeleteOwner, IInv, InputIsOneReading, Created, CreatedIsStored, Owner
<1>4. Counted'
  BY FS_EmptySet DEF DeleteOwner, IInv, Counted, PagesExist, TotalPages
<1> QED  BY <1>1, <1>2, <1>3, <1>4 DEF IInv

LEMMA EditIInv == ASSUME IInv, Edit PROVE IInv'
<1>1. TypeOK' /\ commit # Gone
  BY ReportConstants DEF Edit, IInv, TypeOK, Commits, Gone
<1>2. OneView' /\ Prepared' /\ Checked'
  BY DEF Edit, IInv, OneView, Prepared, Checked, Reading
<1>3. InputIsOneReading' /\ Created'
  BY <1>1
  DEF Edit, IInv, InputIsOneReading, Created, CreatedIsStored, Owner
<1>4. Counted'
  BY DEF Edit, IInv, Counted, PagesExist, TotalPages
<1> QED  BY <1>1, <1>2, <1>3, <1>4 DEF IInv

\* The number of pages, rounded up, counts exactly the pages with rows.
LEMMA PageCount ==
  ASSUME NEW n \in Nat, NEW page \in Nat \ {0}, NEW size \in Nat \ {0}
  PROVE  /\ Rows(n, page, size) \in Nat
         /\ Rows(n, page, size) > 0 <=> page <= (n + size - 1) \div size
<1> DEFINE pages == (n + size - 1) \div size
           offset == (page - 1) * size
<1>1. /\ pages \in Nat
      /\ size * pages <= n + size - 1 /\ n + size - 1 < size * (pages + 1)
  OBVIOUS
<1>2. offset \in Nat
  OBVIOUS
<1>3. n > offset <=> page <= pages
  <2> HIDE DEF pages
  <2>1. CASE page <= pages
    <3>1. page * size <= pages * size
      BY <1>1, <2>1
    <3> QED  BY <1>1, <2>1, <3>1
  <2>2. CASE page > pages
    <3>1. page * size >= (pages + 1) * size
      BY <1>1, <2>2
    <3> QED  BY <1>1, <2>2, <3>1
  <2> QED  BY <1>1, <2>1, <2>2
<1> HIDE DEF offset, pages
<1>4. Rows(n, page, size) = IF n <= offset THEN 0
                            ELSE IF n - offset < size THEN n - offset ELSE size
  BY DEF Rows, offset
<1> QED  BY <1>2, <1>3, <1>4 DEF pages

\* A listing only reads.
LEMMA ListingStep ==
  ASSUME IInv, UNCHANGED <<commit, model, exposed, reports, request>>,
         listing' \in Listing, Counted'
  PROVE  IInv'
  BY DEF IInv, TypeOK, OneView, Prepared, Checked, Reading, InputIsOneReading,
         Created, CreatedIsStored, Owner

LEMMA CountIInv ==
  ASSUME IInv, NEW page \in 1 .. MaxPage, NEW size \in PageSizes,
         Count(page, size)
  PROVE  IInv'
<1>1. Cardinality(reports) \in Nat /\ reports \subseteq Report
  BY FS_CardinalityType DEF IInv, TypeOK, Counted
<1>2. page \in Nat \ {0} /\ size \in Nat \ {0}
  BY ReportConstants
<1>3. listing' \in Listing
  BY <1>1, <1>2 DEF Count, Listing
<1>4. Counted'
  BY <1>1, <1>2 DEF Count, IInv, Counted, PagesExist
<1> QED  BY <1>3, <1>4, ListingStep DEF Count

LEMMA ListIInv == ASSUME IInv, List PROVE IInv'
<1> DEFINE n == Cardinality(listing.snapshot)
           items == Rows(n, listing.page, listing.size)
<1>1. n \in Nat
  BY FS_CardinalityType DEF IInv, Counted
<1>2. listing.page \in Nat \ {0} /\ listing.size \in Nat \ {0}
  BY DEF IInv, TypeOK, Counted, Listing
<1>3. /\ items \in Nat
      /\ items > 0 <=> listing.page <= (n + listing.size - 1) \div listing.size
  BY <1>1, <1>2, PageCount
<1>4. listing.total = n
  BY DEF List, IInv, Counted
<1> HIDE DEF items, n
<1>5. listing' = [ step |-> "answered", snapshot |-> {},
                   page |-> listing.page, size |-> listing.size,
                   total |-> listing.total, items |-> items ]
  BY DEF List, Listed, items, n
<1>6. /\ listing' \in Listing
      /\ listing'.step = "answered" /\ listing'.items = items
      /\ listing'.page = listing.page /\ listing'.size = listing.size
      /\ listing'.total = n /\ listing'.snapshot = {}
  <2>1. listing \in Listing
    BY DEF IInv, TypeOK
  <2> QED  BY <1>3, <1>4, <1>5, <2>1 DEF Listing
<1>7. PagesExist'
  BY <1>3, <1>6 DEF PagesExist, TotalPages
<1>8. Counted'
  BY <1>6, <1>7, FS_EmptySet DEF List, IInv, Counted
<1> QED  BY <1>6, <1>8, ListingStep DEF List

LEMMA RequestDiesIInv ==
  ASSUME IInv, NEW r \in Requests,
         \/ ReadFails(r) \/ StoreWithoutOwner(r) \/ RequestDies(r)
  PROVE  IInv'
  BY AnswerStep
  DEF ReadFails, StoreWithoutOwner, RequestDies, Answers, IInv, TypeOK

LEMMA NextIInv == IInv /\ [Next]_vars => IInv'
<1> SUFFICES ASSUME IInv, [Next]_vars PROVE IInv'
  OBVIOUS
<1>1. CASE \E r \in Requests : Start(r) \/ Step(r) \/ RequestDies(r)
  BY <1>1, StartIInv, ReadIInv, PrepareIInv, ResumeIInv, ShowIInv, ChatIInv,
     StoreIInv, RequestDiesIInv
  DEF Step
<1>2. CASE Edit
  BY <1>2, EditIInv
<1>3. CASE DeleteOwner
  BY <1>3, DeleteOwnerIInv
<1>4. CASE \E m \in Models : ReplaceModel(m)
  BY <1>4, ReplaceModelIInv
<1>5. CASE \/ \E page \in 1 .. MaxPage, size \in PageSizes : Count(page, size)
           \/ List
  BY <1>5, CountIInv, ListIInv
<1>6. CASE UNCHANGED vars
  BY <1>6
  DEF vars, IInv, TypeOK, OneView, Prepared, Checked, Reading, Created, Owner,
      InputIsOneReading, CreatedIsStored, Counted, PagesExist, TotalPages
<1> QED  BY <1>1, <1>2, <1>3, <1>4, <1>5, <1>6 DEF Next

\* IInv is inductive; all the theorems below rest on it.
THEOREM ReportInductive == Spec => []IInv
<1> QED  BY InitIInv, NextIInv, PTL DEF Spec

-----------------------------------------------------------------------------
\* Every row, request and listing always has its type.
THEOREM ReportTypes == Spec => []TypeOK
<1>1. IInv => TypeOK
  BY DEF IInv
<1> QED  BY <1>1, ReportInductive, PTL

\* create_monthly stores a report only with data that one commit had, and one
\* with confirmed purchases, whatever is committed while it reads and while the
\* model works.
THEOREM ReportsAreOneReading == Spec => []InputIsOneReading
<1>1. IInv => InputIsOneReading
  BY DEF IInv
<1> QED  BY <1>1, ReportInductive, PTL

\* A 201 of create_monthly_report is sent only for a report that is stored.
THEOREM CreatedReportsAreStored == Spec => []CreatedIsStored
<1>1. IInv => CreatedIsStored
  BY DEF IInv, Created
<1> QED  BY <1>1, ReportInductive, PTL

\* In every answer of list_reports the page asked for has rows exactly if it is
\* one of the pages counted.
THEOREM ListedPagesExist == Spec => []PagesExist
<1>1. IInv => PagesExist
  BY DEF IInv, Counted
<1> QED  BY <1>1, ReportInductive, PTL

\* generate posts aggregates to a remote model only if that model was put under
\* the configured name after the check of the same attempt.
THEOREM OnlyReplacedModelsSeeData == Spec => OnlyRacesExpose
<1> DEFINE Exposure == \A r \in Requests :
                         r \in exposed' \ exposed => request[r].replaced
<1>1. ASSUME IInv, [Next]_vars, NEW r \in Requests, r \in exposed' \ exposed
      PROVE  request[r].replaced
  <2>1. PICK s \in Requests, outcome \in Outcomes : Chat(s, outcome)
    BY <1>1
    DEF Next, vars, Start, Step, Read, ReadFails, Prepare, Resume, Show, Store,
        StoreWithoutOwner, RequestDies, Count, List, Edit, DeleteOwner,
        ReplaceModel
  <2>2. s = r /\ model = "remote" /\ request[r].step = "chat"
    BY <1>1, <2>1 DEF Chat
  <2> QED  BY <1>1, <2>2 DEF IInv, Checked, TypeOK, Request
<1>2. IInv /\ [Next]_vars => [Exposure]_vars
  BY <1>1
<1>3. [][Next]_vars /\ []IInv => [][Exposure]_vars
  BY <1>2, PTL
<1> QED  BY <1>3, ReportInductive, PTL DEF Spec, OnlyRacesExpose

-----------------------------------------------------------------------------
(***************************************************************************)
(* The refinement.  Most steps of a request are none of the promise, or    *)
(* its end; the first query is the look, the commit the save.              *)
(***************************************************************************)
Seen == [r \in Requests |-> Range(request[r].input)]

OutcomeIn(value) ==
    IF value.step # "done" THEN "open"
    ELSE IF value.answer = "created" THEN "created" ELSE "ended"

Outcome == [r \in Requests |-> OutcomeIn(request[r])]

\* A step of one request, seen through the refinement.
LEMMA SeenThrough ==
  ASSUME IInv, NEW r \in Requests, NEW value \in Request, Becomes(r, value)
  PROVE  /\ Seen' = [Seen EXCEPT ![r] = Range(value.input)]
         /\ Outcome' = [Outcome EXCEPT ![r] = OutcomeIn(value)]
         /\ Seen[r] = Range(request[r].input)
         /\ Outcome[r] = OutcomeIn(request[r])
         /\ Range(value.input) = Range(request[r].input) => Seen' = Seen
         /\ OutcomeIn(value) = OutcomeIn(request[r]) => Outcome' = Outcome
<1>1. /\ Seen' = [Seen EXCEPT ![r] = Range(value.input)]
      /\ Outcome' = [Outcome EXCEPT ![r] = OutcomeIn(value)]
  BY DEF IInv, TypeOK, Becomes, Seen, Outcome
<1>2. Seen[r] = Range(request[r].input) /\ Outcome[r] = OutcomeIn(request[r])
  BY DEF Seen, Outcome
<1>3. [Seen EXCEPT ![r] = Seen[r]] = Seen
  BY DEF Seen
<1>4. [Outcome EXCEPT ![r] = Outcome[r]] = Outcome
  BY DEF Outcome
<1> QED BY <1>1, <1>2, <1>3, <1>4

\* The promise, in the terms of Seen and Outcome.
LEMMA PromiseSteps ==
  /\ UNCHANGED <<commit, Seen, reports, Outcome>> => UNCHANGED Promise!vars
  /\ \A r \in Requests :
        /\ Promise!Look(r) <=>
              /\ Outcome[r] = "open" /\ Seen[r] = {}
              /\ Seen' = [Seen EXCEPT ![r] = {commit}]
              /\ UNCHANGED <<commit, reports, Outcome>>
        /\ Promise!Save(r) <=>
              /\ commit # Gone /\ Outcome[r] = "open"
              /\ \E c \in Seen[r] \intersect
                          ((0 .. MaxCommit) \ (EmptyAt \union InvalidAt)) :
                    reports' = reports \union
                       {[request |-> r,
                         input |-> [part \in 1 .. Len(Queries) |-> c]]}
              /\ \E told \in {"created", "ended"} :
                    Outcome' = [Outcome EXCEPT ![r] = told]
              /\ UNCHANGED <<commit, Seen>>
        /\ Promise!End(r) <=>
              /\ Outcome[r] = "open"
              /\ Outcome' = [Outcome EXCEPT ![r] = "ended"]
              /\ UNCHANGED <<commit, Seen, reports>>
<1>1. Outcome = [r \in Requests |-> OutcomeOf(r)]
  BY DEF Outcome, OutcomeIn, OutcomeOf
<1>2. Outcome' = [r \in Requests |-> OutcomeOf(r)]'
  BY DEF Outcome, OutcomeIn, OutcomeOf
<1> QED BY <1>1, <1>2 DEF Promise!vars, Promise!Look, Promise!Save,
                          Promise!End, Seen

\* A step that neither reads nor stores nothing the promise knows of, unless it
\* ends the request.
LEMMA MovesOrEnds ==
  ASSUME IInv, NEW r \in Requests, NEW value \in Request,
         Becomes(r, value), UNCHANGED <<commit, reports>>,
         request[r].step # "done", value.input = request[r].input,
         value.step = "done" => value.answer # "created"
  PROVE  Promise!End(r) \/ UNCHANGED Promise!vars
<1>1. Seen' = Seen
  BY SeenThrough
<1>2. /\ Outcome[r] = "open"
      /\ Outcome' = [Outcome EXCEPT ![r] = OutcomeIn(value)]
      /\ OutcomeIn(value) = "open" => Outcome' = Outcome
  BY SeenThrough DEF OutcomeIn
<1>3. OutcomeIn(value) \in {"open", "ended"}
  BY DEF OutcomeIn
<1>4. CASE OutcomeIn(value) = "open"
  BY <1>1, <1>2, <1>4, PromiseSteps
<1>5. CASE OutcomeIn(value) = "ended"
  BY <1>1, <1>2, <1>5, PromiseSteps
<1> QED BY <1>3, <1>4, <1>5

\* An answer other than "created" ends the request.
LEMMA AnswerEnds ==
  ASSUME IInv, NEW r \in Requests, NEW answer \in Answers \ {"created"},
         Answer(r, answer), UNCHANGED <<commit, reports>>,
         request[r].step # "done"
  PROVE  Promise!End(r) \/ UNCHANGED Promise!vars
<1> DEFINE value == [request[r] EXCEPT !.step = "done", !.answer = answer]
<1>1. value \in Request /\ value.input = request[r].input
      /\ value.answer = answer
  BY DEF IInv, TypeOK, Request
<1> QED BY <1>1, MovesOrEnds DEF Answer

\* A step that keeps the request open.
LEMMA MoveKeeps ==
  ASSUME IInv, NEW r \in Requests, request[r].step # "done",
         NEW step \in {"read", "show", "chat", "pause", "store"},
         NEW attempt \in 0 .. Retries, NEW replaced \in BOOLEAN,
         Becomes(r, [request[r] EXCEPT !.step = step, !.attempt = attempt,
                                       !.replaced = replaced]),
         UNCHANGED <<commit, reports>>
  PROVE  Promise!End(r) \/ UNCHANGED Promise!vars
<1> DEFINE value == [request[r] EXCEPT !.step = step, !.attempt = attempt,
                                       !.replaced = replaced]
<1>1. value \in Request /\ value.input = request[r].input
      /\ value.step = step
  BY DEF IInv, TypeOK, Request
<1> QED BY <1>1, MovesOrEnds

\* The first query looks; the others see nothing else.
LEMMA ReadLooks ==
  ASSUME IInv, NEW r \in Requests, Read(r)
  PROVE  Promise!Look(r) \/ UNCHANGED Promise!vars
<1> DEFINE input == request[r].input
           value == [request[r] EXCEPT !.input = Append(@, View(r))]
<1>1. input \in Seq(Commits) /\ commit \in Commits
  BY DEF IInv, TypeOK, Request
<1>2. View(r) \in Commits /\ (Len(input) > 0 => View(r) = input[1])
  BY <1>1 DEF View
<1>3. Append(input, View(r)) \in Seq(Commits)
  BY <1>1, <1>2
<1>4. value \in Request /\ value.input = Append(input, View(r))
      /\ value.step = request[r].step /\ value.answer = request[r].answer
  BY <1>3 DEF IInv, TypeOK, Request
<1>5. Range(value.input) = Range(input) \union {View(r)}
  BY <1>1, <1>2, <1>4 DEF Range
<1> HIDE DEF value
<1>6. Becomes(r, value) /\ UNCHANGED <<commit, reports>>
  BY DEF Read, value
<1>7. /\ Outcome[r] = "open" /\ Outcome' = Outcome
      /\ Seen[r] = Range(input)
      /\ Seen' = [Seen EXCEPT ![r] = Range(input) \union {View(r)}]
  <2>1. OutcomeIn(request[r]) = "open" /\ OutcomeIn(value) = "open"
    BY <1>4 DEF Read, OutcomeIn
  <2>2. /\ Seen' = [Seen EXCEPT ![r] = Range(value.input)]
        /\ Seen[r] = Range(request[r].input)
        /\ Outcome[r] = OutcomeIn(request[r])
        /\ OutcomeIn(value) = OutcomeIn(request[r]) => Outcome' = Outcome
    BY <1>4, <1>6, SeenThrough
  <2> QED BY <1>5, <2>1, <2>2
<1>8. CASE input = <<>>
  <2>1. View(r) = commit /\ Range(input) = {}
    BY <1>8 DEF View, Range
  <2> QED BY <1>6, <1>7, <2>1, PromiseSteps
<1>9. CASE input # <<>>
  <2>1. View(r) \in Range(input)
    BY <1>1, <1>9 DEF View, Range
  <2>2. Seen' = Seen
    <3>1. Range(value.input) = Range(request[r].input)
      BY <1>5, <2>1
    <3> QED BY <1>4, <1>6, <3>1, SeenThrough
  <2> QED BY <1>6, <1>7, <2>2, PromiseSteps
<1> QED BY <1>8, <1>9

\* The commit saves what was seen, unless it is rolled back.
LEMMA StoreSaves ==
  ASSUME IInv, NEW r \in Requests,
         NEW outcome \in {"done", "rolled_back", "raised"}, Store(r, outcome)
  PROVE  Promise!Save(r) \/ Promise!End(r)
<1> DEFINE answer == IF outcome = "done" THEN "created" ELSE "storage_unavailable"
           value == [request[r] EXCEPT !.step = "done", !.answer = answer]
<1>1. value \in Request /\ value.input = request[r].input
      /\ OutcomeIn(value) = IF outcome = "done" THEN "created" ELSE "ended"
  BY DEF IInv, TypeOK, Request, Answers, OutcomeIn
<1> HIDE DEF value
<1>2. Becomes(r, value)
  BY DEF Store, AfterCommit, Answer, value
<1>3. /\ Outcome[r] = "open" /\ Seen' = Seen
      /\ Outcome' = [Outcome EXCEPT ![r] = OutcomeIn(value)]
  BY <1>1, <1>2, SeenThrough DEF Store, OutcomeIn
<1>4. CASE outcome = "rolled_back"
  BY <1>1, <1>3, <1>4, PromiseSteps DEF Store
<1>5. CASE outcome # "rolled_back"
  <2>1. PICK c \in 0 .. MaxCommit :
          /\ c \notin EmptyAt \union InvalidAt
          /\ request[r].input = [q \in 1 .. Len(Queries) |-> c]
    BY DEF Store, IInv, Prepared, Reading
  <2>2. c \in Seen[r]
    <3>1. 1 \in 1 .. Len(Queries)
      BY DEF Queries
    <3> QED BY <2>1, <3>1 DEF Seen, Range
  <2>3. reports' = reports \union
                     {[request |-> r, input |-> [q \in 1 .. Len(Queries) |-> c]]}
    BY <1>5, <2>1 DEF Store, NewReport
  <2>4. commit # Gone /\ UNCHANGED commit
    BY DEF Store, Owner
  <2> QED BY <1>1, <1>3, <2>1, <2>2, <2>3, <2>4, PromiseSteps
<1> QED BY <1>4, <1>5

\* What happens to a request before and after the post.
LEMMA PrepareMoves ==
  ASSUME IInv, NEW r \in Requests, Prepare(r)
  PROVE  Promise!End(r) \/ UNCHANGED Promise!vars
<1>1. CASE \E answer \in {"input", "no_purchases"} : Answer(r, answer)
  BY <1>1, AnswerEnds DEF Prepare, Answers
<1>2. CASE Becomes(r, [request[r] EXCEPT !.step = "show"])
  <2>1. /\ Becomes(r, [request[r] EXCEPT !.step = "show",
                                         !.attempt = request[r].attempt,
                                         !.replaced = request[r].replaced])
        /\ request[r].attempt \in 0 .. Retries /\ request[r].replaced \in BOOLEAN
    BY <1>2 DEF Becomes, IInv, TypeOK, Request
  <2> QED BY <2>1, MoveKeeps DEF Prepare
<1> QED BY <1>1, <1>2 DEF Prepare

LEMMA BackoffMoves ==
  ASSUME IInv, NEW r \in Requests, request[r].step \in {"show", "chat"},
         Backoff(r), UNCHANGED <<commit, reports>>
  PROVE  Promise!End(r) \/ UNCHANGED Promise!vars
<1>1. CASE request[r].attempt = Retries
  BY <1>1, AnswerEnds DEF Backoff, Answers
<1>2. CASE request[r].attempt # Retries
  <2>1. /\ request[r].attempt + 1 \in 0 .. Retries
        /\ request[r].replaced \in BOOLEAN
    BY <1>2, ReportConstants DEF IInv, TypeOK, Request
  <2>2. Becomes(r, [request[r] EXCEPT !.step = "pause",
                                      !.attempt = request[r].attempt + 1,
                                      !.replaced = request[r].replaced])
    BY <1>2 DEF Backoff, Becomes, IInv, TypeOK, Request
  <2> QED BY <2>1, <2>2, MoveKeeps
<1> QED BY <1>1, <1>2

LEMMA PostMoves ==
  ASSUME IInv, NEW r \in Requests, NEW outcome \in Outcomes,
         Show(r, outcome) \/ Chat(r, outcome)
  PROVE  Promise!End(r) \/ UNCHANGED Promise!vars
<1>1. /\ request[r].step \in {"show", "chat"} /\ UNCHANGED <<commit, reports>>
      /\ request[r].attempt \in 0 .. Retries /\ request[r].replaced \in BOOLEAN
  BY DEF Show, Chat, IInv, TypeOK, Request
<1>2. \/ Backoff(r)
      \/ Answer(r, "llm_rejected")
      \/ Becomes(r, [request[r] EXCEPT !.step = "chat", !.replaced = FALSE])
      \/ Becomes(r, [request[r] EXCEPT !.step = "store"])
  BY DEF Show, Chat, Outcomes
<1>3. CASE Becomes(r, [request[r] EXCEPT !.step = "chat", !.replaced = FALSE])
  <2>1. Becomes(r, [request[r] EXCEPT !.step = "chat",
                                      !.attempt = request[r].attempt,
                                      !.replaced = FALSE])
    BY <1>3 DEF Becomes, IInv, TypeOK, Request
  <2> QED BY <1>1, <2>1, MoveKeeps
<1>4. CASE Becomes(r, [request[r] EXCEPT !.step = "store"])
  <2>1. Becomes(r, [request[r] EXCEPT !.step = "store",
                                      !.attempt = request[r].attempt,
                                      !.replaced = request[r].replaced])
    BY <1>4 DEF Becomes, IInv, TypeOK, Request
  <2> QED BY <1>1, <2>1, MoveKeeps
<1>5. CASE Backoff(r)
  BY <1>1, <1>5, BackoffMoves
<1>6. CASE Answer(r, "llm_rejected")
  BY <1>1, <1>6, AnswerEnds DEF Answers
<1> QED BY <1>2, <1>3, <1>4, <1>5, <1>6

\* Every other step of a request.
LEMMA OtherMoves ==
  ASSUME IInv, NEW r \in Requests,
         \/ Start(r) \/ Resume(r)
         \/ ReadFails(r) \/ StoreWithoutOwner(r) \/ RequestDies(r)
  PROVE  Promise!End(r) \/ UNCHANGED Promise!vars
<1>1. CASE Start(r) \/ Resume(r)
  <2>1. PICK step \in {"read", "show"}, replaced \in BOOLEAN :
           Becomes(r, [request[r] EXCEPT !.step = step,
                                         !.attempt = request[r].attempt,
                                         !.replaced = replaced])
    <3>1. CASE Start(r)
      <4>1. /\ Becomes(r, [request[r] EXCEPT !.step = "read",
                                             !.attempt = request[r].attempt,
                                             !.replaced = request[r].replaced])
            /\ request[r].replaced \in BOOLEAN
        BY <3>1 DEF Start, Becomes, IInv, TypeOK, Request
      <4> QED BY <4>1
    <3>2. CASE Resume(r)
      <4>1. Becomes(r, [request[r] EXCEPT !.step = "show",
                                          !.attempt = request[r].attempt,
                                          !.replaced = FALSE])
        BY <3>2 DEF Resume, Becomes, IInv, TypeOK, Request
      <4> QED BY <4>1
    <3> QED BY <1>1, <3>1, <3>2
  <2>2. /\ request[r].step # "done" /\ UNCHANGED <<commit, reports>>
        /\ request[r].attempt \in 0 .. Retries
    BY <1>1 DEF Start, Resume, IInv, TypeOK, Request
  <2> QED BY <2>1, <2>2, MoveKeeps
<1>2. CASE ReadFails(r) \/ StoreWithoutOwner(r) \/ RequestDies(r)
  BY <1>2, AnswerEnds DEF ReadFails, StoreWithoutOwner, RequestDies, Answers
<1> QED BY <1>1, <1>2

\* A model that is replaced shows in no request, to the promise.
LEMMA ReplacingIsUnseen ==
  ASSUME IInv, NEW m \in Models, ReplaceModel(m)
  PROVE  UNCHANGED Promise!vars
<1>1. \A r \in Requests :
        /\ request'[r].step = request[r].step
        /\ request'[r].input = request[r].input
        /\ request'[r].answer = request[r].answer
  BY DEF ReplaceModel, IInv, TypeOK, Request
<1>2. Seen' = Seen /\ Outcome' = Outcome
  BY <1>1 DEF Seen, Outcome, OutcomeIn
<1> QED BY <1>2, PromiseSteps DEF ReplaceModel

\* What does not concern requests: the owner's edits, the end of the account,
\* and listings.
LEMMA OwnerChanges ==
  ASSUME IInv, UNCHANGED request
  PROVE  /\ Edit => Promise!Change
         /\ DeleteOwner => Promise!Delete
         /\ UNCHANGED <<commit, reports>> => UNCHANGED Promise!vars
<1>1. Seen' = Seen /\ Outcome' = Outcome
  BY DEF Seen, Outcome, OutcomeIn
<1>2. /\ UNCHANGED [r \in Requests |-> OutcomeOf(r)]
      /\ UNCHANGED [r \in Requests |-> Range(request[r].input)]
  BY DEF OutcomeOf
<1>3. ASSUME Edit PROVE Promise!Change
  <2>1. commit # Gone /\ commit' \in Commits \ {Gone} /\ reports' = reports
    BY <1>3, ReportConstants DEF Edit, IInv, TypeOK, Commits, Gone
  <2> QED BY <1>2, <2>1 DEF Promise!Change
<1>4. ASSUME DeleteOwner PROVE Promise!Delete
  BY <1>2, <1>4 DEF DeleteOwner, Owner, Promise!Delete
<1> QED BY <1>1, <1>3, <1>4, PromiseSteps

LEMMA PromiseInit == Init => Promise!Init
<1> SUFFICES ASSUME Init PROVE Promise!Init
  OBVIOUS
<1>1. commit \in Commits
  BY ReportConstants DEF Init, Commits, Gone
<1>2. \A r \in Requests : Range(request[r].input) = {} /\ OutcomeOf(r) = "open"
  BY DEF Init, Range, OutcomeOf
<1> QED BY <1>1, <1>2 DEF Init, Promise!Init

LEMMA PromiseNext == IInv /\ [Next]_vars => [Promise!Next]_(Promise!vars)
<1> SUFFICES ASSUME IInv, [Next]_vars
             PROVE  Promise!Next \/ UNCHANGED Promise!vars
  OBVIOUS
<1>1. ASSUME NEW r \in Requests, Start(r) \/ Step(r) \/ RequestDies(r)
      PROVE  Promise!Look(r) \/ Promise!Save(r) \/ Promise!End(r)
             \/ UNCHANGED Promise!vars
  BY <1>1, ReadLooks, StoreSaves, PrepareMoves, PostMoves, OtherMoves DEF Step
<1>2. CASE Edit
  BY <1>2, OwnerChanges DEF Edit, Promise!Next
<1>3. CASE DeleteOwner
  BY <1>3, OwnerChanges DEF DeleteOwner, Promise!Next
<1>4. CASE \E m \in Models : ReplaceModel(m)
  BY <1>4, ReplacingIsUnseen
<1>5. CASE \/ \E page \in 1 .. MaxPage, size \in PageSizes : Count(page, size)
           \/ List
  BY <1>5, OwnerChanges DEF Count, List
<1>6. CASE UNCHANGED vars
  BY <1>6, OwnerChanges DEF vars
<1> QED BY <1>1, <1>2, <1>3, <1>4, <1>5, <1>6 DEF Next, Promise!Next

\* create_monthly, with its five queries, its retries and whatever comes in
\* between, does for the owner what a single look and a single save would.
THEOREM ReportsKeepPromise == Spec => KeepsPromise
<1> QED BY PromiseInit, PromiseNext, ReportInductive, PTL
        DEF Spec, KeepsPromise, Promise!Spec
=============================================================================
