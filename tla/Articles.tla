------------------------------- MODULE Articles -----------------------------
(***************************************************************************)
(* The publication of articles (article/): Update reads the article, works *)
(* out its published_at from what it read, and writes both back.  A time   *)
(* is the request that took it.  Slugs, categories and images have modules *)
(* of their own.                                                           *)
(*                                                                         *)
(* An operator whose name has an underscore is a faulty variant of the     *)
(* operator that follows it; no specification uses it.                     *)
(***************************************************************************)
CONSTANTS Ids, Requests, None

ArticlesAssumption == None \notin Requests

VARIABLES
    article,   \* articles; None where there is no row
    born,      \* the ids the sequence has given out
    request    \* the requests

vars == <<article, born, request>>

Statuses == {"draft", "published"}

Rows == [status : Statuses, published_at : Requests \cup {None}]

Idle == [at |-> "idle", id |-> None, status |-> None, before |-> None, published_at |-> None]

Ended == {"done", "missing", "failed", "panicked"}

TypeOK ==
    /\ article \in [Ids -> Rows \cup {None}]
    /\ born \in SUBSET Ids
    /\ request \in [Requests ->
          [at : {"idle", "reading", "writing"} \cup Ended,
           id : Ids \cup {None},
           status : Statuses \cup {None},        \* input.Status
           before : Rows \cup {None},            \* existing
           published_at : Requests \cup {None}]] \* what it is going to write
    \* Dates are the writer's own, or one that it has read.
    /\ \A r \in Requests :
          request[r].published_at \in {None, r} \cup
              (IF request[r].before = None THEN {} ELSE {request[r].before.published_at})

Init ==
    /\ article = [i \in Ids |-> None]
    /\ born = {}
    /\ request = [r \in Requests |-> Idle]

-----------------------------------------------------------------------------

\* Create: no status is a draft.
Create(r, i, status) ==
    /\ request[r].at = "idle" /\ i \notin born
    /\ born' = born \cup {i}
    /\ article' = [article EXCEPT ![i] =
          [status |-> IF status = None THEN "draft" ELSE status,
           published_at |-> IF status = "published" THEN r ELSE None]]
    /\ request' = [request EXCEPT ![r] = [Idle EXCEPT !.at = "done", !.id = i]]

Update(r, i, status) ==
    /\ request[r].at = "idle" /\ i \in born
    /\ request' = [request EXCEPT ![r] =
          [Idle EXCEPT !.at = "reading", !.id = i, !.status = status]]
    /\ UNCHANGED <<article, born>>

PublishedAt_Kept(r, before) == before.published_at

PublishedAt_Now(r, before) ==
    IF request[r].status = "published" THEN r ELSE before.published_at

\* Published for the first time now, or when it was.
PublishedAt(r, before) ==
    IF request[r].status = "published" /\ before.status = "draft" /\ before.published_at = None
    THEN r ELSE before.published_at

\* AdminGetByID.
Read(r) ==
    LET before == article[request[r].id] IN
    /\ request[r].at = "reading"
    /\ request' = [request EXCEPT ![r] =
          IF before = None THEN [@ EXCEPT !.at = "missing"]
          ELSE [@ EXCEPT !.at = "writing", !.before = before,
                         !.published_at = PublishedAt(r, before)]]
    /\ UNCHANGED <<article, born>>

\* repository.go: the row is locked, then *input.Status is dereferenced.
Write(r) ==
    LET q == request[r] IN
    /\ q.at = "writing"
    /\ IF article[q.id] = None \/ q.status = None
       THEN UNCHANGED article
       ELSE article' = [article EXCEPT ![q.id] =
               [status |-> q.status, published_at |-> q.published_at]]
    /\ request' = [request EXCEPT ![r].at =
          IF article[q.id] = None THEN "missing"
          ELSE IF q.status = None THEN "panicked" ELSE "done"]
    /\ UNCHANGED born

Delete(r, i) ==
    /\ request[r].at = "idle" /\ i \in born
    /\ article' = [article EXCEPT ![i] = None]
    /\ request' = [request EXCEPT ![r] =
          [Idle EXCEPT !.at = IF article[i] = None THEN "missing" ELSE "done", !.id = i]]
    /\ UNCHANGED born

\* A statement fails, or the client goes.
Fail(r) ==
    /\ request[r].at \in {"reading", "writing"}
    /\ request' = [request EXCEPT ![r].at = "failed"]
    /\ UNCHANGED <<article, born>>

Next ==
    \E r \in Requests :
       \/ \E i \in Ids :
             \/ \E status \in Statuses \cup {None} : Create(r, i, status) \/ Update(r, i, status)
             \/ Delete(r, i)
       \/ Read(r) \/ Write(r) \/ Fail(r)

Spec == Init /\ [][Next]_vars

-----------------------------------------------------------------------------
(* Properties.                                                             *)

\* What the public list shows and sorts by its date has one, whichever edits race.
PublishedHasDate ==
    \A i \in Ids : article[i] # None /\ article[i].status = "published"
                   => article[i].published_at # None

\* A date moves only in a race: the request that changes it had read the article before
\* it got this date.
DatesMoveInRacesOnly ==
    [][\A r \in Requests :
          LET i == request[r].id IN
          request[r].at = "writing" /\ request'[r].at = "done" /\ article[i].published_at # None =>
              \/ article'[i].published_at = article[i].published_at
              \/ request[r].before.published_at # article[i].published_at]_vars

\* What is published has its date and, but for races, keeps it.
ArticlesSafety ==
    /\ []TypeOK
    /\ []PublishedHasDate
    /\ DatesMoveInRacesOnly
=============================================================================
