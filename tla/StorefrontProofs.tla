-------------------------- MODULE StorefrontProofs --------------------------
(***************************************************************************)
(* Proofs about the parts of MCStorefront, for any number of customers,    *)
(* rows and concurrent requests.  Each part has an inductive invariant of  *)
(* its own; that a part stays so beside the others is in the last section. *)
(***************************************************************************)
EXTENDS MCStorefront, FiniteSetTheorems, NaturalsInduction, WellFoundedInduction, TLAPS

-----------------------------------------------------------------------------
(* Reviews: nothing goes up unmoderated.                                   *)

ReviewRow == [text : Texts, status : {"pending", "approved", "rejected"}]

Bought == {"delivered", "refunded"}

\* What an admin has on the screen has been written, by somebody who bought it.
ReviewInv ==
    /\ R!TypeOK
    /\ \A a \in Admins, p \in R!Pairs :
          page[a][p] # None => review[p] \in ReviewRow /\ bought[p] \in Bought

LEMMA ReviewTypes ==
    ASSUME ReviewInv
    PROVE  /\ bought \in [R!Pairs -> {"none", "paid", "delivered", "refunded"}]
           /\ review \in [R!Pairs -> {None} \cup ReviewRow]
           /\ page \in [Admins -> [R!Pairs -> Texts \cup {None}]]
           /\ \A p \in R!Pairs : review[p] # None => bought[p] \in Bought
  BY DEF ReviewInv, R!TypeOK, ReviewRow, Bought

LEMMA ReviewInvFromTypes ==
    ASSUME bought' \in [R!Pairs -> {"none", "paid", "delivered", "refunded"}],
           review' \in [R!Pairs -> {None} \cup ReviewRow],
           page' \in [Admins -> [R!Pairs -> Texts \cup {None}]],
           \A p \in R!Pairs : review'[p] # None => bought'[p] \in Bought,
           \A a \in Admins, p \in R!Pairs :
              page'[a][p] # None => review'[p] \in ReviewRow /\ bought'[p] \in Bought
    PROVE  ReviewInv'
  BY DEF ReviewInv, R!TypeOK, ReviewRow, Bought, R!Pairs

LEMMA ReviewInit == R!Init => ReviewInv
  BY DEF R!Init, ReviewInv, R!TypeOK, R!Pairs

LEMMA ReviewStep ==
    ASSUME ReviewInv, R!Next \/ UNCHANGED reviewVars
    PROVE  ReviewInv'
  <1>1. ASSUME NEW u \in Customers, NEW p \in Plants, NEW to \in {"paid", "delivered", "refunded"},
               R!OrderMoves(u, p, to)
        PROVE  ReviewInv'
    <2>1. <<u, p>> \in R!Pairs
      BY DEF R!Pairs
    <2>2. /\ <<bought[<<u, p>>], to>> \in {<<"none", "paid">>, <<"paid", "delivered">>,
                                          <<"delivered", "refunded">>}
          /\ bought' = [bought EXCEPT ![<<u, p>>] = to] /\ UNCHANGED <<review, page>>
      BY <1>1 DEF R!OrderMoves
    <2>3. /\ bought' \in [R!Pairs -> {"none", "paid", "delivered", "refunded"}]
          /\ \A q \in R!Pairs : bought[q] \in Bought => bought'[q] \in Bought
      BY <2>1, <2>2, ReviewTypes DEF Bought
    <2>4. \A q \in R!Pairs : review[q] # None => bought'[q] \in Bought
      BY <2>3, ReviewTypes
    <2>5. \A a \in Admins, q \in R!Pairs :
              page[a][q] # None => review[q] \in ReviewRow /\ bought'[q] \in Bought
      BY <2>3 DEF ReviewInv
    <2> QED BY <2>2, <2>3, <2>4, <2>5, ReviewTypes, ReviewInvFromTypes
  <1>2. ASSUME NEW u \in Customers, NEW p \in Plants, NEW text \in Texts, R!SubmitReview(u, p, text)
        PROVE  ReviewInv'
    <2> DEFINE d == [text |-> text, status |-> "pending"]
    <2>1. <<u, p>> \in R!Pairs /\ d \in ReviewRow
      BY DEF R!Pairs, ReviewRow
    <2>2. /\ bought[<<u, p>>] = "delivered" /\ review' = [review EXCEPT ![<<u, p>>] = d]
          /\ UNCHANGED <<bought, page>>
      BY <1>2 DEF R!SubmitReview
    <2> HIDE DEF d
    <2>3. /\ review' \in [R!Pairs -> {None} \cup ReviewRow]
          /\ \A q \in R!Pairs : review'[q] = review[q] \/ review'[q] \in ReviewRow
          /\ \A q \in R!Pairs : review'[q] # None => bought[q] \in Bought
      BY <2>1, <2>2, ReviewTypes DEF Bought
    <2>4. \A a \in Admins, q \in R!Pairs :
              page[a][q] # None => review'[q] \in ReviewRow /\ bought[q] \in Bought
      BY <2>3 DEF ReviewInv
    <2> QED BY <2>2, <2>3, <2>4, ReviewTypes, ReviewInvFromTypes
  <1>3. ASSUME NEW a \in Admins, R!AdminReviews(a)
        PROVE  ReviewInv'
    <2> DEFINE screen == [p \in R!Pairs |-> IF review[p] = None THEN None ELSE review[p].text]
    <2>1. page' = [page EXCEPT ![a] = screen] /\ UNCHANGED <<bought, review>>
      BY <1>3 DEF R!AdminReviews
    <2>2. /\ screen \in [R!Pairs -> Texts \cup {None}]
          /\ \A p \in R!Pairs : screen[p] # None => review[p] \in ReviewRow /\ bought[p] \in Bought
      BY ReviewTypes DEF ReviewRow
    <2> HIDE DEF screen
    <2>3. /\ page' \in [Admins -> [R!Pairs -> Texts \cup {None}]]
          /\ \A b \in Admins, p \in R!Pairs :
                page'[b][p] # None => review[p] \in ReviewRow /\ bought[p] \in Bought
      BY <2>1, <2>2, ReviewTypes DEF ReviewInv
    <2> QED BY <2>1, <2>3, ReviewTypes, ReviewInvFromTypes
  <1>4. ASSUME NEW a \in Admins, NEW p \in R!Pairs, NEW status \in {"approved", "rejected"},
               R!ModerateReview(a, p, status)
        PROVE  ReviewInv'
    <2> DEFINE d == [review[p] EXCEPT !.status = status]
    <2>1. page[a][p] # None /\ UNCHANGED <<bought, page>> /\ review' = [review EXCEPT ![p] = d]
      BY <1>4, ReviewTypes DEF R!ModerateReview
    <2>2. review[p] \in ReviewRow /\ bought[p] \in Bought
      BY <2>1 DEF ReviewInv
    <2>3. d \in ReviewRow
      BY <2>2 DEF ReviewRow
    <2> HIDE DEF d
    <2>4. /\ review' \in [R!Pairs -> {None} \cup ReviewRow]
          /\ \A q \in R!Pairs : review'[q] = review[q] \/ (q = p /\ review'[q] \in ReviewRow)
      BY <2>1, <2>3, ReviewTypes
    <2>5. \A q \in R!Pairs : review'[q] # None => bought[q] \in Bought
      BY <2>2, <2>4, ReviewTypes
    <2>6. \A b \in Admins, q \in R!Pairs :
              page[b][q] # None => review'[q] \in ReviewRow /\ bought[q] \in Bought
      BY <2>4 DEF ReviewInv
    <2> QED BY <2>1, <2>4, <2>5, <2>6, ReviewTypes, ReviewInvFromTypes
  <1>5. CASE UNCHANGED reviewVars
    BY <1>5 DEF reviewVars, ReviewInv, R!TypeOK
  <1> QED BY <1>1, <1>2, <1>3, <1>4, <1>5 DEF R!Next

\* What OnlyModeratorsPublish says of a step.
LEMMA PublishStep ==
    ASSUME ReviewInv, R!Next \/ UNCHANGED reviewVars, NEW p \in R!Pairs, R!Published(p)'
    PROVE  \/ R!Published(p) /\ review'[p].text = review[p].text
           \/ \E a \in Admins : page[a][p] # None /\ ~R!Published(p)
  <1>1. CASE review' = review
    BY <1>1 DEF R!Published
  <1>2. ASSUME NEW u \in Customers, NEW x \in Plants, NEW text \in Texts, R!SubmitReview(u, x, text)
        PROVE  R!Published(p) /\ review'[p].text = review[p].text
    <2>1. <<u, x>> \in R!Pairs
          /\ review' = [review EXCEPT ![<<u, x>>] = [text |-> text, status |-> "pending"]]
      BY <1>2 DEF R!SubmitReview, R!Pairs
    <2>2. p # <<u, x>>
      BY <2>1, ReviewTypes DEF R!Published
    <2>3. review'[p] = review[p]
      BY <2>1, <2>2, ReviewTypes
    <2> QED BY <2>3 DEF R!Published
  <1>3. ASSUME NEW a \in Admins, NEW q \in R!Pairs, NEW status \in {"approved", "rejected"},
               R!ModerateReview(a, q, status)
        PROVE  \/ R!Published(p) /\ review'[p].text = review[p].text
               \/ page[a][p] # None /\ ~R!Published(p)
    <2>1. page[a][q] # None /\ review' = [review EXCEPT ![q] = [review[q] EXCEPT !.status = status]]
      BY <1>3, ReviewTypes DEF R!ModerateReview
    <2>2. CASE p # q
      <3>1. review'[p] = review[p]
        BY <2>1, <2>2, ReviewTypes
      <3> QED BY <3>1 DEF R!Published
    <2>3. CASE p = q
      <3>1. review[p] \in ReviewRow
        BY <2>1, <2>3 DEF ReviewInv
      <3>2. review'[p].text = review[p].text
        BY <2>1, <2>3, <3>1, ReviewTypes DEF ReviewRow
      <3> QED BY <2>1, <2>3, <3>2
    <2> QED BY <2>2, <2>3
  <1> QED BY <1>1, <1>2, <1>3 DEF R!Next, R!OrderMoves, R!AdminReviews, reviewVars

-----------------------------------------------------------------------------
(* Articles: what is published has its date.                               *)

EditRow == [at : {"idle", "reading", "writing"} \cup A!Ended,
            id : Drafts \cup {None}, status : A!Statuses \cup {None},
            before : A!Rows \cup {None}, published_at : Edits \cup {None}]

\* What an edit is about to write: a date with "published", and the date that it read if
\* there was one.
EditHolds(r) ==
    LET q == edit[r] IN
    /\ q.at \in {"reading", "writing"} => q.id \in Drafts
    /\ q.at = "writing" =>
          /\ q.before \in A!Rows
          /\ q.status = "published" => q.published_at # None
          /\ q.before.published_at # None => q.published_at = q.before.published_at

ArticleInv ==
    /\ A!TypeOK
    /\ A!PublishedHasDate
    /\ \A r \in Edits : EditHolds(r)

\* Dates are the writer's own, or one that it has read.
OwnDate(r) ==
    edit[r].published_at \in {None, r} \cup
        (IF edit[r].before = None THEN {} ELSE {edit[r].before.published_at})

LEMMA ArticleTypes ==
    ASSUME ArticleInv
    PROVE  /\ edit \in [Edits -> EditRow] /\ written \in SUBSET Drafts
           /\ article \in [Drafts -> A!Rows \cup {None}] /\ None \notin Edits
           /\ \A r \in Edits : OwnDate(r)
           /\ \A i \in Drafts : article[i] # None /\ article[i].status = "published"
                                => article[i].published_at # None
  BY StorefrontAssumption
     DEF ArticleInv, A!TypeOK, EditRow, OwnDate, A!PublishedHasDate, A!ArticlesAssumption

\* A step of r: what it makes of its row, and at most one article.
LEMMA ArticleInvFromParts ==
    ASSUME ArticleInv, NEW r \in Edits, NEW d \in EditRow, edit' = [edit EXCEPT ![r] = d],
           written' \in SUBSET Drafts, article' \in [Drafts -> A!Rows \cup {None}],
           d.published_at \in {None, r} \cup
               (IF d.before = None THEN {} ELSE {d.before.published_at}),
           d.at \in {"reading", "writing"} => d.id \in Drafts,
           d.at = "writing" => /\ d.before \in A!Rows
                               /\ d.status = "published" => d.published_at # None
                               /\ d.before.published_at # None =>
                                     d.published_at = d.before.published_at,
           \A i \in Drafts : \/ article'[i] \in {article[i], None}
                             \/ article'[i].status = "published" => article'[i].published_at # None
    PROVE  ArticleInv'
  <1>1. edit' \in [Edits -> EditRow] /\ edit'[r] = d /\ \A q \in Edits \ {r} : edit'[q] = edit[q]
    BY ArticleTypes
  <1>2. \A q \in Edits : OwnDate(q)'
    BY <1>1, ArticleTypes DEF OwnDate
  <1>3. \A q \in Edits : EditHolds(q)'
    BY <1>1 DEF ArticleInv, EditHolds
  <1>4. A!PublishedHasDate'
    BY ArticleTypes DEF A!PublishedHasDate
  <1> QED BY <1>1, <1>2, <1>3, <1>4 DEF ArticleInv, A!TypeOK, EditRow, OwnDate

LEMMA ArticleInit == A!Init => ArticleInv
  <1> SUFFICES ASSUME A!Init
               PROVE  ArticleInv
    OBVIOUS
  <1>1. A!Idle \in EditRow /\ A!Idle.at = "idle" /\ A!Idle.published_at = None
    BY DEF A!Idle, EditRow
  <1>2. edit \in [Edits -> EditRow] /\ \A r \in Edits : edit[r] = A!Idle
    BY <1>1 DEF A!Init
  <1>3. article \in [Drafts -> A!Rows \cup {None}] /\ \A i \in Drafts : article[i] = None
    BY DEF A!Init
  <1>4. A!TypeOK
    BY <1>1, <1>2, <1>3 DEF A!Init, A!TypeOK, EditRow
  <1> QED BY <1>1, <1>2, <1>3, <1>4 DEF ArticleInv, EditHolds, A!PublishedHasDate

\* What Read works out.
LEMMA ReadStep ==
    ASSUME ArticleInv, NEW r \in Edits, A!Read(r)
    PROVE  ArticleInv'
  <1> DEFINE before == article[edit[r].id]
  <1>1. /\ edit[r].at = "reading" /\ edit[r].id \in Drafts /\ edit[r] \in EditRow
        /\ UNCHANGED <<article, written>> /\ OwnDate(r)
    BY ArticleTypes DEF A!Read, ArticleInv, EditHolds
  <1>2. CASE before = None
    <2> DEFINE d == [edit[r] EXCEPT !.at = "missing"]
    <2>1. edit' = [edit EXCEPT ![r] = d]
      BY <1>2, ArticleTypes DEF A!Read
    <2>2. /\ d \in EditRow /\ d.at = "missing" /\ d.published_at = edit[r].published_at
          /\ d.before = edit[r].before
      BY <1>1 DEF EditRow, A!Ended
    <2> HIDE DEF d
    <2> QED BY <1>1, <2>1, <2>2, ArticleTypes, ArticleInvFromParts DEF OwnDate
  <1>3. CASE before # None
    <2> DEFINE date == A!PublishedAt(r, before)
               d == [edit[r] EXCEPT !.at = "writing", !.before = before, !.published_at = date]
    <2>1. edit' = [edit EXCEPT ![r] = d]
      BY <1>3, ArticleTypes DEF A!Read
    <2>2. before \in A!Rows /\ (before.status = "published" => before.published_at # None)
      BY <1>1, <1>3, ArticleTypes
    <2>3. /\ before.published_at \in Edits \cup {None} /\ before.status \in {"draft", "published"}
      BY <2>2 DEF A!Rows, A!Statuses
    <2> HIDE DEF before
    <2>4. /\ date \in {r, before.published_at}
          /\ before.published_at # None => date = before.published_at
          /\ edit[r].status = "published" => date # None
      BY <2>2, <2>3, ArticleTypes DEF A!PublishedAt
    <2> HIDE DEF date
    <2>5. /\ d \in EditRow /\ d.at = "writing" /\ d.published_at = date /\ d.before = before
          /\ d.status = edit[r].status /\ d.id = edit[r].id
      BY <1>1, <2>2, <2>3, <2>4 DEF EditRow
    <2> HIDE DEF d
    <2> QED BY <1>1, <1>3, <2>1, <2>2, <2>4, <2>5, ArticleTypes, ArticleInvFromParts
  <1> QED BY <1>2, <1>3

LEMMA WriteStep ==
    ASSUME ArticleInv, NEW r \in Edits, A!Write(r)
    PROVE  ArticleInv'
  <1> DEFINE q == edit[r]
             at == IF article[q.id] = None THEN "missing"
                   ELSE IF q.status = None THEN "panicked" ELSE "done"
             d == [edit[r] EXCEPT !.at = at]
             entry == [status |-> q.status, published_at |-> q.published_at]
  <1>1. /\ q.at = "writing" /\ q \in EditRow /\ q.id \in Drafts /\ UNCHANGED written /\ OwnDate(r)
        /\ q.status = "published" => q.published_at # None
    BY ArticleTypes DEF A!Write, ArticleInv, EditHolds
  <1>2. at \in A!Ended /\ edit' = [edit EXCEPT ![r] = d]
    BY ArticleTypes DEF A!Write, A!Ended
  <1> HIDE DEF at
  <1>3. /\ d \in EditRow /\ d.at = at /\ d.published_at = q.published_at /\ d.before = q.before
    BY <1>1, <1>2 DEF EditRow
  <1>4. d.at \notin {"reading", "writing"}
    BY <1>2, <1>3 DEF A!Ended
  <1> HIDE DEF d
  <1>5. /\ article' \in [Drafts -> A!Rows \cup {None}]
        /\ \A i \in Drafts : \/ article'[i] = article[i]
                             \/ article'[i].status = "published" => article'[i].published_at # None
    <2>1. CASE UNCHANGED article
      BY <2>1, ArticleTypes
    <2>2. CASE q.status # None /\ article' = [article EXCEPT ![q.id] = entry]
      <3>1. entry \in A!Rows /\ entry.status = q.status /\ entry.published_at = q.published_at
        BY <1>1, <2>2 DEF EditRow, A!Rows
      <3> HIDE DEF entry
      <3> QED BY <1>1, <2>2, <3>1, ArticleTypes
    <2> QED BY <2>1, <2>2 DEF A!Write
  <1>6. d.published_at \in {None, r} \cup (IF d.before = None THEN {} ELSE {d.before.published_at})
    BY <1>1, <1>3 DEF OwnDate
  <1>7. written' \in SUBSET Drafts
    BY <1>1, ArticleTypes
  <1> QED BY <1>2, <1>3, <1>4, <1>5, <1>6, <1>7, ArticleInvFromParts

LEMMA ArticleStep ==
    ASSUME ArticleInv, A!Next \/ UNCHANGED articleVars
    PROVE  ArticleInv'
  <1>1. ASSUME NEW r \in Edits, NEW i \in Drafts, NEW status \in A!Statuses \cup {None},
               A!Create(r, i, status)
        PROVE  ArticleInv'
    <2> DEFINE entry == [status |-> IF status = None THEN "draft" ELSE status,
                         published_at |-> IF status = "published" THEN r ELSE None]
               d == [A!Idle EXCEPT !.at = "done", !.id = i]
    <2>1. /\ written' = written \cup {i} /\ article' = [article EXCEPT ![i] = entry]
          /\ edit' = [edit EXCEPT ![r] = d]
      BY <1>1 DEF A!Create
    <2>2. /\ entry \in A!Rows /\ (entry.status = "published" => entry.published_at # None)
      BY ArticleTypes DEF A!Rows, A!Statuses
    <2>3. d \in EditRow /\ d.at = "done" /\ d.published_at = None
      BY DEF EditRow, A!Idle, A!Ended
    <2> HIDE DEF entry, d
    <2>4. /\ article' \in [Drafts -> A!Rows \cup {None}] /\ written' \in SUBSET Drafts
          /\ \A j \in Drafts : \/ article'[j] = article[j]
                               \/ article'[j].status = "published" => article'[j].published_at # None
      BY <2>1, <2>2, ArticleTypes
    <2> QED BY <2>1, <2>3, <2>4, ArticleInvFromParts
  <1>2. ASSUME NEW r \in Edits, NEW i \in Drafts, NEW status \in A!Statuses \cup {None},
               A!Update(r, i, status)
        PROVE  ArticleInv'
    <2> DEFINE d == [A!Idle EXCEPT !.at = "reading", !.id = i, !.status = status]
    <2>1. UNCHANGED <<article, written>> /\ edit' = [edit EXCEPT ![r] = d]
      BY <1>2 DEF A!Update
    <2>2. d \in EditRow /\ d.at = "reading" /\ d.id = i /\ d.published_at = None
      BY DEF EditRow, A!Idle
    <2> HIDE DEF d
    <2> QED BY <2>1, <2>2, ArticleTypes, ArticleInvFromParts
  <1>3. ASSUME NEW r \in Edits, NEW i \in Drafts, A!Delete(r, i)
        PROVE  ArticleInv'
    <2> DEFINE at == IF article[i] = None THEN "missing" ELSE "done"
               d == [A!Idle EXCEPT !.at = at, !.id = i]
    <2>1. article' = [article EXCEPT ![i] = None] /\ UNCHANGED written /\ edit' = [edit EXCEPT ![r] = d]
          /\ at \in {"missing", "done"}
      BY <1>3 DEF A!Delete
    <2> HIDE DEF at
    <2>2. d \in EditRow /\ d.at = at /\ d.id = i /\ d.published_at = None
      BY <2>1 DEF EditRow, A!Idle, A!Ended
    <2> HIDE DEF d
    <2>3. /\ article' \in [Drafts -> A!Rows \cup {None}]
          /\ \A j \in Drafts : article'[j] \in {article[j], None}
      BY <2>1, ArticleTypes
    <2> QED BY <2>1, <2>2, <2>3, ArticleTypes, ArticleInvFromParts
  <1>4. ASSUME NEW r \in Edits, A!Fail(r)
        PROVE  ArticleInv'
    <2> DEFINE d == [edit[r] EXCEPT !.at = "failed"]
    <2>1. UNCHANGED <<article, written>> /\ edit' = [edit EXCEPT ![r] = d]
      BY <1>4, ArticleTypes DEF A!Fail
    <2>2. /\ d \in EditRow /\ d.at = "failed" /\ d.published_at = edit[r].published_at
          /\ d.before = edit[r].before
      BY ArticleTypes DEF EditRow, A!Ended
    <2> HIDE DEF d
    <2> QED BY <2>1, <2>2, ArticleTypes, ArticleInvFromParts DEF OwnDate
  <1>5. CASE UNCHANGED articleVars
    <2>1. A!TypeOK' /\ A!PublishedHasDate'
      BY <1>5 DEF articleVars, ArticleInv, A!TypeOK, A!PublishedHasDate
    <2>2. \A r \in Edits : EditHolds(r)'
      BY <1>5 DEF articleVars, ArticleInv, EditHolds
    <2> QED BY <2>1, <2>2 DEF ArticleInv
  <1> QED BY <1>1, <1>2, <1>3, <1>4, <1>5, ReadStep, WriteStep DEF A!Next

\* What DatesMoveInRacesOnly says of a step.
LEMMA DatesStep ==
    ASSUME ArticleInv, A!Next \/ UNCHANGED articleVars, NEW r \in Edits,
           edit[r].at = "writing", edit'[r].at = "done", article[edit[r].id].published_at # None
    PROVE  \/ article'[edit[r].id].published_at = article[edit[r].id].published_at
           \/ edit[r].before.published_at # article[edit[r].id].published_at
  <1>1. A!Write(r)
    <2>1. ASSUME NEW q \in Edits, NEW d, edit' = [edit EXCEPT ![q] = d]
          PROVE  q = r
      BY <2>1, ArticleTypes
    <2>2. \A q \in Edits : A!Fail(q) => q # r
      BY ArticleTypes DEF A!Fail, EditRow
    <2>3. UNCHANGED articleVars => edit' = edit
      BY DEF articleVars
    <2>4. PICK q \in Edits : \/ \E i \in Drafts :
                                  \/ \E status \in A!Statuses \cup {None} :
                                        A!Create(q, i, status) \/ A!Update(q, i, status)
                                  \/ A!Delete(q, i)
                             \/ A!Read(q) \/ A!Write(q) \/ A!Fail(q)
      BY <2>3 DEF A!Next
    <2>5. q = r
      BY <2>1, <2>4, ArticleTypes
         DEF A!Create, A!Update, A!Delete, A!Read, A!Write, A!Fail
    <2> QED BY <2>2, <2>4, <2>5 DEF A!Create, A!Update, A!Delete, A!Read
  <1> DEFINE i == edit[r].id
  <1>2. /\ i \in Drafts /\ (edit[r].before.published_at # None =>
                              edit[r].published_at = edit[r].before.published_at)
    BY DEF ArticleInv, EditHolds
  <1>3. edit'[r].at = IF article[i] = None THEN "missing"
                      ELSE IF edit[r].status = None THEN "panicked" ELSE "done"
    BY <1>1, ArticleTypes DEF A!Write, EditRow
  <1>4. article' = [article EXCEPT ![i] = [status |-> edit[r].status,
                                           published_at |-> edit[r].published_at]]
    BY <1>1, <1>3 DEF A!Write
  <1>5. article'[i].published_at = edit[r].published_at
    BY <1>2, <1>4, ArticleTypes
  <1> QED BY <1>2, <1>5

-----------------------------------------------------------------------------
(* The wishlist: the cap is kept and used.                                 *)

\* The instance's copy of FiniteSets is the library's.
LEMMA WishSets ==
    \A S : (W!IsFiniteSet(S) <=> IsFiniteSet(S)) /\ W!Cardinality(S) = Cardinality(S)
  <1>1. \A S : W!IsFiniteSet(S) <=> IsFiniteSet(S)
    BY Zenon DEF W!IsFiniteSet, IsFiniteSet
  <1>2. \A S : W!Cardinality(S) = Cardinality(S)
    BY Zenon DEF W!Cardinality, Cardinality
  <1> QED BY <1>1, <1>2, Zenon

LEMMA LeastNat ==
    ASSUME NEW S \in SUBSET Nat, S # {}
    PROVE  \E n \in S : \A m \in S : n <= m
  <1> DEFINE Lt == {ss \in Nat \X Nat : ss[1] < ss[2]}
  <1>1. IsWellFoundedOn(Lt, Nat)
    <2> DEFINE Less(a, b) == a < b
    <2>1. IsWellFoundedOn(OpToRel(Less, Nat), Nat)
      BY NatLessThanWellFounded, Zenon
    <2> QED BY <2>1, Zenon DEF OpToRel
  <1>2. PICK n \in S : \A m \in S : <<m, n>> \notin Lt
    <2> HIDE DEF Lt
    <2> QED BY <1>1, WFMin, Zenon
  <1>3. ASSUME NEW m \in S
        PROVE  n <= m
    <2>1. <<m, n>> \in Nat \X Nat /\ ~(m < n)
      BY <1>2, Zenon
    <2> QED BY <2>1
  <1> QED BY <1>3

\* The greatest is the one that has the fewest above it.
LEMMA GreatestNat ==
    ASSUME NEW S \in SUBSET Nat, S # {}, IsFiniteSet(S)
    PROVE  \E n \in S : \A m \in S : m <= n
  <1> DEFINE Above(p) == {q \in S : q > p}
             U == {Cardinality(Above(p)) : p \in S}
  <1>1. \A p \in S : IsFiniteSet(Above(p)) /\ Cardinality(Above(p)) \in Nat
    BY FS_Subset, FS_CardinalityType
  <1>2. U \in SUBSET Nat /\ U # {}
    BY <1>1
  <1>3. PICK u \in U : \A v \in U : u <= v
    <2> HIDE DEF U
    <2> QED BY <1>2, LeastNat
  <1>4. PICK n \in S : u = Cardinality(Above(n))
    BY <1>3
  <1>5. ASSUME NEW m \in S, m > n
        PROVE  FALSE
    <2>1. Above(m) \in SUBSET Above(n) /\ m \in Above(n) /\ m \notin Above(m)
      <3>1. m \in Nat /\ n \in Nat /\ \A q \in S : q \in Nat
        OBVIOUS
      <3>2. \A q \in S : q > m => q > n
        BY <1>5, <3>1
      <3>3. ~(m > m)
        BY <3>1
      <3> QED BY <1>5, <3>2, <3>3
    <2>2. IsFiniteSet(Above(n)) /\ Cardinality(Above(n)) \in Nat /\ Cardinality(Above(m)) \in Nat
      BY <1>1
    <2>3. Cardinality(Above(n)) <= Cardinality(Above(m))
      BY <1>3, <1>4
    <2> HIDE DEF Above
    <2>4. Cardinality(Above(m)) <= Cardinality(Above(n))
          /\ (Cardinality(Above(n)) = Cardinality(Above(m)) => Above(n) = Above(m))
      BY <2>1, <2>2, FS_Subset
    <2> QED BY <2>1, <2>2, <2>3, <2>4
  <1> QED BY <1>5

\* The first of a set that find room beside n others: no more than there is room for,
\* and if not all of them, then as many.
First(new, n) == {p \in new : Cardinality({q \in new : q < p}) + n < Cap}

LEMMA FirstFit ==
    ASSUME NEW new \in SUBSET Nat, IsFiniteSet(new), NEW n \in Nat, Cap \in Nat, n <= Cap
    PROVE  /\ First(new, n) \in SUBSET new /\ IsFiniteSet(First(new, n))
           /\ Cardinality(First(new, n)) \in Nat
           /\ Cardinality(First(new, n)) + n <= Cap
           /\ First(new, n) # new => Cardinality(First(new, n)) + n = Cap
  <1> DEFINE F == First(new, n)
             Below(p) == {q \in new : q < p}
  <1>1. /\ F \in SUBSET new
        /\ \A p \in new : p \in F <=> Cardinality(Below(p)) + n < Cap
    BY DEF First
  <1>2. \A p \in new : /\ IsFiniteSet(Below(p)) /\ Cardinality(Below(p)) \in Nat
                       /\ Below(p) \in SUBSET new /\ p \notin Below(p)
    BY FS_Subset, FS_CardinalityType
  <1>3. IsFiniteSet(F) /\ Cardinality(F) \in Nat
    BY <1>1, FS_Subset, FS_CardinalityType
  <1> HIDE DEF F
  <1>4. Cardinality(F) + n <= Cap
    <2>1. CASE F = {}
      BY <2>1, FS_EmptySet
    <2>2. CASE F # {}
      <3>1. PICK p \in F : \A m \in F : m <= p
        BY <1>1, <1>3, <2>2, GreatestNat
      <3>2. p \in new /\ F \in SUBSET (Below(p) \cup {p})
        BY <1>1, <3>1
      <3>3. Cardinality(Below(p)) + n < Cap
        BY <1>1, <3>1, <3>2
      <3> HIDE DEF Below
      <3>4. /\ IsFiniteSet(Below(p) \cup {p})
            /\ Cardinality(Below(p) \cup {p}) = Cardinality(Below(p)) + 1
        BY <1>2, <3>2, FS_AddElement
      <3>5. Cardinality(F) <= Cardinality(Below(p) \cup {p})
        BY <3>2, <3>4, FS_Subset
      <3> QED BY <1>2, <1>3, <3>2, <3>3, <3>4, <3>5
    <2> QED BY <2>1, <2>2
  <1>5. ASSUME F # new
        PROVE  Cap <= Cardinality(F) + n
    <2>1. PICK s \in new \ F : \A m \in new \ F : s <= m
      BY <1>1, <1>5, LeastNat
    <2>2. Below(s) \in SUBSET F
      <3>1. ASSUME NEW q \in new, q < s, q \notin F
            PROVE  FALSE
        <4>1. s <= q /\ s \in Nat /\ q \in Nat
          BY <2>1, <3>1
        <4> QED BY <3>1, <4>1
      <3> QED BY <3>1
    <2>3. ~(Cardinality(Below(s)) + n < Cap)
      BY <1>1, <2>1
    <2> HIDE DEF Below
    <2>4. Cardinality(Below(s)) <= Cardinality(F)
      BY <1>3, <2>2, FS_Subset
    <2> QED BY <1>2, <1>3, <2>1, <2>3, <2>4
  <1> QED BY <1>1, <1>3, <1>4, <1>5 DEF F

MergeRow == [at : {"idle", "locking", "inserting", "written", "done", "failed"},
             user : Users \cup {None}, ids : SUBSET Products, written : SUBSET Products]

\* Between its lock and its commit nobody else adds to the list: what it has found
\* room for still fits.
MergeHolds(m) ==
    LET x == merge[m] IN
    /\ x.at \in {"locking", "inserting", "written"} => x.user \in Users
    /\ x.at \in {"inserting", "written"} => holder[x.user] = m
    /\ x.at = "written" =>
          x.written \subseteq onSale /\ Cardinality(wish[x.user] \cup x.written) <= Cap

WishInv ==
    /\ W!TypeOK
    /\ W!WishlistIsCapped
    /\ \A m \in Merges : MergeHolds(m)

LEMMA WishTypes ==
    ASSUME WishInv
    PROVE  /\ onSale \in SUBSET Products /\ wish \in [Users -> SUBSET onSale]
           /\ holder \in [Users -> Merges \cup {None}] /\ merge \in [Merges -> MergeRow]
           /\ \A u \in Users : holder[u] # None => merge[holder[u]].at \in {"inserting", "written"}
           /\ \A u \in Users : Cardinality(wish[u]) <= Cap
           /\ None \notin Merges /\ Products \subseteq Nat /\ IsFiniteSet(Products) /\ Cap \in Nat
  <1>1. None \notin Merges /\ Products \subseteq Nat /\ IsFiniteSet(Products) /\ Cap \in Nat
    BY StorefrontAssumption, WishSets DEF W!WishlistAssumption
  <1>2. \A u \in Users : Cardinality(wish[u]) <= Cap
    BY WishSets DEF WishInv, W!WishlistIsCapped
  <1>3. /\ onSale \in SUBSET Products /\ wish \in [Users -> SUBSET onSale]
        /\ holder \in [Users -> Merges \cup {None}] /\ merge \in [Merges -> MergeRow]
        /\ \A u \in Users : holder[u] # None => merge[holder[u]].at \in {"inserting", "written"}
    BY DEF WishInv, W!TypeOK, MergeRow
  <1> QED BY <1>1, <1>2, <1>3

\* A smaller set is no larger.
LEMMA Smaller ==
    ASSUME IsFiniteSet(Products), NEW S \in SUBSET Products, NEW T \in SUBSET S
    PROVE  /\ Cardinality(S) \in Nat /\ Cardinality(T) \in Nat /\ Cardinality(T) <= Cardinality(S)
           /\ IsFiniteSet(S) /\ IsFiniteSet(T)
  BY FS_Subset, FS_CardinalityType

\* A step of one merge that leaves the lists.
LEMMA MergeMoves ==
    ASSUME WishInv, NEW m \in Merges, NEW d \in MergeRow, merge' = [merge EXCEPT ![m] = d],
           UNCHANGED <<onSale, wish>>,
           holder' \in [Users -> Merges \cup {None}],
           \A u \in Users : /\ holder[u] \notin {m, None} => holder'[u] = holder[u]
                            /\ holder'[u] = m => d.at \in {"inserting", "written"}
                            /\ holder'[u] \in {holder[u], m, None},
           d.at \in {"locking", "inserting", "written"} => d.user \in Users,
           d.at \in {"inserting", "written"} => holder'[d.user] = m,
           d.at = "written" => /\ d.written \subseteq onSale
                               /\ Cardinality(wish[d.user] \cup d.written) <= Cap
    PROVE  WishInv'
  <1>1. merge' \in [Merges -> MergeRow] /\ merge'[m] = d /\ \A q \in Merges \ {m} : merge'[q] = merge[q]
    BY WishTypes
  <1>2. \A u \in Users : holder'[u] # None => merge'[holder'[u]].at \in {"inserting", "written"}
    BY <1>1, WishTypes
  <1>3. ASSUME NEW q \in Merges, q # m
        PROVE  MergeHolds(q)'
    <2>1. MergeHolds(q) /\ q # None
      BY WishTypes DEF WishInv
    <2>2. merge[q].at \in {"inserting", "written"} => holder'[merge[q].user] = q
      BY <1>3, <2>1 DEF MergeHolds
    <2> QED BY <1>1, <1>3, <2>1, <2>2 DEF MergeHolds
  <1>4. MergeHolds(m)'
    BY <1>1 DEF MergeHolds
  <1>5. W!TypeOK'
    <2>1. onSale' \in SUBSET Products /\ wish' \in [Users -> SUBSET onSale']
      BY WishTypes
    <2> QED BY <1>1, <1>2, <2>1 DEF W!TypeOK, MergeRow
  <1>6. W!WishlistIsCapped'
    BY WishTypes, WishSets DEF W!WishlistIsCapped
  <1> QED BY <1>3, <1>4, <1>5, <1>6 DEF WishInv

LEMMA InsertStep ==
    ASSUME WishInv, NEW m \in Merges, W!Insert(m)
    PROVE  /\ WishInv'
           /\ LET u == merge[m].user IN
              \/ merge[m].ids \cap onSale \subseteq wish[u] \cup merge'[m].written
              \/ Cardinality(wish[u] \cup merge'[m].written) = Cap
  <1> DEFINE u == merge[m].user
             new == (merge[m].ids \cap onSale) \ wish[u]
             n == Cardinality(wish[u])
             F == First(new, n)
             d == [merge[m] EXCEPT !.at = "written", !.written = F]
  <1>1. merge[m].at = "inserting" /\ UNCHANGED <<onSale, wish, holder>> /\ merge[m] \in MergeRow
    BY WishTypes DEF W!Insert
  <1>2. u \in Users /\ holder[u] = m
    BY <1>1 DEF WishInv, MergeHolds
  <1>3. new \in SUBSET Products /\ wish[u] \in SUBSET Products /\ wish[u] \cap new = {}
    BY <1>1, <1>2, WishTypes
  <1>4. new \in SUBSET Nat /\ IsFiniteSet(new) /\ n \in Nat /\ n <= Cap /\ Cap \in Nat /\ IsFiniteSet(wish[u])
    <2>1. IsFiniteSet(Products) /\ Products \subseteq Nat /\ Cap \in Nat /\ n <= Cap
      BY <1>2, WishTypes
    <2> HIDE DEF new, u
    <2>2. IsFiniteSet(new) /\ IsFiniteSet(wish[u])
      BY <1>3, <2>1, FS_Subset
    <2>3. n \in Nat
      BY <2>2, FS_CardinalityType
    <2> QED BY <1>3, <2>1, <2>2, <2>3
  <1>5. W!Fitting(u, merge[m].ids) = F
    BY WishSets DEF W!Fitting, First
  <1>6. merge' = [merge EXCEPT ![m] = d]
    BY <1>5, WishTypes DEF W!Insert
  <1>7. F \in SUBSET new /\ F \in SUBSET onSale /\ F \in SUBSET Products
    BY <1>3 DEF First
  <1> HIDE DEF n
  <1>8. /\ IsFiniteSet(F) /\ Cardinality(F) \in Nat /\ Cardinality(F) + n <= Cap
        /\ F # new => Cardinality(F) + n = Cap
    <2> HIDE DEF new, F
    <2>1. F = First(new, n)
      BY DEF F
    <2> QED BY <1>4, <2>1, FirstFit
  <1> HIDE DEF F
  <1>9. Cardinality(wish[u] \cup F) = n + Cardinality(F)
    <2>1. wish[u] \cap F = {}
      BY <1>3, <1>7
    <2>2. Cardinality(wish[u] \cup F) = Cardinality(wish[u]) + Cardinality(F) - Cardinality({})
      BY <1>4, <1>8, <2>1, FS_Union
    <2> QED BY <1>4, <1>8, <2>2, FS_EmptySet DEF n
  <1>10. d \in MergeRow /\ d.at = "written" /\ d.written = F /\ d.user = u
    BY <1>1, <1>7 DEF MergeRow
  <1>11. merge'[m].written = F
    BY <1>6, <1>10, WishTypes
  <1>12. WishInv'
    <2> HIDE DEF d, u
    <2>1. \A v \in Users : /\ holder'[v] = holder[v]
                           /\ holder'[v] = m => d.at \in {"inserting", "written"}
      BY <1>1, <1>10
    <2>2. holder' \in [Users -> Merges \cup {None}]
      BY <1>1, WishTypes
    <2>3. d.at = "written" => /\ d.written \subseteq onSale
                              /\ Cardinality(wish[d.user] \cup d.written) <= Cap
      <3>1. Cardinality(wish[u] \cup F) <= Cap
        BY <1>4, <1>8, <1>9
      <3> QED BY <1>7, <1>10, <3>1
    <2>4. /\ d.at \in {"locking", "inserting", "written"} => d.user \in Users
          /\ d.at \in {"inserting", "written"} => holder'[d.user] = m
      BY <1>1, <1>2, <1>10
    <2>5. \A v \in Users : /\ holder[v] \notin {m, None} => holder'[v] = holder[v]
                           /\ holder'[v] = m => d.at \in {"inserting", "written"}
                           /\ holder'[v] \in {holder[v], m, None}
      BY <2>1
    <2>6. UNCHANGED <<onSale, wish>>
      BY <1>1
    <2> QED BY <1>6, <1>10, <2>2, <2>3, <2>4, <2>5, <2>6, MergeMoves
  <1>13. CASE F = new
    BY <1>11, <1>12, <1>13
  <1>14. CASE F # new
    BY <1>4, <1>8, <1>9, <1>11, <1>12, <1>14
  <1> QED BY <1>13, <1>14

LEMMA WishInit == W!Init => WishInv
  <1> SUFFICES ASSUME W!Init
               PROVE  WishInv
    OBVIOUS
  <1>1. W!Idle \in MergeRow /\ W!Idle.at = "idle"
    BY DEF W!Idle, MergeRow
  <1>2. /\ merge \in [Merges -> MergeRow] /\ \A m \in Merges : merge[m].at = "idle"
        /\ onSale \in SUBSET Products /\ wish \in [Users -> SUBSET onSale]
        /\ holder \in [Users -> Merges \cup {None}] /\ \A u \in Users : holder[u] = None
    BY <1>1 DEF W!Init
  <1>3. W!TypeOK
    BY <1>2 DEF W!TypeOK, MergeRow
  <1>4. W!WishlistIsCapped
    <2>1. Cap \in Nat
      BY StorefrontAssumption DEF W!WishlistAssumption
    <2>2. \A u \in Users : W!Cardinality(wish[u]) = 0
      BY WishSets, FS_EmptySet DEF W!Init
    <2> QED BY <2>1, <2>2 DEF W!WishlistIsCapped
  <1> QED BY <1>2, <1>3, <1>4 DEF WishInv, MergeHolds

LEMMA CommitStep ==
    ASSUME WishInv, NEW m \in Merges, W!Commit(m)
    PROVE  WishInv'
  <1> DEFINE u == merge[m].user
             w == wish[u] \cup merge[m].written
             d == [merge[m] EXCEPT !.at = "done"]
  <1>1. /\ merge[m].at = "written" /\ merge[m] \in MergeRow /\ UNCHANGED onSale
        /\ wish' = [wish EXCEPT ![u] = w] /\ merge' = [merge EXCEPT ![m] = d]
        /\ holder' = [v \in Users |-> IF holder[v] = m THEN None ELSE holder[v]]
    BY WishTypes DEF W!Commit, W!Release
  <1>2. u \in Users /\ holder[u] = m /\ merge[m].written \subseteq onSale /\ Cardinality(w) <= Cap
    BY <1>1 DEF WishInv, MergeHolds
  <1>3. d \in MergeRow /\ d.at = "done" /\ d.user = u
    BY <1>1 DEF MergeRow
  <1>4. w \in SUBSET onSale
    BY <1>2, WishTypes
  <1> HIDE DEF d, w
  <1>5. /\ merge' \in [Merges -> MergeRow] /\ merge'[m] = d
        /\ \A q \in Merges \ {m} : merge'[q] = merge[q]
    BY <1>1, <1>3, WishTypes
  <1>6. /\ wish' \in [Users -> SUBSET onSale'] /\ onSale' \in SUBSET Products
        /\ wish'[u] = w /\ \A v \in Users \ {u} : wish'[v] = wish[v]
    BY <1>1, <1>2, <1>4, WishTypes
  <1>7. /\ holder' \in [Users -> Merges \cup {None}]
        /\ \A v \in Users : holder'[v] # None => holder'[v] = holder[v] /\ holder[v] # m
    BY <1>1, WishTypes
  <1>8. \A v \in Users : holder'[v] # None => merge'[holder'[v]].at \in {"inserting", "written"}
    BY <1>5, <1>7, WishTypes
  <1>9. W!TypeOK'
    BY <1>5, <1>6, <1>7, <1>8 DEF W!TypeOK, MergeRow
  <1>10. W!WishlistIsCapped'
    BY <1>2, <1>6, WishTypes, WishSets DEF W!WishlistIsCapped
  <1>11. ASSUME NEW q \in Merges
         PROVE  MergeHolds(q)'
    <2>1. CASE q = m
      BY <1>3, <1>5, <2>1 DEF MergeHolds
    <2>2. CASE q # m
      <3>1. merge'[q] = merge[q] /\ MergeHolds(q)
        BY <1>5, <2>2 DEF WishInv
      <3>2. merge[q].at \in {"inserting", "written"} =>
                merge[q].user \in Users /\ merge[q].user # u /\ holder'[merge[q].user] = q
        BY <1>1, <1>2, <2>2, <3>1 DEF MergeHolds
      <3> QED BY <1>1, <1>6, <3>1, <3>2 DEF MergeHolds
    <2> QED BY <2>1, <2>2
  <1> QED BY <1>9, <1>10, <1>11 DEF WishInv

\* The lists shrink, or a product goes that no merge has just taken in.
LEMMA ListsShrink ==
    ASSUME WishInv, UNCHANGED <<holder, merge>>,
           onSale' \in SUBSET onSale, wish' \in [Users -> SUBSET onSale'],
           \A u \in Users : wish'[u] \in SUBSET wish[u],
           \A m \in Merges : merge[m].at = "written" => merge[m].written \subseteq onSale'
    PROVE  WishInv'
  <1>1. W!TypeOK'
    BY WishTypes DEF W!TypeOK, MergeRow
  <1>2. W!WishlistIsCapped'
    <2>1. ASSUME NEW u \in Users
          PROVE  Cardinality(wish'[u]) <= Cap
      <3>1. wish[u] \in SUBSET Products /\ wish'[u] \in SUBSET wish[u]
        BY WishTypes
      <3>2. Cardinality(wish'[u]) <= Cardinality(wish[u])
            /\ Cardinality(wish[u]) \in Nat /\ Cardinality(wish'[u]) \in Nat
        BY <3>1, WishTypes, Smaller
      <3> QED BY <3>2, WishTypes
    <2> QED BY <2>1, WishSets DEF W!WishlistIsCapped
  <1>3. ASSUME NEW m \in Merges
        PROVE  MergeHolds(m)'
    <2>1. MergeHolds(m) /\ merge[m] \in MergeRow
      BY WishTypes DEF WishInv
    <2>2. CASE merge[m].at = "written"
      <3> DEFINE new == merge[m].written
                 u == merge[m].user
      <3>1. u \in Users /\ new \in SUBSET Products /\ Cardinality(wish[u] \cup new) <= Cap
        BY <2>1, <2>2 DEF MergeHolds, MergeRow
      <3>2. wish[u] \in SUBSET Products /\ wish'[u] \in SUBSET wish[u]
        BY <3>1, WishTypes
      <3> HIDE DEF new, u
      <3>3. wish[u] \cup new \in SUBSET Products
            /\ wish'[u] \cup new \in SUBSET (wish[u] \cup new)
        BY <3>1, <3>2
      <3>4. /\ Cardinality(wish'[u] \cup new) <= Cardinality(wish[u] \cup new)
            /\ Cardinality(wish[u] \cup new) \in Nat /\ Cardinality(wish'[u] \cup new) \in Nat
        BY <3>3, WishTypes, Smaller
      <3>5. Cardinality(wish'[u] \cup new) <= Cap
        BY <3>1, <3>4, WishTypes
      <3> QED BY <2>1, <2>2, <3>5 DEF MergeHolds, u, new
    <2>3. CASE merge[m].at # "written"
      BY <2>1, <2>3 DEF MergeHolds
    <2> QED BY <2>2, <2>3
  <1> QED BY <1>1, <1>2, <1>3 DEF WishInv

LEMMA WishStep ==
    ASSUME WishInv, W!Next \/ UNCHANGED wishVars
    PROVE  WishInv'
  <1>1. ASSUME NEW m \in Merges, NEW u \in Users, NEW ids \in SUBSET Products,
               W!MergeWishlist(m, u, ids)
        PROVE  WishInv'
    <2> DEFINE d == [W!Idle EXCEPT !.at = "locking", !.user = u, !.ids = ids]
    <2>1. /\ merge[m].at = "idle" /\ merge' = [merge EXCEPT ![m] = d]
          /\ UNCHANGED <<onSale, wish, holder>>
      BY <1>1 DEF W!MergeWishlist
    <2>2. d \in MergeRow /\ d.at = "locking" /\ d.user = u
      BY DEF W!Idle, MergeRow
    <2> HIDE DEF d
    <2>3. \A v \in Users : holder'[v] # m
      BY <2>1, WishTypes
    <2>4. /\ holder' \in [Users -> Merges \cup {None}]
          /\ \A v \in Users : /\ holder[v] \notin {m, None} => holder'[v] = holder[v]
                              /\ holder'[v] = m => d.at \in {"inserting", "written"}
                              /\ holder'[v] \in {holder[v], m, None}
      BY <2>1, <2>3, WishTypes
    <2>5. /\ d.at \in {"locking", "inserting", "written"} => d.user \in Users
          /\ d.at \in {"inserting", "written"} => holder'[d.user] = m
          /\ d.at = "written" => /\ d.written \subseteq onSale
                                 /\ Cardinality(wish[d.user] \cup d.written) <= Cap
      BY <2>2
    <2>6. merge' = [merge EXCEPT ![m] = d] /\ UNCHANGED <<onSale, wish>>
      BY <2>1
    <2> QED BY <2>2, <2>4, <2>5, <2>6, MergeMoves
  <1>2. ASSUME NEW m \in Merges, W!LockUser(m)
        PROVE  WishInv'
    <2> DEFINE d == [merge[m] EXCEPT !.at = "inserting"]
               u == merge[m].user
    <2>1. /\ merge[m].at = "locking" /\ merge[m] \in MergeRow /\ holder[u] = None
          /\ merge' = [merge EXCEPT ![m] = d] /\ holder' = [holder EXCEPT ![u] = m]
          /\ UNCHANGED <<onSale, wish>>
      BY <1>2, WishTypes DEF W!LockUser
    <2>2. d \in MergeRow /\ d.at = "inserting" /\ d.user = u /\ u \in Users
      BY <2>1 DEF MergeRow, WishInv, MergeHolds
    <2> HIDE DEF d, u
    <2>3. /\ holder' \in [Users -> Merges \cup {None}] /\ holder'[u] = m
          /\ \A v \in Users \ {u} : holder'[v] = holder[v]
      BY <2>1, <2>2, WishTypes
    <2>4. \A v \in Users : /\ holder[v] \notin {m, None} => holder'[v] = holder[v]
                           /\ holder'[v] \in {holder[v], m, None}
      BY <2>1, <2>3
    <2> QED BY <2>1, <2>2, <2>3, <2>4, MergeMoves
  <1>3. ASSUME NEW m \in Merges, W!Fail(m)
        PROVE  WishInv'
    <2> DEFINE d == [merge[m] EXCEPT !.at = "failed"]
    <2>1. /\ merge[m] \in MergeRow /\ merge' = [merge EXCEPT ![m] = d]
          /\ holder' = [v \in Users |-> IF holder[v] = m THEN None ELSE holder[v]]
          /\ UNCHANGED <<onSale, wish>>
      BY <1>3, WishTypes DEF W!Fail, W!Release
    <2>2. d \in MergeRow /\ d.at = "failed"
      BY <2>1 DEF MergeRow
    <2> HIDE DEF d
    <2>3. /\ holder' \in [Users -> Merges \cup {None}]
          /\ \A v \in Users : /\ holder[v] \notin {m, None} => holder'[v] = holder[v]
                              /\ holder'[v] # m
                              /\ holder'[v] \in {holder[v], m, None}
      BY <2>1, WishTypes
    <2> QED BY <2>1, <2>2, <2>3, MergeMoves
  <1>4. ASSUME NEW u \in Users, NEW p \in Products, W!DeleteWishlist(u, p)
        PROVE  WishInv'
    <2>1. wish' = [wish EXCEPT ![u] = wish[u] \ {p}] /\ UNCHANGED <<onSale, holder, merge>>
      BY <1>4, WishTypes DEF W!DeleteWishlist
    <2>2. wish' \in [Users -> SUBSET onSale] /\ \A v \in Users : wish'[v] \in SUBSET wish[v]
      BY <2>1, WishTypes
    <2>3. \A m \in Merges : merge[m].at = "written" => merge[m].written \subseteq onSale
      BY DEF WishInv, MergeHolds
    <2> QED BY <2>1, <2>2, <2>3, ListsShrink
  <1>5. ASSUME NEW p \in Products, W!DeleteProduct(p)
        PROVE  WishInv'
    <2>1. /\ \A m \in Merges : merge[m].at = "written" => p \notin merge[m].written
          /\ onSale' = onSale \ {p} /\ wish' = [u \in Users |-> wish[u] \ {p}]
          /\ UNCHANGED <<holder, merge>>
      BY <1>5 DEF W!DeleteProduct
    <2>2. wish' \in [Users -> SUBSET onSale'] /\ \A v \in Users : wish'[v] \in SUBSET wish[v]
      BY <2>1, WishTypes
    <2>3. \A m \in Merges : merge[m].at = "written" => merge[m].written \subseteq onSale'
      BY <2>1 DEF WishInv, MergeHolds
    <2> QED BY <2>1, <2>2, <2>3, ListsShrink
  <1>6. CASE UNCHANGED wishVars
    <2>1. W!TypeOK' /\ W!WishlistIsCapped'
      BY <1>6 DEF wishVars, WishInv, W!TypeOK, W!WishlistIsCapped
    <2>2. \A m \in Merges : MergeHolds(m)'
      BY <1>6 DEF wishVars, WishInv, MergeHolds
    <2> QED BY <2>1, <2>2 DEF WishInv
  <1> QED BY <1>1, <1>2, <1>3, <1>4, <1>5, <1>6, InsertStep, CommitStep DEF W!Next

\* What MergesFillTheList says of a step.
LEMMA FillStep ==
    ASSUME WishInv, W!Next \/ UNCHANGED wishVars, NEW m \in Merges,
           merge[m].at = "inserting", merge'[m].at = "written"
    PROVE  LET u == merge[m].user IN
           \/ merge[m].ids \cap onSale \subseteq wish[u] \cup merge'[m].written
           \/ W!Cardinality(wish[u] \cup merge'[m].written) = Cap
  <1>1. W!Insert(m)
    <2>1. ASSUME NEW q \in Merges, NEW d, merge' = [merge EXCEPT ![q] = d]
          PROVE  q = m
      BY <2>1, WishTypes
    <2>2. merge' # merge
      BY DEF wishVars
    <2>3. PICK q \in Merges :
              \/ \E u \in Users, ids \in SUBSET Products : W!MergeWishlist(q, u, ids)
              \/ W!LockUser(q) \/ W!Insert(q) \/ W!Commit(q) \/ W!Fail(q)
      BY <2>2 DEF W!Next, W!DeleteWishlist, W!DeleteProduct, wishVars
    <2>4. q = m
      BY <2>1, <2>3, WishTypes
         DEF W!MergeWishlist, W!LockUser, W!Insert, W!Commit, W!Fail
    <2>5. /\ \A u \in Users, ids \in SUBSET Products : ~W!MergeWishlist(m, u, ids)
          /\ ~W!LockUser(m) /\ ~W!Commit(m)
      BY DEF W!MergeWishlist, W!LockUser, W!Commit
    <2>6. ~W!Fail(m)
      BY WishTypes DEF W!Fail, MergeRow
    <2> QED BY <2>3, <2>4, <2>5, <2>6
  <1> QED BY <1>1, InsertStep, WishSets

-----------------------------------------------------------------------------
(* Coupons: what one edit validated is stored as it was.                   *)

ChangeRow == [at : {"idle", "writing", "done", "invalid", "missing", "duplicate", "refused", "failed"},
              id : Ids \cup {None}, body : C!Bodies \cup {None},
              before : C!Rows \cup {None}, updated : C!Rows \cup {None}]

\* An edit about to write has what it read, changed as it was asked to, and validated;
\* one that the table refused had a limit that no column holds.
ChangeHolds(q) ==
    /\ q.at = "writing" =>
          /\ q.id \in Ids /\ q.body \in C!Bodies /\ q.before \in C!Rows /\ q.updated \in C!Rows
          /\ q.updated = C!ApplyUpdate(q.before, q.body) /\ C!Valid(q.updated)
    /\ q.at = "refused" /\ q.updated # None =>
          q.updated.limit \in C!Limits /\ q.updated.limit > MaxInt4

CouponInv ==
    /\ C!TypeOK
    /\ \A r \in Changes : ChangeHolds(change[r])

LEMMA CouponTypes ==
    ASSUME CouponInv
    PROVE  /\ coupon \in [Ids -> C!Rows \cup {None}] /\ change \in [Changes -> ChangeRow]
           /\ C!Consistent /\ \A r \in Changes : ChangeHolds(change[r])
  BY DEF CouponInv, C!TypeOK, ChangeRow

\* A step of one request, that writes one row or none.
LEMMA CouponInvFromParts ==
    ASSUME CouponInv, NEW r \in Changes, NEW d \in ChangeRow, change' = [change EXCEPT ![r] = d],
           ChangeHolds(d), coupon' \in [Ids -> C!Rows \cup {None}], C!Consistent'
    PROVE  CouponInv'
  <1>1. /\ change' \in [Changes -> ChangeRow] /\ change'[r] = d
        /\ \A q \in Changes \ {r} : change'[q] = change[q]
    BY CouponTypes
  <1>2. \A q \in Changes : ChangeHolds(change'[q])
    BY <1>1, CouponTypes
  <1>3. C!TypeOK'
    BY <1>1 DEF C!TypeOK, ChangeRow
  <1> QED BY <1>2, <1>3 DEF CouponInv

LEMMA UpdatedIsRow ==
    ASSUME NEW before \in C!Rows, NEW b \in C!Bodies
    PROVE  /\ C!ApplyUpdate(before, b) \in C!Rows
           /\ \A f \in C!Fields : b[f] = Omitted => C!ApplyUpdate(before, b)[f] = before[f]
  <1> DEFINE new == C!ApplyUpdate(before, b)
  <1>0. PICK g \in C!Fields :
            b \in {[f \in C!Fields |-> IF f = g THEN v ELSE Omitted] : v \in C!Given[g]}
    BY Zenon DEF C!Bodies
  <1>1. PICK v \in C!Given[g] : b = [f \in C!Fields |-> IF f = g THEN v ELSE Omitted]
    BY <1>0
  <1>2. \A f \in C!Fields : b[f] = Omitted \/ (f = g /\ b[f] = v)
    BY <1>1
  <1>3. new = [f \in C!Fields |-> IF b[f] # Omitted THEN C!Decoded(b[f]) ELSE before[f]]
    BY DEF C!ApplyUpdate
  <1>4. \A f \in C!Fields : new[f] = before[f] \/ (f = g /\ new[f] = C!Decoded(v))
    BY <1>2, <1>3
  <1>5. new = [code |-> new["code"], kind |-> new["kind"], value |-> new["value"],
               limit |-> new["limit"], starts |-> new["starts"], ends |-> new["ends"]]
    <2> HIDE DEF new
    <2> QED BY <1>3 DEF C!Fields
  <1>6. /\ before["code"] \in Codes \cup {Blank} /\ before["kind"] \in C!Kinds
        /\ before["value"] \in C!Values /\ before["limit"] \in C!Limits \cup {None}
        /\ before["starts"] \in C!Dates \cup {None} /\ before["ends"] \in C!Dates \cup {None}
    BY DEF C!Rows
  <1>7. /\ g = "code" => C!Decoded(v) \in Codes \cup {Blank}
        /\ g = "kind" => C!Decoded(v) \in C!Kinds
    BY <1>1, StorefrontAssumption DEF C!CouponsAssumption, C!Given, C!Decoded, C!Kinds
  <1>8. /\ 0 \in C!Values /\ 0 \in C!Limits /\ 0 \in C!Dates /\ 1..2 \subseteq C!Dates
    BY StorefrontAssumption DEF C!CouponsAssumption, C!Values, C!Limits, C!Dates
  <1>9. /\ g = "value" => C!Decoded(v) \in C!Values
        /\ g = "limit" => C!Decoded(v) \in C!Limits \cup {None}
        /\ g = "starts" => C!Decoded(v) \in C!Dates \cup {None}
        /\ g = "ends" => C!Decoded(v) \in C!Dates \cup {None}
    BY <1>1, <1>8 DEF C!Given, C!Decoded
  <1>10. /\ new["code"] \in Codes \cup {Blank} /\ new["kind"] \in C!Kinds
         /\ new["value"] \in C!Values /\ new["limit"] \in C!Limits \cup {None}
         /\ new["starts"] \in C!Dates \cup {None} /\ new["ends"] \in C!Dates \cup {None}
    <2> HIDE DEF new
    <2>1. {"code", "kind", "value", "limit", "starts", "ends"} \subseteq C!Fields
      BY DEF C!Fields
    <2> QED BY <1>4, <1>6, <1>7, <1>9, <2>1
  <1> HIDE DEF new
  <1>11. new \in C!Rows
    BY <1>5, <1>10 DEF C!Rows
  <1>12. \A f \in C!Fields : b[f] = Omitted => new[f] = before[f]
    BY <1>3
  <1> QED BY <1>11, <1>12 DEF new

LEMMA CouponInit == C!Init => CouponInv
  <1> SUFFICES ASSUME C!Init
               PROVE  CouponInv
    OBVIOUS
  <1>1. C!Idle \in ChangeRow /\ C!Idle.at = "idle" /\ ChangeHolds(C!Idle)
    BY DEF C!Idle, ChangeRow, ChangeHolds
  <1>2. change \in [Changes -> ChangeRow] /\ \A r \in Changes : ChangeHolds(change[r])
    BY <1>1 DEF C!Init
  <1>3. coupon \in [Ids -> C!Rows \cup {None}]
    BY DEF C!Init, C!Created
  <1> QED BY <1>2, <1>3 DEF C!Init, CouponInv, C!TypeOK, ChangeRow

\* One INSERT or UPDATE.
LEMMA StoreHolds ==
    ASSUME CouponInv, NEW r \in Changes, NEW i \in Ids, NEW x \in C!Rows, C!Valid(x),
           NEW q \in ChangeRow, q.updated \in {x, None}, C!Store(r, i, x, q)
    PROVE  CouponInv'
  <1> DEFINE result == IF ~C!Storable(x) THEN "refused"
                       ELSE IF \E j \in Ids \ {i} : coupon[j] # None /\ coupon[j].code = x.code
                            THEN "duplicate" ELSE "done"
             d == [q EXCEPT !.at = result]
  <1>1. /\ coupon' = IF result = "done" THEN [coupon EXCEPT ![i] = x] ELSE coupon
        /\ change' = [change EXCEPT ![r] = d]
    BY DEF C!Store
  <1>2. /\ result \in {"refused", "duplicate", "done"}
        /\ result = "refused" => ~C!Storable(x)
        /\ result = "done" =>
              C!Storable(x) /\ \A j \in Ids \ {i} : coupon[j] = None \/ coupon[j].code # x.code
    OBVIOUS
  <1> HIDE DEF result
  <1>3. d \in ChangeRow /\ d.at = result /\ d.updated = q.updated
    BY <1>2 DEF ChangeRow
  <1> HIDE DEF d
  <1>4. ~C!Storable(x) => x.limit \in C!Limits /\ x.limit > MaxInt4
    BY StorefrontAssumption
       DEF C!Storable, C!Valid, C!Rows, C!Kinds, C!Values, C!Limits, C!CouponsAssumption
  <1>5. ChangeHolds(d)
    BY <1>2, <1>3, <1>4 DEF ChangeHolds
  <1>6. coupon' \in [Ids -> C!Rows \cup {None}]
    BY <1>1, CouponTypes
  <1>7. C!Consistent'
    <2>1. CASE result = "done"
      <3>1. coupon'[i] = x /\ \A j \in Ids \ {i} : coupon'[j] = coupon[j]
        BY <1>1, <2>1, CouponTypes
      <3> QED BY <1>2, <2>1, <3>1, CouponTypes DEF C!Consistent
    <2>2. CASE result # "done"
      BY <1>1, <2>2, CouponTypes DEF C!Consistent
    <2> QED BY <2>1, <2>2
  <1> QED BY <1>1, <1>3, <1>5, <1>6, <1>7, CouponInvFromParts

LEMMA CouponStep ==
    ASSUME CouponInv, C!Next \/ UNCHANGED couponVars
    PROVE  CouponInv'
  <1>1. ASSUME NEW r \in Changes, NEW d \in ChangeRow, change' = [change EXCEPT ![r] = d],
               ChangeHolds(d), UNCHANGED coupon
        PROVE  CouponInv'
    <2>1. coupon' \in [Ids -> C!Rows \cup {None}] /\ C!Consistent'
      BY <1>1, CouponTypes DEF C!Consistent
    <2> QED BY <1>1, <2>1, CouponInvFromParts
  <1>2. ASSUME NEW r \in Changes, NEW i \in Ids, C!AdminCreate(r, i)
        PROVE  CouponInv'
    <2>1. PICK x \in C!Created :
              IF C!Valid(x) THEN C!Store(r, i, x, C!Idle)
              ELSE change' = [change EXCEPT ![r].at = "invalid"] /\ UNCHANGED coupon
      BY <1>2 DEF C!AdminCreate
    <2>2. CASE C!Valid(x)
      <3>1. C!Idle \in ChangeRow /\ C!Idle.updated = None /\ x \in C!Rows
        BY DEF C!Idle, ChangeRow, C!Created
      <3> QED BY <2>1, <2>2, <3>1, StoreHolds
    <2>3. CASE ~C!Valid(x)
      <3> DEFINE d == [change[r] EXCEPT !.at = "invalid"]
      <3>1. change' = [change EXCEPT ![r] = d] /\ UNCHANGED coupon
        BY <2>1, <2>3, CouponTypes
      <3>2. d \in ChangeRow /\ d.at = "invalid"
        BY CouponTypes DEF ChangeRow
      <3> HIDE DEF d
      <3> QED BY <1>1, <3>1, <3>2 DEF ChangeHolds
    <2> QED BY <2>2, <2>3
  <1>3. ASSUME NEW r \in Changes, NEW i \in Ids, C!AdminUpdate(r, i)
        PROVE  CouponInv'
    <2> DEFINE before == coupon[i]
               entry(b) == [at |-> "writing", id |-> i, body |-> b, before |-> before,
                            updated |-> C!ApplyUpdate(before, b)]
    <2>1. PICK b \in C!Bodies :
              change' = [change EXCEPT ![r] =
                  IF before = None THEN [C!Idle EXCEPT !.at = "missing"]
                  ELSE IF C!Valid(C!ApplyUpdate(before, b)) THEN entry(b)
                       ELSE [C!Idle EXCEPT !.at = "invalid"]]
      BY <1>3 DEF C!AdminUpdate
    <2>2. UNCHANGED coupon
      BY <1>3 DEF C!AdminUpdate
    <2>3. ASSUME NEW at \in {"missing", "invalid"},
                 change' = [change EXCEPT ![r] = [C!Idle EXCEPT !.at = at]]
          PROVE  CouponInv'
      <3> DEFINE d == [C!Idle EXCEPT !.at = at]
      <3>1. d \in ChangeRow /\ ChangeHolds(d)
        BY DEF C!Idle, ChangeRow, ChangeHolds
      <3> HIDE DEF d
      <3>2. change' = [change EXCEPT ![r] = d]
        BY <2>3 DEF d
      <3> QED BY <1>1, <2>2, <3>1, <3>2
    <2>4. CASE before # None /\ C!Valid(C!ApplyUpdate(before, b))
      <3>1. before \in C!Rows
        BY <2>4, CouponTypes
      <3>2. C!ApplyUpdate(before, b) \in C!Rows
        BY <3>1, UpdatedIsRow
      <3> HIDE DEF before
      <3>3. entry(b) \in ChangeRow
        BY <3>1, <3>2 DEF ChangeRow
      <3>4. ChangeHolds(entry(b))
        BY <2>4, <3>1, <3>2 DEF ChangeHolds
      <3>5. change' = [change EXCEPT ![r] = entry(b)]
        BY <2>1, <2>4
      <3> HIDE DEF entry
      <3> QED BY <1>1, <2>2, <3>3, <3>4, <3>5
    <2>5. CASE before = None \/ ~C!Valid(C!ApplyUpdate(before, b))
      BY <2>1, <2>3, <2>5
    <2> QED BY <2>4, <2>5
  <1>4. ASSUME NEW r \in Changes, C!Update(r)
        PROVE  CouponInv'
    <2>1. /\ change[r].at = "writing" /\ C!Store(r, change[r].id, change[r].updated, change[r])
      BY <1>4 DEF C!Update
    <2>2. /\ change[r] \in ChangeRow /\ change[r].id \in Ids /\ change[r].updated \in C!Rows
          /\ C!Valid(change[r].updated)
      BY <2>1, CouponTypes DEF ChangeHolds
    <2> QED BY <2>1, <2>2, StoreHolds
  <1>5. ASSUME NEW r \in Changes, C!Fail(r)
        PROVE  CouponInv'
    <2> DEFINE d == [change[r] EXCEPT !.at = "failed"]
    <2>1. change' = [change EXCEPT ![r] = d] /\ UNCHANGED coupon
      BY <1>5, CouponTypes DEF C!Fail
    <2>2. d \in ChangeRow /\ d.at = "failed"
      BY CouponTypes DEF ChangeRow
    <2> HIDE DEF d
    <2> QED BY <1>1, <2>1, <2>2 DEF ChangeHolds
  <1>6. CASE UNCHANGED couponVars
    <2>1. C!Consistent'
      BY <1>6, CouponTypes DEF couponVars, C!Consistent
    <2> QED BY <1>6, <2>1, CouponTypes DEF couponVars, CouponInv, C!TypeOK, ChangeRow
  <1> QED BY <1>2, <1>3, <1>4, <1>5, <1>6 DEF C!Next

\* What EditsAreLostInRacesOnly says of a step.
LEMMA FieldsStep ==
    ASSUME CouponInv, C!Next \/ UNCHANGED couponVars, NEW r \in Changes,
           change[r].at = "writing", change'[r].at = "done", change[r].before = coupon[change[r].id],
           NEW f \in C!Fields, change[r].body[f] = Omitted
    PROVE  coupon'[change[r].id][f] = coupon[change[r].id][f]
  <1> DEFINE q == change[r]
  <1>1. C!Update(r)
    <2>1. ASSUME NEW p \in Changes, p # r, NEW d, change' = [change EXCEPT ![p] = d]
          PROVE  FALSE
      BY <2>1, CouponTypes
    <2>2. change' # change
      OBVIOUS
    <2>3. PICK p \in Changes :
              \/ \E i \in Ids : C!AdminCreate(p, i) \/ C!AdminUpdate(p, i)
              \/ C!Update(p) \/ C!Fail(p)
      BY <2>2 DEF C!Next, couponVars
    <2>4. p = r
      BY <2>1, <2>3, CouponTypes DEF C!AdminCreate, C!AdminUpdate, C!Update, C!Fail, C!Store
    <2>5. ~C!Fail(r)
      BY CouponTypes DEF C!Fail, ChangeRow
    <2> QED BY <2>3, <2>4, <2>5 DEF C!AdminCreate, C!AdminUpdate
  <1>2. /\ q \in ChangeRow /\ q.id \in Ids /\ q.body \in C!Bodies /\ q.before \in C!Rows
        /\ q.updated = C!ApplyUpdate(q.before, q.body)
    BY CouponTypes DEF ChangeHolds
  <1>3. coupon' = [coupon EXCEPT ![q.id] = q.updated]
    <2> DEFINE result == IF ~C!Storable(q.updated) THEN "refused"
                         ELSE IF \E j \in Ids \ {q.id} :
                                    coupon[j] # None /\ coupon[j].code = q.updated.code
                              THEN "duplicate" ELSE "done"
    <2>1. /\ coupon' = IF result = "done" THEN [coupon EXCEPT ![q.id] = q.updated] ELSE coupon
          /\ change' = [change EXCEPT ![r] = [q EXCEPT !.at = result]]
      BY <1>1 DEF C!Update, C!Store
    <2> HIDE DEF result
    <2>2. change'[r].at = result
      BY <1>2, <2>1, CouponTypes DEF ChangeRow
    <2> QED BY <2>1, <2>2
  <1>4. q.updated[f] = q.before[f]
    BY <1>2, UpdatedIsRow
  <1> QED BY <1>2, <1>3, <1>4, CouponTypes

-----------------------------------------------------------------------------
(* Images: a clean-up removes what nothing shows, and only that.           *)

SaveRow == [at : {"idle", "writing", "cleaning", "removing"} \cup I!Ended,
            item : I!Items \cup {None}, input : I!Shows \cup {None}, new : BOOLEAN, keep : BOOLEAN,
            before : I!Shows \cup {None}, todo : SUBSET I!Images, image : I!Images \cup {None},
            renamed : BOOLEAN, left : SUBSET I!Images, alone : BOOLEAN]

Busy(q) == q.at \in {"writing", "cleaning", "removing"}

\* The uploads that an item shows.
UploadsIn(s) == ({s.main} \cup s.inside) \cap Keys

ShownIn(items, x) == \E i \in I!Items : items[i] # None /\ x \in {items[i].main} \cup items[i].inside

\* Whatever a request names has been uploaded.
NamesUploads(q, uploads) ==
    /\ Busy(q) => q.item \in I!Items
    /\ q.input # None => UploadsIn(q.input) \subseteq uploads
    /\ q.before # None => UploadsIn(q.before) \subseteq uploads
    /\ q.todo \cap Keys \subseteq uploads
    /\ q.at = "removing" => q.image \in uploads
    /\ q.new => ~q.keep

\* What it is about to remove nothing shows, unless a save has named it since.
FoundUnused(q, items) == q.at = "removing" => ~ShownIn(items, q.image) \/ q.renamed

\* One that runs alone still has to look at each file of its product that nothing shows,
\* but those whose query or removal has failed.
WillTidy(q, items, files) ==
    (q.at \in {"cleaning", "removing"} /\ q.alone /\ q.item \in Pictured /\ q.before # None) =>
        \A x \in UploadsIn(q.before) \cap files :
            \/ x \in q.todo \/ ShownIn(items, x) \/ (q.at = "removing" /\ x = q.image)
            \/ x \in q.left

AloneHolds(saves, r) ==
    saves[r].alone /\ Busy(saves[r]) => \A q \in Saves \ {r} : ~Busy(saves[q])

ImageInv ==
    /\ I!TypeOK
    /\ \A i \in I!Items : item[i] # None => UploadsIn(item[i]) \subseteq given
    /\ \A r \in Saves : /\ NamesUploads(save[r], given) /\ FoundUnused(save[r], item)
                        /\ WillTidy(save[r], item, disk) /\ AloneHolds(save, r)

LEMMA ImageTypes ==
    ASSUME ImageInv
    PROVE  /\ item \in [I!Items -> I!Shows \cup {None}] /\ save \in [Saves -> SaveRow]
           /\ born \in SUBSET I!Items /\ given \in SUBSET Keys /\ disk \in SUBSET given
           /\ released \in SUBSET I!Images
           /\ \A i \in I!Items : item[i] # None => UploadsIn(item[i]) \subseteq given
           /\ \A r \in Saves : /\ NamesUploads(save[r], given) /\ FoundUnused(save[r], item)
                               /\ WillTidy(save[r], item, disk) /\ AloneHolds(save, r)
  BY DEF ImageInv, I!TypeOK, SaveRow

LEMMA ImageNames ==
    /\ None \notin I!Shows /\ None \notin I!Images /\ Keys \subseteq I!Images
    /\ \A s \in I!Shows : s.main \in I!Images \cup {None} /\ s.inside \in SUBSET I!Images
    /\ \A s \in I!Shows, inside \in Insides : [s EXCEPT !.inside = inside] \in I!Shows
  BY StorefrontAssumption DEF I!ImagesAssumption, I!Shows, I!Images

LEMMA ImageInvFromParts ==
    ASSUME item' \in [I!Items -> I!Shows \cup {None}], save' \in [Saves -> SaveRow],
           born' \in SUBSET I!Items, given' \in SUBSET Keys, disk' \in SUBSET given',
           released' \in SUBSET I!Images,
           \A i \in I!Items : item'[i] # None => UploadsIn(item'[i]) \subseteq given',
           \A r \in Saves : /\ NamesUploads(save'[r], given') /\ FoundUnused(save'[r], item')
                            /\ WillTidy(save'[r], item', disk') /\ AloneHolds(save', r)
    PROVE  ImageInv'
  <1>1. \A r \in Saves : save'[r].at = "removing" => save'[r].image \in given'
    BY DEF NamesUploads
  <1>2. I!TypeOK'
    BY <1>1 DEF I!TypeOK, SaveRow
  <1> QED BY <1>2 DEF ImageInv

\* A step of one request that leaves the items, and goes on if it does.
LEMMA SaveMoves ==
    ASSUME ImageInv, NEW r \in Saves, NEW d \in SaveRow, save' = [save EXCEPT ![r] = d],
           UNCHANGED <<item, born, given, released>>, disk' \in SUBSET disk,
           NamesUploads(d, given), FoundUnused(d, item), WillTidy(d, item, disk'),
           Busy(d) => Busy(save[r]) /\ (d.alone => save[r].alone)
    PROVE  ImageInv'
  <1>1. /\ save' \in [Saves -> SaveRow] /\ save'[r] = d
        /\ \A q \in Saves \ {r} : save'[q] = save[q]
    BY ImageTypes
  <1>2. \A q \in Saves : NamesUploads(save'[q], given') /\ FoundUnused(save'[q], item')
    BY <1>1, ImageTypes
  <1>3. \A q \in Saves : WillTidy(save[q], item, disk')
    BY ImageTypes DEF WillTidy
  <1>4. \A q \in Saves : WillTidy(save'[q], item', disk')
    BY <1>1, <1>3
  <1>5. \A q \in Saves : Busy(save'[q]) => Busy(save[q]) /\ (save'[q].alone => save[q].alone)
    BY <1>1
  <1>6. \A q \in Saves : AloneHolds(save', q)
    BY <1>5, ImageTypes DEF AloneHolds
  <1>7. /\ item' \in [I!Items -> I!Shows \cup {None}] /\ born' \in SUBSET I!Items
        /\ given' \in SUBSET Keys /\ disk' \in SUBSET given' /\ released' \in SUBSET I!Images
        /\ \A i \in I!Items : item'[i] # None => UploadsIn(item'[i]) \subseteq given'
    BY ImageTypes
  <1> QED BY <1>1, <1>2, <1>4, <1>6, <1>7, ImageInvFromParts

LEMMA IdleRow ==
    ASSUME NEW at \in I!Ended, NEW d \in {I!Idle, [I!Idle EXCEPT !.at = at]},
           NEW uploads, NEW items, NEW files
    PROVE  /\ d \in SaveRow /\ ~Busy(d)
           /\ NamesUploads(d, uploads) /\ FoundUnused(d, items) /\ WillTidy(d, items, files)
  <1>1. /\ d \in SaveRow /\ d.at \in {"idle", at} /\ d.input = None /\ d.before = None
        /\ d.todo = {} /\ d.new = FALSE
    <2>1. CASE d = I!Idle
      BY <2>1 DEF I!Idle, SaveRow
    <2>2. CASE d = [I!Idle EXCEPT !.at = at]
      BY <2>2 DEF I!Idle, SaveRow
    <2> QED BY <2>1, <2>2
  <1>2. d.at \notin {"writing", "cleaning", "removing"}
    BY <1>1 DEF I!Ended
  <1> QED BY <1>1, <1>2 DEF NamesUploads, FoundUnused, WillTidy, Busy

LEMMA ImageInit == I!Init => ImageInv
  <1> SUFFICES ASSUME I!Init
               PROVE  ImageInv
    OBVIOUS
  <1>1. "done" \in I!Ended
    BY DEF I!Ended
  <1>2. /\ I!Idle \in SaveRow /\ ~Busy(I!Idle)
        /\ NamesUploads(I!Idle, given) /\ FoundUnused(I!Idle, item) /\ WillTidy(I!Idle, item, disk)
    BY <1>1, IdleRow
  <1>3. save \in [Saves -> SaveRow] /\ \A r \in Saves : save[r] = I!Idle
    BY <1>2 DEF I!Init
  <1>4. /\ given \in SUBSET Keys /\ disk = given /\ born \in SUBSET I!Items
        /\ released \in SUBSET I!Images
        /\ item \in [I!Items -> {s \in I!Shows : UploadsIn(s) \subseteq given} \cup {None}]
    BY DEF I!Init, UploadsIn
  <1>5. /\ item \in [I!Items -> I!Shows \cup {None}]
        /\ \A i \in I!Items : item[i] # None => UploadsIn(item[i]) \subseteq given
    BY <1>4
  <1>6. \A r \in Saves : save[r].at # "removing"
    BY <1>2, <1>3 DEF Busy
  <1>7. I!TypeOK
    BY <1>3, <1>4, <1>5, <1>6 DEF I!TypeOK, SaveRow
  <1>8. \A r \in Saves : AloneHolds(save, r)
    BY <1>2, <1>3 DEF AloneHolds
  <1> QED BY <1>2, <1>3, <1>5, <1>7, <1>8 DEF ImageInv

LEMMA UploadStep ==
    ASSUME ImageInv, NEW k \in Keys, I!Upload(k)
    PROVE  ImageInv'
  <1>1. /\ k \notin given /\ given' = given \cup {k} /\ disk' = disk \cup {k}
        /\ UNCHANGED <<item, born, released, save>>
    BY DEF I!Upload
  <1>2. \A i \in I!Items : item[i] # None => UploadsIn(item[i]) \subseteq given'
    BY <1>1, ImageTypes
  <1>3. ASSUME NEW r \in Saves
        PROVE  NamesUploads(save[r], given') /\ WillTidy(save[r], item, disk')
    <2>1. NamesUploads(save[r], given) /\ WillTidy(save[r], item, disk)
      BY ImageTypes
    <2>2. NamesUploads(save[r], given')
      BY <1>1, <2>1 DEF NamesUploads
    <2>3. save[r].before # None => k \notin UploadsIn(save[r].before)
      BY <1>1, <2>1 DEF NamesUploads
    <2> QED BY <1>1, <2>1, <2>2, <2>3 DEF WillTidy
  <1>4. given' \in SUBSET Keys /\ disk' \in SUBSET given'
    BY <1>1, ImageTypes
  <1> QED BY <1>1, <1>2, <1>3, <1>4, ImageTypes, ImageInvFromParts

\* A request begins with what an upload has been given for.
LEMMA BeginSaveStep ==
    ASSUME ImageInv, NEW r \in I!Waiting, NEW i \in I!Items, NEW start \in SaveRow,
           I!Begin(r, i, start), born' \in SUBSET I!Items,
           start.input # None => UploadsIn(start.input) \subseteq given,
           start.before # None => UploadsIn(start.before) \subseteq given,
           start.todo = {}, start.new => ~start.keep
    PROVE  ImageInv'
  <1> DEFINE alone == \A q \in Saves \ {r} : ~I!Active(q)
             d == [start EXCEPT !.at = "writing", !.item = i, !.alone = alone]
             e(q) == [save[q] EXCEPT !.alone = FALSE]
  <1>1. /\ save' = [q \in Saves |-> IF q = r THEN d ELSE IF I!Active(q) THEN e(q) ELSE save[q]]
        /\ UNCHANGED <<item, given, disk, released>>
    BY DEF I!Begin
  <1>2. r \in Saves /\ ~Busy(save[r]) /\ \A q \in Saves : I!Active(q) <=> Busy(save[q])
    BY ImageTypes DEF I!Waiting, I!Active, I!Ended, Busy, SaveRow
  <1>3. /\ d \in SaveRow /\ d.at = "writing" /\ d.item = i /\ d.alone = alone
        /\ d.input = start.input /\ d.before = start.before /\ d.todo = {} /\ d.new = start.new
        /\ d.keep = start.keep
    <2> HIDE DEF alone
    <2>1. alone \in BOOLEAN
      BY DEF alone
    <2> QED BY <2>1 DEF SaveRow
  <1>4. alone <=> \A q \in Saves \ {r} : ~Busy(save[q])
    BY <1>2
  <1> HIDE DEF alone, d
  <1>5. NamesUploads(d, given) /\ FoundUnused(d, item) /\ WillTidy(d, item, disk)
    BY <1>3 DEF NamesUploads, FoundUnused, WillTidy, Busy
  <1>6. ASSUME NEW q \in Saves
        PROVE  /\ e(q) \in SaveRow /\ NamesUploads(e(q), given) /\ FoundUnused(e(q), item)
               /\ WillTidy(e(q), item, disk) /\ e(q).alone = FALSE /\ e(q).at = save[q].at
    <2>1. NamesUploads(save[q], given) /\ FoundUnused(save[q], item) /\ save[q] \in SaveRow
      BY ImageTypes
    <2>2. /\ e(q) \in SaveRow /\ e(q).at = save[q].at /\ e(q).alone = FALSE
          /\ e(q).input = save[q].input /\ e(q).before = save[q].before /\ e(q).todo = save[q].todo
          /\ e(q).new = save[q].new /\ e(q).keep = save[q].keep /\ e(q).item = save[q].item
          /\ e(q).image = save[q].image /\ e(q).renamed = save[q].renamed
          /\ e(q).left = save[q].left
      <3> DEFINE p == save[q]
                 g == e(q)
      <3>1. p \in SaveRow /\ g = [p EXCEPT !.alone = FALSE]
        BY <2>1
      <3> HIDE DEF p, g
      <3>2. /\ g \in SaveRow /\ g.at = p.at /\ g.alone = FALSE
            /\ g.input = p.input /\ g.before = p.before /\ g.todo = p.todo
        BY <3>1 DEF SaveRow
      <3>3. /\ g.new = p.new /\ g.keep = p.keep /\ g.item = p.item
            /\ g.image = p.image /\ g.renamed = p.renamed /\ g.left = p.left
        BY <3>1 DEF SaveRow
      <3> QED BY <3>2, <3>3 DEF p, g
    <2> HIDE DEF e
    <2> QED BY <2>1, <2>2 DEF NamesUploads, FoundUnused, WillTidy, Busy
  <1> HIDE DEF e
  <1>7. /\ save' \in [Saves -> SaveRow] /\ save'[r] = d
        /\ \A q \in Saves \ {r} : \/ Busy(save[q]) /\ save'[q] = e(q)
                                  \/ ~Busy(save[q]) /\ save'[q] = save[q]
    BY <1>1, <1>2, <1>3, <1>6, ImageTypes
  <1>8. \A q \in Saves : /\ NamesUploads(save'[q], given') /\ FoundUnused(save'[q], item')
                         /\ WillTidy(save'[q], item', disk')
    BY <1>1, <1>5, <1>6, <1>7, ImageTypes
  <1>9. \A q \in Saves \ {r} : (Busy(save'[q]) <=> Busy(save[q])) /\ (Busy(save[q]) => ~save'[q].alone)
    BY <1>6, <1>7 DEF Busy
  <1>10. \A q \in Saves : AloneHolds(save', q)
    BY <1>3, <1>4, <1>7, <1>9 DEF AloneHolds
  <1> QED BY <1>1, <1>7, <1>8, <1>10, ImageTypes, ImageInvFromParts

LEMMA WriteSaveStep ==
    ASSUME ImageInv, NEW r \in Saves, I!Write(r)
    PROVE  ImageInv'
  <1> DEFINE p == save[r]
             i == p.item
             input == p.input
             after == IF input # None /\ p.keep THEN [input EXCEPT !.inside = item[i].inside]
                      ELSE input
             d == [p EXCEPT !.at = "cleaning", !.todo = I!Todo(r)]
             names(q) == /\ input # None /\ save[q].at = "removing"
                         /\ save[q].image \in {after.main} \cup after.inside
             e(q) == [save[q] EXCEPT !.renamed = save[q].renamed \/ names(q)]
  <1>1. /\ p.at = "writing" /\ p \in SaveRow /\ i \in I!Items /\ Busy(p) /\ UNCHANGED <<born, given, disk>>
        /\ NamesUploads(p, given)
    BY ImageTypes DEF I!Write, Busy, NamesUploads
  <1>2. CASE item[i] = None /\ ~p.new
    <2> DEFINE f == [I!Idle EXCEPT !.at = "missing"]
    <2>1. save' = [save EXCEPT ![r] = f] /\ UNCHANGED <<item, released>>
      BY <1>2 DEF I!Write
    <2>2. "missing" \in I!Ended
      BY DEF I!Ended
    <2>3. /\ f \in SaveRow /\ ~Busy(f)
          /\ NamesUploads(f, given) /\ FoundUnused(f, item) /\ WillTidy(f, item, disk)
      BY <2>2, IdleRow
    <2> HIDE DEF f
    <2> QED BY <1>1, <2>1, <2>3, SaveMoves
  <1>3. CASE item[i] # None \/ p.new
    <2>1. /\ item' = [item EXCEPT ![i] = after]
          /\ save' = [q \in Saves |-> IF q = r THEN d ELSE e(q)]
          /\ released' \in SUBSET I!Images
      BY <1>3, ImageTypes DEF I!Write
    <2>2. /\ input = None => after = None
          /\ input # None => /\ after \in I!Shows /\ after # None /\ after.main = input.main
                             /\ UploadsIn(after) \subseteq given
      <3>1. CASE input # None /\ p.keep
        <4>1. item[i] # None /\ item[i] \in I!Shows /\ UploadsIn(item[i]) \subseteq given
          BY <1>1, <1>3, <3>1, ImageTypes DEF NamesUploads, SaveRow
        <4>2. input \in I!Shows /\ item[i].inside \in Insides /\ UploadsIn(input) \subseteq given
          BY <1>1, <3>1, <4>1 DEF NamesUploads, SaveRow, I!Shows
        <4>3. after = [input EXCEPT !.inside = item[i].inside]
          BY <3>1
        <4>4. after \in I!Shows /\ after.main = input.main /\ after.inside = item[i].inside
          <5> HIDE DEF input, i
          <5> QED BY <4>2, <4>3 DEF I!Shows
        <4> HIDE DEF after
        <4> QED BY <3>1, <4>1, <4>2, <4>4, ImageNames DEF UploadsIn
      <3>2. CASE input # None /\ ~p.keep
        <4>1. after = input /\ input \in I!Shows /\ UploadsIn(input) \subseteq given
          BY <1>1, <3>2 DEF NamesUploads, SaveRow
        <4> QED BY <3>2, <4>1
      <3>3. CASE input = None
        BY <3>3
      <3> QED BY <3>1, <3>2, <3>3
    <2> HIDE DEF after
    <2>3. /\ item' \in [I!Items -> I!Shows \cup {None}] /\ item'[i] = after
          /\ \A j \in I!Items \ {i} : item'[j] = item[j]
      BY <1>1, <2>1, <2>2, ImageTypes
    <2>4. \A j \in I!Items : item'[j] # None => UploadsIn(item'[j]) \subseteq given'
      BY <1>1, <2>2, <2>3, ImageTypes
    <2>5. \A x : ShownIn(item', x) => \/ ShownIn(item, x)
                                      \/ input # None /\ x \in {after.main} \cup after.inside
      BY <2>2, <2>3 DEF ShownIn
    <2>6. /\ d \in SaveRow /\ NamesUploads(d, given') /\ FoundUnused(d, item')
          /\ WillTidy(d, item', disk') /\ d.at = "cleaning" /\ d.alone = p.alone
      <3> DEFINE todo == I!Todo(r)
      <3>1. todo = IF p.before = None THEN {}
                   ELSE ({p.before.main} \ IF input = None THEN {None} ELSE {None, input.main})
                        \cup IF i \in Pictured THEN p.before.inside ELSE {}
        BY DEF I!Todo
      <3> HIDE DEF todo
      <3>2. p.before # None => /\ p.before \in I!Shows /\ p.before.main \in I!Images \cup {None}
                               /\ p.before.inside \in SUBSET I!Images
                               /\ UploadsIn(p.before) \subseteq given
        BY <1>1, ImageNames DEF SaveRow, NamesUploads
      <3>3. todo \in SUBSET I!Images /\ todo \cap Keys \subseteq given
        BY <3>1, <3>2 DEF UploadsIn
      <3>4. /\ d \in SaveRow /\ d.at = "cleaning" /\ d.todo = todo /\ d.alone = p.alone
            /\ d.item = i /\ d.input = input /\ d.before = p.before /\ d.new = p.new /\ d.keep = p.keep
        <4>1. d = [p EXCEPT !.at = "cleaning", !.todo = todo]
          BY DEF todo
        <4> HIDE DEF d, p
        <4> QED BY <1>1, <3>3, <4>1 DEF SaveRow
      <3> HIDE DEF d
      <3>5. NamesUploads(d, given') /\ FoundUnused(d, item')
        BY <1>1, <3>3, <3>4 DEF NamesUploads, FoundUnused
      <3>6. ASSUME d.item \in Pictured, d.before # None, NEW x \in UploadsIn(d.before) \cap disk'
            PROVE  x \in d.todo \/ ShownIn(item', x)
        <4>1. x \in Keys /\ x # None /\ x \in {p.before.main} \cup p.before.inside
          BY <3>4, <3>6, ImageNames DEF UploadsIn
        <4>2. CASE x \in todo
          BY <3>4, <4>2
        <4>3. CASE x \notin todo
          <5>1. input # None /\ x = input.main
            BY <3>1, <3>4, <3>6, <4>1, <4>3
          <5> QED BY <1>1, <2>2, <2>3, <5>1 DEF ShownIn
        <4> QED BY <4>2, <4>3
      <3>7. WillTidy(d, item', disk')
        BY <3>6 DEF WillTidy
      <3> QED BY <3>4, <3>5, <3>7
    <2> HIDE DEF d
    <2>7. ASSUME NEW q \in Saves \ {r}
          PROVE  /\ e(q) \in SaveRow /\ NamesUploads(e(q), given') /\ FoundUnused(e(q), item')
                 /\ WillTidy(e(q), item', disk') /\ e(q).alone = save[q].alone /\ e(q).at = save[q].at
      <3>1. /\ NamesUploads(save[q], given) /\ FoundUnused(save[q], item) /\ save[q] \in SaveRow
            /\ AloneHolds(save, q)
        BY ImageTypes
      <3>2. /\ e(q) \in SaveRow /\ e(q).at = save[q].at /\ e(q).alone = save[q].alone
            /\ e(q).input = save[q].input /\ e(q).before = save[q].before /\ e(q).todo = save[q].todo
            /\ e(q).new = save[q].new /\ e(q).keep = save[q].keep /\ e(q).item = save[q].item
            /\ e(q).image = save[q].image /\ e(q).renamed = (save[q].renamed \/ names(q))
        <4> DEFINE b == save[q].renamed \/ names(q)
        <4>1. b \in BOOLEAN
          OBVIOUS
        <4> HIDE DEF b, names
        <4>2. e(q) = [save[q] EXCEPT !.renamed = b]
          BY DEF b
        <4> HIDE DEF e
        <4>3. /\ e(q) \in SaveRow /\ e(q).at = save[q].at /\ e(q).alone = save[q].alone
              /\ e(q).input = save[q].input /\ e(q).before = save[q].before
              /\ e(q).todo = save[q].todo /\ e(q).new = save[q].new /\ e(q).keep = save[q].keep
              /\ e(q).item = save[q].item /\ e(q).image = save[q].image /\ e(q).renamed = b
          BY <3>1, <4>1, <4>2 DEF SaveRow
        <4> QED BY <4>3 DEF b
      <3> HIDE DEF e
      <3>3. NamesUploads(e(q), given')
        BY <1>1, <3>1, <3>2 DEF NamesUploads, Busy
      <3>4. FoundUnused(e(q), item')
        <4>1. SUFFICES ASSUME e(q).at = "removing", ShownIn(item', e(q).image)
                       PROVE  e(q).renamed
          BY DEF FoundUnused
        <4>2. CASE ShownIn(item, save[q].image)
          <5>1. save[q].renamed
            BY <3>1, <3>2, <4>1, <4>2 DEF FoundUnused
          <5> QED BY <3>2, <5>1
        <4>3. CASE ~ShownIn(item, save[q].image)
          <5>1. input # None /\ save[q].image \in {after.main} \cup after.inside
            BY <2>5, <3>2, <4>1, <4>3
          <5>2. names(q)
            BY <3>2, <4>1, <5>1
          <5> QED BY <3>2, <5>2
        <4> QED BY <4>2, <4>3
      <3>5. ~(e(q).alone /\ e(q).at \in {"cleaning", "removing"})
        BY <1>1, <3>1, <3>2 DEF AloneHolds, Busy
      <3>6. WillTidy(e(q), item', disk')
        BY <3>5 DEF WillTidy
      <3> QED BY <3>2, <3>3, <3>4, <3>6
    <2> HIDE DEF e
    <2>8. /\ save' \in [Saves -> SaveRow] /\ save'[r] = d
          /\ \A q \in Saves \ {r} : save'[q] = e(q)
      BY <2>1, <2>6, <2>7
    <2>9. \A q \in Saves : /\ NamesUploads(save'[q], given') /\ FoundUnused(save'[q], item')
                           /\ WillTidy(save'[q], item', disk')
      BY <2>6, <2>7, <2>8
    <2>10. \A q \in Saves : save'[q].alone = save[q].alone /\ (Busy(save'[q]) <=> Busy(save[q]))
      BY <1>1, <2>6, <2>7, <2>8 DEF Busy
    <2>11. \A q \in Saves : AloneHolds(save', q)
      BY <2>10, ImageTypes DEF AloneHolds
    <2>12. released' \in SUBSET I!Images
      BY <2>1
    <2> QED BY <1>1, <2>3, <2>4, <2>8, <2>9, <2>11, <2>12, ImageTypes, ImageInvFromParts
  <1> QED BY <1>2, <1>3

LEMMA LookAtStep ==
    ASSUME ImageInv, NEW r \in Saves, NEW x \in I!Images, NEW answered \in BOOLEAN,
           I!LookAt(r, x, answered)
    PROVE  ImageInv'
  <1> DEFINE p == save[r]
             todo == p.todo \ {x}
             left == IF x \in Keys /\ ~answered THEN p.left \cup {x} ELSE p.left
  <1>1. /\ p.at = "cleaning" /\ x \in p.todo /\ p \in SaveRow /\ NamesUploads(p, given)
        /\ WillTidy(p, item, disk) /\ UNCHANGED <<item, born, given, disk, released>>
        /\ todo \in SUBSET I!Images /\ left \in SUBSET I!Images /\ p.left \subseteq left
    BY ImageTypes DEF I!LookAt, SaveRow
  <1>2. I!Referenced(x) <=> ShownIn(item, x)
    BY DEF I!Referenced, ShownIn
  <1>3. CASE x \in Keys /\ answered /\ ~ShownIn(item, x)
    <2> DEFINE d == [p EXCEPT !.at = "removing", !.image = x, !.todo = todo]
    <2>1. save' = [save EXCEPT ![r] = d]
      BY <1>2, <1>3, ImageTypes DEF I!LookAt
    <2>2. /\ d \in SaveRow /\ d.at = "removing" /\ d.image = x /\ d.todo = todo /\ d.left = p.left
          /\ d.item = p.item /\ d.input = p.input /\ d.before = p.before /\ d.new = p.new
          /\ d.keep = p.keep /\ d.alone = p.alone
      <3> HIDE DEF todo, p
      <3> QED BY <1>1 DEF SaveRow
    <2> HIDE DEF d
    <2>3. NamesUploads(d, given) /\ FoundUnused(d, item)
      BY <1>1, <1>3, <2>2 DEF NamesUploads, FoundUnused, Busy
    <2>4. WillTidy(d, item, disk')
      BY <1>1, <2>2 DEF WillTidy
    <2>5. Busy(p) /\ (d.alone => p.alone)
      BY <1>1, <2>2 DEF Busy
    <2> QED BY <1>1, <2>1, <2>2, <2>3, <2>4, <2>5, SaveMoves
  <1>4. CASE ~(x \in Keys /\ answered /\ ~ShownIn(item, x))
    <2> DEFINE d == [p EXCEPT !.todo = todo, !.left = left]
    <2>1. save' = [save EXCEPT ![r] = d]
      BY <1>2, <1>4, ImageTypes DEF I!LookAt
    <2>2. /\ d \in SaveRow /\ d.at = "cleaning" /\ d.todo = todo /\ d.left = left
          /\ d.item = p.item /\ d.input = p.input /\ d.before = p.before /\ d.new = p.new
          /\ d.keep = p.keep /\ d.alone = p.alone
      <3> HIDE DEF todo, left, p
      <3> QED BY <1>1 DEF SaveRow
    <2> HIDE DEF d
    <2>3. NamesUploads(d, given) /\ FoundUnused(d, item)
      BY <1>1, <2>2 DEF NamesUploads, FoundUnused, Busy
    <2>4. WillTidy(d, item, disk')
      BY <1>1, <1>4, <2>2 DEF WillTidy, UploadsIn
    <2>5. Busy(p) /\ (d.alone => p.alone)
      BY <1>1, <2>2 DEF Busy
    <2> QED BY <1>1, <2>1, <2>2, <2>3, <2>4, <2>5, SaveMoves
  <1> QED BY <1>3, <1>4

LEMMA ImageStep ==
    ASSUME ImageInv, I!Next \/ UNCHANGED imageVars
    PROVE  ImageInv'
  <1>1. ASSUME NEW r \in I!Waiting, NEW i \in I!Items, NEW main \in I!Images \cup {None},
               NEW inside \in Insides, I!Create(r, i, main, inside)
        PROVE  ImageInv'
    <2> DEFINE input == [main |-> main, inside |-> inside]
               start == [I!Idle EXCEPT !.input = input, !.new = TRUE]
    <2>1. I!Begin(r, i, start) /\ born' = born \cup {i}
      BY <1>1 DEF I!Create
    <2>2. input \in I!Shows /\ UploadsIn(input) \subseteq given
      BY <1>1 DEF I!Create, I!Input, I!Shows, UploadsIn
    <2> HIDE DEF input
    <2>3. /\ start \in SaveRow /\ start.input = input /\ start.before = None /\ start.todo = {}
          /\ start.keep = FALSE
      BY <2>2 DEF I!Idle, SaveRow
    <2> HIDE DEF start
    <2>4. born' \in SUBSET I!Items
      BY <2>1, ImageTypes
    <2> QED BY <2>1, <2>2, <2>3, <2>4, BeginSaveStep
  <1>2. ASSUME NEW r \in I!Waiting, NEW i \in I!Items, NEW main \in I!Images \cup {None},
               NEW inside \in Insides, NEW keep \in BOOLEAN, NEW read \in BOOLEAN,
               I!Update(r, i, main, inside, keep, read)
        PROVE  ImageInv'
    <2> DEFINE input == [main |-> main, inside |-> inside]
               before == IF read THEN item[i] ELSE None
               start == [I!Idle EXCEPT !.input = input, !.keep = keep, !.before = before]
    <2>1. I!Begin(r, i, start) /\ UNCHANGED born
      BY <1>2 DEF I!Update
    <2>2. input \in I!Shows /\ UploadsIn(input) \subseteq given
      BY <1>2 DEF I!Update, I!Input, I!Shows, UploadsIn
    <2>3. before \in I!Shows \cup {None} /\ (before # None => UploadsIn(before) \subseteq given)
      BY ImageTypes
    <2> HIDE DEF input, before
    <2>4. /\ start \in SaveRow /\ start.input = input /\ start.before = before /\ start.todo = {}
          /\ start.new = FALSE
      BY <2>2, <2>3 DEF I!Idle, SaveRow
    <2> HIDE DEF start
    <2>5. born' \in SUBSET I!Items
      BY <2>1, ImageTypes
    <2> QED BY <2>1, <2>2, <2>3, <2>4, <2>5, BeginSaveStep
  <1>3. ASSUME NEW r \in I!Waiting, NEW i \in I!Items, NEW read \in BOOLEAN, I!Delete(r, i, read)
        PROVE  ImageInv'
    <2> DEFINE before == IF read THEN item[i] ELSE None
               start == [I!Idle EXCEPT !.before = before]
    <2>1. I!Begin(r, i, start) /\ UNCHANGED born
      BY <1>3 DEF I!Delete
    <2>2. before \in I!Shows \cup {None} /\ (before # None => UploadsIn(before) \subseteq given)
      BY ImageTypes
    <2> HIDE DEF before
    <2>3. /\ start \in SaveRow /\ start.input = None /\ start.before = before /\ start.todo = {}
          /\ start.new = FALSE
      BY <2>2 DEF I!Idle, SaveRow
    <2> HIDE DEF start
    <2>4. born' \in SUBSET I!Items
      BY <2>1, ImageTypes
    <2> QED BY <2>1, <2>2, <2>3, <2>4, BeginSaveStep
  <1>4. ASSUME NEW r \in Saves, NEW removed \in BOOLEAN, I!Remove(r, removed)
        PROVE  ImageInv'
    <2> DEFINE left == IF removed THEN save[r].left ELSE save[r].left \cup {save[r].image}
               d == [save[r] EXCEPT !.at = "cleaning", !.image = None, !.renamed = FALSE,
                                    !.left = left]
    <2>1. /\ save[r].at = "removing" /\ save[r] \in SaveRow /\ save' = [save EXCEPT ![r] = d]
          /\ disk' = IF removed THEN disk \ {save[r].image} ELSE disk
          /\ UNCHANGED <<item, born, given, released>>
          /\ NamesUploads(save[r], given) /\ WillTidy(save[r], item, disk)
      BY <1>4, ImageTypes DEF I!Remove
    <2>2. left \in SUBSET I!Images
      BY <2>1, ImageTypes, ImageNames DEF SaveRow, NamesUploads
    <2>3. /\ save[r].left \subseteq left
          /\ \A x \in disk' : x # save[r].image \/ x \in left
      BY <2>1
    <2> HIDE DEF left
    <2>4. /\ d \in SaveRow /\ d.at = "cleaning" /\ d.todo = save[r].todo /\ d.left = left
          /\ d.item = save[r].item /\ d.input = save[r].input /\ d.before = save[r].before
          /\ d.new = save[r].new /\ d.keep = save[r].keep /\ d.alone = save[r].alone
      BY <2>1, <2>2 DEF SaveRow
    <2> HIDE DEF d
    <2>5. NamesUploads(d, given) /\ FoundUnused(d, item)
      BY <2>1, <2>4 DEF NamesUploads, FoundUnused, Busy
    <2>6. WillTidy(d, item, disk')
      BY <2>1, <2>4, <2>3 DEF WillTidy
    <2>7. Busy(save[r]) /\ (d.alone => save[r].alone) /\ disk' \in SUBSET disk
      BY <2>1, <2>4 DEF Busy
    <2> QED BY <2>1, <2>4, <2>5, <2>6, <2>7, SaveMoves
  <1>5. ASSUME NEW r \in Saves, I!Answer(r) \/ I!Fail(r)
        PROVE  ImageInv'
    <2>1. PICK at \in I!Ended : save' = [save EXCEPT ![r] = [I!Idle EXCEPT !.at = at]]
      BY <1>5 DEF I!Answer, I!Fail, I!Ended
    <2>2. UNCHANGED <<item, born, given, disk, released>>
      BY <1>5 DEF I!Answer, I!Fail
    <2> DEFINE d == [I!Idle EXCEPT !.at = at]
    <2>3. /\ d \in SaveRow /\ ~Busy(d)
          /\ NamesUploads(d, given) /\ FoundUnused(d, item) /\ WillTidy(d, item, disk)
      BY IdleRow
    <2> HIDE DEF d
    <2>4. save' = [save EXCEPT ![r] = d]
      BY <2>1 DEF d
    <2> QED BY <2>2, <2>3, <2>4, SaveMoves
  <1>6. CASE UNCHANGED imageVars
    BY <1>6, ImageTypes, ImageInvFromParts DEF imageVars
  <1>7. CASE \E k \in Keys : I!Upload(k)
    BY <1>7, UploadStep
  <1>8. CASE \E r \in I!Waiting, i \in I!Items :
                \/ \E main \in I!Images \cup {None}, inside \in Insides :
                      \/ I!Create(r, i, main, inside)
                      \/ \E keep, read \in BOOLEAN : I!Update(r, i, main, inside, keep, read)
                \/ \E read \in BOOLEAN : I!Delete(r, i, read)
    BY <1>1, <1>2, <1>3, <1>8
  <1>9. CASE \E r \in Saves : \/ I!Write(r) \/ I!Answer(r) \/ I!Fail(r)
                              \/ \E x \in I!Images, answered \in BOOLEAN : I!LookAt(r, x, answered)
                              \/ \E removed \in BOOLEAN : I!Remove(r, removed)
    BY <1>4, <1>5, <1>9, WriteSaveStep, LookAtStep
  <1> QED BY <1>6, <1>7, <1>8, <1>9 DEF I!Next

\* Whatever a request has yet to look at or to remove, something shows or has been
\* released; and at the removal it has been released.
OnceShown(q, items, gone) ==
    /\ q.before # None => \A x \in UploadsIn(q.before) : ShownIn(items, x) \/ x \in gone
    /\ \A x \in q.todo \cap Keys : ShownIn(items, x) \/ x \in gone
    /\ q.at = "removing" => q.image \in gone

KeptInv ==
    /\ given \ disk \subseteq released
    /\ \A r \in Saves : OnceShown(save[r], item, released)

LEMMA IdleClaimsNothing ==
    ASSUME NEW at \in I!Ended, NEW d \in {I!Idle, [I!Idle EXCEPT !.at = at]}, NEW items, NEW gone
    PROVE  OnceShown(d, items, gone)
  <1>1. /\ d \in SaveRow /\ ~Busy(d)
    BY IdleRow
  <1>2. d.before = None /\ d.todo = {}
    <2>1. CASE d = I!Idle
      BY <2>1 DEF I!Idle
    <2>2. CASE d = [I!Idle EXCEPT !.at = at]
      BY <2>2 DEF I!Idle
    <2> QED BY <2>1, <2>2
  <1> QED BY <1>1, <1>2 DEF OnceShown, Busy

\* A step of one request that leaves the items and what has been released.
LEMMA KeptMoves ==
    ASSUME ImageInv, KeptInv, NEW r \in Saves, NEW d, save' = [save EXCEPT ![r] = d],
           UNCHANGED <<item, given, released>>, given \ disk' \subseteq released,
           OnceShown(d, item, released)
    PROVE  KeptInv'
  <1>1. save'[r] = d /\ \A q \in Saves \ {r} : save'[q] = save[q]
    BY ImageTypes
  <1>2. \A q \in Saves : OnceShown(save'[q], item', released')
    BY <1>1 DEF KeptInv
  <1> QED BY <1>2 DEF KeptInv

\* What a write takes away from the last item that showed it is released.
LEMMA StillClaimed ==
    ASSUME NEW x \in I!Images,
           released' = released \cup {y \in I!Images : I!Shown(y) /\ ~I!Shown(y)'},
           ShownIn(item, x) \/ x \in released
    PROVE  ShownIn(item', x) \/ x \in released'
  <1>1. I!Shown(x) <=> ShownIn(item, x)
    BY DEF I!Shown, ShownIn
  <1>2. I!Shown(x)' <=> ShownIn(item', x)
    BY DEF I!Shown, ShownIn
  <1> QED BY <1>1, <1>2

LEMMA KeptBegin ==
    ASSUME ImageInv, KeptInv, NEW r \in I!Waiting, NEW i \in I!Items, NEW start \in SaveRow,
           I!Begin(r, i, start), start.todo = {}, start.before \in {None, item[i]}
    PROVE  KeptInv'
  <1> DEFINE alone == \A q \in Saves \ {r} : ~I!Active(q)
             d == [start EXCEPT !.at = "writing", !.item = i, !.alone = alone]
             e(q) == [save[q] EXCEPT !.alone = FALSE]
  <1>1. /\ save' = [q \in Saves |-> IF q = r THEN d ELSE IF I!Active(q) THEN e(q) ELSE save[q]]
        /\ UNCHANGED <<item, given, disk, released>>
    BY DEF I!Begin
  <1>2. d.at = "writing" /\ d.before = start.before /\ d.todo = {}
    <2> HIDE DEF alone
    <2> QED BY DEF SaveRow
  <1> HIDE DEF alone, d
  <1>3. OnceShown(d, item, released)
    BY <1>2 DEF OnceShown, UploadsIn, ShownIn
  <1>4. ASSUME NEW q \in Saves
        PROVE  OnceShown(e(q), item, released)
    <2>1. OnceShown(save[q], item, released) /\ save[q] \in SaveRow
      BY ImageTypes DEF KeptInv
    <2>2. /\ e(q).at = save[q].at /\ e(q).before = save[q].before /\ e(q).todo = save[q].todo
          /\ e(q).image = save[q].image
      BY <2>1 DEF SaveRow
    <2> HIDE DEF e
    <2> QED BY <2>1, <2>2 DEF OnceShown
  <1> HIDE DEF e
  <1>5. \A q \in Saves : save'[q] \in {d, e(q), save[q]}
    BY <1>1
  <1>6. \A q \in Saves : OnceShown(save'[q], item', released')
    BY <1>1, <1>3, <1>4, <1>5 DEF KeptInv
  <1> QED BY <1>1, <1>6 DEF KeptInv

LEMMA KeptWrite ==
    ASSUME ImageInv, KeptInv, NEW r \in Saves, I!Write(r)
    PROVE  KeptInv'
  <1> DEFINE p == save[r]
             i == p.item
             d == [p EXCEPT !.at = "cleaning", !.todo = I!Todo(r)]
  <1>1. /\ p.at = "writing" /\ p \in SaveRow /\ UNCHANGED <<born, given, disk>>
        /\ OnceShown(p, item, released)
    BY ImageTypes DEF I!Write, KeptInv
  <1>2. CASE item[i] = None /\ ~p.new
    <2> DEFINE f == [I!Idle EXCEPT !.at = "missing"]
    <2>1. save' = [save EXCEPT ![r] = f] /\ UNCHANGED <<item, released>>
      BY <1>2 DEF I!Write
    <2>2. OnceShown(f, item, released)
      BY IdleClaimsNothing DEF I!Ended
    <2> HIDE DEF f
    <2>3. given \ disk' \subseteq released
      BY <1>1 DEF KeptInv
    <2> QED BY <1>1, <2>1, <2>2, <2>3, KeptMoves
  <1>3. CASE item[i] # None \/ p.new
    <2>1. /\ released' = released \cup {x \in I!Images : I!Shown(x) /\ ~I!Shown(x)'}
          /\ save'[r] = d
          /\ \A q \in Saves \ {r} : \E b : save'[q] = [save[q] EXCEPT !.renamed = b]
      BY <1>3 DEF I!Write
    <2>2. /\ d.at = "cleaning" /\ d.before = p.before /\ d.todo = I!Todo(r)
      <3> DEFINE todo == I!Todo(r)
      <3>1. d = [p EXCEPT !.at = "cleaning", !.todo = todo]
        OBVIOUS
      <3> HIDE DEF d, p, todo
      <3>2. d.at = "cleaning" /\ d.before = p.before /\ d.todo = todo
        BY <1>1, <3>1 DEF SaveRow
      <3> QED BY <3>2 DEF todo
    <2>3. /\ p.before = None => d.todo = {}
          /\ p.before # None => d.todo \cap Keys \subseteq UploadsIn(p.before)
      <3>1. d.todo = IF p.before = None THEN {}
                     ELSE ({p.before.main} \ IF p.input = None THEN {None} ELSE {None, p.input.main})
                          \cup IF p.item \in Pictured THEN p.before.inside ELSE {}
        BY <2>2 DEF I!Todo
      <3> HIDE DEF d, p
      <3> QED BY <3>1 DEF UploadsIn
    <2> HIDE DEF d
    <2>4. \A x \in Keys : ShownIn(item, x) \/ x \in released =>
                              ShownIn(item', x) \/ x \in released'
      BY <2>1, StillClaimed, ImageNames
    <2>5. OnceShown(d, item', released')
      <3>1. \A x \in d.todo \cap Keys : p.before # None /\ x \in UploadsIn(p.before)
        BY <2>3
      <3>2. p.before # None => \A x \in UploadsIn(p.before) : ShownIn(item', x) \/ x \in released'
        BY <1>1, <2>4 DEF OnceShown, UploadsIn
      <3> QED BY <2>2, <3>1, <3>2 DEF OnceShown
    <2>6. ASSUME NEW q \in Saves \ {r}
          PROVE  OnceShown(save'[q], item', released')
      <3>1. OnceShown(save[q], item, released) /\ save[q] \in SaveRow
        BY ImageTypes DEF KeptInv
      <3>2. /\ save'[q].at = save[q].at /\ save'[q].before = save[q].before
            /\ save'[q].todo = save[q].todo /\ save'[q].image = save[q].image
        BY <2>1, <3>1 DEF SaveRow
      <3>3. released \subseteq released'
        BY <2>1
      <3> QED BY <2>4, <3>1, <3>2, <3>3 DEF OnceShown, UploadsIn
    <2>7. given' \ disk' \subseteq released'
      BY <1>1, <2>1 DEF KeptInv
    <2> QED BY <2>1, <2>5, <2>6, <2>7 DEF KeptInv
  <1> QED BY <1>2, <1>3

LEMMA KeptLookAt ==
    ASSUME ImageInv, KeptInv, NEW r \in Saves, NEW x \in I!Images, NEW answered \in BOOLEAN,
           I!LookAt(r, x, answered)
    PROVE  KeptInv'
  <1> DEFINE p == save[r]
             todo == p.todo \ {x}
             left == IF x \in Keys /\ ~answered THEN p.left \cup {x} ELSE p.left
  <1>1. /\ p.at = "cleaning" /\ x \in p.todo /\ p \in SaveRow /\ OnceShown(p, item, released)
        /\ UNCHANGED <<item, given, disk, released>> /\ given \ disk' \subseteq released
    BY ImageTypes DEF I!LookAt, KeptInv
  <1>2. CASE x \in Keys /\ answered /\ ~I!Referenced(x)
    <2> DEFINE d == [p EXCEPT !.at = "removing", !.image = x, !.todo = todo]
    <2>1. save' = [save EXCEPT ![r] = d]
      BY <1>2 DEF I!LookAt
    <2>2. d.before = p.before /\ d.todo = todo /\ d.image = x
      <3> HIDE DEF todo, p
      <3> QED BY <1>1 DEF SaveRow
    <2> HIDE DEF d
    <2>3. x \in released
      BY <1>1, <1>2 DEF OnceShown, I!Referenced, ShownIn
    <2>4. OnceShown(d, item, released)
      BY <1>1, <2>2, <2>3 DEF OnceShown
    <2> QED BY <1>1, <2>1, <2>4, KeptMoves
  <1>3. CASE ~(x \in Keys /\ answered /\ ~I!Referenced(x))
    <2> DEFINE d == [p EXCEPT !.todo = todo, !.left = left]
    <2>1. save' = [save EXCEPT ![r] = d]
      BY <1>3 DEF I!LookAt
    <2>2. d.at = p.at /\ d.before = p.before /\ d.todo = todo /\ d.image = p.image
      <3> HIDE DEF todo, left, p
      <3> QED BY <1>1 DEF SaveRow
    <2> HIDE DEF d
    <2>3. OnceShown(d, item, released)
      BY <1>1, <2>2 DEF OnceShown
    <2> QED BY <1>1, <2>1, <2>3, KeptMoves
  <1> QED BY <1>2, <1>3

LEMMA KeptRemove ==
    ASSUME ImageInv, KeptInv, NEW r \in Saves, NEW removed \in BOOLEAN, I!Remove(r, removed)
    PROVE  KeptInv'
  <1> DEFINE left == IF removed THEN save[r].left ELSE save[r].left \cup {save[r].image}
             d == [save[r] EXCEPT !.at = "cleaning", !.image = None, !.renamed = FALSE,
                                  !.left = left]
  <1>1. /\ save[r].at = "removing" /\ save[r] \in SaveRow /\ save' = [save EXCEPT ![r] = d]
        /\ disk' = IF removed THEN disk \ {save[r].image} ELSE disk
        /\ UNCHANGED <<item, born, given, released>> /\ OnceShown(save[r], item, released)
    BY ImageTypes DEF I!Remove, KeptInv
  <1>2. d.at = "cleaning" /\ d.before = save[r].before /\ d.todo = save[r].todo
    <2> HIDE DEF left
    <2> QED BY <1>1 DEF SaveRow
  <1> HIDE DEF d, left
  <1>3. OnceShown(d, item, released) /\ save[r].image \in released
    BY <1>1, <1>2 DEF OnceShown
  <1>4. given \ disk' \subseteq released
    BY <1>1, <1>3 DEF KeptInv
  <1> QED BY <1>1, <1>3, <1>4, KeptMoves

LEMMA KeptStep ==
    ASSUME ImageInv, KeptInv, I!Next \/ UNCHANGED imageVars
    PROVE  KeptInv'
  <1>1. ASSUME NEW k \in Keys, I!Upload(k)
        PROVE  KeptInv'
    <2>1. given' = given \cup {k} /\ disk' = disk \cup {k} /\ UNCHANGED <<item, released, save>>
      BY <1>1 DEF I!Upload
    <2> QED BY <2>1 DEF KeptInv
  <1>2. ASSUME NEW r \in I!Waiting, NEW i \in I!Items, NEW input \in I!Shows \cup {None},
               NEW new \in BOOLEAN, NEW keep \in BOOLEAN, NEW before \in {None, item[i]},
               NEW start,
               \/ start = [I!Idle EXCEPT !.input = input, !.new = new]
               \/ start = [I!Idle EXCEPT !.input = input, !.keep = keep, !.before = before]
               \/ start = [I!Idle EXCEPT !.before = before],
               I!Begin(r, i, start)
        PROVE  KeptInv'
    <2>1. before \in I!Shows \cup {None}
      BY ImageTypes
    <2>2. start \in SaveRow /\ start.todo = {} /\ start.before \in {None, before}
      BY <1>2, <2>1 DEF I!Idle, SaveRow
    <2> QED BY <1>2, <2>2, KeptBegin
  <1>3. ASSUME NEW r \in I!Waiting, NEW i \in I!Items, NEW main \in I!Images \cup {None},
               NEW inside \in Insides, NEW keep \in BOOLEAN, NEW read \in BOOLEAN,
               \/ I!Create(r, i, main, inside)
               \/ I!Update(r, i, main, inside, keep, read)
               \/ I!Delete(r, i, read)
        PROVE  KeptInv'
    <2> DEFINE input == [main |-> main, inside |-> inside]
               before == IF read THEN item[i] ELSE None
    <2>1. input \in I!Shows /\ before \in {None, item[i]}
      BY DEF I!Shows
    <2>2. \/ I!Begin(r, i, [I!Idle EXCEPT !.input = input, !.new = TRUE])
          \/ I!Begin(r, i, [I!Idle EXCEPT !.input = input, !.keep = keep, !.before = before])
          \/ I!Begin(r, i, [I!Idle EXCEPT !.before = before])
      BY <1>3 DEF I!Create, I!Update, I!Delete
    <2> HIDE DEF input, before
    <2> QED BY <1>2, <2>1, <2>2
  <1>4. ASSUME NEW r \in Saves, I!Answer(r) \/ I!Fail(r)
        PROVE  KeptInv'
    <2>1. PICK at \in I!Ended : save' = [save EXCEPT ![r] = [I!Idle EXCEPT !.at = at]]
      BY <1>4 DEF I!Answer, I!Fail, I!Ended
    <2>2. UNCHANGED <<item, given, disk, released>>
      BY <1>4 DEF I!Answer, I!Fail
    <2> DEFINE d == [I!Idle EXCEPT !.at = at]
    <2>3. OnceShown(d, item, released)
      BY IdleClaimsNothing
    <2> HIDE DEF d
    <2>4. save' = [save EXCEPT ![r] = d] /\ given \ disk' \subseteq released
      BY <2>1, <2>2 DEF d, KeptInv
    <2> QED BY <2>2, <2>3, <2>4, KeptMoves
  <1>5. CASE UNCHANGED imageVars
    BY <1>5 DEF imageVars, KeptInv
  <1>6. CASE \E r \in I!Waiting, i \in I!Items :
                \/ \E main \in I!Images \cup {None}, inside \in Insides :
                      \/ I!Create(r, i, main, inside)
                      \/ \E keep, read \in BOOLEAN : I!Update(r, i, main, inside, keep, read)
                \/ \E read \in BOOLEAN : I!Delete(r, i, read)
    <2>1. PICK r \in I!Waiting, i \in I!Items :
              \/ \E main \in I!Images \cup {None}, inside \in Insides :
                    \/ I!Create(r, i, main, inside)
                    \/ \E keep, read \in BOOLEAN : I!Update(r, i, main, inside, keep, read)
              \/ \E read \in BOOLEAN : I!Delete(r, i, read)
      BY <1>6
    <2>2. CASE \E main \in I!Images \cup {None}, inside \in Insides : I!Create(r, i, main, inside)
      BY <1>3, <2>2
    <2>3. CASE \E main \in I!Images \cup {None}, inside \in Insides, keep, read \in BOOLEAN :
                  I!Update(r, i, main, inside, keep, read)
      BY <1>3, <2>3
    <2>4. CASE \E read \in BOOLEAN : I!Delete(r, i, read)
      <3>1. None \in I!Images \cup {None} /\ {} \in Insides
        BY StorefrontAssumption DEF I!ImagesAssumption
      <3> QED BY <1>3, <2>4, <3>1
    <2> QED BY <2>1, <2>2, <2>3, <2>4
  <1>7. CASE \E r \in Saves : \/ I!Write(r) \/ I!Answer(r) \/ I!Fail(r)
                              \/ \E x \in I!Images, answered \in BOOLEAN : I!LookAt(r, x, answered)
                              \/ \E removed \in BOOLEAN : I!Remove(r, removed)
    BY <1>4, <1>7, KeptWrite, KeptLookAt, KeptRemove
  <1> QED BY <1>1, <1>5, <1>6, <1>7 DEF I!Next

\* What LossesFallInTheGap says of a step.
LEMMA RemovalStep ==
    ASSUME ImageInv, NEW r \in Saves, save[r].at = "removing"
    PROVE  ~I!Shown(save[r].image) \/ save[r].renamed
  BY ImageTypes DEF FoundUnused, ShownIn, I!Shown

\* What AloneItTidies says of a step.
LEMMA TidyStep ==
    ASSUME ImageInv, I!Next \/ UNCHANGED imageVars, NEW r \in Saves,
           save[r].at = "cleaning", save'[r].at = "done", save[r].alone,
           save[r].item \in Pictured, save[r].before # None,
           NEW x \in disk \cap ({save[r].before.main} \cup save[r].before.inside)
    PROVE  I!Shown(x) \/ x \in save[r].left
  <1>1. save[r].todo = {}
    <2>1. \A k \in Keys : ~I!Upload(k)
      BY DEF I!Upload
    <2>2. ASSUME NEW q \in I!Waiting, NEW i \in I!Items, NEW start, I!Begin(q, i, start)
          PROVE  FALSE
      <3>1. q # r
        BY DEF I!Waiting
      <3>2. save'[r] \in {save[r], [save[r] EXCEPT !.alone = FALSE]}
        BY <2>2, <3>1 DEF I!Begin
      <3> QED BY <3>2, ImageTypes DEF SaveRow
    <2>3. \A q \in I!Waiting, i \in I!Items : \A main, inside, keep, read :
              ~I!Create(q, i, main, inside) /\ ~I!Delete(q, i, read)
              /\ ~I!Update(q, i, main, inside, keep, read)
      BY <2>2 DEF I!Create, I!Update, I!Delete
    <2>4. ASSUME NEW q \in Saves \ {r}, NEW d, save' = [save EXCEPT ![q] = d]
          PROVE  FALSE
      BY <2>4, ImageTypes
    <2>5. /\ \A q \in Saves \ {r} : ~I!Answer(q) /\ ~I!Fail(q)
          /\ \A q \in Saves \ {r}, removed \in BOOLEAN : ~I!Remove(q, removed)
      BY <2>4, ImageTypes DEF I!Remove, I!Answer, I!Fail
    <2>6. \A q \in Saves \ {r}, y \in I!Images, answered \in BOOLEAN : ~I!LookAt(q, y, answered)
      BY <2>4, ImageTypes DEF I!LookAt
    <2>7. \A q \in Saves : ~I!Write(q)
      <3> SUFFICES ASSUME NEW q \in Saves, I!Write(q)
                   PROVE  FALSE
        OBVIOUS
      <3>1. q # r
        BY DEF I!Write
      <3>2. CASE item[save[q].item] = None /\ ~save[q].new
        BY <2>4, <3>1, <3>2 DEF I!Write
      <3>3. CASE ~(item[save[q].item] = None /\ ~save[q].new)
        <4>1. \E b : save'[r] = [save[r] EXCEPT !.renamed = b]
          BY <3>1, <3>3 DEF I!Write
        <4> QED BY <4>1, ImageTypes DEF SaveRow
      <3> QED BY <3>2, <3>3
    <2>8. /\ \A removed \in BOOLEAN : ~I!Remove(r, removed)
          /\ \A y \in I!Images, answered \in BOOLEAN : ~I!LookAt(r, y, answered)
      <3>1. \A removed \in BOOLEAN : ~I!Remove(r, removed)
        BY DEF I!Remove
      <3>2. ASSUME NEW y \in I!Images, NEW answered \in BOOLEAN, I!LookAt(r, y, answered)
            PROVE  FALSE
        <4> DEFINE todo == save[r].todo \ {y}
                   left == IF y \in Keys /\ ~answered THEN save[r].left \cup {y} ELSE save[r].left
        <4>1. CASE y \in Keys /\ answered /\ ~I!Referenced(y)
          <5>1. save'[r] = [save[r] EXCEPT !.at = "removing", !.image = y, !.todo = todo]
            BY <3>2, <4>1, ImageTypes DEF I!LookAt
          <5> HIDE DEF todo
          <5> QED BY <5>1, ImageTypes DEF SaveRow
        <4>2. CASE ~(y \in Keys /\ answered /\ ~I!Referenced(y))
          <5>1. save'[r] = [save[r] EXCEPT !.todo = todo, !.left = left]
            BY <3>2, <4>2, ImageTypes DEF I!LookAt
          <5> HIDE DEF todo, left
          <5> QED BY <5>1, ImageTypes DEF SaveRow
        <4> QED BY <4>1, <4>2
      <3> QED BY <3>1, <3>2
    <2>9. ~I!Fail(r)
      <3> SUFFICES ASSUME I!Fail(r)
                   PROVE  FALSE
        OBVIOUS
      <3>1. save'[r] = [I!Idle EXCEPT !.at = "failed"]
        BY ImageTypes DEF I!Fail
      <3> QED BY <3>1 DEF I!Idle
    <2>10. ~UNCHANGED imageVars
      BY DEF imageVars
    <2>11. I!Answer(r)
      BY <2>1, <2>3, <2>5, <2>6, <2>7, <2>8, <2>9, <2>10 DEF I!Next
    <2> QED BY <2>11 DEF I!Answer
  <1>2. x \in UploadsIn(save[r].before) \cap disk
    BY ImageTypes DEF UploadsIn
  <1>3. ShownIn(item, x) \/ x \in save[r].left
    BY <1>1, <1>2, ImageTypes DEF WillTidy
  <1> QED BY <1>3 DEF ShownIn, I!Shown

-----------------------------------------------------------------------------
(* The limiter: cleaning its table changes no answer.                      *)

LEMMA LimitSets ==
    \A S : (L!IsFiniteSet(S) <=> IsFiniteSet(S)) /\ L!Cardinality(S) = Cardinality(S)
  <1>1. \A S : L!IsFiniteSet(S) <=> IsFiniteSet(S)
    BY Zenon DEF L!IsFiniteSet, IsFiniteSet
  <1>2. \A S : L!Cardinality(S) = Cardinality(S)
    BY Zenon DEF L!Cardinality, Cardinality
  <1> QED BY <1>1, <1>2, Zenon

LEMMA LimitConstants ==
    /\ Limit \in Nat /\ Limit >= 1 /\ Window \in Nat /\ Window >= 1
    /\ Second \in Nat /\ Second >= 1 /\ MaxBuckets \in Nat /\ MaxBuckets >= 1
    /\ L!Fill \in Nat /\ L!Fill = Limit * Window /\ L!Fill >= Window
    /\ L!Served \in Nat /\ L!Served = Window + Second
  <1>1. /\ Limit \in Nat /\ Limit >= 1 /\ Window \in Nat /\ Window >= 1
        /\ Second \in Nat /\ Second >= 1 /\ MaxBuckets \in Nat /\ MaxBuckets >= 1
    BY StorefrontAssumption DEF L!RateLimitAssumption
  <1> QED BY <1>1 DEF L!Fill, L!Served

LEMMA RoundUpBounds ==
    ASSUME NEW n \in Nat, NEW u \in Nat, u >= 1
    PROVE  /\ L!RoundUp(n, u) \in Nat /\ n <= L!RoundUp(n, u) /\ L!RoundUp(n, u) <= n + u - 1
           /\ L!RoundUp(n, u) \div u = (n + u - 1) \div u
  <1> DEFINE x == n + u - 1
             q == x \div u
  <1>1. x \in Nat
    OBVIOUS
  <1> HIDE DEF x
  <1>2. q \in Nat /\ q * u <= x /\ x < q * u + u
    BY <1>1
  <1> HIDE DEF q
  <1>3. L!RoundUp(n, u) = q * u
    BY DEF L!RoundUp, q, x
  <1>4. q * u \in Nat /\ (q * u) \div u = q
    BY <1>2
  <1>5. n <= q * u /\ q * u <= n + u - 1
    BY <1>2, <1>4 DEF x
  <1> QED BY <1>3, <1>4, <1>5 DEF q, x

\* Waiting as long as Retry-After says fills the bucket up.
LEMMA RetryAfterFills ==
    ASSUME NEW m \in 0 .. Window
    PROVE  /\ L!RetryAfter(m) \in 0 .. L!Served
           /\ Limit * L!RetryAfter(m) >= m
  <1> DEFINE q == (m + Limit - 1) \div Limit
  <1>1. m \in Nat /\ m <= Window
    BY LimitConstants
  <1>2. q \in Nat /\ m <= Limit * q /\ q <= m
    <2>1. q \in Nat /\ q * Limit <= m + Limit - 1 /\ m + Limit - 1 < q * Limit + Limit
      BY <1>1, LimitConstants
    <2> HIDE DEF q
    <2>2. q * Limit = Limit * q /\ Limit * q \in Nat
      BY <2>1, LimitConstants
    <2>3. m <= Limit * q
      BY <1>1, <2>1, <2>2, LimitConstants
    <2>4. ASSUME q >= m + 1
          PROVE  FALSE
      <3>1. Limit * q >= Limit * (m + 1)
        BY <1>1, <2>1, <2>4, LimitConstants
      <3>2. Limit * (m + 1) >= Limit + m
        BY <1>1, LimitConstants
      <3> QED BY <1>1, <2>1, <2>2, <3>1, <3>2, LimitConstants
    <2> QED BY <1>1, <2>1, <2>3, <2>4
  <1>3. L!RoundUp(m, Limit) \div Limit = q
    BY <1>1, LimitConstants, RoundUpBounds
  <1> HIDE DEF q
  <1> DEFINE w == L!RoundUp(q, Second)
  <1>4. L!RetryAfter(m) = w
    BY <1>3 DEF L!RetryAfter
  <1>5. w \in Nat /\ q <= w /\ w <= q + Second - 1
    BY <1>2, LimitConstants, RoundUpBounds
  <1> HIDE DEF w
  <1>6. w \in 0 .. L!Served
    BY <1>1, <1>2, <1>5, LimitConstants
  <1>7. Limit * q <= Limit * w
    BY <1>2, <1>5, LimitConstants
  <1>8. Limit * w >= m
    <2>1. Limit * q \in Nat /\ Limit * w \in Nat
      BY <1>2, <1>5, LimitConstants
    <2> QED BY <1>1, <1>2, <1>7, <2>1
  <1> QED BY <1>4, <1>6, <1>8

LimitRow == [held : BOOLEAN, tokens : 0 .. L!Fill, age : 0 .. 2 * Window]

\* The shares that a bucket has by now, or that a client without one has a right to.
Credit(b) == IF b.held THEN L!LeastOf(L!Fill, b.tokens + Limit * b.age) ELSE L!Fill

\* The table gives each client what it has a right to; who still waits will then have a
\* token; and no bucket is older than the last clean-up lets it be.
LimitInv ==
    /\ L!TypeOK
    /\ IsFiniteSet(L!Buckets)
    /\ \A c \in Clients :
          /\ ideal[c] = Credit(bucket[c])
          /\ wait[c] # L!Served => ideal[c] + Limit * wait[c] >= Window
          /\ bucket[c].held => bucket[c].age < Window + cleaned

LEMMA LimitTypes ==
    ASSUME LimitInv
    PROVE  /\ bucket \in [Clients -> LimitRow] /\ cleaned \in 0 .. 2 * Window
           /\ ideal \in [Clients -> 0 .. L!Fill] /\ wait \in [Clients -> 0 .. L!Served]
           /\ IsFiniteSet(L!Buckets) /\ Cardinality(L!Buckets) <= MaxBuckets
           /\ \A c \in Clients :
                 /\ ideal[c] = Credit(bucket[c])
                 /\ wait[c] # L!Served => ideal[c] + Limit * wait[c] >= Window
                 /\ bucket[c].held => bucket[c].age < Window + cleaned
  BY LimitSets DEF LimitInv, L!TypeOK, LimitRow

LEMMA LimitInvFromParts ==
    ASSUME bucket' \in [Clients -> LimitRow], cleaned' \in 0 .. 2 * Window,
           ideal' \in [Clients -> 0 .. L!Fill], wait' \in [Clients -> 0 .. L!Served],
           NEW S, L!Buckets' = S, IsFiniteSet(S), Cardinality(S) <= MaxBuckets,
           \A c \in Clients :
               /\ ideal'[c] = Credit(bucket'[c])
               /\ wait'[c] # L!Served => ideal'[c] + Limit * wait'[c] >= Window
               /\ bucket'[c].held => bucket'[c].age < Window + cleaned'
    PROVE  LimitInv'
  <1>1. L!Cardinality(L!Buckets') <= MaxBuckets /\ IsFiniteSet(L!Buckets')
    BY LimitSets
  <1>2. L!TypeOK'
    BY <1>1 DEF L!TypeOK, LimitRow
  <1> QED BY <1>1, <1>2 DEF LimitInv

\* The clean-up throws away full buckets only.
LEMMA KeptHolds ==
    ASSUME LimitInv
    PROVE  /\ L!Kept \in SUBSET L!Buckets /\ L!Buckets \in SUBSET Clients /\ IsFiniteSet(L!Kept)
           /\ Cardinality(L!Kept) \in Nat /\ Cardinality(L!Kept) <= MaxBuckets
           /\ \A c \in Clients : L!Refilled(c) = ideal[c]
           /\ \A c \in Clients \ L!Kept : ideal[c] = L!Fill
           /\ \A c \in L!Kept : bucket[c].held /\ bucket[c].age < 2 * Window
           /\ L!Cleaned => /\ cleaned' \in 0 .. 2 * Window
                           /\ \A c \in L!Kept : bucket[c].age < Window + cleaned'
  <1>1. L!Kept \in SUBSET L!Buckets /\ L!Buckets \in SUBSET Clients
    BY DEF L!Kept, L!Buckets
  <1>2. /\ IsFiniteSet(L!Kept) /\ Cardinality(L!Kept) \in Nat /\ Cardinality(L!Kept) <= MaxBuckets
    <2>1. /\ IsFiniteSet(L!Buckets) /\ Cardinality(L!Buckets) <= MaxBuckets
          /\ Cardinality(L!Buckets) \in Nat
      BY LimitTypes, FS_CardinalityType
    <2>2. IsFiniteSet(L!Kept) /\ Cardinality(L!Kept) <= Cardinality(L!Buckets)
      BY <1>1, <2>1, FS_Subset
    <2>3. Cardinality(L!Kept) \in Nat
      BY <2>2, FS_CardinalityType
    <2> QED BY <2>1, <2>2, <2>3, LimitConstants
  <1>3. ASSUME NEW c \in Clients
        PROVE  /\ c \in L!Kept => L!Refilled(c) = ideal[c]
               /\ c \notin L!Kept => L!Refilled(c) = L!Fill /\ ideal[c] = L!Fill
    <2>1. CASE c \in L!Kept
      BY <1>1, <2>1, LimitTypes DEF L!Refilled, Credit, L!Buckets
    <2>2. CASE c \notin L!Kept
      <3>1. L!Refilled(c) = L!Fill
        BY <2>2 DEF L!Refilled
      <3>2. CASE ~bucket[c].held
        BY <2>2, <3>1, <3>2, LimitTypes DEF Credit
      <3>3. CASE bucket[c].held
        <4>1. /\ bucket[c].age \in Nat /\ bucket[c].age >= Window /\ bucket[c].tokens \in Nat
          BY <2>2, <3>3, LimitTypes, LimitConstants DEF L!Kept, L!Buckets, L!Stale, LimitRow
        <4>2. Limit * bucket[c].age >= Limit * Window /\ Limit * bucket[c].age \in Nat
          BY <4>1, LimitConstants
        <4>3. Credit(bucket[c]) = L!Fill
          BY <3>3, <4>1, <4>2, LimitConstants DEF Credit, L!LeastOf
        <4> QED BY <2>2, <3>1, <4>3, LimitTypes
      <3> QED BY <3>2, <3>3
    <2> QED BY <2>1, <2>2
  <1>4. ASSUME NEW c \in L!Kept
        PROVE  /\ bucket[c].held /\ bucket[c].age < 2 * Window
               /\ L!Cleaned => bucket[c].age < Window + cleaned'
    <2>1. /\ c \in Clients /\ bucket[c].held /\ bucket[c].age \in Nat /\ cleaned \in Nat
          /\ bucket[c].age < Window + cleaned
      BY <1>1, LimitTypes, LimitConstants DEF L!Buckets, LimitRow
    <2>2. CASE cleaned >= Window
      <3>1. bucket[c].age < Window
        BY <2>1, <2>2, LimitConstants DEF L!Kept, L!CleanupDue, L!Stale
      <3>2. L!Cleaned => cleaned' = 0
        BY <2>2 DEF L!Cleaned, L!CleanupDue
      <3> QED BY <2>1, <3>1, <3>2, LimitConstants
    <2>3. CASE ~(cleaned >= Window)
      <3>1. L!Cleaned => cleaned' = cleaned
        BY <2>3 DEF L!Cleaned, L!CleanupDue
      <3> QED BY <2>1, <2>3, <3>1, LimitConstants
    <2> QED BY <2>2, <2>3
  <1>5. L!Cleaned => cleaned' \in 0 .. 2 * Window
    <2>1. 0 \in 0 .. 2 * Window /\ cleaned \in 0 .. 2 * Window
      BY LimitTypes, LimitConstants
    <2>2. L!Cleaned => cleaned' = 0 \/ cleaned' = cleaned
      BY DEF L!Cleaned
    <2> QED BY <2>1, <2>2
  <1> QED BY <1>1, <1>2, <1>3, <1>4, <1>5

LEMMA LimitInit == L!Init => LimitInv
  <1> SUFFICES ASSUME L!Init
               PROVE  LimitInv
    OBVIOUS
  <1>1. L!NoBucket \in LimitRow /\ ~L!NoBucket.held
    BY LimitConstants DEF L!NoBucket, LimitRow
  <1>2. /\ bucket \in [Clients -> LimitRow] /\ \A c \in Clients : ~bucket[c].held
    BY <1>1 DEF L!Init
  <1>3. /\ cleaned \in 0 .. 2 * Window /\ ideal \in [Clients -> 0 .. L!Fill]
        /\ wait \in [Clients -> 0 .. L!Served]
    BY LimitConstants DEF L!Init
  <1>4. L!Buckets = {}
    BY <1>2 DEF L!Buckets
  <1>5. IsFiniteSet(L!Buckets) /\ L!Cardinality(L!Buckets) <= MaxBuckets
    BY <1>4, FS_EmptySet, LimitSets, LimitConstants
  <1>6. L!TypeOK
    BY <1>2, <1>3, <1>5 DEF L!TypeOK, LimitRow
  <1>7. \A c \in Clients : ideal[c] = Credit(bucket[c]) /\ wait[c] = L!Served
    BY <1>2 DEF L!Init, Credit
  <1> QED BY <1>2, <1>5, <1>6, <1>7 DEF LimitInv

\* A request that leaves its bucket in the cleaned table.
LEMMA TableHolds ==
    ASSUME LimitInv, NEW c \in Clients, NEW tokens \in 0 .. L!Fill, NEW w \in 0 .. L!Served,
           L!HasRoom(c), L!Table(c, tokens), L!Cleaned, ideal' = [ideal EXCEPT ![c] = tokens],
           wait' = [wait EXCEPT ![c] = w], w # L!Served => tokens + Limit * w >= Window
    PROVE  LimitInv'
  <1> DEFINE b == [held |-> TRUE, tokens |-> tokens, age |-> 0]
  <1>1. b \in LimitRow /\ b.held /\ b.tokens = tokens /\ b.age = 0
    BY LimitConstants DEF LimitRow
  <1>2. L!NoBucket \in LimitRow /\ ~L!NoBucket.held
    BY LimitConstants DEF L!NoBucket, LimitRow
  <1>3. bucket' = [d \in Clients |-> IF d = c THEN b ELSE IF d \in L!Kept THEN bucket[d]
                                     ELSE L!NoBucket]
    BY DEF L!Table
  <1> HIDE DEF b
  <1>4. /\ bucket' \in [Clients -> LimitRow] /\ bucket'[c] = b
        /\ \A d \in Clients \ {c} : bucket'[d] = IF d \in L!Kept THEN bucket[d] ELSE L!NoBucket
    BY <1>1, <1>2, <1>3, LimitTypes
  <1>5. L!Buckets' = L!Kept \cup {c}
    BY <1>1, <1>2, <1>4, KeptHolds DEF L!Buckets
  <1>6. IsFiniteSet(L!Kept \cup {c}) /\ Cardinality(L!Kept \cup {c}) <= MaxBuckets
    <2>1. CASE c \in L!Kept
      <3>1. L!Kept \cup {c} = L!Kept
        BY <2>1
      <3> QED BY <3>1, KeptHolds
    <2>2. CASE c \notin L!Kept
      <3>1. Cardinality(L!Kept) < MaxBuckets
        BY <2>2, LimitSets DEF L!HasRoom
      <3>2. IsFiniteSet(L!Kept \cup {c}) /\ Cardinality(L!Kept \cup {c}) = Cardinality(L!Kept) + 1
        BY <2>2, KeptHolds, FS_AddElement
      <3> QED BY <3>1, <3>2, KeptHolds, LimitConstants
    <2> QED BY <2>1, <2>2
  <1>7. Credit(b) = tokens
    <2>1. Limit * b.age = 0 /\ tokens <= L!Fill
      BY <1>1, LimitConstants
    <2> QED BY <1>1, <2>1, LimitConstants DEF Credit, L!LeastOf
  <1>8. /\ ideal' \in [Clients -> 0 .. L!Fill] /\ ideal'[c] = tokens
        /\ wait' \in [Clients -> 0 .. L!Served] /\ wait'[c] = w
        /\ \A d \in Clients \ {c} : ideal'[d] = ideal[d] /\ wait'[d] = wait[d]
    BY LimitTypes
  <1>9. ASSUME NEW d \in Clients \ {c}
        PROVE  /\ ideal'[d] = Credit(bucket'[d])
               /\ bucket'[d].held => bucket'[d].age < Window + cleaned'
    <2>1. CASE d \in L!Kept
      BY <1>4, <1>8, <2>1, LimitTypes, KeptHolds
    <2>2. CASE d \notin L!Kept
      <3>1. Credit(L!NoBucket) = L!Fill
        BY <1>2 DEF Credit
      <3> QED BY <1>2, <1>4, <1>8, <2>2, <3>1, KeptHolds
    <2> QED BY <2>1, <2>2
  <1>10. cleaned' \in 0 .. 2 * Window /\ b.age < Window + cleaned'
    BY <1>1, KeptHolds, LimitConstants
  <1>11. \A d \in Clients :
             /\ ideal'[d] = Credit(bucket'[d])
             /\ wait'[d] # L!Served => ideal'[d] + Limit * wait'[d] >= Window
             /\ bucket'[d].held => bucket'[d].age < Window + cleaned'
    BY <1>4, <1>7, <1>8, <1>9, <1>10, LimitTypes
  <1> QED BY <1>4, <1>5, <1>6, <1>8, <1>10, <1>11, LimitInvFromParts

LEMMA RequestStep ==
    ASSUME LimitInv, NEW c \in Clients, L!Request(c)
    PROVE  LimitInv'
  <1>1. ideal[c] \in 0 .. L!Fill /\ L!Refilled(c) = ideal[c]
    BY LimitTypes, KeptHolds
  <1>2. CASE L!Serve(c)
    <2> DEFINE tokens == ideal[c] - Window
    <2>1. /\ ideal[c] >= Window /\ L!HasRoom(c) /\ L!Table(c, tokens) /\ L!Cleaned
          /\ wait' = [wait EXCEPT ![c] = L!Served]
      BY <1>1, <1>2 DEF L!Serve
    <2>2. tokens \in 0 .. L!Fill
      BY <1>1, <2>1, LimitConstants
    <2>3. ideal' = [ideal EXCEPT ![c] = tokens]
      BY <1>2, <2>1, LimitTypes DEF L!Serve
    <2>4. L!Served \in 0 .. L!Served
      BY LimitConstants
    <2> HIDE DEF tokens
    <2> QED BY <2>1, <2>2, <2>3, <2>4, TableHolds
  <1>3. CASE L!Refuse(c)
    <2> DEFINE w == L!RetryAfter(Window - ideal[c])
    <2>1. /\ ideal[c] < Window /\ L!HasRoom(c) /\ L!Table(c, ideal[c]) /\ L!Cleaned
          /\ wait' = [wait EXCEPT ![c] = w]
      BY <1>1, <1>3 DEF L!Refuse
    <2>2. ideal' = [ideal EXCEPT ![c] = ideal[c]]
      BY <1>3, LimitTypes DEF L!Refuse
    <2>3. Window - ideal[c] \in 0 .. Window
      BY <1>1, <2>1, LimitConstants
    <2>4. w \in 0 .. L!Served /\ Limit * w >= Window - ideal[c]
      BY <2>3, RetryAfterFills
    <2> HIDE DEF w
    <2>5. ideal[c] + Limit * w >= Window
      <3>1. Limit * w \in Nat
        BY <2>4, LimitConstants
      <3> QED BY <1>1, <2>4, <3>1, LimitConstants
    <2> QED BY <1>1, <2>1, <2>2, <2>4, <2>5, TableHolds
  <1>4. CASE L!RefuseNewcomer(c)
    <2>1. L!NoBucket \in LimitRow /\ ~L!NoBucket.held /\ Credit(L!NoBucket) = L!Fill
      BY LimitConstants DEF L!NoBucket, LimitRow, Credit
    <2>2. /\ bucket' = [d \in Clients |-> IF d \in L!Kept THEN bucket[d] ELSE L!NoBucket]
          /\ L!Cleaned /\ wait' = [wait EXCEPT ![c] = Window] /\ UNCHANGED ideal
      BY <1>4 DEF L!RefuseNewcomer
    <2>3. /\ bucket' \in [Clients -> LimitRow]
          /\ \A d \in Clients : bucket'[d] = IF d \in L!Kept THEN bucket[d] ELSE L!NoBucket
      BY <2>1, <2>2, LimitTypes
    <2>4. L!Buckets' = L!Kept
      BY <2>1, <2>3, KeptHolds DEF L!Buckets
    <2>5. Window \in 0 .. L!Served /\ Limit * Window >= Window
      BY LimitConstants
    <2>6. /\ wait' \in [Clients -> 0 .. L!Served] /\ wait'[c] = Window
          /\ \A d \in Clients \ {c} : wait'[d] = wait[d]
      BY <2>2, <2>5, LimitTypes
    <2>7. \A d \in Clients : wait'[d] # L!Served => ideal'[d] + Limit * wait'[d] >= Window
      <3>1. ideal[c] + Limit * Window >= Window
        BY <1>1, <2>5, LimitConstants
      <3> QED BY <2>2, <2>6, <3>1, LimitTypes
    <2>8. \A d \in Clients : /\ ideal'[d] = Credit(bucket'[d])
                             /\ bucket'[d].held => bucket'[d].age < Window + cleaned'
      BY <2>1, <2>2, <2>3, LimitTypes, KeptHolds
    <2> QED BY <2>2, <2>3, <2>4, <2>6, <2>7, <2>8, LimitTypes, KeptHolds, LimitInvFromParts
  <1> QED BY <1>2, <1>3, <1>4 DEF L!Request

LEMMA PassStep ==
    ASSUME LimitInv, L!Pass
    PROVE  LimitInv'
  <1> DEFINE older(c) == L!LeastOf(2 * Window, bucket[c].age + 1)
             b(c) == IF bucket[c].held THEN [bucket[c] EXCEPT !.age = older(c)] ELSE bucket[c]
  <1>1. /\ bucket' = [c \in Clients |-> b(c)]
        /\ cleaned' = L!LeastOf(2 * Window, cleaned + 1)
        /\ ideal' = [c \in Clients |-> L!LeastOf(L!Fill, ideal[c] + Limit)]
        /\ wait' = [c \in Clients |-> IF wait[c] \in {0, L!Served} THEN wait[c] ELSE wait[c] - 1]
    BY LimitTypes DEF L!Pass
  <1>2. ASSUME NEW c \in Clients
        PROVE  /\ b(c) \in LimitRow /\ b(c).held = bucket[c].held /\ b(c).tokens = bucket[c].tokens
               /\ bucket[c].held => b(c).age = older(c)
    <2>1. bucket[c] \in LimitRow /\ bucket[c].age \in 0 .. 2 * Window
      BY LimitTypes DEF LimitRow
    <2>2. older(c) \in 0 .. 2 * Window
      BY <2>1, LimitConstants DEF L!LeastOf
    <2> HIDE DEF older
    <2> QED BY <2>1, <2>2 DEF LimitRow
  <1> HIDE DEF b
  <1>3. bucket' \in [Clients -> LimitRow] /\ \A c \in Clients : bucket'[c] = b(c)
    BY <1>1, <1>2
  <1>4. L!Buckets' = L!Buckets
    BY <1>2, <1>3 DEF L!Buckets
  <1>5. /\ cleaned' \in 0 .. 2 * Window /\ ideal' \in [Clients -> 0 .. L!Fill]
        /\ wait' \in [Clients -> 0 .. L!Served]
    <2>1. cleaned' \in 0 .. 2 * Window
      BY <1>1, LimitTypes, LimitConstants DEF L!LeastOf
    <2>2. ideal' \in [Clients -> 0 .. L!Fill]
      BY <1>1, LimitTypes, LimitConstants DEF L!LeastOf
    <2>3. wait' \in [Clients -> 0 .. L!Served]
      <3>1. ASSUME NEW c \in Clients
            PROVE  wait'[c] \in 0 .. L!Served
        <4>1. wait[c] \in 0 .. L!Served
          BY LimitTypes
        <4>2. wait'[c] = IF wait[c] \in {0, L!Served} THEN wait[c] ELSE wait[c] - 1
          BY <1>1
        <4> QED BY <4>1, <4>2, LimitConstants
      <3> QED BY <1>1, <3>1
    <2> QED BY <2>1, <2>2, <2>3
  <1>6. ASSUME NEW c \in Clients
        PROVE  ideal'[c] = Credit(bucket'[c])
    <2>1. ideal'[c] = L!LeastOf(L!Fill, ideal[c] + Limit) /\ ideal[c] = Credit(bucket[c])
      BY <1>1, LimitTypes
    <2>2. CASE ~bucket[c].held
      <3>1. ideal[c] = L!Fill /\ Credit(bucket'[c]) = L!Fill
        BY <1>2, <1>3, <2>1, <2>2 DEF Credit
      <3> QED BY <2>1, <3>1, LimitConstants DEF L!LeastOf
    <2>3. CASE bucket[c].held
      <3> DEFINE t == bucket[c].tokens
                 a == bucket[c].age
      <3>1. /\ t \in Nat /\ a \in Nat /\ a <= 2 * Window
        BY LimitTypes, LimitConstants DEF LimitRow
      <3>2. /\ Credit(bucket[c]) = L!LeastOf(L!Fill, t + Limit * a)
            /\ Credit(bucket'[c]) = L!LeastOf(L!Fill, t + Limit * older(c))
        BY <1>2, <1>3, <2>3 DEF Credit
      <3> HIDE DEF t, a
      <3>3. CASE a < 2 * Window
        <4>1. older(c) = a + 1
          BY <3>1, <3>3, LimitConstants DEF L!LeastOf, a
        <4>2. Limit * (a + 1) = Limit * a + Limit /\ Limit * a \in Nat
          BY <3>1, LimitConstants
        <4> DEFINE la == Limit * a
        <4>3. /\ Credit(bucket[c]) = L!LeastOf(L!Fill, t + la)
              /\ Credit(bucket'[c]) = L!LeastOf(L!Fill, t + (la + Limit)) /\ la \in Nat
          BY <3>2, <4>1, <4>2
        <4> HIDE DEF la
        <4> QED BY <2>1, <3>1, <4>3, LimitConstants DEF L!LeastOf
      <3>4. CASE ~(a < 2 * Window)
        <4>1. a = 2 * Window /\ older(c) = 2 * Window
          BY <3>1, <3>4, LimitConstants DEF L!LeastOf, a
        <4>2. Limit * (2 * Window) = 2 * L!Fill
          BY LimitConstants
        <4>3. Credit(bucket[c]) = L!Fill /\ Credit(bucket'[c]) = L!Fill
          BY <3>1, <3>2, <4>1, <4>2, LimitConstants DEF L!LeastOf
        <4> QED BY <2>1, <4>3, LimitConstants DEF L!LeastOf
      <3> QED BY <3>3, <3>4
    <2> QED BY <2>2, <2>3
  <1>7. ASSUME NEW c \in Clients, wait'[c] # L!Served
        PROVE  ideal'[c] + Limit * wait'[c] >= Window
    <2> DEFINE x == ideal[c]
               w == wait[c]
    <2>1. /\ x \in Nat /\ w \in Nat /\ ideal'[c] = L!LeastOf(L!Fill, x + Limit)
          /\ wait'[c] = IF w \in {0, L!Served} THEN w ELSE w - 1
      BY <1>1, LimitTypes, LimitConstants
    <2>2. w # L!Served /\ x + Limit * w >= Window
      BY <1>7, <2>1, LimitTypes
    <2> HIDE DEF x, w
    <2>3. Limit * wait'[c] \in Nat /\ Limit * w \in Nat
      BY <2>1, LimitConstants
    <2>4. CASE w = 0
      <3>1. Limit * w = 0
        BY <2>4, LimitConstants
      <3> QED BY <2>1, <2>2, <2>3, <3>1, LimitConstants DEF L!LeastOf
    <2>5. CASE w # 0
      <3>1. wait'[c] = w - 1 /\ Limit * w = Limit * (w - 1) + Limit
        BY <2>1, <2>2, <2>5, LimitConstants
      <3> QED BY <2>1, <2>2, <2>3, <3>1, LimitConstants DEF L!LeastOf
    <2> QED BY <2>4, <2>5
  <1>8. ASSUME NEW c \in Clients, bucket'[c].held
        PROVE  bucket'[c].age < Window + cleaned'
    <2>1. /\ bucket[c].held /\ bucket'[c].age = older(c) /\ bucket[c].age < Window + cleaned
      BY <1>2, <1>3, <1>8, LimitTypes
    <2>2. bucket[c].age \in 0 .. 2 * Window /\ cleaned \in 0 .. 2 * Window
      BY LimitTypes DEF LimitRow
    <2> QED BY <1>1, <2>1, <2>2, LimitConstants DEF L!LeastOf
  <1> QED BY <1>3, <1>4, <1>5, <1>6, <1>7, <1>8, LimitTypes, LimitInvFromParts

LEMMA LimitStep ==
    ASSUME LimitInv, L!Next \/ UNCHANGED limitVars
    PROVE  LimitInv'
  <1>1. CASE UNCHANGED limitVars
    <2>1. L!Buckets' = L!Buckets
      BY <1>1 DEF limitVars, L!Buckets
    <2> QED BY <1>1, <2>1, LimitTypes, LimitInvFromParts DEF limitVars
  <1> QED BY <1>1, PassStep, RequestStep DEF L!Next

\* What the invariant says of the answers, and of who is in a full table.
LEMMA AnswersHold ==
    ASSUME LimitInv
    PROVE  /\ L!TypeOK /\ L!RetryAfterIsEnough /\ L!RoomIsForTheRecent
           /\ \A c \in Clients : /\ L!Serve(c) => ideal[c] >= Window
                                 /\ L!Refuse(c) => ideal[c] < Window
  <1>1. L!RetryAfterIsEnough
    <2> SUFFICES ASSUME NEW c \in Clients, wait[c] = 0
                 PROVE  L!Refilled(c) >= Window
      BY DEF L!RetryAfterIsEnough
    <2>1. 0 # L!Served /\ Limit * 0 = 0
      BY LimitConstants
    <2>2. ideal[c] + 0 >= Window /\ ideal[c] \in Nat
      BY <2>1, LimitTypes, LimitConstants
    <2> QED BY <2>2, KeptHolds
  <1>2. L!RoomIsForTheRecent
    BY KeptHolds DEF L!RoomIsForTheRecent
  <1>3. \A c \in Clients : /\ L!Serve(c) => ideal[c] >= Window
                           /\ L!Refuse(c) => ideal[c] < Window
    BY KeptHolds DEF L!Serve, L!Refuse
  <1> QED BY <1>1, <1>2, <1>3 DEF LimitInv

-----------------------------------------------------------------------------
(* Prices: whatever wraps, an order that was stored adds up.               *)

LEMMA PriceConstants ==
    /\ Half \in Nat /\ Half > 2 /\ Hundred \in Nat /\ Hundred > 0 /\ MaxUses \in Nat
    /\ \A c \in Coupons : c.value \in Int
    /\ \A x \in Prices \cup Fees \cup Quantities : x \in 0 .. Half - 1
    /\ IsFiniteSet(Wares)
  <1>1. \A S : P!IsFiniteSet(S) <=> IsFiniteSet(S)
    BY Zenon DEF P!IsFiniteSet, IsFiniteSet
  <1>2. P!PricingAssumption
    BY StorefrontAssumption
  <1>3. /\ Half \in Nat /\ Half > 2 /\ Hundred \in Nat /\ Hundred > 0 /\ MaxUses \in Nat
        /\ P!IsFiniteSet(Wares)
    BY <1>2 DEF P!PricingAssumption
  <1>4. \A c \in Coupons : c.value \in Int
    BY <1>2, <1>3 DEF P!PricingAssumption
  <1>5. \A x \in Prices \cup Fees \cup Quantities : x \in 0 .. Half - 1
    BY <1>2 DEF P!PricingAssumption
  <1> QED BY <1>1, <1>3, <1>4, <1>5

\* An expression of type int64 wraps: it is in the range of its type, and in there exact.
LEMMA Int64Wraps ==
    ASSUME NEW x \in Int
    PROVE  /\ P!Int64(x) \in -Half .. Half - 1
           /\ x \in -Half .. Half - 1 => P!Int64(x) = x
           /\ x \in Half .. 3 * Half - 1 => P!Int64(x) = x - 2 * Half
  <1> DEFINE k == 2 * Half
             y == x + Half
  <1>1. k \in Nat /\ k > 0 /\ y \in Int
    BY PriceConstants
  <1>2. P!Int64(x) = (y % k) - Half
    BY DEF P!Int64
  <1> HIDE DEF k, y
  <1>3. y % k \in 0 .. k - 1
    BY <1>1
  <1>4. y \in 0 .. k - 1 => y % k = y
    BY <1>1
  <1>5. y \in k .. 2 * k - 1 => y % k = y - k
    BY <1>1
  <1> QED BY <1>2, <1>3, <1>4, <1>5, PriceConstants DEF k, y

\* Of finite sets, one of the smallest.
LEMMA SmallestSet ==
    ASSUME NEW Sets, Sets # {}, \A T \in Sets : IsFiniteSet(T)
    PROVE  \E T \in Sets : \A x \in T : T \ {x} \notin Sets
  <1> DEFINE Sizes == {Cardinality(T) : T \in Sets}
  <1>1. Sizes \in SUBSET Nat /\ Sizes # {}
    BY FS_CardinalityType
  <1> HIDE DEF Sizes
  <1>2. PICK n \in Sizes : \A m \in Sizes : n <= m
    BY <1>1, LeastNat
  <1>3. PICK T \in Sets : n = Cardinality(T)
    BY DEF Sizes
  <1>4. ASSUME NEW x \in T, T \ {x} \in Sets
        PROVE  FALSE
    <2>1. Cardinality(T \ {x}) = n - 1 /\ n \in Nat
      BY <1>1, <1>3, FS_RemoveElement
    <2>2. Cardinality(T \ {x}) \in Sizes
      BY <1>4 DEF Sizes
    <2> QED BY <1>2, <2>1, <2>2
  <1> QED BY <1>4

FirstOf(s) == CHOOSE x \in s : TRUE

LEMMA FirstIsIn == \A s : s # {} => FirstOf(s) \in s
  BY DEF FirstOf

\* g gives each set of D what the lines of f in it come to, line after line, wrapped.
Subtotals(g, f, D) ==
    g = [s \in D |-> IF s = {} THEN 0 ELSE P!Int64(g[s \ {FirstOf(s)}] + f[FirstOf(s)])]

\* The recursion by which the library folds a set defines something.
LEMMA SubtotalsExist ==
    ASSUME NEW S, IsFiniteSet(S), NEW f
    PROVE  \E g : Subtotals(g, f, SUBSET S)
  <1> DEFINE UpTo(n) == {s \in SUBSET S : Cardinality(s) <= n}
             Bad == {n \in Nat : ~ \E g : Subtotals(g, f, UpTo(n))}
  <1>1. \A s \in SUBSET S : IsFiniteSet(s) /\ Cardinality(s) \in Nat
                            /\ Cardinality(s) <= Cardinality(S)
    BY FS_Subset, FS_CardinalityType
  <1>2. Bad = {}
    <2> SUFFICES ASSUME Bad # {}
                 PROVE  FALSE
      OBVIOUS
    <2>1. PICK n \in Bad : \A m \in Bad : n <= m
      <3>1. Bad \in SUBSET Nat
        OBVIOUS
      <3> HIDE DEF Bad
      <3> QED BY <3>1, LeastNat
    <2>2. CASE n = 0
      <3> DEFINE h == [s \in UpTo(0) |-> 0]
      <3>1. \A s \in UpTo(0) : s = {}
        <4>1. \A s \in UpTo(0) : Cardinality(s) = 0 /\ IsFiniteSet(s)
          BY <1>1
        <4> QED BY <4>1, FS_EmptySet
      <3>2. Subtotals(h, f, UpTo(0))
        <4> HIDE DEF UpTo
        <4> QED BY <3>1 DEF Subtotals
      <3> HIDE DEF h
      <3> QED BY <2>2, <3>2
    <2>3. CASE n # 0
      <3>1. n \in Nat /\ n - 1 \in Nat /\ ~(n <= n - 1)
        BY <2>3
      <3>2. PICK g : Subtotals(g, f, UpTo(n - 1))
        BY <2>1, <3>1
      <3> DEFINE rest(s) == s \ {FirstOf(s)}
                 h == [s \in UpTo(n) |-> IF s = {} THEN 0 ELSE P!Int64(g[rest(s)] + f[FirstOf(s)])]
      <3>3. \A s \in UpTo(n - 1) : s \in UpTo(n)
        BY <1>1, <3>1
      <3>4. \A s \in UpTo(n - 1) : h[s] = g[s]
        <4> HIDE DEF UpTo
        <4> QED BY <3>2, <3>3 DEF Subtotals
      <3>5. \A s \in UpTo(n) : s # {} => rest(s) \in UpTo(n - 1)
        <4> SUFFICES ASSUME NEW s \in UpTo(n), s # {}
                     PROVE  rest(s) \in UpTo(n - 1)
          OBVIOUS
        <4>1. Cardinality(s \ {FirstOf(s)}) = Cardinality(s) - 1
          BY <1>1, FirstIsIn, FS_RemoveElement
        <4> QED BY <1>1, <3>1, <4>1
      <3>6. Subtotals(h, f, UpTo(n))
        <4>1. \A s \in UpTo(n) : s # {} => h[rest(s)] = g[rest(s)]
          <5> HIDE DEF h, UpTo, rest
          <5> QED BY <3>4, <3>5
        <4> HIDE DEF UpTo
        <4>2. h = [s \in UpTo(n) |-> IF s = {} THEN 0 ELSE P!Int64(h[rest(s)] + f[FirstOf(s)])]
          BY <4>1
        <4> HIDE DEF h
        <4> QED BY <4>2 DEF Subtotals
      <3> HIDE DEF h
      <3> QED BY <2>1, <3>6
    <2> QED BY <2>2, <2>3
  <1>3. Cardinality(S) \in Nat /\ UpTo(Cardinality(S)) = SUBSET S
    BY <1>1, FS_CardinalityType
  <1>4. Cardinality(S) \notin Bad
    BY <1>2
  <1> HIDE DEF UpTo
  <1> QED BY <1>3, <1>4

\* The subtotal of any cart is an int64.
LEMMA SubtotalIsInt64 ==
    ASSUME price \in [Wares -> Prices], cart \in [Wares -> Quantities]
    PROVE  P!ItemsSubtotal \in -Half .. Half - 1
  <1> DEFINE S == P!InCart
             f == [p \in Wares |-> P!Int64(price[p] * cart[p])]
             g == CHOOSE it : it = [s \in SUBSET S |->
                      IF s = {} THEN 0
                      ELSE P!Int64(it[s \ {FirstOf(s)}] + P!Int64(price[FirstOf(s)] * cart[FirstOf(s)]))]
  <1>1. S \in SUBSET Wares /\ IsFiniteSet(S)
    BY PriceConstants, FS_Subset DEF P!InCart
  <1>2. PICK it : Subtotals(it, f, SUBSET S)
    BY <1>1, SubtotalsExist
  <1>3. \A s \in SUBSET S : s # {} =>
            f[FirstOf(s)] = P!Int64(price[FirstOf(s)] * cart[FirstOf(s)])
    BY <1>1, FirstIsIn
  <1>4. it = [s \in SUBSET S |->
                 IF s = {} THEN 0
                 ELSE P!Int64(it[s \ {FirstOf(s)}] + P!Int64(price[FirstOf(s)] * cart[FirstOf(s)]))]
    <2> HIDE DEF S, f
    <2> QED BY <1>2, <1>3 DEF Subtotals
  <1>5. g = [s \in SUBSET S |->
                IF s = {} THEN 0
                ELSE P!Int64(g[s \ {FirstOf(s)}] + P!Int64(price[FirstOf(s)] * cart[FirstOf(s)]))]
    <2> HIDE DEF S
    <2> QED BY <1>4
  <1>6. P!ItemsSubtotal = g[S]
    BY Zenon DEF P!ItemsSubtotal, P!FoldSet, P!MapThenFoldSet, FirstOf
  <1> HIDE DEF g, f
  <1>7. \A s \in SUBSET S : g[s] \in -Half .. Half - 1
    <2> DEFINE Wrong == {s \in SUBSET S : g[s] \notin -Half .. Half - 1}
    <2> SUFFICES ASSUME Wrong # {}
                 PROVE  FALSE
      OBVIOUS
    <2>1. \A s \in Wrong : IsFiniteSet(s)
      BY <1>1, FS_Subset
    <2>2. PICK s \in Wrong : \A x \in s : s \ {x} \notin Wrong
      <3> HIDE DEF Wrong
      <3> QED BY <2>1, SmallestSet, Zenon
    <2> HIDE DEF S
    <2> DEFINE x == FirstOf(s)
    <2>3. s # {}
      BY <1>5, PriceConstants
    <2>4. x \in s /\ s \ {x} \in SUBSET S /\ s \ {x} \notin Wrong
      BY <2>2, <2>3, FirstIsIn
    <2>5. g[s] = P!Int64(g[s \ {x}] + P!Int64(price[x] * cart[x]))
      BY <1>5, <2>3
    <2> HIDE DEF x
    <2>6. price[x] * cart[x] \in Int
      <3>1. x \in Wares
        BY <1>1, <2>4
      <3>2. price[x] \in Int /\ cart[x] \in Int
        BY <3>1, PriceConstants
      <3> QED BY <3>2
    <2>7. P!Int64(price[x] * cart[x]) \in Int /\ g[s \ {x}] \in Int
      BY <2>4, <2>6, Int64Wraps, PriceConstants
    <2> QED BY <2>5, <2>7, Int64Wraps
  <1> QED BY <1>6, <1>7

PriceInv ==
    /\ P!TypeOK
    /\ P!MoneyAddsUp
    /\ P!GoodsAreShipped
    /\ shipping.standard \in 0 .. Half - 1 /\ shipping.express \in 0 .. Half - 1

LEMMA PriceTypes ==
    ASSUME PriceInv
    PROVE  /\ shipping \in [standard : Nat, express : Nat, threshold : Nat, configured : BOOLEAN]
           /\ price \in [Wares -> Prices] /\ cart \in [Wares -> Quantities] /\ row \in Coupons
           /\ used \in [own : 0..MaxUses, others : 0..MaxUses] /\ clock \in 0..3
           /\ shipping.standard \in 0 .. Half - 1 /\ shipping.express \in 0 .. Half - 1
  BY DEF PriceInv, P!TypeOK

\* A coupon takes off no more than the goods cost.
LEMMA DiscountIsBounded ==
    ASSUME NEW c \in Coupons, NEW subtotal \in 0 .. Half - 1
    PROVE  P!CalculateDiscount(c, subtotal) \in 0 .. subtotal
  <1> DEFINE d == IF c.kind = "percent" THEN P!Quotient(P!Int64(subtotal * c.value), Hundred)
                  ELSE c.value
  <1>1. subtotal \in Int /\ c.value \in Int
    BY PriceConstants
  <1>2. P!Int64(subtotal * c.value) \in Int
    <2>1. subtotal * c.value \in Int
      BY <1>1
    <2> QED BY <2>1, Int64Wraps, PriceConstants
  <1>3. P!Quotient(P!Int64(subtotal * c.value), Hundred) \in Int
    <2> DEFINE a == P!Int64(subtotal * c.value)
    <2>1. a \in Int /\ -a \in Int
      BY <1>2
    <2> HIDE DEF a
    <2>2. a \div Hundred \in Int /\ (-a) \div Hundred \in Int
      BY <2>1, PriceConstants
    <2>3. P!Quotient(a, Hundred) \in Int
      BY <2>2 DEF P!Quotient
    <2> QED BY <2>3 DEF a
  <1>4. d \in Int
    BY <1>1, <1>3
  <1>5. P!CalculateDiscount(c, subtotal) = IF subtotal <= 0 THEN 0 ELSE P!Clamped(d, subtotal)
    BY DEF P!CalculateDiscount
  <1> HIDE DEF d
  <1> QED BY <1>1, <1>4, <1>5, PriceConstants DEF P!Clamped

LEMMA PriceInit == P!Init => PriceInv
  <1> SUFFICES ASSUME P!Init
               PROVE  PriceInv
    OBVIOUS
  <1>1. PICK standard \in Fees \cup {None}, express \in Fees \cup {None},
             threshold \in Fees \cup {None}, production \in BOOLEAN :
                 shipping = P!LoadShipping(standard, express, threshold, production)
    BY DEF P!Init
  <1>2. /\ shipping.standard \in 0 .. Half - 1 /\ shipping.express \in 0 .. Half - 1
        /\ shipping \in [standard : Nat, express : Nat, threshold : Nat, configured : BOOLEAN]
    <2> DEFINE s == IF standard = None THEN 1 ELSE standard
               e == IF express = None THEN 2 ELSE express
               t == IF threshold = None THEN 0 ELSE threshold
               c == ~production \/ (standard # None /\ express # None)
    <2>1. \A x \in Fees : x \in 0 .. Half - 1
      BY PriceConstants
    <2>2. s \in 0 .. Half - 1 /\ e \in 0 .. Half - 1 /\ t \in 0 .. Half - 1
      <3>1. 0 \in 0 .. Half - 1 /\ 1 \in 0 .. Half - 1 /\ 2 \in 0 .. Half - 1
        BY PriceConstants
      <3> HIDE DEF c
      <3> QED BY <1>1, <2>1, <3>1
    <2>3. c \in BOOLEAN
      OBVIOUS
    <2>4. shipping = [standard |-> s, express |-> e, threshold |-> t, configured |-> c]
      BY <1>1 DEF P!LoadShipping
    <2> HIDE DEF s, e, t, c
    <2> QED BY <2>2, <2>3, <2>4, PriceConstants
  <1>3. cart \in [Wares -> Quantities]
    BY StorefrontAssumption DEF P!Init, P!PricingAssumption
  <1>4. P!TypeOK
    BY <1>2, <1>3 DEF P!Init, P!TypeOK
  <1>5. order = None
    BY DEF P!Init
  <1> QED BY <1>2, <1>4, <1>5 DEF PriceInv, P!MoneyAddsUp, P!GoodsAreShipped

\* What an order was stored with: every amount is exact, though each is an int64.
LEMMA OrderAddsUp ==
    ASSUME PriceInv, NEW asked \in P!Methods, NEW withCoupon \in BOOLEAN,
           P!CreateFromCart(asked, withCoupon)
    PROVE  /\ PriceInv'
           /\ withCoupon => order'.discount_amount = P!Preview
  <1> DEFINE subtotal == P!ItemsSubtotal
             discount == IF withCoupon THEN P!Eligible(subtotal) ELSE 0
             method   == IF P!InCart \subseteq Digital THEN "digital" ELSE asked
             net      == P!Int64(subtotal - discount)
             fee      == P!Fee(method, net)
             total    == P!Int64(net + fee)
  <1>1. /\ P!Orderable(asked) /\ discount # None /\ subtotal >= 0 /\ discount >= 0 /\ total >= 0
        /\ withCoupon => used.own < MaxUses
        /\ order' = [items |-> P!InCart, items_subtotal |-> subtotal, discount_amount |-> discount,
                     shipping_method |-> method, shipping_fee |-> fee, total |-> total]
        /\ cart' = [p \in Wares |-> 0] /\ UNCHANGED <<shipping, price, row, clock>>
    BY DEF P!CreateFromCart
  <1>2. used' = [used EXCEPT !.own = IF withCoupon THEN used.own + 1 ELSE used.own]
    BY PriceTypes DEF P!CreateFromCart
  <1>3. subtotal \in 0 .. Half - 1
    <2>1. subtotal \in -Half .. Half - 1
      BY PriceTypes, SubtotalIsInt64
    <2> HIDE DEF subtotal
    <2> QED BY <1>1, <2>1, PriceConstants
  <1>4. withCoupon => discount = P!CalculateDiscount(row, subtotal)
    BY <1>1 DEF P!Eligible
  <1>5. withCoupon => discount = P!Preview
    BY <1>1 DEF P!Preview, P!Eligible, P!EligiblePreview, P!Orderable
  <1> HIDE DEF subtotal
  <1>6. discount \in 0 .. subtotal
    BY <1>3, <1>4, PriceTypes, DiscountIsBounded, PriceConstants
  <1> HIDE DEF discount
  <1>7. net = subtotal - discount /\ net \in 0 .. Half - 1
    <2>1. subtotal - discount \in 0 .. Half - 1
      BY <1>3, <1>6, PriceConstants
    <2>2. subtotal - discount \in Int /\ subtotal - discount \in -Half .. Half - 1
      BY <2>1, PriceConstants
    <2> QED BY <2>1, <2>2, Int64Wraps
  <1>8. /\ P!InCart # {} /\ P!InCart \in SUBSET Wares
        /\ asked = "digital" => P!InCart \subseteq Digital
        /\ asked = "digital" \/ shipping.configured
    BY <1>1 DEF P!Orderable, P!Fee, P!InCart
  <1>9. /\ method \in P!Methods
        /\ ~(P!InCart \subseteq Digital) => method # "digital" /\ shipping.configured
        /\ method = "digital" \/ shipping.configured
    BY <1>8 DEF P!Methods
  <1> HIDE DEF net, method
  <1>10. fee \in 0 .. Half - 1
    BY <1>9, PriceTypes, PriceConstants DEF P!Fee
  <1> HIDE DEF fee
  <1>11. total = net + fee /\ total \in 0 .. Half - 1
    <2>1. net + fee \in 0 .. 2 * Half - 1 /\ net + fee \in Int
      BY <1>7, <1>10, PriceConstants
    <2>2. net + fee < Half
      <3> SUFFICES ASSUME net + fee >= Half
                   PROVE  FALSE
        BY <2>1, PriceConstants
      <3>1. net + fee \in Half .. 3 * Half - 1
        BY <2>1, PriceConstants
      <3>2. total = (net + fee) - 2 * Half
        BY <2>1, <3>1, Int64Wraps
      <3> QED BY <1>1, <2>1, <3>2, PriceConstants
    <2>3. net + fee \in -Half .. Half - 1 /\ net + fee \in 0 .. Half - 1
      BY <2>1, <2>2, PriceConstants
    <2> QED BY <2>1, <2>3, Int64Wraps
  <1> HIDE DEF total
  <1>12. used' \in [own : 0..MaxUses, others : 0..MaxUses]
    <2> DEFINE own == IF withCoupon THEN used.own + 1 ELSE used.own
    <2>1. own \in 0..MaxUses
      BY <1>1, PriceTypes, PriceConstants
    <2>2. used' = [used EXCEPT !.own = own]
      BY <1>2
    <2> HIDE DEF own
    <2> QED BY <2>1, <2>2, PriceTypes
  <1>13. cart' \in [Wares -> Quantities]
    BY <1>1, StorefrontAssumption DEF P!PricingAssumption
  <1>14. /\ order'.items = P!InCart /\ order'.items_subtotal = subtotal
         /\ order'.discount_amount = discount /\ order'.shipping_method = method
         /\ order'.shipping_fee = fee /\ order'.total = total
    BY <1>1
  <1>15. discount \in 0 .. Half - 1
    BY <1>3, <1>6, PriceConstants
  <1>16. P!TypeOK'
    <2>1. /\ order'.items \in (SUBSET Wares) \ {{}} /\ order'.shipping_method \in P!Methods
          /\ {order'.items_subtotal, order'.discount_amount, order'.shipping_fee, order'.total}
                \subseteq 0..Half - 1
      <3>1. order'.items \in (SUBSET Wares) \ {{}} /\ order'.shipping_method \in P!Methods
        <4>1. order'.items \in SUBSET Wares /\ order'.items # {}
          BY <1>8, <1>14
        <4>2. order'.shipping_method \in P!Methods
          BY <1>9, <1>14
        <4> QED BY <4>1, <4>2
      <3>2. /\ order'.items_subtotal \in 0..Half - 1 /\ order'.discount_amount \in 0..Half - 1
            /\ order'.shipping_fee \in 0..Half - 1 /\ order'.total \in 0..Half - 1
        BY <1>3, <1>10, <1>11, <1>14, <1>15
      <3> QED BY <3>1, <3>2
    <2> QED BY <1>1, <1>12, <1>13, <2>1, PriceTypes DEF P!TypeOK
  <1>17. P!MoneyAddsUp'
    <2>1. total = subtotal - discount + fee
      BY <1>7, <1>11
    <2> QED BY <1>6, <1>14, <2>1 DEF P!MoneyAddsUp
  <1>18. P!GoodsAreShipped'
    BY <1>1, <1>9, <1>14 DEF P!GoodsAreShipped
  <1>19. PriceInv'
    BY <1>1, <1>16, <1>17, <1>18, PriceTypes DEF PriceInv
  <1> QED BY <1>5, <1>14, <1>19

LEMMA PriceStep ==
    ASSUME PriceInv, P!Next \/ UNCHANGED priceVars
    PROVE  PriceInv'
  <1>1. ASSUME NEW p \in Wares, NEW n \in Quantities, P!FillCart(p, n)
        PROVE  PriceInv'
    <2>1. cart' \in [Wares -> Quantities] /\ order' = None
      BY <1>1, PriceTypes DEF P!FillCart
    <2>2. UNCHANGED <<shipping, price, row, used, clock>>
      BY <1>1 DEF P!FillCart
    <2>3. P!TypeOK'
      BY <2>1, <2>2, PriceTypes DEF P!TypeOK
    <2> QED BY <2>1, <2>2, <2>3, PriceTypes DEF PriceInv, P!MoneyAddsUp, P!GoodsAreShipped
  <1>2. CASE UNCHANGED priceVars
    BY <1>2 DEF priceVars, PriceInv, P!TypeOK, P!MoneyAddsUp, P!GoodsAreShipped
  <1> QED BY <1>1, <1>2, OrderAddsUp DEF P!Next

\* What PreviewIsCharged says of a step.
LEMMA PreviewStep ==
    ASSUME PriceInv, P!Next \/ UNCHANGED priceVars, used'.own > used.own
    PROVE  order'.discount_amount = P!Preview
  <1>1. used.own \in Int
    BY PriceTypes, PriceConstants
  <1>2. ~UNCHANGED used
    BY <1>1
  <1>3. PICK asked \in P!Methods, withCoupon \in BOOLEAN : P!CreateFromCart(asked, withCoupon)
    BY <1>2 DEF P!Next, P!FillCart, priceVars
  <1>4. withCoupon
    <2>1. used' = [used EXCEPT !.own = IF withCoupon THEN used.own + 1 ELSE used.own]
      BY <1>3, PriceTypes DEF P!CreateFromCart
    <2> QED BY <1>1, <2>1, PriceTypes
  <1> QED BY <1>3, <1>4, OrderAddsUp

-----------------------------------------------------------------------------
(* The parts together.                                                     *)

LEMMA StorefrontStep ==
    ASSUME [Next]_vars
    PROVE  /\ W!Next \/ UNCHANGED wishVars
           /\ R!Next \/ UNCHANGED reviewVars
           /\ A!Next \/ UNCHANGED articleVars
           /\ C!Next \/ UNCHANGED couponVars
           /\ I!Next \/ UNCHANGED imageVars
           /\ L!Next \/ UNCHANGED limitVars
           /\ P!Next \/ UNCHANGED priceVars
  BY DEF Next, vars

\* However merges into a customer's wishlist race with one another, with removals and with
\* products that go: the list keeps within its cap, and a merge takes in what there is room for.
THEOREM WishlistIsSafe == Spec => WishlistSafety
  <1>1. Init => WishInv
    BY WishInit DEF Init
  <1>2. WishInv /\ [Next]_vars => WishInv'
    BY StorefrontStep, WishStep
  <1>3. WishInv => W!TypeOK /\ W!WishlistIsCapped
    BY DEF WishInv
  <1>4. WishInv /\ [Next]_vars =>
            [\A m \in Merges :
                LET u == merge[m].user IN
                merge[m].at = "inserting" /\ merge'[m].at = "written" =>
                    \/ merge[m].ids \cap onSale \subseteq wish[u] \cup merge'[m].written
                    \/ W!Cardinality(wish[u] \cup merge'[m].written) = Cap]_(W!vars)
    BY StorefrontStep, FillStep
  <1> QED BY <1>1, <1>2, <1>3, <1>4, PTL
          DEF Spec, WishlistSafety, W!WishlistSafety, W!MergesFillTheList

\* However authors rewrite reviews while moderators decide on them: what a page shows of a
\* review changes by a moderator's decision only, and goes down when its author writes again.
THEOREM ReviewsAreSafe == Spec => ReviewsSafety
  <1>1. Init => ReviewInv
    BY ReviewInit DEF Init
  <1>2. ReviewInv /\ [Next]_vars => ReviewInv'
    BY StorefrontStep, ReviewStep
  <1>3. ReviewInv => R!TypeOK
    BY DEF ReviewInv
  <1>4. ReviewInv /\ [Next]_vars =>
            [\A p \in R!Pairs : R!Published(p)' =>
                \/ R!Published(p) /\ review'[p].text = review[p].text
                \/ \E a \in Admins : page[a][p] # None /\ ~R!Published(p)]_(R!vars)
    BY StorefrontStep, PublishStep
  <1> QED BY <1>1, <1>2, <1>3, <1>4, PTL
          DEF Spec, ReviewsSafety, R!ReviewsSafety, R!OnlyModeratorsPublish

\* However edits of articles race: what is published has the date by which it is listed,
\* and the date moves only under an edit that had not seen it.
THEOREM ArticlesAreSafe == Spec => ArticlesSafety
  <1>1. Init => ArticleInv
    BY ArticleInit DEF Init
  <1>2. ArticleInv /\ [Next]_vars => ArticleInv'
    BY StorefrontStep, ArticleStep
  <1>3. ArticleInv => A!TypeOK /\ A!PublishedHasDate
    BY DEF ArticleInv
  <1>4. ArticleInv /\ [Next]_vars =>
            [\A r \in Edits :
                LET i == edit[r].id IN
                edit[r].at = "writing" /\ edit'[r].at = "done" /\ article[i].published_at # None =>
                    \/ article'[i].published_at = article[i].published_at
                    \/ edit[r].before.published_at # article[i].published_at]_(A!vars)
    BY StorefrontStep, DatesStep
  <1> QED BY <1>1, <1>2, <1>3, <1>4, PTL
          DEF Spec, ArticlesSafety, A!ArticlesSafety, A!DatesMoveInRacesOnly

\* However edits of coupons race: the table takes what one of them validated, save a limit
\* too wide for its column, and a field that an edit does not carry changes only in a race.
THEOREM CouponsAreSafe == Spec => CouponsSafety
  <1>1. Init => CouponInv
    BY CouponInit DEF Init
  <1>2. CouponInv /\ [Next]_vars => CouponInv'
    BY StorefrontStep, CouponStep
  <1>3. CouponInv => C!TypeOK /\ C!ValidatedIsStored
    BY DEF CouponInv, ChangeHolds, C!ValidatedIsStored
  <1>4. CouponInv /\ [Next]_vars =>
            [\A r \in Changes :
                LET q == change[r] IN
                q.at = "writing" /\ change'[r].at = "done" /\ q.before = coupon[q.id] =>
                    \A f \in C!Fields :
                        q.body[f] = Omitted => coupon'[q.id][f] = coupon[q.id][f]]_(C!vars)
    BY StorefrontStep, FieldsStep
  <1> QED BY <1>1, <1>2, <1>3, <1>4, PTL
          DEF Spec, CouponsSafety, C!CouponsSafety, C!EditsAreLostInRacesOnly

\* However saves and deletions of products and articles race over the images they share, and
\* whichever of their queries and removals fail: an upload loses its file only after nothing
\* has shown it any more; one that was taken up again, only if a save named it between a
\* clean-up's query and its removal; and a product's save that ran alone leaves no unused file
\* behind but those whose own query or removal failed.
THEOREM ImagesAreSafe == Spec => ImagesSafety
  <1>1. Init => ImageInv /\ KeptInv
    <2> SUFFICES ASSUME Init
                 PROVE  ImageInv /\ KeptInv
      OBVIOUS
    <2>1. ImageInv
      BY ImageInit DEF Init
    <2>2. I!Init
      BY DEF Init
    <2>3. \A r \in Saves : OnceShown(save[r], item, released)
      BY <2>2, IdleClaimsNothing DEF I!Init, I!Ended
    <2>4. given \ disk \subseteq released
      BY <2>2 DEF I!Init
    <2> QED BY <2>1, <2>3, <2>4 DEF KeptInv
  <1>2. ImageInv /\ KeptInv /\ [Next]_vars => ImageInv' /\ KeptInv'
    BY StorefrontStep, ImageStep, KeptStep
  <1>3. ImageInv /\ KeptInv => I!TypeOK /\ given \ disk \subseteq released
    BY DEF ImageInv, KeptInv
  <1>4. ImageInv /\ [Next]_vars =>
            [\A r \in Saves :
                save[r].at = "removing" /\ disk' # disk /\ save'[r].at = "cleaning" =>
                    ~I!Shown(save[r].image) \/ save[r].renamed]_(I!vars)
    BY RemovalStep
  <1>5. ImageInv /\ [Next]_vars =>
            [\A r \in Saves :
                LET q == save[r] IN
                /\ q.at = "cleaning" /\ save'[r].at = "done"
                /\ q.alone /\ q.item \in Pictured /\ q.before # None
                => \A x \in disk \cap ({q.before.main} \cup q.before.inside) :
                       I!Shown(x) \/ x \in q.left]_(I!vars)
    BY StorefrontStep, TidyStep
  <1> QED BY <1>1, <1>2, <1>3, <1>4, <1>5, PTL
          DEF Spec, ImagesSafety, I!ImagesSafety, I!ImagesInUseStay, I!LossesFallInTheGap,
              I!AloneItTidies

\* Whatever the pace of the clients: the limiter with its cleaned, bounded table answers as one
\* that forgets nothing, who waits as long as Retry-After says is served, and only recent
\* clients keep a newcomer out.
THEOREM LimiterIsSafe == Spec => RateLimitSafety
  <1>1. Init => LimitInv
    BY LimitInit DEF Init
  <1>2. LimitInv /\ [Next]_vars => LimitInv'
    BY StorefrontStep, LimitStep
  <1>3. LimitInv => L!TypeOK /\ L!RetryAfterIsEnough /\ L!RoomIsForTheRecent
    BY AnswersHold
  <1>4. LimitInv /\ [Next]_vars =>
            [\A c \in Clients : /\ L!Serve(c) => ideal[c] >= Window
                                /\ L!Refuse(c) => ideal[c] < Window]_(L!vars)
    BY AnswersHold
  <1> QED BY <1>1, <1>2, <1>3, <1>4, PTL
          DEF Spec, RateLimitSafety, L!RateLimitSafety, L!CleanupIsInvisible

\* Whatever a product or a sum of 64 bits wraps to, an order that was stored adds up, costs no
\* less than its shipping, is shipped as its goods need, and takes off what the preview told.
THEOREM PricesAreSafe == Spec => PricingSafety
  <1>1. Init => PriceInv
    BY PriceInit DEF Init
  <1>2. PriceInv /\ [Next]_vars => PriceInv'
    BY StorefrontStep, PriceStep
  <1>3. PriceInv => P!TypeOK /\ P!MoneyAddsUp /\ P!GoodsAreShipped
    BY DEF PriceInv
  <1>4. PriceInv /\ [Next]_vars =>
            [used'.own > used.own => order'.discount_amount = P!Preview]_(P!vars)
    BY StorefrontStep, PreviewStep
  <1> QED BY <1>1, <1>2, <1>3, <1>4, PTL
          DEF Spec, PricingSafety, P!PricingSafety, P!PreviewIsCharged
=============================================================================
