-------------------------- MODULE CategoriesProofs --------------------------
(***************************************************************************)
(* Proofs about Categories, for any number of items, categories and        *)
(* requests, products and articles alike.                                  *)
(***************************************************************************)
EXTENDS Categories, FiniteSetTheorems, TLAPS

Ats == {"idle", "checking", "locking", "writing", "written",
        "counting", "deleting", "detaching", "deleted"} \cup Ended

RequestRow == [at : Ats, item : Items \cup {None}, category : Categories \cup {None},
               holds : SUBSET (Items \cup Categories)]

Typed ==
    /\ there \in SUBSET Categories
    /\ DOMAIN filed \in SUBSET Items
    /\ filed \in [DOMAIN filed -> Categories \cup {None}]
    /\ request \in [Requests -> RequestRow]

\* What a request is about.
Kinds(r) ==
    /\ request[r].at \in {"checking", "locking", "writing", "written"} => request[r].item \in Items
    /\ request[r].at \in {"counting", "deleting", "detaching", "deleted"} =>
          request[r].item = None /\ request[r].category \in Categories

\* Whatever a save is about to file its item under is there, by the key it took
\* or because the item is filed there; and a deletion holds whatever is filed
\* under what it deletes.
Holds(r) ==
    LET i == request[r].item
        c == request[r].category
        h == request[r].holds
    IN
    /\ request[r].at \in {"idle", "checking", "locking", "counting", "deleting"} \cup Ended => h = {}
    /\ request[r].at = "locking" => i \in DOMAIN filed
    /\ request[r].at = "writing" => h = {i} \cap DOMAIN filed
    /\ request[r].at = "written" =>
          /\ i \in h /\ h \subseteq {i, c}
          /\ c # None => c \in there /\ (c \in h \/ i \in Filed(c))
    /\ request[r].at = "detaching" => h = {c} /\ c \in there
    /\ request[r].at = "deleted" =>
          c \in there /\ c \in h /\ h \subseteq {c} \cup DOMAIN filed /\ Filed(c) \subseteq h

\* An item that is not there yet is made by one request.
Fresh(r) ==
    request[r].item \notin DOMAIN filed \cup {None} =>
        \A q \in Requests \ {r} : request[q].item # request[r].item

\* Two requests hold one row only as two saves that share a key.
Apart(p, q) ==
    \A x \in request[p].holds \cap request[q].holds :
        x \in Categories \ Items /\ Saving(p) /\ Saving(q)

Begun == {r \in Requests : request[r].at # "idle"}

IInv ==
    /\ Typed
    /\ \A r \in Requests : Kinds(r) /\ Holds(r) /\ Fresh(r)
    /\ \A p, q \in Requests : p # q => Apart(p, q)
    /\ FiledUnderWhatIsThere
    /\ IsFiniteSet(Begun)

-----------------------------------------------------------------------------
(* Requests and rows.                                                      *)

LEMMA RowTypes ==
    ASSUME Typed, NEW r \in Requests
    PROVE  /\ request[r] \in RequestRow /\ request[r].at \in Ats
           /\ request[r].item \in Items \cup {None}
           /\ request[r].category \in Categories \cup {None}
           /\ request[r].holds \subseteq Items \cup Categories
  BY DEF Typed, RequestRow

\* Whoever holds an item holds one that is there, or the one it makes.
LEMMA HeldItem ==
    ASSUME CategoriesAssumption, IInv, NEW q \in Requests, NEW x \in Items,
           x \in request[q].holds
    PROVE  x \in DOMAIN filed \/ request[q].item = x
  <1>1. Kinds(q) /\ Holds(q) /\ request[q].at \in Ats
        /\ request[q].category \in Categories \cup {None}
    BY RowTypes DEF IInv
  <1>2. x # request[q].category
    BY <1>1 DEF CategoriesAssumption
  <1> QED BY <1>1, <1>2 DEF Holds, Ats

\* A request that neither starts nor stops being a save and files nothing.
LEMMA RequestOnly ==
    ASSUME IInv, NEW r \in Requests, NEW s \in RequestRow,
           request' = [request EXCEPT ![r] = s], UNCHANGED <<there, filed>>,
           Kinds(r)', Holds(r)',
           s.item \in {request[r].item, None} \cup DOMAIN filed \/ s.item \notin Born,
           \A q \in Requests \ {r} : Apart(r, q)'
    PROVE  IInv'
  <1>1. request' \in [Requests -> RequestRow] /\ request'[r] = s
        /\ \A q \in Requests \ {r} : request'[q] = request[q]
    BY DEF IInv, Typed
  <1>2. Typed'
    BY <1>1 DEF IInv, Typed
  <1>3. ASSUME NEW q \in Requests \ {r} PROVE Kinds(q)' /\ Holds(q)'
    <2>1. Kinds(q) /\ Holds(q) /\ request'[q] = request[q]
      BY <1>1 DEF IInv
    <2> QED BY <2>1 DEF Kinds, Holds, Filed
  <1>4. ASSUME NEW q \in Requests PROVE Fresh(q)'
    <2>1. Fresh(q) /\ Fresh(r) /\ \A p \in Requests : request[p].item \in Born
      BY DEF IInv, Born
    <2>2. CASE q = r
      BY <1>1, <2>1, <2>2 DEF Fresh
    <2>3. CASE q # r
      BY <1>1, <2>1, <2>3 DEF Fresh
    <2> QED BY <2>2, <2>3
  <1>5. ASSUME NEW p \in Requests, NEW q \in Requests, p # q PROVE Apart(p, q)'
    <2>1. CASE p = r
      BY <1>5, <2>1
    <2>2. CASE q = r
      <3>1. Apart(q, p)'
        BY <1>5, <2>2
      <3> QED BY <3>1 DEF Apart
    <2>3. CASE p # r /\ q # r
      <3>1. Apart(p, q) /\ request'[p] = request[p] /\ request'[q] = request[q]
        BY <1>1, <1>5, <2>3 DEF IInv
      <3> QED BY <3>1 DEF Apart, Saving
    <2> QED BY <2>1, <2>2, <2>3
  <1>6. FiledUnderWhatIsThere'
    BY DEF IInv, FiledUnderWhatIsThere
  <1>7. IsFiniteSet(Begun')
    <2>1. Begun' \subseteq Begun \cup {r}
      BY <1>1 DEF Begun
    <2>2. IsFiniteSet(Begun \cup {r})
      BY FS_AddElement DEF IInv
    <2> QED BY <2>1, <2>2, FS_Subset
  <1> QED BY <1>2, <1>3, <1>4, <1>5, <1>6, <1>7 DEF IInv

\* The request is where its next statement leaves it.
Moved(r, a, h) == request' = [request EXCEPT ![r].at = a, ![r].holds = h]

\* What r's next statement makes of r; the invariant then asks about r alone.
LEMMA Moves ==
    ASSUME IInv, NEW r \in Requests, NEW a \in Ats, NEW h \in SUBSET (Items \cup Categories),
           Moved(r, a, h), UNCHANGED <<there, filed>>
    PROVE  /\ request'[r].at = a /\ request'[r].holds = h
           /\ request'[r].item = request[r].item /\ request'[r].category = request[r].category
           /\ \A q \in Requests \ {r} : request'[q] = request[q]
           /\ Kinds(r)' /\ Holds(r)' /\ (\A q \in Requests \ {r} : Apart(r, q)') => IInv'
  <1> DEFINE s == [request[r] EXCEPT !.at = a, !.holds = h]
  <1>1. /\ s \in RequestRow /\ s.at = a /\ s.holds = h
        /\ s.item = request[r].item /\ s.category = request[r].category
        /\ request' = [request EXCEPT ![r] = s]
    <2>1. request[r] \in RequestRow /\ request \in [Requests -> RequestRow]
      BY DEF IInv, Typed
    <2>2. /\ s \in RequestRow /\ s.at = a /\ s.holds = h
          /\ s.item = request[r].item /\ s.category = request[r].category
      BY <2>1 DEF RequestRow
    <2>3. request' = [request EXCEPT ![r] = s]
      BY <2>1 DEF RequestRow, Moved
    <2> QED BY <2>2, <2>3
  <1> HIDE DEF s
  <1>2. request'[r] = s /\ \A q \in Requests \ {r} : request'[q] = request[q]
    BY <1>1 DEF IInv, Typed
  <1>3. Kinds(r)' /\ Holds(r)' /\ (\A q \in Requests \ {r} : Apart(r, q)') => IInv'
    BY <1>1, RequestOnly
  <1> QED BY <1>1, <1>2, <1>3

LEMMA GotoIs ==
    ASSUME Typed, NEW r \in Requests, NEW a \in Ats, Goto(r, a)
    PROVE  Moved(r, a, request[r].holds)
  <1>1. request[r] \in RequestRow /\ request \in [Requests -> RequestRow]
    BY DEF Typed
  <1> QED BY <1>1 DEF RequestRow, Goto, Moved

\* A request that ends has let go of everything.
LEMMA EndStep ==
    ASSUME IInv, NEW r \in Requests, NEW a \in Ended, End(r, a), UNCHANGED <<there, filed>>
    PROVE  IInv'
  <1>1. /\ a \in Ats /\ {} \in SUBSET (Items \cup Categories)
        /\ Moved(r, a, {})
    BY DEF Ats, End, Moved
  <1>2. /\ request'[r].at = a /\ request'[r].holds = {}
        /\ Kinds(r)' /\ Holds(r)' /\ (\A q \in Requests \ {r} : Apart(r, q)') => IInv'
    BY <1>1, Moves
  <1>3. Kinds(r)' /\ Holds(r)'
    BY <1>2 DEF Kinds, Holds, Ended
  <1>4. \A q \in Requests \ {r} : Apart(r, q)'
    BY <1>2 DEF Apart
  <1> QED BY <1>2, <1>3, <1>4

\* A request that goes on with the rows it holds.
LEMMA GotoStep ==
    ASSUME IInv, NEW r \in Requests, NEW a \in Ats, Goto(r, a), UNCHANGED <<there, filed>>
    PROVE  /\ request'[r].at = a /\ request'[r].holds = request[r].holds
           /\ request'[r].item = request[r].item /\ request'[r].category = request[r].category
           /\ Kinds(r)' /\ Holds(r)' => IInv'
  <1>1. request[r].holds \in SUBSET (Items \cup Categories) /\ Typed
    BY RowTypes DEF IInv
  <1>2. Moved(r, a, request[r].holds)
    BY <1>1, GotoIs
  <1>3. /\ request'[r].at = a /\ request'[r].holds = request[r].holds
        /\ request'[r].item = request[r].item /\ request'[r].category = request[r].category
        /\ \A q \in Requests \ {r} : request'[q] = request[q]
        /\ Kinds(r)' /\ Holds(r)' /\ (\A q \in Requests \ {r} : Apart(r, q)') => IInv'
    BY <1>1, <1>2, Moves
  <1>4. \A q \in Requests \ {r} : Apart(r, q)'
    BY <1>3 DEF IInv, Apart, Saving
  <1> QED BY <1>3, <1>4

-----------------------------------------------------------------------------
(* One lemma per operation.                                                *)

LEMMA BeginStep ==
    ASSUME CategoriesAssumption, IInv, NEW r \in Requests, NEW i \in Items \cup {None},
           NEW c \in Categories \cup {None}, NEW a \in Ats, Begin(r, i, c, a),
           \/ a \in {"checking", "writing"} /\ i \in Items /\ i \notin Born
           \/ a \in {"checking", "locking"} /\ i \in DOMAIN filed
           \/ a \in {"counting", "deleting"} /\ i = None /\ c \in Categories
    PROVE  IInv'
  <1> DEFINE s == [Idle EXCEPT !.at = a, !.item = i, !.category = c]
  <1>1. Idle \in RequestRow /\ Idle.holds = {}
    BY DEF Idle, RequestRow, Ats
  <1>2. s \in RequestRow /\ s.at = a /\ s.item = i /\ s.category = c /\ s.holds = {}
    BY <1>1 DEF RequestRow
  <1>3. request' = [request EXCEPT ![r] = s] /\ UNCHANGED <<there, filed>>
    BY DEF Begin
  <1> HIDE DEF s
  <1>4. request'[r] = s
    BY <1>3 DEF IInv, Typed
  <1>5. DOMAIN filed \subseteq Items /\ DOMAIN filed \subseteq Born
    BY DEF IInv, Typed, Born
  <1>6. Kinds(r)'
    BY <1>2, <1>4, <1>5 DEF Kinds
  <1>7. Holds(r)'
    BY <1>2, <1>3, <1>4, <1>5 DEF Holds, Ended
  <1>8. \A q \in Requests \ {r} : Apart(r, q)'
    BY <1>2, <1>4 DEF Apart
  <1> QED BY <1>2, <1>3, <1>6, <1>7, <1>8, RequestOnly

LEMMA CheckCategoryStep ==
    ASSUME IInv, NEW r \in Requests, CheckCategory(r)
    PROVE  IInv'
  <1>1. request[r].at = "checking" /\ UNCHANGED <<there, filed>> /\ Kinds(r) /\ Holds(r)
    BY DEF CheckCategory, IInv
  <1>2. request[r].item \in Items /\ request[r].holds = {}
    BY <1>1 DEF Kinds, Holds
  <1>3. CASE request[r].category \notin there
    BY <1>1, <1>3, EndStep DEF CheckCategory, Ended
  <1>4. CASE request[r].category \in there
    <2> DEFINE a == IF request[r].item \in DOMAIN filed THEN "locking" ELSE "writing"
    <2>1. a \in Ats /\ Goto(r, a)
      BY <1>4 DEF CheckCategory, Ats
    <2>2. (request[r].item \in DOMAIN filed /\ a = "locking")
          \/ (request[r].item \notin DOMAIN filed /\ a = "writing")
      OBVIOUS
    <2> HIDE DEF a
    <2>3. /\ request'[r].at = a /\ request'[r].holds = {} /\ request'[r].item = request[r].item
          /\ Kinds(r)' /\ Holds(r)' => IInv'
      BY <1>1, <1>2, <2>1, GotoStep
    <2>4. Kinds(r)' /\ Holds(r)'
      BY <1>1, <1>2, <2>2, <2>3 DEF Kinds, Holds, Ended
    <2> QED BY <2>3, <2>4
  <1> QED BY <1>3, <1>4

LEMMA FreeRows ==
    ASSUME NEW r \in Requests, Blockers(r) = {}, NEW q \in Requests \ {r},
           NEW x \in Wanted(r), x \in request[q].holds
    PROVE  x \notin Items /\ Saving(r) /\ Saving(q)
  BY DEF Blockers

LEMMA LockItemStep ==
    ASSUME CategoriesAssumption, IInv, NEW r \in Requests, LockItem(r)
    PROVE  IInv'
  <1> DEFINE i == request[r].item
  <1>1. /\ request[r].at = "locking" /\ Blockers(r) = {} /\ UNCHANGED <<there, filed>>
        /\ Kinds(r) /\ Holds(r) /\ Wanted(r) = {i}
    BY DEF LockItem, IInv, Wanted
  <1>2. /\ i \in Items /\ i \in DOMAIN filed /\ request[r].holds = {}
        /\ {i} \in SUBSET (Items \cup Categories) /\ "writing" \in Ats
    BY <1>1 DEF Kinds, Holds, Ats
  <1>3. Moved(r, "writing", {i})
    BY <1>2 DEF LockItem, Holding, Moved
  <1>4. /\ request'[r].at = "writing" /\ request'[r].holds = {i} /\ request'[r].item = i
        /\ \A q \in Requests \ {r} : request'[q] = request[q]
        /\ Kinds(r)' /\ Holds(r)' /\ (\A q \in Requests \ {r} : Apart(r, q)') => IInv'
    BY <1>1, <1>2, <1>3, Moves
  <1>5. Kinds(r)' /\ Holds(r)'
    BY <1>1, <1>2, <1>4 DEF Kinds, Holds, Ended
  <1>6. ASSUME NEW q \in Requests \ {r} PROVE Apart(r, q)'
    <2>1. i \notin request[q].holds
      BY <1>1, <1>2, FreeRows
    <2> QED BY <1>4, <2>1 DEF Apart
  <1> QED BY <1>4, <1>5, <1>6

LEMMA WriteItemStep ==
    ASSUME CategoriesAssumption, IInv, NEW r \in Requests, WriteItem(r)
    PROVE  IInv'
  <1> DEFINE i == request[r].item
             c == request[r].category
  <1>1. /\ request[r].at = "writing" /\ Blockers(r) = {} /\ UNCHANGED <<there, filed>>
        /\ Typed /\ Kinds(r) /\ Holds(r) /\ Fresh(r) /\ FiledUnderWhatIsThere
    BY DEF WriteItem, IInv
  <1>2. /\ i \in Items /\ i # None /\ c \in Categories \cup {None}
        /\ request[r].holds = {i} \cap DOMAIN filed
    BY <1>1, RowTypes DEF Kinds, Holds, CategoriesAssumption
  <1>3. CASE KeyWanted(r) /\ c \notin there
    BY <1>1, <1>3, EndStep DEF WriteItem, Ended
  <1>4. CASE ~(KeyWanted(r) /\ c \notin there)
    <2> DEFINE h == {i} \cup (IF KeyWanted(r) THEN {c} ELSE {})
    <2>1. KeyWanted(r) => c \in Categories /\ c \in there /\ Wanted(r) = {c}
      BY <1>1, <1>2, <1>4 DEF KeyWanted, Wanted
    <2>2. request[r].holds \cup h = h
      BY <1>2
    <2>3. Moved(r, "written", h)
      <3>1. Holding(r, h, "written")
        BY <1>4 DEF WriteItem
      <3> QED BY <2>2, <3>1 DEF Holding, Moved
    <2>4. h \in SUBSET (Items \cup Categories) /\ "written" \in Ats
      BY <1>2, <2>1 DEF Ats
    <2>5. i \in h /\ h \subseteq {i, c} /\ \A x \in h : x = i \/ (KeyWanted(r) /\ x = c)
      OBVIOUS
    <2>6. KeyWanted(r) => c \in h
      OBVIOUS
    <2> HIDE DEF h
    <2>7. /\ request'[r].at = "written" /\ request'[r].holds = h /\ request'[r].item = i
          /\ request'[r].category = c /\ \A q \in Requests \ {r} : request'[q] = request[q]
          /\ Kinds(r)' /\ Holds(r)' /\ (\A q \in Requests \ {r} : Apart(r, q)') => IInv'
      BY <1>1, <2>3, <2>4, Moves DEF IInv
    <2>8. c # None => c \in there /\ (c \in h \/ i \in Filed(c))
      <3>1. CASE KeyWanted(r)
        BY <2>1, <2>6, <3>1
      <3>2. CASE ~KeyWanted(r) /\ c # None
        <4>1. i \in DOMAIN filed /\ filed[i] = c
          BY <3>2 DEF KeyWanted
        <4> QED BY <1>1, <3>2, <4>1 DEF Filed, FiledUnderWhatIsThere
      <3> QED BY <3>1, <3>2
    <2>9. Kinds(r)'
      BY <1>2, <2>7 DEF Kinds
    <2>10. Holds(r)'
      BY <1>1, <2>5, <2>7, <2>8 DEF Holds, Ended, Filed
    <2>11. ASSUME NEW q \in Requests \ {r} PROVE Apart(r, q)'
      <3>1. i \notin request[q].holds
        <4>1. SUFFICES ASSUME i \in request[q].holds PROVE FALSE
          OBVIOUS
        <4>2. i \in DOMAIN filed \/ request[q].item = i
          BY <1>2, <4>1, HeldItem
        <4>3. i \in DOMAIN filed
          BY <1>1, <1>2, <4>2 DEF Fresh
        <4> QED BY <1>2, <4>1, <4>3 DEF IInv, Apart
      <3>2. KeyWanted(r) /\ c \in request[q].holds =>
                c \in Categories \ Items /\ Saving(r) /\ Saving(q)
        BY <1>1, <2>1, FreeRows
      <3>3. Saving(r)' = Saving(r) /\ Saving(q)' = Saving(q)
        BY <2>7 DEF Saving
      <3> QED BY <2>5, <2>7, <3>1, <3>2, <3>3 DEF Apart
    <2> QED BY <2>7, <2>9, <2>10, <2>11
  <1> QED BY <1>3, <1>4

LEMMA CountStep ==
    ASSUME IInv, NEW r \in Requests, Count(r)
    PROVE  IInv'
  <1>1. request[r].at = "counting" /\ UNCHANGED <<there, filed>> /\ Kinds(r) /\ Holds(r)
    BY DEF Count, IInv
  <1>2. request[r].item = None /\ request[r].category \in Categories /\ request[r].holds = {}
    BY <1>1 DEF Kinds, Holds
  <1>3. CASE Filed(request[r].category) # {}
    BY <1>1, <1>3, EndStep DEF Count, Ended
  <1>4. CASE Filed(request[r].category) = {}
    <2>1. "deleting" \in Ats /\ Goto(r, "deleting")
      BY <1>4 DEF Count, Ats
    <2>2. /\ request'[r].at = "deleting" /\ request'[r].holds = {}
          /\ request'[r].item = None /\ request'[r].category = request[r].category
          /\ Kinds(r)' /\ Holds(r)' => IInv'
      BY <1>1, <1>2, <2>1, GotoStep
    <2>3. Kinds(r)' /\ Holds(r)'
      BY <1>2, <2>2 DEF Kinds, Holds, Ended
    <2> QED BY <2>2, <2>3
  <1> QED BY <1>3, <1>4

LEMMA DeleteRowStep ==
    ASSUME IInv, NEW r \in Requests, DeleteRow(r)
    PROVE  IInv'
  <1> DEFINE c == request[r].category
  <1>1. /\ request[r].at = "deleting" /\ Blockers(r) = {} /\ UNCHANGED <<there, filed>>
        /\ Kinds(r) /\ Holds(r) /\ Wanted(r) = {c}
    BY DEF DeleteRow, IInv, Wanted
  <1>2. /\ request[r].item = None /\ c \in Categories /\ request[r].holds = {}
        /\ {c} \in SUBSET (Items \cup Categories) /\ "detaching" \in Ats
    BY <1>1 DEF Kinds, Holds, Ats
  <1>3. CASE c \notin there
    BY <1>1, <1>3, EndStep DEF DeleteRow, Ended
  <1>4. CASE c \in there
    <2>1. Moved(r, "detaching", {c})
      BY <1>2, <1>4 DEF DeleteRow, Holding, Moved
    <2>2. /\ request'[r].at = "detaching" /\ request'[r].holds = {c} /\ request'[r].item = None
          /\ request'[r].category = c /\ \A q \in Requests \ {r} : request'[q] = request[q]
          /\ Kinds(r)' /\ Holds(r)' /\ (\A q \in Requests \ {r} : Apart(r, q)') => IInv'
      BY <1>1, <1>2, <2>1, Moves
    <2>3. Kinds(r)' /\ Holds(r)'
      BY <1>1, <1>2, <1>4, <2>2 DEF Kinds, Holds, Ended
    <2>4. ASSUME NEW q \in Requests \ {r} PROVE Apart(r, q)'
      <3>1. c \notin request[q].holds
        BY <1>1, <1>2, FreeRows DEF Saving
      <3> QED BY <2>2, <3>1 DEF Apart
    <2> QED BY <2>2, <2>3, <2>4
  <1> QED BY <1>3, <1>4

LEMMA DetachStep ==
    ASSUME IInv, NEW r \in Requests, Detach(r)
    PROVE  IInv'
  <1> DEFINE c == request[r].category
             h == {c} \cup Filed(c)
  <1>1. /\ request[r].at = "detaching" /\ Blockers(r) = {} /\ UNCHANGED <<there, filed>>
        /\ Typed /\ Kinds(r) /\ Holds(r) /\ Wanted(r) = Filed(c)
    BY DEF Detach, IInv, Wanted
  <1>2. /\ request[r].item = None /\ c \in Categories /\ c \in there /\ request[r].holds = {c}
        /\ Filed(c) \subseteq DOMAIN filed /\ DOMAIN filed \subseteq Items
    BY <1>1 DEF Kinds, Holds, Filed, Typed
  <1>3. h \in SUBSET (Items \cup Categories) /\ "deleted" \in Ats
    BY <1>2 DEF Ats
  <1>4. Moved(r, "deleted", h)
    BY <1>2 DEF Detach, Holding, Moved
  <1>5. c \in h /\ h \subseteq {c} \cup DOMAIN filed /\ Filed(c) \subseteq h
        /\ \A x \in h : x = c \/ x \in Filed(c)
    BY <1>2
  <1> HIDE DEF h
  <1>6. /\ request'[r].at = "deleted" /\ request'[r].holds = h /\ request'[r].item = None
        /\ request'[r].category = c /\ \A q \in Requests \ {r} : request'[q] = request[q]
        /\ Kinds(r)' /\ Holds(r)' /\ (\A q \in Requests \ {r} : Apart(r, q)') => IInv'
    BY <1>1, <1>2, <1>3, <1>4, Moves
  <1>7. Kinds(r)'
    BY <1>2, <1>6 DEF Kinds
  <1>8. Holds(r)'
    BY <1>1, <1>2, <1>5, <1>6 DEF Holds, Ended, Filed
  <1>9. ASSUME NEW q \in Requests \ {r} PROVE Apart(r, q)'
    <2>1. \A x \in Filed(c) : x \notin request[q].holds
      BY <1>1, <1>2, FreeRows
    <2>2. c \notin request[q].holds
      BY <1>2 DEF IInv, Apart, Saving
    <2> QED BY <1>5, <1>6, <2>1, <2>2 DEF Apart
  <1> QED BY <1>6, <1>7, <1>8, <1>9

LEMMA FailStep ==
    ASSUME IInv, NEW r \in Requests, Fail(r)
    PROVE  IInv'
  BY EndStep DEF Fail, Ended

\* The saved item: what was true of the others stays true, since nobody else
\* holds the item and no deletion holds the category it is filed under.
LEMMA CommitItemStep ==
    ASSUME CategoriesAssumption, IInv, NEW r \in Requests, NEW clear \in BOOLEAN,
           CommitItem(r, clear)
    PROVE  IInv'
  <1> DEFINE i == request[r].item
             c == request[r].category
  <1>1. /\ request[r].at = "written" /\ UNCHANGED there /\ Saving(r) /\ End(r, "done")
        /\ Typed /\ Kinds(r) /\ Holds(r) /\ Fresh(r) /\ FiledUnderWhatIsThere
    BY DEF CommitItem, IInv
  <1>2. /\ i \in Items /\ i # None /\ c \in Categories \cup {None} /\ i \in request[r].holds
        /\ c # None => c \in there /\ (c \in request[r].holds \/ i \in Filed(c))
    BY <1>1, RowTypes DEF Kinds, Holds, CategoriesAssumption
  <1>3. PICK v : /\ filed' = [j \in DOMAIN filed \cup {i} |-> IF j # i THEN filed[j] ELSE v]
                 /\ v = c \/ (i \in DOMAIN filed /\ v = filed[i])
    <2>1. filed' = [j \in DOMAIN filed \cup {i} |->
              IF j # i THEN filed[j]
              ELSE IF c = None /\ ~clear /\ i \in DOMAIN filed THEN filed[i] ELSE c]
      BY DEF CommitItem
    <2> QED BY <2>1
  <1>4. v \in there \cup {None} /\ v \in Categories \cup {None}
    BY <1>1, <1>2, <1>3 DEF FiledUnderWhatIsThere, Typed
  <1>5. /\ DOMAIN filed' = DOMAIN filed \cup {i} /\ filed'[i] = v
        /\ \A j \in DOMAIN filed \ {i} : filed'[j] = filed[j]
    BY <1>3
  <1>6. /\ request'[r].at = "done" /\ request'[r].holds = {} /\ request'[r].item = i
        /\ request' \in [Requests -> RequestRow]
        /\ \A q \in Requests \ {r} : request'[q] = request[q]
    <2> DEFINE s == [request[r] EXCEPT !.at = "done", !.holds = {}]
    <2>1. request[r] \in RequestRow /\ request \in [Requests -> RequestRow]
      BY <1>1 DEF Typed
    <2>2. s \in RequestRow /\ s.at = "done" /\ s.holds = {} /\ s.item = i
      BY <2>1 DEF RequestRow, Ats, Ended
    <2>3. request' = [request EXCEPT ![r] = s]
      BY <1>1, <2>1 DEF RequestRow, End
    <2> HIDE DEF s
    <2> QED BY <2>1, <2>2, <2>3
  <1>7. Typed'
    <2>1. filed' \in [DOMAIN filed' -> Categories \cup {None}] /\ DOMAIN filed' \in SUBSET Items
      <3>1. \A j \in DOMAIN filed : filed[j] \in Categories \cup {None}
        BY <1>1 DEF Typed
      <3>2. \A j \in DOMAIN filed' : filed'[j] \in Categories \cup {None}
        BY <1>4, <1>5, <3>1
      <3>3. filed' = [j \in DOMAIN filed' |-> filed'[j]]
        BY <1>3
      <3> QED BY <1>1, <1>2, <1>5, <3>2, <3>3 DEF Typed
    <2> QED BY <1>1, <1>6, <2>1 DEF Typed
  <1>8. Kinds(r)' /\ Holds(r)'
    BY <1>6 DEF Kinds, Holds, Ended
  <1>9. ASSUME NEW q \in Requests \ {r} PROVE Kinds(q)' /\ Holds(q)'
    <2>1. Kinds(q) /\ Holds(q) /\ Apart(q, r) /\ request'[q] = request[q]
      BY <1>6 DEF IInv
    <2>2. i \notin request[q].holds
      BY <1>2, <2>1 DEF Apart
    <2>3. request[q].at = "writing" => {request[q].item} \cap DOMAIN filed'
                                       = {request[q].item} \cap DOMAIN filed
      <3>1. i \notin DOMAIN filed => request[q].item # i
        BY <1>1, <1>2 DEF Fresh
      <3> QED BY <1>5, <3>1
    <2>4. request[q].at = "written" => request[q].item # i
      BY <2>1, <2>2 DEF Holds
    <2>5. request[q].at = "deleted" => v # request[q].category
      <3> DEFINE d == request[q].category
      <3>1. SUFFICES ASSUME request[q].at = "deleted", v = d PROVE FALSE
        OBVIOUS
      <3>2. d \in Categories /\ d # None /\ d \in request[q].holds /\ Filed(d) \subseteq request[q].holds
            /\ ~Saving(q)
        BY <2>1, <3>1 DEF Kinds, Holds, Saving, CategoriesAssumption
      <3>3. i \notin Filed(d)
        BY <2>2, <3>2
      <3>4. v = c /\ c # None
        BY <1>3, <3>1, <3>2, <3>3 DEF Filed
      <3>5. c \in request[r].holds
        BY <1>2, <3>1, <3>3, <3>4
      <3> QED BY <2>1, <3>1, <3>2, <3>4, <3>5 DEF Apart
    <2>6. \A d : i \notin Filed(d) /\ v # d => {j \in DOMAIN filed' : filed'[j] = d} = Filed(d)
      BY <1>5 DEF Filed
    <2>7. \A d : \A j \in Filed(d) \ {i} : j \in DOMAIN filed' /\ filed'[j] = d
      BY <1>5 DEF Filed
    <2>8. DOMAIN filed \subseteq DOMAIN filed'
      BY <1>5
    <2>9. Kinds(q)'
      BY <2>1 DEF Kinds
    <2>10. request[q].at \in {"idle", "checking", "locking", "counting", "deleting", "detaching"}
               \cup Ended => Holds(q)'
      BY <1>1, <2>1, <2>8 DEF Holds, Ended
    <2>11. request[q].at = "writing" => Holds(q)'
      BY <2>1, <2>3 DEF Holds, Ended
    <2>12. request[q].at = "written" => Holds(q)'
      BY <1>1, <2>1, <2>4, <2>7 DEF Holds, Ended, Filed
    <2>13. request[q].at = "deleted" => Holds(q)'
      <3>1. SUFFICES ASSUME request[q].at = "deleted" PROVE Holds(q)'
        OBVIOUS
      <3>2. Filed(request[q].category) \subseteq request[q].holds
        BY <2>1, <3>1 DEF Holds
      <3>3. {j \in DOMAIN filed' : filed'[j] = request[q].category} \subseteq request[q].holds
        BY <2>2, <2>5, <2>6, <3>1, <3>2
      <3> QED BY <1>1, <2>1, <2>8, <3>1, <3>3 DEF Holds, Ended, Filed
    <2>14. request[q].at \in Ats
      BY <1>1, RowTypes
    <2> QED BY <2>9, <2>10, <2>11, <2>12, <2>13, <2>14 DEF Ats
  <1>10. ASSUME NEW q \in Requests PROVE Fresh(q)'
    <2>1. Fresh(q) /\ request'[q].item = request[q].item
          /\ \A p \in Requests : request'[p].item = request[p].item
      BY <1>6 DEF IInv
    <2> QED BY <1>5, <2>1 DEF Fresh
  <1>11. ASSUME NEW p \in Requests, NEW q \in Requests, p # q PROVE Apart(p, q)'
    <2>1. CASE p = r \/ q = r
      BY <1>6, <2>1 DEF Apart
    <2>2. CASE p # r /\ q # r
      <3>1. Apart(p, q)
        BY <1>11 DEF IInv
      <3> QED BY <1>6, <2>2, <3>1 DEF Apart, Saving
    <2> QED BY <2>1, <2>2
  <1>12. FiledUnderWhatIsThere'
    BY <1>1, <1>4, <1>5 DEF FiledUnderWhatIsThere
  <1>13. IsFiniteSet(Begun')
    <2>1. Begun' \subseteq Begun
      BY <1>1, <1>6 DEF Begun
    <2> QED BY <2>1, FS_Subset DEF IInv
  <1> QED BY <1>7, <1>8, <1>9, <1>10, <1>11, <1>12, <1>13 DEF IInv

\* The category goes, and with it every item's mention of it: the deletion holds
\* them all, so no save is in the middle of filing one there.
LEMMA CommitStep ==
    ASSUME CategoriesAssumption, IInv, NEW r \in Requests, Commit(r)
    PROVE  IInv'
  <1> DEFINE c == request[r].category
  <1>1. /\ request[r].at = "deleted" /\ there' = there \ {c} /\ End(r, "done")
        /\ filed' = [i \in DOMAIN filed |-> IF filed[i] = c THEN None ELSE filed[i]]
        /\ Typed /\ Kinds(r) /\ Holds(r) /\ FiledUnderWhatIsThere
    BY DEF Commit, IInv
  <1>2. /\ ~Saving(r) /\ c \in Categories /\ c # None /\ c \in request[r].holds
        /\ Filed(c) \subseteq request[r].holds
    BY <1>1 DEF Kinds, Holds, Saving, CategoriesAssumption
  <1>3. /\ DOMAIN filed' = DOMAIN filed
        /\ \A i \in DOMAIN filed : filed[i] = c => filed'[i] = None
        /\ \A i \in DOMAIN filed : filed[i] # c => filed'[i] = filed[i]
    BY <1>1
  <1>4. /\ request'[r].at = "done" /\ request'[r].holds = {}
        /\ request'[r].item = request[r].item
        /\ request' \in [Requests -> RequestRow]
        /\ \A q \in Requests \ {r} : request'[q] = request[q]
    <2> DEFINE s == [request[r] EXCEPT !.at = "done", !.holds = {}]
    <2>1. request[r] \in RequestRow /\ request \in [Requests -> RequestRow]
      BY <1>1 DEF Typed
    <2>2. s \in RequestRow /\ s.at = "done" /\ s.holds = {} /\ s.item = request[r].item
      BY <2>1 DEF RequestRow, Ats, Ended
    <2>3. request' = [request EXCEPT ![r] = s]
      BY <1>1, <2>1 DEF RequestRow, End
    <2> HIDE DEF s
    <2> QED BY <2>1, <2>2, <2>3
  <1>5. Typed'
    <2>1. \A j \in DOMAIN filed : filed[j] \in Categories \cup {None}
      BY <1>1 DEF Typed
    <2>2. filed' = [j \in DOMAIN filed |-> filed'[j]]
      BY <1>1
    <2>3. \A j \in DOMAIN filed : filed'[j] \in Categories \cup {None}
      BY <1>3, <2>1
    <2>4. filed' \in [DOMAIN filed' -> Categories \cup {None}] /\ DOMAIN filed' \in SUBSET Items
      BY <1>1, <1>3, <2>2, <2>3 DEF Typed
    <2> QED BY <1>1, <1>4, <2>4 DEF Typed
  <1>6. Kinds(r)' /\ Holds(r)'
    BY <1>4 DEF Kinds, Holds, Ended
  <1>7. ASSUME NEW q \in Requests \ {r} PROVE Kinds(q)' /\ Holds(q)'
    <2> DEFINE d == request[q].category
    <2>1. Kinds(q) /\ Holds(q) /\ Apart(q, r) /\ request'[q] = request[q]
      BY <1>4 DEF IInv
    <2>2. c \notin request[q].holds /\ \A i \in Filed(c) : i \notin request[q].holds
      BY <1>2, <2>1 DEF Apart
    <2>3. request[q].at = "written" /\ d # None =>
              /\ d # c
              /\ d \in request[q].holds
                 \/ (request[q].item \in DOMAIN filed' /\ filed'[request[q].item] = d)
      <3>1. SUFFICES ASSUME request[q].at = "written", d # None
                     PROVE  /\ d # c
                            /\ d \in request[q].holds
                               \/ (request[q].item \in DOMAIN filed' /\ filed'[request[q].item] = d)
        OBVIOUS
      <3>2. /\ request[q].item \in request[q].holds
            /\ d \in request[q].holds \/ request[q].item \in Filed(d)
        BY <2>1, <3>1 DEF Holds
      <3>3. d # c
        BY <2>2, <3>2
      <3> QED BY <1>3, <3>2, <3>3 DEF Filed
    <2>4. request[q].at \in {"detaching", "deleted"} => d # c /\ d # None
      BY <2>1, <2>2 DEF Holds, Kinds, CategoriesAssumption
    <2>5. d # None => {j \in DOMAIN filed' : filed'[j] = d} \subseteq Filed(d)
      BY <1>3 DEF Filed
    <2>6. Kinds(q)'
      BY <2>1 DEF Kinds
    <2>7. request[q].at \in {"idle", "checking", "locking", "counting", "deleting", "writing"}
              \cup Ended => Holds(q)'
      BY <1>3, <2>1 DEF Holds, Ended
    <2>8. request[q].at = "written" => Holds(q)'
      <3>1. SUFFICES ASSUME request[q].at = "written" PROVE Holds(q)'
        OBVIOUS
      <3>2. request[q].item \in request[q].holds /\ request[q].holds \subseteq {request[q].item, d}
            /\ (d # None => d \in there)
        BY <2>1, <3>1 DEF Holds
      <3> QED BY <1>1, <2>1, <2>3, <3>1, <3>2 DEF Holds, Ended, Filed
    <2>9. request[q].at = "detaching" => Holds(q)'
      BY <1>1, <2>1, <2>4 DEF Holds, Ended
    <2>10. request[q].at = "deleted" => Holds(q)'
      <3>1. SUFFICES ASSUME request[q].at = "deleted" PROVE Holds(q)'
        OBVIOUS
      <3>2. /\ d \in there /\ d \in request[q].holds
            /\ request[q].holds \subseteq {d} \cup DOMAIN filed /\ Filed(d) \subseteq request[q].holds
        BY <2>1, <3>1 DEF Holds
      <3>3. d \in there' /\ {j \in DOMAIN filed' : filed'[j] = d} \subseteq request[q].holds
        BY <1>1, <2>4, <2>5, <3>1, <3>2
      <3> QED BY <1>3, <2>1, <3>1, <3>2, <3>3 DEF Holds, Ended, Filed
    <2>11. request[q].at \in Ats
      BY <1>1, RowTypes
    <2> QED BY <2>6, <2>7, <2>8, <2>9, <2>10, <2>11 DEF Ats
  <1>8. ASSUME NEW q \in Requests PROVE Fresh(q)'
    <2>1. Fresh(q) /\ \A p \in Requests : request'[p].item = request[p].item
      BY <1>4 DEF IInv
    <2> QED BY <1>3, <2>1 DEF Fresh
  <1>9. ASSUME NEW p \in Requests, NEW q \in Requests, p # q PROVE Apart(p, q)'
    <2>1. CASE p = r \/ q = r
      BY <1>4, <2>1 DEF Apart
    <2>2. CASE p # r /\ q # r
      <3>1. Apart(p, q)
        BY <1>9 DEF IInv
      <3> QED BY <1>4, <2>2, <3>1 DEF Apart, Saving
    <2> QED BY <2>1, <2>2
  <1>10. FiledUnderWhatIsThere'
    BY <1>1, <1>3 DEF FiledUnderWhatIsThere
  <1>11. IsFiniteSet(Begun')
    <2>1. Begun' \subseteq Begun
      BY <1>1, <1>4 DEF Begun
    <2> QED BY <2>1, FS_Subset DEF IInv
  <1> QED BY <1>5, <1>6, <1>7, <1>8, <1>9, <1>10, <1>11 DEF IInv

LEMMA InitHolds == CategoriesAssumption /\ Init => IInv
  <1> SUFFICES ASSUME CategoriesAssumption, Init PROVE IInv
    OBVIOUS
  <1>1. PICK some \in SUBSET Items : filed \in [some -> Categories \cup {None}]
    BY DEF Init
  <1>2. there = Categories /\ \A r \in Requests : request[r] = Idle
    BY DEF Init
  <1>3. Idle \in RequestRow /\ Idle.at = "idle" /\ Idle.holds = {} /\ Idle.item = None
    BY DEF Idle, RequestRow, Ats
  <1>4. Typed
    BY <1>1, <1>2, <1>3 DEF Init, Typed
  <1>5. ASSUME NEW r \in Requests PROVE Kinds(r) /\ Holds(r) /\ Fresh(r)
    BY <1>2, <1>3 DEF Kinds, Holds, Fresh
  <1>6. \A p, q \in Requests : p # q => Apart(p, q)
    BY <1>2, <1>3 DEF Apart
  <1>7. FiledUnderWhatIsThere
    BY <1>1, <1>2 DEF FiledUnderWhatIsThere
  <1>8. Begun = {}
    BY <1>2, <1>3 DEF Begun
  <1> QED BY <1>4, <1>5, <1>6, <1>7, <1>8, FS_EmptySet DEF IInv

LEMMA StepHolds ==
    ASSUME CategoriesAssumption, IInv, [Next]_vars
    PROVE  IInv'
  <1>1. ASSUME NEW r \in Requests, NEW c \in Categories, Delete(r, c) PROVE IInv'
    <2> DEFINE a == IF Products THEN "counting" ELSE "deleting"
    <2>1. Begin(r, None, c, a) /\ a \in {"counting", "deleting"} /\ a \in Ats
      BY <1>1 DEF Delete, Ats
    <2> HIDE DEF a
    <2> QED BY <2>1, BeginStep
  <1>2. ASSUME NEW r \in Requests, NEW i \in Items, NEW c \in Categories \cup {None}, Create(r, i, c)
        PROVE  IInv'
    <2> DEFINE a == IF Products \/ c = None THEN "writing" ELSE "checking"
    <2>1. Begin(r, i, c, a) /\ a \in {"checking", "writing"} /\ a \in Ats /\ i \notin Born
      BY <1>2 DEF Create, Ats
    <2> HIDE DEF a
    <2> QED BY <2>1, BeginStep
  <1>3. ASSUME NEW r \in Requests, NEW i \in Items, NEW c \in Categories \cup {None}, Update(r, i, c)
        PROVE  IInv'
    <2> DEFINE a == IF Products \/ c = None THEN "locking" ELSE "checking"
    <2>1. Begin(r, i, c, a) /\ a \in {"checking", "locking"} /\ a \in Ats /\ i \in DOMAIN filed
      BY <1>3 DEF Update, Ats
    <2> HIDE DEF a
    <2> QED BY <2>1, BeginStep
  <1>4. ASSUME NEW r \in Requests, Serve(r) PROVE IInv'
    BY <1>4, CheckCategoryStep, LockItemStep, WriteItemStep, CommitItemStep, CountStep,
       DeleteRowStep, DetachStep, CommitStep DEF Serve
  <1>5. CASE UNCHANGED vars
    <2>1. UNCHANGED there /\ UNCHANGED filed /\ UNCHANGED request
      BY <1>5 DEF vars
    <2>2. Typed' /\ FiledUnderWhatIsThere' /\ IsFiniteSet(Begun')
      BY <2>1 DEF IInv, Typed, FiledUnderWhatIsThere, Begun
    <2>3. \A r \in Requests : Kinds(r)' /\ Holds(r)' /\ Fresh(r)'
      BY <2>1 DEF IInv, Kinds, Holds, Fresh, Filed
    <2>4. \A p, q \in Requests : p # q => Apart(p, q)'
      BY <2>1 DEF IInv, Apart, Saving
    <2> QED BY <2>2, <2>3, <2>4 DEF IInv
  <1> QED BY <1>1, <1>2, <1>3, <1>4, <1>5, FailStep DEF Next

-----------------------------------------------------------------------------
(* Who can wait in a ring: saves at their write and deletions at their     *)
(* items.  A save waits for the deletion of another category than the one  *)
(* its item is filed under, a deletion for a save whose item is filed under*)
(* what it deletes.                                                        *)

\* Whoever waits holds no key, and no deletion that waits holds an item.
LEMMA WaitingHolds ==
    ASSUME CategoriesAssumption, IInv, NEW q \in Requests, Blockers(q) # {},
           NEW x \in request[q].holds
    PROVE  \/ request[q].at = "writing" /\ x = request[q].item /\ x \in DOMAIN filed
              /\ x \in Items /\ KeyWanted(q)
           \/ request[q].at = "detaching" /\ x = request[q].category /\ x \in Categories
  <1>1. /\ Kinds(q) /\ Holds(q) /\ request[q].at \in Ats
        /\ Wanted(q) # {}
    BY RowTypes DEF IInv, Blockers
  <1>2. /\ request[q].at \in {"locking", "writing", "deleting", "detaching"}
        /\ request[q].at = "writing" => KeyWanted(q)
    BY <1>1 DEF Wanted
  <1> QED BY <1>1, <1>2 DEF Kinds, Holds

\* In a ring somebody is at the write of an item.
LEMMA RingHasWriter ==
    ASSUME CategoriesAssumption, IInv, NEW some \in SUBSET Requests, Stuck(some)
    PROVE  \E w \in some : request[w].at = "writing" /\ KeyWanted(w)
  <1>1. PICK r \in some : Blockers(r) \cap some # {}
    BY DEF Stuck
  <1>2. PICK q \in Blockers(r) \cap some : TRUE
    BY <1>1
  <1>3. q \in Requests /\ Blockers(q) # {}
    BY <1>2 DEF Stuck
  <1>4. PICK x \in request[q].holds : TRUE
    BY <1>2 DEF Blockers
  <1>5. CASE request[q].at = "writing"
    BY <1>2, <1>3, <1>4, <1>5, WaitingHolds
  <1>6. CASE request[q].at = "detaching"
    <2>1. PICK p \in Blockers(q) \cap some : \E y \in Wanted(q) \cap request[p].holds : TRUE
      BY <1>2 DEF Stuck, Blockers
    <2>2. PICK y \in Wanted(q) \cap request[p].holds : TRUE
      BY <2>1
    <2>3. p \in Requests /\ Blockers(p) # {} /\ y \in Items
      BY <1>6, <2>1, <2>2 DEF Stuck, Wanted, Filed, IInv, Typed
    <2>4. request[p].at = "writing" /\ KeyWanted(p)
      BY <2>2, <2>3, WaitingHolds DEF CategoriesAssumption
    <2> QED BY <2>1, <2>4
  <1> QED BY <1>3, <1>4, <1>5, <1>6, WaitingHolds

\* The deletion that a save at its write waits for in a ring.
LEMMA WriterWaits ==
    ASSUME CategoriesAssumption, IInv, NEW some \in SUBSET Requests, Stuck(some),
           NEW w \in some, request[w].at = "writing", KeyWanted(w)
    PROVE  \E d \in some : request[d].at = "detaching" /\ request[d].category = request[w].category
  <1> DEFINE c == request[w].category
  <1>1. PICK d \in Blockers(w) \cap some : TRUE
    BY DEF Stuck
  <1>2. Wanted(w) = {c} /\ c \in Categories
    BY RowTypes DEF Wanted, KeyWanted, IInv
  <1>3. c \in request[d].holds
    BY <1>1, <1>2 DEF Blockers
  <1>4. d \in Requests /\ Blockers(d) # {}
    BY <1>1 DEF Stuck
  <1>5. request[d].at = "detaching" /\ c = request[d].category
    BY <1>2, <1>3, <1>4, WaitingHolds DEF CategoriesAssumption
  <1> QED BY <1>1, <1>5

\* The save that a deletion waits for in a ring is about to file its item elsewhere.
LEMMA DeletionWaits ==
    ASSUME CategoriesAssumption, IInv, NEW some \in SUBSET Requests, Stuck(some),
           NEW d \in some, request[d].at = "detaching"
    PROVE  \E w \in some : /\ request[w].at = "writing" /\ KeyWanted(w)
                           /\ request[w].category # request[d].category
  <1>1. PICK w \in Blockers(d) \cap some : TRUE
    BY DEF Stuck
  <1>2. PICK x \in Wanted(d) \cap request[w].holds : TRUE
    BY <1>1 DEF Blockers
  <1>3. x \in Filed(request[d].category) /\ x \in Items
    BY <1>2 DEF Wanted, Filed, IInv, Typed
  <1>4. w \in Requests /\ Blockers(w) # {}
    BY <1>1 DEF Stuck
  <1>5. request[w].at = "writing" /\ KeyWanted(w) /\ x = request[w].item
    BY <1>2, <1>3, <1>4, WaitingHolds DEF CategoriesAssumption
  <1>6. request[w].category # request[d].category
    BY <1>3, <1>5 DEF KeyWanted, Filed
  <1> QED BY <1>1, <1>5, <1>6

LEMMA AtLeastTwo ==
    ASSUME NEW T, IsFiniteSet(T), NEW a \in T, NEW b \in T, a # b
    PROVE  Cardinality(T) >= 2
  <1>1. IsFiniteSet({a}) /\ Cardinality({a}) = 1
    BY FS_Singleton
  <1>2. IsFiniteSet({a} \cup {b}) /\ Cardinality({a} \cup {b}) = 2
    <2>1. IsFiniteSet({a} \cup {b})
          /\ Cardinality({a} \cup {b}) = IF b \in {a} THEN Cardinality({a}) ELSE Cardinality({a}) + 1
      BY <1>1, FS_AddElement
    <2>2. b \notin {a}
      OBVIOUS
    <2> QED BY <1>1, <2>1, <2>2
  <1>3. Cardinality({a} \cup {b}) <= Cardinality(T) /\ Cardinality(T) \in Nat
    BY FS_Subset, FS_CardinalityType
  <1> QED BY <1>2, <1>3

LEMMA TwoDeletions ==
    ASSUME CategoriesAssumption, IInv, NEW r \in Requests, InARing(r)
    PROVE  Cardinality({q \in Requests : InARing(q) /\ ~Saving(q)}) >= 2
  <1> DEFINE T == {q \in Requests : InARing(q) /\ ~Saving(q)}
  <1>1. PICK some \in SUBSET {q \in Requests : Blockers(q) # {}} :
            /\ r \in some /\ Stuck(some)
            /\ \A q \in some : \A fewer \in SUBSET (some \ {q}) : ~Stuck(fewer)
    BY DEF InARing
  <1>2. some \in SUBSET Requests /\ \A q \in some : Blockers(q) # {} /\ InARing(q)
    BY <1>1 DEF InARing
  <1>3. PICK w \in some : request[w].at = "writing" /\ KeyWanted(w)
    BY <1>1, <1>2, RingHasWriter
  <1>4. PICK d \in some : request[d].at = "detaching" /\ request[d].category = request[w].category
    BY <1>1, <1>2, <1>3, WriterWaits
  <1>5. PICK v \in some : /\ request[v].at = "writing" /\ KeyWanted(v)
                          /\ request[v].category # request[d].category
    BY <1>1, <1>2, <1>4, DeletionWaits
  <1>6. PICK e \in some : request[e].at = "detaching" /\ request[e].category = request[v].category
    BY <1>1, <1>2, <1>5, WriterWaits
  <1>7. d # e
    BY <1>5, <1>6
  <1>8. d \in T /\ e \in T
    BY <1>2, <1>4, <1>6 DEF IInv, Kinds, Saving
  <1>9. IsFiniteSet(T)
    <2>1. ASSUME NEW q \in T PROVE q \in Begun
      <3>1. Wanted(q) # {}
        BY DEF InARing, Blockers
      <3>2. request[q].at # "idle"
        BY <3>1 DEF Wanted
      <3> QED BY <3>2 DEF Begun
    <2>2. T \subseteq Begun
      BY <2>1
    <2> QED BY <2>2, FS_Subset DEF IInv
  <1> HIDE DEF T
  <1>10. Cardinality(T) >= 2
    BY <1>7, <1>8, <1>9, AtLeastTwo
  <1> QED BY <1>10 DEF T

-----------------------------------------------------------------------------
(* Theorem.                                                                *)

LEMMA TypesFollow ==
    ASSUME CategoriesAssumption, IInv
    PROVE  TypeOK
  <1>1. \E some \in SUBSET Items : filed \in [some -> Categories \cup {None}]
    BY DEF IInv, Typed
  <1>2. request \in [Requests ->
          [at : {"idle", "checking", "locking", "writing", "written",
                 "counting", "deleting", "detaching", "deleted"} \cup Ended,
           item : Items \cup {None},
           category : Categories \cup {None},
           holds : SUBSET (Items \cup Categories)]]
    BY DEF IInv, Typed, RequestRow, Ats
  <1>3. ASSUME NEW r \in Requests
        PROVE  /\ request[r].at \in Ended => request[r].holds = {}
               /\ \A q \in Requests \ {r} :
                     request[q].holds \cap request[r].holds \cap Items = {}
    <2>1. Holds(r) /\ \A q \in Requests \ {r} : Apart(q, r)
      BY DEF IInv
    <2> QED BY <2>1 DEF Holds, Apart
  <1>4. there \in SUBSET Categories
    BY DEF IInv, Typed
  <1> QED BY <1>1, <1>2, <1>3, <1>4 DEF TypeOK

\* Of the row locks and the foreign keys of category/ with product/ and of
\* articlecategory/ with article/, for any number of requests at once: no item is
\* ever filed under a category that is gone, and no save deadlocks unless two
\* deletions are in the ring.
THEOREM FilingIsSafe ==
    ASSUME CategoriesAssumption
    PROVE  Spec => []CategoriesSafety
  <1>1. Init => IInv
    BY InitHolds
  <1>2. IInv /\ [Next]_vars => IInv'
    BY StepHolds
  <1>3. IInv => CategoriesSafety
    BY TypesFollow, TwoDeletions DEF CategoriesSafety, IInv, RingsNeedTwoDeletions
  <1> QED BY <1>1, <1>2, <1>3, PTL DEF Spec
=============================================================================
