--------------------------- MODULE RequestsProofs ---------------------------
(***************************************************************************)
(* Proofs about the parts of MCRequests other than the categories, for any *)
(* number of customers, addresses, items, slugs and concurrent requests.   *)
(* Each part has an inductive invariant of its own; that a part stays so   *)
(* beside the others is in the last section.                               *)
(***************************************************************************)
EXTENDS MCRequests, CategoriesProofs

-----------------------------------------------------------------------------
(* Addresses: one default for each customer.                               *)

ChangeRow == [at : {"idle", "locking", "scanning", "clearing", "writing", "written",
                    "done", "missing", "conflict", "failed"},
              user : Owners \cup {None}, address : Changes \cup {None}, default : BOOLEAN,
              seen : SUBSET Changes, cleared : SUBSET Changes]

BookRow == [row : BOOLEAN, owner : Owners \cup {None}, default : BOOLEAN]

Open == {"scanning", "clearing", "writing", "written"}

\* What a change may rely on: its row is its own or not there yet, and so are the
\* defaults it has cleared.
ChangeHolds(r) ==
    LET c == change[r] IN
    /\ book[r].row => c.at = "done"
    /\ c.at \in Open \cup {"locking"} => c.user \in Owners /\ c.address \in Changes
    /\ c.at = "locking" => c.address # r
    /\ c.at \in Open /\ c.address # r =>
          holder[c.address] = r /\ A!Mine(c.user, c.address)
    /\ c.at \in {"idle", "locking", "scanning", "clearing"} => c.cleared = {}
    /\ c.at \in {"scanning", "clearing"} => c.default
    /\ c.at \in {"writing", "written"} =>
          \A a \in c.cleared : c.default /\ holder[a] = r /\ a \in A!Defaults(c.user)

\* The index admits one uncommitted default, and none beside a committed one.
IndexHolds(r) ==
    change[r].at = "written" /\ change[r].default =>
        /\ A!Defaults(change[r].user) \subseteq change[r].cleared \cup {change[r].address}
        /\ \A q \in Changes \ {r} :
              change[q].at = "written" /\ change[q].default => change[q].user # change[r].user

AddressInv ==
    /\ A!TypeOK
    /\ A!OneDefault
    /\ \A r \in Changes : ChangeHolds(r) /\ IndexHolds(r)

LEMMA AddressTypes ==
    ASSUME AddressInv
    PROVE  /\ change \in [Changes -> ChangeRow] /\ book \in [Changes -> BookRow]
           /\ holder \in [Changes -> Changes \cup {None}]
           /\ \A a \in Changes : holder[a] # None => change[holder[a]].at \in Open
  BY DEF AddressInv, A!TypeOK, ChangeRow, BookRow, Open

\* The rows that a step of r may touch: its own, what nobody holds, what is not there.
LeavesOthers(r) ==
    \A a \in Changes : holder[a] \notin {r, None} =>
        holder'[a] = holder[a] /\ (book[a].row => book'[a] = book[a])

\* A default appears only if no other default of the customer is about to.
KeepsIndex(r, row) ==
    \A q \in Changes \ {r}, u \in Owners \cup {None} :
        change[q].at = "written" /\ change[q].default /\ change[q].user = u =>
            /\ A!Defaults(u)' \subseteq A!Defaults(u)
            /\ ~(row.at = "written" /\ row.default /\ row.user = u)

LEMMA ChangeStep ==
    ASSUME AddressInv, NEW r \in Changes, NEW row \in ChangeRow,
           change' = [change EXCEPT ![r] = row],
           book' \in [Changes -> BookRow], holder' \in [Changes -> Changes \cup {None}],
           \A a \in Changes : holder'[a] \in {holder[a], r, None},
           \A a \in Changes : holder'[a] = r => row.at \in Open,
           \A q \in Changes \ {r} : book'[q].row => book[q].row,
           LeavesOthers(r), KeepsIndex(r, row),
           A!OneDefault', ChangeHolds(r)', IndexHolds(r)'
    PROVE  AddressInv'
  <1>1. change'[r] = row /\ \A q \in Changes \ {r} : change'[q] = change[q]
    BY AddressTypes
  <1>2. A!TypeOK'
    <2>1. change' \in [Changes -> ChangeRow]
      BY AddressTypes
    <2>2. ASSUME NEW a \in Changes, holder'[a] # None
          PROVE  change'[holder'[a]].at \in Open
      <3>1. CASE holder'[a] = r
        BY <1>1, <3>1
      <3>2. CASE holder'[a] # r
        <4>1. holder'[a] = holder[a] /\ holder[a] \in Changes \ {r}
          BY <2>2, <3>2, AddressTypes
        <4> QED BY <1>1, <2>2, <4>1, AddressTypes
      <3> QED BY <3>1, <3>2
    <2> QED BY <2>1, <2>2 DEF A!TypeOK, ChangeRow, BookRow, Open
  <1>3. ASSUME NEW q \in Changes \ {r}
        PROVE  ChangeHolds(q)' /\ IndexHolds(q)'
    <2>1. ChangeHolds(q) /\ IndexHolds(q) /\ change'[q] = change[q] /\ q # None
      BY <1>1, RequestsAssumption DEF AddressInv, A!AddressesAssumption
    <2>2. ASSUME NEW a \in Changes, holder[a] = q
          PROVE  holder'[a] = q /\ (book[a].row => book'[a] = book[a])
      BY <2>1, <2>2 DEF LeavesOthers
    <2>3. ASSUME NEW u \in Owners, NEW a \in Changes, holder[a] = q
          PROVE  /\ a \in A!Defaults(u) => a \in A!Defaults(u)'
                 /\ A!Mine(u, a) => A!Mine(u, a)'
      BY <2>2, <2>3 DEF A!Defaults, A!Mine
    <2>4. ChangeHolds(q)'
      <3>1. change[q] \in ChangeRow
        BY AddressTypes
      <3>2. change[q].cleared \subseteq Changes
        BY <3>1 DEF ChangeRow
      <3> QED BY <2>1, <2>2, <2>3, <3>2 DEF ChangeHolds, Open
    <2>5. IndexHolds(q)'
      <3> SUFFICES ASSUME NEW u \in Owners \cup {None}, change[q].user = u,
                          change[q].at = "written", change[q].default
                   PROVE  /\ A!Defaults(u)' \subseteq change[q].cleared \cup {change[q].address}
                          /\ \A p \in Changes \ {q} :
                                change'[p].at = "written" /\ change'[p].default =>
                                    change'[p].user # u
        <4>1. change[q].user \in Owners \cup {None}
          BY AddressTypes DEF ChangeRow
        <4> QED BY <2>1, <4>1 DEF IndexHolds, A!Defaults
      <3>1. A!Defaults(u)' \subseteq change[q].cleared \cup {change[q].address}
        <4>1. A!Defaults(u) \subseteq change[q].cleared \cup {change[q].address}
          BY <2>1 DEF IndexHolds
        <4> QED BY <4>1 DEF KeepsIndex
      <3>2. ASSUME NEW p \in Changes \ {q}, change'[p].at = "written", change'[p].default
            PROVE  change'[p].user # u
        <4>1. CASE p = r
          BY <1>1, <3>2, <4>1 DEF KeepsIndex
        <4>2. CASE p # r
          BY <1>1, <2>1, <3>2, <4>2 DEF IndexHolds
        <4> QED BY <4>1, <4>2
      <3> QED BY <3>1, <3>2
    <2> QED BY <2>4, <2>5
  <1> QED BY <1>2, <1>3 DEF AddressInv

\* A request that moves on, and neither becomes a default nor takes or frees a row.
LEMMA ChangeMoves ==
    ASSUME AddressInv, NEW r \in Changes, NEW row \in ChangeRow,
           change' = [change EXCEPT ![r] = row], UNCHANGED <<book, holder>>,
           row.at \in Open \/ change[r].at \notin Open, row.at # "written",
           change'[r] = row => ChangeHolds(r)'
    PROVE  AddressInv'
  <1>1. change'[r] = row
    BY AddressTypes
  <1>2. \A a \in Changes : holder[a] = r => change[r].at \in Open
    BY AddressTypes, RequestsAssumption DEF A!AddressesAssumption
  <1>3. \A u : A!Defaults(u)' = A!Defaults(u)
    BY DEF A!Defaults
  <1>4. A!OneDefault'
    BY <1>3 DEF AddressInv, A!OneDefault
  <1>5. KeepsIndex(r, row) /\ LeavesOthers(r) /\ IndexHolds(r)'
    BY <1>1, <1>3 DEF KeepsIndex, LeavesOthers, IndexHolds
  <1> QED BY <1>1, <1>2, <1>4, <1>5, AddressTypes, ChangeStep

LEMMA ChangeBegins ==
    ASSUME AddressInv, NEW r \in Changes, NEW u \in Owners, NEW a \in Changes, NEW d \in BOOLEAN,
           NEW at \in {"locking", "scanning", "writing"}, A!Begin(r, u, a, d, at),
           at = "locking" <=> a # r, at = "scanning" => d
    PROVE  AddressInv'
  <1> DEFINE row == [A!Idle EXCEPT !.at = at, !.user = u, !.address = a, !.default = d]
  <1>1. change[r].at = "idle" /\ change' = [change EXCEPT ![r] = row] /\ UNCHANGED <<book, holder>>
    BY DEF A!Begin
  <1>2. /\ row \in ChangeRow /\ row.at = at /\ row.user = u /\ row.address = a
        /\ row.default = d /\ row.cleared = {}
    BY DEF A!Idle, ChangeRow
  <1> HIDE DEF row
  <1>3. ~book[r].row
    BY <1>1 DEF AddressInv, ChangeHolds
  <1>4. change'[r] = row => ChangeHolds(r)'
    BY <1>1, <1>2, <1>3 DEF ChangeHolds, Open
  <1>5. change[r].at \notin Open /\ row.at # "written"
    BY <1>1, <1>2 DEF Open
  <1> QED BY <1>1, <1>2, <1>4, <1>5, ChangeMoves

\* A row deleted takes no default but its own.
LEMMA AddressDeleted ==
    ASSUME AddressInv, NEW r \in Changes, NEW u \in Owners, NEW a \in Changes \ {r},
           A!Delete(r, u, a)
    PROVE  AddressInv'
  <1> DEFINE at == IF A!Mine(u, a) THEN "done" ELSE "missing"
             row == [change[r] EXCEPT !.at = at, !.user = u, !.address = a]
  <1>1. /\ change[r].at = "idle" /\ holder[a] = None /\ holder' = holder
        /\ book' = IF A!Mine(u, a) THEN [book EXCEPT ![a].row = FALSE] ELSE book
        /\ change' = [change EXCEPT ![r] = row]
    BY AddressTypes DEF A!Delete
  <1>2. row \in ChangeRow /\ row.at \in {"done", "missing"}
    <2>1. change[r] \in ChangeRow /\ at \in {"done", "missing"}
      BY AddressTypes
    <2> HIDE DEF at
    <2> QED BY <2>1 DEF ChangeRow
  <1> HIDE DEF row, at
  <1>3. change'[r] = row
    BY <1>1, AddressTypes
  <1>4. /\ book' \in [Changes -> BookRow]
        /\ \A b \in Changes : book'[b] = book[b] \/ (b = a /\ ~book'[b].row)
    BY <1>1, AddressTypes DEF BookRow
  <1>5. \A v : A!Defaults(v)' \subseteq A!Defaults(v)
    BY <1>4 DEF A!Defaults
  <1>6. A!OneDefault'
    BY <1>5 DEF AddressInv, A!OneDefault
  <1>7. KeepsIndex(r, row) /\ LeavesOthers(r) /\ IndexHolds(r)'
    <2>1. KeepsIndex(r, row)
      BY <1>2, <1>5 DEF KeepsIndex
    <2>2. LeavesOthers(r)
      BY <1>1, <1>4 DEF LeavesOthers
    <2> QED BY <1>2, <1>3, <2>1, <2>2 DEF IndexHolds
  <1>8. ChangeHolds(r)'
    <2>1. ~book'[r].row
      BY <1>1, <1>4 DEF AddressInv, ChangeHolds
    <2> QED BY <1>2, <1>3, <2>1 DEF ChangeHolds, Open
  <1>9. \A b \in Changes : holder'[b] # r
    BY <1>1, AddressTypes, RequestsAssumption DEF Open, A!AddressesAssumption
  <1>10. \A q \in Changes \ {r} : book'[q].row => book[q].row
    BY <1>4
  <1> QED BY <1>1, <1>2, <1>4, <1>6, <1>7, <1>8, <1>9, <1>10, AddressTypes, ChangeStep

LEMMA LockOwnStep ==
    ASSUME AddressInv, NEW r \in Changes, A!LockOwn(r)
    PROVE  AddressInv'
  <1> DEFINE a == change[r].address
  <1>1. change[r].at = "locking" /\ holder[a] = None /\ book' = book
        /\ change[r].user \in Owners /\ a \in Changes /\ a # r /\ change[r].cleared = {}
        /\ ~book[r].row
    BY DEF A!LockOwn, AddressInv, ChangeHolds
  <1>2. CASE ~A!Mine(change[r].user, a)
    <2> DEFINE row == [change[r] EXCEPT !.at = "missing"]
    <2>1. change' = [change EXCEPT ![r] = row] /\ UNCHANGED <<book, holder>>
      BY <1>2, AddressTypes DEF A!LockOwn, A!Goto
    <2>2. row \in ChangeRow /\ row.at = "missing"
      BY AddressTypes DEF ChangeRow
    <2> HIDE DEF row
    <2>3. change'[r] = row => ChangeHolds(r)'
      BY <1>1, <2>1, <2>2 DEF ChangeHolds, Open
    <2>4. change[r].at \notin Open /\ row.at # "written"
      BY <1>1, <2>2 DEF Open
    <2> QED BY <2>1, <2>2, <2>3, <2>4, ChangeMoves
  <1>3. CASE A!Mine(change[r].user, a)
    <2> DEFINE at == IF change[r].default /\ ~book[a].default THEN "scanning" ELSE "writing"
               row == [change[r] EXCEPT !.at = at]
    <2>1. change' = [change EXCEPT ![r] = row] /\ holder' = [holder EXCEPT ![a] = r]
      BY <1>3, AddressTypes DEF A!LockOwn, A!Goto
    <2>2. /\ row \in ChangeRow /\ row.at \in {"scanning", "writing"} /\ row.address = a
          /\ row.user = change[r].user /\ row.cleared = change[r].cleared
          /\ row.default = change[r].default /\ (row.at = "scanning" => row.default)
      BY AddressTypes DEF ChangeRow
    <2> HIDE DEF row, at
    <2>3. change'[r] = row /\ holder' \in [Changes -> Changes \cup {None}]
          /\ holder'[a] = r /\ \A b \in Changes \ {a} : holder'[b] = holder[b]
      BY <1>1, <2>1, AddressTypes
    <2>4. \A v : A!Defaults(v)' = A!Defaults(v)
      BY <1>1 DEF A!Defaults
    <2>5. A!OneDefault'
      BY <2>4 DEF AddressInv, A!OneDefault
    <2>6. KeepsIndex(r, row)
      BY <2>2, <2>4 DEF KeepsIndex
    <2>7. LeavesOthers(r)
      BY <1>1, <2>3 DEF LeavesOthers
    <2>8. IndexHolds(r)'
      BY <2>2, <2>3 DEF IndexHolds
    <2>9. book'[a].row /\ book'[a].owner = row.user
      BY <1>1, <1>3, <2>2 DEF A!Mine
    <2>10. ChangeHolds(r)'
      BY <1>1, <2>2, <2>3, <2>9 DEF ChangeHolds, Open, A!Mine
    <2>11. /\ \A b \in Changes : holder'[b] \in {holder[b], r, None}
           /\ row.at \in Open
      BY <2>2, <2>3 DEF Open
    <2> QED BY <1>1, <2>1, <2>2, <2>3, <2>5, <2>6, <2>7, <2>8, <2>10, <2>11, AddressTypes,
               ChangeStep
  <1> QED BY <1>2, <1>3

LEMMA FindDefaultsStep ==
    ASSUME AddressInv, NEW r \in Changes, A!FindDefaults(r)
    PROVE  AddressInv'
  <1> DEFINE row == [change[r] EXCEPT !.at = "clearing", !.seen = A!Defaults(change[r].user)]
  <1>1. change[r].at = "scanning" /\ change' = [change EXCEPT ![r] = row] /\ UNCHANGED <<book, holder>>
    BY AddressTypes DEF A!FindDefaults
  <1>2. /\ row \in ChangeRow /\ row.at = "clearing" /\ row.address = change[r].address
        /\ row.user = change[r].user /\ row.cleared = change[r].cleared
        /\ row.default = change[r].default
    <2>1. change[r] \in ChangeRow /\ A!Defaults(change[r].user) \subseteq Changes
      BY AddressTypes DEF A!Defaults
    <2> QED BY <2>1 DEF ChangeRow
  <1> HIDE DEF row
  <1>3. change'[r] = row => ChangeHolds(r)'
    <2>1. ChangeHolds(r)
      BY DEF AddressInv
    <2> QED BY <1>1, <1>2, <2>1 DEF ChangeHolds, Open, A!Mine
  <1>4. row.at \in Open /\ row.at # "written"
    BY <1>2 DEF Open
  <1> QED BY <1>1, <1>2, <1>3, <1>4, ChangeMoves

LEMMA ClearDefaultsStep ==
    ASSUME AddressInv, NEW r \in Changes, A!ClearDefaults(r)
    PROVE  AddressInv'
  <1> DEFINE due == {a \in change[r].seen : a \in A!Defaults(change[r].user)}
             row == [change[r] EXCEPT !.at = "writing", !.cleared = due]
  <1>1. /\ change[r].at = "clearing" /\ change' = [change EXCEPT ![r] = row] /\ book' = book
        /\ \A a \in due : holder[a] = None
        /\ holder' = [a \in Changes |-> IF a \in due THEN r ELSE holder[a]]
    BY AddressTypes DEF A!ClearDefaults
  <1>2. /\ row \in ChangeRow /\ row.at = "writing" /\ row.address = change[r].address
        /\ row.user = change[r].user /\ row.cleared = due /\ row.default = change[r].default
        /\ due \subseteq A!Defaults(change[r].user)
    <2>1. change[r] \in ChangeRow /\ due \in SUBSET Changes
      BY AddressTypes DEF A!Defaults
    <2>2. due \subseteq A!Defaults(change[r].user)
      OBVIOUS
    <2> HIDE DEF due
    <2> QED BY <2>1, <2>2 DEF ChangeRow
  <1> HIDE DEF row, due
  <1>3. change'[r] = row /\ holder' \in [Changes -> Changes \cup {None}]
        /\ \A b \in Changes : holder'[b] = IF b \in due THEN r ELSE holder[b]
    BY <1>1, AddressTypes
  <1>4. \A v : A!Defaults(v)' = A!Defaults(v)
    BY <1>1 DEF A!Defaults
  <1>5. A!OneDefault'
    BY <1>4 DEF AddressInv, A!OneDefault
  <1>6. KeepsIndex(r, row)
    BY <1>2, <1>4 DEF KeepsIndex
  <1>7. LeavesOthers(r) /\ IndexHolds(r)'
    BY <1>1, <1>2, <1>3 DEF LeavesOthers, IndexHolds
  <1>8. ChangeHolds(r)'
    <2>1. ChangeHolds(r) /\ r # None
      BY RequestsAssumption DEF AddressInv, A!AddressesAssumption
    <2>2. due \subseteq Changes
      BY <1>2 DEF A!Defaults
    <2> QED BY <1>1, <1>2, <1>3, <1>4, <2>1, <2>2 DEF ChangeHolds, Open, A!Mine
  <1>9. /\ \A b \in Changes : holder'[b] \in {holder[b], r, None}
        /\ row.at \in Open
    BY <1>2, <1>3 DEF Open
  <1> QED BY <1>1, <1>2, <1>3, <1>5, <1>6, <1>7, <1>8, <1>9, AddressTypes, ChangeStep

\* A request that ends gives up its rows and leaves the book.
LEMMA ReleaseStep ==
    ASSUME AddressInv, NEW r \in Changes, NEW at \in {"conflict", "failed"},
           change[r].at \notin {"idle", "done"},
           change' = [change EXCEPT ![r].at = at], A!Release(r), book' = book
    PROVE  AddressInv'
  <1> DEFINE row == [change[r] EXCEPT !.at = at]
  <1>1. /\ row \in ChangeRow /\ row.at = at /\ change' = [change EXCEPT ![r] = row]
        /\ change'[r] = row
    BY AddressTypes DEF ChangeRow
  <1> HIDE DEF row
  <1>2. \A b \in Changes : holder'[b] = IF holder[b] = r THEN None ELSE holder[b]
    BY DEF A!Release
  <1>3. holder' \in [Changes -> Changes \cup {None}]
    BY AddressTypes DEF A!Release
  <1>4. r # None
    BY RequestsAssumption DEF A!AddressesAssumption
  <1>5. \A v : A!Defaults(v)' = A!Defaults(v)
    BY DEF A!Defaults
  <1>6. A!OneDefault'
    BY <1>5 DEF AddressInv, A!OneDefault
  <1>7. KeepsIndex(r, row) /\ LeavesOthers(r) /\ IndexHolds(r)'
    BY <1>1, <1>2, <1>5 DEF KeepsIndex, LeavesOthers, IndexHolds
  <1>8. ChangeHolds(r)'
    BY <1>1 DEF AddressInv, ChangeHolds, Open
  <1>9. \A b \in Changes : holder'[b] \in {holder[b], r, None} /\ holder'[b] # r
    BY <1>2, <1>4
  <1> QED BY <1>1, <1>3, <1>6, <1>7, <1>8, <1>9, AddressTypes, ChangeStep

LEMMA WriteStep ==
    ASSUME AddressInv, NEW r \in Changes, A!Write(r)
    PROVE  AddressInv'
  <1>1. change[r].at = "writing" /\ book' = book
    BY DEF A!Write
  <1>2. CASE change[r].default /\ A!OtherDefault(r)
    BY <1>1, <1>2, ReleaseStep DEF A!Write, A!Goto
  <1>3. CASE ~(change[r].default /\ A!OtherDefault(r))
    <2> DEFINE row == [change[r] EXCEPT !.at = "written"]
    <2>1. change' = [change EXCEPT ![r] = row] /\ holder' = holder
      BY <1>3, AddressTypes DEF A!Write, A!Goto
    <2>2. /\ row \in ChangeRow /\ row.at = "written" /\ row.address = change[r].address
          /\ row.user = change[r].user /\ row.cleared = change[r].cleared
          /\ row.default = change[r].default
      BY AddressTypes DEF ChangeRow
    <2> HIDE DEF row
    <2>3. change'[r] = row /\ \A q \in Changes \ {r} : change'[q] = change[q]
      BY <2>1, AddressTypes
    <2>4. \A v : A!Defaults(v)' = A!Defaults(v)
      BY <1>1 DEF A!Defaults
    <2>5. A!OneDefault'
      BY <2>4 DEF AddressInv, A!OneDefault
    <2>6. ASSUME row.default, NEW q \in Changes \ {r}, change[q].at = "written", change[q].default
          PROVE  change[q].user # row.user
      BY <2>2, <2>6 DEF A!Write, A!EntryChanging
    <2>7. KeepsIndex(r, row) /\ LeavesOthers(r)
      BY <1>1, <2>1, <2>4, <2>6 DEF KeepsIndex, LeavesOthers
    <2>8. IndexHolds(r)'
      <3> SUFFICES ASSUME row.default
                   PROVE  /\ A!Defaults(row.user) \subseteq row.cleared \cup {row.address}
                          /\ \A q \in Changes \ {r} :
                                change[q].at = "written" /\ change[q].default =>
                                    change[q].user # row.user
        BY <1>1, <2>3 DEF IndexHolds, A!Defaults
      <3>1. A!Defaults(row.user) \subseteq row.cleared \cup {row.address}
        BY <1>3, <2>2 DEF A!OtherDefault
      <3> QED BY <2>6, <3>1
    <2>9. ChangeHolds(r)'
      <3>1. ChangeHolds(r)
        BY DEF AddressInv
      <3> QED BY <1>1, <2>1, <2>2, <2>3, <3>1 DEF ChangeHolds, Open, A!Mine, A!Defaults
    <2>10. row.at \in Open
      BY <2>2 DEF Open
    <2> QED BY <1>1, <2>1, <2>2, <2>5, <2>7, <2>8, <2>9, <2>10, AddressTypes, ChangeStep
  <1> QED BY <1>2, <1>3

\* What a commit does to the book: its row as it was saved, and without their mark
\* the defaults it has cleared, all of them of its customer.
LEMMA CommitBook ==
    ASSUME AddressInv, NEW r \in Changes, A!Commit(r)
    PROVE  LET c == change[r] IN
           /\ c.user \in Owners /\ c.address \in Changes
           /\ book' \in [Changes -> BookRow]
           /\ book'[c.address] = [row |-> TRUE, owner |-> c.user, default |-> c.default]
           /\ \A b \in Changes \ {c.address} :
                 IF b \in c.cleared THEN book'[b].row /\ book'[b].owner = c.user /\ ~book'[b].default
                 ELSE book'[b] = book[b]
           /\ \A b \in c.cleared : c.default /\ holder[b] = r /\ b \in A!Defaults(c.user)
           /\ c.address # r => holder[c.address] = r /\ A!Mine(c.user, c.address)
           /\ c.address = r => ~book[r].row
  <1> DEFINE c == change[r]
             saved == [row |-> TRUE, owner |-> c.user, default |-> c.default]
  <1>1. c.at = "written" /\ ChangeHolds(r) /\ c \in ChangeRow
    BY AddressTypes DEF A!Commit, AddressInv
  <1>2. /\ c.user \in Owners /\ c.address \in Changes
        /\ \A b \in c.cleared : c.default /\ holder[b] = r /\ b \in A!Defaults(c.user)
        /\ c.address # r => holder[c.address] = r /\ A!Mine(c.user, c.address)
        /\ c.address = r => ~book[r].row
    BY <1>1 DEF ChangeHolds, Open
  <1>3. book' = [a \in Changes |-> IF a = c.address THEN saved
                 ELSE IF a \in c.cleared THEN [book[a] EXCEPT !.default = FALSE] ELSE book[a]]
    BY DEF A!Commit
  <1>4. ASSUME NEW b \in Changes, b \in c.cleared
        PROVE  LET d == [book[b] EXCEPT !.default = FALSE] IN
               d \in BookRow /\ d.row /\ d.owner = c.user /\ ~d.default
    <2>1. book[b] \in BookRow /\ book[b].row /\ book[b].owner = c.user
      BY <1>2, <1>4, AddressTypes DEF A!Defaults
    <2> QED BY <2>1 DEF BookRow
  <1>5. saved \in BookRow
    BY <1>1, <1>2 DEF BookRow, ChangeRow
  <1> HIDE DEF saved, c
  <1>6. book' \in [Changes -> BookRow]
    BY <1>3, <1>4, <1>5, AddressTypes
  <1>7. book'[c.address] = saved
    BY <1>2, <1>3
  <1>8. ASSUME NEW b \in Changes \ {c.address}
        PROVE  IF b \in c.cleared THEN book'[b].row /\ book'[b].owner = c.user /\ ~book'[b].default
               ELSE book'[b] = book[b]
    BY <1>3, <1>4
  <1> QED BY <1>2, <1>6, <1>7, <1>8 DEF c, saved

\* A commit takes no default from another customer, and none from its own
\* without giving another, unless it is its own address that loses the mark.
LEMMA CommitDefaults ==
    ASSUME AddressInv, NEW r \in Changes, A!Commit(r)
    PROVE  LET c == change[r] IN
           /\ \A u : u # c.user => A!Defaults(u)' = A!Defaults(u)
           /\ c.default => \A u : u = c.user => A!Defaults(u)' = {c.address}
           /\ ~c.default => \A u : u = c.user => A!Defaults(u)' = A!Defaults(u) \ {c.address}
  <1> DEFINE c == change[r]
             a == c.address
  <1>1. /\ c.user \in Owners /\ a \in Changes
        /\ book'[a] = [row |-> TRUE, owner |-> c.user, default |-> c.default]
        /\ \A b \in Changes \ {a} :
                 IF b \in c.cleared THEN book'[b].row /\ book'[b].owner = c.user /\ ~book'[b].default
                 ELSE book'[b] = book[b]
        /\ \A b \in c.cleared : c.default /\ holder[b] = r /\ b \in A!Defaults(c.user)
        /\ a # r => holder[a] = r /\ A!Mine(c.user, a)
        /\ a = r => ~book[r].row
    BY CommitBook
  <1>2. c.default => A!Defaults(c.user) \subseteq c.cleared \cup {a}
    BY DEF AddressInv, IndexHolds, A!Commit
  <1> HIDE DEF c, a
  <1>3. ASSUME NEW u, u # c.user
        PROVE  A!Defaults(u)' = A!Defaults(u)
    <2>1. ASSUME NEW b \in Changes
          PROVE  b \in A!Defaults(u)' <=> b \in A!Defaults(u)
      <3>1. CASE b = a
        <4>1. b \notin A!Defaults(u)'
          BY <1>1, <1>3, <3>1 DEF A!Defaults
        <4>2. b \notin A!Defaults(u)
          BY <1>1, <1>3, <3>1 DEF A!Defaults, A!Mine
        <4> QED BY <4>1, <4>2
      <3>2. CASE b # a /\ b \in c.cleared
        BY <1>1, <1>3, <3>2 DEF A!Defaults
      <3>3. CASE b # a /\ b \notin c.cleared
        BY <1>1, <3>3 DEF A!Defaults
      <3> QED BY <3>1, <3>2, <3>3
    <2> QED BY <2>1 DEF A!Defaults
  <1>4. ASSUME NEW u, u = c.user, c.default
        PROVE  A!Defaults(u)' = {a}
    <2>1. a \in A!Defaults(u)'
      BY <1>1, <1>4 DEF A!Defaults
    <2>2. ASSUME NEW b \in Changes \ {a}
          PROVE  b \notin A!Defaults(u)'
      BY <1>1, <1>2, <1>4, <2>2 DEF A!Defaults
    <2> QED BY <2>1, <2>2 DEF A!Defaults
  <1>5. ASSUME NEW u, u = c.user, ~c.default
        PROVE  A!Defaults(u)' = A!Defaults(u) \ {a}
    <2>1. a \notin A!Defaults(u)'
      BY <1>1, <1>5 DEF A!Defaults
    <2>2. ASSUME NEW b \in Changes \ {a}
          PROVE  b \in A!Defaults(u)' <=> b \in A!Defaults(u)
      BY <1>1, <1>5, <2>2 DEF A!Defaults
    <2> QED BY <2>1, <2>2 DEF A!Defaults
  <1> QED BY <1>3, <1>4, <1>5 DEF c, a

LEMMA AddressCommitted ==
    ASSUME AddressInv, NEW r \in Changes, A!Commit(r)
    PROVE  AddressInv'
  <1> DEFINE row == [change[r] EXCEPT !.at = "done"]
             a == change[r].address
  <1>1. /\ row \in ChangeRow /\ row.at = "done" /\ change' = [change EXCEPT ![r] = row]
        /\ change'[r] = row
    BY AddressTypes DEF ChangeRow, A!Commit, A!Goto
  <1> HIDE DEF row
  <1>2. \A b \in Changes : holder'[b] = IF holder[b] = r THEN None ELSE holder[b]
    BY DEF A!Commit, A!Release
  <1>3. holder' \in [Changes -> Changes \cup {None}]
    BY AddressTypes DEF A!Commit, A!Release
  <1>4. r # None
    BY RequestsAssumption DEF A!AddressesAssumption
  <1>5. change[r].user \in Owners /\ a \in Changes /\ book' \in [Changes -> BookRow]
    BY CommitBook
  <1>a. \A b \in Changes \ {a} : b \notin change[r].cleared => book'[b] = book[b]
    <2> SUFFICES ASSUME NEW b \in Changes \ {a}, b \notin change[r].cleared
                 PROVE  book'[b] = book[b]
      OBVIOUS
    <2> QED BY DEF A!Commit
  <1>b. \A b \in change[r].cleared : holder[b] = r
    BY CommitBook
  <1>c. a # r => holder[a] = r
    BY CommitBook
  <1>6. ASSUME NEW b \in Changes, holder[b] # r, b # r \/ a # r
        PROVE  book'[b] = book[b]
    <2>1. b \notin change[r].cleared
      BY <1>6, <1>b, Zenon
    <2>2. b # a
      BY <1>6, <1>c, Zenon
    <2> QED BY <1>a, <2>1, <2>2, Zenon
  <1>7. LeavesOthers(r)
    <2>1. ASSUME NEW b \in Changes, holder[b] \notin {r, None}, book[b].row
          PROVE  book'[b] = book[b]
      <3>1. CASE b = r /\ a = r
        BY <2>1, <3>1, CommitBook
      <3> QED BY <1>6, <2>1, <3>1
    <2> QED BY <1>2, <2>1 DEF LeavesOthers
  <1>8. ASSUME NEW q \in Changes \ {r}, book'[q].row
        PROVE  book[q].row
    <2>1. CASE q = a
      BY <2>1, CommitBook DEF A!Mine
    <2>2. CASE q # a /\ q \in change[r].cleared
      <3>1. q \in A!Defaults(change[r].user)
        BY <2>2, CommitBook
      <3> QED BY <3>1 DEF A!Defaults
    <2>3. CASE q # a /\ q \notin change[r].cleared
      <3>1. book'[q] = book[q]
        BY <1>a, <2>3, Zenon
      <3> QED BY <1>8, <3>1
    <2> QED BY <2>1, <2>2, <2>3
  <1>9. ASSUME NEW u
        PROVE  A!Defaults(u)' \subseteq A!Defaults(u) \/ (u = change[r].user /\ change[r].default)
    BY CommitDefaults
  <1>10. A!OneDefault'
    <2> SUFFICES ASSUME NEW u \in Owners
                 PROVE  \A x, y \in A!Defaults(u)' : x = y
      BY DEF A!OneDefault
    <2>1. CASE A!Defaults(u)' \subseteq A!Defaults(u)
      BY <2>1 DEF AddressInv, A!OneDefault
    <2>2. CASE u = change[r].user /\ change[r].default
      BY <2>2, CommitDefaults
    <2> QED BY <1>9, <2>1, <2>2
  <1>11. KeepsIndex(r, row)
    <2> SUFFICES ASSUME NEW q \in Changes \ {r}, NEW u \in Owners \cup {None}, change[q].user = u,
                        change[q].at = "written", change[q].default
                 PROVE  A!Defaults(u)' \subseteq A!Defaults(u)
      BY <1>1 DEF KeepsIndex
    <2>1. ~(u = change[r].user /\ change[r].default)
      BY DEF AddressInv, IndexHolds, A!Commit
    <2> QED BY <1>9, <2>1
  <1>12. ChangeHolds(r)' /\ IndexHolds(r)'
    BY <1>1 DEF ChangeHolds, IndexHolds, Open
  <1>13. \A b \in Changes : holder'[b] \in {holder[b], r, None} /\ holder'[b] # r
    BY <1>2, <1>4
  <1> QED BY <1>1, <1>3, <1>5, <1>7, <1>8, <1>10, <1>11, <1>12, <1>13, ChangeStep

LEMMA AddressInit == A!Init => AddressInv
  <1> SUFFICES ASSUME A!Init
               PROVE  AddressInv
    OBVIOUS
  <1>1. /\ \A r \in Changes : change[r] = A!Idle /\ ~book[r].row /\ holder[r] = None
        /\ A!Idle \in ChangeRow /\ A!NoAddress \in BookRow
        /\ A!Idle.at = "idle" /\ A!Idle.cleared = {}
    BY DEF A!Init, A!Idle, A!NoAddress, ChangeRow, BookRow
  <1>2. A!TypeOK
    BY <1>1 DEF A!Init, A!TypeOK, ChangeRow, BookRow
  <1>3. A!OneDefault
    BY <1>1 DEF A!OneDefault, A!Defaults
  <1>4. \A r \in Changes : ChangeHolds(r) /\ IndexHolds(r)
    BY <1>1 DEF ChangeHolds, IndexHolds, Open
  <1> QED BY <1>2, <1>3, <1>4 DEF AddressInv

LEMMA AddressStep ==
    ASSUME AddressInv, A!Next \/ UNCHANGED addressVars
    PROVE  AddressInv'
  <1>1. ASSUME NEW r \in Changes, NEW u \in Owners, NEW d \in BOOLEAN, A!Create(r, u, d)
        PROVE  AddressInv'
    BY <1>1, ChangeBegins DEF A!Create
  <1>2. ASSUME NEW r \in Changes, NEW u \in Owners, NEW d \in BOOLEAN, NEW a \in Changes \ {r},
               A!Update(r, u, a, d) \/ A!Delete(r, u, a)
        PROVE  AddressInv'
    BY <1>2, ChangeBegins, AddressDeleted DEF A!Update
  <1>3. ASSUME NEW r \in Changes, A!Fail(r)
        PROVE  AddressInv'
    BY <1>3, ReleaseStep DEF A!Fail, A!Ended, A!Goto
  <1>4. ASSUME NEW r \in Changes, A!Serve(r)
        PROVE  AddressInv'
    BY <1>4, LockOwnStep, FindDefaultsStep, ClearDefaultsStep, WriteStep, AddressCommitted
       DEF A!Serve
  <1>5. CASE UNCHANGED addressVars
    <2>1. A!TypeOK' /\ A!OneDefault'
      BY <1>5 DEF addressVars, AddressInv, A!TypeOK, A!OneDefault, A!Defaults
    <2>2. \A r \in Changes : ChangeHolds(r)' /\ IndexHolds(r)'
      BY <1>5 DEF addressVars, AddressInv, ChangeHolds, IndexHolds, A!Mine, A!Defaults
    <2> QED BY <2>1, <2>2 DEF AddressInv
  <1> QED BY <1>1, <1>2, <1>3, <1>4, <1>5 DEF A!Next

\* What DefaultIsKept says of a step.
DefaultMoves(u) ==
    A!Defaults(u) # {} /\ A!Defaults(u)' = {} =>
        \E a \in A!Defaults(u), r \in Changes :
            /\ change[r].at # "done" /\ change'[r].at = "done"
            /\ change'[r].user = u /\ change'[r].address = a

LEMMA DefaultStep ==
    ASSUME AddressInv, A!Next \/ UNCHANGED addressVars, NEW u \in Owners
    PROVE  DefaultMoves(u)
  <1>1. ASSUME book' = book
        PROVE  DefaultMoves(u)
    BY <1>1 DEF DefaultMoves, A!Defaults
  <1>2. ASSUME NEW r \in Changes, NEW v \in Owners, NEW a \in Changes \ {r}, A!Delete(r, v, a)
        PROVE  DefaultMoves(u)
    <2>1. CASE ~A!Mine(v, a)
      BY <1>1, <1>2, <2>1 DEF A!Delete
    <2>2. CASE A!Mine(v, a)
      <3>1. /\ change[r].at = "idle" /\ change'[r].at = "done"
            /\ change'[r].user = v /\ change'[r].address = a
        BY <1>2, <2>2, AddressTypes DEF A!Delete, ChangeRow
      <3>2. \A b \in Changes \ {a} : book'[b] = book[b]
        BY <1>2, <2>2, AddressTypes DEF A!Delete
      <3>3. ASSUME NEW b \in A!Defaults(u), A!Defaults(u)' = {}
            PROVE  b = a
        BY <3>2, <3>3 DEF A!Defaults
      <3>4. a \in A!Defaults(u) => u = v
        BY <2>2 DEF A!Defaults, A!Mine
      <3> QED BY <3>1, <3>3, <3>4 DEF DefaultMoves
    <2> QED BY <2>1, <2>2
  <1>3. ASSUME NEW r \in Changes, A!Commit(r)
        PROVE  DefaultMoves(u)
    <2>1. /\ change[r].at = "written" /\ change'[r].at = "done"
          /\ change'[r].user = change[r].user /\ change'[r].address = change[r].address
      BY <1>3, AddressTypes DEF A!Commit, A!Goto, ChangeRow
    <2>2. CASE u # change[r].user
      BY <1>3, <2>2, CommitDefaults DEF DefaultMoves
    <2>3. CASE u = change[r].user /\ change[r].default
      BY <1>3, <2>3, CommitDefaults DEF DefaultMoves
    <2>4. CASE u = change[r].user /\ ~change[r].default
      BY <1>3, <2>1, <2>4, CommitDefaults DEF DefaultMoves
    <2> QED BY <2>2, <2>3, <2>4
  <1> QED BY <1>1, <1>2, <1>3 DEF A!Next, A!Serve, A!Create, A!Update, A!Begin, A!LockOwn,
             A!FindDefaults, A!ClearDefaults, A!Write, A!Fail, addressVars

-----------------------------------------------------------------------------
(* Sessions: what has ended stays ended, and only the last link works.     *)

VisitRow == [at : {"idle", "verified", "leaving", "reading", "known", "locked", "cleared",
                   "found", "holding", "in", "done"},
             user : Users \cup {None}, with : Visits \cup {None}, late : BOOLEAN,
             doomed : SUBSET Visits]

SessionRow == [row : BOOLEAN, user : Users \cup {None}, expired : BOOLEAN, ended : BOOLEAN]

TokenRow == [row : BOOLEAN, user : Users \cup {None}, expired : BOOLEAN, used : BOOLEAN]

\* A session is made by a request that is then done; a row that has ended but is
\* still there has expired.
SessionHolds(s) ==
    /\ session[s].row => session[s].user # None
    /\ session[s].user # None => visit[s].at = "done"
    /\ session[s].row /\ session[s].ended => session[s].expired

\* A request that came too late will see that its session has expired.
SeenHolds(r) ==
    LET v == visit[r] IN
    /\ v.at \in {"reading", "leaving"} => v.with \in Visits /\ session[v.with].user # None
    /\ v.at = "reading" /\ v.late => session[v.with].expired
    /\ v.at = "in" => ~v.late

\* A link is the newest of its user and has been used as often as it is marked.
TokenHolds(t) ==
    /\ token[t].row => newest[token[t].user] = t /\ token[t].user # None
    /\ token[t].user # None => visit[t].at = "done"
    /\ uses[t] = IF token[t].used THEN 1 ELSE 0
    /\ token[t].used => token[t].user # None

\* Who works on a user's links has the user's row, and has seen all of them.
VisitHolds(r) ==
    LET v == visit[r] IN
    /\ v.at \in {"verified", "known", "locked", "cleared", "found", "holding"} => v.user \in Users
    /\ v.at \in {"locked", "cleared", "holding"} => lock[v.user] = r
    /\ v.at = "cleared" => \A t \in Visits : token[t].row /\ token[t].user = v.user => t \in v.doomed
    /\ v.at \in {"found", "holding"} => v.with \in Visits /\ token[v.with].user = v.user

SessionInv ==
    /\ S!TypeOK
    /\ \A r \in Visits : SessionHolds(r) /\ SeenHolds(r) /\ TokenHolds(r) /\ VisitHolds(r)

LEMMA SessionTypes ==
    ASSUME SessionInv
    PROVE  /\ visit \in [Visits -> VisitRow] /\ session \in [Visits -> SessionRow]
           /\ token \in [Visits -> TokenRow] /\ lock \in [Users -> Visits \cup {None}]
           /\ password \in [Users -> Passwords \cup {None}]
           /\ newest \in [Users -> Visits \cup {None}] /\ uses \in [Visits -> Nat]
  BY DEF SessionInv, S!TypeOK, VisitRow, SessionRow, TokenRow

\* What a step may do to a session, a token and the lock of a user's row.
SessionGoesOn(s) ==
    /\ session[s].user # None =>
          session'[s].user = session[s].user /\ (session[s].expired => session'[s].expired)
    /\ session'[s].user # None => session[s].user # None \/ visit'[s].at = "done"
    /\ session'[s].row => session'[s].user # None
    /\ session'[s].row /\ session'[s].ended => session'[s].expired

TokenGoesOn(r, t) ==
    /\ token[t].user # None => token'[t].user = token[t].user
    /\ token'[t].row =>
          \/ token[t].row /\ token'[t].user = token[t].user
          \/ t = r /\ lock[token'[t].user] = r

LockGoesOn(r, u) ==
    /\ lock'[u] \in {lock[u], r, None}
    /\ lock[u] \notin {r, None} => lock'[u] = lock[u]
    /\ r # None /\ lock'[u] = r =>
          visit'[r].at \in {"locked", "cleared", "holding"} /\ visit'[r].user = u

\* One request moves, or none (r is None).
LEMMA VisitStep ==
    ASSUME SessionInv, NEW r \in Visits \cup {None},
           visit' \in [Visits -> VisitRow], session' \in [Visits -> SessionRow],
           token' \in [Visits -> TokenRow], lock' \in [Users -> Visits \cup {None}],
           password' \in [Users -> Passwords \cup {None}],
           newest' \in [Users -> Visits \cup {None}], uses' \in [Visits -> Nat],
           \A q \in Visits \ {r} : visit'[q] = visit[q],
           \A s \in Visits : SessionGoesOn(s), \A t \in Visits : TokenGoesOn(r, t),
           \A u \in Users : LockGoesOn(r, u), \A t \in Visits : TokenHolds(t)',
           r \in Visits => visit[r].at # "done" /\ SeenHolds(r)' /\ VisitHolds(r)'
    PROVE  SessionInv'
  <1>1. None \notin Users \cup Visits
    BY RequestsAssumption DEF S!SessionsAssumption
  <1>2. S!TypeOK'
    <2>1. ASSUME NEW u \in Users, lock'[u] # None
          PROVE  /\ visit'[lock'[u]].at \in {"locked", "cleared", "holding"}
                 /\ visit'[lock'[u]].user = u
      <3>1. CASE lock'[u] = r
        BY <2>1, <3>1 DEF LockGoesOn
      <3>2. CASE lock'[u] # r
        <4>1. lock'[u] = lock[u] /\ lock[u] \in Visits \ {r}
          BY <2>1, <3>2, SessionTypes DEF LockGoesOn
        <4>2. visit[lock[u]].at \in {"locked", "cleared", "holding"} /\ visit[lock[u]].user = u
          BY <2>1, <4>1 DEF SessionInv, S!TypeOK
        <4> QED BY <4>1, <4>2
      <3> QED BY <3>1, <3>2
    <2> QED BY <2>1 DEF S!TypeOK, VisitRow, SessionRow, TokenRow
  <1>3. ASSUME NEW s \in Visits
        PROVE  SessionHolds(s)'
    <2>1. SessionHolds(s) /\ SessionGoesOn(s)
      BY DEF SessionInv
    <2>2. visit[s].at = "done" => visit'[s].at = "done"
      BY <1>1
    <2> QED BY <2>1, <2>2 DEF SessionHolds, SessionGoesOn
  <1>4. ASSUME NEW q \in Visits
        PROVE  SeenHolds(q)'
    <2>1. CASE q = r
      BY <2>1
    <2>2. CASE q # r
      <3>1. SeenHolds(q) /\ visit'[q] = visit[q]
        BY <2>2 DEF SessionInv
      <3>2. visit[q].with \in Visits => SessionGoesOn(visit[q].with)
        OBVIOUS
      <3> QED BY <3>1, <3>2 DEF SeenHolds, SessionGoesOn
    <2> QED BY <2>1, <2>2
  <1>5. ASSUME NEW q \in Visits
        PROVE  VisitHolds(q)'
    <2>1. CASE q = r
      BY <2>1
    <2>2. CASE q # r
      <3>1. VisitHolds(q) /\ visit'[q] = visit[q] /\ q # None
        BY <1>1, <2>2 DEF SessionInv
      <3>2. ASSUME NEW u \in Users, lock[u] = q
            PROVE  lock'[u] = q
        BY <2>2, <3>1, <3>2 DEF LockGoesOn
      <3>3. ASSUME NEW u \in Users, NEW t \in Visits, token[t].user = u
            PROVE  token'[t].user = u
        BY <1>1, <3>3 DEF TokenGoesOn
      <3>4. ASSUME NEW u \in Users, NEW t \in Visits, lock[u] = q, token'[t].row, token'[t].user = u
            PROVE  token[t].row /\ token[t].user = u
        BY <2>2, <3>4 DEF TokenGoesOn
      <3> QED BY <3>1, <3>2, <3>3, <3>4 DEF VisitHolds
    <2> QED BY <2>1, <2>2
  <1> QED BY <1>2, <1>3, <1>4, <1>5 DEF SessionInv

LEMMA SessionsStay ==
    ASSUME SessionInv, session' = session, NEW s \in Visits
    PROVE  SessionGoesOn(s)
  BY DEF SessionInv, SessionHolds, SessionGoesOn

\* Tokens that at most expire or are cleared away.
LEMMA TokensStay ==
    ASSUME SessionInv, UNCHANGED <<newest, uses>>, NEW t \in Visits, NEW r,
           visit[t].at = "done" => visit'[t].at = "done",
           token'[t].user = token[t].user, token'[t].used = token[t].used,
           token'[t].row => token[t].row
    PROVE  TokenHolds(t)' /\ TokenGoesOn(r, t)
  BY DEF SessionInv, TokenHolds, TokenGoesOn

LEMMA LocksStay ==
    ASSUME SessionInv, lock' = lock, NEW u \in Users, NEW r \in Visits,
           visit[r].at \in {"locked", "cleared", "holding"} =>
               visit'[r].at \in {"locked", "cleared", "holding"} /\ visit'[r].user = visit[r].user
    PROVE  LockGoesOn(r, u)
  BY DEF SessionInv, S!TypeOK, LockGoesOn

LEMMA LocksReleased ==
    ASSUME SessionInv, NEW r \in Visits, S!Release(r), NEW u \in Users
    PROVE  LockGoesOn(r, u) /\ lock' \in [Users -> Visits \cup {None}]
  BY SessionTypes, RequestsAssumption DEF S!Release, LockGoesOn, S!SessionsAssumption

\* A request that goes on and writes nothing but, at most, the user's password.
LEMMA OnlyVisit ==
    ASSUME SessionInv, NEW r \in Visits, NEW row \in VisitRow,
           visit' = [visit EXCEPT ![r] = row], visit[r].at # "done",
           UNCHANGED <<session, token, lock, newest, uses>>,
           password' \in [Users -> Passwords \cup {None}],
           visit[r].at \in {"locked", "cleared", "holding"} =>
               row.at \in {"locked", "cleared", "holding"} /\ row.user = visit[r].user,
           visit'[r] = row => SeenHolds(r)' /\ VisitHolds(r)'
    PROVE  SessionInv'
  <1>1. visit'[r] = row /\ visit' \in [Visits -> VisitRow]
        /\ \A q \in Visits \ {r} : visit'[q] = visit[q]
    BY SessionTypes
  <1>2. \A s \in Visits : SessionGoesOn(s)
    BY SessionsStay
  <1>3. \A t \in Visits : TokenHolds(t)' /\ TokenGoesOn(r, t)
    BY <1>1, TokensStay
  <1>4. \A u \in Users : LockGoesOn(r, u)
    BY <1>1, LocksStay
  <1> QED BY <1>1, <1>2, <1>3, <1>4, SessionTypes, VisitStep

LEMMA GotoRow ==
    ASSUME SessionInv, NEW r \in Visits, NEW at, S!Goto(r, at)
    PROVE  /\ visit' = [visit EXCEPT ![r] = [visit[r] EXCEPT !.at = at]]
           /\ visit'[r].at = at /\ visit'[r].user = visit[r].user /\ visit'[r].with = visit[r].with
           /\ visit'[r].late = visit[r].late /\ visit'[r].doomed = visit[r].doomed
           /\ \A q \in Visits \ {r} : visit'[q] = visit[q]
           /\ at \in {"idle", "verified", "leaving", "reading", "known", "locked", "cleared",
                      "found", "holding", "in", "done"} => visit' \in [Visits -> VisitRow]
  <1>1. visit \in [Visits -> VisitRow] /\ visit[r] \in VisitRow
    BY SessionTypes
  <1> DEFINE row == [visit[r] EXCEPT !.at = at]
  <1>2. visit' = [visit EXCEPT ![r] = row]
    BY <1>1 DEF S!Goto
  <1>3. /\ row.at = at /\ row.user = visit[r].user /\ row.with = visit[r].with
        /\ row.late = visit[r].late /\ row.doomed = visit[r].doomed
    BY <1>1 DEF VisitRow
  <1>4. at \in {"idle", "verified", "leaving", "reading", "known", "locked", "cleared",
                "found", "holding", "in", "done"} => row \in VisitRow
    BY <1>1 DEF VisitRow
  <1> HIDE DEF row
  <1>5. visit'[r] = row /\ \A q \in Visits \ {r} : visit'[q] = visit[q]
    BY <1>1, <1>2
  <1>6. row \in VisitRow => visit' \in [Visits -> VisitRow]
    BY <1>1, <1>2
  <1> QED BY <1>2, <1>3, <1>4, <1>5, <1>6 DEF row

\* A request that is done, or idle, has nothing to keep.
LEMMA DoneHolds ==
    ASSUME NEW r \in Visits, visit'[r].at = "done"
    PROVE  SeenHolds(r)' /\ VisitHolds(r)'
  BY DEF SeenHolds, VisitHolds

\* Register, Login and ForgotPassword.
LEMMA ArriveStep ==
    ASSUME SessionInv, NEW r \in Visits, NEW u \in Users, NEW at \in {"verified", "known"},
           visit[r].at = "idle", visit' = [visit EXCEPT ![r].at = at, ![r].user = u],
           UNCHANGED <<session, token, lock, newest, uses>>,
           password' \in [Users -> Passwords \cup {None}]
    PROVE  SessionInv'
  <1> DEFINE row == [visit[r] EXCEPT !.at = at, !.user = u]
  <1>1. visit' = [visit EXCEPT ![r] = row] /\ row \in VisitRow /\ row.at = at /\ row.user = u
    BY SessionTypes DEF VisitRow
  <1> HIDE DEF row
  <1>2. visit'[r] = row => SeenHolds(r)' /\ VisitHolds(r)'
    BY <1>1 DEF SeenHolds, VisitHolds
  <1> QED BY <1>1, <1>2, OnlyVisit

LEMMA ArrivalSteps ==
    ASSUME SessionInv, NEW r \in Visits, NEW u \in Users,
           (\E p \in Passwords : S!Register(r, u, p)) \/ S!Login(r, u) \/ S!ForgotPassword(r, u)
    PROVE  SessionInv'
  <1>1. CASE \E p \in Passwords : S!Register(r, u, p)
    <2>1. password' \in [Users -> Passwords \cup {None}]
      BY <1>1, SessionTypes DEF S!Register
    <2> QED BY <1>1, <2>1, ArriveStep DEF S!Register
  <1>2. CASE S!Login(r, u)
    BY <1>2, ArriveStep, SessionTypes DEF S!Login
  <1>3. CASE S!ForgotPassword(r, u)
    BY <1>3, ArriveStep, SessionTypes DEF S!ForgotPassword
  <1> QED BY <1>1, <1>2, <1>3

LEMMA CreateSessionStep ==
    ASSUME SessionInv, NEW r \in Visits, S!CreateSession(r)
    PROVE  SessionInv'
  <1> DEFINE new == [S!NoSession EXCEPT !.row = TRUE, !.user = visit[r].user]
  <1>1. /\ visit[r].at = "verified" /\ visit[r].user \in Users /\ visit[r].user # None
        /\ session[r].user = None
    BY RequestsAssumption DEF S!CreateSession, S!SessionsAssumption, SessionInv, VisitHolds,
       SessionHolds
  <1>2. session' = [session EXCEPT ![r] = new] /\ S!Goto(r, "done")
        /\ UNCHANGED <<password, token, lock, newest, uses>>
    BY DEF S!CreateSession
  <1>3. new \in SessionRow /\ new.user = visit[r].user /\ ~new.ended
    BY <1>1 DEF S!NoSession, SessionRow
  <1> HIDE DEF new
  <1>4. session' \in [Visits -> SessionRow] /\ session'[r] = new
        /\ \A s \in Visits \ {r} : session'[s] = session[s]
    BY <1>2, <1>3, SessionTypes
  <1>5. visit' \in [Visits -> VisitRow] /\ visit'[r].at = "done"
        /\ \A q \in Visits \ {r} : visit'[q] = visit[q]
    BY <1>2, GotoRow
  <1>6. ASSUME NEW s \in Visits
        PROVE  SessionGoesOn(s)
    <2>1. CASE s = r
      BY <1>1, <1>3, <1>4, <1>5, <2>1 DEF SessionGoesOn
    <2>2. CASE s # r
      <3>1. SessionHolds(s) /\ session'[s] = session[s]
        BY <1>4, <2>2 DEF SessionInv
      <3> QED BY <3>1 DEF SessionHolds, SessionGoesOn
    <2> QED BY <2>1, <2>2
  <1>7. \A t \in Visits : TokenHolds(t)' /\ TokenGoesOn(r, t)
    BY <1>2, <1>5, TokensStay
  <1>8. \A u \in Users : LockGoesOn(r, u)
    BY <1>1, <1>2, LocksStay
  <1> QED BY <1>1, <1>2, <1>4, <1>5, <1>6, <1>7, <1>8, DoneHolds, SessionTypes, VisitStep

LEMMA FindSessionStep ==
    ASSUME SessionInv, NEW r \in Visits, NEW s \in Visits, NEW at \in {"leaving", "reading"},
           S!FindSession(r, s, at)
    PROVE  SessionInv'
  <1> DEFINE to == IF session[s].row THEN at ELSE "done"
             row == [visit[r] EXCEPT !.at = to, !.with = s, !.late = session[s].ended]
  <1>1. /\ visit[r].at = "idle" /\ session[s].user # None
        /\ visit' = [visit EXCEPT ![r] = row]
        /\ UNCHANGED <<password, session, token, lock, newest, uses>>
    BY SessionTypes DEF S!FindSession
  <1>2. /\ row \in VisitRow /\ row.at = to /\ row.with = s /\ row.late = session[s].ended
        /\ to \in {"leaving", "reading", "done"}
    <2>1. visit[r] \in VisitRow /\ session[s].ended \in BOOLEAN
      BY SessionTypes DEF SessionRow
    <2>2. to \in {"leaving", "reading", "done"}
      OBVIOUS
    <2> HIDE DEF to
    <2> QED BY <2>1, <2>2 DEF VisitRow
  <1>3. to # "done" => session[s].row
    OBVIOUS
  <1> HIDE DEF row, to
  <1>4. visit'[r] = row => SeenHolds(r)' /\ VisitHolds(r)'
    <2>1. SessionHolds(s)
      BY DEF SessionInv
    <2> QED BY <1>1, <1>2, <1>3, <2>1 DEF SeenHolds, VisitHolds, SessionHolds
  <1> QED BY <1>1, <1>2, <1>4, SessionTypes, OnlyVisit

\* A request that loses a row of a session, or reads it.
LEMMA SessionUsed ==
    ASSUME SessionInv, NEW r \in Visits, S!Logout(r) \/ S!Authenticate(r)
    PROVE  SessionInv'
  <1> DEFINE w == visit[r].with
  <1>1. /\ visit[r].at \in {"leaving", "reading"} /\ w \in Visits /\ session[w].user # None
        /\ UNCHANGED <<password, token, lock, newest, uses>>
    BY DEF S!Logout, S!Authenticate, SessionInv, SeenHolds
  <1>2. /\ session' \in [Visits -> SessionRow]
        /\ \A s \in Visits : \/ session'[s] = session[s]
                             \/ /\ ~session'[s].row /\ session'[s].user = session[s].user
                                /\ session'[s].expired = session[s].expired
    <2>1. session \in [Visits -> SessionRow]
      BY SessionTypes
    <2>2. CASE session' = session
      BY <2>1, <2>2
    <2>3. CASE session' = [session EXCEPT ![w].row = FALSE, ![w].ended = TRUE]
      BY <1>1, <2>1, <2>3 DEF SessionRow
    <2>4. CASE session' = [session EXCEPT ![w].row = FALSE]
      BY <1>1, <2>1, <2>4 DEF SessionRow
    <2> QED BY <2>2, <2>3, <2>4 DEF S!Logout, S!Authenticate
  <1>3. PICK at \in {"done", "in"} :
           S!Goto(r, at) /\ (at = "in" => visit[r].at = "reading" /\ ~session[w].expired)
    BY DEF S!Logout, S!Authenticate
  <1>4. /\ visit' \in [Visits -> VisitRow] /\ visit'[r].at = at /\ visit'[r].late = visit[r].late
        /\ \A q \in Visits \ {r} : visit'[q] = visit[q]
    BY <1>3, GotoRow
  <1>5. ASSUME NEW s \in Visits
        PROVE  SessionGoesOn(s)
    <2>1. SessionHolds(s)
      BY DEF SessionInv
    <2> QED BY <1>2, <2>1 DEF SessionHolds, SessionGoesOn
  <1>6. SeenHolds(r)' /\ VisitHolds(r)'
    <2>1. SeenHolds(r)
      BY DEF SessionInv
    <2> QED BY <1>3, <1>4, <2>1 DEF SeenHolds, VisitHolds
  <1>7. \A t \in Visits : TokenHolds(t)' /\ TokenGoesOn(r, t)
    BY <1>1, <1>4, TokensStay
  <1>8. \A u \in Users : LockGoesOn(r, u)
    BY <1>1, LocksStay
  <1> QED BY <1>1, <1>2, <1>4, <1>5, <1>6, <1>7, <1>8, SessionTypes, VisitStep

\* Who takes the free row of a user.
LEMMA LockStep ==
    ASSUME SessionInv, NEW r \in Visits, S!LockUser(r) \/ S!HoldUser(r)
    PROVE  SessionInv'
  <1> DEFINE u == visit[r].user
  <1>1. PICK at \in {"locked", "holding"} :
           S!Goto(r, at) /\ visit[r].at = IF at = "locked" THEN "known" ELSE "found"
    BY DEF S!LockUser, S!HoldUser
  <1>2. /\ u \in Users /\ lock[u] = None /\ lock' = [lock EXCEPT ![u] = r]
        /\ UNCHANGED <<password, session, token, newest, uses>>
    BY DEF S!LockUser, S!HoldUser, SessionInv, VisitHolds
  <1>3. /\ visit' \in [Visits -> VisitRow] /\ visit'[r].at = at /\ visit'[r].user = u
        /\ visit'[r].with = visit[r].with
        /\ \A q \in Visits \ {r} : visit'[q] = visit[q]
    BY <1>1, GotoRow
  <1> HIDE DEF u
  <1>4. lock' \in [Users -> Visits \cup {None}] /\ lock'[u] = r
        /\ \A v \in Users \ {u} : lock'[v] = lock[v]
    BY <1>2, SessionTypes
  <1>5. ASSUME NEW v \in Users
        PROVE  LockGoesOn(r, v)
    <2>1. lock[v] # r
      BY <1>1, RequestsAssumption DEF SessionInv, S!TypeOK, S!SessionsAssumption
    <2> QED BY <1>1, <1>2, <1>3, <1>4, <2>1 DEF LockGoesOn
  <1>6. VisitHolds(r)' /\ SeenHolds(r)'
    <2>1. VisitHolds(r)
      BY DEF SessionInv
    <2> QED BY <1>1, <1>2, <1>3, <1>4, <2>1 DEF VisitHolds, SeenHolds, u
  <1>7. \A s \in Visits : SessionGoesOn(s)
    BY <1>2, SessionsStay
  <1>8. \A t \in Visits : TokenHolds(t)' /\ TokenGoesOn(r, t)
    BY <1>1, <1>2, <1>3, TokensStay
  <1> QED BY <1>1, <1>2, <1>3, <1>4, <1>5, <1>6, <1>7, <1>8, SessionTypes, VisitStep

LEMMA DeleteTokensStep ==
    ASSUME SessionInv, NEW r \in Visits, S!DeleteTokens(r)
    PROVE  SessionInv'
  <1> DEFINE gone == {t \in Visits : token[t].row /\ token[t].user = visit[r].user}
             row == [visit[r] EXCEPT !.at = "cleared", !.doomed = gone]
  <1>1. /\ visit[r].at = "locked" /\ visit' = [visit EXCEPT ![r] = row]
        /\ UNCHANGED <<password, session, token, lock, newest, uses>>
    BY SessionTypes DEF S!DeleteTokens
  <1>2. row \in VisitRow /\ row.at = "cleared" /\ row.user = visit[r].user /\ row.doomed = gone
    <2>1. visit[r] \in VisitRow /\ gone \in SUBSET Visits
      BY SessionTypes
    <2> HIDE DEF gone
    <2> QED BY <2>1 DEF VisitRow
  <1> HIDE DEF row
  <1>3. visit'[r] = row => SeenHolds(r)' /\ VisitHolds(r)'
    <2>1. VisitHolds(r)
      BY DEF SessionInv
    <2> QED BY <1>1, <1>2, <2>1 DEF SeenHolds, VisitHolds
  <1> QED BY <1>1, <1>2, <1>3, SessionTypes, OnlyVisit

\* The new link is the only one left of its user.
LEMMA IssueTokenStep ==
    ASSUME SessionInv, NEW r \in Visits, S!IssueToken(r)
    PROVE  SessionInv'
  <1> DEFINE u == visit[r].user
             new == [S!NoToken EXCEPT !.row = TRUE, !.user = u]
  <1>1. /\ visit[r].at = "cleared" /\ u \in Users /\ u # None /\ lock[u] = r
        /\ token[r].user = None
        /\ \A t \in Visits : token[t].row /\ token[t].user = u => t \in visit[r].doomed
    BY RequestsAssumption DEF S!IssueToken, S!SessionsAssumption, SessionInv, VisitHolds, TokenHolds
  <1>2. /\ token' = [t \in Visits |-> IF t = r THEN new ELSE
                IF t \in visit[r].doomed THEN [token[t] EXCEPT !.row = FALSE] ELSE token[t]]
        /\ newest' = [newest EXCEPT ![u] = r] /\ S!Release(r) /\ S!Goto(r, "done")
        /\ UNCHANGED <<password, session, uses>>
    BY DEF S!IssueToken
  <1>3. new \in TokenRow /\ new.row /\ new.user = u /\ ~new.used
    BY <1>1 DEF S!NoToken, TokenRow
  <1> HIDE DEF u, new
  <1>4. ASSUME NEW t \in Visits
        PROVE  LET d == [token[t] EXCEPT !.row = FALSE] IN
               d \in TokenRow /\ ~d.row /\ d.user = token[t].user /\ d.used = token[t].used
    BY SessionTypes DEF TokenRow
  <1>5. token' \in [Visits -> TokenRow] /\ token'[r] = new
    BY <1>2, <1>3, <1>4, SessionTypes
  <1>6. ASSUME NEW t \in Visits \ {r}
        PROVE  /\ token'[t].user = token[t].user /\ token'[t].used = token[t].used
               /\ token'[t].row => token[t].row /\ t \notin visit[r].doomed
    BY <1>2, <1>4
  <1>7. newest' \in [Users -> Visits \cup {None}] /\ newest'[u] = r
        /\ \A v \in Users \ {u} : newest'[v] = newest[v]
    BY <1>1, <1>2, SessionTypes
  <1>8. /\ visit' \in [Visits -> VisitRow] /\ visit'[r].at = "done"
        /\ \A q \in Visits \ {r} : visit'[q] = visit[q]
    BY <1>2, GotoRow
  <1>9. ASSUME NEW t \in Visits
        PROVE  TokenHolds(t)'
    <2>1. CASE t = r
      <3>1. uses[r] = 0
        BY <1>1 DEF SessionInv, TokenHolds
      <3> QED BY <1>1, <1>2, <1>3, <1>5, <1>7, <1>8, <2>1, <3>1 DEF TokenHolds
    <2>2. CASE t # r
      <3>1. TokenHolds(t)
        BY DEF SessionInv
      <3>2. token'[t].row => token[t].user \in Users \ {u}
        <4>1. token[t] \in TokenRow
          BY SessionTypes
        <4> QED BY <1>1, <1>6, <2>2, <3>1, <4>1 DEF TokenRow, TokenHolds
      <3> QED BY <1>2, <1>6, <1>7, <1>8, <2>2, <3>1, <3>2 DEF TokenHolds
    <2> QED BY <2>1, <2>2
  <1>10. \A t \in Visits : TokenGoesOn(r, t)
    BY <1>1, <1>3, <1>5, <1>6 DEF TokenGoesOn
  <1>11. \A v \in Users : LockGoesOn(r, v)
    BY <1>2, LocksReleased
  <1>12. lock' \in [Users -> Visits \cup {None}]
    BY <1>2, SessionTypes DEF S!Release
  <1>13. \A s \in Visits : SessionGoesOn(s)
    BY <1>2, SessionsStay
  <1> QED BY <1>1, <1>2, <1>5, <1>7, <1>8, <1>9, <1>10, <1>11, <1>12, <1>13, DoneHolds,
             SessionTypes, VisitStep

LEMMA FindTokenStep ==
    ASSUME SessionInv, NEW r \in Visits, NEW t \in Visits, S!FindToken(r, t)
    PROVE  SessionInv'
  <1> DEFINE to == IF token[t].row /\ ~token[t].used /\ ~token[t].expired THEN "found" ELSE "done"
             row == [visit[r] EXCEPT !.at = to, !.user = token[t].user, !.with = t]
  <1>1. /\ visit[r].at = "idle" /\ token[t].user # None
        /\ visit' = [visit EXCEPT ![r] = row]
        /\ UNCHANGED <<password, session, token, lock, newest, uses>>
    BY SessionTypes DEF S!FindToken
  <1>2. /\ row \in VisitRow /\ row.at = to /\ row.with = t /\ row.user = token[t].user
        /\ to \in {"found", "done"} /\ token[t].user \in Users
    <2>1. visit[r] \in VisitRow /\ token[t].user \in Users
      BY <1>1, SessionTypes DEF TokenRow
    <2>2. to \in {"found", "done"}
      OBVIOUS
    <2> HIDE DEF to
    <2> QED BY <2>1, <2>2 DEF VisitRow
  <1> HIDE DEF row, to
  <1>3. visit'[r] = row => SeenHolds(r)' /\ VisitHolds(r)'
    BY <1>1, <1>2 DEF SeenHolds, VisitHolds
  <1> QED BY <1>1, <1>2, <1>3, SessionTypes, OnlyVisit

\* The link that is used is its user's newest and unused, and its sessions go.
LEMMA SetPasswordStep ==
    ASSUME SessionInv, NEW r \in Visits, NEW p \in Passwords, S!SetPassword(r, p)
    PROVE  /\ SessionInv'
           /\ \A u \in Users : password'[u] # password[u] =>
                 newest[u] # None /\ uses'[newest[u]] = uses[newest[u]] + 1
  <1> DEFINE t == visit[r].with
             u == visit[r].user
  <1>1. /\ visit[r].at = "holding" /\ t \in Visits /\ u \in Users /\ token[t].user = u
        /\ token[t].row /\ ~token[t].used /\ newest[u] = t /\ t # None /\ uses[t] = 0
    <2>1. visit[r].at = "holding" /\ token[t].row /\ ~token[t].used
      BY DEF S!SetPassword, S!StillUsable
    <2>2. t \in Visits /\ u \in Users /\ token[t].user = u
      BY <2>1 DEF SessionInv, VisitHolds
    <2>3. TokenHolds(t)
      BY <2>2 DEF SessionInv
    <2>4. newest[u] = t /\ uses[t] = 0
      BY <2>1, <2>2, <2>3 DEF TokenHolds
    <2>5. t # None
      BY <2>2, RequestsAssumption DEF S!SessionsAssumption
    <2> QED BY <2>1, <2>2, <2>4, <2>5
  <1>2. /\ token' = [token EXCEPT ![t].used = TRUE] /\ uses' = [uses EXCEPT ![t] = @ + 1]
        /\ password' = [password EXCEPT ![u] = p] /\ newest' = newest
        /\ session' = [s \in Visits |-> IF session[s].user = u
                THEN [session[s] EXCEPT !.row = FALSE, !.ended = TRUE] ELSE session[s]]
        /\ S!Release(r) /\ S!Goto(r, "done")
    BY DEF S!SetPassword
  <1> HIDE DEF t, u
  <1>3. /\ token' \in [Visits -> TokenRow] /\ token'[t].user = u /\ token'[t].used
        /\ \A x \in Visits \ {t} : token'[x] = token[x]
    <2> DEFINE d == [token[t] EXCEPT !.used = TRUE]
    <2>1. d \in TokenRow /\ d.user = u /\ d.used
      BY <1>1, SessionTypes DEF TokenRow
    <2>2. token' = [token EXCEPT ![t] = d]
      BY <1>1, <1>2, SessionTypes
    <2> HIDE DEF d
    <2> QED BY <1>1, <2>1, <2>2, SessionTypes
  <1>4. uses' \in [Visits -> Nat] /\ uses'[t] = 1 /\ \A x \in Visits \ {t} : uses'[x] = uses[x]
    <2>1. uses \in [Visits -> Nat]
      BY DEF SessionInv, S!TypeOK
    <2>2. uses' = [uses EXCEPT ![t] = uses[t] + 1]
      BY <1>2, Zenon
    <2>3. uses[t] + 1 = 1
      BY <1>1
    <2> QED BY <1>1, <2>1, <2>2, <2>3
  <1>5. password' \in [Users -> Passwords \cup {None}]
        /\ \A v \in Users \ {u} : password'[v] = password[v]
    BY <1>2, SessionTypes
  <1>6. ASSUME NEW s \in Visits
        PROVE  LET d == [session[s] EXCEPT !.row = FALSE, !.ended = TRUE] IN
               d \in SessionRow /\ ~d.row /\ d.user = session[s].user /\ d.expired = session[s].expired
    BY SessionTypes DEF SessionRow
  <1>7. session' \in [Visits -> SessionRow]
    BY <1>2, <1>6, SessionTypes
  <1>8. ASSUME NEW s \in Visits
        PROVE  SessionGoesOn(s)
    <2>1. SessionHolds(s)
      BY DEF SessionInv
    <2> QED BY <1>2, <1>6, <2>1 DEF SessionHolds, SessionGoesOn
  <1>9. /\ visit' \in [Visits -> VisitRow] /\ visit'[r].at = "done"
        /\ \A q \in Visits \ {r} : visit'[q] = visit[q]
    BY <1>2, GotoRow
  <1>10. ASSUME NEW x \in Visits
         PROVE  TokenHolds(x)' /\ TokenGoesOn(r, x)
    <2>1. TokenHolds(x) /\ (visit[x].at = "done" => visit'[x].at = "done")
      BY <1>9 DEF SessionInv
    <2>2. CASE x = t
      BY <1>1, <1>2, <1>3, <1>4, <2>1, <2>2, RequestsAssumption
         DEF TokenHolds, TokenGoesOn, S!SessionsAssumption
    <2>3. CASE x # t
      BY <1>2, <1>3, <1>4, <2>1, <2>3 DEF TokenHolds, TokenGoesOn
    <2> QED BY <2>2, <2>3
  <1>11. \A v \in Users : LockGoesOn(r, v)
    BY <1>2, LocksReleased
  <1>12. lock' \in [Users -> Visits \cup {None}]
    BY <1>2, SessionTypes DEF S!Release
  <1>13. SessionInv'
    BY <1>1, <1>2, <1>3, <1>4, <1>5, <1>7, <1>8, <1>9, <1>10, <1>11, <1>12, DoneHolds,
       SessionTypes, VisitStep
  <1>14. \A v \in Users : password'[v] # password[v] =>
             newest[v] # None /\ uses'[newest[v]] = uses[newest[v]] + 1
    BY <1>1, <1>4, <1>5
  <1> QED BY <1>13, <1>14

LEMMA GiveUpStep ==
    ASSUME SessionInv, NEW r \in Visits, S!Rollback(r) \/ S!Fail(r)
    PROVE  SessionInv'
  <1>1. /\ visit[r].at # "done" /\ S!Release(r) /\ S!Goto(r, "done")
        /\ UNCHANGED <<password, session, token, newest, uses>>
    BY DEF S!Rollback, S!Fail
  <1>2. /\ visit' \in [Visits -> VisitRow] /\ visit'[r].at = "done"
        /\ \A q \in Visits \ {r} : visit'[q] = visit[q]
    BY <1>1, GotoRow
  <1>3. \A s \in Visits : SessionGoesOn(s)
    BY <1>1, SessionsStay
  <1>4. \A t \in Visits : TokenHolds(t)' /\ TokenGoesOn(r, t)
    BY <1>1, <1>2, TokensStay
  <1>5. \A u \in Users : LockGoesOn(r, u)
    BY <1>1, LocksReleased
  <1>6. lock' \in [Users -> Visits \cup {None}]
    BY <1>1, SessionTypes DEF S!Release
  <1> QED BY <1>1, <1>2, <1>3, <1>4, <1>5, <1>6, DoneHolds, SessionTypes, VisitStep

\* Time and the clean-up: sessions and tokens at most expire and go.
LEMMA TimeStep ==
    ASSUME SessionInv, S!Expire \/ S!CleanupExpired
    PROVE  SessionInv'
  <1>1. UNCHANGED <<password, lock, visit, newest, uses>>
    BY DEF S!Expire, S!CleanupExpired
  <1>2. ASSUME NEW s \in Visits
        PROVE  /\ LET d == [session[s] EXCEPT !.row = FALSE] IN
                  /\ d \in SessionRow /\ ~d.row /\ d.user = session[s].user
                  /\ d.expired = session[s].expired
               /\ LET d == [session[s] EXCEPT !.expired = TRUE, !.ended = TRUE] IN
                  d \in SessionRow /\ d.row = session[s].row /\ d.user = session[s].user /\ d.expired
    BY SessionTypes DEF SessionRow
  <1>3. ASSUME NEW t \in Visits
        PROVE  /\ LET d == [token[t] EXCEPT !.row = FALSE] IN
                  d \in TokenRow /\ ~d.row /\ d.user = token[t].user /\ d.used = token[t].used
               /\ LET d == [token[t] EXCEPT !.expired = TRUE] IN
                  /\ d \in TokenRow /\ d.row = token[t].row /\ d.user = token[t].user
                  /\ d.used = token[t].used
    BY SessionTypes DEF TokenRow
  <1>4. /\ session' \in [Visits -> SessionRow]
        /\ \A s \in Visits : \/ session'[s] = session[s]
                             \/ /\ session'[s].user = session[s].user
                                /\ session'[s].row => session[s].row /\ session'[s].expired
                                /\ session[s].expired => session'[s].expired
    <2>1. CASE session' = session
      BY <2>1, SessionTypes
    <2>2. CASE S!CleanupExpired
      BY <1>2, <2>2, SessionTypes DEF S!CleanupExpired
    <2>3. CASE S!Expire /\ session' # session
      <3>1. PICK x \in Visits : session[x].row /\
               session' = [session EXCEPT ![x].expired = TRUE, ![x].ended = TRUE]
        BY <2>3 DEF S!Expire
      <3>2. session' = [session EXCEPT ![x] = [session[x] EXCEPT !.expired = TRUE, !.ended = TRUE]]
        BY <3>1, SessionTypes
      <3> DEFINE d == [session[x] EXCEPT !.expired = TRUE, !.ended = TRUE]
      <3>3. d \in SessionRow /\ d.row = session[x].row /\ d.user = session[x].user /\ d.expired
        BY <1>2
      <3> HIDE DEF d
      <3>4. session' = [session EXCEPT ![x] = d]
        BY <3>2 DEF d
      <3> QED BY <3>1, <3>3, <3>4, SessionTypes
    <2> QED BY <2>1, <2>2, <2>3
  <1>5. /\ token' \in [Visits -> TokenRow]
        /\ \A t \in Visits : /\ token'[t].user = token[t].user /\ token'[t].used = token[t].used
                             /\ token'[t].row => token[t].row
    <2>1. CASE token' = token
      BY <2>1, SessionTypes
    <2>2. CASE S!CleanupExpired /\ token' # token
      BY <1>3, <2>2, SessionTypes DEF S!CleanupExpired
    <2>3. CASE S!Expire /\ token' # token
      <3>1. PICK x \in Visits : token' = [token EXCEPT ![x].expired = TRUE]
        BY <2>3 DEF S!Expire
      <3>2. token' = [token EXCEPT ![x] = [token[x] EXCEPT !.expired = TRUE]]
        BY <3>1, SessionTypes
      <3> QED BY <1>3, <3>2, SessionTypes
    <2> QED BY <2>1, <2>2, <2>3
  <1>6. ASSUME NEW s \in Visits
        PROVE  SessionGoesOn(s)
    <2>1. SessionHolds(s)
      BY DEF SessionInv
    <2> QED BY <1>1, <1>4, <2>1 DEF SessionHolds, SessionGoesOn
  <1>7. \A t \in Visits : TokenHolds(t)' /\ TokenGoesOn(None, t)
    BY <1>1, <1>5, TokensStay
  <1>8. \A u \in Users : LockGoesOn(None, u)
    BY <1>1 DEF LockGoesOn
  <1>9. None \notin Visits
    BY RequestsAssumption DEF S!SessionsAssumption
  <1> QED BY <1>1, <1>4, <1>5, <1>6, <1>7, <1>8, <1>9, SessionTypes, VisitStep

LEMMA SessionInit == S!Init => SessionInv
  <1> SUFFICES ASSUME S!Init
               PROVE  SessionInv
    OBVIOUS
  <1>1. /\ S!Idle \in VisitRow /\ S!NoSession \in SessionRow /\ S!NoToken \in TokenRow
        /\ S!Idle.at = "idle" /\ ~S!NoSession.row /\ S!NoSession.user = None
        /\ ~S!NoToken.row /\ ~S!NoToken.used /\ S!NoToken.user = None
    BY DEF S!Idle, S!NoSession, S!NoToken, VisitRow, SessionRow, TokenRow
  <1>2. \A r \in Visits : visit[r] = S!Idle /\ session[r] = S!NoSession /\ token[r] = S!NoToken
                          /\ uses[r] = 0
    BY DEF S!Init
  <1>3. S!TypeOK
    BY <1>1, <1>2 DEF S!Init, S!TypeOK, VisitRow, SessionRow, TokenRow
  <1>4. \A r \in Visits : SessionHolds(r) /\ SeenHolds(r) /\ TokenHolds(r) /\ VisitHolds(r)
    BY <1>1, <1>2 DEF SessionHolds, SeenHolds, TokenHolds, VisitHolds
  <1> QED BY <1>3, <1>4 DEF SessionInv

LEMMA SessionStep ==
    ASSUME SessionInv, S!Next \/ UNCHANGED sessionVars
    PROVE  SessionInv'
  <1>1. ASSUME NEW r \in Visits, NEW u \in Users,
               (\E p \in Passwords : S!Register(r, u, p)) \/ S!Login(r, u) \/ S!ForgotPassword(r, u)
        PROVE  SessionInv'
    BY <1>1, ArrivalSteps
  <1>2. ASSUME NEW r \in Visits, NEW s \in Visits,
               S!FindSession(r, s, "leaving") \/ S!FindSession(r, s, "reading") \/ S!FindToken(r, s)
        PROVE  SessionInv'
    BY <1>2, FindSessionStep, FindTokenStep
  <1>3. ASSUME NEW r \in Visits, S!Serve(r) \/ S!Fail(r)
        PROVE  SessionInv'
    BY <1>3, CreateSessionStep, SessionUsed, LockStep, DeleteTokensStep, IssueTokenStep,
       SetPasswordStep, GiveUpStep DEF S!Serve
  <1>4. CASE UNCHANGED sessionVars
    <2>1. S!TypeOK'
      BY <1>4 DEF sessionVars, SessionInv, S!TypeOK
    <2>2. \A r \in Visits : SessionHolds(r)' /\ SeenHolds(r)' /\ TokenHolds(r)' /\ VisitHolds(r)'
      BY <1>4 DEF sessionVars, SessionInv, SessionHolds, SeenHolds, TokenHolds, VisitHolds
    <2> QED BY <2>1, <2>2 DEF SessionInv
  <1> QED BY <1>1, <1>2, <1>3, <1>4, TimeStep DEF S!Next

\* What OnlyTheLastLink says of a step.
LEMMA PasswordStep ==
    ASSUME SessionInv, S!Next \/ UNCHANGED sessionVars, NEW u \in Users,
           password'[u] # password[u]
    PROVE  \/ password[u] = None
           \/ newest[u] # None /\ uses'[newest[u]] = uses[newest[u]] + 1
  <1>1. \/ \E r \in Visits, v \in Users, p \in Passwords : S!Register(r, v, p)
        \/ \E r \in Visits, p \in Passwords : S!SetPassword(r, p)
    <2>1. ~UNCHANGED password
      OBVIOUS
    <2>2. ASSUME NEW r \in Visits, S!Serve(r)
          PROVE  \E p \in Passwords : S!SetPassword(r, p)
      BY <2>1, <2>2 DEF S!Serve, S!CreateSession, S!Logout, S!Authenticate, S!LockUser,
                        S!DeleteTokens, S!IssueToken, S!HoldUser, S!Rollback
    <2>3. ASSUME NEW r \in Visits
          PROVE  /\ ~S!Fail(r)
                 /\ \A v \in Users : ~S!Login(r, v) /\ ~S!ForgotPassword(r, v)
                 /\ \A s \in Visits, a \in {"leaving", "reading"} :
                       ~S!FindSession(r, s, a) /\ ~S!FindToken(r, s)
      BY <2>1 DEF S!Fail, S!Login, S!ForgotPassword, S!FindSession, S!FindToken
    <2>4. ~S!Expire /\ ~S!CleanupExpired /\ ~UNCHANGED sessionVars
      BY <2>1 DEF S!Expire, S!CleanupExpired, sessionVars
    <2> QED BY <2>2, <2>3, <2>4 DEF S!Next
  <1>2. CASE \E r \in Visits, v \in Users, p \in Passwords : S!Register(r, v, p)
    BY <1>2, SessionTypes DEF S!Register
  <1>3. CASE \E r \in Visits, p \in Passwords : S!SetPassword(r, p)
    BY <1>3, SetPasswordStep
  <1> QED BY <1>1, <1>2, <1>3

-----------------------------------------------------------------------------
(* Slugs: a link means one item.                                           *)

Active == {"reserving", "writing", "written"}

\* A new item, whose row nobody has seen.
IsNew(r) == rename[r].at \in Active /\ rename[r].old = None

RenameHolds(r) ==
    LET c == rename[r] IN
    /\ c.at \in Active => c.item \in Named /\ c.new \in Slugs
    /\ c.at = "locking" => c.item \in Named /\ c.new \in Slugs
    /\ IsNew(r) => slug[c.item] = None /\ c.item \in born
    /\ c.at \in Active /\ c.old # None => rowLock[c.item] = r /\ slug[c.item] = c.old
    /\ c.at \in Active =>
          \A s \in {c.old, c.new} \ {None} : s \in c.need \/ slugLock[s] = r
    /\ c.at \in {"writing", "written"} =>
          /\ c.need = {}
          /\ alias[c.new] \in {None, c.item}
    /\ c.at = "written" => \A i \in Named \ {c.item} : slug[i] # c.new

SlugInv ==
    /\ L!TypeOK
    /\ L!AliasesYield
    /\ \A i, j \in Named : i # j /\ slug[i] # None => slug[i] # slug[j]
    /\ \A i \in Named : slug[i] # None => i \in born
    /\ \A i \in Named : rowLock[i] # None => rename[rowLock[i]].at \in Active
    /\ \A s \in Slugs : slugLock[s] # None => rename[slugLock[s]].at \in Active
    /\ \A r \in Renames : RenameHolds(r)
    /\ \A r, q \in Renames : r # q /\ IsNew(r) /\ IsNew(q) => rename[r].item # rename[q].item

RenameRow == [at : {"idle", "locking", "reserving", "writing", "written"} \cup L!Ended,
              item : Named \cup {None}, old : Slugs \cup {None}, new : Slugs \cup {None},
              need : SUBSET Slugs]

LEMMA SlugTypes ==
    ASSUME SlugInv
    PROVE  /\ rename \in [Renames -> RenameRow] /\ slug \in [Named -> Slugs \cup {None}]
           /\ born \in SUBSET Named /\ alias \in [Slugs -> Named \cup {None}]
           /\ rowLock \in [Named -> Renames \cup {None}]
           /\ slugLock \in [Slugs -> Renames \cup {None}]
           /\ None \notin Named \cup Slugs \cup Renames
           /\ \A s \in Slugs : alias[s] # None => slug[alias[s]] # None
           /\ \A j \in Named : slug[j] # None => j \in born
           /\ \A j \in Named : rowLock[j] # None => rename[rowLock[j]].at \in Active
           /\ \A s \in Slugs : slugLock[s] # None => rename[slugLock[s]].at \in Active
  <1>1. None \notin Named \cup Slugs \cup Renames
    BY RequestsAssumption DEF L!SlugsAssumption
  <1> QED BY <1>1 DEF SlugInv, L!TypeOK, RenameRow

LEMMA NotEnded == Active \cap L!Ended = {}
  BY DEF Active, L!Ended

LEMMA GotoRename ==
    ASSUME SlugInv, NEW r \in Renames,
           NEW at \in {"idle", "locking", "reserving", "writing", "written"} \cup L!Ended,
           L!Goto(r, at)
    PROVE  /\ rename' \in [Renames -> RenameRow] /\ rename'[r].at = at
           /\ rename'[r].item = rename[r].item /\ rename'[r].old = rename[r].old
           /\ rename'[r].new = rename[r].new /\ rename'[r].need = rename[r].need
           /\ \A q \in Renames \ {r} : rename'[q] = rename[q]
  <1> DEFINE d == [rename[r] EXCEPT !.at = at]
  <1>1. /\ d \in RenameRow /\ d.at = at /\ d.item = rename[r].item /\ d.old = rename[r].old
        /\ d.new = rename[r].new /\ d.need = rename[r].need
    BY SlugTypes DEF RenameRow
  <1>2. rename' = [rename EXCEPT ![r] = d]
    BY SlugTypes DEF L!Goto
  <1> HIDE DEF d
  <1> QED BY <1>1, <1>2, SlugTypes

\* A lock is kept while its holder is on its way, and nobody takes one from another.
LocksKept(r) ==
    /\ rowLock' \in [Named -> Renames \cup {None}]
    /\ slugLock' \in [Slugs -> Renames \cup {None}]
    /\ \A i \in Named : /\ rowLock'[i] \in {rowLock[i], r, None}
                        /\ rowLock[i] \notin {r, None} => rowLock'[i] = rowLock[i]
    /\ \A s \in Slugs : /\ slugLock'[s] \in {slugLock[s], r, None}
                        /\ slugLock[s] \notin {r, None} => slugLock'[s] = slugLock[s]
    /\ rename'[r].at \notin Active =>
          (\A i \in Named : rowLock'[i] # r) /\ (\A s \in Slugs : slugLock'[s] # r)

LEMMA SlugLocksReleased ==
    ASSUME SlugInv, NEW r \in Renames, L!Release(r)
    PROVE  LocksKept(r)
  BY SlugTypes DEF L!Release, LocksKept

\* What the invariant asks of the whole follows from what it asks of the parts.
LEMMA SlugInvFromParts ==
    ASSUME SlugInv, NEW r \in Renames, LocksKept(r),
           rename' \in [Renames -> RenameRow], \A q \in Renames \ {r} : rename'[q] = rename[q],
           slug' \in [Named -> Slugs \cup {None}], born' \in SUBSET Named,
           alias' \in [Slugs -> Named \cup {None}],
           \A s \in Slugs : alias'[s] # None => slug'[alias'[s]] # None,
           \A s \in Slugs, i \in Named : slug'[i] = s => alias'[s] \in {None, i},
           \A i, j \in Named : i # j /\ slug'[i] # None => slug'[i] # slug'[j],
           \A i \in Named : slug'[i] # None => i \in born',
           \A q \in Renames : RenameHolds(q)',
           \A q \in Renames \ {r} : IsNew(r)' /\ IsNew(q)' => rename'[r].item # rename'[q].item
    PROVE  SlugInv'
  <1>1. \A i \in Named : rowLock'[i] # None => rename'[rowLock'[i]].at \in Active
    BY SlugTypes DEF LocksKept
  <1>2. \A s \in Slugs : slugLock'[s] # None => rename'[slugLock'[s]].at \in Active
    BY SlugTypes DEF LocksKept
  <1>3. rowLock' \in [Named -> Renames \cup {None}] /\ slugLock' \in [Slugs -> Renames \cup {None}]
    BY DEF LocksKept
  <1>4. L!TypeOK'
    BY <1>1, <1>2, <1>3, NotEnded DEF L!TypeOK, RenameRow
  <1>5. L!AliasesYield'
    BY DEF L!AliasesYield
  <1>6. ASSUME NEW p \in Renames, NEW q \in Renames, p # q, IsNew(p)', IsNew(q)'
        PROVE  rename'[p].item # rename'[q].item
    <2>1. CASE p # r /\ q # r
      <3>1. IsNew(p) /\ IsNew(q)
        BY <1>6, <2>1 DEF IsNew
      <3>2. rename[p].item # rename[q].item
        BY <1>6, <3>1 DEF SlugInv
      <3> QED BY <2>1, <3>2
    <2>2. CASE p = r \/ q = r
      BY <1>6, <2>2
    <2> QED BY <2>1, <2>2
  <1> QED BY <1>1, <1>2, <1>4, <1>5, <1>6 DEF SlugInv

\* A request that is not r stays as good as it was.
LEMMA RenamesStay ==
    ASSUME SlugInv, NEW r \in Renames, NEW q \in Renames, r # q, rename'[q] = rename[q],
           LocksKept(r), born \subseteq born', UNCHANGED <<slug, alias>>
    PROVE  RenameHolds(q)'
  <1>1. RenameHolds(q)
    BY DEF SlugInv
  <1>2. q # None
    BY SlugTypes
  <1>3. rename[q].at \in Active /\ rename[q].old # None => rowLock'[rename[q].item] = q
    BY <1>1, <1>2 DEF RenameHolds, LocksKept
  <1>4. \A s \in Slugs : slugLock[s] = q => slugLock'[s] = q
    BY <1>2 DEF LocksKept
  <1>5. rename[q].old \in Slugs \cup {None} /\ rename[q].new \in Slugs \cup {None}
    BY SlugTypes DEF RenameRow
  <1> QED BY <1>1, <1>3, <1>4, <1>5 DEF RenameHolds, IsNew

\* A step that writes nothing: what is left to show is about its own request.
LEMMA SlugsQuiet ==
    ASSUME SlugInv, NEW r \in Renames, LocksKept(r), UNCHANGED <<slug, born, alias>>,
           rename' \in [Renames -> RenameRow], \A q \in Renames \ {r} : rename'[q] = rename[q],
           RenameHolds(r)',
           IsNew(r)' => IsNew(r) /\ rename'[r].item = rename[r].item
    PROVE  SlugInv'
  <1>1. \A q \in Renames : RenameHolds(q)'
    BY RenamesStay
  <1>2. ASSUME NEW q \in Renames \ {r}, IsNew(r)', IsNew(q)'
        PROVE  rename'[r].item # rename'[q].item
    <2>1. IsNew(r) /\ IsNew(q)
      BY <1>2 DEF IsNew
    <2> QED BY <1>2, <2>1 DEF SlugInv
  <1>3. /\ \A s \in Slugs, i \in Named : slug[i] = s => alias[s] \in {None, i}
        /\ \A i, j \in Named : i # j /\ slug[i] # None => slug[i] # slug[j]
    BY DEF SlugInv, L!AliasesYield
  <1> QED BY <1>1, <1>2, <1>3, SlugTypes, SlugInvFromParts

\* A request ends without having written: conflict, missing, or failed.
LEMMA EndRename ==
    ASSUME SlugInv, NEW r \in Renames, NEW at \in L!Ended, L!Goto(r, at), LocksKept(r),
           UNCHANGED <<slug, born, alias>>
    PROVE  SlugInv'
  <1>1. /\ rename' \in [Renames -> RenameRow] /\ rename'[r].at = at
        /\ \A q \in Renames \ {r} : rename'[q] = rename[q]
    BY GotoRename
  <1>2. rename'[r].at \notin Active /\ rename'[r].at # "locking"
    BY <1>1 DEF L!Ended, Active
  <1>3. RenameHolds(r)' /\ ~IsNew(r)'
    BY <1>2 DEF RenameHolds, IsNew, Active
  <1> QED BY <1>1, <1>3, SlugsQuiet

LEMMA NoLocks ==
    ASSUME SlugInv, NEW r \in Renames, rename[r].at \notin Active
    PROVE  /\ \A i \in Named : rowLock[i] # r
           /\ \A s \in Slugs : slugLock[s] # r
           /\ UNCHANGED <<rowLock, slugLock>> => LocksKept(r)
  BY SlugTypes DEF LocksKept

LEMMA CreateStep ==
    ASSUME SlugInv, NEW r \in Renames, NEW i \in Named, NEW s \in Slugs, L!Create(r, i, s)
    PROVE  SlugInv'
  <1> DEFINE d == [L!Idle EXCEPT !.at = "reserving", !.item = i, !.new = s, !.need = {s}]
  <1>1. /\ d \in RenameRow /\ d.at = "reserving" /\ d.item = i /\ d.old = None /\ d.new = s
        /\ d.need = {s}
    BY DEF RenameRow, L!Idle
  <1>2. /\ rename[r].at = "idle" /\ i \notin born /\ born' = born \cup {i}
        /\ rename' = [rename EXCEPT ![r] = d] /\ UNCHANGED <<slug, alias, rowLock, slugLock>>
    BY DEF L!Create
  <1> HIDE DEF d
  <1>3. /\ rename' \in [Renames -> RenameRow] /\ rename'[r] = d
        /\ \A q \in Renames \ {r} : rename'[q] = rename[q]
    BY <1>1, <1>2, SlugTypes
  <1>4. LocksKept(r)
    BY <1>2, NoLocks DEF Active
  <1>5. slug[i] = None
    BY <1>2, SlugTypes
  <1>6. RenameHolds(r)'
    BY <1>1, <1>2, <1>3, <1>5 DEF RenameHolds, IsNew, Active
  <1>7. \A q \in Renames : RenameHolds(q)'
    BY <1>2, <1>3, <1>4, <1>6, RenamesStay
  <1>8. ASSUME NEW q \in Renames \ {r}, IsNew(q)'
        PROVE  rename'[q].item # i
    <2>1. IsNew(q) /\ RenameHolds(q)
      BY <1>3, <1>8 DEF IsNew, SlugInv
    <2> QED BY <1>2, <1>3, <2>1 DEF RenameHolds
  <1>9. /\ \A x \in Slugs, j \in Named : slug[j] = x => alias[x] \in {None, j}
        /\ \A j, k \in Named : j # k /\ slug[j] # None => slug[j] # slug[k]
    BY DEF SlugInv, L!AliasesYield
  <1>10. born' \in SUBSET Named /\ \A j \in Named : slug'[j] # None => j \in born'
    BY <1>2, SlugTypes
  <1> QED BY <1>1, <1>2, <1>3, <1>4, <1>7, <1>8, <1>9, <1>10, SlugTypes, SlugInvFromParts

LEMMA UpdateStep ==
    ASSUME SlugInv, NEW r \in Renames, NEW i \in Named, NEW s \in Slugs, L!Update(r, i, s)
    PROVE  SlugInv'
  <1> DEFINE d == [L!Idle EXCEPT !.at = "locking", !.item = i, !.new = s]
  <1>1. d \in RenameRow /\ d.at = "locking" /\ d.item = i /\ d.old = None /\ d.new = s
    BY DEF RenameRow, L!Idle
  <1>2. /\ rename[r].at = "idle" /\ rename' = [rename EXCEPT ![r] = d]
        /\ UNCHANGED <<slug, born, alias, rowLock, slugLock>>
    BY DEF L!Update
  <1> HIDE DEF d
  <1>3. /\ rename' \in [Renames -> RenameRow] /\ rename'[r] = d
        /\ \A q \in Renames \ {r} : rename'[q] = rename[q]
    BY <1>1, <1>2, SlugTypes
  <1>4. LocksKept(r)
    BY <1>2, NoLocks DEF Active
  <1>5. RenameHolds(r)' /\ ~IsNew(r)'
    BY <1>1, <1>3 DEF RenameHolds, IsNew, Active
  <1> QED BY <1>2, <1>3, <1>4, <1>5, SlugsQuiet

LEMMA LockRowStep ==
    ASSUME SlugInv, NEW r \in Renames, L!LockRow(r)
    PROVE  SlugInv'
  <1> DEFINE i == rename[r].item
  <1>1. /\ rename[r].at = "locking" /\ rowLock[i] = None /\ UNCHANGED <<slug, born, alias, slugLock>>
        /\ i \in Named /\ rename[r].new \in Slugs
    BY DEF L!LockRow, SlugInv, RenameHolds
  <1>2. CASE slug[i] = None
    <2>1. UNCHANGED rowLock /\ L!Goto(r, "missing")
      BY <1>2 DEF L!LockRow
    <2>2. LocksKept(r)
      BY <1>1, <2>1, NoLocks DEF Active
    <2> QED BY <1>1, <2>1, <2>2, EndRename DEF L!Ended
  <1>3. CASE slug[i] # None
    <2> DEFINE d == [rename[r] EXCEPT !.at = "reserving", !.old = slug[i],
                                      !.need = {slug[i], rename[r].new}]
    <2>1. rowLock' = [rowLock EXCEPT ![i] = r]
          /\ rename' = [rename EXCEPT ![r].at = "reserving", ![r].old = slug[i],
                                      ![r].need = {slug[i], rename[r].new}]
      BY <1>3 DEF L!LockRow
    <2>2. slug[i] \in Slugs
      BY <1>1, <1>3, SlugTypes
    <2>3. rename[r] \in RenameRow
      BY SlugTypes
    <2>4. /\ d \in RenameRow /\ d.at = "reserving" /\ d.item = i /\ d.old = slug[i]
          /\ d.new = rename[r].new /\ d.need = {slug[i], rename[r].new}
      BY <1>1, <2>2, <2>3 DEF RenameRow
    <2>5. rename' = [rename EXCEPT ![r] = d]
      BY <2>1, SlugTypes
    <2> HIDE DEF d
    <2>6. /\ rename' \in [Renames -> RenameRow] /\ rename'[r] = d
          /\ \A q \in Renames \ {r} : rename'[q] = rename[q]
      BY <2>4, <2>5, SlugTypes
    <2>7. LocksKept(r) /\ rowLock'[i] = r
      BY <1>1, <2>1, <2>4, <2>6, SlugTypes DEF LocksKept, Active
    <2>8. RenameHolds(r)' /\ ~IsNew(r)'
      BY <1>1, <1>3, <2>4, <2>6, <2>7 DEF RenameHolds, IsNew, Active
    <2> QED BY <1>1, <2>6, <2>7, <2>8, SlugsQuiet
  <1> QED BY <1>2, <1>3

LEMMA ReserveStep ==
    ASSUME SlugInv, NEW r \in Renames, L!ReserveSlug(r)
    PROVE  SlugInv'
  <1> DEFINE s == L!NextLock(r)
             d == [rename[r] EXCEPT !.need = rename[r].need \ {s}]
  <1>1. /\ rename[r].at = "reserving" /\ slugLock[s] = None
        /\ slugLock' = [slugLock EXCEPT ![s] = r]
        /\ rename' = [rename EXCEPT ![r].need = rename[r].need \ {s}]
        /\ UNCHANGED <<slug, born, alias, rowLock>>
    BY DEF L!ReserveSlug
  <1> HIDE DEF s
  <1>2. rename[r] \in RenameRow
    BY SlugTypes
  <1>3. /\ d \in RenameRow /\ d.at = "reserving" /\ d.item = rename[r].item
        /\ d.old = rename[r].old /\ d.new = rename[r].new /\ d.need = rename[r].need \ {s}
    BY <1>1, <1>2 DEF RenameRow
  <1>4. rename' = [rename EXCEPT ![r] = d]
    BY <1>1, SlugTypes
  <1> HIDE DEF d
  <1>5. /\ rename' \in [Renames -> RenameRow] /\ rename'[r] = d
        /\ \A q \in Renames \ {r} : rename'[q] = rename[q]
    BY <1>3, <1>4, SlugTypes
  <1>6. /\ slugLock' \in [Slugs -> Renames \cup {None}]
        /\ \A x \in Slugs : slugLock'[x] = IF x = s THEN r ELSE slugLock[x]
    BY <1>1, SlugTypes
  <1>7. LocksKept(r)
    BY <1>1, <1>3, <1>5, <1>6, SlugTypes DEF LocksKept, Active
  <1>8. RenameHolds(r) /\ rename[r].old \in Slugs \cup {None} /\ rename[r].new \in Slugs \cup {None}
    BY <1>2 DEF SlugInv, RenameRow
  <1>9. \A x \in {d.old, d.new} \ {None} : x \in d.need \/ slugLock'[x] = r
    BY <1>1, <1>3, <1>6, <1>8 DEF RenameHolds, Active
  <1>10. RenameHolds(r)'
    BY <1>1, <1>3, <1>5, <1>8, <1>9 DEF RenameHolds, IsNew, Active
  <1>11. IsNew(r)' => IsNew(r) /\ rename'[r].item = rename[r].item
    BY <1>1, <1>3, <1>5 DEF IsNew
  <1> QED BY <1>1, <1>5, <1>7, <1>10, <1>11, SlugsQuiet

\* The checks of the aliases and of the index; what they find still holds at the
\* commit, because the slug's lock is held.
LEMMA CheckStep ==
    ASSUME SlugInv, NEW r \in Renames, L!CheckReserved(r) \/ L!WriteRow(r)
    PROVE  SlugInv'
  <1>1. /\ UNCHANGED <<slug, born, alias>> /\ rename[r].at \in {"reserving", "writing"}
        /\ rename[r].at = "reserving" => rename[r].need = {}
    BY DEF L!CheckReserved, L!WriteRow
  <1>2. CASE L!Release(r) /\ L!Goto(r, "conflict")
    <2>1. "conflict" \in L!Ended
      BY DEF L!Ended
    <2> QED BY <1>1, <1>2, <2>1, SlugLocksReleased, EndRename
  <1>3. CASE /\ UNCHANGED <<rowLock, slugLock>>
             /\ \/ /\ rename[r].at = "reserving" /\ L!Goto(r, "writing")
                   /\ alias[rename[r].new] \in {None, rename[r].item}
                \/ /\ rename[r].at = "writing" /\ L!Goto(r, "written")
                   /\ \A i \in Named \ {rename[r].item} : slug[i] # rename[r].new
    <2>1. /\ rename' \in [Renames -> RenameRow]
          /\ rename'[r].item = rename[r].item /\ rename'[r].old = rename[r].old
          /\ rename'[r].new = rename[r].new /\ rename'[r].need = rename[r].need
          /\ \A q \in Renames \ {r} : rename'[q] = rename[q]
          /\ \/ /\ rename[r].at = "reserving" /\ rename'[r].at = "writing"
                /\ alias[rename[r].new] \in {None, rename[r].item}
             \/ /\ rename[r].at = "writing" /\ rename'[r].at = "written"
                /\ \A i \in Named \ {rename[r].item} : slug[i] # rename[r].new
      BY <1>3, GotoRename
    <2>2. LocksKept(r)
      BY <1>3, <2>1, SlugTypes DEF LocksKept, Active
    <2>3. RenameHolds(r) /\ rename[r].at \in Active
      BY <1>1 DEF SlugInv, Active
    <2>4. rename[r].need = {} /\ alias[rename[r].new] \in {None, rename[r].item}
      BY <1>1, <2>1, <2>3 DEF RenameHolds
    <2>5. IsNew(r)' => IsNew(r) /\ rename'[r].item = rename[r].item
      BY <2>1, <2>3 DEF IsNew
    <2>6. RenameHolds(r)'
      BY <1>1, <1>3, <2>1, <2>3, <2>4, <2>5 DEF RenameHolds, IsNew, Active
    <2> QED BY <1>1, <2>1, <2>2, <2>5, <2>6, SlugsQuiet
  <1> QED BY <1>2, <1>3 DEF L!CheckReserved, L!WriteRow

LEMMA DeleteStep ==
    ASSUME SlugInv, NEW r \in Renames, NEW i \in Named, NEW ordered \in BOOLEAN,
           L!Delete(r, i, ordered)
    PROVE  SlugInv'
  <1> DEFINE end == IF slug[i] = None THEN "missing" ELSE IF ordered THEN "conflict" ELSE "done"
             d == [rename[r] EXCEPT !.item = i, !.at = end]
  <1>1. /\ rename[r].at = "idle" /\ i \in born /\ rowLock[i] = None
        /\ UNCHANGED <<born, rowLock, slugLock>>
        /\ rename' = [rename EXCEPT ![r].item = i, ![r].at = end]
    BY DEF L!Delete
  <1>2. end \in L!Ended
    BY DEF L!Ended
  <1> HIDE DEF end
  <1>3. rename[r] \in RenameRow
    BY SlugTypes
  <1>4. d \in RenameRow /\ d.at = end
    BY <1>2, <1>3 DEF RenameRow
  <1>5. rename' = [rename EXCEPT ![r] = d]
    BY <1>1, SlugTypes
  <1> HIDE DEF d
  <1>6. /\ rename' \in [Renames -> RenameRow] /\ rename'[r].at = end
        /\ \A q \in Renames \ {r} : rename'[q] = rename[q]
    BY <1>4, <1>5, SlugTypes
  <1>7. LocksKept(r)
    BY <1>1, NoLocks DEF Active
  <1>8. rename'[r].at \notin Active /\ rename'[r].at # "locking"
    BY <1>2, <1>6 DEF L!Ended, Active
  <1>9. RenameHolds(r)' /\ ~IsNew(r)'
    BY <1>8 DEF RenameHolds, IsNew, Active
  <1>10. CASE UNCHANGED <<slug, alias>>
    BY <1>1, <1>6, <1>7, <1>9, <1>10, SlugsQuiet
  <1>11. CASE /\ slug' = [slug EXCEPT ![i] = None]
              /\ alias' = [s \in Slugs |-> IF alias[s] = i THEN None ELSE alias[s]]
    <2>1. /\ slug' \in [Named -> Slugs \cup {None}] /\ slug'[i] = None
          /\ \A j \in Named \ {i} : slug'[j] = slug[j]
          /\ alias' \in [Slugs -> Named \cup {None}]
          /\ \A s \in Slugs : alias'[s] # i /\ alias'[s] \in {alias[s], None}
      BY <1>11, SlugTypes
    <2>2. ASSUME NEW q \in Renames, q # r
          PROVE  RenameHolds(q)'
      <3>1. RenameHolds(q) /\ q # None
        BY SlugTypes DEF SlugInv
      <3>2. rename'[q] = rename[q]
        BY <1>6, <2>2
      <3>3. rename[q].at \in Active /\ rename[q].old # None => rename[q].item # i
        BY <1>1, <3>1 DEF RenameHolds
      <3>4. rename[q].at \in Active => rename[q].item \in Named /\ rename[q].new \in Slugs
        BY <3>1 DEF RenameHolds
      <3>5. rename[q].at \in {"writing", "written"} => alias'[rename[q].new] \in {None, rename[q].item}
        BY <2>1, <3>1, <3>4 DEF RenameHolds, Active
      <3>6. rename[q].at = "written" => \A j \in Named \ {rename[q].item} : slug'[j] # rename[q].new
        BY <2>1, <3>1, <3>4, SlugTypes DEF RenameHolds, Active
      <3>7. IsNew(q) => slug'[rename[q].item] = None
        BY <2>1, <3>1, <3>4 DEF RenameHolds, IsNew
      <3>8. rename[q].at \in Active /\ rename[q].old # None =>
               rowLock'[rename[q].item] = q /\ slug'[rename[q].item] = rename[q].old
        BY <1>1, <2>1, <3>1, <3>3, <3>4 DEF RenameHolds
      <3>9. IsNew(q)' = IsNew(q)
        BY <3>2 DEF IsNew
      <3>10. slugLock' = slugLock /\ born' = born
        BY <1>1
      <3>11. /\ rename[q].at \in Active =>
                   \A x \in {rename[q].old, rename[q].new} \ {None} :
                       x \in rename[q].need \/ slugLock'[x] = q
             /\ rename[q].at \in {"writing", "written"} => rename[q].need = {}
             /\ rename[q].at = "locking" => rename[q].item \in Named /\ rename[q].new \in Slugs
             /\ IsNew(q) => rename[q].item \in born'
        BY <3>1, <3>10 DEF RenameHolds
      <3> QED BY <3>2, <3>4, <3>5, <3>6, <3>7, <3>8, <3>9, <3>11 DEF RenameHolds
    <2>3. \A s \in Slugs : alias'[s] # None => slug'[alias'[s]] # None
      BY <2>1, SlugTypes
    <2>4. \A s \in Slugs, j \in Named : slug'[j] = s => alias'[s] \in {None, j}
      BY <2>1, SlugTypes DEF SlugInv, L!AliasesYield
    <2>5. \A j, k \in Named : j # k /\ slug'[j] # None => slug'[j] # slug'[k]
      BY <2>1 DEF SlugInv
    <2>6. born' \in SUBSET Named /\ \A j \in Named : slug'[j] # None => j \in born'
      BY <1>1, <2>1, SlugTypes
    <2>7. \A q \in Renames : RenameHolds(q)'
      BY <1>9, <2>2
    <2> QED BY <1>6, <1>7, <1>9, <2>1, <2>3, <2>4, <2>5, <2>6, <2>7, SlugInvFromParts
  <1> QED BY <1>10, <1>11 DEF L!Delete

\* What a request that has written its row knows, and what it does.
LEMMA Committed ==
    ASSUME SlugInv, NEW r \in Renames, L!Commit(r)
    PROVE  LET i == rename[r].item
               old == rename[r].old
               new == rename[r].new
           IN
           /\ i \in Named /\ new \in Slugs /\ old \in Slugs \cup {None} /\ slug[i] = old
           /\ i \in born /\ alias[new] \in {None, i} /\ \A j \in Named \ {i} : slug[j] # new
           /\ slugLock[new] = r /\ (old # None => slugLock[old] = r /\ rowLock[i] = r)
           /\ slug' \in [Named -> Slugs \cup {None}] /\ slug'[i] = new
           /\ \A j \in Named \ {i} : slug'[j] = slug[j]
           /\ alias' \in [Slugs -> Named \cup {None}]
           /\ \A s \in Slugs \ {old} : alias'[s] = alias[s]
           /\ old # None => \/ alias'[old] = alias[old]
                            \/ alias[old] = None /\ alias'[old] = i
           /\ old # None /\ old # new /\ alias[old] = None => alias'[old] = i
  <1> DEFINE i == rename[r].item
             old == rename[r].old
             new == rename[r].new
  <1>1. /\ rename[r].at = "written" /\ slug' = [slug EXCEPT ![i] = new]
        /\ alias' = IF old \notin {None, new} /\ alias[old] = None
                    THEN [alias EXCEPT ![old] = i] ELSE alias
    BY DEF L!Commit
  <1>2. RenameHolds(r) /\ rename[r] \in RenameRow /\ rename[r].at \in Active
    BY <1>1, SlugTypes DEF SlugInv, Active
  <1>3. old \in Slugs \cup {None}
    BY <1>2 DEF RenameRow
  <1>4. /\ i \in Named /\ new \in Slugs /\ alias[new] \in {None, i}
        /\ \A j \in Named \ {i} : slug[j] # new
        /\ old # None => rowLock[i] = r /\ slug[i] = old
        /\ old = None => slug[i] = None /\ i \in born
        /\ \A s \in {old, new} \ {None} : slugLock[s] = r
    BY <1>1, <1>2 DEF RenameHolds, IsNew
  <1> HIDE DEF i, old, new
  <1>5. i \in born
    BY <1>3, <1>4, SlugTypes
  <1>6. slugLock[new] = r /\ (old # None => slugLock[old] = r)
    BY <1>4, SlugTypes
  <1>7. /\ slug' \in [Named -> Slugs \cup {None}] /\ slug'[i] = new
        /\ \A j \in Named \ {i} : slug'[j] = slug[j]
    BY <1>1, <1>4, SlugTypes
  <1>8. CASE old \notin {None, new} /\ alias[old] = None
    <2>1. alias' = [alias EXCEPT ![old] = i] /\ old \in Slugs
      BY <1>1, <1>3, <1>8
    <2>2. /\ alias' \in [Slugs -> Named \cup {None}] /\ alias'[old] = i
          /\ \A s \in Slugs \ {old} : alias'[s] = alias[s]
      BY <1>4, <2>1, SlugTypes
    <2> QED BY <1>3, <1>4, <1>5, <1>6, <1>7, <1>8, <2>2 DEF i, old, new
  <1>9. CASE ~(old \notin {None, new} /\ alias[old] = None)
    <2>1. alias' = alias
      BY <1>1, <1>9
    <2> QED BY <1>3, <1>4, <1>5, <1>6, <1>7, <1>9, <2>1, SlugTypes DEF i, old, new
  <1> QED BY <1>8, <1>9

LEMMA RenameCommits ==
    ASSUME SlugInv, NEW r \in Renames, L!Commit(r)
    PROVE  SlugInv'
  <1> DEFINE i == rename[r].item
             old == rename[r].old
             new == rename[r].new
  <1>1. /\ i \in Named /\ new \in Slugs /\ old \in Slugs \cup {None} /\ slug[i] = old
        /\ i \in born /\ alias[new] \in {None, i} /\ \A j \in Named \ {i} : slug[j] # new
        /\ slugLock[new] = r /\ (old # None => slugLock[old] = r /\ rowLock[i] = r)
        /\ slug' \in [Named -> Slugs \cup {None}] /\ slug'[i] = new
        /\ \A j \in Named \ {i} : slug'[j] = slug[j]
        /\ alias' \in [Slugs -> Named \cup {None}]
        /\ \A s \in Slugs \ {old} : alias'[s] = alias[s]
        /\ old # None => alias'[old] = alias[old] \/ (alias[old] = None /\ alias'[old] = i)
    BY Committed
  <1>2. /\ rename[r].at = "written" /\ L!Release(r) /\ L!Goto(r, "done") /\ born' = born
        /\ (old = None => IsNew(r))
    BY DEF L!Commit, IsNew, Active
  <1> HIDE DEF i, old, new
  <1>3. /\ rename' \in [Renames -> RenameRow] /\ rename'[r].at = "done"
        /\ \A q \in Renames \ {r} : rename'[q] = rename[q]
    BY <1>2, GotoRename DEF L!Ended
  <1>4. LocksKept(r)
    BY <1>2, SlugLocksReleased
  <1>5. RenameHolds(r)' /\ ~IsNew(r)'
    BY <1>3 DEF RenameHolds, IsNew, Active
  <1>6. ASSUME NEW q \in Renames, q # r
        PROVE  RenameHolds(q)'
    <2>1. RenameHolds(q) /\ q # None /\ rename'[q] = rename[q] /\ rename[q] \in RenameRow
      BY <1>3, <1>6, SlugTypes DEF SlugInv
    <2>2. /\ rename[q].at \in Active => rename[q].item \in Named /\ rename[q].new \in Slugs
          /\ rename[q].old \in Slugs \cup {None}
      BY <2>1 DEF RenameHolds, RenameRow
    <2>3. ASSUME rename[q].at \in Active
          PROVE  rename[q].item # i
      <3>1. CASE IsNew(q) /\ IsNew(r)
        BY <1>6, <3>1 DEF SlugInv, i
      <3>2. CASE IsNew(q) /\ old # None
        BY <1>1, <2>1, <3>2 DEF RenameHolds
      <3>3. CASE rename[q].old # None /\ old # None
        BY <1>1, <1>6, <2>1, <2>3, <3>3 DEF RenameHolds
      <3>4. CASE rename[q].old # None /\ old = None
        BY <1>1, <2>1, <2>3, <3>4 DEF RenameHolds
      <3> QED BY <1>2, <2>3, <3>1, <3>2, <3>3, <3>4 DEF IsNew
    <2>4. /\ IsNew(q) => slug'[rename[q].item] = None
          /\ rename[q].at \in Active /\ rename[q].old # None =>
                rowLock'[rename[q].item] = q /\ slug'[rename[q].item] = rename[q].old
      BY <1>1, <1>4, <1>6, <2>1, <2>2, <2>3 DEF RenameHolds, IsNew, LocksKept
    <2>5. \A s \in Slugs : slugLock[s] = q => slugLock'[s] = q
      BY <1>4, <1>6, <2>1 DEF LocksKept
    <2>6. rename[q].at \in Active =>
             \A x \in {rename[q].old, rename[q].new} \ {None} :
                x \in rename[q].need \/ slugLock'[x] = q
      BY <2>1, <2>2, <2>5 DEF RenameHolds
    <2>7. rename[q].at \in {"writing", "written"} => slugLock[rename[q].new] = q
      BY <2>1, <2>2, SlugTypes DEF RenameHolds, Active
    <2>8. rename[q].at \in {"writing", "written"} => rename[q].new \notin {old, new}
      BY <1>1, <1>6, <2>2, <2>7, SlugTypes DEF Active
    <2>9. /\ rename[q].at \in {"writing", "written"} =>
                rename[q].need = {} /\ alias'[rename[q].new] \in {None, rename[q].item}
      BY <1>1, <2>1, <2>2, <2>8 DEF RenameHolds, Active
    <2>10. rename[q].at = "written" => \A j \in Named \ {rename[q].item} : slug'[j] # rename[q].new
      BY <1>1, <2>1, <2>8 DEF RenameHolds
    <2>11. /\ rename[q].at = "locking" => rename[q].item \in Named /\ rename[q].new \in Slugs
           /\ IsNew(q) => rename[q].item \in born'
      BY <1>2, <2>1 DEF RenameHolds
    <2>12. IsNew(q)' = IsNew(q)
      BY <2>1 DEF IsNew
    <2> QED BY <2>1, <2>2, <2>4, <2>6, <2>9, <2>10, <2>11, <2>12 DEF RenameHolds
  <1>7. \A s \in Slugs : alias'[s] # None => slug'[alias'[s]] # None
    BY <1>1, SlugTypes
  <1>8. ASSUME NEW s \in Slugs, NEW j \in Named, slug'[j] = s
        PROVE  alias'[s] \in {None, j}
    <2>1. \A k \in Named : slug[k] = s => alias[s] \in {None, k}
      BY DEF SlugInv, L!AliasesYield
    <2>2. CASE j = i
      BY <1>1, <1>8, <2>2, SlugTypes
    <2>3. CASE j # i
      <3>1. slug[j] = s /\ s # old
        BY <1>1, <1>8, <2>3, SlugTypes DEF SlugInv
      <3> QED BY <1>1, <2>1, <3>1
    <2> QED BY <2>2, <2>3
  <1>9. ASSUME NEW j \in Named, NEW k \in Named, j # k, slug'[j] # None
        PROVE  slug'[j] # slug'[k]
    <2>1. slug[j] # None => slug[j] # slug[k]
      BY <1>9 DEF SlugInv
    <2> QED BY <1>1, <1>9, <2>1, SlugTypes
  <1>10. born' \in SUBSET Named /\ \A j \in Named : slug'[j] # None => j \in born'
    BY <1>1, <1>2, SlugTypes
  <1>11. \A q \in Renames : RenameHolds(q)'
    BY <1>5, <1>6
  <1> QED BY <1>1, <1>3, <1>4, <1>5, <1>7, <1>8, <1>9, <1>10, <1>11, SlugInvFromParts

LEMMA SlugInit == L!Init => SlugInv
  <1> SUFFICES ASSUME L!Init
               PROVE  SlugInv
    OBVIOUS
  <1>1. L!Idle \in RenameRow /\ L!Idle.at = "idle" /\ L!Idle.old = None
    BY DEF L!Idle, RenameRow
  <1>2. /\ slug \in [Named -> Slugs \cup {None}]
        /\ \A i, j \in Named : i # j /\ slug[i] # None => slug[i] # slug[j]
        /\ born \in SUBSET Named /\ \A i \in Named : slug[i] # None => i \in born
        /\ alias \in [Slugs -> Named \cup {None}] /\ \A s \in Slugs : alias[s] = None
        /\ rowLock \in [Named -> Renames \cup {None}] /\ \A i \in Named : rowLock[i] = None
        /\ slugLock \in [Slugs -> Renames \cup {None}] /\ \A s \in Slugs : slugLock[s] = None
        /\ \A r \in Renames : rename[r] = L!Idle
        /\ rename \in [Renames -> RenameRow]
    BY <1>1 DEF L!Init
  <1>3. L!TypeOK /\ L!AliasesYield
    BY <1>2 DEF L!TypeOK, L!AliasesYield, RenameRow
  <1>4. \A r \in Renames : RenameHolds(r) /\ ~IsNew(r)
    BY <1>1, <1>2 DEF RenameHolds, IsNew, Active
  <1> QED BY <1>2, <1>3, <1>4 DEF SlugInv

LEMMA SlugStep ==
    ASSUME SlugInv, L!Next \/ UNCHANGED slugVars
    PROVE  SlugInv'
  <1>1. ASSUME NEW r \in Renames, L!Serve(r) \/ L!Fail(r)
        PROVE  SlugInv'
    <2>1. CASE L!Fail(r)
      <3>1. "failed" \in L!Ended
        BY DEF L!Ended
      <3>2. L!Goto(r, "failed") /\ L!Release(r) /\ UNCHANGED <<slug, born, alias>>
        BY <2>1 DEF L!Fail
      <3> QED BY <3>1, <3>2, SlugLocksReleased, EndRename
    <2> QED BY <1>1, <2>1, LockRowStep, ReserveStep, CheckStep, RenameCommits DEF L!Serve
  <1>2. CASE UNCHANGED slugVars
    <2>1. L!TypeOK' /\ L!AliasesYield'
      BY <1>2 DEF slugVars, SlugInv, L!TypeOK, L!AliasesYield
    <2>2. \A r \in Renames : RenameHolds(r)'
      BY <1>2 DEF slugVars, SlugInv, RenameHolds, IsNew
    <2>3. \A r \in Renames : IsNew(r)' = IsNew(r)
      BY <1>2 DEF slugVars, IsNew
    <2> QED BY <1>2, <2>1, <2>2, <2>3 DEF SlugInv, slugVars
  <1> QED BY <1>1, <1>2, CreateStep, UpdateStep, DeleteStep DEF L!Next

\* Where a link leads, in the state before a step or after it (f for the slugs).
LEMMA OneLeads ==
    ASSUME NEW f, NEW s, NEW i \in Named, f[i] = s, \A j \in Named \ {i} : f[j] # s
    PROVE  (CHOOSE j \in Named : f[j] = s) = i
  OBVIOUS

LEMMA LinkNow ==
    ASSUME SlugInv, NEW s \in Slugs
    PROVE  \/ \E i \in Named : slug[i] = s /\ L!GetBySlug(s) = i
           \/ (\A i \in Named : slug[i] # s) /\ L!GetBySlug(s) = alias[s]
  <1>1. ASSUME NEW i \in Named, slug[i] = s
        PROVE  L!GetBySlug(s) = i
    <2>1. \A j \in Named \ {i} : slug[j] # s
      BY <1>1, SlugTypes DEF SlugInv
    <2>2. (CHOOSE j \in Named : slug[j] = s) = i
      BY <1>1, <2>1, OneLeads
    <2> QED BY <1>1, <2>2 DEF L!GetBySlug
  <1> QED BY <1>1 DEF L!GetBySlug

LEMMA LinkNext ==
    ASSUME SlugInv, SlugInv', NEW s \in Slugs
    PROVE  /\ \A i \in Named : slug'[i] = s => L!GetBySlug(s)' = i
           /\ (\A i \in Named : slug'[i] # s) => L!GetBySlug(s)' = alias'[s]
  <1>1. ASSUME NEW i \in Named, slug'[i] = s
        PROVE  L!GetBySlug(s)' = i
    <2>1. \A j \in Named \ {i} : slug'[j] # s
      BY <1>1, SlugTypes DEF SlugInv
    <2>2. (CHOOSE j \in Named : slug'[j] = s) = i
      BY <1>1, <2>1, OneLeads
    <2> QED BY <1>1, <2>2 DEF L!GetBySlug
  <1> QED BY <1>1 DEF L!GetBySlug

\* What LinksKeepTheirItem says of a step.
LEMMA LinksStep ==
    ASSUME SlugInv, L!Next \/ UNCHANGED slugVars, NEW s \in Slugs, L!GetBySlug(s) # None
    PROVE  L!GetBySlug(s)' = L!GetBySlug(s) \/ slug'[L!GetBySlug(s)] = None
  <1> DEFINE g == L!GetBySlug(s)
  <1>1. \/ g \in Named /\ slug[g] = s
        \/ (\A i \in Named : slug[i] # s) /\ g = alias[s] /\ g \in Named
    BY LinkNow, SlugTypes
  <1>2. SlugInv'
    BY SlugStep
  <1> HIDE DEF g
  <1>3. SUFFICES L!GetBySlug(s)' = g \/ slug'[g] = None
    BY DEF g
  <1>4. /\ \A i \in Named : slug'[i] = s => L!GetBySlug(s)' = i
        /\ (\A i \in Named : slug'[i] # s) => L!GetBySlug(s)' = alias'[s]
    BY <1>2, LinkNext
  <1>5. CASE UNCHANGED <<slug, alias>>
    BY <1>1, <1>4, <1>5
  <1>6. ASSUME NEW i \in Named,
               slug' = [slug EXCEPT ![i] = None],
               alias' = [x \in Slugs |-> IF alias[x] = i THEN None ELSE alias[x]]
        PROVE  L!GetBySlug(s)' = g \/ slug'[g] = None
    <2>1. slug'[i] = None /\ \A j \in Named \ {i} : slug'[j] = slug[j]
      BY <1>6, SlugTypes
    <2>2. s # None /\ (alias[s] # i => alias'[s] = alias[s])
      BY <1>6, SlugTypes
    <2> QED BY <1>1, <1>4, <2>1, <2>2
  <1>7. ASSUME NEW r \in Renames, L!Commit(r)
        PROVE  L!GetBySlug(s)' = g \/ slug'[g] = None
    <2> DEFINE i == rename[r].item
               old == rename[r].old
               new == rename[r].new
    <2>1. /\ i \in Named /\ slug[i] = old /\ alias[new] \in {None, i} /\ slug'[i] = new
          /\ \A j \in Named \ {i} : slug'[j] = slug[j]
          /\ \A x \in Slugs \ {old} : alias'[x] = alias[x]
          /\ old # None => alias'[old] = alias[old] \/ alias[old] = None
          /\ old # None /\ old # new /\ alias[old] = None => alias'[old] = i
      BY <1>7, Committed
    <2> HIDE DEF i, old, new
    <2>2. CASE slug[g] = s /\ g \in Named
      <3>1. CASE g # i
        BY <1>4, <2>1, <2>2, <3>1
      <3>2. CASE g = i /\ new = s
        BY <1>4, <2>1, <3>2
      <3>3. CASE g = i /\ new # s
        <4>1. s = old /\ s # None
          BY <2>1, <2>2, <3>3, SlugTypes
        <4>2. \A j \in Named \ {i} : slug[j] # s
          BY <2>1, <4>1 DEF SlugInv
        <4>3. L!GetBySlug(s)' = alias'[s]
          BY <1>4, <2>1, <3>3, <4>2
        <4>4. alias[s] \in {None, i}
          BY <2>1, <4>1 DEF SlugInv, L!AliasesYield
        <4> QED BY <2>1, <3>3, <4>1, <4>3, <4>4
      <3> QED BY <3>1, <3>2, <3>3
    <2>3. CASE (\A j \in Named : slug[j] # s) /\ g = alias[s] /\ g \in Named
      <3>1. s # old /\ g # None
        BY <2>1, <2>3, SlugTypes
      <3>2. CASE s = new
        BY <1>4, <2>1, <2>3, <3>1, <3>2
      <3>3. CASE s # new
        BY <1>4, <2>1, <2>3, <3>1, <3>3
      <3> QED BY <3>2, <3>3
    <2> QED BY <1>1, <2>2, <2>3
  <1>8. \/ UNCHANGED <<slug, alias>>
        \/ \E r \in Renames : L!Commit(r)
        \/ \E i \in Named : /\ slug' = [slug EXCEPT ![i] = None]
                             /\ alias' = [x \in Slugs |-> IF alias[x] = i THEN None ELSE alias[x]]
    BY DEF L!Next, L!Serve, L!Create, L!Update, L!Delete, L!LockRow, L!ReserveSlug,
       L!CheckReserved, L!WriteRow, L!Fail, slugVars
  <1> QED BY <1>5, <1>6, <1>7, <1>8

-----------------------------------------------------------------------------
(* The parts beside one another.                                           *)

LEMMA PartsStart == PartsInit => S!Init /\ A!Init /\ L!Init
  BY DEF PartsInit

LEMMA PartsStep ==
    ASSUME PartsNext \/ UNCHANGED partVars
    PROVE  /\ S!Next \/ UNCHANGED sessionVars
           /\ A!Next \/ UNCHANGED addressVars
           /\ L!Next \/ UNCHANGED slugVars
  BY DEF PartsNext, partVars

\* However sign-ins, sign-outs, mailed links and expiry race: a session that has ended
\* serves no request that begins later, a mailed link changes a password once, and only
\* the one that was mailed last.
THEOREM SessionsAreSafe == PartsSpec => SessionsSafety
  <1>1. PartsInit => SessionInv
    BY PartsStart, SessionInit
  <1>2. SessionInv /\ [PartsNext]_partVars => SessionInv'
    BY PartsStep, SessionStep
  <1>3. SessionInv => S!TypeOK /\ S!EndedSessionsStayEnded /\ S!TokensWorkOnce
    BY DEF SessionInv, SeenHolds, TokenHolds, S!EndedSessionsStayEnded, S!TokensWorkOnce
  <1>4. SessionInv /\ [PartsNext]_partVars =>
            [\A u \in Users : password'[u] # password[u] =>
                \/ password[u] = None
                \/ newest[u] # None /\ uses'[newest[u]] = uses[newest[u]] + 1]_(S!vars)
    BY PartsStep, PasswordStep
  <1> QED BY <1>1, <1>2, <1>3, <1>4, PTL
          DEF PartsSpec, SessionsSafety, S!SessionsSafety, S!OnlyTheLastLink

\* However changes of an address book race: a customer has one default address at most,
\* and a default goes only with its own address.
THEOREM AddressBookIsSafe == PartsSpec => AddressesSafety
  <1>1. PartsInit => AddressInv
    BY PartsStart, AddressInit
  <1>2. AddressInv /\ [PartsNext]_partVars => AddressInv'
    BY PartsStep, AddressStep
  <1>3. AddressInv => A!TypeOK /\ A!OneDefault
    BY DEF AddressInv
  <1>4. AddressInv /\ [PartsNext]_partVars =>
            [\A u \in Owners : A!Defaults(u) # {} /\ A!Defaults(u)' = {} =>
                \E a \in A!Defaults(u), r \in Changes :
                    change[r].at # "done" /\ change'[r].at = "done" /\ change'[r].user = u
                    /\ change'[r].address = a]_(A!vars)
    BY PartsStep, DefaultStep DEF DefaultMoves
  <1> QED BY <1>1, <1>2, <1>3, <1>4, PTL
          DEF PartsSpec, AddressesSafety, A!AddressesSafety, A!DefaultIsKept

\* However renames, creations and deletions race: a public link never starts to show
\* another item while its own is there, and a slug in use is an alias of no other item.
THEOREM LinksAreSafe == PartsSpec => SlugsSafety
  <1>1. PartsInit => SlugInv
    BY PartsStart, SlugInit
  <1>2. SlugInv /\ [PartsNext]_partVars => SlugInv'
    BY PartsStep, SlugStep
  <1>3. SlugInv => L!TypeOK /\ L!AliasesYield
    BY DEF SlugInv
  <1>4. SlugInv /\ [PartsNext]_partVars =>
            [\A s \in Slugs : L!GetBySlug(s) # None =>
                L!GetBySlug(s)' = L!GetBySlug(s) \/ slug'[L!GetBySlug(s)] = None]_(L!vars)
    BY PartsStep, LinksStep
  <1> QED BY <1>1, <1>2, <1>3, <1>4, PTL
          DEF PartsSpec, SlugsSafety, L!SlugsSafety, L!LinksKeepTheirItem

\* The handlers of articles begin otherwise and go on alike.
LEMMA ArticleCategoriesStep ==
    ASSUME CategoriesAssumption, IInv, T!Next
    PROVE  IInv'
  <1>1. \A r, i, c, at : T!Begin(r, i, c, at) => Begin(r, i, c, at)
    BY DEF T!Begin, T!Idle, Begin, Idle
  <1>2. ASSUME NEW r \in Requests, NEW c \in Categories, T!Delete(r, c)
        PROVE  IInv'
    <2>1. Begin(r, None, c, "deleting")
      BY <1>1, <1>2 DEF T!Delete
    <2> QED BY <2>1, BeginStep DEF Ats
  <1>3. ASSUME NEW r \in Requests, NEW i \in Items, NEW c \in Categories \cup {None},
               T!Create(r, i, c)
        PROVE  IInv'
    <2> DEFINE a == IF c = None THEN "writing" ELSE "checking"
    <2>1. Begin(r, i, c, a) /\ a \in {"checking", "writing"} /\ a \in Ats /\ i \notin Born
      BY <1>1, <1>3 DEF T!Create, T!Born, Born, Ats
    <2> HIDE DEF a
    <2> QED BY <2>1, BeginStep
  <1>4. ASSUME NEW r \in Requests, NEW i \in Items, NEW c \in Categories \cup {None},
               T!Update(r, i, c)
        PROVE  IInv'
    <2> DEFINE a == IF c = None THEN "locking" ELSE "checking"
    <2>1. Begin(r, i, c, a) /\ a \in {"checking", "locking"} /\ a \in Ats /\ i \in DOMAIN filed
      BY <1>1, <1>4 DEF T!Update, Ats
    <2> HIDE DEF a
    <2> QED BY <2>1, BeginStep
  <1>5. ASSUME NEW r \in Requests
        PROVE  /\ T!Blockers(r) = Blockers(r) /\ T!KeyWanted(r) = KeyWanted(r)
               /\ T!Saving(r) = Saving(r) /\ T!Filed(request[r].category) = Filed(request[r].category)
    BY DEF T!Blockers, Blockers, T!Wanted, Wanted, T!KeyWanted, KeyWanted, T!Filed, Filed,
       T!Saving, Saving
  <1>6. ASSUME NEW r \in Requests, T!Serve(r)
        PROVE  Serve(r)
    BY <1>5, <1>6
       DEF T!Serve, Serve, T!CheckCategory, CheckCategory, T!LockItem, LockItem, T!WriteItem,
           WriteItem, T!CommitItem, CommitItem, T!Count, Count, T!DeleteRow, DeleteRow, T!Detach,
           Detach, T!Commit, Commit, T!End, End, T!Goto, Goto, T!Holding, Holding
  <1>7. ASSUME NEW r \in Requests, T!Fail(r)
        PROVE  Fail(r)
    BY <1>7 DEF T!Fail, Fail, T!Ended, Ended, T!End, End
  <1>8. ASSUME NEW r \in Requests, T!EndDeadlock(r)
        PROVE  Fail(r)
    BY <1>7, <1>8 DEF T!EndDeadlock
  <1>9. ASSUME NEW r \in Requests, Serve(r) \/ Fail(r)
        PROVE  IInv'
    BY <1>9, StepHolds DEF Next
  <1> QED BY <1>2, <1>3, <1>4, <1>6, <1>7, <1>8, <1>9 DEF T!Next

\* However saves and deletions of categories race, of products or of articles: no item
\* is filed under a category that is gone, and no save deadlocks unless two deletions
\* are in the ring.
THEOREM CategoriesAreSafe == PartsSpec => []CategoriesSafety
  <1>1. CategoriesAssumption
    BY RequestsAssumption
  <1>2. PartsInit => IInv
    BY <1>1, InitHolds DEF PartsInit
  <1>3. IInv /\ [PartsNext]_partVars => IInv'
    BY <1>1, StepHolds, ArticleCategoriesStep DEF PartsNext, partVars
  <1>4. IInv => CategoriesSafety
    BY <1>1, TypesFollow, TwoDeletions DEF CategoriesSafety, IInv, RingsNeedTwoDeletions
  <1> QED BY <1>2, <1>3, <1>4, PTL DEF PartsSpec
=============================================================================
