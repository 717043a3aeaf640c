---------------------------- MODULE MigrateProofs ----------------------------
(***************************************************************************)
(* Proofs about Migrate, for any number of runners, each with any files,   *)
(* any number of crashes and failed statements, and whatever the database  *)
(* was before its first migration.                                         *)
(***************************************************************************)
EXTENDS Migrate, SequenceTheorems, TLAPS

RunnerRow == [at : {"idle", "inspecting", "empty", "reading", "applying", "adopting", "comparing",
                    "done", "failed", "collided", "lost"},
              read : Seq(Migrations)]

\* Those who have the lock and use it.
Working == {"inspecting", "empty", "reading", "applying", "adopting", "comparing"}

\* What a runner has found is still so: it has the lock.
FoundHolds(r) ==
    /\ runner[r].at # "collided"
    /\ runner[r].at \in Working => Load(r)
    /\ runner[r].at \in {"empty", "reading", "applying"} => Through[r] = 0
    /\ runner[r].at \in {"adopting", "comparing"} => Through[r] > 0 /\ ~tracked
    /\ runner[r].at = "empty" => ~tracked /\ schema = <<>>
    /\ runner[r].at = "reading" => tracked
    /\ runner[r].at = "applying" =>
          tracked /\ runner[r].read = history /\ IsPrefix(history, Files[r])

IInv ==
    /\ TypeOK
    /\ HistoryIsSchema
    /\ ~tracked => history = <<>>
    /\ \A r \in Runners : FoundHolds(r)

-----------------------------------------------------------------------------
(* Sequences of migrations.                                                *)

LEMMA FilesType ==
    ASSUME NEW r \in Runners
    PROVE  /\ Files[r] \in Seq(Migrations)
           /\ Len(Files[r]) \in Nat
           /\ \A i \in 1 .. Len(Files[r]) : Files[r][i] \in Migrations
           /\ Through[r] \in 0 .. Len(Files[r])
  BY MigrateAssumption

LEMMA BuiltType ==
    ASSUME NEW s \in Seq(Migrations)
    PROVE  Built(s) \in Seq(Migrations \X {"whole", "part"}) /\ Len(Built(s)) = Len(s)
  <1>1. Built(s) \in [1 .. Len(s) -> Migrations \X {"whole", "part"}]
    BY DEF Built
  <1>2. Built(s) \in Seq(Migrations \X {"whole", "part"})
    BY <1>1, SeqDef
  <1>3. DOMAIN Built(s) = 1 .. Len(s) /\ Len(s) \in Nat
    BY DEF Built
  <1> QED BY <1>2, <1>3, LenProperties

\* A migration that is applied whole after others.
LEMMA BuiltAppend ==
    ASSUME NEW s \in Seq(Migrations), NEW m \in Migrations
    PROVE  Append(Built(s), <<m, "whole">>) = Built(Append(s, m))
  <1> DEFINE a == Append(Built(s), <<m, "whole">>)
             b == Built(Append(s, m))
  <1>1. Append(s, m) \in Seq(Migrations) /\ Len(Append(s, m)) = Len(s) + 1
    OBVIOUS
  <1>2. /\ a \in Seq(Migrations \X {"whole", "part"}) /\ Len(a) = Len(s) + 1
        /\ b \in Seq(Migrations \X {"whole", "part"}) /\ Len(b) = Len(s) + 1
    <2>1. <<m, "whole">> \in Migrations \X {"whole", "part"}
      OBVIOUS
    <2>2. /\ Built(s) \in Seq(Migrations \X {"whole", "part"})
          /\ Len(Built(s)) = Len(s)
      BY BuiltType
    <2>3. b \in Seq(Migrations \X {"whole", "part"}) /\ Len(b) = Len(Append(s, m))
      BY <1>1, BuiltType
    <2> QED BY <1>1, <2>1, <2>2, <2>3, AppendProperties
  <1>3. ASSUME NEW i \in 1 .. Len(s) + 1
        PROVE  a[i] = b[i]
    <2>1. b[i] = <<Append(s, m)[i], "whole">>
      BY <1>1 DEF Built
    <2>2. /\ Built(s) \in Seq(Migrations \X {"whole", "part"}) /\ Len(Built(s)) = Len(s)
          /\ <<m, "whole">> \in Migrations \X {"whole", "part"}
      BY BuiltType
    <2>3. CASE i = Len(s) + 1
      <3>1. Append(s, m)[i] = m
        BY <2>3, AppendProperties
      <3>2. a[Len(Built(s)) + 1] = <<m, "whole">>
        BY <2>2, AppendProperties
      <3>3. a[i] = a[Len(Built(s)) + 1] /\ b[i] = <<m, "whole">>
        BY <2>1, <2>2, <2>3, <3>1
      <3> QED BY <3>2, <3>3
    <2>4. CASE i \in 1 .. Len(s)
      <3>1. a[i] = Built(s)[i] /\ Append(s, m)[i] = s[i]
        BY <2>2, <2>4, AppendProperties
      <3> QED BY <2>1, <2>4, <3>1 DEF Built
    <2>5. i \in 1 .. Len(s) \/ i = Len(s) + 1
      OBVIOUS
    <2> HIDE DEF a, b
    <2> QED BY <2>3, <2>4, <2>5
  <1> HIDE DEF a, b
  <1>4. a = b
    BY <1>2, <1>3, SeqEqual
  <1> QED BY <1>4 DEF a, b

LEMMA BuiltNone == Built(<<>>) = <<>>
  <1>1. <<>> \in Seq(Migrations)
    OBVIOUS
  <1>2. Built(<<>>) \in Seq(Migrations \X {"whole", "part"}) /\ Len(Built(<<>>)) = 0
    BY <1>1, BuiltType
  <1> QED BY <1>2

LEMMA PrefixAt ==
    ASSUME NEW s \in Seq(Migrations), NEW t \in Seq(Migrations)
    PROVE  IsPrefix(s, t) <=> Len(s) <= Len(t) /\ \A i \in 1 .. Len(s) : s[i] = t[i]
  <1>1. CASE Len(s) <= Len(t)
    <2> DEFINE u == SubSeq(t, 1, Len(s))
    <2>1. /\ u \in Seq(Migrations) /\ Len(u) = Len(s)
          /\ \A i \in 1 .. Len(s) : u[i] = t[i]
      BY <1>1
    <2>2. SubSeq(s, 1, Len(s)) = s
      BY SubSeqFull
    <2> HIDE DEF u
    <2>3. s = u <=> \A i \in 1 .. Len(s) : s[i] = u[i]
      BY <2>1, SeqEqual
    <2> QED BY <1>1, <2>1, <2>2, <2>3 DEF IsPrefix, u
  <1>2. CASE ~(Len(s) <= Len(t))
    BY <1>2 DEF IsPrefix
  <1> QED BY <1>1, <1>2

\* The next migration of a build continues its prefix.
LEMMA PrefixTake ==
    ASSUME NEW s \in Seq(Migrations), NEW t \in Seq(Migrations), IsPrefix(s, t), Len(s) < Len(t)
    PROVE  IsPrefix(Append(s, t[Len(s) + 1]), t)
  <1>1. t[Len(s) + 1] \in Migrations
    OBVIOUS
  <1> DEFINE a == Append(s, t[Len(s) + 1])
  <1>2. /\ a \in Seq(Migrations) /\ Len(a) = Len(s) + 1
        /\ \A i \in 1 .. Len(s) : a[i] = s[i]
        /\ a[Len(s) + 1] = t[Len(s) + 1]
    BY <1>1
  <1> HIDE DEF a
  <1>3. \A i \in 1 .. Len(s) : s[i] = t[i]
    BY PrefixAt
  <1>4. ASSUME NEW i \in 1 .. Len(a)
        PROVE  a[i] = t[i]
    <2>1. i \in 1 .. Len(s) \/ i = Len(s) + 1
      BY <1>2
    <2> QED BY <1>2, <1>3, <2>1
  <1>5. IsPrefix(a, t)
    BY <1>2, <1>4, PrefixAt
  <1> QED BY <1>5 DEF a

LEMMA PrefixWhole ==
    ASSUME NEW s \in Seq(Migrations), NEW t \in Seq(Migrations), IsPrefix(s, t), Len(s) >= Len(t)
    PROVE  s = t
  BY PrefixAt, SeqEqual

-----------------------------------------------------------------------------
(* Steps.                                                                  *)

\* Of a lock that l has, and n in the next state: r takes it, frees it or neither.
Moved(r, l, n) == n = l \/ (l = r /\ n = Nobody) \/ (l = Nobody /\ n = r)

\* What a step of one runner leaves to the others: a runner that changes the
\* schema or its history has the lock, and nobody who works is without it.
LEMMA OneMoves ==
    ASSUME IInv, NEW r \in Runners, NEW row \in RunnerRow,
           runner' = [runner EXCEPT ![r] = row],
           Moved(r, lock, lock'), Moved(r, reference, reference'),
           row.at \in Working => lock' = r,
           row.at = "comparing" => reference' = r,
           schema' \in Legacy \cup Seq(Migrations \X {"whole", "part"}),
           tracked' \in BOOLEAN, history' \in Seq(Migrations),
           UNCHANGED <<schema, tracked, history>> \/ lock = r,
           HistoryIsSchema', ~tracked' => history' = <<>>,
           FoundHolds(r)'
    PROVE  IInv'
  <1>1. runner'[r] = row /\ \A q \in Runners \ {r} : runner'[q] = runner[q]
    BY DEF IInv, TypeOK
  <1>2. runner' \in [Runners -> RunnerRow]
    BY DEF IInv, TypeOK, RunnerRow
  <1>3. ASSUME NEW q \in Runners
        PROVE  /\ runner'[q].at \in Working => lock' = q
               /\ runner'[q].at = "comparing" => reference' = q
    <2>1. CASE q = r
      BY <1>1, <2>1
    <2>2. CASE q # r
      <3>1. runner[q].at \in Working => lock = q
        BY DEF IInv, TypeOK, Working
      <3>2. runner[q].at = "comparing" => reference = q
        BY DEF IInv, TypeOK
      <3>3. q # Nobody
        BY MigrateAssumption
      <3> QED BY <1>1, <2>2, <3>1, <3>2, <3>3 DEF Moved
    <2> QED BY <2>1, <2>2
  <1>4. TypeOK'
    <2>1. lock' \in Runners \cup {Nobody} /\ reference' \in Runners \cup {Nobody}
      BY DEF IInv, TypeOK, Moved
    <2> QED BY <1>2, <1>3, <2>1 DEF TypeOK, RunnerRow, Working
  <1>5. ASSUME NEW q \in Runners \ {r}
        PROVE  FoundHolds(q)'
    <2>1. runner'[q] = runner[q] /\ FoundHolds(q)
      BY <1>1 DEF IInv
    <2>2. CASE UNCHANGED <<schema, tracked, history>>
      BY <2>1, <2>2 DEF FoundHolds, Load, AtomicSQL
    <2>3. CASE lock = r
      <3>1. runner[q].at \notin Working
        BY <2>3 DEF IInv, TypeOK, Working
      <3> QED BY <2>1, <3>1 DEF FoundHolds, Working
    <2> QED BY <2>2, <2>3
  <1> QED BY <1>4, <1>5 DEF IInv

LEMMA RowAt ==
    ASSUME IInv, NEW r \in Runners
    PROVE  runner[r] \in RunnerRow /\ runner \in [Runners -> RunnerRow]
  BY DEF IInv, TypeOK, RunnerRow

\* A runner that goes on in its protocol.
LEMMA GoesOn ==
    ASSUME IInv, NEW r \in Runners, NEW at, Goto(r, at)
    PROVE  LET row == [runner[r] EXCEPT !.at = at] IN
              /\ runner' = [runner EXCEPT ![r] = row]
              /\ runner'[r] = row /\ runner'[r].at = at
              /\ row.at = at /\ row.read = runner[r].read
              /\ at \in {"idle", "inspecting", "empty", "reading", "applying", "adopting",
                         "comparing", "done", "failed", "collided", "lost"} => row \in RunnerRow
  BY RowAt DEF Goto, RunnerRow

\* A runner that ends is rid of its locks and knows nothing.
LEMMA LeaveStep ==
    ASSUME IInv, NEW r \in Runners, NEW at \in {"done", "failed"}, Leave(r, at),
           schema' \in Legacy \cup Seq(Migrations \X {"whole", "part"}),
           tracked' \in BOOLEAN, history' \in Seq(Migrations),
           UNCHANGED <<schema, tracked, history>> \/ lock = r,
           HistoryIsSchema', ~tracked' => history' = <<>>
    PROVE  IInv'
  <1> DEFINE row == [runner[r] EXCEPT !.at = at]
  <1>1. row \in RunnerRow /\ row.at = at /\ runner' = [runner EXCEPT ![r] = row]
        /\ runner'[r] = row
    BY GoesOn DEF Leave
  <1> HIDE DEF row
  <1>2. FoundHolds(r)'
    BY <1>1 DEF FoundHolds, Working
  <1>3. Moved(r, lock, lock') /\ Moved(r, reference, reference')
    BY DEF Leave, Moved
  <1>4. row.at \notin Working /\ row.at # "comparing"
    BY <1>1 DEF Working
  <1> QED BY <1>1, <1>2, <1>3, <1>4, OneMoves

LEMMA AcquireStep ==
    ASSUME IInv, NEW r \in Runners, Acquire(r)
    PROVE  IInv'
  <1>1. UNCHANGED <<schema, tracked, history, reference>>
    BY DEF Acquire
  <1>2. HistoryIsSchema' /\ (~tracked' => history' = <<>>)
    BY <1>1 DEF IInv, HistoryIsSchema
  <1>3. PICK at \in {"inspecting", "failed"} :
           /\ Goto(r, at)
           /\ IF at = "inspecting" THEN Load(r) /\ lock = Nobody /\ lock' = r ELSE lock' = lock
    BY DEF Acquire
  <1> DEFINE row == [runner[r] EXCEPT !.at = at]
  <1>4. row \in RunnerRow /\ row.at = at /\ runner' = [runner EXCEPT ![r] = row] /\ runner'[r] = row
    BY <1>3, GoesOn
  <1> HIDE DEF row
  <1>5. FoundHolds(r)'
    BY <1>1, <1>3, <1>4 DEF FoundHolds, Working, Load, AtomicSQL
  <1>6. Moved(r, lock, lock') /\ Moved(r, reference, reference')
    BY <1>1, <1>3 DEF Moved
  <1>7. schema \in Legacy \cup Seq(Migrations \X {"whole", "part"}) /\ tracked \in BOOLEAN
        /\ history \in Seq(Migrations)
    BY DEF IInv, TypeOK
  <1> QED BY <1>1, <1>2, <1>3, <1>4, <1>5, <1>6, <1>7, OneMoves DEF Working

\* A step that changes nothing but the runner, and takes no lock.
LEMMA AloneStep ==
    ASSUME IInv, NEW r \in Runners, NEW row \in RunnerRow, runner' = [runner EXCEPT ![r] = row],
           UNCHANGED <<schema, tracked, history, lock, reference>>,
           row.at \in Working => lock = r, row.at = "comparing" => reference = r,
           runner'[r] = row => FoundHolds(r)'
    PROVE  IInv'
  <1>1. HistoryIsSchema' /\ (~tracked' => history' = <<>>)
    BY DEF IInv, HistoryIsSchema
  <1>2. Moved(r, lock, lock') /\ Moved(r, reference, reference')
    BY DEF Moved
  <1>3. schema \in Legacy \cup Seq(Migrations \X {"whole", "part"}) /\ tracked \in BOOLEAN
        /\ history \in Seq(Migrations)
    BY DEF IInv, TypeOK
  <1>4. runner'[r] = row
    BY RowAt
  <1> QED BY <1>1, <1>2, <1>3, <1>4, OneMoves

\* Nothing is changed but the runner, which ends.
LEMMA EndsStep ==
    ASSUME IInv, NEW r \in Runners, NEW at \in {"done", "failed"}, Leave(r, at),
           UNCHANGED <<schema, tracked, history>>
    PROVE  IInv'
  <1>1. HistoryIsSchema' /\ (~tracked' => history' = <<>>)
    BY DEF IInv, HistoryIsSchema
  <1>2. schema \in Legacy \cup Seq(Migrations \X {"whole", "part"}) /\ tracked \in BOOLEAN
        /\ history \in Seq(Migrations)
    BY DEF IInv, TypeOK
  <1> QED BY <1>1, <1>2, LeaveStep

LEMMA InspectStep ==
    ASSUME IInv, NEW r \in Runners, Inspect(r)
    PROVE  IInv'
  <1>1. /\ UNCHANGED <<schema, tracked, history>> /\ Through[r] = 0
        /\ runner[r].at \in Working /\ Load(r) /\ lock = r
    BY DEF Inspect, IInv, FoundHolds, TypeOK, Working
  <1>2. CASE Leave(r, "failed")
    BY <1>1, <1>2, EndsStep
  <1>3. CASE ~Leave(r, "failed")
    <2>1. PICK at \in {"reading", "empty"} :
             /\ Goto(r, at) /\ UNCHANGED <<lock, reference>>
             /\ IF at = "reading" THEN tracked ELSE ~tracked /\ schema = <<>>
      BY <1>3 DEF Inspect, IInv, TypeOK
    <2> DEFINE row == [runner[r] EXCEPT !.at = at]
    <2>2. row \in RunnerRow /\ row.at = at /\ runner' = [runner EXCEPT ![r] = row]
      BY <2>1, GoesOn
    <2> HIDE DEF row
    <2>3. runner'[r] = row => FoundHolds(r)'
      BY <1>1, <2>1, <2>2 DEF FoundHolds, Working, Load, AtomicSQL
    <2> QED BY <1>1, <2>1, <2>2, <2>3, AloneStep
  <1> QED BY <1>2, <1>3

LEMMA CreateHistoryStep ==
    ASSUME IInv, NEW r \in Runners, CreateHistory(r)
    PROVE  IInv'
  <1>1. /\ ~tracked /\ schema = <<>> /\ history = <<>> /\ Through[r] = 0 /\ Load(r) /\ lock = r
    BY DEF CreateHistory, IInv, FoundHolds, TypeOK, Working
  <1>2. tracked' = TRUE /\ Goto(r, "reading") /\ UNCHANGED <<schema, history, lock, reference>>
    BY <1>1 DEF CreateHistory
  <1> DEFINE row == [runner[r] EXCEPT !.at = "reading"]
  <1>3. row \in RunnerRow /\ row.at = "reading" /\ runner' = [runner EXCEPT ![r] = row]
        /\ runner'[r] = row
    BY <1>2, GoesOn
  <1> HIDE DEF row
  <1>4. FoundHolds(r)'
    BY <1>1, <1>2, <1>3 DEF FoundHolds, Working, Load, AtomicSQL
  <1>5. HistoryIsSchema' /\ (~tracked' => history' = <<>>)
    <2>1. schema' = Built(history')
      BY <1>1, <1>2, BuiltNone
    <2> QED BY <1>2, <2>1 DEF HistoryIsSchema
  <1>6. Moved(r, lock, lock') /\ Moved(r, reference, reference')
    BY <1>2 DEF Moved
  <1>7. schema \in Legacy \cup Seq(Migrations \X {"whole", "part"}) /\ history \in Seq(Migrations)
    BY DEF IInv, TypeOK
  <1> QED BY <1>1, <1>2, <1>3, <1>4, <1>5, <1>6, <1>7, OneMoves

LEMMA ReadHistoryStep ==
    ASSUME IInv, NEW r \in Runners, ReadHistory(r)
    PROVE  IInv'
  <1>1. /\ UNCHANGED <<schema, tracked, history>>
        /\ Through[r] = 0 /\ Load(r) /\ tracked /\ lock = r
    BY DEF ReadHistory, IInv, FoundHolds, TypeOK, Working
  <1>2. CASE UnchangedPrefix(r)
    <2> DEFINE row == [at |-> "applying", read |-> history]
    <2>1. runner' = [runner EXCEPT ![r] = row] /\ UNCHANGED <<lock, reference>>
      BY <1>2 DEF ReadHistory
    <2>2. row \in RunnerRow /\ row.at = "applying" /\ row.read = history
      BY DEF IInv, TypeOK, RunnerRow
    <2> HIDE DEF row
    <2>3. runner'[r] = row => FoundHolds(r)'
      BY <1>1, <1>2, <2>2 DEF FoundHolds, Working, Load, AtomicSQL, UnchangedPrefix
    <2> QED BY <1>1, <2>1, <2>2, <2>3, AloneStep
  <1>3. CASE ~UnchangedPrefix(r)
    BY <1>1, <1>3, EndsStep DEF ReadHistory
  <1> QED BY <1>2, <1>3

\* A runner that applies has the lock, has read the history as it is, and the
\* schema is what the history says.
LEMMA Applying ==
    ASSUME IInv, NEW r \in Runners, runner[r].at = "applying"
    PROVE  /\ lock = r /\ tracked /\ Load(r) /\ Through[r] = 0
           /\ runner[r].read = history /\ history \in Seq(Migrations)
           /\ IsPrefix(history, Files[r]) /\ schema = Built(history) /\ Fits(r)
  BY DEF IInv, FoundHolds, HistoryIsSchema, TypeOK, Working, Fits

LEMMA ApplyStep ==
    ASSUME IInv, NEW r \in Runners, Apply(r)
    PROVE  IInv'
  <1> DEFINE m == Files[r][Len(history) + 1]
  <1>1. /\ lock = r /\ tracked /\ Load(r) /\ Through[r] = 0
        /\ runner[r].read = history /\ history \in Seq(Migrations)
        /\ IsPrefix(history, Files[r]) /\ schema = Built(history)
        /\ Len(history) < Len(Files[r])
    BY Applying DEF Apply
  <1>2. m \in Migrations /\ Files[r] \in Seq(Migrations)
    BY <1>1, FilesType
  <1>3. schema' = Append(schema, <<m, "whole">>) /\ history' = Append(history, m)
        /\ tracked' = tracked
    BY <1>1 DEF Apply, Due
  <1>4. IsPrefix(history', Files[r])
    BY <1>1, <1>2, <1>3, PrefixTake
  <1> HIDE DEF m
  <1>5. schema' = Built(history') /\ history' \in Seq(Migrations)
    BY <1>1, <1>2, <1>3, BuiltAppend
  <1>6. schema' \in Seq(Migrations \X {"whole", "part"})
    BY <1>5, BuiltType
  <1>7. HistoryIsSchema' /\ (~tracked' => history' = <<>>)
    BY <1>1, <1>3, <1>5 DEF HistoryIsSchema
  <1>8. CASE Leave(r, "failed")
    BY <1>1, <1>3, <1>5, <1>6, <1>7, <1>8, LeaveStep
  <1>9. CASE ~Leave(r, "failed")
    <2> DEFINE row == [runner[r] EXCEPT !.read = history']
    <2>1. runner' = [runner EXCEPT ![r] = row] /\ UNCHANGED <<lock, reference>>
      BY <1>1, <1>3, <1>9 DEF Apply, Due, m
    <2>2. row \in RunnerRow /\ row.at = "applying" /\ row.read = history' /\ runner'[r] = row
      BY <1>5, <2>1, RowAt DEF Apply, RunnerRow
    <2> HIDE DEF row
    <2>3. FoundHolds(r)'
      BY <1>1, <1>3, <1>4, <2>2 DEF FoundHolds, Working, Load, AtomicSQL
    <2>4. Moved(r, lock, lock') /\ Moved(r, reference, reference')
      BY <2>1 DEF Moved
    <2> QED BY <1>1, <1>3, <1>5, <1>6, <1>7, <2>1, <2>2, <2>3, <2>4, OneMoves
  <1> QED BY <1>8, <1>9

\* What fails is rolled back: the text of a runner's migrations controls no
\* transaction.
LEMMA RollBackStep ==
    ASSUME IInv, NEW r \in Runners, RollBack(r)
    PROVE  IInv'
  <1>1. /\ Load(r) /\ Fits(r) /\ runner[r].read = history /\ history \in Seq(Migrations)
        /\ Len(history) < Len(Files[r])
    BY Applying DEF RollBack
  <1>2. Due(r) \notin Controls
    BY <1>1, FilesType DEF Due, Load, AtomicSQL
  <1> QED BY <1>1, <1>2, EndsStep DEF RollBack

LEMMA LegacyStep ==
    ASSUME IInv, NEW r \in Runners, InspectLegacy(r) \/ LockReference(r)
    PROVE  IInv'
  <1>1. /\ UNCHANGED <<schema, tracked, history>> /\ Load(r) /\ lock = r
        /\ Through[r] > 0
    BY DEF InspectLegacy, LockReference, IInv, FoundHolds, TypeOK, Working
  <1>2. CASE InspectLegacy(r) /\ tracked
    BY <1>1, <1>2, EndsStep DEF InspectLegacy
  <1>3. CASE InspectLegacy(r) /\ ~tracked
    <2> DEFINE row == [runner[r] EXCEPT !.at = "adopting"]
    <2>1. Goto(r, "adopting") /\ UNCHANGED <<lock, reference>>
      BY <1>3 DEF InspectLegacy
    <2>2. row \in RunnerRow /\ row.at = "adopting" /\ runner' = [runner EXCEPT ![r] = row]
      BY <2>1, GoesOn
    <2> HIDE DEF row
    <2>3. runner'[r] = row => FoundHolds(r)'
      BY <1>1, <1>3, <2>2 DEF FoundHolds, Working, Load, AtomicSQL
    <2> QED BY <1>1, <2>1, <2>2, <2>3, AloneStep
  <1>4. CASE LockReference(r)
    <2> DEFINE row == [runner[r] EXCEPT !.at = "comparing"]
    <2>1. Goto(r, "comparing") /\ lock' = lock /\ reference = Nobody /\ reference' = r /\ ~tracked
      BY <1>4 DEF LockReference, IInv, FoundHolds
    <2>2. row \in RunnerRow /\ row.at = "comparing" /\ runner' = [runner EXCEPT ![r] = row]
          /\ runner'[r] = row
      BY <2>1, GoesOn
    <2> HIDE DEF row
    <2>3. FoundHolds(r)'
      BY <1>1, <2>1, <2>2 DEF FoundHolds, Working, Load, AtomicSQL
    <2>4. Moved(r, lock, lock') /\ Moved(r, reference, reference')
      BY <2>1 DEF Moved
    <2>5. HistoryIsSchema' /\ (~tracked' => history' = <<>>)
      BY <1>1 DEF IInv, HistoryIsSchema
    <2>6. schema \in Legacy \cup Seq(Migrations \X {"whole", "part"}) /\ tracked \in BOOLEAN
          /\ history \in Seq(Migrations)
      BY DEF IInv, TypeOK
    <2> QED BY <1>1, <2>1, <2>2, <2>3, <2>4, <2>5, <2>6, OneMoves
  <1> QED BY <1>2, <1>3, <1>4

LEMMA AdoptedType ==
    ASSUME NEW r \in Runners
    PROVE  Adopted(r) \in Seq(Migrations)
  BY FilesType, SubSeqProperties DEF Adopted

LEMMA AdoptHistoryStep ==
    ASSUME IInv, NEW r \in Runners, AdoptHistory(r)
    PROVE  IInv'
  <1>1. lock = r
    BY DEF AdoptHistory, IInv, TypeOK
  <1>2. CASE ~SameSchema(r)
    BY <1>2, EndsStep DEF AdoptHistory
  <1>3. CASE SameSchema(r)
    <2>1. /\ tracked' = TRUE /\ history' = Adopted(r) /\ schema' = schema /\ Leave(r, "done")
          /\ schema = Built(Adopted(r))
      BY <1>3 DEF AdoptHistory, SameSchema
    <2>2. HistoryIsSchema' /\ history' \in Seq(Migrations)
      BY <2>1, AdoptedType DEF HistoryIsSchema
    <2>3. schema' \in Legacy \cup Seq(Migrations \X {"whole", "part"})
      BY <2>1 DEF IInv, TypeOK
    <2> QED BY <1>1, <2>1, <2>2, <2>3, LeaveStep
  <1> QED BY <1>2, <1>3

LEMMA FailureStep ==
    ASSUME IInv, NEW r \in Runners, Crash(r) \/ Notice(r) \/ Restart(r)
    PROVE  IInv'
  <1>1. UNCHANGED <<schema, tracked, history>>
    BY DEF Crash, Notice, Restart
  <1>2. CASE Notice(r)
    BY <1>1, <1>2, EndsStep DEF Notice
  <1>3. CASE Crash(r)
    <2> DEFINE row == [runner[r] EXCEPT !.at = "lost"]
    <2>1. row \in RunnerRow /\ row.at = "lost" /\ runner' = [runner EXCEPT ![r] = row]
      BY <1>3, GoesOn DEF Crash
    <2> HIDE DEF row
    <2>2. runner'[r] = row => FoundHolds(r)'
      BY <2>1 DEF FoundHolds, Working
    <2> QED BY <1>3, <2>1, <2>2, AloneStep DEF Crash, Working
  <1>4. CASE Restart(r)
    <2>1. Idle \in RunnerRow /\ Idle.at = "idle"
      BY DEF Idle, RunnerRow
    <2>2. runner'[r] = Idle => FoundHolds(r)'
      BY <2>1 DEF FoundHolds, Working
    <2> QED BY <1>4, <2>1, <2>2, AloneStep DEF Restart, Working
  <1> QED BY <1>2, <1>3, <1>4

LEMMA FinishStep ==
    ASSUME IInv, NEW r \in Runners, Finish(r)
    PROVE  IInv' /\ history = Files[r] /\ tracked
  <1>1. /\ tracked /\ runner[r].read = history /\ history \in Seq(Migrations)
        /\ IsPrefix(history, Files[r]) /\ Len(history) >= Len(Files[r])
    BY Applying DEF Finish
  <1>2. history = Files[r]
    BY <1>1, FilesType, PrefixWhole
  <1> QED BY <1>1, <1>2, EndsStep DEF Finish

-----------------------------------------------------------------------------
(* Theorems.                                                               *)

LEMMA InitInv == Init => IInv
  <1> SUFFICES ASSUME Init
               PROVE  IInv
    OBVIOUS
  <1>1. /\ \A r \in Runners : runner[r] = Idle
        /\ Idle \in RunnerRow /\ Idle.at = "idle"
        /\ runner \in [Runners -> RunnerRow]
    BY DEF Init, Idle, RunnerRow
  <1>2. TypeOK
    <2>1. <<>> \in Seq(Migrations)
      OBVIOUS
    <2>2. \A r \in Runners : runner[r].at = "idle"
      BY <1>1
    <2> QED BY <1>1, <2>1, <2>2 DEF Init, TypeOK, RunnerRow
  <1>3. \A r \in Runners : FoundHolds(r)
    BY <1>1 DEF FoundHolds, Working
  <1> QED BY <1>2, <1>3 DEF IInv, Init, HistoryIsSchema

LEMMA StepInv == IInv /\ [Next]_vars => IInv'
  <1> SUFFICES ASSUME IInv, [Next]_vars
               PROVE  IInv'
    OBVIOUS
  <1>1. ASSUME NEW r \in Runners, Proceed(r) \/ RollBack(r) \/ Crash(r) \/ Restart(r)
        PROVE  IInv'
    BY <1>1, AcquireStep, InspectStep, CreateHistoryStep, ReadHistoryStep, ApplyStep, FinishStep,
       LegacyStep, AdoptHistoryStep, RollBackStep, FailureStep DEF Proceed
  <1>2. CASE UNCHANGED vars
    <2>1. TypeOK'
      BY <1>2 DEF vars, IInv, TypeOK
    <2>2. \A r \in Runners : FoundHolds(r)'
      BY <1>2 DEF vars, IInv, FoundHolds, Load, AtomicSQL
    <2> QED BY <1>2, <2>1, <2>2 DEF vars, IInv, HistoryIsSchema
  <1> QED BY <1>1, <1>2 DEF Next

\* Who becomes done has just applied the last of its files, or has adopted.
LEMMA DoneIsCurrent ==
    ASSUME IInv, [Next]_vars, NEW r \in Runners, runner[r].at # "done", runner'[r].at = "done"
    PROVE  tracked' /\ (Through[r] = 0 => history = Files[r])
  <1>1. PICK q \in Runners : Proceed(q) \/ RollBack(q) \/ Crash(q) \/ Restart(q)
    BY DEF Next, vars
  <1>2. CASE Finish(q) /\ q = r
    BY <1>2, FinishStep DEF Finish
  <1>3. CASE AdoptHistory(q) /\ q = r
    <2>1. Through[r] > 0
      BY <1>3 DEF AdoptHistory, IInv, FoundHolds
    <2>2. SameSchema(r)
      <3> SUFFICES ASSUME ~SameSchema(r)
                   PROVE  FALSE
        OBVIOUS
      <3>1. Goto(r, "failed")
        BY <1>3 DEF AdoptHistory, Leave
      <3>2. runner'[r].at = "failed"
        BY <3>1, GoesOn
      <3> QED BY <3>2
    <2> QED BY <1>3, <2>1, <2>2, FilesType DEF AdoptHistory
  <1>4. CASE q # r
    <2>1. runner \in [Runners -> RunnerRow]
      BY RowAt
    <2>2. ASSUME NEW at, Goto(q, at)
          PROVE  runner'[r] = runner[r]
      BY <1>4, <2>1, <2>2 DEF Goto
    <2>3. ASSUME ReadHistory(q) \/ Apply(q) \/ Restart(q)
          PROVE  runner'[r] = runner[r]
      BY <1>4, <2>1, <2>2, <2>3 DEF ReadHistory, Apply, Restart, Leave
    <2>4. CASE Acquire(q) \/ Inspect(q) \/ CreateHistory(q) \/ Finish(q) \/ InspectLegacy(q)
      BY <2>2, <2>4 DEF Acquire, Inspect, CreateHistory, Finish, InspectLegacy, Leave
    <2>5. CASE LockReference(q) \/ AdoptHistory(q) \/ Notice(q) \/ RollBack(q) \/ Crash(q)
      BY <2>2, <2>5 DEF LockReference, AdoptHistory, Notice, RollBack, Crash, Leave
    <2> QED BY <1>1, <2>3, <2>4, <2>5 DEF Proceed
  <1>5. CASE q = r /\ ~Finish(r) /\ ~AdoptHistory(r)
    <2>1. ASSUME NEW at, Goto(r, at), at # "done"
          PROVE  FALSE
      BY <2>1, GoesOn
    <2>2. CASE ReadHistory(r) \/ Apply(r) \/ Restart(r)
      <3>1. runner \in [Runners -> RunnerRow]
        BY RowAt
      <3>2. CASE ReadHistory(r)
        BY <2>1, <3>1, <3>2 DEF ReadHistory, Leave
      <3>3. CASE Apply(r)
        BY <2>1, <3>1, <3>3 DEF Apply, Leave, RunnerRow
      <3>4. CASE Restart(r)
        BY <3>1, <3>4 DEF Restart, Idle
      <3> QED BY <2>2, <3>2, <3>3, <3>4
    <2>3. CASE Acquire(r) \/ Inspect(r) \/ CreateHistory(r) \/ InspectLegacy(r)
      BY <2>1, <2>3 DEF Acquire, Inspect, CreateHistory, InspectLegacy, Leave
    <2>4. CASE LockReference(r) \/ Notice(r) \/ RollBack(r) \/ Crash(r)
      BY <2>1, <2>4 DEF LockReference, Notice, RollBack, Crash, Leave
    <2> QED BY <1>1, <1>5, <2>2, <2>3, <2>4 DEF Proceed
  <1> QED BY <1>2, <1>3, <1>4, <1>5

\* However many runners start, die and start again, with old and new builds: the
\* history says exactly what has been applied, no two of them meet in a statement, and
\* a server that starts to serve has found its own build applied, whole and alone.
THEOREM MigrationsAreSafe == Spec => MigrateSafety
  <1>1. IInv => TypeOK /\ HistoryIsSchema /\ RunnersDoNotCollide
    BY DEF IInv, FoundHolds, RunnersDoNotCollide
  <1>2. IInv /\ [Next]_vars =>
            [\A r \in Runners : runner[r].at # "done" /\ runner'[r].at = "done" =>
                /\ tracked'
                /\ Through[r] = 0 => history = Files[r]]_vars
    BY DoneIsCurrent
  <1> QED BY <1>1, <1>2, InitInv, StepInv, PTL DEF Spec, MigrateSafety, ServersAreCurrent
=============================================================================
