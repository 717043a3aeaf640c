------------------------------- MODULE Migrate ------------------------------
(***************************************************************************)
(* Schema migrations (migrate/): runners that start together, each with    *)
(* the migration files of its own build, and the adoption of a database    *)
(* that was built before migrations were recorded.                         *)
(*                                                                         *)
(* A step is one statement, or one transaction.  A migration is applied    *)
(* whole or not at all unless its text controls transactions: then the     *)
(* part before that stays.                                                 *)
(*                                                                         *)
(* An operator whose name has an underscore is a faulty variant of the     *)
(* operator that follows it; no specification uses it.                     *)
(***************************************************************************)
EXTENDS Naturals, Sequences, SequencesExt

CONSTANTS
    Runners,     \* processes: the server at its start, and the command
    Files,       \* the migrations of a runner's build, in order of version
    Through,     \* how many of them the runner adopts; 0 for one that applies
    Controls,    \* migrations with transaction control in their text
    Adoptable,   \* the last version that may be adopted (9)
    Legacy,      \* the schemas a database without a history may have
    Nobody

Migrations == UNION {{Files[r][i] : i \in 1 .. Len(Files[r])} : r \in Runners}

ASSUME MigrateAssumption ==
    /\ Nobody \notin Runners
    /\ Adoptable \in Nat
    /\ \A r \in Runners : Files[r] \in Seq(Migrations) /\ Through[r] \in 0 .. Len(Files[r])

VARIABLES
    schema,      \* what has been applied, as <<migration, "whole" or "part">>
    tracked,     \* schema_migrations exists
    history,     \* its rows
    lock,        \* the advisory lock of the database
    reference,   \* the advisory lock of the reference database
    runner       \* the runners

vars == <<schema, tracked, history, lock, reference, runner>>

Idle == [at |-> "idle", read |-> <<>>]

Built(files) == [i \in 1 .. Len(files) |-> <<files[i], "whole">>]

TypeOK ==
    /\ schema \in Legacy \cup Seq(Migrations \X {"whole", "part"})
    /\ tracked \in BOOLEAN
    /\ history \in Seq(Migrations)
    /\ lock \in Runners \cup {Nobody} /\ reference \in Runners \cup {Nobody}
    /\ runner \in [Runners ->
          [at : {"idle", "inspecting", "empty", "reading", "applying", "adopting", "comparing",
                 "done", "failed", "collided", "lost"},
           read : Seq(Migrations)]]        \* the history it has read or added to
    \* Whoever reads or changes the history holds the lock.
    /\ \A r \in Runners :
          /\ runner[r].at \in {"inspecting", "empty", "reading", "applying", "adopting",
                               "comparing"} => lock = r
          /\ runner[r].at = "comparing" => reference = r

Init ==
    /\ schema \in Legacy
    /\ tracked = FALSE
    /\ history = <<>>
    /\ lock = Nobody
    /\ reference = Nobody
    /\ runner = [r \in Runners |-> Idle]

Goto(r, at) == runner' = [runner EXCEPT ![r].at = at]

\* The deferred unlock; a connection that cannot unlock is closed.
Leave(r, at) ==
    /\ Goto(r, at)
    /\ lock' = IF lock = r THEN Nobody ELSE lock
    /\ reference' = IF reference = r THEN Nobody ELSE reference

-----------------------------------------------------------------------------
(* Load and locked.                                                        *)

AtomicSQL_Unread(r) == TRUE

\* The text of every file, its own BEGIN and COMMIT around it taken off.
AtomicSQL(r) == \A i \in 1 .. Len(Files[r]) : Files[r][i] \notin Controls

Load(r) == AtomicSQL(r) /\ Through[r] <= Adoptable

Acquire_NoLock(r) ==
    /\ runner[r].at = "idle"
    /\ IF Load(r) THEN Goto(r, "inspecting") ELSE Goto(r, "failed")
    /\ UNCHANGED <<schema, tracked, history, lock, reference>>

Acquire(r) ==
    /\ runner[r].at = "idle"
    /\ IF Load(r)
       THEN lock = Nobody /\ lock' = r /\ Goto(r, "inspecting")
       ELSE UNCHANGED lock /\ Goto(r, "failed")
    /\ UNCHANGED <<schema, tracked, history, reference>>

-----------------------------------------------------------------------------
(* Run.                                                                    *)

\* to_regclass and requireEmpty.
Inspect(r) ==
    /\ runner[r].at = "inspecting" /\ Through[r] = 0
    /\ IF tracked THEN Goto(r, "reading") /\ UNCHANGED <<lock, reference>>
       ELSE IF schema = <<>> THEN Goto(r, "empty") /\ UNCHANGED <<lock, reference>>
       ELSE Leave(r, "failed")
    /\ UNCHANGED <<schema, tracked, history>>

\* historyDDL: it fails if another runner was first.
CreateHistory(r) ==
    /\ runner[r].at = "empty"
    /\ tracked' = TRUE
    /\ IF tracked THEN Leave(r, "collided")
       ELSE Goto(r, "reading") /\ UNCHANGED <<lock, reference>>
    /\ UNCHANGED <<schema, history>>

UnchangedPrefix_Longer(r) == IsPrefix(history, Files[r]) \/ IsPrefix(Files[r], history)

UnchangedPrefix(r) == IsPrefix(history, Files[r])

ReadHistory(r) ==
    /\ runner[r].at = "reading"
    /\ IF UnchangedPrefix(r)
       THEN /\ runner' = [runner EXCEPT ![r] = [at |-> "applying", read |-> history]]
            /\ UNCHANGED <<lock, reference>>
       ELSE Leave(r, "failed")
    /\ UNCHANGED <<schema, tracked, history>>

Due(r) == Files[r][Len(runner[r].read) + 1]

\* What the objects and the rows that are there already let pass.
Fits(r) == schema = Built(runner[r].read)

\* apply: the text, its row and the commit.
Apply(r) ==
    /\ runner[r].at = "applying" /\ Len(runner[r].read) < Len(Files[r]) /\ Fits(r)
    /\ schema' = Append(schema, <<Due(r), "whole">>)
    /\ history' = Append(history, Due(r))
    /\ \/ /\ runner' = [runner EXCEPT ![r].read = Append(@, Due(r))]
          /\ UNCHANGED <<lock, reference>>
       \/ Leave(r, "failed")               \* the answer to the commit is lost
    /\ UNCHANGED tracked

\* A statement of it fails, the connection included.
RollBack(r) ==
    /\ runner[r].at = "applying" /\ Len(runner[r].read) < Len(Files[r])
    /\ schema' = IF Due(r) \in Controls THEN Append(schema, <<Due(r), "part">>) ELSE schema
    /\ Leave(r, IF Fits(r) THEN "failed" ELSE "collided")
    /\ UNCHANGED <<tracked, history>>

Finish(r) ==
    /\ runner[r].at = "applying" /\ Len(runner[r].read) >= Len(Files[r])
    /\ Leave(r, "done")
    /\ UNCHANGED <<schema, tracked, history>>

-----------------------------------------------------------------------------
(* Adopt.                                                                  *)

InspectLegacy(r) ==
    /\ runner[r].at = "inspecting" /\ Through[r] > 0
    /\ IF tracked THEN Leave(r, "failed") ELSE Goto(r, "adopting") /\ UNCHANGED <<lock, reference>>
    /\ UNCHANGED <<schema, tracked, history>>

\* The lock of the reference database; the transaction that builds the expected
\* schema there is rolled back.
LockReference(r) ==
    /\ runner[r].at = "adopting" /\ reference = Nobody
    /\ reference' = r
    /\ Goto(r, "comparing")
    /\ UNCHANGED <<schema, tracked, history, lock>>

Adopted(r) == SubSeq(Files[r], 1, Through[r])

SameSchema(r) == schema = Built(Adopted(r))

\* One transaction compares, creates the history and fills it.
AdoptHistory(r) ==
    /\ runner[r].at = "comparing"
    /\ IF SameSchema(r)
       THEN tracked' = TRUE /\ history' = Adopted(r) /\ Leave(r, "done")
       ELSE UNCHANGED <<tracked, history>> /\ Leave(r, "failed")
    /\ UNCHANGED schema

-----------------------------------------------------------------------------
(* Failures.                                                               *)

\* The process dies, or its five minutes end; its session keeps the locks until
\* the database notices.
Crash(r) ==
    /\ runner[r].at \notin {"idle", "done", "failed", "collided", "lost"}
    /\ Goto(r, "lost")
    /\ UNCHANGED <<schema, tracked, history, lock, reference>>

Notice_Never(r) ==
    /\ runner[r].at = "lost"
    /\ Goto(r, "failed")
    /\ UNCHANGED <<schema, tracked, history, lock, reference>>

Notice(r) ==
    /\ runner[r].at = "lost"
    /\ Leave(r, "failed")
    /\ UNCHANGED <<schema, tracked, history>>

\* The container is started again; the command is not run again by itself.
Restart(r) ==
    /\ runner[r].at = "failed" /\ Through[r] = 0
    /\ runner' = [runner EXCEPT ![r] = Idle]
    /\ UNCHANGED <<schema, tracked, history, lock, reference>>

Proceed(r) ==
    \/ Acquire(r) \/ Inspect(r) \/ CreateHistory(r) \/ ReadHistory(r) \/ Apply(r) \/ Finish(r)
    \/ InspectLegacy(r) \/ LockReference(r) \/ AdoptHistory(r) \/ Notice(r)

Next == \E r \in Runners : Proceed(r) \/ RollBack(r) \/ Crash(r) \/ Restart(r)

\* Runners go on, the database notices the dead, and it serves those that wait
\* for a lock in their order.
Spec == Init /\ [][Next]_vars /\ \A r \in Runners : SF_vars(Proceed(r))

-----------------------------------------------------------------------------
(* Properties.                                                             *)

\* The history says exactly what the schema is, after every crash and failure:
\* "nothing is marked applied on failure" (OPERATIONS.md) and nothing is applied
\* that is not marked.
HistoryIsSchema == tracked => schema = Built(history)

\* Runners that start together never meet in a statement (LockID).
RunnersDoNotCollide == \A r \in Runners : runner[r].at # "collided"

\* A server serves only when the database is exactly of its build at that moment.
ServersAreCurrent ==
    [][\A r \in Runners : runner[r].at # "done" /\ runner'[r].at = "done" =>
          /\ tracked'
          /\ Through[r] = 0 => history = Files[r]]_vars

\* No runner waits for a lock for ever, whoever died with it.
EveryRunEnds ==
    \A r \in Runners :
        runner[r].at \in {"idle", "adopting"} ~> runner[r].at \in {"done", "failed", "lost"}

\* History, schema and serving builds agree, whoever runs beside whom.
MigrateSafety ==
    /\ []TypeOK
    /\ []HistoryIsSchema
    /\ []RunnersDoNotCollide
    /\ ServersAreCurrent
=============================================================================
