------------------------------ MODULE MCMigrate -----------------------------
(***************************************************************************)
(* Instances of Migrate for TLC: an old and a new build that start         *)
(* together, a build whose second file was edited, one whose third file    *)
(* commits by itself, and a command that adopts the first two.             *)
(***************************************************************************)
EXTENDS Migrate

CONSTANTS old, new, edited, raw, command

Build == <<"m1", "m2", "m3">>

MCFiles == [r \in Runners |->
    IF r = old THEN SubSeq(Build, 1, 2)
    ELSE IF r = edited THEN <<"m1", "m2x", "m3">>
    ELSE IF r = raw THEN <<"m1", "m2", "m3c">>
    ELSE Build]

MCThrough == [r \in Runners |-> IF r = command THEN 2 ELSE 0]

\* Nothing, each earlier version, and something else.
MCLegacy == {Built(SubSeq(Build, 1, i)) : i \in 0 .. 2} \cup {<<<<"m0", "whole">>>>}

MCControls == {"m3c"}
=============================================================================
