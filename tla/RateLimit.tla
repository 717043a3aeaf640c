------------------------------ MODULE RateLimit -----------------------------
(***************************************************************************)
(* The rate limiter (operational/ratelimit.go): one bucket of tokens for   *)
(* each client, filled as time passes, in a table that is cleaned when a   *)
(* request comes and that holds only so many buckets.                      *)
(*                                                                         *)
(* The code counts tokens in floating point; here a token is Window shares,*)
(* so that a unit of time fills exactly Limit shares.  A request holds the *)
(* mutex from its first look at the table to its last: it is one step.     *)
(*                                                                         *)
(* An operator whose name has an underscore is a faulty variant of the     *)
(* operator that follows it; no specification uses it.                     *)
(***************************************************************************)
EXTENDS Naturals, FiniteSets

CONSTANTS
    Clients,
    Limit,        \* requests that a window allows
    Window,       \* its length
    Second,       \* the unit of Retry-After
    MaxBuckets    \* the size of the table (10 000)

RateLimitAssumption ==
    /\ {Limit, Window, Second, MaxBuckets} \subseteq Nat \ {0}
    /\ Window % Second = 0

VARIABLES
    bucket,     \* the table: shares when last updated, and the time since then
    cleaned,    \* the time since the last clean-up
    ideal,      \* the shares each client has a right to
    wait        \* what is left of the Retry-After it was given, Served if none

vars == <<bucket, cleaned, ideal, wait>>

Fill == Limit * Window
NoBucket == [held |-> FALSE, tokens |-> 0, age |-> 0]
Served == Window + Second
Buckets == {c \in Clients : bucket[c].held}

LeastOf(a, b) == IF a < b THEN a ELSE b

TypeOK ==
    /\ bucket \in [Clients -> [held : BOOLEAN, tokens : 0 .. Fill, age : 0 .. 2 * Window]]
    /\ cleaned \in 0 .. 2 * Window
    /\ ideal \in [Clients -> 0 .. Fill]
    /\ wait \in [Clients -> 0 .. Served]
    \* 10 000 buckets are all the memory that clients can take.
    /\ Cardinality(Buckets) <= MaxBuckets

Init ==
    /\ bucket = [c \in Clients |-> NoBucket]
    /\ cleaned = 0
    /\ ideal = [c \in Clients |-> Fill]
    /\ wait = [c \in Clients |-> Served]

-----------------------------------------------------------------------------
Stale_Half(c) == bucket[c].held /\ 2 * bucket[c].age >= Window

Stale(c) == bucket[c].held /\ bucket[c].age >= Window

CleanupDue_Late == cleaned >= 2 * Window

CleanupDue == cleaned >= Window

\* The table once it is cleaned.
Kept == IF CleanupDue THEN {c \in Buckets : ~Stale(c)} ELSE Buckets

Refilled(c) ==
    IF c \in Kept THEN LeastOf(Fill, bucket[c].tokens + Limit * bucket[c].age) ELSE Fill

\* Every request leaves its bucket with the time of now.
Table(c, tokens) ==
    bucket' = [d \in Clients |->
        IF d = c THEN [held |-> TRUE, tokens |-> tokens, age |-> 0]
        ELSE IF d \in Kept THEN bucket[d] ELSE NoBucket]

Cleaned == cleaned' = IF CleanupDue THEN 0 ELSE cleaned

RoundUp(n, unit) == ((n + unit - 1) \div unit) * unit

RetryAfter_RoundedDown(missing) == ((missing \div Limit) \div Second) * Second

RetryAfter(missing) == RoundUp(RoundUp(missing, Limit) \div Limit, Second)

HasRoom(c) == c \in Kept \/ Cardinality(Kept) < MaxBuckets

\* next.ServeHTTP.
Serve(c) ==
    /\ HasRoom(c) /\ Refilled(c) >= Window
    /\ Table(c, Refilled(c) - Window) /\ Cleaned
    /\ ideal' = [ideal EXCEPT ![c] = IF @ >= Window THEN @ - Window ELSE 0]
    /\ wait' = [wait EXCEPT ![c] = Served]

\* 429: an empty bucket.
Refuse(c) ==
    /\ HasRoom(c) /\ Refilled(c) < Window
    /\ Table(c, Refilled(c)) /\ Cleaned
    /\ wait' = [wait EXCEPT ![c] = RetryAfter(Window - Refilled(c))]
    /\ UNCHANGED ideal

\* 429: no place for another bucket.
RefuseNewcomer(c) ==
    /\ ~HasRoom(c)
    /\ bucket' = [d \in Clients |-> IF d \in Kept THEN bucket[d] ELSE NoBucket]
    /\ Cleaned
    /\ wait' = [wait EXCEPT ![c] = Window]
    /\ UNCHANGED ideal

Pass ==
    /\ bucket' = [c \in Clients |->
          IF bucket[c].held THEN [bucket[c] EXCEPT !.age = LeastOf(2 * Window, @ + 1)] ELSE bucket[c]]
    /\ cleaned' = LeastOf(2 * Window, cleaned + 1)
    /\ ideal' = [c \in Clients |-> LeastOf(Fill, ideal[c] + Limit)]
    /\ wait' = [c \in Clients |-> IF wait[c] \in {0, Served} THEN wait[c] ELSE wait[c] - 1]

Request(c) == Serve(c) \/ Refuse(c) \/ RefuseNewcomer(c)

Next == Pass \/ \E c \in Clients : Request(c)

Spec == Init /\ [][Next]_vars

-----------------------------------------------------------------------------
(* Properties.                                                             *)

\* The clean-up cannot be seen: a client is served exactly when a bucket that
\* is never thrown away would let it pass, or refused because the table is full.
CleanupIsInvisible ==
    [][\A c \in Clients :
          /\ Serve(c) => ideal[c] >= Window
          /\ Refuse(c) => ideal[c] < Window]_vars

\* Who waits for as long as Retry-After says has a token when it comes back.
RetryAfterIsEnough ==
    \A c \in Clients : wait[c] = 0 /\ c \in Kept => Refilled(c) >= Window

\* A newcomer finds no room only because of clients that came in the last two
\* windows: Retry-After, one window, is not always enough for it, because a
\* clean-up that has just missed a bucket is the last one for a window.
RoomIsForTheRecent ==
    \A c \in Clients : ~HasRoom(c) => \A d \in Kept : bucket[d].age < 2 * Window

\* The bounded table answers as an unbounded one, and tells the truth about the wait.
RateLimitSafety ==
    /\ []TypeOK
    /\ []RetryAfterIsEnough
    /\ []RoomIsForTheRecent
    /\ CleanupIsInvisible
=============================================================================
