------------------------------- MODULE Outbox -------------------------------
(***************************************************************************)
(* The notification outbox (notification/): rows that are claimed in       *)
(* batches, sent outside every transaction, and marked afterwards, by the  *)
(* workers of one or more processes.                                       *)
(*                                                                         *)
(* Time is what is left of it: of a row's delay, of the lease of its       *)
(* claim, and of the deadline of the mail a worker is sending.  Tick lets  *)
(* a unit pass, and no send outlasts its deadline.                         *)
(*                                                                         *)
(* An operator whose name has an underscore is a faulty variant of the     *)
(* operator that follows it; no specification uses it.                     *)
(***************************************************************************)
EXTENDS Naturals, Sequences, FiniteSets

CONSTANTS
    Mails, Workers,
    MaxRetry,     \* tries before a mail is given up (5)
    BatchSize,    \* rows that one claim takes at most (10)
    SendTime,     \* deadline of a send (40 s) and of its marking (3 s)
    Lease,        \* after this time another worker may claim the row (10 minutes)
    MaxBackoff,   \* the longest delay of a retry (1 hour)
    MaxTrouble    \* bound: crashes and lost statements

ASSUME OutboxAssumption ==
    /\ {MaxRetry, BatchSize, SendTime, Lease} \subseteq Nat \ {0}
    /\ {MaxBackoff, MaxTrouble} \subseteq Nat
    \* 10 * 43 s < 600 s
    /\ BatchSize * SendTime < Lease

VARIABLES
    row,      \* notification_outbox
    worker,   \* what each worker is doing
    tries,    \* how often a worker set out to send the mail
    copies,   \* how often the server took it
    doubt,    \* how often the mail's fate was lost after the server took it
    trouble   \* crashes and lost statements so far

vars == <<row, worker, tries, copies, doubt, trouble>>

NoRow == [status |-> "none", attempts |-> 0, wait |-> 0, lease |-> 0]

Resting == [at |-> "idle", batch |-> <<>>, left |-> 0]

Entry == [mail : Mails, attempts : Nat]

TypeOK ==
    /\ row \in [Mails -> [status : {"none", "pending", "processing", "sent", "failed"},
                          attempts : Nat,
                          wait : Nat,      \* until next_attempt_at
                          lease : Nat]]    \* until updated_at is ten minutes old
    /\ worker \in [Workers -> [at : {"idle", "sending", "taken", "refused"},
                               batch : Seq(Entry),   \* what the claim returned
                               left : 0 .. SendTime]]
    /\ tries \in [Mails -> Nat] /\ copies \in [Mails -> Nat] /\ doubt \in [Mails -> Nat]
    /\ trouble \in Nat

Init ==
    /\ row = [m \in Mails |-> NoRow]
    /\ worker = [w \in Workers |-> Resting]
    /\ tries = [m \in Mails |-> 0]
    /\ copies = [m \in Mails |-> 0]
    /\ doubt = [m \in Mails |-> 0]
    /\ trouble = 0

-----------------------------------------------------------------------------
(* Rows.                                                                   *)

\* ON CONFLICT (event_key) DO NOTHING.
Enqueue(m) ==
    /\ row[m].status = "none"
    /\ row' = [row EXCEPT ![m].status = "pending"]
    /\ UNCHANGED <<worker, tries, copies, doubt, trouble>>

Claimable_NoLease(m) ==
    \/ row[m].status = "pending" /\ row[m].wait = 0
    \/ row[m].status = "processing"

Claimable_NeverAgain(m) == row[m].status = "pending" /\ row[m].wait = 0

Claimable(m) ==
    \/ row[m].status = "pending" /\ row[m].wait = 0
    \/ row[m].status = "processing" /\ row[m].lease = 0

\* What one claim may take: LIMIT BatchSize.
Batches ==
    {S \in SUBSET {m \in Mails : Claimable(m)} :
        S # {} /\ IsFiniteSet(S) /\ Cardinality(S) <= BatchSize}

Claim(S) ==
    row' = [m \in Mails |->
               IF m \in S THEN [row[m] EXCEPT !.status = "processing", !.lease = Lease]
               ELSE row[m]]

Backoff(n) == IF 2 ^ n \in 0 .. MaxBackoff THEN 2 ^ n ELSE MaxBackoff

MarkSent(m) ==
    row' = IF row[m].status = "processing" THEN [row EXCEPT ![m].status = "sent"] ELSE row

MarkFailed(m, delay) ==
    row' = IF row[m].status = "processing"
           THEN [row EXCEPT ![m].status = "pending", ![m].wait = delay, ![m].attempts = @ + 1]
           ELSE row

MarkPermanentFailure(m) ==
    row' = IF row[m].status \in {"pending", "processing"}
           THEN [row EXCEPT ![m].status = "failed"] ELSE row

HandleSendFailure_Early(entry) ==
    IF entry.attempts + 2 >= MaxRetry
    THEN MarkPermanentFailure(entry.mail)
    ELSE MarkFailed(entry.mail, Backoff(entry.attempts))

\* attempts is what the claim returned.
HandleSendFailure(entry) ==
    IF entry.attempts + 1 >= MaxRetry
    THEN MarkPermanentFailure(entry.mail)
    ELSE MarkFailed(entry.mail, Backoff(entry.attempts))

-----------------------------------------------------------------------------
(* Workers.                                                                *)

Current(w) == Head(worker[w].batch)

\* The order of the returned rows is the statement's.
Orderings(S) ==
    {q \in [1 .. Cardinality(S) -> S] : \A i, j \in DOMAIN q : i # j => q[i] # q[j]}

\* Which due rows it takes when there are more than BatchSize, or when SKIP
\* LOCKED leaves rows out, is not modelled (they are ordered by their delay).
Fetch(w) ==
    /\ worker[w] = Resting
    /\ \E S \in Batches :
        /\ Claim(S)
        /\ \E batch \in Orderings(S) :
              worker' = [worker EXCEPT ![w].batch =
                  [i \in 1 .. Cardinality(S) |->
                      [mail |-> batch[i], attempts |-> row[batch[i]].attempts]]]
    /\ UNCHANGED <<tries, copies, doubt, trouble>>

\* The claim commits, and its answer is lost or cannot be read.
FetchLost(w) ==
    /\ worker[w] = Resting /\ trouble < MaxTrouble
    /\ \E S \in Batches : Claim(S)
    /\ trouble' = trouble + 1
    /\ UNCHANGED <<worker, tries, copies, doubt>>

BeginSend_NoDeadline(w) ==
    /\ worker[w].at = "idle" /\ worker[w].batch # <<>>
    /\ worker' = [worker EXCEPT ![w].at = "sending", ![w].left = Lease]
    /\ tries' = [tries EXCEPT ![Current(w).mail] = @ + 1]
    /\ UNCHANGED <<row, copies, doubt, trouble>>

BeginSend(w) ==
    /\ worker[w].at = "idle" /\ worker[w].batch # <<>>
    /\ worker' = [worker EXCEPT ![w].at = "sending", ![w].left = SendTime]
    /\ tries' = [tries EXCEPT ![Current(w).mail] = @ + 1]
    /\ UNCHANGED <<row, copies, doubt, trouble>>

\* SMTPSender.Send: the server takes the mail and says so.
ServerTakes(w) ==
    /\ worker[w].at = "sending"
    /\ worker' = [worker EXCEPT ![w].at = "taken"]
    /\ copies' = [copies EXCEPT ![Current(w).mail] = @ + 1]
    /\ UNCHANGED <<row, tries, doubt, trouble>>

\* An error at any step, the deadline, or the worker's Stop: the server has not
\* taken the mail, or has and its answer to the last line was lost.
SendFails(w) ==
    /\ worker[w].at = "sending"
    /\ worker' = [worker EXCEPT ![w].at = "refused"]
    /\ \/ UNCHANGED <<copies, doubt>>
       \/ /\ copies' = [copies EXCEPT ![Current(w).mail] = @ + 1]
          /\ doubt' = [doubt EXCEPT ![Current(w).mail] = @ + 1]
    /\ UNCHANGED <<row, tries, trouble>>

NextEntry(w) == [at |-> "idle", batch |-> Tail(worker[w].batch), left |-> 0]

Mark(w) ==
    /\ \/ worker[w].at = "taken" /\ MarkSent(Current(w).mail)
       \/ worker[w].at = "refused" /\ HandleSendFailure(Current(w))
    /\ worker' = [worker EXCEPT ![w] = NextEntry(w)]
    /\ UNCHANGED <<tries, copies, doubt, trouble>>

Doubtful(w) ==
    doubt' = IF worker[w].at = "taken" THEN [doubt EXCEPT ![Current(w).mail] = @ + 1] ELSE doubt

\* The marking fails or takes longer than its deadline; the worker goes on.
MarkLost(w) ==
    /\ worker[w].at \in {"taken", "refused"} /\ trouble < MaxTrouble
    /\ Doubtful(w)
    /\ worker' = [worker EXCEPT ![w] = NextEntry(w)]
    /\ trouble' = trouble + 1
    /\ UNCHANGED <<row, tries, copies>>

\* The process ends, or Stop ends the batch: claimed rows wait for their lease.
Crash(w) ==
    /\ worker[w] # Resting /\ trouble < MaxTrouble
    /\ Doubtful(w)
    /\ worker' = [worker EXCEPT ![w] = Resting]
    /\ trouble' = trouble + 1
    /\ UNCHANGED <<row, tries, copies>>

Less(n) == IF n = 0 THEN 0 ELSE n - 1

\* A batch runs without a pause, and a send ends before its deadline.
Tick ==
    /\ \A w \in Workers : worker[w] = Resting \/ worker[w].left > 0
    /\ row' = [m \in Mails |-> [row[m] EXCEPT !.wait = Less(@), !.lease = Less(@)]]
    /\ worker' = [w \in Workers |-> [worker[w] EXCEPT !.left = Less(@)]]
    /\ <<row, worker>>' # <<row, worker>>
    /\ UNCHANGED <<tries, copies, doubt, trouble>>

WorkerStep(w) ==
    \/ Fetch(w) \/ BeginSend(w) \/ ServerTakes(w) \/ SendFails(w) \/ Mark(w)

Next ==
    \/ \E m \in Mails : Enqueue(m)
    \/ \E w \in Workers : WorkerStep(w) \/ FetchLost(w) \/ MarkLost(w) \/ Crash(w)
    \/ Tick

\* The worker's ticker fires, its sends end, and time passes.
Spec == Init /\ [][Next]_vars /\ WF_vars(Tick) /\ \A w \in Workers : WF_vars(WorkerStep(w))

-----------------------------------------------------------------------------
(* Properties.                                                             *)

InBatch(w, m) == \E i \in 1 .. Len(worker[w].batch) : worker[w].batch[i].mail = m

\* A claim outlives the batch it belongs to: no two workers ever hold one mail,
\* and a held row is nobody's business but its holder's (GetPendingDueLimit's
\* limit of ten, its ten minutes, and the two deadlines of processOne).
HeldByOne ==
    \A w \in Workers, m \in Mails : InBatch(w, m) =>
        /\ row[m].status = "processing" /\ row[m].lease > 0
        /\ \A v \in Workers \ {w} : ~InBatch(v, m)

\* The customer gets a second copy only if the fate of a copy was lost: its
\* server's answer, its marking, or the process between the two.
SecondCopyNeedsDoubt == \A m \in Mails : copies[m] <= 1 + doubt[m]

\* The rows and the workers implement Delivery.
State == [m \in Mails |->
    IF row[m].status = "none" THEN "new"
    ELSE IF row[m].status = "sent" THEN "sent"
    ELSE IF row[m].status = "failed" THEN "dropped"
    ELSE "queued"]

Promise == INSTANCE Delivery WITH state <- State

\* At least once, never after it counts as sent, dropped only after MaxRetry
\* tries: a mail marked sent was taken by the server, whatever crashed.
KeepsPromise == Promise!DeliverySpec

\* No mail is forgotten: the lease brings back what a crash left behind.
EveryMailEnds ==
    \A m \in Mails : row[m].status = "pending" ~> row[m].status \in {"sent", "failed"}

\* A mail is in one worker's hands, and is sent again only in doubt.
OutboxSafety == TypeOK /\ HeldByOne /\ SecondCopyNeedsDoubt
=============================================================================
