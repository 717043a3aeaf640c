---------------------------- MODULE OutboxProofs ----------------------------
(***************************************************************************)
(* Proofs about Outbox, for any number of mails and of workers, any batch  *)
(* size and number of tries, and any number of crashes and lost statements.*)
(*                                                                         *)
(* The safety of the claims is a matter of time: of a batch of n mails the *)
(* k-th is begun when the lease of its claim still covers n - k + 1 sends. *)
(***************************************************************************)
EXTENDS Outbox, FiniteSetTheorems, TLAPS

MailRow == [status : {"none", "pending", "processing", "sent", "failed"},
            attempts : Nat, wait : Nat, lease : Nat]

WorkerRow == [at : {"idle", "sending", "taken", "refused"}, batch : Seq(Entry),
              left : 0 .. SendTime]

Places(w)    == 1 .. Len(worker[w].batch)
MailAt(w, i) == worker[w].batch[i].mail

\* What the mail that is being sent has used of its time.
Used(w) == IF worker[w].at = "idle" THEN 0 ELSE SendTime - worker[w].left

Slack == Lease - BatchSize * SendTime

\* The lease covers the sends that are to come, each with all its time.
LeaseFor(w) == Slack + Len(worker[w].batch) * SendTime - Used(w)

\* The rows of a batch are as the claim left them, and the batch names each once.
Claimed(w) ==
    \A i \in Places(w) :
        /\ row[MailAt(w, i)].status = "processing"
        /\ row[MailAt(w, i)].attempts = worker[w].batch[i].attempts
        /\ row[MailAt(w, i)].lease >= LeaseFor(w)
        /\ \A j \in Places(w) : MailAt(w, j) = MailAt(w, i) => j = i

\* What a worker has done with the first mail of its batch.
Sending(w) ==
    /\ worker[w].at = "idle" => worker[w].left = 0
    /\ worker[w].at # "idle" =>
          /\ worker[w].batch # <<>>
          /\ row[Current(w).mail].attempts < tries[Current(w).mail]
          /\ worker[w].at = "sending" => copies[Current(w).mail] < tries[Current(w).mail]
          /\ worker[w].at = "taken" => copies[Current(w).mail] > 0

Apart == \A w, v \in Workers : \A m \in Mails : InBatch(w, m) /\ InBatch(v, m) => w = v

Taken(m) ==
    \E w \in Workers : worker[w].at = "taken" /\ worker[w].batch # <<>> /\ Current(w).mail = m

\* No try, copy or doubt is forgotten; a copy nobody knows of is in doubt.
Counted(m) ==
    /\ row[m].attempts <= tries[m]
    /\ copies[m] <= tries[m]
    /\ copies[m] <= 1 + doubt[m]
    /\ row[m].status # "sent" /\ ~Taken(m) => copies[m] <= doubt[m]

IInv ==
    /\ TypeOK
    /\ \A w \in Workers : Claimed(w) /\ Sending(w)
    /\ Apart
    /\ \A m \in Mails : Counted(m)

-----------------------------------------------------------------------------
(* Batches and time.                                                       *)

LEMMA Types ==
    ASSUME TypeOK
    PROVE  /\ row \in [Mails -> MailRow] /\ worker \in [Workers -> WorkerRow]
           /\ tries \in [Mails -> Nat] /\ copies \in [Mails -> Nat] /\ doubt \in [Mails -> Nat]
           /\ trouble \in Nat
  BY DEF TypeOK, MailRow, WorkerRow

LEMMA RowTypes ==
    ASSUME TypeOK, NEW m \in Mails
    PROVE  /\ row[m] \in MailRow /\ row[m].attempts \in Nat /\ row[m].lease \in Nat
           /\ row[m].wait \in Nat
           /\ row[m].status \in {"none", "pending", "processing", "sent", "failed"}
           /\ tries[m] \in Nat /\ copies[m] \in Nat /\ doubt[m] \in Nat
  BY Types DEF MailRow

LEMMA WorkerTypes ==
    ASSUME TypeOK, NEW w \in Workers
    PROVE  /\ worker[w] \in WorkerRow /\ worker[w].batch \in Seq(Entry)
           /\ worker[w].left \in 0 .. SendTime
           /\ worker[w].at \in {"idle", "sending", "taken", "refused"}
           /\ Len(worker[w].batch) \in Nat
           /\ \A i \in Places(w) : worker[w].batch[i] \in Entry /\ MailAt(w, i) \in Mails
  <1>1. worker[w] \in WorkerRow
    BY Types
  <1>2. worker[w].batch \in Seq(Entry) /\ worker[w].left \in 0 .. SendTime
        /\ worker[w].at \in {"idle", "sending", "taken", "refused"}
    BY <1>1 DEF WorkerRow
  <1>3. \A i \in Places(w) : worker[w].batch[i] \in Entry
    BY <1>2 DEF Places
  <1>4. \A i \in Places(w) : MailAt(w, i) \in Mails
    BY <1>3 DEF MailAt, Entry
  <1> QED BY <1>1, <1>2, <1>3, <1>4

LEMMA BatchParts ==
    ASSUME NEW b \in Seq(Entry), b # <<>>
    PROVE  /\ 1 \in 1 .. Len(b) /\ Head(b) = b[1] /\ Head(b) \in Entry
           /\ Tail(b) \in Seq(Entry) /\ Len(Tail(b)) = Len(b) - 1
           /\ \A i \in 1 .. Len(Tail(b)) : Tail(b)[i] = b[i + 1] /\ i + 1 \in 1 .. Len(b)
  OBVIOUS

LEMMA CurrentIs ==
    ASSUME TypeOK, NEW w \in Workers, worker[w].batch # <<>>
    PROVE  /\ 1 \in Places(w) /\ Current(w) = worker[w].batch[1] /\ Current(w) \in Entry
           /\ Current(w).mail = MailAt(w, 1) /\ Current(w).mail \in Mails
           /\ Current(w).attempts \in Nat /\ InBatch(w, Current(w).mail)
  <1>1. worker[w].batch \in Seq(Entry)
    BY WorkerTypes
  <1>2. 1 \in Places(w) /\ Current(w) = worker[w].batch[1] /\ Current(w) \in Entry
    BY <1>1, BatchParts DEF Places, Current
  <1> QED BY <1>2 DEF Entry, MailAt, InBatch, Places

LEMMA Constants ==
    /\ SendTime \in Nat \ {0} /\ BatchSize \in Nat \ {0} /\ Lease \in Nat \ {0}
    /\ MaxRetry \in Nat \ {0} /\ MaxBackoff \in Nat
    /\ BatchSize * SendTime \in Nat
    /\ Slack \in Nat \ {0} /\ Slack + BatchSize * SendTime = Lease
  <1>1. SendTime \in Nat \ {0} /\ BatchSize \in Nat \ {0} /\ Lease \in Nat \ {0}
    BY OutboxAssumption
  <1>2. MaxRetry \in Nat \ {0} /\ MaxBackoff \in Nat
    BY OutboxAssumption
  <1>3. BatchSize * SendTime \in Nat /\ BatchSize * SendTime < Lease
    BY <1>1, OutboxAssumption
  <1> QED BY <1>1, <1>2, <1>3 DEF Slack

LEMMA Times ==
    ASSUME NEW n \in Nat, NEW s \in Nat
    PROVE  /\ n * s \in Nat
           /\ n >= 1 => n * s >= s /\ (n - 1) * s = n * s - s
           /\ \A k \in Nat : n <= k => n * s <= k * s
  OBVIOUS

LEMMA UsedType ==
    ASSUME TypeOK, NEW w \in Workers
    PROVE  Used(w) \in Nat /\ Used(w) <= SendTime
  BY WorkerTypes, Constants DEF Used

\* A claim is never older than its lease.
LEMMA LeaseCovers ==
    ASSUME TypeOK, NEW w \in Workers
    PROVE  /\ LeaseFor(w) \in Int
           /\ worker[w].batch # <<>> => LeaseFor(w) > 0
  <1> DEFINE n == Len(worker[w].batch)
  <1>1. n \in Nat
    BY WorkerTypes
  <1>2. worker[w].batch # <<>> => n >= 1
    BY WorkerTypes
  <1>3. n * SendTime \in Nat /\ (n >= 1 => n * SendTime >= SendTime)
    BY <1>1, Constants, Times
  <1>4. LeaseFor(w) = Slack + n * SendTime - Used(w)
    BY DEF LeaseFor
  <1> HIDE DEF n
  <1> QED BY <1>2, <1>3, <1>4, UsedType, Constants

LEMMA HeldRow ==
    ASSUME IInv, NEW w \in Workers, NEW m \in Mails, InBatch(w, m)
    PROVE  row[m].status = "processing" /\ row[m].lease > 0 /\ worker[w].batch # <<>>
  <1>1. PICK i \in Places(w) : MailAt(w, i) = m
    BY DEF InBatch, Places, MailAt
  <1>2. row[m].status = "processing" /\ row[m].lease >= LeaseFor(w)
    BY <1>1 DEF IInv, Claimed
  <1>3. worker[w].batch # <<>>
    BY <1>1, WorkerTypes DEF IInv, Places
  <1>4. LeaseFor(w) \in Int /\ LeaseFor(w) > 0 /\ row[m].lease \in Nat
    BY <1>3, LeaseCovers, RowTypes DEF IInv
  <1> QED BY <1>2, <1>3, <1>4

-----------------------------------------------------------------------------
(* What a step leaves alone.                                               *)

\* A worker keeps what it has as long as nobody touches the rows of its batch.
LEMMA WorkerKeeps ==
    ASSUME IInv, NEW v \in Workers, worker'[v] = worker[v],
           \A m \in Mails : InBatch(v, m) =>
               row'[m] = row[m] /\ tries'[m] = tries[m] /\ copies'[m] = copies[m]
    PROVE  Claimed(v)' /\ Sending(v)'
  <1>1. TypeOK /\ Claimed(v) /\ Sending(v)
    BY DEF IInv
  <1>2. /\ Places(v)' = Places(v) /\ LeaseFor(v)' = LeaseFor(v)
        /\ \A i : MailAt(v, i)' = MailAt(v, i)
    BY DEF Places, LeaseFor, Used, MailAt
  <1>3. \A i \in Places(v) : row'[MailAt(v, i)] = row[MailAt(v, i)]
    BY <1>1, WorkerTypes DEF InBatch, Places, MailAt
  <1>4. Claimed(v)'
    BY <1>1, <1>2, <1>3 DEF Claimed
  <1>5. worker[v].batch # <<>> =>
            /\ row'[Current(v).mail] = row[Current(v).mail]
            /\ tries'[Current(v).mail] = tries[Current(v).mail]
            /\ copies'[Current(v).mail] = copies[Current(v).mail]
    BY <1>1, CurrentIs
  <1>6. Current(v)' = Current(v)
    BY DEF Current
  <1>7. Sending(v)'
    BY <1>1, <1>5, <1>6 DEF Sending
  <1> QED BY <1>4, <1>7

LEMMA NotOthers ==
    ASSUME IInv, NEW w \in Workers, worker[w].batch # <<>>, NEW v \in Workers \ {w},
           NEW m \in Mails, InBatch(v, m)
    PROVE  m # Current(w).mail
  BY CurrentIs DEF IInv, Apart

LEMMA MailKeeps ==
    ASSUME IInv, NEW m \in Mails, row'[m].status = row[m].status,
           row'[m].attempts = row[m].attempts, tries'[m] = tries[m], copies'[m] = copies[m],
           doubt'[m] = doubt[m], Taken(m) => Taken(m)'
    PROVE  Counted(m)'
  BY DEF IInv, Counted

LEMMA ApartKeeps ==
    ASSUME IInv, \A v \in Workers, m \in Mails : InBatch(v, m)' => InBatch(v, m)
    PROVE  Apart'
  BY DEF IInv, Apart

\* A step of one worker that touches no row but the one it is sending.
LEMMA OneWorker ==
    ASSUME IInv, NEW w \in Workers, worker[w].batch # <<>>,
           NEW c \in Mails, c = Current(w).mail, NEW r \in WorkerRow,
           worker' = [worker EXCEPT ![w] = r],
           \A m \in Mails \ {c} : row'[m] = row[m] /\ tries'[m] = tries[m]
                                  /\ copies'[m] = copies[m] /\ doubt'[m] = doubt[m],
           \A m \in Mails : InBatch(w, m)' => InBatch(w, m),
           TypeOK', Claimed(w)', Sending(w)', Counted(c)'
    PROVE  IInv'
  <1>1. worker'[w] = r /\ \A v \in Workers \ {w} : worker'[v] = worker[v]
    BY Types DEF IInv
  <1>2. ASSUME NEW v \in Workers \ {w} PROVE Claimed(v)' /\ Sending(v)'
    <2>1. \A m \in Mails : InBatch(v, m) => m # c
      BY NotOthers
    <2> QED BY <1>1, <2>1, WorkerKeeps
  <1>3. Apart'
    <2>1. ASSUME NEW v \in Workers, NEW m \in Mails, InBatch(v, m)' PROVE InBatch(v, m)
      <3>1. CASE v = w
        BY <2>1, <3>1
      <3>2. CASE v # w
        BY <1>1, <2>1, <3>2 DEF InBatch
      <3> QED BY <3>1, <3>2
    <2> QED BY <2>1, ApartKeeps
  <1>4. ASSUME NEW m \in Mails \ {c} PROVE Counted(m)'
    <2>1. Taken(m) => Taken(m)'
      BY <1>1 DEF Taken, Current
    <2> QED BY <2>1, MailKeeps
  <1> QED BY <1>2, <1>3, <1>4 DEF IInv

-----------------------------------------------------------------------------
(* One lemma per operation.                                                *)

LEMMA RowPut ==
    ASSUME TypeOK, NEW m \in Mails, NEW r \in MailRow, row' = [row EXCEPT ![m] = r]
    PROVE  /\ row' \in [Mails -> MailRow] /\ row'[m] = r
           /\ \A o \in Mails \ {m} : row'[o] = row[o]
  BY Types

LEMMA TypeKeeps ==
    ASSUME row' \in [Mails -> MailRow], worker' \in [Workers -> WorkerRow],
           tries' \in [Mails -> Nat], copies' \in [Mails -> Nat], doubt' \in [Mails -> Nat],
           trouble' \in Nat
    PROVE  TypeOK'
  BY DEF TypeOK, MailRow, WorkerRow

LEMMA EnqueueStep ==
    ASSUME IInv, NEW m \in Mails, Enqueue(m)
    PROVE  IInv'
  <1> DEFINE r == [row[m] EXCEPT !.status = "pending"]
  <1>1. TypeOK /\ row[m] \in MailRow
    BY RowTypes DEF IInv
  <1>2. r \in MailRow /\ r.status = "pending" /\ r.attempts = row[m].attempts
    BY <1>1 DEF MailRow
  <1>3. row' = [row EXCEPT ![m] = r]
    BY <1>1, Types DEF Enqueue
  <1> HIDE DEF r
  <1>4. row' \in [Mails -> MailRow] /\ row'[m] = r /\ \A o \in Mails \ {m} : row'[o] = row[o]
    BY <1>1, <1>2, <1>3, RowPut
  <1>5. UNCHANGED <<worker, tries, copies, doubt, trouble>>
    BY DEF Enqueue
  <1>6. TypeOK'
    BY <1>1, <1>4, <1>5, Types, TypeKeeps
  <1>7. \A v \in Workers : ~InBatch(v, m)
    BY HeldRow DEF Enqueue
  <1>8. ASSUME NEW v \in Workers PROVE Claimed(v)' /\ Sending(v)'
    BY <1>4, <1>5, <1>7, WorkerKeeps
  <1>9. Apart'
    BY <1>5, ApartKeeps DEF InBatch
  <1>10. ASSUME NEW o \in Mails PROVE Counted(o)'
    <2>1. Taken(o)' = Taken(o)
      BY <1>5 DEF Taken, Current
    <2>2. CASE o = m
      <3>1. row[m].status # "sent" /\ row'[m].attempts = row[m].attempts
        BY <1>2, <1>4 DEF Enqueue
      <3> QED BY <1>5, <2>1, <2>2, <3>1 DEF IInv, Counted
    <2>3. CASE o # m
      BY <1>4, <1>5, <2>1, <2>3, MailKeeps
    <2> QED BY <2>2, <2>3
  <1> QED BY <1>6, <1>8, <1>9, <1>10 DEF IInv

\* What a claim leaves behind.
LEMMA ClaimParts ==
    ASSUME IInv, NEW S \in Batches, Claim(S)
    PROVE  /\ S \subseteq Mails /\ S # {} /\ IsFiniteSet(S)
           /\ Cardinality(S) \in Nat /\ Cardinality(S) <= BatchSize
           /\ row' \in [Mails -> MailRow]
           /\ \A m \in S : /\ Claimable(m) /\ row'[m].status = "processing"
                           /\ row'[m].lease = Lease /\ row'[m].attempts = row[m].attempts
           /\ \A m \in Mails \ S : row'[m] = row[m]
           /\ \A v \in Workers, m \in S : ~InBatch(v, m)
  <1>1. S \subseteq Mails /\ (\A m \in S : Claimable(m)) /\ S # {} /\ IsFiniteSet(S)
        /\ Cardinality(S) <= BatchSize
    BY DEF Batches
  <1>2. Cardinality(S) \in Nat
    BY <1>1, FS_CardinalityType
  <1>3. ASSUME NEW m \in Mails
        PROVE  /\ row'[m] \in MailRow
               /\ m \in S => /\ row'[m].status = "processing" /\ row'[m].lease = Lease
                             /\ row'[m].attempts = row[m].attempts
               /\ m \notin S => row'[m] = row[m]
    <2> DEFINE r == [row[m] EXCEPT !.status = "processing", !.lease = Lease]
    <2>1. row[m] \in MailRow
      BY RowTypes DEF IInv
    <2>2. r \in MailRow /\ r.status = "processing" /\ r.lease = Lease
          /\ r.attempts = row[m].attempts
      BY <2>1, Constants DEF MailRow
    <2>3. row'[m] = IF m \in S THEN r ELSE row[m]
      BY DEF Claim
    <2> HIDE DEF r
    <2> QED BY <2>1, <2>2, <2>3
  <1>4. row' \in [Mails -> MailRow]
    <2>1. row' = [m \in Mails |-> row'[m]]
      BY DEF Claim
    <2> QED BY <1>3, <2>1
  <1>5. ASSUME NEW v \in Workers, NEW m \in S PROVE ~InBatch(v, m)
    <2>1. Claimable(m) /\ m \in Mails
      BY <1>1
    <2> QED BY <2>1, HeldRow DEF Claimable
  <1> QED BY <1>1, <1>2, <1>3, <1>4, <1>5

\* Claiming a mail says nothing about its copies.
LEMMA ClaimCounted ==
    ASSUME IInv, NEW S \in Batches, Claim(S), UNCHANGED <<tries, copies, doubt>>,
           NEW m \in Mails, Taken(m) => Taken(m)'
    PROVE  Counted(m)'
  <1>1. CASE m \in S
    <2>1. row[m].status # "sent" /\ row'[m].attempts = row[m].attempts
      BY <1>1, ClaimParts DEF Claimable
    <2> QED BY <2>1 DEF IInv, Counted
  <1>2. CASE m \notin S
    BY <1>2, ClaimParts, MailKeeps
  <1> QED BY <1>1, <1>2

\* Those who hold a batch do not notice that another one is claimed.
LEMMA ClaimOthers ==
    ASSUME IInv, NEW S \in Batches, Claim(S), UNCHANGED <<tries, copies>>,
           NEW v \in Workers, worker'[v] = worker[v]
    PROVE  Claimed(v)' /\ Sending(v)'
  <1>1. \A m \in Mails : InBatch(v, m) => row'[m] = row[m]
    BY ClaimParts
  <1> QED BY <1>1, WorkerKeeps

LEMMA FetchLostStep ==
    ASSUME IInv, NEW w \in Workers, FetchLost(w)
    PROVE  IInv'
  <1>1. PICK S \in Batches : Claim(S)
    BY DEF FetchLost
  <1>2. UNCHANGED <<worker, tries, copies, doubt>> /\ trouble' = trouble + 1
    BY DEF FetchLost
  <1>3. TypeOK'
    BY <1>1, <1>2, ClaimParts, Types, TypeKeeps DEF IInv
  <1>4. \A v \in Workers : Claimed(v)' /\ Sending(v)'
    BY <1>1, <1>2, ClaimOthers
  <1>5. Apart'
    BY <1>2, ApartKeeps DEF InBatch
  <1>6. ASSUME NEW m \in Mails PROVE Counted(m)'
    <2>1. Taken(m) => Taken(m)'
      BY <1>2 DEF Taken, Current
    <2> QED BY <1>1, <1>2, <2>1, ClaimCounted
  <1> QED BY <1>3, <1>4, <1>5, <1>6 DEF IInv

LEMMA FetchStep ==
    ASSUME IInv, NEW w \in Workers, Fetch(w)
    PROVE  IInv'
  <1>1. PICK S \in Batches :
            /\ Claim(S)
            /\ \E q \in Orderings(S) :
                  worker' = [worker EXCEPT ![w].batch =
                      [i \in 1 .. Cardinality(S) |->
                          [mail |-> q[i], attempts |-> row[q[i]].attempts]]]
    BY DEF Fetch
  <1>2. PICK q \in Orderings(S) :
            worker' = [worker EXCEPT ![w].batch =
                [i \in 1 .. Cardinality(S) |->
                    [mail |-> q[i], attempts |-> row[q[i]].attempts]]]
    BY <1>1
  <1> DEFINE n == Cardinality(S)
             b == [i \in 1 .. n |-> [mail |-> q[i], attempts |-> row[q[i]].attempts]]
             r == [worker[w] EXCEPT !.batch = b]
  <1>3. /\ worker[w] = Resting /\ UNCHANGED <<tries, copies, doubt, trouble>>
        /\ TypeOK /\ worker[w] \in WorkerRow
    BY WorkerTypes DEF Fetch, IInv
  <1>4. n \in Nat /\ n <= BatchSize /\ S \subseteq Mails
    BY <1>1, ClaimParts
  <1>5. /\ \A i \in 1 .. n : q[i] \in S
        /\ \A i, j \in 1 .. n : q[i] = q[j] => i = j
    BY DEF Orderings
  <1>6. /\ b \in Seq(Entry) /\ Len(b) = n
        /\ \A i \in 1 .. n : b[i].mail = q[i] /\ b[i].attempts = row[q[i]].attempts
    <2>1. \A i \in 1 .. n : [mail |-> q[i], attempts |-> row[q[i]].attempts] \in Entry
      BY <1>3, <1>4, <1>5, RowTypes DEF Entry
    <2> QED BY <1>4, <2>1
  <1>7. worker' = [worker EXCEPT ![w] = r]
    BY <1>2, <1>3, Types
  <1> HIDE DEF b
  <1>8. r \in WorkerRow /\ r.at = "idle" /\ r.left = 0 /\ r.batch = b
    <2>1. worker[w].at = "idle" /\ worker[w].left = 0
      BY <1>3 DEF Resting
    <2> QED BY <1>3, <1>6, <2>1 DEF WorkerRow
  <1> HIDE DEF r
  <1>9. worker' \in [Workers -> WorkerRow] /\ worker'[w] = r
        /\ \A v \in Workers \ {w} : worker'[v] = worker[v]
    BY <1>3, <1>7, <1>8, Types
  <1>10. TypeOK'
    BY <1>1, <1>3, <1>9, ClaimParts, Types, TypeKeeps
  <1>11. Places(w)' = 1 .. n /\ (\A i \in 1 .. n : MailAt(w, i)' = q[i])
         /\ Used(w)' = 0
    BY <1>6, <1>8, <1>9 DEF Places, MailAt, Used
  <1>12. LeaseFor(w)' <= Lease
    <2>1. n * SendTime <= BatchSize * SendTime /\ n * SendTime \in Nat
      BY <1>4, Constants, Times
    <2>2. LeaseFor(w)' = Slack + n * SendTime - 0
      BY <1>6, <1>8, <1>9, <1>11 DEF LeaseFor, Slack
    <2> HIDE DEF n
    <2> QED BY <2>1, <2>2, Constants
  <1>13. Claimed(w)'
    <2>1. \A i \in 1 .. n :
              /\ row'[q[i]].status = "processing" /\ row'[q[i]].lease = Lease
              /\ row'[q[i]].attempts = row[q[i]].attempts
      BY <1>1, <1>5, ClaimParts
    <2>2. \A i \in 1 .. n : worker'[w].batch[i].attempts = row[q[i]].attempts
      BY <1>6, <1>8, <1>9
    <2>3. \A i \in 1 .. n : row'[q[i]].lease >= LeaseFor(w)'
      BY <1>12, <2>1
    <2> HIDE DEF n
    <2> QED BY <1>5, <1>11, <2>1, <2>2, <2>3 DEF Claimed
  <1>14. Sending(w)'
    BY <1>8, <1>9 DEF Sending
  <1>15. \A v \in Workers \ {w} : Claimed(v)' /\ Sending(v)'
    BY <1>1, <1>3, <1>9, ClaimOthers
  <1>16. Apart'
    <2>1. \A m \in Mails : InBatch(w, m)' => m \in S
      BY <1>5, <1>6, <1>8, <1>9 DEF InBatch
    <2>2. \A v \in Workers \ {w}, m \in Mails : InBatch(v, m)' <=> InBatch(v, m)
      BY <1>9 DEF InBatch
    <2>3. \A v \in Workers \ {w}, m \in Mails : InBatch(v, m)' => ~InBatch(w, m)'
      BY <1>1, <2>1, <2>2, ClaimParts
    <2> QED BY <2>2, <2>3 DEF IInv, Apart
  <1>17. ASSUME NEW m \in Mails PROVE Counted(m)'
    <2>1. Taken(m) => Taken(m)'
      BY <1>3, <1>9 DEF Taken, Current, Resting
    <2> QED BY <1>1, <1>3, <2>1, ClaimCounted
  <1> QED BY <1>10, <1>13, <1>14, <1>15, <1>16, <1>17 DEF IInv

\* The mail that is being sent, as the invariant knows it.
LEMMA CurrentRow ==
    ASSUME IInv, NEW w \in Workers, worker[w].batch # <<>>, NEW c \in Mails, c = Current(w).mail
    PROVE  /\ row[c].status = "processing" /\ row[c].attempts = Current(w).attempts
           /\ row[c].attempts <= tries[c] /\ copies[c] <= tries[c] /\ copies[c] <= 1 + doubt[c]
           /\ worker[w].at # "taken" => copies[c] <= doubt[c]
           /\ \A v \in Workers : worker[v].batch # <<>> /\ Current(v).mail = c => v = w
  <1>1. /\ 1 \in Places(w) /\ MailAt(w, 1) = c /\ Current(w) = worker[w].batch[1]
        /\ InBatch(w, c)
    BY CurrentIs DEF IInv
  <1>2. row[c].status = "processing" /\ row[c].attempts = Current(w).attempts
    BY <1>1 DEF IInv, Claimed
  <1>3. \A v \in Workers : worker[v].batch # <<>> /\ Current(v).mail = c => v = w
    BY <1>1, CurrentIs DEF IInv, Apart
  <1>4. worker[w].at # "taken" => ~Taken(c)
    BY <1>3 DEF Taken
  <1> QED BY <1>2, <1>3, <1>4 DEF IInv, Counted

\* A worker that goes on with the mail it has.
LEMMA SameBatch ==
    ASSUME IInv, NEW w \in Workers, UNCHANGED row, worker'[w].batch = worker[w].batch,
           Used(w)' \in Nat, Used(w) <= Used(w)'
    PROVE  /\ Claimed(w)' /\ Current(w)' = Current(w)
           /\ \A m \in Mails : InBatch(w, m)' => InBatch(w, m)
  <1>1. /\ Places(w)' = Places(w) /\ Current(w)' = Current(w)
        /\ \A i : MailAt(w, i)' = MailAt(w, i)
    BY DEF Places, MailAt, Current
  <1>2. LeaseFor(w)' \in Int /\ LeaseFor(w)' <= LeaseFor(w) /\ LeaseFor(w) \in Int
    <2> DEFINE long == Len(worker[w].batch) * SendTime
    <2>1. long \in Nat
      BY WorkerTypes, Constants, Times DEF IInv
    <2>2. LeaseFor(w) = Slack + long - Used(w) /\ LeaseFor(w)' = Slack + long - Used(w)'
      BY DEF LeaseFor, Slack
    <2> HIDE DEF long
    <2> QED BY <2>1, <2>2, UsedType, Constants DEF IInv
  <1>3. \A i \in Places(w) : MailAt(w, i) \in Mails /\ row[MailAt(w, i)].lease \in Nat
    BY WorkerTypes, RowTypes DEF IInv
  <1>4. \A i \in Places(w) : row[MailAt(w, i)].lease >= LeaseFor(w)'
    BY <1>2, <1>3 DEF IInv, Claimed
  <1>5. Claimed(w)'
    BY <1>1, <1>4 DEF IInv, Claimed
  <1> QED BY <1>1, <1>5 DEF InBatch

\* A worker that has done with its first mail, or puts its batch down.
LEMMA NextBatch ==
    ASSUME IInv, NEW w \in Workers, worker[w].batch # <<>>,
           NEW c \in Mails, c = Current(w).mail,
           \A m \in Mails \ {c} : row'[m] = row[m],
           worker'[w] = NextEntry(w) \/ worker'[w] = Resting
    PROVE  /\ worker'[w] \in WorkerRow /\ Claimed(w)' /\ Sending(w)'
           /\ \A m \in Mails : InBatch(w, m)' => InBatch(w, m)
  <1>1. TypeOK /\ Claimed(w) /\ worker[w].batch \in Seq(Entry) /\ worker[w].left \in 0 .. SendTime
    BY WorkerTypes DEF IInv
  <1>2. CASE worker'[w] = Resting
    <2>1. worker'[w] \in WorkerRow
      BY <1>2, Constants DEF Resting, WorkerRow
    <2>2. Places(w)' = {}
      BY <1>2 DEF Places, Resting
    <2> QED BY <1>2, <2>1, <2>2 DEF Claimed, Sending, InBatch, Places, Resting
  <1>3. CASE worker'[w] = NextEntry(w)
    <2> DEFINE t == Tail(worker[w].batch)
    <2>1. /\ t \in Seq(Entry) /\ Len(t) = Len(worker[w].batch) - 1
          /\ \A i \in 1 .. Len(t) :
                t[i] = worker[w].batch[i + 1] /\ i + 1 \in 1 .. Len(worker[w].batch)
      BY <1>1, BatchParts
    <2>2. worker'[w].batch = t /\ worker'[w].at = "idle" /\ worker'[w].left = 0
      BY <1>3 DEF NextEntry
    <2>3. worker'[w] \in WorkerRow
      BY <1>3, <2>1, Constants DEF NextEntry, WorkerRow
    <2> HIDE DEF t
    <2>4. /\ Places(w)' = 1 .. Len(t)
          /\ \A i \in 1 .. Len(t) :
                /\ MailAt(w, i)' = MailAt(w, i + 1) /\ i + 1 \in Places(w)
                /\ worker'[w].batch[i].attempts = worker[w].batch[i + 1].attempts
      BY <2>1, <2>2 DEF Places, MailAt
    <2>5. LeaseFor(w)' \in Int /\ LeaseFor(w)' <= LeaseFor(w) /\ LeaseFor(w) \in Int
      <3> DEFINE n == Len(worker[w].batch)
                 long == n * SendTime
      <3>1. n \in Nat /\ n >= 1
        BY <1>1, BatchParts
      <3>2. long \in Nat /\ (n - 1) * SendTime = long - SendTime
        BY <3>1, Constants, Times
      <3>3. Used(w)' = 0
        BY <2>2 DEF Used
      <3>4. LeaseFor(w) = Slack + long - Used(w)
        BY DEF LeaseFor
      <3>5. LeaseFor(w)' = Slack + (n - 1) * SendTime - 0
        BY <2>1, <2>2, <3>3 DEF LeaseFor, Slack
      <3> HIDE DEF n, long
      <3>6. LeaseFor(w)' = Slack + long - SendTime
        BY <3>2, <3>5, Constants
      <3>7. Used(w) \in Nat /\ Used(w) <= SendTime /\ Slack \in Int /\ SendTime \in Nat
        BY <1>1, UsedType, Constants
      <3> QED BY <3>2, <3>4, <3>6, <3>7
    <2>6. \A i \in 1 .. Len(t) : MailAt(w, i + 1) \in Mails \ {c}
      <3>1. 1 \in Places(w) /\ MailAt(w, 1) = c
        BY <1>1, CurrentIs
      <3>2. ASSUME NEW i \in 1 .. Len(t) PROVE MailAt(w, i + 1) # c
        <4>1. i + 1 \in Places(w)
          BY <2>4
        <4>2. i + 1 # 1
          OBVIOUS
        <4> QED BY <1>1, <3>1, <4>1, <4>2 DEF Claimed
      <3> QED BY <1>1, <2>4, <3>2, WorkerTypes
    <2>7. \A i \in 1 .. Len(t) : row'[MailAt(w, i + 1)] = row[MailAt(w, i + 1)]
                                 /\ row[MailAt(w, i + 1)].lease \in Nat
      BY <1>1, <2>6, RowTypes
    <2>8. ASSUME NEW i \in 1 .. Len(t)
          PROVE  /\ row'[MailAt(w, i)'].status = "processing"
                 /\ row'[MailAt(w, i)'].attempts = worker'[w].batch[i].attempts
                 /\ row'[MailAt(w, i)'].lease >= LeaseFor(w)'
      <3>1. MailAt(w, i)' = MailAt(w, i + 1) /\ i + 1 \in Places(w)
        BY <2>4
      <3>2. /\ row[MailAt(w, i + 1)].status = "processing"
            /\ row[MailAt(w, i + 1)].attempts = worker[w].batch[i + 1].attempts
            /\ row[MailAt(w, i + 1)].lease >= LeaseFor(w)
        BY <1>1, <3>1 DEF Claimed
      <3> QED BY <2>4, <2>5, <2>7, <3>1, <3>2
    <2>9. ASSUME NEW i \in 1 .. Len(t), NEW j \in 1 .. Len(t), MailAt(w, j)' = MailAt(w, i)'
          PROVE  j = i
      <3>1. i + 1 \in Places(w) /\ j + 1 \in Places(w) /\ MailAt(w, j + 1) = MailAt(w, i + 1)
        BY <2>4, <2>9
      <3>2. j + 1 = i + 1
        BY <1>1, <3>1 DEF Claimed
      <3> QED BY <2>1, <3>2
    <2>10. Claimed(w)'
      BY <2>4, <2>8, <2>9 DEF Claimed
    <2>11. Sending(w)'
      BY <2>2 DEF Sending
    <2>12. ASSUME NEW m \in Mails, InBatch(w, m)' PROVE InBatch(w, m)
      <3>1. PICK i \in 1 .. Len(t) : MailAt(w, i)' = m
        BY <2>2, <2>12 DEF InBatch, MailAt
      <3>2. i + 1 \in Places(w) /\ MailAt(w, i + 1) = m
        BY <2>4, <3>1
      <3> QED BY <3>2 DEF InBatch, Places, MailAt
    <2> QED BY <2>3, <2>10, <2>11, <2>12
  <1> QED BY <1>2, <1>3

LEMMA BumpOne ==
    ASSUME NEW f \in [Mails -> Nat], NEW c \in Mails
    PROVE  LET g == [f EXCEPT ![c] = @ + 1]
           IN  g \in [Mails -> Nat] /\ g[c] = f[c] + 1 /\ \A m \in Mails \ {c} : g[m] = f[m]
  OBVIOUS

LEMMA WorkerPut ==
    ASSUME TypeOK, NEW w \in Workers, NEW r \in WorkerRow, worker' = [worker EXCEPT ![w] = r]
    PROVE  worker' \in [Workers -> WorkerRow] /\ worker'[w] = r
  BY Types

LEMMA BeginSendStep ==
    ASSUME IInv, NEW w \in Workers, BeginSend(w)
    PROVE  IInv'
  <1> DEFINE r == [worker[w] EXCEPT !.at = "sending", !.left = SendTime]
  <1>1. /\ TypeOK /\ Sending(w) /\ worker[w].at = "idle" /\ worker[w].batch # <<>>
        /\ UNCHANGED <<row, copies, doubt, trouble>>
    BY DEF IInv, BeginSend
  <1>2. PICK c \in Mails : c = Current(w).mail
    BY <1>1, CurrentIs
  <1>3. r \in WorkerRow /\ r.at = "sending" /\ r.left = SendTime /\ r.batch = worker[w].batch
    <2>1. worker[w] \in WorkerRow /\ SendTime \in 0 .. SendTime
      BY <1>1, WorkerTypes, Constants
    <2> QED BY <2>1 DEF WorkerRow
  <1>4. worker' = [worker EXCEPT ![w] = r]
    BY <1>1, Types DEF BeginSend
  <1> HIDE DEF r
  <1>5. worker' \in [Workers -> WorkerRow] /\ worker'[w] = r
    BY <1>1, <1>3, <1>4, WorkerPut
  <1>6. tries' \in [Mails -> Nat] /\ tries'[c] = tries[c] + 1
        /\ \A m \in Mails \ {c} : tries'[m] = tries[m]
    BY <1>1, <1>2, Types, BumpOne DEF BeginSend
  <1>7. TypeOK'
    BY <1>1, <1>5, <1>6, Types, TypeKeeps
  <1>8. Used(w) = 0 /\ Used(w)' = 0
    BY <1>1, <1>3, <1>5, Constants DEF Used
  <1>9. /\ Claimed(w)' /\ Current(w)' = Current(w)
        /\ \A m \in Mails : InBatch(w, m)' => InBatch(w, m)
    BY <1>1, <1>3, <1>5, <1>8, SameBatch
  <1>10. /\ row[c].attempts \in Nat /\ tries[c] \in Nat /\ copies[c] \in Nat /\ doubt[c] \in Nat
         /\ row[c].attempts <= tries[c] /\ copies[c] <= tries[c] /\ copies[c] <= doubt[c]
    BY <1>1, <1>2, CurrentRow, RowTypes
  <1>11. Sending(w)'
    BY <1>1, <1>2, <1>3, <1>5, <1>6, <1>9, <1>10 DEF Sending
  <1>12. Counted(c)'
    BY <1>1, <1>6, <1>10 DEF Counted
  <1> QED BY <1>1, <1>2, <1>3, <1>4, <1>6, <1>7, <1>9, <1>11, <1>12, OneWorker

LEMMA ServerTakesStep ==
    ASSUME IInv, NEW w \in Workers, ServerTakes(w)
    PROVE  IInv'
  <1> DEFINE r == [worker[w] EXCEPT !.at = "taken"]
  <1>1. /\ TypeOK /\ Sending(w) /\ worker[w].at = "sending" /\ worker[w].batch # <<>>
        /\ UNCHANGED <<row, tries, doubt, trouble>>
    BY DEF IInv, ServerTakes, Sending
  <1>2. PICK c \in Mails : c = Current(w).mail
    BY <1>1, CurrentIs
  <1>3. r \in WorkerRow /\ r.at = "taken" /\ r.left = worker[w].left /\ r.batch = worker[w].batch
    BY <1>1, WorkerTypes, Constants DEF WorkerRow
  <1>4. worker' = [worker EXCEPT ![w] = r]
    BY <1>1, Types DEF ServerTakes
  <1> HIDE DEF r
  <1>5. worker' \in [Workers -> WorkerRow] /\ worker'[w] = r
    BY <1>1, <1>3, <1>4, WorkerPut
  <1>6. copies' \in [Mails -> Nat] /\ copies'[c] = copies[c] + 1
        /\ \A m \in Mails \ {c} : copies'[m] = copies[m]
    BY <1>1, <1>2, Types, BumpOne DEF ServerTakes
  <1>7. TypeOK'
    BY <1>1, <1>5, <1>6, Types, TypeKeeps
  <1>8. Used(w)' = Used(w) /\ Used(w) \in Nat
    BY <1>1, <1>3, <1>5, UsedType DEF Used
  <1>9. /\ Claimed(w)' /\ Current(w)' = Current(w)
        /\ \A m \in Mails : InBatch(w, m)' => InBatch(w, m)
    BY <1>1, <1>3, <1>5, <1>8, SameBatch
  <1>10. /\ row[c].attempts \in Nat /\ tries[c] \in Nat /\ copies[c] \in Nat /\ doubt[c] \in Nat
         /\ row[c].attempts < tries[c] /\ copies[c] < tries[c] /\ copies[c] <= doubt[c]
    BY <1>1, <1>2, CurrentRow, RowTypes DEF Sending
  <1>11. Sending(w)'
    BY <1>1, <1>2, <1>3, <1>5, <1>6, <1>9, <1>10 DEF Sending
  <1>12. Taken(c)'
    BY <1>1, <1>2, <1>3, <1>5, <1>9 DEF Taken
  <1>13. Counted(c)'
    BY <1>1, <1>6, <1>10, <1>12 DEF Counted
  <1> QED BY <1>1, <1>2, <1>3, <1>4, <1>6, <1>7, <1>9, <1>11, <1>13, OneWorker

LEMMA SendFailsStep ==
    ASSUME IInv, NEW w \in Workers, SendFails(w)
    PROVE  IInv'
  <1> DEFINE r == [worker[w] EXCEPT !.at = "refused"]
  <1>1. /\ TypeOK /\ Sending(w) /\ worker[w].at = "sending" /\ worker[w].batch # <<>>
        /\ UNCHANGED <<row, tries, trouble>>
    BY DEF IInv, SendFails, Sending
  <1>2. PICK c \in Mails : c = Current(w).mail
    BY <1>1, CurrentIs
  <1>3. r \in WorkerRow /\ r.at = "refused" /\ r.left = worker[w].left /\ r.batch = worker[w].batch
    BY <1>1, WorkerTypes, Constants DEF WorkerRow
  <1>4. worker' = [worker EXCEPT ![w] = r]
    BY <1>1, Types DEF SendFails
  <1> HIDE DEF r
  <1>5. worker' \in [Workers -> WorkerRow] /\ worker'[w] = r
    BY <1>1, <1>3, <1>4, WorkerPut
  <1>6. /\ copies' \in [Mails -> Nat] /\ doubt' \in [Mails -> Nat]
        /\ \A m \in Mails \ {c} : copies'[m] = copies[m] /\ doubt'[m] = doubt[m]
        /\ \/ copies'[c] = copies[c] /\ doubt'[c] = doubt[c]
           \/ copies'[c] = copies[c] + 1 /\ doubt'[c] = doubt[c] + 1
    <2>1. CASE UNCHANGED <<copies, doubt>>
      BY <1>1, <2>1, Types
    <2>2. CASE /\ copies' = [copies EXCEPT ![Current(w).mail] = @ + 1]
               /\ doubt' = [doubt EXCEPT ![Current(w).mail] = @ + 1]
      <3>1. copies' \in [Mails -> Nat] /\ copies'[c] = copies[c] + 1
            /\ \A m \in Mails \ {c} : copies'[m] = copies[m]
        BY <1>1, <1>2, <2>2, Types, BumpOne
      <3>2. doubt' \in [Mails -> Nat] /\ doubt'[c] = doubt[c] + 1
            /\ \A m \in Mails \ {c} : doubt'[m] = doubt[m]
        BY <1>1, <1>2, <2>2, Types, BumpOne
      <3> QED BY <3>1, <3>2
    <2> QED BY <2>1, <2>2 DEF SendFails
  <1>7. TypeOK'
    BY <1>1, <1>5, <1>6, Types, TypeKeeps
  <1>8. Used(w)' = Used(w) /\ Used(w) \in Nat
    BY <1>1, <1>3, <1>5, UsedType DEF Used
  <1>9. /\ Claimed(w)' /\ Current(w)' = Current(w)
        /\ \A m \in Mails : InBatch(w, m)' => InBatch(w, m)
    BY <1>1, <1>3, <1>5, <1>8, SameBatch
  <1>10. /\ row[c].attempts \in Nat /\ tries[c] \in Nat /\ copies[c] \in Nat /\ doubt[c] \in Nat
         /\ row[c].attempts < tries[c] /\ copies[c] < tries[c] /\ copies[c] <= doubt[c]
    BY <1>1, <1>2, CurrentRow, RowTypes DEF Sending
  <1>11. Sending(w)'
    BY <1>1, <1>2, <1>3, <1>5, <1>9, <1>10 DEF Sending
  <1>12. Counted(c)'
    BY <1>1, <1>6, <1>10 DEF Counted
  <1> QED BY <1>1, <1>2, <1>3, <1>4, <1>6, <1>7, <1>9, <1>11, <1>12, OneWorker

LEMMA BackoffType ==
    ASSUME NEW n \in Nat
    PROVE  Backoff(n) \in Nat
  <1>1. CASE 2 ^ n \in 0 .. MaxBackoff
    BY <1>1, Constants DEF Backoff
  <1>2. CASE 2 ^ n \notin 0 .. MaxBackoff
    BY <1>2, Constants DEF Backoff
  <1> QED BY <1>1, <1>2

LEMMA RetryRow ==
    ASSUME NEW q \in MailRow, NEW d \in Nat
    PROVE  LET r == [q EXCEPT !.status = "pending", !.wait = d, !.attempts = @ + 1]
           IN  r \in MailRow /\ r.status = "pending" /\ r.attempts = q.attempts + 1
  <1>1. q.attempts + 1 \in Nat
    BY DEF MailRow
  <1> DEFINE a == q.attempts + 1
  <1> HIDE DEF a
  <1>2. a \in Nat
    BY <1>1 DEF a
  <1>3. LET r == [q EXCEPT !.status = "pending", !.wait = d, !.attempts = a]
        IN  r \in MailRow /\ r.status = "pending" /\ r.attempts = a
    BY <1>2 DEF MailRow
  <1> QED BY <1>3 DEF a

\* What the marking does to the row of the mail that was sent, or was not.
LEMMA MarkParts ==
    ASSUME IInv, NEW w \in Workers, Mark(w), NEW c \in Mails, c = Current(w).mail
    PROVE  /\ worker[w].batch # <<>> /\ row' \in [Mails -> MailRow]
           /\ \A m \in Mails \ {c} : row'[m] = row[m]
           /\ \/ /\ worker[w].at = "taken" /\ row'[c].status = "sent"
                 /\ row'[c].attempts = row[c].attempts
              \/ /\ worker[w].at = "refused" /\ row'[c].status = "pending"
                 /\ row'[c].attempts = row[c].attempts + 1
              \/ /\ worker[w].at = "refused" /\ row'[c].status = "failed"
                 /\ row'[c].attempts = row[c].attempts /\ row[c].attempts + 1 >= MaxRetry
  <1>1. TypeOK /\ Sending(w) /\ worker[w].at \in {"taken", "refused"}
    BY DEF IInv, Mark
  <1>2. worker[w].batch # <<>>
    BY <1>1 DEF Sending
  <1>3. row[c].status = "processing" /\ row[c].attempts = Current(w).attempts
        /\ row[c] \in MailRow /\ row[c].attempts \in Nat
    BY <1>1, <1>2, CurrentRow, RowTypes
  <1>4. CASE worker[w].at = "taken"
    <2> DEFINE r == [row[c] EXCEPT !.status = "sent"]
    <2>1. MarkSent(c)
      BY <1>4 DEF Mark
    <2>2. row' = [row EXCEPT ![c] = r]
      BY <1>1, <1>3, <2>1, Types DEF MarkSent
    <2>3. r \in MailRow /\ r.status = "sent" /\ r.attempts = row[c].attempts
      BY <1>3 DEF MailRow
    <2> HIDE DEF r
    <2>4. row' \in [Mails -> MailRow] /\ row'[c] = r /\ \A o \in Mails \ {c} : row'[o] = row[o]
      BY <1>1, <2>2, <2>3, RowPut
    <2> QED BY <1>2, <1>4, <2>3, <2>4
  <1>5. CASE worker[w].at = "refused" /\ Current(w).attempts + 1 >= MaxRetry
    <2> DEFINE r == [row[c] EXCEPT !.status = "failed"]
    <2>1. MarkPermanentFailure(c)
      BY <1>5 DEF Mark, HandleSendFailure
    <2>2. row' = [row EXCEPT ![c] = r]
      BY <1>1, <1>3, <2>1, Types DEF MarkPermanentFailure
    <2>3. r \in MailRow /\ r.status = "failed" /\ r.attempts = row[c].attempts
      BY <1>3 DEF MailRow
    <2> HIDE DEF r
    <2>4. row' \in [Mails -> MailRow] /\ row'[c] = r /\ \A o \in Mails \ {c} : row'[o] = row[o]
      BY <1>1, <2>2, <2>3, RowPut
    <2> QED BY <1>2, <1>3, <1>5, <2>3, <2>4
  <1>6. CASE worker[w].at = "refused" /\ ~(Current(w).attempts + 1 >= MaxRetry)
    <2> DEFINE d == Backoff(Current(w).attempts)
               r == [row[c] EXCEPT !.status = "pending", !.wait = d, !.attempts = @ + 1]
    <2>1. MarkFailed(c, d)
      BY <1>6 DEF Mark, HandleSendFailure
    <2>2. d \in Nat
      BY <1>3, BackoffType
    <2> HIDE DEF d
    <2>3. row' = [row EXCEPT ![c] = r]
      <3>1. row' = [row EXCEPT ![c].status = "pending", ![c].wait = d, ![c].attempts = @ + 1]
        BY <1>3, <2>1 DEF MarkFailed
      <3> QED BY <1>1, <1>3, <3>1, Types DEF MailRow
    <2>4. r \in MailRow /\ r.status = "pending" /\ r.attempts = row[c].attempts + 1
      BY <1>3, <2>2, RetryRow
    <2> HIDE DEF r
    <2>5. row' \in [Mails -> MailRow] /\ row'[c] = r /\ \A o \in Mails \ {c} : row'[o] = row[o]
      BY <1>1, <2>3, <2>4, RowPut
    <2> QED BY <1>2, <1>6, <2>4, <2>5
  <1> QED BY <1>1, <1>4, <1>5, <1>6

LEMMA MarkStep ==
    ASSUME IInv, NEW w \in Workers, Mark(w)
    PROVE  IInv'
  <1>1. /\ TypeOK /\ Sending(w) /\ worker[w].batch # <<>>
        /\ UNCHANGED <<tries, copies, doubt, trouble>>
        /\ worker' = [worker EXCEPT ![w] = NextEntry(w)]
    BY DEF IInv, Mark, Sending
  <1>2. PICK c \in Mails : c = Current(w).mail
    BY <1>1, CurrentIs
  <1> DEFINE r == NextEntry(w)
  <1>3. worker'[w] = r
    BY <1>1, Types
  <1>4. row' \in [Mails -> MailRow] /\ \A m \in Mails \ {c} : row'[m] = row[m]
    BY <1>2, MarkParts
  <1>5. /\ worker'[w] \in WorkerRow /\ Claimed(w)' /\ Sending(w)'
        /\ \A m \in Mails : InBatch(w, m)' => InBatch(w, m)
    BY <1>1, <1>2, <1>3, <1>4, NextBatch
  <1>6. worker' \in [Workers -> WorkerRow]
    BY <1>1, <1>3, <1>5, WorkerPut
  <1>7. TypeOK'
    BY <1>1, <1>4, <1>6, Types, TypeKeeps
  <1>8. /\ row[c].attempts \in Nat /\ tries[c] \in Nat /\ copies[c] \in Nat /\ doubt[c] \in Nat
        /\ row[c].attempts < tries[c] /\ copies[c] <= tries[c] /\ copies[c] <= 1 + doubt[c]
        /\ worker[w].at = "refused" => copies[c] <= doubt[c]
    <2>1. worker[w].at \in {"taken", "refused"}
      BY DEF Mark
    <2> QED BY <1>1, <1>2, <2>1, CurrentRow, RowTypes DEF Sending
  <1>9. row'[c].attempts <= tries[c] /\ (row'[c].status # "sent" => copies[c] <= doubt[c])
    BY <1>2, <1>8, MarkParts
  <1>10. Counted(c)'
    BY <1>1, <1>8, <1>9 DEF Counted
  <1> HIDE DEF r
  <1> QED BY <1>1, <1>2, <1>3, <1>4, <1>5, <1>7, <1>10, OneWorker

\* The copy of which nobody heard is in doubt, whoever has the row next.
LEMMA DoubtParts ==
    ASSUME IInv, NEW w \in Workers, worker[w].batch # <<>>, Doubtful(w),
           UNCHANGED <<row, tries, copies>>, NEW c \in Mails, c = Current(w).mail
    PROVE  /\ doubt' \in [Mails -> Nat] /\ \A m \in Mails \ {c} : doubt'[m] = doubt[m]
           /\ Counted(c)'
  <1>1. TypeOK /\ Counted(c)
    BY DEF IInv
  <1>2. /\ row[c].attempts \in Nat /\ tries[c] \in Nat /\ copies[c] \in Nat /\ doubt[c] \in Nat
        /\ worker[w].at # "taken" => copies[c] <= doubt[c]
    BY <1>1, CurrentRow, RowTypes
  <1>3. CASE worker[w].at = "taken"
    <2>1. doubt' \in [Mails -> Nat] /\ doubt'[c] = doubt[c] + 1
          /\ \A m \in Mails \ {c} : doubt'[m] = doubt[m]
      BY <1>1, <1>3, Types, BumpOne DEF Doubtful
    <2> QED BY <1>1, <1>2, <2>1 DEF Counted
  <1>4. CASE worker[w].at # "taken"
    BY <1>1, <1>2, <1>4, Types DEF Doubtful, Counted
  <1> QED BY <1>3, <1>4

\* MarkLost and Crash.
LEMMA LoseStep ==
    ASSUME IInv, NEW w \in Workers, worker[w].batch # <<>>, Doubtful(w),
           NEW r, r = NextEntry(w) \/ r = Resting, worker' = [worker EXCEPT ![w] = r],
           trouble' = trouble + 1, UNCHANGED <<row, tries, copies>>
    PROVE  IInv'
  <1>1. TypeOK
    BY DEF IInv
  <1>2. PICK c \in Mails : c = Current(w).mail
    BY <1>1, CurrentIs
  <1>3. worker'[w] = r
    BY <1>1, Types
  <1>4. /\ r \in WorkerRow /\ Claimed(w)' /\ Sending(w)'
        /\ \A m \in Mails : InBatch(w, m)' => InBatch(w, m)
    BY <1>2, <1>3, NextBatch
  <1>5. worker' \in [Workers -> WorkerRow]
    BY <1>1, <1>4, WorkerPut
  <1>6. /\ doubt' \in [Mails -> Nat] /\ \A m \in Mails \ {c} : doubt'[m] = doubt[m]
        /\ Counted(c)'
    BY <1>2, DoubtParts
  <1>7. TypeOK'
    BY <1>1, <1>5, <1>6, Types, TypeKeeps
  <1> QED BY <1>2, <1>4, <1>6, <1>7, OneWorker

LEMMA MarkLostStep ==
    ASSUME IInv, NEW w \in Workers, MarkLost(w)
    PROVE  IInv'
  <1>1. worker[w].batch # <<>>
    BY DEF IInv, Sending, MarkLost
  <1> QED BY <1>1, LoseStep DEF MarkLost

LEMMA CrashStep ==
    ASSUME IInv, NEW w \in Workers, Crash(w)
    PROVE  IInv'
  <1>1. worker[w].batch # <<>>
    <2>1. SUFFICES ASSUME worker[w].batch = <<>> PROVE FALSE
      OBVIOUS
    <2>2. worker[w].at = "idle" /\ worker[w].left = 0 /\ worker[w] \in WorkerRow
      BY <2>1, WorkerTypes DEF IInv, Sending
    <2>3. worker[w] = Resting
      BY <2>1, <2>2 DEF WorkerRow, Resting
    <2> QED BY <2>3 DEF Crash
  <1> QED BY <1>1, LoseStep DEF Crash

LEMMA TickRows ==
    ASSUME IInv, Tick
    PROVE  /\ row' \in [Mails -> MailRow] /\ worker' \in [Workers -> WorkerRow]
           /\ \A m \in Mails : /\ row'[m].status = row[m].status
                               /\ row'[m].attempts = row[m].attempts
                               /\ row[m].lease > 0 => row'[m].lease = row[m].lease - 1
           /\ \A w \in Workers : /\ worker'[w].at = worker[w].at
                                 /\ worker'[w].batch = worker[w].batch
                                 /\ worker'[w].left = Less(worker[w].left)
  <1>1. TypeOK
    BY DEF IInv
  <1>2. /\ row' = [m \in Mails |-> [row[m] EXCEPT !.wait = Less(@), !.lease = Less(@)]]
        /\ worker' = [w \in Workers |-> [worker[w] EXCEPT !.left = Less(@)]]
    BY DEF Tick
  <1>3. ASSUME NEW m \in Mails
        PROVE  /\ row'[m] \in MailRow /\ row'[m].status = row[m].status
               /\ row'[m].attempts = row[m].attempts
               /\ row[m].lease > 0 => row'[m].lease = row[m].lease - 1
    <2> DEFINE a == Less(row[m].wait)
               b == Less(row[m].lease)
    <2>1. row[m] \in MailRow /\ a \in Nat /\ b \in Nat
          /\ (row[m].lease > 0 => b = row[m].lease - 1)
      BY <1>1, RowTypes DEF Less
    <2>2. row'[m] = [row[m] EXCEPT !.wait = a, !.lease = b]
      BY <1>2
    <2> HIDE DEF a, b
    <2> QED BY <2>1, <2>2 DEF MailRow
  <1>4. ASSUME NEW w \in Workers
        PROVE  /\ worker'[w] \in WorkerRow /\ worker'[w].at = worker[w].at
               /\ worker'[w].batch = worker[w].batch
               /\ worker'[w].left = Less(worker[w].left)
    <2> DEFINE a == Less(worker[w].left)
    <2>1. worker[w] \in WorkerRow /\ a \in 0 .. SendTime
      BY <1>1, WorkerTypes, Constants DEF Less
    <2>2. worker'[w] = [worker[w] EXCEPT !.left = a]
      BY <1>2
    <2>3. worker'[w] \in WorkerRow /\ worker'[w].at = worker[w].at
          /\ worker'[w].batch = worker[w].batch /\ worker'[w].left = a
      <3> HIDE DEF a
      <3> QED BY <2>1, <2>2 DEF WorkerRow
    <2> QED BY <2>3
  <1>5. row' \in [Mails -> MailRow]
    <2>1. row' = [m \in Mails |-> row'[m]]
      BY <1>2
    <2> QED BY <1>3, <2>1
  <1>6. worker' \in [Workers -> WorkerRow]
    <2>1. worker' = [w \in Workers |-> worker'[w]]
      BY <1>2
    <2> QED BY <1>4, <2>1
  <1> QED BY <1>3, <1>4, <1>5, <1>6

LEMMA TickStep ==
    ASSUME IInv, Tick
    PROVE  IInv'
  <1>1. TypeOK /\ UNCHANGED <<tries, copies, doubt, trouble>>
    BY DEF IInv, Tick
  <1>2. TypeOK'
    BY <1>1, TickRows, Types, TypeKeeps
  <1>3. ASSUME NEW w \in Workers PROVE Claimed(w)' /\ Sending(w)'
    <2>1. /\ Places(w)' = Places(w) /\ Current(w)' = Current(w)
          /\ \A i : MailAt(w, i)' = MailAt(w, i)
      BY TickRows DEF Places, Current, MailAt
    <2>2. Claimed(w) /\ Sending(w) /\ worker[w].left \in 0 .. SendTime
      BY <1>1, WorkerTypes DEF IInv
    <2>3. Sending(w)'
      <3>1. worker[w].left = 0 => worker'[w].left = 0
        BY TickRows DEF Less
      <3>2. worker[w].batch # <<>> => Current(w).mail \in Mails
        BY <1>1, CurrentIs
      <3> QED BY <1>1, <2>1, <2>2, <3>1, <3>2, TickRows DEF Sending
    <2>4. CASE worker[w] = Resting
      <3>1. Places(w)' = {}
        BY <2>1, <2>4 DEF Places, Resting
      <3> QED BY <2>3, <3>1 DEF Claimed
    <2>5. CASE worker[w] # Resting
      <3>1. worker[w].left > 0 /\ worker[w].at # "idle"
        <4>1. worker[w] = Resting \/ worker[w].left > 0
          BY DEF Tick
        <4>2. worker[w].at = "idle" => worker[w].left = 0
          BY <2>2 DEF Sending
        <4> QED BY <2>2, <2>5, <4>1, <4>2
      <3>2. worker'[w].left = worker[w].left - 1 /\ worker'[w].at = worker[w].at
            /\ worker'[w].batch = worker[w].batch
        BY <2>2, <3>1, TickRows DEF Less
      <3>3. LeaseFor(w)' = LeaseFor(w) - 1
        <4> DEFINE long == Len(worker[w].batch) * SendTime
        <4>1. long \in Nat
          BY <1>1, WorkerTypes, Constants, Times
        <4>2. Used(w) = SendTime - worker[w].left
              /\ Used(w)' = SendTime - (worker[w].left - 1)
          BY <3>1, <3>2 DEF Used
        <4>3. LeaseFor(w) = Slack + long - Used(w) /\ LeaseFor(w)' = Slack + long - Used(w)'
          BY <3>2 DEF LeaseFor, Slack
        <4> HIDE DEF long
        <4> QED BY <2>2, <4>1, <4>2, <4>3, Constants
      <3>4. LeaseFor(w) \in Int /\ LeaseFor(w) > 0
        BY <1>1, <2>2, <3>1, LeaseCovers DEF Sending
      <3>5. ASSUME NEW i \in Places(w)
            PROVE  row'[MailAt(w, i)].lease >= LeaseFor(w)'
        <4>1. MailAt(w, i) \in Mails /\ row[MailAt(w, i)].lease \in Nat
          BY <1>1, WorkerTypes, RowTypes
        <4>2. row[MailAt(w, i)].lease >= LeaseFor(w)
          BY <2>2 DEF Claimed
        <4>3. row'[MailAt(w, i)].lease = row[MailAt(w, i)].lease - 1
          BY <3>4, <4>1, <4>2, TickRows
        <4> QED BY <3>3, <3>4, <4>1, <4>2, <4>3
      <3>6. \A i \in Places(w) : MailAt(w, i) \in Mails
        BY <1>1, WorkerTypes
      <3>7. Claimed(w)'
        BY <2>1, <2>2, <3>2, <3>5, <3>6, TickRows DEF Claimed
      <3> QED BY <2>3, <3>7
    <2> QED BY <2>4, <2>5
  <1>4. Apart'
    <2>1. \A v \in Workers, m \in Mails : InBatch(v, m)' => InBatch(v, m)
      BY TickRows DEF InBatch
    <2> QED BY <2>1, ApartKeeps
  <1>5. ASSUME NEW m \in Mails PROVE Counted(m)'
    <2>1. Taken(m) => Taken(m)'
      BY TickRows DEF Taken, Current
    <2> QED BY <1>1, <2>1, TickRows, MailKeeps
  <1> QED BY <1>2, <1>3, <1>4, <1>5 DEF IInv

LEMMA InitHolds == Init => IInv
  <1> SUFFICES ASSUME Init PROVE IInv
    OBVIOUS
  <1>1. TypeOK
    BY Constants DEF Init, TypeOK, NoRow, Resting
  <1>2. \A w \in Workers : worker[w].batch = <<>> /\ worker[w].at = "idle" /\ worker[w].left = 0
    BY DEF Init, Resting
  <1>3. \A w \in Workers : Claimed(w) /\ Sending(w)
    BY <1>2 DEF Claimed, Sending, Places
  <1>4. Apart
    BY <1>2 DEF Apart, InBatch
  <1>5. \A m \in Mails : Counted(m)
    BY DEF Init, Counted, NoRow
  <1> QED BY <1>1, <1>3, <1>4, <1>5 DEF IInv

-----------------------------------------------------------------------------
(* Theorems.                                                               *)

LEMMA StepHolds == IInv /\ [Next]_vars => IInv'
  <1> SUFFICES ASSUME IInv, [Next]_vars PROVE IInv'
    OBVIOUS
  <1>1. ASSUME NEW m \in Mails, Enqueue(m) PROVE IInv'
    BY <1>1, EnqueueStep
  <1>2. ASSUME NEW w \in Workers, WorkerStep(w) PROVE IInv'
    BY <1>2, FetchStep, BeginSendStep, ServerTakesStep, SendFailsStep, MarkStep DEF WorkerStep
  <1>3. ASSUME NEW w \in Workers, FetchLost(w) \/ MarkLost(w) \/ Crash(w) PROVE IInv'
    BY <1>3, FetchLostStep, MarkLostStep, CrashStep
  <1>4. CASE Tick
    BY <1>4, TickStep
  <1>5. CASE UNCHANGED vars
    <2>1. UNCHANGED row /\ UNCHANGED worker /\ UNCHANGED tries /\ UNCHANGED copies
          /\ UNCHANGED doubt /\ UNCHANGED trouble
      BY <1>5 DEF vars
    <2>2. TypeOK'
      BY <2>1 DEF IInv, TypeOK
    <2>3. \A w \in Workers : Claimed(w)' /\ Sending(w)'
      BY <2>1, WorkerKeeps
    <2>4. Apart'
      BY <2>1, ApartKeeps DEF InBatch
    <2>5. \A m \in Mails : Counted(m)'
      BY <2>1 DEF IInv, Counted, Taken, Current
    <2> QED BY <2>2, <2>3, <2>4, <2>5 DEF IInv
  <1> QED BY <1>1, <1>2, <1>3, <1>4, <1>5 DEF Next

LEMMA Invariant == Spec => []IInv
  BY InitHolds, StepHolds, PTL DEF Spec

\* Of the claims of FetchAndLock, the ten minutes and the deadlines of
\* processOne, for every number of workers: nobody sends a mail another one
\* has, and no customer gets a second copy unless the fate of a copy was lost.
THEOREM MailIsHeldByOne == Spec => []OutboxSafety
  <1>1. IInv => OutboxSafety
    <2> SUFFICES ASSUME IInv PROVE OutboxSafety
      OBVIOUS
    <2>1. TypeOK
      BY DEF IInv
    <2>2. ASSUME NEW w \in Workers, NEW m \in Mails, InBatch(w, m)
          PROVE  /\ row[m].status = "processing" /\ row[m].lease > 0
                 /\ \A v \in Workers \ {w} : ~InBatch(v, m)
      BY <2>2, HeldRow DEF IInv, Apart
    <2>3. SecondCopyNeedsDoubt
      BY DEF IInv, Counted, SecondCopyNeedsDoubt
    <2> QED BY <2>1, <2>2, <2>3 DEF OutboxSafety, HeldByOne
  <1> QED BY <1>1, Invariant, PTL

-----------------------------------------------------------------------------
(* The promise of Delivery.                                                *)

Stands(s) == CASE s = "none" -> "new" [] s = "sent" -> "sent" [] s = "failed" -> "dropped"
               [] s \in {"pending", "processing"} -> "queued"

LEMMA StatesAre ==
    ASSUME NEW q \in [Mails -> MailRow]
    PROVE  [m \in Mails |->
                IF q[m].status = "none" THEN "new"
                ELSE IF q[m].status = "sent" THEN "sent"
                ELSE IF q[m].status = "failed" THEN "dropped"
                ELSE "queued"]
           = [m \in Mails |-> Stands(q[m].status)]
  <1>1. \A m \in Mails : q[m].status \in {"none", "pending", "processing", "sent", "failed"}
    BY DEF MailRow
  <1> QED BY <1>1 DEF Stands

LEMMA StateIs ==
    ASSUME TypeOK
    PROVE  State = [m \in Mails |-> Stands(row[m].status)]
  BY Types, StatesAre DEF State

LEMMA StateBecomes ==
    ASSUME TypeOK'
    PROVE  State' = [m \in Mails |-> Stands(row'[m].status)]
  <1>1. row' \in [Mails -> MailRow]
    BY DEF TypeOK, MailRow
  <1> QED BY <1>1, StatesAre DEF State

LEMMA StateMoves ==
    ASSUME TypeOK, TypeOK', NEW c \in Mails,
           \A m \in Mails \ {c} : row'[m].status = row[m].status
    PROVE  State' = [State EXCEPT ![c] = Stands(row'[c].status)]
  <1>1. State = [m \in Mails |-> Stands(row[m].status)]
    BY StateIs
  <1>2. State' = [m \in Mails |-> Stands(row'[m].status)]
    BY StateBecomes
  <1> QED BY <1>1, <1>2

LEMMA StateStays ==
    ASSUME TypeOK, TypeOK', \A m \in Mails : Stands(row'[m].status) = Stands(row[m].status)
    PROVE  State' = State
  <1>1. State = [m \in Mails |-> Stands(row[m].status)]
    BY StateIs
  <1>2. State' = [m \in Mails |-> Stands(row'[m].status)]
    BY StateBecomes
  <1> QED BY <1>1, <1>2

LEMMA QueuedState ==
    ASSUME IInv, NEW w \in Workers, worker[w].batch # <<>>, NEW c \in Mails, c = Current(w).mail
    PROVE  State[c] = "queued"
  <1>1. row[c].status = "processing"
    BY CurrentRow
  <1> QED BY <1>1, StateIs DEF IInv, Stands

LEMMA EnqueueQueues ==
    ASSUME IInv, IInv', NEW m \in Mails, Enqueue(m)
    PROVE  Promise!Queue(m)
  <1>1. TypeOK /\ TypeOK' /\ row[m] \in MailRow
    BY RowTypes DEF IInv
  <1>2. row'[m].status = "pending" /\ \A o \in Mails \ {m} : row'[o].status = row[o].status
    <2> DEFINE r == [row[m] EXCEPT !.status = "pending"]
    <2>1. r \in MailRow /\ r.status = "pending"
      BY <1>1 DEF MailRow
    <2>2. row' = [row EXCEPT ![m] = r]
      BY <1>1, Types DEF Enqueue
    <2> HIDE DEF r
    <2> QED BY <1>1, <2>1, <2>2, RowPut
  <1>3. State' = [State EXCEPT ![m] = "queued"]
    BY <1>1, <1>2, StateMoves DEF Stands
  <1>4. State[m] = "new"
    BY <1>1, StateIs DEF Enqueue, Stands
  <1> QED BY <1>3, <1>4 DEF Promise!Queue, Promise!Become, Enqueue

LEMMA BeginSendTries ==
    ASSUME IInv, NEW w \in Workers, BeginSend(w), NEW c \in Mails, c = Current(w).mail
    PROVE  Promise!Try(c)
  <1>1. State[c] = "queued"
    BY QueuedState DEF BeginSend
  <1> QED BY <1>1 DEF Promise!Try, BeginSend, State

LEMMA SendHandsOver ==
    ASSUME IInv, NEW w \in Workers, worker[w].at = "sending", NEW c \in Mails,
           c = Current(w).mail, UNCHANGED <<row, tries>>,
           copies' = [copies EXCEPT ![Current(w).mail] = @ + 1]
    PROVE  Promise!HandOver(c)
  <1>1. worker[w].batch # <<>> /\ copies[c] < tries[c]
    BY DEF IInv, Sending
  <1>2. State[c] = "queued"
    BY <1>1, QueuedState
  <1> QED BY <1>1, <1>2 DEF Promise!HandOver, State

LEMMA MarkEnds ==
    ASSUME IInv, IInv', NEW w \in Workers, Mark(w), NEW c \in Mails, c = Current(w).mail
    PROVE  [Promise!DeliveryNext]_(Promise!deliveryVars)
  <1>1. TypeOK /\ TypeOK' /\ UNCHANGED <<tries, copies>> /\ Sending(w)
    BY DEF IInv, Mark
  <1>2. worker[w].batch # <<>> /\ \A m \in Mails \ {c} : row'[m].status = row[m].status
    BY MarkParts
  <1>3. State[c] = "queued" /\ row[c].status = "processing"
    BY <1>2, QueuedState, CurrentRow
  <1>4. row[c].attempts \in Nat /\ tries[c] \in Nat /\ copies[c] \in Nat
    BY <1>1, RowTypes
  <1>5. CASE worker[w].at = "taken" /\ row'[c].status = "sent"
    <2>1. copies[c] > 0
      BY <1>1, <1>5 DEF Sending
    <2>2. State' = [State EXCEPT ![c] = "sent"]
      BY <1>1, <1>2, <1>5, StateMoves DEF Stands
    <2>3. Promise!Finish(c)
      BY <1>1, <1>3, <2>1, <2>2 DEF Promise!Finish, Promise!Become
    <2> QED BY <2>3 DEF Promise!DeliveryNext
  <1>6. CASE worker[w].at = "refused" /\ row'[c].status = "failed" /\ row[c].attempts + 1 >= MaxRetry
    <2>1. tries[c] >= MaxRetry
      BY <1>1, <1>4, <1>6, Constants DEF Sending
    <2>2. State' = [State EXCEPT ![c] = "dropped"]
      BY <1>1, <1>2, <1>6, StateMoves DEF Stands
    <2>3. Promise!Drop(c)
      BY <1>1, <1>3, <2>1, <2>2 DEF Promise!Drop, Promise!Become
    <2> QED BY <2>3 DEF Promise!DeliveryNext
  <1>7. CASE row'[c].status = "pending"
    <2>1. State' = State
      BY <1>1, <1>2, <1>3, <1>7, StateStays DEF Stands
    <2> QED BY <1>1, <2>1 DEF Promise!deliveryVars
  <1> QED BY <1>5, <1>6, <1>7, MarkParts

\* A claim takes queued mails and leaves them queued.
LEMMA ClaimStutters ==
    ASSUME IInv, IInv', NEW S \in Batches, Claim(S)
    PROVE  State' = State
  <1>1. \A m \in Mails : Stands(row'[m].status) = Stands(row[m].status)
    <2>1. \A m \in S : row'[m].status = "processing" /\ Claimable(m)
      BY ClaimParts
    <2>2. \A m \in Mails \ S : row'[m] = row[m]
      BY ClaimParts
    <2> QED BY <2>1, <2>2 DEF Claimable, Stands
  <1> QED BY <1>1, StateStays DEF IInv

LEMMA StepDelivers ==
    ASSUME IInv, IInv', [Next]_vars
    PROVE  [Promise!DeliveryNext]_(Promise!deliveryVars)
  <1>1. ASSUME NEW m \in Mails, Enqueue(m) PROVE Promise!DeliveryNext
    BY <1>1, EnqueueQueues DEF Promise!DeliveryNext
  <1>2. ASSUME NEW w \in Workers, worker[w].at # "idle" \/ BeginSend(w)
        PROVE  worker[w].batch # <<>> /\ \E c \in Mails : c = Current(w).mail
    BY <1>2, CurrentIs DEF IInv, Sending, BeginSend
  <1>3. ASSUME NEW w \in Workers, WorkerStep(w)
        PROVE  [Promise!DeliveryNext]_(Promise!deliveryVars)
    <2>1. CASE Fetch(w)
      <3>1. State' = State
        BY <2>1, ClaimStutters DEF Fetch
      <3> QED BY <2>1, <3>1 DEF Fetch, Promise!deliveryVars
    <2>2. CASE BeginSend(w)
      BY <1>2, <2>2, BeginSendTries DEF Promise!DeliveryNext
    <2>3. CASE ServerTakes(w)
      <3>1. PICK c \in Mails : c = Current(w).mail
        BY <1>2, <2>3 DEF ServerTakes
      <3>2. Promise!HandOver(c)
        BY <2>3, <3>1, SendHandsOver DEF ServerTakes
      <3> QED BY <3>2 DEF Promise!DeliveryNext
    <2>4. CASE SendFails(w)
      <3>1. PICK c \in Mails : c = Current(w).mail
        BY <1>2, <2>4 DEF SendFails
      <3>2. CASE UNCHANGED copies
        BY <2>4, <3>2 DEF SendFails, State, Promise!deliveryVars
      <3>3. CASE copies' = [copies EXCEPT ![Current(w).mail] = @ + 1]
        <4>1. Promise!HandOver(c)
          BY <2>4, <3>1, <3>3, SendHandsOver DEF SendFails
        <4> QED BY <4>1 DEF Promise!DeliveryNext
      <3> QED BY <2>4, <3>2, <3>3 DEF SendFails
    <2>5. CASE Mark(w)
      BY <1>2, <2>5, MarkEnds DEF Mark
    <2> QED BY <1>3, <2>1, <2>2, <2>3, <2>4, <2>5 DEF WorkerStep
  <1>4. ASSUME NEW w \in Workers, FetchLost(w) PROVE UNCHANGED Promise!deliveryVars
    <2>1. State' = State
      BY <1>4, ClaimStutters DEF FetchLost
    <2> QED BY <1>4, <2>1 DEF FetchLost, Promise!deliveryVars
  <1>5. ASSUME NEW w \in Workers, MarkLost(w) \/ Crash(w) PROVE UNCHANGED Promise!deliveryVars
    BY <1>5 DEF MarkLost, Crash, State, Promise!deliveryVars
  <1>6. CASE Tick
    <2>1. State' = State
      BY <1>6, TickRows, StateStays DEF IInv
    <2> QED BY <1>6, <2>1 DEF Tick, Promise!deliveryVars
  <1>7. CASE UNCHANGED vars
    BY <1>7 DEF vars, State, Promise!deliveryVars
  <1> QED BY <1>1, <1>3, <1>4, <1>5, <1>6, <1>7 DEF Next

\* Whatever is lost and whoever crashes, the rows and the workers do what
\* Delivery promises: a mail counts as sent only when a server took it, it is
\* not sent again after that, and it is dropped only after MaxRetry tries.
THEOREM OutboxDelivers == Spec => KeepsPromise
  <1>1. Init => Promise!DeliveryInit
    BY DEF Init, NoRow, State, Promise!DeliveryInit
  <1>2. IInv /\ IInv' /\ [Next]_vars => [Promise!DeliveryNext]_(Promise!deliveryVars)
    BY StepDelivers
  <1> QED BY <1>1, <1>2, Invariant, PTL DEF Spec, KeepsPromise, Promise!DeliverySpec
=============================================================================
