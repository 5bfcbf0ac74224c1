---------------------------- MODULE OutboxProofs ----------------------------
(***************************************************************************)
(* What holds of the outbox for every number of rows, dispatchers, retries *)
(* and crashes.                                                            *)
(*                                                                         *)
(* A row may be handed over only by a dispatcher that claimed it, and may  *)
(* be claimed only while it is queued.  So what is counted per row is the  *)
(* times it was handed over, the dispatchers that still hold it and        *)
(* whether it is queued: together they never exceed the times it was put   *)
(* in the queue.                                                           *)
(***************************************************************************)
EXTENDS Outbox, FiniteSetTheorems, TLAPS

Holders(l) == {w \in Dispatchers : l \in batch[w]}

QueuedNow(l) == IF log[l].status = "queued" THEN 1 ELSE 0

Accounted(l) ==
    handed[l] + Cardinality(Holders(l)) + QueuedNow(l) <= 1 + requeued[l]

\* A dispatcher that is not sending holds nothing.
HandsEmpty ==
    \A w \in Dispatchers : pc[w] # "sending" => batch[w] = {} /\ posting[w] = None

\* Nothing has happened yet to a row that is not there.
AbsentIsFresh ==
    \A l \in Logs : log[l] = Absent =>
        /\ handed[l] = 0 /\ requeued[l] = 0
        /\ \A w \in Dispatchers : ~Owns(w, l)

\* A row in the queue has not been attempted since it was put there.
QueuedIsUntried ==
    \A l \in Logs \ Spare : log[l].status = "queued" => log[l].attempts = 0

\* A row is never attempted twice: only a retry by hand queues it again, and
\* that starts the count over.
OneAttempt == \A l \in Logs \ Spare : log[l].attempts <= 1

\* Nobody has anything left to say of a row in the queue that was never retried.
UnretriedIsFree ==
    \A l \in Logs : log[l].status = "queued" /\ requeued[l] = 0
                     => \A w \in Dispatchers : ~Owns(w, l)

OutboxInv ==
    /\ TypeOK
    /\ HandsEmpty
    /\ AbsentIsFresh
    /\ QueuedIsUntried
    /\ OneAttempt
    /\ UnretriedIsFree
    /\ SendingIsOwned
    /\ \A l \in Logs : Accounted(l)
-----------------------------------------------------------------------------
(* Counting holders *)

\* The dispatchers that hold a row can be counted.
LEMMA HoldersFinite ==
  ASSUME NEW l \in Logs
  PROVE  IsFiniteSet(Holders(l)) /\ Cardinality(Holders(l)) \in Nat
<1>1. Holders(l) \in SUBSET Dispatchers /\ IsFiniteSet(Dispatchers)
  BY OutboxAssumption DEF Holders
<1>2. IsFiniteSet(Holders(l))
  BY <1>1, FS_Subset
<1>3. QED
  BY <1>2, FS_CardinalityType

\* A step that neither claims a row nor hands it over nor queues it keeps its
\* account.
LEMMA QuietRow ==
  ASSUME NEW l \in Logs, Accounted(l), TypeOK,
         batch' = batch, handed'[l] = handed[l], requeued'[l] = requeued[l],
         log'[l].status = "queued" => log[l].status = "queued"
  PROVE  Accounted(l)'
<1>1. Holders(l)' = Holders(l)
  BY DEF Holders
<1>2. QueuedNow(l)' <= QueuedNow(l) /\ QueuedNow(l) \in 0..1 /\ QueuedNow(l)' \in 0..1
  BY DEF QueuedNow
<1>3. Cardinality(Holders(l)) \in Nat /\ handed[l] \in Nat /\ requeued[l] \in Nat
  BY HoldersFinite DEF TypeOK
<1>4. QED
  BY <1>1, <1>2, <1>3 DEF Accounted

\* An entry is told from the absence of one by its status.
LEMMA EntriesArePresent == Absent \notin Entries
BY DEF Absent, Entries, LogStatuses
-----------------------------------------------------------------------------
(* Each action keeps the invariant *)

\* No row, no dispatcher at work: the invariant holds.
LEMMA InitInv == Init => OutboxInv
<1>1. ASSUME Init
      PROVE  OutboxInv
  <2>1. TypeOK
    BY <1>1, OutboxAssumption DEF Init, TypeOK, Steps
  <2>2. HandsEmpty /\ AbsentIsFresh
    BY <1>1 DEF Init, HandsEmpty, AbsentIsFresh, Owns
  <2>3. QueuedIsUntried /\ OneAttempt /\ SendingIsOwned
    BY <1>1 DEF Init, QueuedIsUntried, OneAttempt, SendingIsOwned, Spare, Absent
  <2>4. ASSUME NEW l \in Logs
        PROVE  Accounted(l)
    <3>1. Holders(l) = {}
      BY <1>1 DEF Init, Holders
    <3>2. Cardinality(Holders(l)) = 0
      BY <3>1, FS_EmptySet
    <3>3. QueuedNow(l) = 0
      BY <1>1 DEF Init, QueuedNow, Absent
    <3>4. QED
      BY <1>1, <3>2, <3>3 DEF Init, Accounted
  <2>5. UnretriedIsFree
    BY <1>1 DEF Init, UnretriedIsFree, Absent
  <2>6. QED
    BY <2>1, <2>2, <2>3, <2>4, <2>5 DEF OutboxInv
<1>2. QED
  BY <1>1

\* A row that is inserted was not there: nobody holds it and nothing was
\* counted.
LEMMA InsertKeepsInv ==
  ASSUME OutboxInv, NEW s \in Subjects, NEW scheduled \in Nat,
         InsertLog(s, scheduled),
         UNCHANGED <<batch, posting, today, handed, requeued, crashes, pc>>,
         todo' \in [Dispatchers -> SUBSET Reminders]
  PROVE  OutboxInv'
<1> DEFINE entry == [about |-> s, status |-> "queued", attempts |-> 0,
                     created |-> today, scheduled |-> scheduled]
<1>1. PICK l \in Spare : log' = [log EXCEPT ![l] = entry]
  BY DEF InsertLog
<1>2. l \in Logs /\ log[l] = Absent
  BY <1>1 DEF Spare
<1>3. entry \in Entries /\ entry # Absent
  BY EntriesArePresent DEF OutboxInv, TypeOK, Entries, LogStatuses
<1>4. log'[l] = entry /\ \A k \in Logs \ {l} : log'[k] = log[k]
  BY <1>1, <1>2 DEF OutboxInv, TypeOK
<1>5. TypeOK'
  BY <1>1, <1>2, <1>3 DEF OutboxInv, TypeOK
<1>6. HandsEmpty'
  BY DEF OutboxInv, HandsEmpty
<1>7. AbsentIsFresh'
  BY <1>3, <1>4 DEF OutboxInv, AbsentIsFresh, Owns
<1>8. QueuedIsUntried' /\ OneAttempt'
  BY <1>4 DEF OutboxInv, QueuedIsUntried, OneAttempt, Spare
<1>9. SendingIsOwned'
  BY <1>4 DEF OutboxInv, SendingIsOwned, Owns
<1>10. Accounted(l)'
  <2>1. Holders(l)' = {}
    BY <1>2 DEF OutboxInv, AbsentIsFresh, Owns, Holders
  <2>2. Cardinality(Holders(l)') = 0
    BY <2>1, FS_EmptySet
  <2>3. QueuedNow(l)' = 1 /\ handed'[l] = 0 /\ requeued'[l] = 0
    BY <1>2, <1>4 DEF OutboxInv, AbsentIsFresh, QueuedNow
  <2>4. Cardinality(Holders(l))' = Cardinality(Holders(l)')
    OBVIOUS
  <2>5. QED
    BY <2>2, <2>3, <2>4 DEF Accounted
<1>11. \A k \in Logs \ {l} : Accounted(k)'
  BY <1>4, QuietRow DEF OutboxInv
<1>12. UnretriedIsFree'
  BY <1>2, <1>4 DEF OutboxInv, AbsentIsFresh, UnretriedIsFree, Owns
<1>13. QED
  BY <1>5, <1>6, <1>7, <1>8, <1>9, <1>10, <1>11, <1>12 DEF OutboxInv

\* A scan, and the passing of a day, leave the rows and their holders alone.
LEMMA ScanKeepsInv ==
  ASSUME OutboxInv, NEW w \in Dispatchers, NEW due \in SUBSET Reminders,
         Scan(w, due)
  PROVE  OutboxInv'
<1>1. TypeOK'
  BY DEF OutboxInv, TypeOK, Scan, Steps
<1>2. HandsEmpty'
  BY DEF OutboxInv, TypeOK, HandsEmpty, Scan
<1>3. AbsentIsFresh' /\ SendingIsOwned' /\ UnretriedIsFree'
  BY DEF OutboxInv, AbsentIsFresh, SendingIsOwned, UnretriedIsFree, Owns, Scan
<1>4. QueuedIsUntried' /\ OneAttempt'
  BY DEF OutboxInv, QueuedIsUntried, OneAttempt, Spare, Scan
<1>5. ASSUME NEW k \in Logs
      PROVE  Accounted(k)'
  BY QuietRow DEF OutboxInv, Scan
<1>6. QED
  BY <1>1, <1>2, <1>3, <1>4, <1>5 DEF OutboxInv

\* A day passes.
LEMMA NextDayKeepsInv ==
  ASSUME OutboxInv, NextDay
  PROVE  OutboxInv'
<1>1. TypeOK'
  BY DEF OutboxInv, TypeOK, NextDay, worker
<1>2. HandsEmpty' /\ AbsentIsFresh' /\ SendingIsOwned' /\ UnretriedIsFree'
  BY DEF OutboxInv, HandsEmpty, AbsentIsFresh, SendingIsOwned, UnretriedIsFree, Owns,
         NextDay, worker
<1>3. QueuedIsUntried' /\ OneAttempt'
  BY DEF OutboxInv, QueuedIsUntried, OneAttempt, Spare, NextDay
<1>4. ASSUME NEW k \in Logs
      PROVE  Accounted(k)'
  BY QuietRow DEF OutboxInv, NextDay, worker
<1>5. QED
  BY <1>1, <1>2, <1>3, <1>4 DEF OutboxInv

\* What is claimed was queued, and whoever claims it held nothing: one more
\* holder, one row less in the queue.
LEMMA ClaimKeepsInv ==
  ASSUME OutboxInv, NEW w \in Dispatchers, NEW S \in SUBSET Logs,
         pc[w] # "sending", \A l \in S : Ripe(l), Claim(w, S)
  PROVE  OutboxInv'
<1>1. batch[w] = {} /\ posting[w] = None
  BY DEF OutboxInv, HandsEmpty
<1>2. \A l \in S : /\ log[l] # Absent /\ log[l] \in Entries
                   /\ log[l].status = "queued" /\ log[l].attempts = 0
  BY DEF Ripe, Absent, OutboxInv, TypeOK, QueuedIsUntried, Spare
<1>3. \A l \in S : /\ log'[l] \in Entries /\ log'[l] # Absent
                   /\ log'[l].status = "sending" /\ log'[l].attempts = 1
  <2>1. ASSUME NEW l \in S
        PROVE  /\ log'[l] \in Entries /\ log'[l] # Absent
               /\ log'[l].status = "sending" /\ log'[l].attempts = 1
    <3>1. log'[l] = [log[l] EXCEPT !.status = "sending", !.attempts = @ + 1]
      BY DEF Claim, Claimed
    <3>2. log[l] \in Entries /\ log[l].attempts = 0
      BY <1>2
    <3>3. log'[l] \in Entries
      <4>1. PICK e \in Entries : log[l] = e
        BY <3>2
      <4>2. "sending" \in LogStatuses /\ e.attempts + 1 \in Nat
        BY <3>2, <4>1 DEF LogStatuses
      <4>3. QED
        BY <3>1, <4>1, <4>2 DEF Entries
    <3>4. log'[l].status = "sending" /\ log'[l].attempts = 1
      BY <3>1, <3>2 DEF Entries
    <3>5. QED
      BY <3>3, <3>4, EntriesArePresent
  <2>2. QED
    BY <2>1
<1>4. \A l \in Logs \ S : log'[l] = log[l]
  BY DEF Claim
<1>5. batch' = [batch EXCEPT ![w] = S] /\ posting' = posting
  BY DEF Claim
<1>6. TypeOK'
  <2>1. log' \in [Logs -> Entries \cup {Absent}]
    BY <1>3, <1>4 DEF Claim, OutboxInv, TypeOK
  <2>2. QED
    BY <2>1 DEF Claim, OutboxInv, TypeOK, Steps
<1>7. HandsEmpty'
  BY <1>1 DEF Claim, OutboxInv, TypeOK, HandsEmpty
<1>8. AbsentIsFresh'
  <2>1. ASSUME NEW l \in Logs \ S, NEW e \in Dispatchers, Owns(e, l)'
        PROVE  Owns(e, l)
    BY <1>5, <2>1 DEF Owns, OutboxInv, TypeOK
  <2>2. ASSUME NEW l \in Logs, log'[l] = Absent
        PROVE  l \notin S /\ log[l] = Absent
    BY <1>3, <1>4, <2>2
  <2>3. QED
    BY <2>1, <2>2 DEF Claim, OutboxInv, AbsentIsFresh
<1>9. QueuedIsUntried' /\ OneAttempt'
  BY <1>3, <1>4 DEF OutboxInv, QueuedIsUntried, OneAttempt, Spare
<1>10. SendingIsOwned'
  <2>1. ASSUME NEW l \in S
        PROVE  Owns(w, l)'
    BY <1>5 DEF Owns, OutboxInv, TypeOK
  <2>2. ASSUME NEW l \in Logs \ S, NEW e \in Dispatchers, Owns(e, l)
        PROVE  Owns(e, l)'
    BY <1>1, <1>5, <2>2 DEF Owns, OutboxInv, TypeOK
  <2>3. QED
    BY <1>4, <2>1, <2>2 DEF Claim, OutboxInv, SendingIsOwned
<1>11. ASSUME NEW l \in S
       PROVE  Accounted(l)'
  <2>1. Holders(l)' = Holders(l) \cup {w} /\ w \notin Holders(l)
    BY <1>1, <1>5 DEF Holders, OutboxInv, TypeOK
  <2>2. Cardinality(Holders(l) \cup {w}) = Cardinality(Holders(l)) + 1
    BY <2>1, HoldersFinite, FS_AddElement
  <2>3. QueuedNow(l) = 1 /\ QueuedNow(l)' = 0
    BY <1>2, <1>3 DEF QueuedNow
  <2>4. Cardinality(Holders(l)) \in Nat /\ handed[l] \in Nat /\ requeued[l] \in Nat
    BY HoldersFinite DEF OutboxInv, TypeOK
  <2>5. handed' = handed /\ requeued' = requeued
    BY DEF Claim
  <2>6. Accounted(l)
    BY DEF OutboxInv
  <2>7. QED
    BY <2>1, <2>2, <2>3, <2>4, <2>5, <2>6 DEF Accounted
<1>12. ASSUME NEW l \in Logs \ S
       PROVE  Accounted(l)'
  <2>1. Holders(l)' = Holders(l)
    BY <1>1, <1>5 DEF Holders, OutboxInv, TypeOK
  <2>2. QueuedNow(l)' = QueuedNow(l)
    BY <1>4 DEF QueuedNow
  <2>3. QED
    BY <2>1, <2>2 DEF Claim, OutboxInv, Accounted
<1>13. UnretriedIsFree'
  <2>1. ASSUME NEW l \in Logs \ S, NEW e \in Dispatchers, Owns(e, l)'
        PROVE  Owns(e, l)
    BY <1>5, <2>1 DEF Owns, OutboxInv, TypeOK
  <2>2. QED
    BY <1>3, <1>4, <2>1 DEF Claim, OutboxInv, UnretriedIsFree
<1>14. QED
  BY <1>6, <1>7, <1>8, <1>9, <1>10, <1>11, <1>12, <1>13 DEF OutboxInv

\* Handing a row over gives up the hold on it.
LEMMA HandOverKeepsInv ==
  ASSUME OutboxInv, NEW w \in Dispatchers, NEW l \in Logs, NEW taken \in BOOLEAN,
         NEW status \in {"sent", "failed"}, HandOver(w, l, taken, status)
  PROVE  OutboxInv'
<1>1. /\ l \in batch[w] /\ posting[w] = None /\ pc[w] = "sending"
      /\ batch' = [batch EXCEPT ![w] = @ \ {l}]
      /\ posting' = [posting EXCEPT ![w] = [log |-> l, status |-> status]]
  BY DEF HandOver
<1>2. [log |-> l, status |-> status] # None
  BY OutboxAssumption
<1>3. log[l] # Absent
  BY <1>1 DEF OutboxInv, AbsentIsFresh, Owns
<1>4. TypeOK'
  BY DEF HandOver, OutboxInv, TypeOK
<1>5. HandsEmpty'
  BY <1>1 DEF HandOver, OutboxInv, TypeOK, HandsEmpty
<1>6. ASSUME NEW e \in Dispatchers, NEW k \in Logs
      PROVE  Owns(e, k)' <=> Owns(e, k)
  BY <1>1, <1>2 DEF OutboxInv, TypeOK, Owns
<1>7. AbsentIsFresh'
  BY <1>3, <1>6 DEF HandOver, OutboxInv, TypeOK, AbsentIsFresh
<1>8. QueuedIsUntried' /\ OneAttempt'
  BY DEF HandOver, OutboxInv, QueuedIsUntried, OneAttempt, Spare
<1>9. SendingIsOwned' /\ UnretriedIsFree'
  BY <1>6 DEF HandOver, OutboxInv, SendingIsOwned, UnretriedIsFree
<1>10. Accounted(l)'
  <2>1. Holders(l)' = Holders(l) \ {w} /\ w \in Holders(l)
    BY <1>1 DEF Holders, OutboxInv, TypeOK
  <2>2. Cardinality(Holders(l) \ {w}) = Cardinality(Holders(l)) - 1
    BY <2>1, HoldersFinite, FS_RemoveElement
  <2>3. /\ QueuedNow(l)' = QueuedNow(l) /\ requeued' = requeued
        /\ handed'[l] <= handed[l] + 1 /\ handed'[l] \in Nat
    BY DEF HandOver, QueuedNow, OutboxInv, TypeOK
  <2>4. /\ Cardinality(Holders(l)) \in Nat /\ handed[l] \in Nat
        /\ requeued[l] \in Nat /\ QueuedNow(l) \in Nat
    BY HoldersFinite DEF OutboxInv, TypeOK, QueuedNow
  <2>5. Accounted(l)
    BY DEF OutboxInv
  <2>6. QED
    BY <2>1, <2>2, <2>3, <2>4, <2>5 DEF Accounted
<1>11. ASSUME NEW k \in Logs \ {l}
       PROVE  Accounted(k)'
  <2>1. Holders(k)' = Holders(k)
    BY <1>1 DEF Holders, OutboxInv, TypeOK
  <2>2. QED
    BY <2>1 DEF HandOver, OutboxInv, TypeOK, Accounted, QueuedNow
<1>12. QED
  BY <1>4, <1>5, <1>7, <1>8, <1>9, <1>10, <1>11 DEF OutboxInv

\* Rewriting the status of a row that is there, and not to `queued' or
\* `sending', takes it off the queue at most.
LEMMA MarkedKeepsRows ==
  ASSUME OutboxInv, NEW l \in Logs, log[l] # Absent,
         NEW status \in {"sent", "delivered", "read", "failed"},
         log' = [log EXCEPT ![l].status = status]
  PROVE  /\ log' \in [Logs -> Entries \cup {Absent}]
         /\ \A k \in Logs : log'[k] = Absent <=> log[k] = Absent
         /\ \A k \in Logs : log'[k].status \in {"queued", "sending"}
                               => k # l /\ log'[k] = log[k]
         /\ QueuedIsUntried' /\ OneAttempt'
<1>1. PICK e \in Entries : log[l] = e
  BY DEF OutboxInv, TypeOK
<1>2. log'[l] = [e EXCEPT !.status = status] /\ \A k \in Logs \ {l} : log'[k] = log[k]
  BY <1>1 DEF OutboxInv, TypeOK
<1>3. log'[l] \in Entries /\ log'[l].status = status /\ log'[l].attempts = e.attempts
  BY <1>2 DEF Entries, LogStatuses
<1>4. log'[l] # Absent
  BY <1>3, EntriesArePresent
<1>5. log' \in [Logs -> Entries \cup {Absent}]
  BY <1>2, <1>3 DEF OutboxInv, TypeOK
<1>6. \A k \in Logs : log'[k] = Absent <=> log[k] = Absent
  BY <1>2, <1>4
<1>7. \A k \in Logs : log'[k].status \in {"queued", "sending"}
                         => k # l /\ log'[k] = log[k]
  BY <1>2, <1>3
<1>8. QueuedIsUntried' /\ OneAttempt'
  BY <1>1, <1>2, <1>3, <1>6, <1>7
     DEF OutboxInv, QueuedIsUntried, OneAttempt, Spare
<1>9. QED
  BY <1>5, <1>6, <1>7, <1>8

\* A dispatcher records what it saw of a hand-over.
LEMMA RecordKeepsInv ==
  ASSUME OutboxInv, NEW w \in Dispatchers, RecordOutcome(w)
  PROVE  OutboxInv'
<1> DEFINE l == posting[w].log
<1>1. /\ l \in Logs /\ posting[w].status \in {"sent", "failed"}
      /\ pc[w] = "sending" /\ posting[w] # None
  BY DEF RecordOutcome, OutboxInv, TypeOK, HandsEmpty
<1>2. log[l] # Absent
  BY <1>1 DEF OutboxInv, AbsentIsFresh, Owns
<1>3. log' = [log EXCEPT ![l].status = posting[w].status]
  BY DEF RecordOutcome, Outcome
<1>4. /\ log' \in [Logs -> Entries \cup {Absent}]
      /\ \A k \in Logs : log'[k] = Absent <=> log[k] = Absent
      /\ \A k \in Logs : log'[k].status \in {"queued", "sending"}
                            => k # l /\ log'[k] = log[k]
      /\ QueuedIsUntried' /\ OneAttempt'
  BY <1>1, <1>2, <1>3, MarkedKeepsRows
<1>5. TypeOK'
  BY <1>4 DEF RecordOutcome, OutboxInv, TypeOK, Steps
<1>6. HandsEmpty'
  BY DEF RecordOutcome, OutboxInv, TypeOK, HandsEmpty
<1>7. AbsentIsFresh'
  <2>1. ASSUME NEW k \in Logs, NEW e \in Dispatchers, Owns(e, k)'
        PROVE  Owns(e, k)
    BY <2>1 DEF RecordOutcome, OutboxInv, TypeOK, Owns
  <2>2. QED
    BY <1>4, <2>1 DEF RecordOutcome, OutboxInv, AbsentIsFresh
<1>8. SendingIsOwned'
  <2>1. ASSUME NEW k \in Logs \ {l}, NEW e \in Dispatchers, Owns(e, k)
        PROVE  Owns(e, k)'
    BY <2>1 DEF RecordOutcome, OutboxInv, TypeOK, Owns
  <2>2. QED
    BY <1>4, <2>1 DEF RecordOutcome, OutboxInv, SendingIsOwned
<1>9. ASSUME NEW k \in Logs
      PROVE  Accounted(k)'
  BY <1>4, QuietRow DEF RecordOutcome, OutboxInv
<1>10. UnretriedIsFree'
  <2>1. ASSUME NEW k \in Logs, NEW e \in Dispatchers, Owns(e, k)'
        PROVE  Owns(e, k)
    BY <2>1 DEF RecordOutcome, OutboxInv, TypeOK, Owns
  <2>2. QED
    BY <1>4, <2>1 DEF RecordOutcome, OutboxInv, UnretriedIsFree
<1>11. QED
  BY <1>4, <1>5, <1>6, <1>7, <1>8, <1>9, <1>10 DEF OutboxInv

\* The provider reports only on what it was handed, so on a row that is there.
LEMMA WebhookKeepsInv ==
  ASSUME OutboxInv, NEW l \in Logs, NEW status \in Reports, ApplyWebhook(l, status)
  PROVE  OutboxInv'
<1>1. log[l] # Absent
  BY DEF ApplyWebhook, OutboxInv, AbsentIsFresh
<1>2. status \in {"sent", "delivered", "read", "failed"}
  BY OutboxAssumption
<1>3. /\ log' \in [Logs -> Entries \cup {Absent}]
      /\ \A k \in Logs : log'[k] = Absent <=> log[k] = Absent
      /\ \A k \in Logs : log'[k].status \in {"queued", "sending"}
                            => k # l /\ log'[k] = log[k]
      /\ QueuedIsUntried' /\ OneAttempt'
  BY <1>1, <1>2, MarkedKeepsRows DEF ApplyWebhook
<1>4. TypeOK'
  BY <1>3 DEF ApplyWebhook, OutboxInv, TypeOK, worker
<1>5. HandsEmpty'
  BY DEF ApplyWebhook, OutboxInv, HandsEmpty, worker
<1>6. AbsentIsFresh' /\ SendingIsOwned' /\ UnretriedIsFree'
  BY <1>3 DEF ApplyWebhook, OutboxInv, AbsentIsFresh, SendingIsOwned,
              UnretriedIsFree, Owns, worker
<1>7. ASSUME NEW k \in Logs
      PROVE  Accounted(k)'
  BY <1>3, QuietRow DEF ApplyWebhook, OutboxInv, worker
<1>8. QED
  BY <1>3, <1>4, <1>5, <1>6, <1>7 DEF OutboxInv

\* A dispatcher that stops gives up what it held, and is counted.
LEMMA CrashKeepsInv ==
  ASSUME OutboxInv, NEW w \in Dispatchers, Crash(w)
  PROVE  OutboxInv'
<1>1. TypeOK'
  BY DEF Crash, OutboxInv, TypeOK, Steps
<1>2. HandsEmpty'
  BY DEF Crash, OutboxInv, TypeOK, HandsEmpty
<1>3. AbsentIsFresh'
  BY DEF Crash, OutboxInv, TypeOK, AbsentIsFresh, Owns
<1>4. QueuedIsUntried' /\ OneAttempt'
  BY DEF Crash, OutboxInv, QueuedIsUntried, OneAttempt, Spare
<1>5. SendingIsOwned' /\ UnretriedIsFree'
  BY DEF Crash, OutboxInv, TypeOK, SendingIsOwned, UnretriedIsFree, Owns
<1>6. ASSUME NEW k \in Logs
      PROVE  Accounted(k)'
  <2>1. Holders(k)' = Holders(k) \ {w}
    BY DEF Crash, Holders, OutboxInv, TypeOK
  <2>2. /\ Cardinality(Holders(k) \ {w}) <= Cardinality(Holders(k))
        /\ Cardinality(Holders(k) \ {w}) \in Nat
    BY HoldersFinite, FS_Subset, FS_CardinalityType
  <2>3. QueuedNow(k)' = QueuedNow(k) /\ handed' = handed /\ requeued' = requeued
    BY DEF Crash, QueuedNow
  <2>4. /\ Cardinality(Holders(k)) \in Nat /\ handed[k] \in Nat
        /\ requeued[k] \in Nat /\ QueuedNow(k) \in Nat
    BY HoldersFinite DEF OutboxInv, TypeOK, QueuedNow
  <2>5. Accounted(k)
    BY DEF OutboxInv
  <2>6. QED
    BY <2>1, <2>2, <2>3, <2>4, <2>5 DEF Accounted
<1>7. QED
  BY <1>1, <1>2, <1>3, <1>4, <1>5, <1>6 DEF OutboxInv

\* A retry puts a row in the queue once more, and is counted.
LEMMA RetryKeepsInv ==
  ASSUME OutboxInv, NEW l \in Logs, RetryNotification(l)
  PROVE  OutboxInv'
<1>1. PICK e \in Entries : log[l] = e
  BY DEF RetryNotification, OutboxInv, TypeOK
<1>2. /\ log'[l] = [e EXCEPT !.status = "queued", !.attempts = 0]
      /\ \A k \in Logs \ {l} : log'[k] = log[k]
  BY <1>1 DEF RetryNotification, Requeued, OutboxInv, TypeOK
<1>3. log'[l] \in Entries /\ log'[l].status = "queued" /\ log'[l].attempts = 0
  <2>1. "queued" \in LogStatuses /\ 0 \in Nat
    BY DEF LogStatuses
  <2>2. QED
    BY <1>2, <2>1 DEF Entries
<1>4. log'[l] # Absent
  BY <1>3, EntriesArePresent
<1>5. TypeOK'
  BY <1>2, <1>3 DEF RetryNotification, OutboxInv, TypeOK, worker
<1>6. HandsEmpty'
  BY DEF RetryNotification, OutboxInv, HandsEmpty, worker
<1>7. AbsentIsFresh'
  <2>1. ASSUME NEW k \in Logs, log'[k] = Absent
        PROVE  k # l /\ log[k] = Absent
    BY <1>2, <1>4, <2>1
  <2>2. \A k \in Logs \ {l} : requeued'[k] = requeued[k]
    BY DEF RetryNotification, OutboxInv, TypeOK
  <2>3. QED
    BY <2>1, <2>2 DEF RetryNotification, OutboxInv, AbsentIsFresh, Owns, worker
<1>8. QueuedIsUntried' /\ OneAttempt'
  <2>1. ASSUME NEW k \in Logs, log'[k] # Absent
        PROVE  /\ log'[k].status = "queued" => log'[k].attempts = 0
               /\ log'[k].attempts <= 1
    <3>1. CASE k = l
      BY <1>3, <3>1
    <3>2. CASE k # l
      BY <1>2, <2>1, <3>2 DEF OutboxInv, QueuedIsUntried, OneAttempt, Spare
    <3>3. QED
      BY <3>1, <3>2
  <2>2. QED
    BY <2>1 DEF QueuedIsUntried, OneAttempt, Spare
<1>9. SendingIsOwned'
  BY <1>2, <1>3 DEF RetryNotification, OutboxInv, SendingIsOwned, Owns, worker
<1>10. Accounted(l)'
  <2>1. Holders(l)' = Holders(l) /\ handed' = handed
    BY DEF RetryNotification, worker, Holders
  <2>2. QueuedNow(l)' = 1 /\ requeued'[l] = requeued[l] + 1
    BY <1>3 DEF RetryNotification, QueuedNow, OutboxInv, TypeOK
  <2>3. /\ Cardinality(Holders(l)) \in Nat /\ handed[l] \in Nat
        /\ requeued[l] \in Nat /\ QueuedNow(l) \in Nat
    BY HoldersFinite DEF OutboxInv, TypeOK, QueuedNow
  <2>4. Accounted(l)
    BY DEF OutboxInv
  <2>5. QED
    BY <2>1, <2>2, <2>3, <2>4 DEF Accounted
<1>11. ASSUME NEW k \in Logs \ {l}
       PROVE  Accounted(k)'
  BY <1>2, QuietRow DEF RetryNotification, OutboxInv, TypeOK, worker
<1>12. UnretriedIsFree'
  <2>1. /\ requeued'[l] # 0
        /\ \A k \in Logs \ {l} : requeued'[k] = requeued[k]
    BY DEF RetryNotification, OutboxInv, TypeOK
  <2>2. QED
    BY <1>2, <2>1 DEF RetryNotification, OutboxInv, UnretriedIsFree, Owns, worker
<1>13. QED
  BY <1>5, <1>6, <1>7, <1>8, <1>9, <1>10, <1>11, <1>12 DEF OutboxInv
-----------------------------------------------------------------------------
(* The theorems *)

\* However many dispatchers run, crash and are retried by hand, the account
\* of every row adds up.
THEOREM Safety == Spec => []OutboxInv
<1>1. ASSUME OutboxInv, [Next]_vars
      PROVE  OutboxInv'
  <2>1. ASSUME NEW s \in Bookings, NEW scheduled \in Today0..LastDay,
               QueueBookingNotification(s, scheduled)
        PROVE  OutboxInv'
    BY <1>1, <2>1, InsertKeepsInv, OutboxAssumption
       DEF QueueBookingNotification, Subjects, worker, OutboxInv, TypeOK
  <2>2. ASSUME NEW w \in Dispatchers, NEW due \in SUBSET Reminders, Scan(w, due)
        PROVE  OutboxInv'
    BY <1>1, <2>2, ScanKeepsInv
  <2>3. ASSUME NEW w \in Dispatchers, NEW s \in Reminders, QueueReminder(w, s)
        PROVE  OutboxInv'
    BY <1>1, <2>3, InsertKeepsInv DEF QueueReminder, Subjects, OutboxInv, TypeOK
  <2>4. ASSUME NEW w \in Dispatchers, ClaimDue(w)
        PROVE  OutboxInv'
    BY <1>1, <2>4, ClaimKeepsInv DEF ClaimDue, Oldest
  <2>5. ASSUME NEW w \in Dispatchers, NEW l \in Logs, NEW taken \in BOOLEAN,
               NEW status \in {"sent", "failed"}, HandOver(w, l, taken, status)
        PROVE  OutboxInv'
    BY <1>1, <2>5, HandOverKeepsInv
  <2>6. ASSUME NEW w \in Dispatchers, RecordOutcome(w)
        PROVE  OutboxInv'
    BY <1>1, <2>6, RecordKeepsInv
  <2>7. ASSUME NEW w \in Dispatchers, NEW subjects \in SUBSET Subjects,
               Nudge(w, subjects)
        PROVE  OutboxInv'
    BY <1>1, <2>7, ClaimKeepsInv DEF Nudge, Oldest
  <2>8. ASSUME NEW w \in Dispatchers, Crash(w)
        PROVE  OutboxInv'
    BY <1>1, <2>8, CrashKeepsInv
  <2>9. ASSUME NEW l \in Logs, RetryNotification(l)
        PROVE  OutboxInv'
    BY <1>1, <2>9, RetryKeepsInv
  <2>10. ASSUME NEW l \in Logs, NEW status \in Reports, ApplyWebhook(l, status)
         PROVE  OutboxInv'
    BY <1>1, <2>10, WebhookKeepsInv
  <2>11. ASSUME NextDay
         PROVE  OutboxInv'
    BY <1>1, <2>11, NextDayKeepsInv
  <2>12. ASSUME UNCHANGED vars
         PROVE  OutboxInv'
    BY <1>1, <2>12
       DEF vars, worker, OutboxInv, TypeOK, HandsEmpty, AbsentIsFresh, Owns,
           QueuedIsUntried, OneAttempt, UnretriedIsFree, SendingIsOwned, Spare,
           Accounted, Holders, QueuedNow
  <2>13. QED
    BY <1>1, <2>1, <2>2, <2>3, <2>4, <2>5, <2>6, <2>7, <2>8, <2>9, <2>10, <2>11,
       <2>12 DEF Next, Tick
<1>2. QED
  BY <1>1, InitInv, PTL DEF Spec

\* Every variable keeps its type.
THEOREM TypeCorrect == Spec => []TypeOK
<1>1. OutboxInv => TypeOK
  BY DEF OutboxInv
<1>2. QED
  BY <1>1, Safety, PTL

\* No row reaches the provider more often than it was put in the queue.
THEOREM NeverSentTwice == Spec => []HandedOncePerQueueing
<1>1. ASSUME OutboxInv, NEW l \in Logs
      PROVE  handed[l] <= 1 + requeued[l]
  <2>1. /\ Cardinality(Holders(l)) \in Nat /\ QueuedNow(l) \in Nat
        /\ handed[l] \in Nat /\ requeued[l] \in Nat
    BY <1>1, HoldersFinite DEF OutboxInv, TypeOK, QueuedNow
  <2>2. QED
    BY <1>1, <2>1 DEF OutboxInv, Accounted
<1>2. OutboxInv => HandedOncePerQueueing
  BY <1>1 DEF HandedOncePerQueueing
<1>3. QED
  BY <1>2, Safety, PTL

\* No row is ever on its second attempt.  The README's retries "until
\* MAX_ATTEMPTS (5)" therefore never happen, however many rows, dispatchers and
\* crashes there are: a message that failed stays failed until it is retried by
\* hand.
THEOREM NeverASecondAttempt == Spec => []OneAttempt
<1>1. OutboxInv => OneAttempt
  BY DEF OutboxInv
<1>2. QED
  BY <1>1, Safety, PTL

\* Until a dispatcher stops, whatever is being sent has one that sends it.
THEOREM SendingHasASender == Spec => []SendingIsOwned
<1>1. OutboxInv => SendingIsOwned
  BY DEF OutboxInv
<1>2. QED
  BY <1>1, Safety, PTL

\* What is inserted leaves the rows that are there alone.
LEMMA InsertKeepsRows ==
  ASSUME TypeOK, NEW s, NEW scheduled, InsertLog(s, scheduled), NEW l \in Logs \ Spare
  PROVE  log'[l] = log[l]
  BY DEF InsertLog, TypeOK

\* A message in the queue leaves it by a claim, or after a retry by a late word
\* on an earlier sending.
LEMMA LeavesTheQueue ==
  ASSUME OutboxInv, Next, NEW l \in Logs, log[l].status = "queued",
         log'[l].status # "queued"
  PROVE  \/ \E w \in Dispatchers : l \in batch'[w] \ batch[w]
         \/ /\ requeued[l] > 0
            /\ \/ handed[l] > 0 /\ UNCHANGED worker
               \/ \E w \in Dispatchers : Owns(w, l) /\ posting'[w] = None
<1>1. /\ TypeOK /\ l \notin Spare /\ log'[l] # log[l]
      /\ handed[l] \in Nat /\ requeued[l] \in Nat
  BY DEF OutboxInv, TypeOK, Spare, Absent
<1>2. CASE \E s, scheduled : InsertLog(s, scheduled)
  BY <1>1, <1>2, InsertKeepsRows
<1>3. ASSUME NEW w \in Dispatchers, NEW S, pc[w] # "sending", Claim(w, S)
      PROVE  l \in batch'[w] \ batch[w]
  <2>1. l \in S /\ batch[w] = {}
    BY <1>1, <1>3 DEF Claim, OutboxInv, HandsEmpty
  <2>2. batch'[w] = S
    BY <1>1, <1>3 DEF Claim, TypeOK
  <2>3. QED
    BY <2>1, <2>2
<1>4. ASSUME NEW w \in Dispatchers, RecordOutcome(w)
      PROVE  requeued[l] > 0 /\ Owns(w, l) /\ posting'[w] = None
  <2>1. /\ posting[w] # None /\ posting'[w] = None
        /\ log' = [log EXCEPT ![posting[w].log] = Outcome(@, posting[w].status)]
    BY <1>1, <1>4 DEF RecordOutcome, TypeOK
  <2>2. posting[w].log = l
    BY <1>1, <2>1 DEF TypeOK
  <2>3. Owns(w, l)
    BY <2>1, <2>2 DEF Owns
  <2>4. requeued[l] # 0
    BY <2>3 DEF OutboxInv, UnretriedIsFree
  <2>5. QED
    BY <1>1, <2>1, <2>3, <2>4
<1>5. ASSUME NEW k \in Logs, RetryNotification(k)
      PROVE  FALSE
  <2>1. k = l /\ log[l] \in Entries
    BY <1>1, <1>5 DEF RetryNotification, TypeOK, Spare
  <2>2. log'[l].status = "queued"
    BY <1>1, <1>5, <2>1 DEF RetryNotification, Requeued, TypeOK, Entries
  <2>3. QED
    BY <2>2
<1>6. ASSUME NEW k \in Logs, NEW status \in Reports, ApplyWebhook(k, status)
      PROVE  requeued[l] > 0 /\ handed[l] > 0 /\ UNCHANGED worker
  <2>1. k = l /\ handed[l] > 0
    BY <1>1, <1>6 DEF ApplyWebhook, TypeOK
  <2>2. Accounted(l) /\ QueuedNow(l) = 1 /\ Cardinality(Holders(l)) \in Nat
    BY HoldersFinite DEF OutboxInv, QueuedNow
  <2>3. requeued[l] > 0
    BY <1>1, <2>1, <2>2 DEF Accounted
  <2>4. QED
    BY <1>6, <2>1, <2>3 DEF ApplyWebhook
<1>7. CASE \E w \in Dispatchers : ClaimDue(w) \/ \E subjects : Nudge(w, subjects)
  BY <1>3, <1>7 DEF ClaimDue, Nudge
<1>8. CASE log' = log
  BY <1>1, <1>8
<1>9. ASSUME NEW w \in Dispatchers, Tick(w)
      PROVE  \/ \E s, scheduled : InsertLog(s, scheduled)
             \/ ClaimDue(w) \/ RecordOutcome(w) \/ log' = log
  BY <1>9 DEF Tick, Scan, QueueReminder, HandOver
<1>10. QED
  BY <1>2, <1>4, <1>5, <1>6, <1>7, <1>8, <1>9
     DEF Next, QueueBookingNotification, Crash, NextDay

\* A waiting message is lost only to late word of an earlier sending: never,
\* unless it was retried by hand before that word had come.
THEOREM LostOnlyToLateWord == Spec => LostToLateWordOnly
<1>1. OutboxInv /\ [Next]_vars =>
        [\A l \in Logs :
           log[l].status = "queued" /\ log'[l].status # "queued"
             => \/ \E w \in Dispatchers : l \in batch'[w] \ batch[w]
                \/ /\ requeued[l] > 0
                   /\ \/ handed[l] > 0 /\ UNCHANGED worker
                      \/ \E w \in Dispatchers : Owns(w, l) /\ posting'[w] = None]_vars
  BY LeavesTheQueue
<1>2. QED
  BY <1>1, Safety, PTL DEF Spec, LostToLateWordOnly
-----------------------------------------------------------------------------
(* How often a reminder is queued.  A scan reads what was queued before and *)
(* writes later, so what counts against a limit is what is queued and the  *)
(* scans that are about to queue more: a scan joins them only when the     *)
(* first alone leaves room, and there is one per dispatcher.               *)

Scanners == Cardinality(Dispatchers)

\* The scans that have found a subject and not queued it yet.
Pending(s) == {w \in Dispatchers : s \in todo[w]}

WithinRule(s) ==
    Cardinality(Told(s)) + Cardinality(Pending(s)) <= Repeat[s] + Scanners - 1

WithinToday(s) ==
    Cardinality(ToldOn(s, today)) + Cardinality(Pending(s)) <= Scanners

WithinDays(s) == \A day \in Nat : Cardinality(ToldOn(s, day)) <= Scanners

\* No row was created after today.
NoneAhead == \A l \in Logs \ Spare : log[l].created <= today

LimitInv ==
    /\ NoneAhead
    /\ \A s \in Reminders : WithinRule(s) /\ WithinToday(s) /\ WithinDays(s)

\* No row appears or goes, and each stays about what it was about.
SameRows ==
    /\ Spare' = Spare
    /\ \A l \in Logs \ Spare : /\ log'[l].about = log[l].about
                               /\ log'[l].created = log[l].created

\* The rows about a subject can be counted, altogether and day by day.
LEMMA ToldFinite ==
  ASSUME NEW s
  PROVE  /\ Told(s) \subseteq Logs \ Spare
         /\ IsFiniteSet(Told(s)) /\ Cardinality(Told(s)) \in Nat
         /\ \A day : /\ ToldOn(s, day) \subseteq Told(s)
                     /\ IsFiniteSet(ToldOn(s, day))
                     /\ Cardinality(ToldOn(s, day)) \in Nat
<1>1. Told(s) \in SUBSET Logs /\ IsFiniteSet(Logs)
  BY OutboxAssumption DEF Told
<1>2. IsFiniteSet(Told(s))
  BY <1>1, FS_Subset
<1>3. \A day : ToldOn(s, day) \in SUBSET Told(s)
  BY DEF ToldOn
<1>4. \A day : IsFiniteSet(ToldOn(s, day))
  BY <1>2, <1>3, FS_Subset
<1>5. QED
  BY <1>2, <1>3, <1>4, FS_CardinalityType DEF Told

\* So can the scans, and there is at least one.
LEMMA PendingFinite ==
  ASSUME NEW s
  PROVE  /\ IsFiniteSet(Pending(s)) /\ Cardinality(Pending(s)) \in Nat
         /\ Cardinality(Pending(s)) <= Scanners
         /\ Scanners \in Nat /\ Scanners >= 1
<1>1. IsFiniteSet(Dispatchers) /\ Dispatchers # {} /\ Pending(s) \in SUBSET Dispatchers
  BY OutboxAssumption DEF Pending
<1>2. IsFiniteSet(Pending(s)) /\ Cardinality(Pending(s)) <= Scanners
  BY <1>1, FS_Subset DEF Scanners
<1>3. Scanners \in Nat /\ Scanners # 0
  BY <1>1, FS_CardinalityType, FS_EmptySet DEF Scanners
<1>4. QED
  BY <1>2, <1>3, FS_CardinalityType

\* Dropping scans drops their number.
LEMMA PendingDrops ==
  ASSUME NEW s, Pending(s)' \subseteq Pending(s)
  PROVE  /\ Cardinality(Pending(s)') <= Cardinality(Pending(s))
         /\ Cardinality(Pending(s)') \in Nat
BY PendingFinite, FS_Subset, FS_CardinalityType

\* As long as the rows stay what they are, days may pass and reminders may be
\* dropped from what a scan found.
LEMMA SameRowsKeepLimits ==
  ASSUME OutboxInv, OutboxInv', LimitInv, SameRows, today <= today',
         \A w \in Dispatchers : todo'[w] \subseteq todo[w]
  PROVE  LimitInv'
<1>1. \A s : Told(s)' = Told(s)
  BY DEF SameRows, Told
<1>2. \A l \in Logs \ Spare : /\ log[l].created \in Nat
                              /\ log'[l].created = log[l].created
  BY DEF SameRows, OutboxInv, TypeOK, Entries, Spare
<1>3. today \in Nat /\ today' \in Nat
  BY DEF OutboxInv, TypeOK
<1>4. \A s : Told(s) \subseteq Logs \ Spare
  BY ToldFinite
<1>5. NoneAhead'
  BY <1>2, <1>3 DEF LimitInv, NoneAhead, SameRows
<1>6. \A s, day : {l \in Told(s)' : log'[l].created = day} = ToldOn(s, day)
  BY <1>1, <1>2, <1>4 DEF ToldOn
<1>7. ASSUME NEW s \in Reminders
      PROVE  WithinRule(s)' /\ WithinToday(s)' /\ WithinDays(s)'
  <2>1. WithinRule(s) /\ WithinToday(s) /\ WithinDays(s)
    BY DEF LimitInv
  <2>2. Pending(s)' \subseteq Pending(s)
    BY DEF Pending
  <2>3. /\ Cardinality(Pending(s)') <= Cardinality(Pending(s))
        /\ Cardinality(Pending(s)') \in Nat /\ Cardinality(Pending(s)) \in Nat
        /\ Cardinality(Pending(s)) <= Scanners
        /\ Scanners \in Nat /\ Repeat[s] \in Nat
        /\ Cardinality(Told(s)) \in Nat /\ Cardinality(ToldOn(s, today)) \in Nat
    BY <2>2, PendingDrops, PendingFinite, ToldFinite, OutboxAssumption
  <2>4. WithinRule(s)'
    BY <1>1, <2>1, <2>3 DEF WithinRule, Scanners
  <2>5. WithinDays(s)'
    BY <1>6, <2>1 DEF WithinDays, ToldOn, Scanners
  <2>6. CASE today' = today
    <3>1. ToldOn(s, today)' = ToldOn(s, today)
      BY <1>6, <2>6 DEF ToldOn
    <3>2. Cardinality(ToldOn(s, today)) + Cardinality(Pending(s)) <= Scanners
      BY <2>1 DEF WithinToday
    <3>3. Cardinality(ToldOn(s, today)) + Cardinality(Pending(s)') <= Scanners
      BY <2>3, <3>2
    <3>4. QED
      BY <2>4, <2>5, <3>1, <3>3 DEF WithinToday, Scanners
  <2>7. CASE today' # today
    <3>1. ToldOn(s, today') = {}
      BY <1>2, <1>3, <1>4, <2>7 DEF ToldOn, LimitInv, NoneAhead
    <3>2. Cardinality(ToldOn(s, today')) = 0
      BY <3>1, FS_EmptySet
    <3>3. ToldOn(s, today)' = ToldOn(s, today')
      BY <1>6 DEF ToldOn
    <3>4. Cardinality(ToldOn(s, today)') + Cardinality(Pending(s)') <= Scanners
      BY <2>3, <3>2, <3>3
    <3>5. QED
      BY <2>4, <2>5, <3>4 DEF WithinToday, Scanners
  <2>8. QED
    BY <2>4, <2>5, <2>6, <2>7
<1>8. QED
  BY <1>5, <1>7 DEF LimitInv

\* A row that is inserted adds one to what was queued about its subject, and
\* nothing to any other.
LEMMA InsertTells ==
  ASSUME OutboxInv, NEW s \in Subjects, NEW scheduled \in Nat,
         InsertLog(s, scheduled)
  PROVE  \E l \in Spare :
            /\ Told(s)' = Told(s) \cup {l} /\ l \notin Told(s)
            /\ \A u : u # s => Told(u)' = Told(u)
            /\ log'[l].created = today
            /\ \A k \in Logs \ Spare : log'[k] = log[k]
            /\ (Logs \ Spare)' = (Logs \ Spare) \cup {l}
<1> DEFINE entry == [about |-> s, status |-> "queued", attempts |-> 0,
                     created |-> today, scheduled |-> scheduled]
<1>1. PICK l \in Spare : log' = [log EXCEPT ![l] = entry]
  BY DEF InsertLog
<1>2. l \in Logs /\ log[l] = Absent
  BY <1>1 DEF Spare
<1>3. entry \in Entries /\ entry # Absent
  BY EntriesArePresent DEF OutboxInv, TypeOK, Entries, LogStatuses
<1>4. log'[l] = entry /\ \A k \in Logs \ {l} : log'[k] = log[k]
  BY <1>1, <1>2 DEF OutboxInv, TypeOK
<1>5. Spare' = Spare \ {l}
  BY <1>2, <1>3, <1>4 DEF Spare
<1>6. \A k \in Logs \ Spare : log'[k] = log[k]
  BY <1>2, <1>4 DEF Spare
<1>7. log'[l].about = s /\ log'[l].created = today
  BY <1>4
<1>8. Told(s)' = Told(s) \cup {l} /\ l \notin Told(s)
  BY <1>1, <1>2, <1>5, <1>6, <1>7 DEF Told
<1>9. \A u : u # s => Told(u)' = Told(u)
  BY <1>1, <1>2, <1>5, <1>6, <1>7 DEF Told
<1>10. (Logs \ Spare)' = (Logs \ Spare) \cup {l}
  BY <1>2, <1>5
<1>11. QED
  BY <1>1, <1>6, <1>7, <1>8, <1>9, <1>10

\* A booking's message is not a reminder.
LEMMA BookingKeepsLimits ==
  ASSUME OutboxInv, LimitInv, NEW s \in Bookings,
         NEW scheduled \in Today0..LastDay,
         QueueBookingNotification(s, scheduled)
  PROVE  LimitInv'
<1>1. s \in Subjects /\ scheduled \in Nat /\ s \notin Reminders
  BY OutboxAssumption DEF Subjects
<1>2. InsertLog(s, scheduled) /\ todo' = todo /\ today' = today
  BY DEF QueueBookingNotification, worker
<1>3. PICK l \in Spare :
         /\ \A u : u # s => Told(u)' = Told(u)
         /\ log'[l].created = today
         /\ \A k \in Logs \ Spare : log'[k] = log[k]
         /\ (Logs \ Spare)' = (Logs \ Spare) \cup {l}
  BY <1>1, <1>2, InsertTells
<1>4. NoneAhead'
  BY <1>2, <1>3 DEF LimitInv, NoneAhead, OutboxInv, TypeOK
<1>5. ASSUME NEW u \in Reminders
      PROVE  WithinRule(u)' /\ WithinToday(u)' /\ WithinDays(u)'
  <2>1. Told(u)' = Told(u) /\ \A k \in Told(u) : log'[k] = log[k]
    BY <1>1, <1>3, ToldFinite
  <2>2. \A day : {k \in Told(u)' : log'[k].created = day} = ToldOn(u, day)
    BY <2>1 DEF ToldOn
  <2>3. Pending(u)' = Pending(u)
    BY <1>2 DEF Pending
  <2>4. QED
    BY <1>2, <2>1, <2>2, <2>3
       DEF LimitInv, WithinRule, WithinToday, WithinDays, ToldOn, Scanners
<1>6. QED
  BY <1>4, <1>5 DEF LimitInv

\* A scan queues a reminder it found: one row more, one scan less about to.
LEMMA ReminderKeepsLimits ==
  ASSUME OutboxInv, LimitInv, NEW w \in Dispatchers,
         NEW s \in Reminders, QueueReminder(w, s)
  PROVE  LimitInv'
<1>1. s \in Subjects /\ today \in Nat
  BY DEF Subjects, OutboxInv, TypeOK
<1>2. /\ InsertLog(s, today) /\ today' = today /\ s \in todo[w]
      /\ todo' = [todo EXCEPT ![w] = @ \ {s}]
  BY DEF QueueReminder
<1>3. PICK l \in Spare :
         /\ Told(s)' = Told(s) \cup {l} /\ l \notin Told(s)
         /\ \A u : u # s => Told(u)' = Told(u)
         /\ log'[l].created = today
         /\ \A k \in Logs \ Spare : log'[k] = log[k]
         /\ (Logs \ Spare)' = (Logs \ Spare) \cup {l}
  BY <1>1, <1>2, InsertTells
<1>4. \A u : \A k \in Told(u) : log'[k] = log[k]
  BY <1>3, ToldFinite
<1>5. NoneAhead'
  BY <1>1, <1>2, <1>3 DEF LimitInv, NoneAhead
<1>6. WithinRule(s)' /\ WithinToday(s)' /\ WithinDays(s)'
  <2>1. Pending(s)' = Pending(s) \ {w} /\ w \in Pending(s)
    BY <1>2 DEF Pending, OutboxInv, TypeOK
  <2>2. /\ Cardinality(Pending(s)') = Cardinality(Pending(s)) - 1
        /\ Cardinality(Pending(s)) \in Nat
    BY <2>1, PendingFinite, FS_RemoveElement
  <2>3. Cardinality(Told(s) \cup {l}) = Cardinality(Told(s)) + 1
    BY <1>3, ToldFinite, FS_AddElement
  <2>4. \A day : {k \in Told(s)' : log'[k].created = day}
                    = IF day = today THEN ToldOn(s, day) \cup {l} ELSE ToldOn(s, day)
    BY <1>3, <1>4 DEF ToldOn
  <2>5. Cardinality(ToldOn(s, today) \cup {l}) = Cardinality(ToldOn(s, today)) + 1
    <3>1. l \notin ToldOn(s, today) /\ IsFiniteSet(ToldOn(s, today))
      BY <1>3, ToldFinite
    <3>2. QED
      BY <3>1, FS_AddElement
  <2>6. /\ Cardinality(Told(s)) \in Nat /\ Cardinality(ToldOn(s, today)) \in Nat
        /\ Scanners \in Nat /\ Repeat[s] \in Nat
    BY ToldFinite, PendingFinite, OutboxAssumption
  <2>7. WithinRule(s) /\ WithinToday(s) /\ WithinDays(s)
    BY DEF LimitInv
  <2>8. WithinRule(s)'
    BY <1>3, <2>2, <2>3, <2>6, <2>7 DEF WithinRule, Scanners
  <2>9. WithinToday(s)'
    <3>1. ToldOn(s, today)' = ToldOn(s, today) \cup {l}
      BY <1>2, <2>4 DEF ToldOn
    <3>2. Cardinality(ToldOn(s, today)) + Cardinality(Pending(s)) <= Scanners
      BY <2>7 DEF WithinToday
    <3>3. Cardinality(ToldOn(s, today)') + Cardinality(Pending(s)') <= Scanners
      BY <2>2, <2>5, <2>6, <3>1, <3>2
    <3>4. QED
      BY <3>3 DEF WithinToday, Scanners
  <2>10. Cardinality(ToldOn(s, today) \cup {l}) <= Scanners
    <3>1. Cardinality(ToldOn(s, today)) + Cardinality(Pending(s)) <= Scanners
      BY <2>7 DEF WithinToday
    <3>2. Cardinality(Pending(s)') \in Nat
      BY <2>1, PendingDrops
    <3>3. QED
      BY <2>2, <2>5, <2>6, <3>1, <3>2
  <2>11. WithinDays(s)'
    BY <2>4, <2>7, <2>10 DEF WithinDays, ToldOn, Scanners
  <2>12. QED
    BY <2>8, <2>9, <2>11
<1>7. ASSUME NEW u \in Reminders, u # s
      PROVE  WithinRule(u)' /\ WithinToday(u)' /\ WithinDays(u)'
  <2>1. Told(u)' = Told(u) /\ \A k \in Told(u) : log'[k] = log[k]
    BY <1>3, <1>4, <1>7
  <2>2. \A day : {k \in Told(u)' : log'[k].created = day} = ToldOn(u, day)
    BY <2>1 DEF ToldOn
  <2>3. Pending(u)' = Pending(u)
    BY <1>2, <1>7 DEF Pending, OutboxInv, TypeOK
  <2>4. QED
    BY <1>2, <2>1, <2>2, <2>3
       DEF LimitInv, WithinRule, WithinToday, WithinDays, ToldOn, Scanners
<1>8. QED
  BY <1>5, <1>6, <1>7 DEF LimitInv

\* A scan takes a reminder only if fewer than its rule allows are there and
\* none from today; at most every dispatcher is about to queue it then.
LEMMA ScanKeepsLimits ==
  ASSUME OutboxInv, LimitInv, NEW w \in Dispatchers,
         NEW due \in SUBSET Reminders, Scan(w, due)
  PROVE  LimitInv'
<1>1. log' = log /\ today' = today /\ todo' = [todo EXCEPT ![w] = due]
  BY DEF Scan
<1>2. Spare' = Spare /\ \A s : Told(s)' = Told(s)
  BY <1>1 DEF Spare, Told
<1>3. NoneAhead'
  BY <1>1, <1>2 DEF LimitInv, NoneAhead
<1>4. \A s, day : {k \in Told(s)' : log'[k].created = day} = ToldOn(s, day)
  BY <1>1, <1>2 DEF ToldOn
<1>5. ASSUME NEW s \in Reminders
      PROVE  WithinRule(s)' /\ WithinToday(s)' /\ WithinDays(s)'
  <2>1. WithinRule(s) /\ WithinToday(s) /\ WithinDays(s)
    BY DEF LimitInv
  <2>2. /\ Cardinality(Told(s)) \in Nat /\ Cardinality(ToldOn(s, today)) \in Nat
        /\ Cardinality(Pending(s)) \in Nat
        /\ Scanners \in Nat /\ Repeat[s] \in Nat /\ today \in Nat
    BY ToldFinite, PendingFinite, OutboxAssumption DEF OutboxInv, TypeOK
  <2>3. WithinDays(s)'
    BY <1>4, <2>1 DEF WithinDays, ToldOn, Scanners
  <2>4. CASE s \in due
    <3>1. Cardinality(Told(s)) < Repeat[s] /\ \A l \in Told(s) : log[l].created < today
      BY <2>4 DEF Scan, MayRemind
    <3>2. \A l \in Told(s) : log[l].created \in Nat
      BY ToldFinite DEF OutboxInv, TypeOK, Entries, Spare
    <3>3. ToldOn(s, today) = {}
      BY <2>2, <3>1, <3>2 DEF ToldOn
    <3>4. Cardinality(ToldOn(s, today)) = 0
      BY <3>3, FS_EmptySet
    <3>5. Pending(s)' \in SUBSET Dispatchers
      BY DEF Pending
    <3>6. Cardinality(Pending(s)') <= Scanners /\ Cardinality(Pending(s)') \in Nat
      BY <3>5, OutboxAssumption, FS_Subset, FS_CardinalityType DEF Scanners
    <3>7. WithinRule(s)'
      BY <1>2, <2>2, <3>1, <3>6 DEF WithinRule, Scanners
    <3>8. WithinToday(s)'
      <4>1. ToldOn(s, today)' = ToldOn(s, today)
        BY <1>1, <1>4 DEF ToldOn
      <4>2. Cardinality(ToldOn(s, today)') + Cardinality(Pending(s)') <= Scanners
        BY <2>2, <3>4, <3>6, <4>1
      <4>3. QED
        BY <4>2 DEF WithinToday, Scanners
    <3>9. QED
      BY <2>3, <3>7, <3>8
  <2>5. CASE s \notin due
    <3>1. Pending(s)' \subseteq Pending(s)
      BY <1>1, <2>5 DEF Pending, OutboxInv, TypeOK
    <3>2. /\ Cardinality(Pending(s)') <= Cardinality(Pending(s))
          /\ Cardinality(Pending(s)') \in Nat
      BY <3>1, PendingDrops
    <3>3. WithinRule(s)'
      BY <1>2, <2>1, <2>2, <3>2 DEF WithinRule, Scanners
    <3>4. WithinToday(s)'
      <4>1. ToldOn(s, today)' = ToldOn(s, today)
        BY <1>1, <1>4 DEF ToldOn
      <4>2. Cardinality(ToldOn(s, today)) + Cardinality(Pending(s)) <= Scanners
        BY <2>1 DEF WithinToday
      <4>3. Cardinality(ToldOn(s, today)') + Cardinality(Pending(s)') <= Scanners
        BY <2>2, <3>2, <4>1, <4>2
      <4>4. QED
        BY <4>3 DEF WithinToday, Scanners
    <3>5. QED
      BY <2>3, <3>3, <3>4
  <2>6. QED
    BY <2>4, <2>5
<1>6. QED
  BY <1>3, <1>5 DEF LimitInv

\* Claiming, marking and retrying rewrite a row's status and attempts only.
LEMMA ClaimKeepsRows ==
  ASSUME OutboxInv, NEW w \in Dispatchers, NEW S \in SUBSET Logs,
         \A l \in S : Ripe(l), Claim(w, S)
  PROVE  SameRows
<1>1. \A l \in S : log[l] \in Entries
  BY DEF Ripe, Absent, OutboxInv, TypeOK
<1>2. ASSUME NEW l \in S
      PROVE  /\ log'[l].about = log[l].about /\ log'[l].created = log[l].created
             /\ log'[l].status = "sending"
  <2>1. log'[l] = [log[l] EXCEPT !.status = "sending", !.attempts = @ + 1]
    BY DEF Claim, Claimed
  <2>2. QED
    BY <1>1, <2>1 DEF Entries
<1>3. \A l \in Logs \ S : log'[l] = log[l]
  BY DEF Claim
<1>4. \A l \in S : log'[l] # Absent /\ log[l] # Absent
  BY <1>1, <1>2, EntriesArePresent DEF Absent
<1>5. Spare' = Spare
  BY <1>3, <1>4 DEF Spare
<1>6. QED
  BY <1>2, <1>3, <1>5 DEF SameRows, Spare

\* Marking a row keeps what kind of row it is.
LEMMA MarkKeepsRows ==
  ASSUME OutboxInv, NEW l \in Logs, log[l] # Absent, NEW status \in LogStatuses,
         log' = [log EXCEPT ![l].status = status]
  PROVE  SameRows
<1>1. log[l] \in Entries
  BY DEF OutboxInv, TypeOK
<1>2. /\ log'[l] = [log[l] EXCEPT !.status = status]
      /\ \A k \in Logs \ {l} : log'[k] = log[k]
  BY DEF OutboxInv, TypeOK
<1>3. /\ log'[l].about = log[l].about /\ log'[l].created = log[l].created
      /\ log'[l].status = status
  BY <1>1, <1>2 DEF Entries
<1>4. log'[l] # Absent
  BY <1>3 DEF Absent, LogStatuses
<1>5. Spare' = Spare
  BY <1>2, <1>4 DEF Spare
<1>6. QED
  BY <1>2, <1>3, <1>5 DEF SameRows, Spare

\* So does a retry.
LEMMA RetryKeepsRows ==
  ASSUME OutboxInv, NEW l \in Logs, RetryNotification(l)
  PROVE  SameRows
<1>1. log[l] \in Entries /\ log[l] # Absent
  BY DEF RetryNotification, OutboxInv, TypeOK
<1>2. /\ log'[l] = [log[l] EXCEPT !.status = "queued", !.attempts = 0]
      /\ \A k \in Logs \ {l} : log'[k] = log[k]
  BY <1>1 DEF RetryNotification, Requeued, OutboxInv, TypeOK
<1>3. /\ log'[l].about = log[l].about /\ log'[l].created = log[l].created
      /\ log'[l].status = "queued"
  BY <1>1, <1>2 DEF Entries
<1>4. log'[l] # Absent
  BY <1>3 DEF Absent
<1>5. Spare' = Spare
  BY <1>1, <1>2, <1>4 DEF Spare
<1>6. QED
  BY <1>2, <1>3, <1>5 DEF SameRows, Spare

\* However many ticks scan at once, crash and start over, a reminder's limit is
\* overrun by no more than the scans that had read the table before the others
\* wrote to it; one that scans alone keeps the rule and its spacing
\* (queueDatedReminders, queueOverdueReminders).
THEOREM RemindersBounded == Spec => []OverrunByScansOnly
<1>1. Init => LimitInv
  <2>1. ASSUME Init
        PROVE  LimitInv
    <3>1. /\ Spare = Logs /\ NoneAhead
          /\ \A s : Told(s) = {} /\ Pending(s) = {} /\ \A day : ToldOn(s, day) = {}
      BY <2>1 DEF Init, Spare, Told, Pending, ToldOn, NoneAhead
    <3>2. Cardinality({}) = 0 /\ \A s \in Reminders : Repeat[s] \in Nat
      BY FS_EmptySet, OutboxAssumption
    <3>3. Scanners \in Nat /\ Scanners >= 1
      BY PendingFinite
    <3>4. QED
      BY <3>1, <3>2, <3>3 DEF LimitInv, WithinRule, WithinToday, WithinDays
  <2>2. QED
    BY <2>1
<1>2. ASSUME OutboxInv, OutboxInv', LimitInv, [Next]_vars
      PROVE  LimitInv'
  <2>1. today \in Nat
    BY <1>2 DEF OutboxInv, TypeOK
  <2>2. ASSUME NEW s \in Bookings, NEW scheduled \in Today0..LastDay,
               QueueBookingNotification(s, scheduled)
        PROVE  LimitInv'
    BY <1>2, <2>2, BookingKeepsLimits
  <2>3. ASSUME NEW w \in Dispatchers, NEW due \in SUBSET Reminders, Scan(w, due)
        PROVE  LimitInv'
    BY <1>2, <2>3, ScanKeepsLimits
  <2>4. ASSUME NEW w \in Dispatchers, NEW s \in Reminders, QueueReminder(w, s)
        PROVE  LimitInv'
    BY <1>2, <2>4, ReminderKeepsLimits
  <2>5. ASSUME NEW w \in Dispatchers, NEW S \in SUBSET Logs,
               \A l \in S : Ripe(l), Claim(w, S)
        PROVE  LimitInv'
    <3>1. SameRows
      BY <1>2, <2>5, ClaimKeepsRows
    <3>2. today' = today /\ todo' = todo
      BY <2>5 DEF Claim
    <3>3. QED
      BY <1>2, <2>1, <3>1, <3>2, SameRowsKeepLimits
  <2>6. ASSUME NEW w \in Dispatchers, ClaimDue(w)
        PROVE  LimitInv'
    BY <2>5, <2>6 DEF ClaimDue, Oldest
  <2>7. ASSUME NEW w \in Dispatchers, NEW subjects \in SUBSET Subjects,
               Nudge(w, subjects)
        PROVE  LimitInv'
    BY <2>5, <2>7 DEF Nudge, Oldest
  <2>8. ASSUME log' = log, today <= today',
               \A w \in Dispatchers : todo'[w] \subseteq todo[w]
        PROVE  LimitInv'
    <3>1. SameRows
      BY <2>8 DEF SameRows, Spare
    <3>2. QED
      BY <1>2, <2>8, <3>1, SameRowsKeepLimits
  <2>9. ASSUME NEW w \in Dispatchers, NEW l \in Logs, NEW taken \in BOOLEAN,
               NEW status \in {"sent", "failed"}, HandOver(w, l, taken, status)
        PROVE  LimitInv'
    BY <2>1, <2>8, <2>9 DEF HandOver
  <2>10. ASSUME NEW w \in Dispatchers, RecordOutcome(w)
         PROVE  LimitInv'
    <3> DEFINE l == posting[w].log
    <3>1. l \in Logs /\ posting[w].status \in LogStatuses /\ log[l] # Absent
      BY <1>2, <2>10
         DEF RecordOutcome, OutboxInv, TypeOK, AbsentIsFresh, Owns, LogStatuses
    <3>2. log' = [log EXCEPT ![l].status = posting[w].status]
      BY <2>10 DEF RecordOutcome, Outcome
    <3>3. SameRows
      BY <1>2, <3>1, <3>2, MarkKeepsRows
    <3>4. today' = today /\ todo' = todo
      BY <2>10 DEF RecordOutcome
    <3>5. QED
      BY <1>2, <2>1, <3>3, <3>4, SameRowsKeepLimits
  <2>11. ASSUME NEW l \in Logs, NEW status \in Reports, ApplyWebhook(l, status)
         PROVE  LimitInv'
    <3>1. log[l] # Absent /\ status \in LogStatuses
      BY <1>2, <2>11, OutboxAssumption
         DEF ApplyWebhook, OutboxInv, AbsentIsFresh, LogStatuses
    <3>2. SameRows
      BY <1>2, <2>11, <3>1, MarkKeepsRows DEF ApplyWebhook
    <3>3. QED
      BY <1>2, <2>1, <2>11, <3>2, SameRowsKeepLimits DEF ApplyWebhook, worker
  <2>12. ASSUME NEW l \in Logs, RetryNotification(l)
         PROVE  LimitInv'
    <3>1. SameRows
      BY <1>2, <2>12, RetryKeepsRows
    <3>2. QED
      BY <1>2, <2>1, <2>12, <3>1, SameRowsKeepLimits DEF RetryNotification, worker
  <2>13. ASSUME NEW w \in Dispatchers, Crash(w)
         PROVE  LimitInv'
    BY <1>2, <2>1, <2>8, <2>13 DEF Crash, OutboxInv, TypeOK
  <2>14. ASSUME NextDay
         PROVE  LimitInv'
    BY <2>1, <2>8, <2>14 DEF NextDay, worker
  <2>15. ASSUME UNCHANGED vars
         PROVE  LimitInv'
    BY <2>1, <2>8, <2>15 DEF vars, worker
  <2>16. QED
    BY <1>2, <2>2, <2>3, <2>4, <2>6, <2>7, <2>9, <2>10, <2>11, <2>12, <2>13,
       <2>14, <2>15 DEF Next, Tick
<1>3. ASSUME OutboxInv, LimitInv, NEW s \in Reminders
      PROVE  /\ Cardinality(Told(s)) <= Repeat[s] + Cardinality(Dispatchers) - 1
             /\ \A l \in Told(s) :
                   Cardinality(ToldOn(s, log[l].created)) <= Cardinality(Dispatchers)
  <2>1. WithinRule(s) /\ WithinDays(s)
    BY <1>3 DEF LimitInv
  <2>2. /\ Cardinality(Told(s)) \in Nat /\ Cardinality(Pending(s)) \in Nat
        /\ Scanners \in Nat /\ Repeat[s] \in Nat
    BY ToldFinite, PendingFinite, OutboxAssumption
  <2>3. \A l \in Told(s) : log[l].created \in Nat
    BY <1>3, ToldFinite DEF OutboxInv, TypeOK, Entries, Spare
  <2>4. QED
    BY <2>1, <2>2, <2>3 DEF WithinRule, WithinDays, Scanners
<1>4. OutboxInv /\ LimitInv => OverrunByScansOnly
  BY <1>3 DEF OverrunByScansOnly
<1>5. QED
  BY <1>1, <1>2, <1>4, Safety, PTL DEF Spec
=============================================================================
