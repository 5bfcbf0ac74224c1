------------------------------- MODULE Outbox -------------------------------
(***************************************************************************)
(* The notification outbox of src/server/notifications/service.ts: rows of *)
(* notification_logs queued by bookings and by the scheduled scans, claimed *)
(* by several dispatchers at once (the in-process tick, the cron worker and *)
(* the nudge after a response), handed to the provider and marked.          *)
(*                                                                         *)
(* A statement is a step; so is a call to the provider.  A dispatcher may  *)
(* stop between any two of them.  What a message says is left out: it is   *)
(* about a subject, an event of a booking or of one of its items.  Which   *)
(* items reach their date on a day is the calendar's business, so a scan   *)
(* finds any of them.                                                      *)
(***************************************************************************)
EXTENDS Integers, FiniteSets

CONSTANTS
    Logs,          \* rows, in the order they are created
    Reminders,     \* subjects a scan queues, dated or overdue
    Dated,         \* those no nudge may send: pickup_reminder, return_reminder
    Bookings,      \* subjects a booking, pickup or return queues
    Repeat,        \* how often a reminder is queued at most: 1 if dated
    Dispatchers,
    BatchLimit,    \* rows a tick claims at once
    NudgeLimit,    \* rows a nudge claims at once
    MaxAttempts,
    Today0, LastDay,   \* bound: the days that pass
    MaxRetries,    \* bound: retries of one row asked for by hand
    MaxCrashes,    \* bound: dispatchers that stop
    Reports,       \* what the provider may say of a row it was handed
    None

ASSUME OutboxAssumption ==
    /\ Logs \subseteq Nat /\ IsFiniteSet(Logs)
    /\ IsFiniteSet(Dispatchers) /\ Dispatchers # {}
    /\ Dated \subseteq Reminders /\ Reminders \cap Bookings = {}
    /\ Repeat \in [Reminders -> Nat]
    /\ {BatchLimit, NudgeLimit, MaxAttempts} \subseteq Nat \ {0}
    /\ {Today0, LastDay, MaxRetries, MaxCrashes} \subseteq Nat
    /\ Reports \subseteq {"sent", "delivered", "read", "failed"}
    /\ None \notin [log : Logs, status : {"sent", "failed"}]

VARIABLES
    log,        \* notification_logs
    pc,         \* where each dispatcher is
    todo,       \* reminders its scan found and has not queued yet
    batch,      \* rows it claimed and has not handed over yet
    posting,    \* the row it handed over, and the status to write
    today,
    handed,     \* history: times a row was handed to the provider
    requeued,   \* history: times a row was queued again by hand
    crashes

worker == <<pc, todo, batch, posting>>
vars == <<log, worker, today, handed, requeued, crashes>>

Subjects == Reminders \cup Bookings
LogStatuses == {"queued", "sending", "sent", "delivered", "read", "failed"}
Entries == [about : Subjects, status : LogStatuses, attempts : Nat,
            created : Nat, scheduled : Nat]
Absent  == [status |-> "none"]

Steps == {"idle", "queueing", "sending"}

Spare    == {l \in Logs : log[l] = Absent}
Told(s)  == {l \in Logs \ Spare : log[l].about = s}

\* Rows that a scan under way is still going to insert.
Promised == UNION {{w} \X todo[w] : w \in Dispatchers}
-----------------------------------------------------------------------------
Init ==
    /\ log = [l \in Logs |-> Absent]
    /\ pc = [w \in Dispatchers |-> "idle"]
    /\ todo = [w \in Dispatchers |-> {}]
    /\ batch = [w \in Dispatchers |-> {}]
    /\ posting = [w \in Dispatchers |-> None]
    /\ today = Today0
    /\ handed = [l \in Logs |-> 0]
    /\ requeued = [l \in Logs |-> 0]
    /\ crashes = 0

\* insertNotificationLog.
InsertLog(s, scheduled) ==
    \E l \in Spare :
        /\ \A k \in Spare : l <= k
        /\ log' = [log EXCEPT ![l] = [about |-> s, status |-> "queued",
                                      attempts |-> 0, created |-> today,
                                      scheduled |-> scheduled]]

\* queueBookingNotification, in the transaction of a booking, a pickup or a
\* return: once for each subject.
QueueBookingNotification(s, scheduled) ==
    /\ Told(s) = {}
    /\ scheduled >= today
    /\ Cardinality(Promised) < Cardinality(Spare)
    /\ InsertLog(s, scheduled)
    /\ UNCHANGED <<worker, today, handed, requeued, crashes>>

\* Mutant of MayRemind: the day of the last reminder is not looked at.
MayRemindAgain(s) == Cardinality(Told(s)) < Repeat[s]

\* A scan passes over what was queued as often as it may be, or less than a
\* day ago.
MayRemind(s) ==
    /\ Cardinality(Told(s)) < Repeat[s]
    /\ \A l \in Told(s) : log[l].created < today

\* dispatchDueNotifications begins: queueDatedReminders and
\* queueOverdueReminders read what was queued before ...
Scan(w, due) ==
    /\ pc[w] = "idle"
    /\ \A s \in due : MayRemind(s)
    /\ Cardinality(Promised) + Cardinality(due) <= Cardinality(Spare)
    /\ pc' = [pc EXCEPT ![w] = "queueing"]
    /\ todo' = [todo EXCEPT ![w] = due]
    /\ UNCHANGED <<log, batch, posting, today, handed, requeued, crashes>>

\* ... and insert one reminder after the other.
QueueReminder(w, s) ==
    /\ pc[w] = "queueing"
    /\ s \in todo[w]
    /\ InsertLog(s, today)
    /\ todo' = [todo EXCEPT ![w] = @ \ {s}]
    /\ UNCHANGED <<pc, batch, posting, today, handed, requeued, crashes>>

Ripe(l) ==
    /\ log[l].status = "queued"
    /\ log[l].attempts <= MaxAttempts - 1
    /\ log[l].scheduled <= today

\* The oldest n of a set of rows.
Oldest(S, n) == {l \in S : Cardinality({k \in S : k < l}) < n}

\* Mutant of Claimed: read, and not marked.
ClaimedUnmarked(entry) == [entry EXCEPT !.attempts = @ + 1]

Claimed(entry) == [entry EXCEPT !.status = "sending", !.attempts = @ + 1]

\* claimDueNotifications: one UPDATE over the rows a SELECT ... FOR UPDATE
\* SKIP LOCKED finds.
Claim(w, S) ==
    /\ log' = [l \in Logs |-> IF l \in S THEN Claimed(log[l]) ELSE log[l]]
    /\ batch' = [batch EXCEPT ![w] = S]
    /\ pc' = [pc EXCEPT ![w] = IF S = {} THEN "idle" ELSE "sending"]
    /\ UNCHANGED <<todo, posting, today, handed, requeued, crashes>>

ClaimDue(w) ==
    /\ pc[w] = "queueing" /\ todo[w] = {}
    /\ Claim(w, Oldest({l \in Logs : Ripe(l)}, BatchLimit))

\* dispatchNotificationsForBooking, for the messages of one booking.
Nudge(w, subjects) ==
    /\ pc[w] = "idle"
    /\ Claim(w, Oldest({l \in Logs : Ripe(l) /\ log[l].about \in subjects \ Dated},
                       NudgeLimit))

\* sendClaimedNotifications, one row: the provider takes it or not, and the
\* dispatcher may see a failure although it was taken.
HandOver(w, l, taken, status) ==
    /\ pc[w] = "sending" /\ posting[w] = None
    /\ l \in batch[w]
    /\ status = "sent" => taken
    /\ batch' = [batch EXCEPT ![w] = @ \ {l}]
    /\ posting' = [posting EXCEPT ![w] = [log |-> l, status |-> status]]
    /\ handed' = [handed EXCEPT ![l] = IF taken THEN @ + 1 ELSE @]
    /\ UNCHANGED <<log, pc, todo, today, requeued, crashes>>

\* Mutant of Outcome: a failure is logged and nothing is written.
OutcomeIfSent(entry, status) ==
    IF status = "sent" THEN [entry EXCEPT !.status = status] ELSE entry

\* The row by its id, whatever has become of it.
Outcome(entry, status) == [entry EXCEPT !.status = status]

RecordOutcome(w) ==
    /\ posting[w] # None
    /\ LET l == posting[w].log
       IN  log' = [log EXCEPT ![l] = Outcome(@, posting[w].status)]
    /\ posting' = [posting EXCEPT ![w] = None]
    /\ pc' = [pc EXCEPT ![w] = IF batch[w] = {} THEN "idle" ELSE @]
    /\ UNCHANGED <<todo, batch, today, handed, requeued, crashes>>

\* The process stops, or the statement that records an outcome fails.
Crash(w) ==
    /\ pc[w] # "idle"
    /\ crashes < MaxCrashes
    /\ crashes' = crashes + 1
    /\ pc' = [pc EXCEPT ![w] = "idle"]
    /\ todo' = [todo EXCEPT ![w] = {}]
    /\ batch' = [batch EXCEPT ![w] = {}]
    /\ posting' = [posting EXCEPT ![w] = None]
    /\ UNCHANGED <<log, today, handed, requeued>>

\* Mutant of Requeued: an attempt is given back.
RequeuedRefund(entry) == [entry EXCEPT !.status = "queued", !.attempts = @ - 1]

Requeued(entry) == [entry EXCEPT !.status = "queued", !.attempts = 0]

\* retryNotification, of any row: whatever its status.
RetryNotification(l) ==
    /\ log[l] # Absent
    /\ requeued[l] < MaxRetries
    /\ requeued' = [requeued EXCEPT ![l] = @ + 1]
    /\ log' = [log EXCEPT ![l] = Requeued(@)]
    /\ UNCHANGED <<worker, today, handed, crashes>>

\* applyMsg91Webhook: the provider reports on a row it was handed, in any
\* order and as often as it likes.
ApplyWebhook(l, status) ==
    /\ handed[l] > 0
    /\ log' = [log EXCEPT ![l].status = status]
    /\ UNCHANGED <<worker, today, handed, requeued, crashes>>

NextDay ==
    /\ today < LastDay
    /\ today' = today + 1
    /\ UNCHANGED <<log, worker, handed, requeued, crashes>>

\* What a running dispatcher does by itself.
Tick(w) ==
    \/ \E due \in SUBSET Reminders : Scan(w, due)
    \/ \E s \in Reminders : QueueReminder(w, s)
    \/ ClaimDue(w)
    \/ \E l \in Logs, taken \in BOOLEAN, status \in {"sent", "failed"} :
          HandOver(w, l, taken, status)
    \/ RecordOutcome(w)

Next ==
    \/ \E s \in Bookings, scheduled \in Today0..LastDay :
          QueueBookingNotification(s, scheduled)
    \/ \E w \in Dispatchers :
          \/ Tick(w)
          \/ \E subjects \in SUBSET Subjects : Nudge(w, subjects)
          \/ Crash(w)
    \/ \E l \in Logs : RetryNotification(l)
    \/ \E l \in Logs, status \in Reports : ApplyWebhook(l, status)
    \/ NextDay

Spec == Init /\ [][Next]_vars

\* The tick is repeated for as long as the process runs, and a call to the
\* provider ends.
Fairness == \A w \in Dispatchers : WF_vars(Tick(w))
FairSpec == Spec /\ Fairness
-----------------------------------------------------------------------------
TypeOK ==
    /\ log \in [Logs -> Entries \cup {Absent}]
    /\ pc \in [Dispatchers -> Steps]
    /\ todo \in [Dispatchers -> SUBSET Reminders]
    /\ batch \in [Dispatchers -> SUBSET Logs]
    /\ posting \in [Dispatchers ->
                     [log : Logs, status : {"sent", "failed"}] \cup {None}]
    /\ today \in Nat
    /\ handed \in [Logs -> Nat] /\ requeued \in [Logs -> Nat]
    /\ crashes \in Nat

\* A row is handed to the provider at most once for each time it was queued:
\* two dispatchers never send the same one, and neither does one that runs
\* again after a crash, unless someone asked for it to be retried.
HandedOncePerQueueing == \A l \in Logs : handed[l] <= 1 + requeued[l]

Owns(w, l) == l \in batch[w] \/ (posting[w] # None /\ posting[w].log = l)

\* A row that is being sent has a dispatcher that will say how it went, as
\* long as none has stopped.
SendingIsOwned ==
    crashes = 0 => \A l \in Logs : log[l].status = "sending"
                                    => \E w \in Dispatchers : Owns(w, l)

\* A row that falls due leaves the queue for good: it ends up sent or failed,
\* unless a dispatcher stops.
DueIsSettled ==
    \A l \in Logs :
        Ripe(l) ~> (\/ log[l].status \in {"sent", "delivered", "read", "failed"}
                    \/ crashes > 0)

\* A message that waits is lost only to late word of an earlier sending.  It
\* leaves the queue by being claimed; before that, only when it was retried by
\* hand while a dispatcher still had its outcome to write, or the provider its
\* report to make, and that is written over the retry by the row's id
\* (sendClaimedNotifications, applyMsg91Webhook).
LostToLateWordOnly ==
    [][\A l \in Logs :
          log[l].status = "queued" /\ log'[l].status # "queued"
             => \/ \E w \in Dispatchers : l \in batch'[w] \ batch[w]
                \/ /\ requeued[l] > 0
                   /\ \/ handed[l] > 0 /\ UNCHANGED worker
                      \/ \E w \in Dispatchers : Owns(w, l) /\ posting'[w] = None]_vars

\* Created on a day.
ToldOn(s, day) == {l \in Told(s) : log[l].created = day}

\* The scans that interleave are all that a rule's limit is overrun by: beyond
\* it, each scan but one may have read the table before the others wrote, and
\* a day sees no more reminders of a subject than there are scans at once.
\* With one scan at a time that is "exactly one reminder per item"
\* (queueDatedReminders), and "capped at the rule's repeatLimit and spaced" a
\* day apart (queueOverdueReminders).
OverrunByScansOnly ==
    \A s \in Reminders :
        /\ Cardinality(Told(s)) <= Repeat[s] + Cardinality(Dispatchers) - 1
        /\ \A l \in Told(s) :
              Cardinality(ToldOn(s, log[l].created)) <= Cardinality(Dispatchers)
-----------------------------------------------------------------------------
(* What the repository says of the outbox and it does not keep.             *)

\* "two workers running at once, still produce exactly one reminder per item"
\* (queueDatedReminders).
RemindedOnce == \A s \in Dated : Cardinality(Told(s)) <= 1

\* "a crashed run leaves its rows claimable again, and a row is retried until
\* MAX_ATTEMPTS" (README): what falls due is sent, or attempted that often.
RetriedToTheLimit ==
    \A l \in Logs :
        Ripe(l) ~> (\/ log[l].status \in {"sent", "delivered", "read"}
                    \/ l \notin Spare /\ log[l].attempts >= MaxAttempts)
=============================================================================
