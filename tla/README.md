# A verification of the rental service

This directory holds TLA+ specifications of the core of this repository: a
multi-tenant rental shop (Next.js, Drizzle, Postgres) in which staff book
product variations over dates, take and return money, hand items out, take
them back, repair them, and notify customers. The modules model the services
under `src/src/server`; TLC checks them on small instances and TLAPS proves
every safety property of the passing runs for every instance. `PROJECT.json` relates every
definition to the lines it models and lists the runs, the theorems, the hazards
and the findings.

All paths below are relative to `src/`, except that `server/...` and `lib/...`
stand for `src/server/...` and `src/lib/...`.

## 1. The system

State lives in Postgres. The server is a set of Node processes; a request is a
handler that interleaves with others at every `await`. Transactions run at
READ COMMITTED: each statement sees what is committed when it starts, and
row locks are held to the end of the transaction. Most handlers load their
rows through the pool, decide, and open a transaction only for their writes,
so what they decided on may be stale. That gap is the main subject here.

| component | state | operations | interacts with | what makes it correct |
|---|---|---|---|---|
| bookings (`server/bookings/service.ts`) | orders, items | create, edit order, add/edit/cancel an item, cancel, delete, list views | availability, payments, notifications | bookings appear whole; the bill follows the items; a closed order keeps no deposit |
| availability (`server/bookings/availability.ts`) | none of its own | lock variations, compute capacity | items, variations, tasks | no booking takes a day beyond the stock; no lock cycle |
| counter (`server/bookings/lifecycle.ts`) | item status, payments | pickup of one or several items, return | payments, maintenance | an item goes out once and comes back once; damage is taken once |
| overdue sweep (`server/bookings/overdue.ts`) | item status | promote late items | counter, reports | late items still count as out |
| payments (`server/payments/service.ts`) | `payments`, order status | record payment, refund, release; settle a cancellation; summarise | bookings, counter | outflows covered; summary one-sided; settlement idempotent |
| state rules (`lib/booking-state.ts`, `lib/order-stage.ts`) | none | transition table, status sets | all of the above | terminal states stay |
| variations (`server/variations`) | stock, availability, status | edit, withdraw, retire, count units out | availability, counter, maintenance | what is retired stays away from the counter |
| maintenance (`server/maintenance/service.ts`) | tasks, variation status | open, start, complete, cancel a task; derive the status | counter, availability | units in repair are not handed out; the status follows the tasks; closed work stays closed |
| notifications (`server/notifications`, `instrumentation.ts`, worker scripts) | `notification_logs` | queue, scan, claim, send, record, retry, webhook | bookings, the provider | one send per queueing; due rows leave the queue; a message that waits is not lost; reminders within limits |
| settlements (`server/settlements/service.ts`) | one row per returned item of another owner | recorded by a return, confirmed as paid | counter | an owner is owed one share, and paid it once |
| attendance (`server/attendance/service.ts`) | one row per person and day | check in, check out, correct | salary | recorded times stand |
| leave and salary (`server/leave`, `server/salary`) | leave requests, pay configurations, payslips | ask, decide, withdraw, remove; configure; compute and store | attendance | a decision stays; every day of a period is paid once, at the terms in force |
| reports, catalogue, people, auth, audit | CRUD rows | create, read, update, delete | - | unique indexes, permissions |

Hard behaviours: two bookings of the last unit; carts locking variations in
opposite orders; values read before a lock and used after it; pickups, returns,
cancellations and edits of one item at once; items going overdue while their
units are counted; shared deposits settled over returns and cancellations in
any order, by two members of staff at once; handlers that lock the same rows in
different orders; a status derived by several statements while others commit;
dispatchers that overlap or stop half-way. `PROJECT.json` lists
each one under `hazards`, at the line where it bites.

## 2. The modules

    BookingState  PaymentSummary  Sums       CalendarUnits        Outbox
        |   \         /   |         |          /        \            |
        |    Ledger <-----|----- Counter   Calendar <--- Reservation |
        |        \   (undisturbed   |    (refined by)    /  |        |
        |         \     steps of)   |                   /   |        |
        +----------\----------------|---------------- Desk  |        |
                    \               |                   |   |        |
              LedgerProofs <-- CounterProofs   ReservationProofs  OutboxProofs

    RowLocks - RowLocksProofs     Maintenance - MaintenanceProofs
    Payroll  - PayrollProofs      MoneyTheorems

Lines are `EXTENDS`; an arrow is an `INSTANCE ... WITH` under a refinement
mapping: Reservation's `Promise` is Calendar, Counter's `Serial` is Ledger, and
CounterProofs' `Books` is LedgerProofs under the mapping of `Serial`, which
carries the theorems about Ledger over. `MoneyTheorems` has the lemmas on sums
over finite sets and on the arithmetic of a ledger; the proofs of Ledger,
Counter, Maintenance and Payroll extend it.

**BookingState** has the transition table and the status sets.
**PaymentSummary** has `computePaymentSummary` and the arithmetic
of `settleCancelledOrder` over a ledger summed by payment type (the service
reads its rows in no other way). Amounts are integers, as `lib/money.ts`
computes them in paise.

**Ledger** is one order: its status, its items' statuses, the bill, the damage,
the ledger and the cached `paymentStatus`. One action per handler
(`CreateBooking`, `AddBookingItem`, `RecordInflow`, `ConfirmPickup`,
`ReturnBooking`, `CancelBookingItem`, ...), each including the recomputation
of the total, the settlement and the status it writes. Requests are served one
at a time here; the rent of a line is any value of a small set, so pricing
is out of it. The four kinds of `recordPayment` are four actions over one
common write.

**Counter** is the same order with several handlers at once. A handler loads the
order through the pool (`Load`), reads in its transaction (`ReadPayment`,
`ReadReturn` and `ReadSiblings`, `ReadTotal`, ...) and writes (`CommitPayment`,
...). Every one of them updates or deletes the `bookings` row before it commits,
so all it does from there on is one step with its commit; what it read earlier
may be old by then. `overtaken` remembers whom that can concern: the requests
somebody has committed in front of. `settlement` holds the owner settlements a
return opens and `markSettlementPaid` closes, each with the number of times it
was paid out, since a second payout writes over the first. `Serial` maps the state to
Ledger's by summing the lines.

**RowLocks** keeps nothing but row locks: for each handler the rows it locks, in
order, and the detection that ends one transaction of a circle of waits. The
three other modules with locks each look at one table; here orders, items,
variations and tasks meet.

**Maintenance** is one variation with its tasks and the items that are out.
`CountTasks`, `CountRented` and `Commit` are the statements of
`applyVariationLifecycleStatus`; the variation's row is locked by the last one
only. `SetStatus`, `UpdateQuantity`, `MarkOverdue` and `DeleteBooking` write
without deriving the status. `settled` says that nothing has put the label out
of step since it was derived, `late` who has read what is old by now.

**Payroll** is one member of staff: a row per day, leave requests, versions of
the pay, payslips, and a clock. `checkIn`, `checkOut`, `correctAttendance`,
`decideLeave`, `deleteLeave` and `generatePayslipForRange` load and write in
different steps; `Calculated` is the walk over the days. A day has `Ticks`
moments; minutes, hours and paise are such moments times a rate.

**CalendarUnits** has rows, units per day and stock. **Calendar** is the
abstract specification: bookings appear whole, rows move, go out and end, and
no booking and no move takes a unit of a day that has none left. A reduction of
stock below what is promised is allowed by the code, so this is stated against
the largest stock the shop has had (`ceiling`). One step, `Revive`, looks at no
day: a row that has ended is handed over after all. The code takes that step,
so it belongs to what the code implements, and `revived` keeps track of it.

**Reservation** is the code below it. A request of `createBooking`,
`addBookingItem` or `updateBookingItem` reads its variations, locks them one by
one in id order, checks one variation after the other and commits or rolls back
(`Reserve`/`Reschedule`, `Lock`, `CheckPasses`/`CheckFails`, `Commit`, `Abort`).
Every other handler that writes the calendar or a variation is an action beside
it. `Cancel`, `PickUp` and `Return` are the transactions of the counter: each
writes an item by its id, whatever it has become since the handler looked at
it, so a pickup may write an ended row back and a cancellation may end one that
is out. A return needs a row that has been handed over once (`handed`). A
deleted row stays as an ended one, which a late pickup could revive although
the code's would find nothing to update: the model allows more there than the
code does. `hardBlocked` stands for the statuses `retired` and `in_transfer`, the only
ones the check looks at.

**Desk** extends Reservation by the reads of `confirmPickup`, `returnBooking`
and `cancelBookingItem`: each is a read that decides (`ReadForPickup`, ...) and
then the transaction of Reservation (`WritePickup`, ...); and it adds `markOverdueItems`. The set `late` holds the
rows that are out and marked `overdue`, which `getRentedOutQuantity` does not
count.

**Outbox** is `notification_logs` and its dispatchers. A dispatcher scans
(reads what was queued, then inserts reminder by reminder), claims the oldest
due rows in one statement, hands each to the provider and records what it saw;
it may stop between any two of these. The provider may have taken a message
whose call appears to fail, and reports later in any order. Retries by hand hit
a row in whatever status it has.

The `MC*` modules give the constants for TLC. Operators commented "Mutant of"
are deliberate defects of the operator after them; no specification uses them.
They show that the property they are paired with in `PROJECT.json` can fail.

## 3. What the runs show

### Runs that pass

| run | question | bounds, and why they suffice |
|---|---|---|
| `ledger` | Is the money of an order right under every sequence of handlers? | Two items: the smallest order with a sibling that is still open when the other ends. Amounts 1 and 2 against rents and deposits of 0 or 2: under-, exact and over-payment each occur. `MaxPaid` 2 caps each kind of money coming in. |
| `reservation` | Which rows can oversell a day, does a passed check stay true, does the code implement Calendar? | Two clerks, one variation, three rows, two days, stock 1 or 2, two rows ever handed over (`MaxHanded`): a competitor that overlaps on one day only, an edit of an own row, a revival before, between and after a check and its commit, and changes of stock and availability there. 0.8 million states. |
| `reservation_locks` | Can clerks wait in a circle? Is every request answered? | Two clerks, two variations, carts in either order: the smallest circle. Nothing is handed over, since a pickup holds one lock and waits for no second. |
| `desk` | With two hands at the counter, does a booking ever overload a day? | Two rows, two days, lines that overlap, one pickup of a row: both hands on the same row in every order. 1 million states. |
| `counter` | Two handlers of one order at once: does each do what Ledger says unless it was overtaken, and what holds even then? | Two requests, two lines (one of another owner), four requests begun in all, amounts of 1 in each pool: every pair of handlers in every order, on an order two earlier ones have shaped; two confirmations of one payout at once. 1.7 million states. |
| `rowlocks` | Which handlers can wait for each other in a circle, and does everybody end? | Three transactions, two items of two variations, a task: circles of two and of three, through any table. Of handlers that lock alike one is called (`MCRowLocks`). |
| `maintenance` | Does the variation's status follow its tasks, does closed work stay closed, who brings a retired variation back? | Two requests, bookings of one and of two units, stock of 2 or 3, two tasks, five requests or statements begun: a label derived while another handler commits between any two of its reads. 1.9 million states. |
| `payroll` | Do recorded times and decisions stand, is every day paid once? | Two requests, a period of three days and the day after it, two moments a day, one leave request, two pay configurations of different terms, four requests or statements begun. The job begins on the second day and one configuration on the third, so the period, the job, the pay and the leave each have an end of their own. 0.4 million states. |
| `outbox` | Is a row sent twice, lost while it waits, orphaned? | Two dispatchers, two rows, one retry, one crash: a claim racing a retry of a row being sent. 0.7 million states. |
| `outbox_scans` | By how much can reminders overrun their limits, and is every due row settled? | Two dispatchers, one row per claim, three rows, so that rows wait behind others; a dated reminder with a limit of one and an overdue one with a limit of two, on two days. 0.3 million states. |

No run says that no day is ever oversold, because the code does oversell: a
pickup decided on the status it loaded writes a row back that was cancelled
meanwhile, on days promised to somebody else since. `OnlyRevivedOversell` says
of every state that such rows are all that oversells: without them, each day
fits the stock, so no race of bookings, edits, stock changes, crashes and later
revivals ever costs a second unit. `BookingNeverOverloads` (run `desk`) says
the same of steps, with the counter's reads in place: the step that takes a day
beyond the stock is a revival. `NeverOversold` itself stays in the module, for
the theorems that say when it would hold (section 4).

The properties of the outbox are of this form, too, where the code falls short
of what is said of it. A row that failed or was claimed by a dispatcher that
stopped is not sent: `README.md:152-154` says otherwise and is refuted below.
What holds is that a row nobody has claimed is not lost on the way:
`LostToLateWordOnly` leaves one exception, a row retried by hand while the word
of its earlier sending is still to come. And `OverrunByScansOnly` bounds what
two scans at once do to a limit of one.

The runs with two handlers at once state what the code does keep although it
re-reads little. `UndisturbedIsSerial` says where every anomaly of an order
must come from: a request that nobody committed in front of is one step of
Ledger. It is stated for orders on which no earlier race shows (`Consistent`:
the total is that of the lines, only returned lines carry damage), and it keeps
them so. `CancellationSquares`, `ClosingReleasesDeposit`,
`OnlyOvertakenRevives` and `OwedOnce` hold after races, too. `OwedOnce` has two
halves: however often an item comes back its owner is owed one share, and what
pays it out is `markSettlementPaid`, a second time only when another request
was done with the settlement after this one had loaded it. That second payout
does happen (`PaidExactlyOnce`, below). Of the owner settlements
`UndisturbedIsSerial` says that an undisturbed handler leaves what is paid, and
how often it was, as it is, line by line.
`FamiliesNeverCircle` names three families of handlers which, among themselves,
never wait in a circle; across families circles do occur and Postgres ends one
request, which no handler tries again. `InSync` gives the exceptions to the
comment at `server/maintenance/service.ts:52-53` (the status "can never drift
out of sync"): something set by hand, the sweep, a deletion, or two handlers at
once. `RetiredReopens` names those who bring a retired variation back: any
return or task that derives the status.

Fairness is assumed by three runs. `reservation_locks`: a server works off a
request it has begun (weak fairness of its checks and commit), and Postgres
queues those who wait for a row lock, so a waiter is not passed over for ever
(strong fairness of `Lock`). `rowlocks`: the same of every statement and commit
(strong fairness of `Take`, weak fairness of `Commit`), and `deadlock_timeout`
passes (weak fairness of `BreakCircle`). `outbox_scans`: the
tick is repeated by `setInterval` for as long as the process runs and a call to
the provider ends, because `fetch` has a timeout (weak fairness of a
dispatcher's next step). `DueIsSettled` makes an exception for a crash, since a
crashed run keeps its rows; in `outbox_scans` nobody crashes.

Symmetry is used for clerks, hands, rows, items, requests and dispatchers, where
the modules treat them alike, and never in a run with a liveness property.
Deadlock is checked in every run but `counter`, `maintenance` and `payroll`
and the runs of their modules: there the bound on the requests ever begun
(`MaxRequests`, `MaxBegun`) brings the model to an end, and only that.

### Where the code and what is said of it differ

Each of these runs checks one statement of a comment and finds a behaviour of
the code that breaks it; `findings` has the quotations.

| run | the statement | what happens |
|---|---|---|
| `desk_OutWithinStock` | the count is of units physically out | overdue units are left out, and handed over again |
| `payroll_PaidThroughRaise` | a past month is priced at what was in force then | of a period with a raise in it, the days before the raise go unpaid |

Six more statements are defined in the modules and refuted by TLC with the
configurations kept beside them, for instance
`tlc -config MCDesk_WritesFollowTable.cfg MCDesk`:

| configuration | the statement | what happens |
|---|---|---|
| `MCLedger_DepositNeverOverdrawn.cfg` | what is refunded was paid in (`server/payments/service.ts:396-398`) | damage is taken from the deposit, then all of it is released by hand |
| `MCReservation_RecheckedNow.cfg` | capacity is checked against what is committed now (`server/bookings/service.ts:1027-1028`) | the variation is as it was read before the lock |
| `MCDesk_WritesFollowTable.cfg` | status moves only along the table (`lib/booking-state.ts:5-7`) | two pickups of one item commit, a cancelled item becomes rented, an item just picked up becomes cancelled |
| `MCCounter_PaidExactlyOnce.cfg` | a settlement moves to paid exactly once, and the payout record is never overwritten (`server/settlements/service.ts:412-415`) | two confirmations load it as pending, and both write |
| `MCOutbox_RemindedOnce.cfg` | two workers queue one reminder (`server/notifications/service.ts:1198-1201`) | both look before either inserts |
| `MCOutbox_RetriedToTheLimit.cfg` | a crashed run's rows are claimable again, and a row is retried until five attempts (`README.md:152-154`) | a claimed row stays `sending`, a failed one `failed`; neither is selected again |

Smaller disagreements met on the way have no configuration and are noted under
`hazards`: the pending-payment view reads a column that edits leave behind, the
credit of the summary counts a deposit already returned, two edits of one item
can grow its quantity, the status of a variation does drift, and a second
return of a revived item finds damage that is not "0.00"
(`server/bookings/lifecycle.ts:532-535`). The completed view asks for an order
status nobody writes. A comment of the reports
(`server/reports/service.ts:674-678`) takes a deposit as resolved the moment a
return is recorded, which is not so while siblings are out.

## 4. What is proved

Every invariant and every action property of a passing run is a theorem; only
the three liveness properties are not. A theorem holds for all values of the
constants that satisfy the named assumption of its module. Each safety proof is
the same argument: an inductive invariant holds initially, every action
preserves it (one step per action), and it implies the property. Below is the
invariant and why the property alone is not inductive.

- **MoneyTheorems.** Sums are folds over a set, and a fold leaves the order
  open. `SumRemove` shows that any member may be taken out first. What would
  be an induction over the set is done by the finiteness of its subsets: if a
  statement fails, it fails for a set of least size, and there one member is
  taken out. `SumUnfolds`, `SumAgree` and `SumIsNat` are what the other proofs
  cite. `SettledSquare` is the arithmetic of `settleCancelledOrder`.
- **LedgerProofs** uses `LedgerInv`: types, `discount <= gross` (so the bill
  stays a natural), outflows and forfeits covered, a cancelled order square,
  no items on an order that is not there, and no editable item on a cancelled
  one. The last is what makes `CancelledIsSquare` inductive: without it a
  cancelled order could be cancelled piecewise against a smaller bill.
- **ReservationProofs**, Reservation: `ReservationInv`. `LockDiscipline` (a
  clerk holds only locks it wants, in order, and all of them once it checks),
  `PlanMatchesRows` (planned rows are fresh and nobody else's, or the one row
  being edited) and `SeenIsOwned` (the stock read is one the shop has had)
  make `CheckStillHolds` inductive: whoever could take the counted units would
  need the same lock, a pickup that revives a row included. `LockDiscipline`
  gives `WaitsClimb`, and with `CheckStillHolds` at commit the refinement
  `Spec => Promise!Spec`, step by step or stutter. `OversoldByTheRevived`
  removes the revived rows from the calendar before it counts: what is left
  grows only by a commit, whose check counted at least as much.
  `UnlessRevived` is the case in which nothing is left out.
- **ReservationProofs**, Desk: `DeskIsReservation` shows that the counter with
  its reads and decisions makes only steps of Reservation, so that its
  invariant, its passed checks and its refinement of Calendar carry over
  (`DeskChecksStayTrue`, `DeskImplements`). The one fact it needs is that a
  request to return a row is about one that has been handed over (`AtTheDesk`).
  `OnlyRevivalOverloads` is `BookingNeverOverloads`. Two theorems say how
  little is missing for `NeverOversold`. `RefusingNeverOversells`: it would
  hold if a pickup gave up on a row that has ended since it looked, with any
  number of hands and clerks; the stale stock, the stale status of the
  variation and the other stale rows take no day beyond the stock.
  `OneHandNeverOversells`: it does hold with one request at the counter at a
  time, beside any number of bookings.
- **OutboxProofs** uses `OutboxInv`, which counts, for each row, the
  dispatchers that hold it and its hand-overs against the times it was queued;
  a row that was never retried by hand is attempted once at most and, while it
  waits, by nobody. From it follow `LostOnlyToLateWord` and
  `NeverASecondAttempt`, which shows that the automatic retries of
  `README.md:152-154` never happen. `RemindersBounded` needs a second
  invariant, `LimitInv`, for any number of dispatchers: the rows of a subject
  and the scans that are about to add one stay, together, within the rule and
  one more for each further dispatcher; and within the number of dispatchers
  for today. A reminder is admitted only while fewer than the rule allows are
  there, whatever the others have read.
- **RowLocksProofs** uses `LocksInv`: what a transaction holds is the start of
  a program of its handler and what it wants is the rest, and no program names
  a row twice. Within a family every program locks in one order of the tables,
  so whoever waits for a row holds only earlier ones. Of finitely many
  transactions that wait for each other one would have nobody after it.
- **MaintenanceProofs** uses `MaintenanceInv`: what a request was admitted on
  is so until somebody commits behind it, and what it has counted is what a
  count would give until somebody commits behind that. `late` says which of the
  two is lost, and `InSync`, `ClosedStaysClosed` and `RetiredReopens` name
  exactly those cases.
- **PayrollProofs** uses `PayrollInv`: what an undisturbed request decided by
  is so, and the period of a payslip in the making is over, so that the clock
  takes nothing from it. For `PaidByTheDay` the walk over the days is unfolded
  a day at a time by `SumUnfolds`: no day is counted in two categories or in
  none, for a period of any length.
- **CounterProofs** has two invariants. `CounterInv`: what a request nobody has
  committed in front of looked at is still so. `SerialInv`: what it has
  prepared (the sums, the siblings, the settlement) is what it would prepare if
  it read everything now. From them:
  - `UndisturbedServes`: one lemma per kind of commit shows it to be one
    step of Ledger, on an order on which no earlier race shows;
  - `RefusingServes`: if an overtaken handler gave up in place of committing
    (a version column would do that), the desk would implement Ledger, with
    any number of requests at work. `RefusingKeepsBooks` then takes over
    `NeverBothSided`, `OutflowsCovered`, `ForfeitCovered` and
    `CancelledIsSquare` from LedgerProofs. The code does not refuse; these two
    say what that would buy, and that overtaking is the only thing missing;
  - `OneClerkServes`: with one member of staff, Counter implements Ledger as it
    is;
  - `CancellingSquares`, `ClosingReleases`, `RevivingIsOvertaken`,
    `OwnersAreOwedOnce`: what holds after races, too.

### Assumptions

Amounts, limits and bounds are naturals; there is a dispatcher; sets of rows, items, dispatchers,
transactions and pay configurations are finite, as tables are. Ranks are
distinct, because they stand for primary keys. Rows of different tables are
different (Order, Items, Variations, Task), reminders are not bookings, and a
value that stands for "none" is no row, request or term. Counter's `Items` is
not empty, because a booking has at least one (`lib/validation/bookings.ts:272`),
and `AllRents`, over which Ledger's rents range, holds every sum of rents a
request may ask. `RefusingServes`, `RefusingKeepsBooks` and `OneClerkServes` need
`0 \in Fees`: a booking without a fee must be possible, since a line added
later has none. MCCounter's constants satisfy it, as the code does.

### What the proofs taught

`UndisturbedIsSerial` once said that while one line's settlement is paid, an
undisturbed handler writes no settlement at all. With two lines of another
owner this is false: the second is returned, and its settlement opened, after
the first one's is paid. The run, with one such line, could not see it. The
conjunct now says that what is paid stays as it is, line by line. The
assumptions on `Items` and `AllRents` came from the same attempt.

### Model-checked only

`Answered`, `EveryoneEnds` and `DueIsSettled` are liveness properties under
fairness; the prover has no rule for `ENABLED`, so they stay with TLC. The
refuted statements of section 3 have counterexamples and no proof.

## 5. What is not modelled

Most of the repository's lines are pages, forms, route handlers, seeds and
tests: they call one service function each and keep nothing that outlives a
request, so there is no step of theirs to interleave. Not modelled either:
pricing (multiplication and addition over one line, any result of which enters
Ledger and Counter), reports and lists (read-only), catalogue and people (CRUD
over single rows), sign-in and permissions (an action stands for a request that
is allowed), the audit trail (never read to decide), tenants (a shop's rows are
disjoint from another's: one shop is modelled), and message contents.
`components` in `PROJECT.json` gives each with its reason.

Abstracted in modelled components: `confirmPickupOrder` is a step of Ledger and
an order of locks in RowLocks, and is not cut a second time, because its reads
are those of `confirmPickup` item by item; Counter leaves out dates, stock and
the sweep (Desk's), discounts and default deposits (Ledger's); RowLocks leaves
out the key-share locks of foreign keys; a day is the unit of the reminder
spacing, which the code keeps in hours; Payroll leaves out rounding to minutes
and paise (`corrected` and `present`, which count alike, are one status), month
labels, the geofence and the photo.

## 6. Plan

Done, in this order: the money of an order (Ledger), the calendar (Calendar,
Reservation), the counter (Desk), the outbox (Outbox), two handlers of one
order and the settlements (Counter), row locks (RowLocks), maintenance
(Maintenance), attendance, leave and pay (Payroll); then the proofs of each,
in the order of section 4.

Next:

1. **Circles across families.** Which single change of a handler's order makes
   two families one, as a theorem over `RowLocks`' orders.
2. **The hazards that no property covers**: those of `hazards` without one
   (the cached payment status after an edit, a deposit released after damage
   was taken from it, the credit a summary shows of a deposit handed back), and
   those whose note says that a property tells how the code goes wrong and not
   that it does not: revived items, a second payout, reminders of two scans,
   rows left in `sending`. The code has every one of them: a property that
   excludes one needs a change of the code. Section 4 proves what two such changes would
   bring (`RefusingNeverOversells`, `RefusingServes`).
