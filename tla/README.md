# ClustR: formal models of the back end

ClustR is a Django back end for housing estates ("clusters"): residents pay bills
from wallets, staff work shifts, managers post announcements, and gates, visitors,
emergencies, maintenance and help desk tickets are recorded. It runs as several
gunicorn workers (`Dockerfile`: two synchronous ones) and Celery workers over one
PostgreSQL database. There is no queue of commands, no row is read with
`select_for_update`, no counter is updated with `F()`, and requests are not wrapped
in transactions (`ATOMIC_REQUESTS` is not set): a request loads objects, decides on
them, changes them and saves them, and another worker may do the same with its own
copies. Nearly every hard question about this code is a question about those stale
copies, about requests that are cut off between two saves, and about requests that
arrive in an order nobody tried. This directory models the parts where such
questions matter most.

- TLC checks the models on small instances (the `MC*.tla` modules and the `.cfg` files).
- TLAPS proves the main safety properties for every value of the constants (the
  `*Proofs.tla` modules).
- `PROJECT.json` lists components, runs, hazards, theorems, and the source lines of
  every definition.

## 1. Inventory

### Shared machinery

| Part | Source | State | What matters here |
|---|---|---|---|
| Models and managers | `core/common/models/base.py`, `managers.py` | rows filtered by cluster | one cluster can be modelled alone |
| Saving | Django `Model.save` | – | without `update_fields` every column of the copy is written, and a row that has been deleted is inserted again; with `update_fields` it fails then |
| Transactions | `transaction.atomic` where used | row locks until the end | READ COMMITTED: queries see what has been committed, an UPDATE waits for the transaction that has written the row |
| Scheduler | `config/celery.py`, `CELERY_BEAT_SCHEDULE` in `config/settings.py` | – | periodic tasks; see the caveat below |
| Middleware, decorators, permissions | `core/common/middleware`, `decorators.py`, `accounts/permissions.py` | audit log | refuse requests; do not change what the models keep |

The scheduler has a gap: `autodiscover_tasks` imports `core.common.tasks`, whose
`__init__.py` imports only `email` and `payment`. A worker started plainly does not
know `check_missed_shifts`, `update_invitation_statuses`, `expire_old_exit_requests`
and the other tasks that beat schedules. Liveness that rests on a task is therefore
stated for a worker that has loaded the module of the task.

### Components

**Bills, wallets, transactions** (`core/common/includes/bills.py`,
`cluster_wallet.py`, `core/common/models/payments/`). State: `Bill.paid_amount`,
acknowledgements, `Wallet.balance` and `available_balance`, `Transaction` rows with
an optional unique `idempotency_key`. Operations: create, edit, delete and acknowledge
a bill, pay it (debit the payer, add to the bill, credit the cluster's wallet, complete
the transaction: one atomic block), credit and transfer from the cluster wallet, dispute.
Hard: copies loaded before the block, retries with the same key, deaths inside the
block, waiting for rows, a second check in the middle of the block, and `BillViewSet`
(`members/views_payment.py:273`), a complete `ModelViewSet`: PUT and PATCH set amount,
addressee, category, due date and lateness, compare nothing with what has been paid, and
save every column of their copy, `paid_amount` too; DELETE takes a bill away at any time.
Correct when no payment takes a bill beyond its amount, no wallet is overdrawn, no money
appears, one key charges once, every payment shows on the bill, and requests do not block
each other for ever.
The services are what is modelled, as the tests call them: on the HTTP side
`pay_bill`, `acknowledge_bill` and `dispute_bill` (`members/views_payment.py`) are
detail actions without a `pk` parameter and fail before they reach the service.

**Bill disputes** (`Bill.dispute`, `BillDispute`). State: disputes with a status and
a partial unique constraint (one active dispute per user and bill). Hard: `resolve`,
`reject` and `set_under_review` decide on nothing, `withdraw` on a copy; payment by
wallet never asks for disputes.

**Recurring payments** (`recurring_payment.py`, `includes/recurring_payments.py`,
`tasks/payment.py`, the command `process_utility_payments`). State: status, failed
attempts, next date. Operations: create, pause, resume, cancel, update, the runs of
the command. Hard: a run saves counter and status of payments it loaded at its start;
runs overlap; resume, cancel and update decide on copies. Correct when used-up
failures pause a payment, the counter counts what was attempted, and a cancelled
payment stays cancelled. As the code stands no attempt takes money: the failed INSERT
rolls back what it froze, and what is committed is the failure. But the metadata that a
client gives a recurring payment is passed on as keyword arguments
(`recurring_payment.py:318`), and if it names the `idempotency_key` of a transaction of
the same wallet, `utilities.py:502` reports a repeated payment as a success: nothing is
paid, the counter is cleared, the next date moves, and the payment may expire. The daily
run fails on
every payment (`payments.py:208` names a transaction type
that does not exist) and moves nothing; the members' `update` handler lacks the
parameter its route passes, the service behind it is what is modelled.

**Utility payments, providers, payment errors** (`includes/utilities.py`,
`payments.py`, `payment_error.py`, `third_party_services/`). Freeze an amount, insert a
transaction, call a provider over HTTP, complete or unfreeze. As it stands the insert
always fails (a UUID in a JSON column) and the freeze is rolled back with it.

**Shifts** (`core/common/models/shift/`, `includes/shifts.py`,
`management/views_shift.py`, `tasks/shift.py`). State: shifts (staff, times, status,
clock-in and clock-out times) and swap requests. Operations: create, update, delete,
clock in, clock out, cancel, mark as no-show, file, edit, delete, approve and reject a
swap request, the periodic sweep for missed shifts. Hard: the overlap check and the write are separate
statements; the sweep saves whole rows it read earlier and stops at the first row
that fails; an answer to a swap request is not recorded in its status; a swap saves
two rows one after the other. Correct when nobody is booked twice, status and clock
times agree, an attended shift is not a no-show, every missed shift is marked in the
end, and a request is answered once.

**Announcements** (`members/views_announcement.py`,
`management/views_announcement.py`, `core/common/models/announcement/`). State: rows,
three counters kept beside the rows that record views, likes, comments, and read
statuses. Operations: retrieve, like, unlike, mark as read and unread, comment,
create, update, publish, unpublish, delete. Hard: a counter is written from a copy
after the row it counts has been committed; an update writes all columns, counters
included, and may insert a deleted announcement again. Correct when counters never
claim what is not there and miss only what a crash or an overlap explains.

**Visitors and invitations** (`models/visitor/`, `invitation/`, their views and
serializers, `tasks/invitation.py`). State: visitors with a status, invitations with a
visitor, a status, dates and a record of who revoked them. Operations: create, update,
delete, revoke, check in, check out, reject, the daily expiry. Hard: residents save
whole rows, managers some columns, the task a bulk UPDATE; `check_in` and `check_out`
ask nothing of the status. Correct when a revocation is traced and final, dates are in
order, an invitation has its visitor, nobody who is inside is rejected, and what is
over expires.

**Maintenance** (`models/maintenance/`, `includes/maintenance.py`,
`management/views_maintenance.py`). State: logs with a status, two stamps and a
duration. Operations: create, PATCH and PUT, assign, delete. Hard: `MaintenanceLog.save`
reads the row once more and stamps only when the status differs. Correct when
duration, stamps and status agree, and stamps once set are kept.

**Child exits** (`models/child/`, `management/views_child.py`, `members/views_child.py`,
`tasks/child.py`, `tasks/exit_request.py`). State: exit requests and exit logs.
`management/urls.py` registers neither the view set that answers requests nor the one
that marks logs, so that no request is ever approved and no log created through the
API. What remains, residents who edit or cancel a pending request while an hourly task
expires it, is the situation of `Visits` with fewer operations.

**Events** (`models/event/` and its views). Guest lists created one by one; access
codes cannot be generated (a missing import).

**Emergencies** (`includes/emergencies.py`, `models/emergency/`). An alert that
several people acknowledge, respond to, resolve or cancel, each on a copy.

**Tasks, help desk** (`models/task`, `helpdesk`, `includes/tasks.py`, `helpdesk.py`).
Creating a task fails (`Task.save` reads the row it is about to insert); assigning and
escalating an issue fail on undefined names.

**Notifications** (`includes/notifications.py`, `tasks/notification.py`,
`core/notifications/`). Critical events are sent at once through a thread pool, the
others by Celery. The task filters users by a field that does not exist, so what has
been reported as dispatched is not delivered. The modelled components ignore the
result of a notification.

**Accounts** (`accounts/`). Users, roles, settings, login counters and lockout,
verification keys, password history.

**The rest**: residents and staff (CRUD), meetings (models only), chat (its URLs are
commented out), data exchange (spreadsheets), files, e-mail, the API schema.

How they interact: views call the services in `core/common/includes`, services call
the models and each other (`process_payment` calls `Bill.add_payment`, which calls
`Wallet.debit` and `credit_cluster_from_bill_payment`), Celery tasks call the same
services, and everything else is shared through database rows. There are no signals
or callbacks between the modelled components.

`PROJECT.json` lists each hazard at its line with the properties that would catch it.

## 2. The modules

| Module | Role |
|---|---|
| `BillPayments` | payments, the cluster wallet, acknowledgements, edits and deletions of bills, due dates, deaths |
| `BillAccounts` | extends it with the books: sums over completed transactions |
| `PaymentLedger` | the abstract specification that payments implement |
| `Shifts` | shifts, swap requests, the sweep |
| `Announcements` | announcements, their counters and the rows these count |
| `RecurringPayments` | recurring payments, requests on them, overlapping runs |
| `Maintenance` | maintenance logs and the save that reads before it writes |
| `Visits` | visitors, invitations, the daily expiry |
| `Roster`, `PaymentSchedule`, `MaintenanceBook`, `GuestList` | what `Shifts`, `RecurringPayments`, `Maintenance` and `Visits` implement: each request one step |
| `MC` and one of these names | instances for TLC (`MCBillPayments` extends `BillAccounts`) |
| `BillPaymentsProofs`, `BillAccountsProofs`, `ShiftsProofs`, `AnnouncementsProofs`, `RecurringPaymentsProofs`, `MaintenanceProofs`, `VisitsProofs` | theorems and proofs, for any number of workers where not said otherwise |
| `AnnouncementsAloneProofs` | extends `AnnouncementsProofs`: what holds with one worker |

In all models a *worker* serves one request at a time. `job` says which request it is,
`pc` (or a field of `job`) which query comes next, and `copy` (or `mem`) holds the
objects it has loaded. Between two actions of one worker any other worker may act:
an action is what one database statement, or one atomic block, makes visible, with
all the code around it that the others cannot see. `Crash`, `Die`, `Stop` or `Abandon`
ends a request or a run at any point; what was committed stays. A request that its
first query refuses changes nothing and is left out. In the last three models a request
is a `Load` and a save; history variables record whose copy has become outdated, since
what these components keep is mostly what they keep *unless* an outdated copy is saved.

Five abstract specifications say what the components are for without a worker, a copy
or a lock in them: a request tests and changes the committed rows in one step. Each
detailed module instantiates its own and claims it as a property (`ImplementsLedger`,
`ImplementsRoster`, `ImplementsSchedule`, `ImplementsBook`, `ImplementsList`). The code
takes no locks, so the claim needs either one worker (`PaymentLedger`, `Roster`) or an
abstract specification that says what an overtaken save may do (the other three): a row
may be overwritten, but only when it was changed behind the back of whoever saves it,
and in `MaintenanceBook` and `GuestList` only within stated limits. Everything that is
not such an overwriting must be a legal step of the row as it is.

### BillPayments

| Model | Code |
|---|---|
| `wallet`, `paid`, `payments` | committed `Wallet` rows, `Bill.paid_amount`, `BILL_PAYMENT` transactions by key |
| `terms` | the other columns of a `Bill` row that decide on payments: amount, payer (`None` for a cluster-wide or cluster-managed bill), the last moment of payment (`None` when late payment is allowed); `None`: no row |
| `acked`, `users`, `now` | acknowledgements, the residents with an account, the clock |
| `highest` | history: the largest amount a bill has been given |
| `lock` | the open transaction that has written a row |
| `Receive`, `LoadWallet` | the view loads the bill, then the wallet |
| `Validate` | `process_payment` up to the INSERT: `can_be_paid_by`, amount, balance, duplicate key |
| `InsertTransaction` | the PENDING transaction; the unique key makes it wait or fail |
| `DebitWallet`, `UpdateBill` | `Wallet.debit`; the second `can_be_paid_by`, `paid_amount += amount`, a save that fails on a deleted bill |
| `LoadCluster`, `WriteCluster` | `get_or_create` of the cluster wallet, then its credit or debit |
| `Commit`, `Rollback` | the end of `@transaction.atomic` |
| `Finish` | the end of a payment whose `add_payment` found no account and returned early: the transaction is completed, and no money has moved |
| `Acknowledge` | `Bill.acknowledge`, after the addressee was checked on a copy |
| `Receive` of an edit, `Save` | `perform_update`: the copy with the new terms, all columns saved, inserted when the row is gone |
| `Create`, `Delete`, `Leave`, `Tick` | a new bill; its deletion and that of a payer's account, with the acknowledgements; time |

A transaction's writes are invisible until `Commit`, so the model keeps them in the
worker's `mem` and the rows in `lock`. Each `save(update_fields=[...])` writes the
worker's value, whatever the row has become since. Payments carry an idempotency key;
one without would add behaviours in which nothing is promised about charging once.
`PaymentLedger` is what a caller believes: a payment is a single step that takes from
the payer what it adds to bill and cluster wallet, within what is left and available,
once per key, by the addressee who has acknowledged the bill. `Ledger == INSTANCE
PaymentLedger WITH ...` maps with the identity on `wallet`, `terms`, `paid`, `payments`
and `acked`: every step of a request but the last is a stutter. An edit of the ledger
changes the terms and nothing else, so that a worker's edit must put back the
`paid_amount` that the row has.
`BillAccounts` adds up the completed transactions (`PaidFor` a bill, `PaidFrom` a wallet).

### Shifts

| Model | Code |
|---|---|
| `shift`, `swap` | `Shift` and `ShiftSwapRequest` rows (`None`: no row) |
| `copy`, `todo`, `saving` | loaded objects as changed, those to be saved, the one that passed `full_clean` |
| `Create`, `Update`, `ClockIn`, `ClockOut`, `MarkNoShow`, `Cancel`, `Delete` | the view's actions with the service or model method they call |
| `FileSwap` | the admin form; the API's call does not match `create_swap_request` |
| `EditSwap`, `SaveSwap`, `DeleteSwap` | PUT, PATCH and DELETE of a swap request, which ask for nothing but existing shifts |
| `Approve`, `Reject`, `Answer` | `ShiftSwapRequest.approve`, `reject`: the row is saved without its status |
| `Sweep` | `mark_missed_shifts`: one query, then a save per row, latest start first |
| `Check` | `check_conflicts` of the create and update views |
| `Clean`, `Write` | `Shift.save`: the overlap query of `full_clean`, then the UPDATE or INSERT |

`Saved` tells whole-row saves, which restore a deleted row, from saves of
`update_fields`. Times are small integers; `Tick` moves the clock. `None` as the
answer of a request is "not answered": `answer` records `approved_by` and the message.
`Plan == INSTANCE Roster` has the rows and the clock of `Shifts`: a save is a step of the
roster, loads, checks and answers that find nothing are stutters. A swap is two steps of
it, `Cover` for each side, since the code saves the sides one after the other.

### Announcements

| Model | Code |
|---|---|
| `row` | `is_published`, `views_count`, `likes_count`, `comments_count` |
| `viewed`, `liked`, `comment`, `read` | the interaction rows |
| `held` | the worker's like or read status object still has its row |
| `ByMember`, `ByManager`, `AddComment` | `get_object` of a request |
| `Insert`, `Count` | `get_or_create` of a view or like, then the save of its counter |
| `Own`, `Unlike` | the lookup of the like, then the atomic block |
| `PostComment` | the atomic block of `add_comment` |
| `Status`, `Flag` | read status: get or create, then save |
| `Again`, `Write` | `perform_update` (reads once more, writes every column), `publish`, `unpublish` |
| `Cascade` | `destroy` |

`revived` is a history variable: it names the announcements that an update has
inserted again after their deletion, the one case in which a counter may claim rows
that are gone.

### RecurringPayments

| Model | Code |
|---|---|
| `row`, `batch` | status and `failed_attempts` of a payment; the payments a run has loaded and not yet attempted |
| `Load`, `Save` | the service loads and tests, then saves: pause and cancel the status, resume status and counter, update every column |
| `Start`, `Attempt`, `Stop` | the query of the command, one atomic block per payment, the death of the run |
| `Fail` | the counter goes up, and the status to PAUSED when the limit is reached |
| `Succeed` | the key of an existing transaction in the metadata: the counter is cleared, and the status is EXPIRED when the next date passes the end date |
| `tries`, `raced` | history: failures since creation, resumption or success; payments saved over a change not yet seen, until they are resumed or succeed |

`Schedule == INSTANCE PaymentSchedule` keeps `row` and `raced`. A resumption or success
that nobody overtook writes status and counter afresh, so that it ends the exception.
Dates are left open: a run may find any set of active payments due, and any success may
be the last before the end date.

### Maintenance

| Model | Code |
|---|---|
| `row` | status, `started_at`, `completed_at`, `actual_duration` |
| `Load` | a PATCH or PUT of status and duration; an assignment asks for neither |
| `Read` | the row read again by `MaintenanceLog.save`; it fails when the row is gone |
| `Stamped`, `Timed` | the stamps that follow from a change of status; the duration |
| `Write` | UPDATE, or INSERT when there is no row to update |
| `stale`, `raced`, `deleted`, `pending` | history: workers with an outdated copy, logs they saved, deleted logs, logs deleted between `Read` and `Write` |

`Book == INSTANCE MaintenanceBook WITH outdated <- {job[w].on : w \in stale}`: what the
book must know of the workers is which logs some of them hold an outdated copy of.

### Visits

| Model | Code |
|---|---|
| `visit`, `row` | `Visitor` rows; `Invitation` rows with `revoked` for who, when and why |
| `Revoke` | by a resident (whole save) or a manager (`update_fields`) |
| `UpdateInvitation`, `ValidDates` | PATCH and PUT with the serializer's comparison of dates |
| `SaveInvitation`, `SaveVisitor` | the save, which inserts a row that is gone unless `update_fields` is given |
| `Expire` | `update_invitation_statuses`, one bulk UPDATE |
| `Check`, `UpdateVisitor`, `Reject` | check-in and check-out, updates, the resident's `revoke_invitation` |
| `DeleteVisitor`, `Cascade` | deletion with the invitations of the visitor |
| `stale`, `patched`, `shifted` | history: workers with an outdated copy, invitations whose status was set by hand, whose start was moved alone |

`List == INSTANCE GuestList` maps `outdated` to the rows and columns that workers with an
outdated copy are about to save. The columns matter: a manager's revocation that was
overtaken still changes only the status and who revoked, while a resident's, a save of
all columns, overwrites dates and visitor as well.

## 3. What the runs show

| Run | Question | Instance |
|---|---|---|
| `bill_payments` | Do concurrent payments, credits and transfers overpay a bill, overdraw a wallet, invent money, charge a key twice, or block each other, also while the bill is edited and deleted? | 2 workers, 1 bill of 2 or 1, balance 2, 2 keys, amounts up to 1 (0: the rest of the bill), any number of deaths; one worker pays and moves the cluster's money, the other does all but the latter |
| `bill_payments_ledger` | Is a payment atomic for a caller, whatever point its worker dies at, and do bills and wallets show every completed payment? | 1 worker, 2 residents, 2 bills that change their amount, addressee and due date, 2 keys, 2 moments, every operation |
| `lost_payment` | Does a bill show every payment? No, even if it is never edited. | 2 workers, 1 bill, balance 3 |
| `shifts_one_worker` | Are double bookings excluded when requests and sweeps do not overlap, are attended shifts safe from the sweep, are missed shifts marked, is every save a legal step of the roster? | 1 worker, 2 shifts, 2 staff, overlapping windows, 1 swap request that is also edited and deleted, every operation but `clock_out` |
| `shifts_concurrent` | Do stale saves leave a row that contradicts itself? | 2 web workers and a Celery worker, 1 death, 1 shift, every operation but swaps |
| `shifts_double_booking` | Does the overlap check hold between two workers? No. | 2 web workers, 2 shifts, 1 staff member |
| `shifts_swap_twice` | Is an answered swap request refused? No. | 1 worker, 2 shifts, 1 request |
| `announcements_one_worker` | Are the counters right when requests do not overlap, but workers die? | 1 worker, 1 announcement, 2 users, 2 comments, 2 deaths |
| `announcements_concurrent` | Do overlapping increments, updates and deletions make counters claim too much? | 2 workers, 1 announcement, 2 users, 1 comment, no deaths |
| `recurring_payments` | Is a payment paused when its failures are used up, and does only an outdated save undo a cancellation, while runs overlap with requests and with each other? Is all else a step of the schedule? | 2 workers, 2 runs, 1 payment, 3 failures, 4 attempts |
| `maintenance` | Do duration, stamps and status agree when every save reads the row again before it overwrites it? Is a save that nobody overtook one step? | 2 workers, 1 log, 3 statuses, 1 requested duration, 3 times |
| `visits` | Are revocations traced and final, dates in order, visitors inside left alone, does what is over expire, and is a save that nobody overtook one step? | 2 workers, 1 visitor, 1 invitation, 2 days |

### The properties

*Payments.* An amount may be lowered below what has been paid, and nothing in the code
objects; what is left on the bill is negative then and nobody can pay it. So
`NeverOverpaid` does not compare `paid_amount` with the present amount: it bounds it by
the largest the bill has been given (`highest`), whatever edits, deletions and
re-insertions come in between, and so says of a bill whose amount was never lowered what
its name says. `PaymentsFit` compares with the present amount where the code tries to:
a payment that completes never takes the bill beyond its amount, unless the bill was
edited behind the payer's back. Both, like `Solvent`, survive stale copies for a reason
that is easy to break: the amount is checked against the very copy that is later saved.
`NothingInvented` relates rows to the books: stale saves can forget a payment on a
bill or a debit in a wallet, never the reverse. `KeyChargedOnce` covers retries that
overlap the first attempt. `RequestsEnd` is liveness: no cycle of waiting
transactions, no request waiting for a row that nobody will create.
`ImplementsLedger` is the refinement, for one worker; with two it is false, which is
what `lost_payment` shows. `BooksAgree` is what `NothingInvented` becomes without
overlap: equality, for every bill and resident, also after deaths and retries.

*Shifts.* `NoDoubleBooking` with one worker covers all ways to a booking: creation,
update, swap, clock-in after a cancellation, and a swap of which only the first half
was saved. `AttendedIsNoNoShow` and `MissedAreSwept` concern the sweep.
`StatusMatchesClock` is checked under full concurrency. `ImplementsRoster` says of each
save that it is one legal change of the shift as it is, of the request that is being
served, into a window that is free; between load and save lie the conflict checks and
the answer, and a sweep or swap holds several shifts, of which the earlier are saved
while it holds the later.

*Announcements.* With one worker: `CommentCountExact`, `LikesNeverInflated` (not
obvious: `unlike` may take back a like that a crash left uncounted) and
`DriftOnlyByCrashes`. With two: `ViewsNeverInflated` and `CommentsNeverInflated`.
`LikesNeverInflated` is false with two workers, since a like counted from a copy that
is older than an `unlike` restores the like taken back; the code promises nothing
about it beyond a help text.

*Recurring payments.* `AutoPaused` holds although counter and status are written from
copies of any age, because both are written together by whoever raises the counter.
`HonestCount` and `CancelIsFinal` hold until an outdated copy is saved (`raced`); that
an outdated copy does undo a cancellation is why the exception is there.
`ImplementsSchedule` says that this is all that overlap does: what is not a save over an
unseen change is a pause, resumption, cancellation, failure or success of the payment as
it is.

*Maintenance.* `DurationAgrees` has no exception: each save computes the duration after
it has stamped. `StatusIsStamped` and `StampsAreKept` name the exception of a save from
an outdated copy, which finds the status it wants in the row and so stamps nothing, or
takes a stamp back. `DeletedStaysDeleted` names the window between the two halves of a
save; without the first half every save would bring the log back. `ImplementsBook` ties
stamps, duration and status together over the two halves: a save by a worker whom
nobody overtook is one change of the log as it is, and even an overwriting leaves a log
whose duration agrees with its stamps.

*Visits.* `RevokedIsTraced` spans four kinds of saves with different columns;
`RevocationIsFinal` and `NotRejectedInside` are action properties with the outdated save
and the hand-set status as exceptions (`Excused`); `DatesInOrder` survives updates of
one date, save that of the start alone, which `validate` does not compare. `NoOrphans`
covers an invitation that is inserted again after its visitor has gone. `OverdueExpire`
is liveness, also for invitations activated again by hand or by an outdated save.
`ImplementsList` confines what overlap can do to the rows and the columns of outdated
saves: with `update_fields` widened to the whole row it is violated.

### The bounds

Two workers suffice to overlap any pair of handlers, and every hazard listed is one of
a pair. A bill of 2 with payments of 1 or of the rest gives partial payments, a
payment that completes the bill, and one that no longer fits; lowered to 1 it is exactly
paid, overpaid or still open. Two keys give two different payments and a repeated one.
With both workers asked for everything `bill_payments` has several times the states and
its liveness takes too long; that only one of them moves the cluster's money loses no
pair of operations that write the same row but two of these, whose rows `Solvent` is
proved for. In `bill_payments_ledger`, where one worker does everything, a bill comes to
another addressee, loses its due date or gets one, and time passes once. Two shifts with overlapping windows and two
staff are the least in which a booking conflicts and a swap exchanges something; the
single worker of that run is both web and Celery worker, so that sweeps and requests
alternate. `clock_out` is left to `shifts_concurrent`: with it the run has four times
the states, and its checking of liveness becomes too long; the theorems on one worker
cover it. Two users and two comments let a counter be wrong in both directions.
Three failures (the default of `max_failed_attempts`) and two runs let counters of
different ages overwrite each other below the limit, four attempts let one happen after
a pause and a resumption. One log, visitor or invitation suffices where no rule relates
two of them; three times give a log a start, an end and a later reopening, two days an
invitation that ends and an overdue one.
`MaxRequest`, `MaxCluster`, `MaxTime`, `MaxDay`, `MaxTries`, `MaxCount` and `MaxCrashes`
bound amounts, the cluster wallet, the clock, the days, attempts that fail in a row,
counters and deaths; `Ops` selects the operations of a run or of each of its workers,
`Statuses`, `Durations`, `Asked` and `AskedVisit` what its requests ask for.
`MaxCount` stops requests that would count further, not the counting itself.
Deadlock is checked except in the runs of `Shifts`: its clock ends, and a cluster in
which all shifts are over may have nothing left to do.
Symmetry is used in `announcements_concurrent`, `recurring_payments` and `maintenance`,
which check invariants and action properties only, in which no worker is named.

## 4. Fairness

`BillPayments!FairSpec`: strong fairness of the steps that serve a request, for every
worker (`SF_pc(Serve(w))`: each of them moves `pc`). A transaction
that waits for a row is queued by PostgreSQL and is granted the row after its holder
ends, although in the model the row may be free and taken again in between: hence
strong and not weak fairness. Nothing obliges clients to send requests, workers to
die, or managers to edit, delete or post anything.

`Shifts!FairSpec`: weak fairness of a started request, strong fairness of the sweep,
which beat queues every 15 minutes (`check-missed-shifts-every-15-minutes`) for the
next free worker. This presumes a worker that knows the task (section 1). The run has
no deaths: a worker that dies for ever between the sweep's query and its save would
keep it from ever finishing, which no configuration excludes.

`Visits!Spec`: weak fairness of `Expire`, which beat queues every day
(`update-invitation-statuses-daily`), with the same presumption. Nothing else is fair: an
invitation expires whether or not the requests in flight are ever finished.

`Announcements`, `RecurringPayments` and `Maintenance` have no liveness property: their
requests wait for nobody, and nothing obliges an operator to start the command.

## 5. What is proved

TLAPS checks these for every value of the constants: any number of workers, runs,
residents, bills, keys, shifts, users, payments, logs, visitors, and any bounds.

| Theorem | Statement |
|---|---|
| `TypeCorrect`, `ShiftsTypeCorrect`, `AnnouncementsTypeCorrect`, `RecurringTypeCorrect`, `MaintenanceTypeCorrect`, `VisitsTypeCorrect` | `[]TypeOK` |
| `BillsNeverOverpaid`, `WalletsSolvent` | `[]NeverOverpaid` (at most the largest amount the bill was given), `[]Solvent` |
| `PaymentsNeverExceed` | `PaymentsFit`, an action property |
| `KeysChargeOnce` | `KeyChargedOnce`, an action property |
| `MoneyIsNotInvented` | `[]NothingInvented` |
| `LedgerKeepsBooks`, `OneWorkerKeepsBooks` | `[]BooksAgree` of everything that takes the steps of `PaymentLedger`, and so of one worker, which may die |
| `ScheduleIsImplemented`, `BookIsKept`, `ListIsKept` | `ImplementsSchedule`, `ImplementsBook`, `ImplementsList`: refinements, for any number of workers |
| `OneWorkerKeepsRoster` | one worker, which may die: `ImplementsRoster`, the refinement of `Roster` |
| `NoDeadlock` | `[]NoWaitCycle`: no set of workers in which each waits for another |
| `OneWorkerImplementsLedger` | one worker, which may die: `ImplementsLedger`, the refinement of `PaymentLedger` |
| `StatusAgreesWithClock` | `[]StatusMatchesClock` |
| `OneWorkerNeverDoubleBooks` | one worker, which may die: `[]NoDoubleBooking` |
| `OneWorkerKeepsAttendance` | one worker, which may die: `AttendedIsNoNoShow`, an action property |
| `ViewsAreBacked`, `CommentsAreBacked` | `[]ViewsNeverInflated`, `[]CommentsNeverInflated` |
| `CommentsAreExact`, `LikesAreBacked`, `OnlyDeathsDrift` | one worker, which may die: `[]CommentCountExact`, `[]LikesNeverInflated`, `[]DriftOnlyByCrashes` |
| `PaymentsArePaused`, `CountIsHonest`, `CancellationIsFinal` | `[]AutoPaused`, `[]HonestCount`, `CancelIsFinal` (an action property) |
| `DurationsAgree`, `StatusesAreStamped`, `DeletionIsFinal`, `StampsAreFinal` | `[]DurationAgrees`, `[]StatusIsStamped`, `[]DeletedStaysDeleted`, `StampsAreKept` (an action property) |
| `InvitationsHaveVisitors`, `RevocationsAreTraced`, `DatesStayInOrder` | `[]NoOrphans`, `[]RevokedIsTraced`, `[]DatesInOrder` |
| `RevocationsAreFinal`, `VisitorsInsideAreNotRejected` | `RevocationIsFinal`, `NotRejectedInside`, action properties |

The assumptions are those of the modules: `ConstantsAssumption` (the cluster is no
resident, the bills that clients send have a positive amount, balances start at zero or
more),
`ShiftsAssumption` (windows start before they end), `AnnouncementsAssumption` (users
and comments are finite), `RecurringAssumption` (at least one failure is allowed),
`MaintenanceAssumption` (requests ask for integer durations and for the statuses of the
enumeration), `VisitsAssumption` (keys of visitors and invitations are told apart), each
with the typing of bounds and of `None`.

None of the properties is inductive. The reason is always the same: they speak of
committed rows, and the next committed row comes out of a worker's memory.

*BillPayments.* `IInv` adds `CopiesOK`, what a worker's copies satisfy at each step: the
copy of a bill, an edited one too, shows no more paid and no higher an amount than the
bill has ever had; from `Validate` on, `paid_amount` and the payment together are at most
the amount, both of the copy, and the copy of the wallet covers the payment. Since these
copies are what is saved, it does not matter that the rows have changed. `BillsOK` says
that a bill that is not there shows nothing paid, `KeysOK` that a key held by an open
transaction is not yet committed and held by no other, `LocksOK` how far the holder of a
row has come and that a payment about to commit holds its bill, which can thus be neither
edited nor deleted under it; `PaymentsFit` rests on that. `NoDeadlock` follows from an order: whoever is waited for is
at a later step (`Level`), so the worker of a set that has come farthest waits for no
other in it. For one worker the copies are the rows: at each step of the only request
the payer's wallet and the bill are as they were loaded, and the cluster wallet as it was
read, so that `Commit`, `Acknowledge` and `Save` take a step of the ledger and every other
step of a request stutters; `Finish` never comes about, since the account cannot go while
the only worker is paying.

*BillAccounts.* The sums are `SumFunctionOnSet` of the community modules, a fold defined
by recursion over subsets. Their laws (`SumUnfold` to `SumAdd`) are proved without an
induction theorem: a set of counterexamples among the subsets of a finite set has a
smallest member (`SmallestBad`), since strict inclusion is well-founded there, and taking
one element away from it leads to a contradiction. `MoneyIsNotInvented` adds
`CopiesBacked` to `IInv`: the `paid_amount` about to be written is at most what the
completed payments of the bill and the payment in progress amount to, likewise for
the wallet, and the books only grow, so that the copies of others stay backed.
`LedgerKeepsBooks` is about the abstract specification alone, where a payment enters
bill, wallet and books in one step; `OneWorkerKeepsBooks` follows from it and from
`OneWorkerImplementsLedger`, without going back to the steps of a request.

*Shifts.* `HeldOK` says that each object a worker holds agrees with itself, and that
an object of which only the status is saved has a status that needs no clock time;
`Refers` keeps swap requests pointing at rows. For one worker `SavingOK` adds that an
object which passed `full_clean` still conflicts with nothing when it is written, and
that a save of few columns meets a row with the other columns of the copy, and
`NoShowsOK` that an object about to become a no-show has not been clocked in for since.
The refinement adds `DueOK`: every object still to be saved is what its request makes of
the row as it is now (`Due`), although other rows have been saved since it was loaded,
and an approved swap request has the shifts that are being exchanged; an edit of a swap
request, too, is still one of the row as it is.

*Announcements.* `CountsOK` bounds the counters in each row and in each copy by the
rows they count, with one view to spare for a worker that has just inserted its view
and not yet counted it: its copy is older than the insert. `NewComments` says that the
comment about to be inserted is new, so that the count of comments grows with the
counter. `Serving` says which requests stand at which step.
With one worker the copy shows the counters of its row (`Fresh`), and the counters are
related to the rows they count (`Balanced`): what is missing was lost by a death, and an
`unlike` that finds the counter at zero still takes a like back.

*RecurringPayments, Maintenance, Visits.* A save writes a copy of any age, so the
invariants say of every copy in flight what the properties say of the rows: `Serving`
and `Pending` (used-up failures are not active; the copy passed the test of its
request), `Ready` (the duration agrees with the stamps from `Read` on), `Held`
(revocations are traced, dates in order). Properties with an exception for outdated
copies need of the others that they still agree with their row: `Fresh`. `Late` says
that a deleted log can be written again only by a request that had passed its read.

The refinements rest on a sharper form of `Fresh`: the copy of a worker whom nobody has
overtaken is what its request makes of the row as it is. In `MaintenanceProofs` that is
`Derived`, with the request's fields before the read and with stamps and duration after
it (`SavedByBook`: the two halves of `save` do what the book does at once); in
`VisitsProofs` it is `Current`, which also says that whoever is about to save few columns
holds a revocation, overtaken or not; in `RecurringPayments` whatever is saved without being
`Overtaken` was computed from the row as it is, so that the invariant of the safety
properties suffices.

Every invariant and every action property of a run that passes is proved, and so are the
five refinements, as statements of safety. Only checked by TLC: liveness (`RequestsEnd`,
`MissedAreSwept`, `OverdueExpire`) and everything about ENABLED, which this prover does
not do. That `PaymentLedger` and `Roster` are implemented by one worker is all there is
to prove: with two workers it is false, as `lost_payment` and `shifts_double_booking` show.
No module with a theorem uses a RECURSIVE operator.

## 6. Where the code and what is said of it disagree

| Run | The code | What is said |
|---|---|---|
| `lost_payment` | `bill.py:490` adds to a copy of `paid_amount` read before the transaction | `bill.py:216`, help text: "Amount already paid" |
| `shifts_double_booking` | `shift.py:163` checks, then writes, without lock or constraint | `test_shift_models.py:86`: "Test that overlapping shifts are not allowed." |
| `shifts_swap_twice` | `shift_swap_request.py:111` does not save the status | `shift_swap_request.py:105`: "Can only approve pending requests" |

## 7. What is not modelled, and why

- The Django admin site (`core/common/admin.py` and others), which registers wallets,
  transactions, bills, shifts, swap requests and most other models. Its forms can write
  any column to any value, so that next to nothing could be claimed of rows that are
  edited there; the models contain the one thing that the site alone can do and the rest
  of the code depends on, filing a swap request (`FileSwap`).
- `Bill.remove_acknowledgment` and `mark_as_paid`, which nobody calls; `bills.update_status`
  and `check_and_update_overdue`, which assign to `Bill.status`, a property without a
  setter, and fail.
- A `paid_amount` above a lowered amount as such: it is a state of the code and of the
  model, and what may be said of it is `NeverOverpaid` (section 3).
- A swap of a shift with itself, which the serializer does not refuse: it saves the
  shift with the staff member it has.
- Cluster-wide and cluster-managed bills: the first cannot be acknowledged or paid
  (`AccountUser` has no `cluster`), the second end in a `FieldError`.
- `pay_bill_direct`, `initialize` and `verify_payment`: the first is a list action
  that asks for an object, the others use attributes that do not exist.
- Freezing and unfreezing of amounts. `process_utility_payment` (`utilities.py:464`) is
  the only routed code that freezes; the INSERT that follows raises a `TypeError`, and
  the failed `save` marks the atomic block for rollback, so that no committed wallet row
  ever shows a frozen amount. `Solvent` and its proof rest on this: were that INSERT
  repaired, `freeze_amount`, which saves `available_balance` alone from a copy, would
  have to become an action of `BillPayments` before `available <= balance` is claimed.
- The dates of recurring payments: which payments are due and whether an end date has
  passed is left open in the model, which so allows for every date. `PAYMENT_SYSTEM_ARCHITECTURE.md:79`
  of `members` calls CANCELLED "Permanently stopped", which an outdated save can undo;
  `CancelIsFinal` says exactly when.
- Maintenance schedules, independent of logs, whose daily task fails on a missing
  attribute; attachments, whose upload always fails; comments and costs, which no view
  creates; `update_status`, `start`, `complete`, `cancel` and `postpone`, which nobody
  calls. `clean` is not called either: a log may be completed before it is started, its
  duration being negative then, and a reopened log keeps its completion.
- Visitor logs: the gate saves the status and then inserts or updates a log, so that a
  death in between leaves no log; but logs can be edited and deleted freely and no
  decision reads them. Access codes, recurrence rules, the overstay task: they are not
  applied, or only notify.
- Exit requests and logs: unreachable but for a part that `Visits` already shows.
- Disputes: they cannot be opened over HTTP. Emergencies and login counters are
  independent of what is here; see the plan.
- Shift attendance, statistics, reports, exports: reads, or rows nobody else reads.
- Announcement attachments (cannot be created), the comment view set (no URL) and
  expiry (it only refuses requests).
- Notifications as an effect: their failure is caught where the models call them.
- Tasks, help desk, meetings, chat, roles, data exchange, files, e-mail: for the
  reasons given in `PROJECT.json`.

## 8. Plan

Modules in the order in which they are worth writing, with the abstract
specifications and theorems that go with them:

1. `BillPayments`, `PaymentLedger`, `BillAccounts`: done.
2. `Shifts`: done.
3. `Announcements`: done.
4. `RecurringPayments`: done.
5. `Maintenance`: done.
6. `Visits`: done.
7. `BillDisputes`, composed with `BillPayments`: disputes reviewed, resolved, rejected
   and withdrawn on copies, the partial unique constraint, and payments that do not ask
   (`bill.py:458`: "A bill can be paid if it is not fully paid and has no active
   disputes."). Worth writing when a dispute can be opened. To prove: one active dispute
   per user and bill.
8. `ChildExits`: worth writing when the views that approve are routed. Abstract
   specification: one log per approved request.
9. `Emergencies` and the login counters of `accounts`: guards decided on copies once
   more, with no component that depends on them.

Of the proofs once planned none is left but those out of the prover's reach (section 5).
An abstract specification of `Announcements` would be worth stating next: counters that
are increments of rows, with what deaths and overtaken saves may take from them.
