# Event ticket API: specifications, model checking, proofs

These TLA+ modules describe how the backend (`src/backend/src`) sells seats: what its tables and Redis
keys go through when requests, webhook deliveries, the sweeper, the mail worker, crashes and lost calls
interleave. Paths below are relative to `src/backend/src` unless they begin with `src/`.

## 1. The system

One Node process (`server.ts`) serves HTTP, runs a sweep of overdue holds each minute and a BullMQ
worker; MySQL holds the tables, Redis the caches, codes, sessions and the queue. Every `await` is a
point where other requests run, so what matters is which steps are joined by a transaction, a row lock,
a unique key or a Lua script, and which are not.

| Component | State | Operations | Talks to |
|---|---|---|---|
| Seat holds (`modules/reservations`) | `seats.status`, `reservations` | create, cancel, expireOverdue, myReservations | seat count cache |
| Sweeper (`server.ts`) | none | expireOverdue every 60 s | holds |
| Checkout (`payments.service.ts`) | none of its own | createCheckoutSession | holds, provider |
| Webhooks (`webhooks.*.ts`) | `processed_webhook_events`, `payments` | one handler per event type | holds, tickets, notifications, seat count cache |
| Tickets (`modules/tickets`) | `tickets` | generateForReservations, validate, listings | storage |
| Sections and seats | `sections`, `seats` | create, edit, remove | provider (product), caches |
| Events (`modules/events`) | `events`, versioned list cache | create, banner, publish, cancel, list | notifications (reminder) |
| Auth, users | `users`; codes, attempts, cooldowns, limiter in Redis | register, verify, resend, forgot, reset, profile | mail |
| Sessions (`modules/auth`) | `auth:refresh:{userId}`, cookies, access tokens | login, refresh, logout | |
| Notifications | `notifications`, the queue | enqueue, worker handlers, reminder loop | mail server |
| List caches of venues, sections, favorites | `venues`, `favorites`, lists in Redis | create, edit, remove, list | events |
| Bachs, storage, mail server | external | | |

What is hard in it, and what makes each part correct:

- **Holds**: two tables say whether a seat is taken and must agree; a sweep writes what it read earlier;
  a hold ends by itself; a seat has one live hold.
- **Sale**: events are acknowledged before they are handled, delivered again, reordered, handled side by
  side, and a handler may die at any step. An event is handled once; a confirmed seat is paid for; a payment
  books what is still held and nothing else; a refund shows in both tables; who paid is served.
- **Door**: an entry is granted only for a paid order, and once; a void or spent ticket opens nothing.
- **Caches**: reader and writer are not atomic; a stale answer needs a cause and must not last.
- **Events**: a request saves what it read; a cancellation is final and a published event is reminded of.
- **Codes**: bounded guesses, single use, and a good code is not refused; an account is verified and gets
  a new password only by a code.
- **Sessions**: what a logout, a newer login or time has ended gives no new access, and refreshing cannot
  prolong a login.
- **Mail**: nobody is left out, repetitions need a failure, rows tell the truth.

The full list of hazards, each at its line, is in `PROJECT.json`.

## 2. Modules and what they stand for

TypeORM's `save(entity)` is the recurring step: it selects the row again and writes each column in which
the row *by then* differs from the entity *as it was read*. A read and a later `save` are therefore two
actions, and the second writes stale columns back. `repository.update(criteria, ...)` is one action with
its filter as it stands. A transaction that locks before it looks is one action.

**`Reservations`** (core) — `seatStatus`, `reservations`, and `sweep[w]`, what sweep `w` has read and not
written. `Create`, `Cancel`, `HoldLapses` (the ten minutes), `SweepRead`/`SweepExpire`/`SweepAborts` and
`CancelEvent`. `SeatUnclaimed` is the UNIQUE(seat_id) key. Sweeps of the timer and of the listing
are separate sweepers, so they overlap; two overlapping ticks of the timer are no different from that.
Organizers' edits of seats are not in this module but in `Inventory`.

**`Booking`** extends it with checkout, provider, deliveries and handlers. A delivery occupies a handler `h`;
`pc[h]`, `job[h]`, `todo[h]` are the local state of `handleBachsWebhook` between its awaits: look up,
mark, transaction (`Confirm`, `Release`, `Refund`), `IssueTicket`/`StampTicket` per reservation, `Notify`.
`HandlerDies` leaves what was committed; `ServerRestarts` drops everything that is not in MySQL.
`CheckoutFails` is the provider's refusal. A payment is known by its idempotency key, the event.

**`SeatLedger`** is the abstract specification: a ledger with one sale per seat, `Hold`, `Sell`, `End`. `Booking`
maps the two tables to it (`LedgerView`) and `SellsEachSeatOnce` says that every step of the
detailed system is a step of the ledger or none. In the ledger a sold seat can be `End`ed; that a sweep can
do it is a divergence of its own (below).

**`DoorScan`** extends `Booking` with `validate()`, a read and a save. `validate()` does not ask whether a ticket is
complete, and the signed PDF can be had before the ticket's second save, so `GoodForEntry` looks at `refunded` and
`used` alone. A scan keeps the whole ticket as it read it (`scanned`) and saves all of it (`Used`), QR payload and URL
included. A ticket is `Void` when it is refunded, `Spent` when it is used, and neither a handler nor a scan that read
it earlier is still to save it. **`SeatAvailability`** extends `Booking`
with the cached count: `Misses`, `CountsSeats`, `StoresCount` of a reader; every seat-changing action owes a
delete, which may be lost. **`Inventory`** extends `Reservations` with the section and its seats being made,
edited and removed, and the section's product at the provider.

**`ListCaches`** has the lists under one key each (venues, sections of an event, favorites of a user) and every
request that changes their rows, in its steps: the read or check, the commit, for a section the provider's
answer and the second save, and the delete of the key, which may be lost. What a row holds is the number of
the commit that wrote it, so that an old copy can be told from a new one. Favorites are listed with the
event and the venue, which their own services change (`ChangesEvent`, `SaveRow`) without deleting that list.
`outrun` is a history variable: lists that were stored after, or kept without, a delete.

**`Events`** has the event rows and the versioned list cache. Two history variables say what a list request may be
answered with: `recent` collects the lists published since no bump was still to come, and `valid[q]` is `recent` as it
was when request `q` began, with what was published during it. The module has the reminder too: `publish()` schedules it after its bump
(`Schedules`, `ScheduleFails`), the worker runs it (`Reminds`). A cancellation is `Settled` when no request
that read the event before it is left to save.

**`Otp`** (codes of one address, Redis keys with their remaining life, limiter, cooldown) and **`Accounts`** (the
row of that address, logins, password resets, profile edits) go together. **`Sessions`** has what a login leaves:
the stored token, the cookies and access tokens of several devices, with time, since all of them run out; a
token is the second it was signed in, because that and the user are all it says. `over` and `alive` are
history variables: which sessions have ended, and whether that of an access token was there at some time of
the request. **`Notifications`** has the rows, the queue with attempts and stalls, and the reminder loop.

The `MC*` modules add symmetry sets only; the `.cfg` files give constants their values. `*_Mut` operators
are plausible slips of the operator that follows them; nothing uses them except as evidence that a property
can fail.

## 3. Runs

| Run | Instance | What it shows |
|---|---|---|
| `booking` | 2 users, 1 seat, 2 handlers, the timer and a listing that sweeps, 2 faults | the tables agree, an event is handled once, the sale implements `SeatLedger`; paid orders are ticketed and announced unless a step fails; every hold ends |
| `door` | 2 seats, one order of one or both, 1 handler, 1 scanner, 1 fault | payments book what is held; confirmed means paid, refunded means paid back, announced means ticketed; entries are paid for; void and spent tickets admit nobody and remain so |
| `counts` | 1 seat, 2 readers, 2 handlers, 1 fault, 2 deletes owed | a wrong count has a cause |
| `inventory` | 2 seats, 2 sweepers, 2 organizers, 1 fault | one live hold per seat, held seats exist, only lapsed holds are swept |
| `lists` | 2 primary keys, 1 favorite event, 1 reader, 2 writers, 2 commits, 1 fault | a wrong list has a cause and, once the writers are done, ends for good; an event is a favorite once |
| `accounts` | 2 requests, limit 3 = attempts 3, code life 2 = window 2 ticks, cooldown 1, 2 codes per scope, 2 resets | bounded guesses, single use, good codes accepted, verification and passwords cost codes and, once settled, are not put back |
| `sessions` | 2 devices, 2 requests, access 1, refresh 2, delay 1 of 4 ticks | an ended session grants nothing, access from one login is bounded |
| `event_list` | 2 events, 2 writers, 1 reader, 3 writes, 1 fault | without failures lists are current but between a save and its bump; settled cancellations last; a wrong list ends for good once the organizers are done; published events are reminded of |
| `notifications` | 1 notice, 1 plain mail, reminder with 2 tickets and owners, 2 attempts, 1 fault | truthful rows, repetitions need a failure, nobody is left out |

Three more runs find behaviour the repository's own words exclude:

| Run | Says | What happens |
|---|---|---|
| `resale` | README: seats are released automatically and by cancel | the released seat is `available`, but its old row holds the unique key: it can never be reserved again |
| `sweep_after_payment` | `unit.expiry.test.ts`: booked seats are not released | read, payment commits, then the sweep saves: the booked seat is back on sale |
| `double_entry` | `tickets.e2e.test.ts`: second scan returns `alreadyUsed` | two overlapping scans both let in |

Why the bounds suffice. The interesting cases need two deliveries at a time (of one event, or success against
refund), two sweeps against a handler, two customers for one seat, and one failure anywhere: `booking`. What
needs two seats is that an order has several (a crash between two tickets, a scan of one while the other is issued):
`door`, which is kept to one order by the constraint `OneOrder` of `MCDoorScan`, as scans that keep whole tickets
multiply its states. That a refund finds the payment among several orders rests on the proof of
`RefundedHoldsArePaidBack`. The proofs cover both together and any number. Overlap of stale readers and
writers needs two writers and a reader (`lists`, `event_list`, `inventory`); `MaxSaves` leaves room for a commit
between another's commit and its delete or bump. In `sessions` the lives are the real ones in proportion
(refresh longer than access, requests shorter than either) and time runs past all of them. `MaxFaults` bounds
failures, not where they happen; `MaxAdmissions`, `MaxOwed`, `MaxSaves`, `MaxCodes`, `MaxResets`, `MaxSessions`,
`MaxTime` and `MaxTotal` bound counters. The constants of `Otp` satisfy what the real ones do (15 min code and
window, 5 per address, 5 attempts): `LimiterCovers`.

`CHECK_DEADLOCK FALSE` stands where the system may rightly stop: each seat has one
sale, events of an order run out, and writes, time and faults are bounded.

## 4. Fairness

- The timer reads again and again, and a sweep that has read goes on: `setInterval` swallows errors
  (`server.ts:11-17`), so a failed sweep is followed by another.
- Time passes: holds lapse, keys expire. Redis drops expired keys by itself.
- A handler that has been started goes on while the process lives (the event loop), and so do the requests of
  organizers and list readers in `Events`.
- The provider repeats what was not acknowledged until it is: strong fairness, because the server may be
  busy or restarting in between. It is *not* assumed for acknowledged events: that is why
  `PaidOrdersAreServed` has `faults > 0` as a way out. After a crash behind the acknowledgement
  nothing repairs the order.
- A queued job is taken and worked on (BullMQ worker), a delayed one too when its time has come (`Reminds`); a
  caller that has saved a notification row goes on.
- `lists` assumes nothing of readers and writers: writes are bounded, and after the last of them a wrong list ends
  because its key expires, a hit does not renew it, and what is read from then on is right. `event_list` is the same,
  with requests that go on. That is why `StaleListsEnd` is `<>[]`: an absent list now and then does not satisfy it.

## 5. Proofs

`ReservationsProofs`, `BookingProofs` (with the ledger), `SeatAvailabilityProofs`, `DoorProofs`, `InventoryProofs`,
`EventsProofs` (with `Notifications`), `ListCachesProofs` and `AuthProofs` (`Otp`, `Accounts` and `Sessions`) hold
for any users, seats, rows, sweeps, handlers, scans, organizers, readers, devices, requests, jobs, tickets, lives
of codes and tokens, and faults. Every invariant that a run checks has a theorem, and so has every action property;
what is left to TLC alone is liveness.

- `HoldTypeCorrect`, `HoldAgreement` (`HoldSpec => []SeatReservationAgreement`), `TypeCorrect`
  (`Spec => []TypeOK`), `Agreement` (`Spec => []SeatReservationAgreement`), `Idempotence` (`Spec => []HandledOnce`).
- `ImplementsLedger` (`Spec => SellsEachSeatOnce`, in `BookingProofs`): the flow implements `SeatLedger`. One row
  per seat makes each ledger entry that of one reservation (`LedgerEntries`), so a transaction that moves rows
  moves exactly their entries (`MovedEntries`): creating holds is `Hold` (`CreatedIsHeld`), confirming pending
  rows is `Sell` (`ConfirmedIsSold`), and expiring or refunding is `End` for the rows that were alive and
  nothing for those that had ended (`LeavingIsEnded`). The latter covers a sweep that writes rows it read
  before a webhook ended them. The modules that add to the flow keep it: `CountedSeatsAreSoldOnce` (`CacheSpec`)
  and `DoorsLeaveTheLedger` (`DoorSpec`), because a step of the whole is one of the flow or moves no row
  (`CacheStepsAreSales`, `DoorLeavesReservations`); `CountedSeatsAgree` keeps agreement in the same way.
- Why agreement is not inductive: `SweepExpire` writes what it read, so one needs to know what can have
  happened meanwhile. `HoldInv` adds (1) one row per seat, which makes a write to a
  seat a write to one reservation, and (2) for each row a sweep remembers, the row exists and its seat *was* `reserved`
  when read; hence a sweep sets both tables together, whatever they hold by then.
- `BookingProofs` adds that orders name rows and exactly their seats (`Inv`), so the filters of a webhook
  handler on the two tables select corresponding rows, and for `HandledOnce` that a job beyond the marker is of a
  marked event and no two such jobs share one.
- Money (`DoorProofs`): `NoFreeSeats` (`Spec => []ConfirmedIsPaid`), `RefundsFindThePayment`
  (`Spec => []RefundedHoldsArePaidBack`), `PaymentsBookBoth` (`Spec => PaymentsBookWhatIsHeld`) and
  `NobodyEntersForFree` (`DoorSpec => []EntriesWerePaid`). Rows come to be
  confirmed or refunded only in a webhook's transaction (`NothingSettles`). A refund selects payments by user:
  it finds the right one because a row's owner is the user of every order that names it (`Inv`).
  Tickets, and the rows a handler has yet to ticket, belong to recorded payments (`ServedArePaid`).
- Tickets (`DoorProofs`): `SpentIsFinal` (`SpentTicketsAdmitNobody`), `VoidIsFinal` (`VoidTicketsAdmitNobody`) and
  `AnnouncedTicketsExist` (`[]AnnouncedOrdersAreTicketed`). The second save of a ticket resets a used or refunded one,
  and a scan puts back what it read. That a ticket out of everybody's hands is never taken in hand by a handler again
  needs a history no single state shows: reservations belong to one order (`OrdersAreDisjoint`, new rows are new), so an order's payment is
  one event (`OnePayment`), which is past its marker once (`HandledOnce`) and not recorded before its transaction
  (`PaymentsAreNew`); so a reservation is served by one handler (`OneHandler`), and what that has served it does not come back to
  (`HandlersServe`, `EndedStep`). A scan that saves an unfinished ticket over a finished one leaves it used, which is as much as
  can be said of announced orders (`TicketInv`).
- Event list (`EventsProofs`): `ListsAreRecent` (`Spec => []AnswersAreRecent`). With every commit counted, what is or
  will be stored under the key in use is right or, while bumps are to come, one of `recent` (`StoredIsRecent`,
  `RecentIsTold`), because a bump makes all that is under way old
  (`KeysAreOld`). The first bump does not, as a missing version counts as 1; without failures it does no harm because until two
  commits are uncounted no list shows anything (`FirstIsADraft`). `CancellationsAreFinal`
  (`SettledCancellationsLast`) needs that only requests that found a draft publish (`SavesFollowChecks`).
- Lists (`ListCachesProofs`): `StaleListsAreExplained` (`Spec => []WrongListsHaveACause`) says the same of what a
  reader has selected and not stored as of what is stored (`FillsHaveACause`): a commit makes either wrong
  and owes the delete of exactly that key. `FavoritesAreUnique` (`Spec => []OneFavoritePerEvent`).
- Counts (`SeatAvailabilityProofs`): `CountsAreExplained` (`CacheSpec => []WrongCountsHaveACause`). Steps that leave
  `seats.status` alone are told from those that change it (`OthersLeaveSeats`), and each of the latter owes a
  delete from the same step on (`ChangesOweDeletes`).
- Codes (`AuthProofs`): `GuessesRunOut` (`[]GuessesAreBounded`), `CodesAreSingleUse` (`[]CodesWorkOnce`) and
  `GoodCodesGetIn` (`[]GoodCodesAreAccepted`), all for `AccountSpec`. The counter of attempts bounds nothing by
  itself: it may run out before the code does, and the guesses at the code stay. `LimiterInv` shows what does: the
  guesses at the code, and likewise the attempts counted, *together with the claims that are in progress*, are
  at most the limiter's hits and at most its limit, and the limiter's key, renewed by every hit, lives as long as
  either. It needs `LimiterCovers`, which the constants of the code satisfy with equality. A code that can be accepted
  is one that has not been (`SingleUse`), since the script deletes it when it matches.
- Accounts (`AuthProofs`): `AddressesAreProved` (`[]SignedInUsersProvedTheirAddress`): rows held by requests in
  progress are no more verified than codes allow, so a stale save cannot verify (`VerifiedByCode`).
  `PasswordsArePaidFor` (`[]PasswordsCostCodes`): accepted reset codes are counted where they are, claimed, in a reset
  in progress or turned into a password (`ResetByCode`); no held row has a later password than the last reset.
  `WhatIsSettledStands` (`SettledAccountsStand`): a step leaves the row alone, proves the address in its own column or
  saves what a request holds (`RowSteps`), and no request that holds an older row is left.
- Mail (`EventsProofs`): `MailsAreRepeatedForCause` (`MailSpec => []RepeatedMailsHaveACause`), `RowsAreTrue`
  (`[]RowsTellTheTruth`). The bound of one mail and one more per failure is not inductive. `MailsArePaidFor` adds that
  whoever can still be sent to in this attempt has no more mails than failures: a job before its mail, a user
  the reminder has not reached or is about to send to. A handler that throws after the mail needs a failed save
  for it, a refusal does not but sends nothing. `RowsFollowMails` ties the row to the place of the job: `save` is reached
  with a mail, `deny` without failures without one.
- Types: `InventoryTyped`, `AccountsTyped`, `EventsTyped`, `MailTyped`. In `Events` the bounds need counting
  (`TypeInv`): the version and the requests yet to bump it, and the reminders of an event and the requests in
  progress, are no more than the saves begun. In `Notifications` a job that is not at its end has an attempt left
  (`AttemptsAreLeft`).
- Sessions (`AuthProofs`): `SessionsTyped`, `EndIsFinal` (`[]EndedSessionsGrantNothing`) and `LoginsRunOut`
  (`[]AccessIsBounded`). A refresh looks once and signs later; what is stored is not over, and what was over when
  the refresh began can be stored only by a login that revives it within the same second. Each request knows how
  long ago it and its token began (`InTime`).
- Assumptions: `FaultBudget`, `AdmissionBudget` at the door, `EventBounds`, `ListBounds` (the table names are no users),
  `CacheMarks` (marks are no counts), `Durations`, `LimiterCovers` (above), `AccountBounds`, `SessionTimes`,
  `NotificationBounds` and `NamesDiffer` (generated keys of jobs, rows and users differ). No set has to be finite:
  where requests are counted, that finitely many are in progress is part of the invariant.

Agreement is proved for the services that sell. It is *broken* by an organizer's rename (`RenamesKeepTheStatus`,
section 6), which is why `Inventory` states other things, proved in `InventoryProofs` without agreement:

- `NoDoubleBooking` (`InventorySpec => []OneLiveHoldPerSeat`): the lock of `create()` no longer protects a held
  seat that a stale save shows as available; the unique key does. `TablesInv` keeps one row per seat.
- `SeatsOfHoldsStay` (`[]HeldSeatsExist`): removal needs a seat no row refers to, and `create()` a seat that is there.
- `HoldsLastTheirTime` (`UnlapsedHoldsAreKept`): every row a sweep remembers was overdue and stays so
  (`SweepsSawOverdue`), so an old sweep cannot end a hold that has time left.

Only model-checked: liveness (`PaidOrdersAreServed`, `HoldsEnd`, the two `StaleListsEnd`, `PublishedEventsAreReminded`,
`EveryoneIsTried`), which is out of the prover's reach because it rests on fairness
and `ENABLED`. No module is recursive.

Modules that are proved about together have distinct names: `Sessions` and `Otp`, and `Events` and `Notifications`
(`MailSpec`, `MailTypeOK`, `breakdowns` for `Spec`, `TypeOK`, `faults`).

## 6. Known divergences stated but not run

Each is a formula in its module that the code violates; TLC shows each within seconds when it is put in a `.cfg`.

| Formula | Module | What happens |
|---|---|---|
| `PaymentBooksSeats` | Booking | a payment after the hold lapsed confirms nothing, is recorded, and tickets are issued |
| `ConfirmedHasStandingPayment` | Booking | a refund marks all payments of the user refunded |
| `RefundedOrdersHaveNoTicket` | Booking | the second save of a ticket, or its late insert, outlives the refund |
| `RefundsAreFinal` | Booking | a payment handled after its refund confirms the reservations of the refunded order |
| `EntriesAreRemembered` | DoorScan | the second save of a ticket writes `isUsed = false` over a scan made before it: the next scan admits again |
| `RefundsOutlastScans` | DoorScan | a scan that read before a refund saves `isRefunded = false` |
| `CountsAreCurrent` | SeatAvailability | a late `setex` stores an old count after the delete |
| `RenamesKeepTheStatus` | Inventory | README: PATCH seat is "Rename"; it puts the status of the seat back to what it had read |
| `CapacityIsKept` | Inventory | two bulk creations count before either inserts |
| `ProductsAreKept` | Inventory | an edit that read the section before its product id was saved puts NULL back: checkout refuses the section |
| `FavoritesAreCurrent` | ListCaches | cached favorites show an event as it was before it was published or cancelled |
| `DeletedRowsStayAway` | ListCaches | an update that read a venue before its removal inserts it again |
| `CooldownIsRespected` | Otp | check and set are apart; two requests mail two codes |
| `VerifiedAccountsStayVerified`, `ResetPasswordsStand` | Accounts | a profile save puts back what it read |
| `ListsAreCurrent` | Events | README: "Fast reads without staleness"; between a save and its bump the list before it is served |
| `OnlyDraftsArePublished` | Events | publish saves over a concurrent cancel |
| `OneReminderPerEvent` | Events | overlapping publish requests, or a second one after a late banner save, add two jobs |
| `RemindedEventsTakePlace` | Events | the job outlives cancel() and its handler does not look |
| `RemindersAreIdempotent` | Notifications | a reminder that is run again starts with the first owner |

Three more are visible in the text alone: `src/README.md:178` calls the limiter "fixed-window", but every hit
renews its expiry (`common/utils/rate-limit.util.ts:12-14`), refused ones too, so the window slides;
the first `INCR` of the event list version makes it 1, which is also what a missing version counts as (harmless while
nothing fails, see `FirstIsADraft`; after a lost first bump or a restart of Redis the next bump keeps the key, and what
is cached under it is served until it expires); and a second favorite that passes the check is refused by the unique key, whose error is
not mapped to the 409 of the check.

## 7. Not modelled

HTTP routing, role checks and input validation (stateless: they only refuse), password, QR and token
cryptography (signatures are taken to be sound), PDF, storage and mail transport (they succeed or throw), prices
and texts, the per-IP limit (only refuses more), `refund.created` and unknown event types (no change), the tables
of organizer accounts and payouts (no code uses them), the frontend (placeholder). Seat count deletes by
organizers are not composed with the sale; refresh and login are modelled for one user, whose key no other
user's request touches.

## 8. Plan

Order so far: holds, sale, their proofs, ledger; door, counts, inventory; accounts; events; notifications; list
caches, sessions, the reminder of an event; proofs of tickets, sessions, list caches and the event list.
Then the proofs of codes, accounts, mail, the seat count and the remaining types, the ledger with the count
and with the door, and settled accounts.

Left, modelling: reminders composed with refunded tickets; a webhook inbox abstraction (each event taken effect at
most once, exactly once without failures) refined by `Booking`; organizer edits with the seat count. Left,
proofs: that `Inventory` implements a ledger too, from the unique key alone; that handlers past their
marker implement the inbox; shorter proofs of `Booking`'s handlers.
