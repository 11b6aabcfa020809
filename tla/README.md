# KarirKalyan: TLA+ models, checks and proofs

KarirKalyan is a job-application tracker: a Rails API over one PostgreSQL
database, a Next.js client, and background jobs (Solid Queue) that run inside the
same Puma process as the API. This directory holds TLA+ models of the parts whose
correctness depends on what runs at the same time, again, late or not at all, the
TLC runs that check them, and TLAPS proofs of what matters most.

Contents: [Inventory](#inventory) ·
[Modules and the code they stand for](#modules-and-the-code-they-stand-for) ·
[Runs](#runs-what-each-checks-and-what-it-shows) ·
[Bounds](#bounds-and-why-they-are-enough) · [Fairness](#fairness) ·
[Proofs](#proofs) · [Where code and documents part](#where-code-and-documents-part) ·
[Known gaps](#known-gaps-of-the-code) · [Not modelled](#what-is-abstracted-or-not-modelled) ·
[What could follow](#what-could-follow) · [How to run](#how-to-run)

## Inventory

Paths are relative to `src/`. "api" is `api/app`, "web" is `web/app`, and a page is
named by its last folder under `web/app/[locale]/`.

### How the parts interact

```
  browser: tabs of one user, sharing cookies, local storage, one push subscription
     │ server actions, one at a time per tab         ▲ pages rendered, refreshed
     │ fetches of the list, overlapping              │
     ▼                                               │
  Next.js ── proxy.ts (is there a cookie?) ── apiFetch (10 s) ──HTTP + JWT──▶ Rails (Puma threads)
                                                                      │   ▲
                                                              SQL     ▼   │ cache entries
                          ┌──────────────────────────── PostgreSQL ───────┴────────┐
                          │ applications  timeline_entries  users  credentials ... │
                          │ solid_queue jobs            solid_cache entries        │
                          └────────────▲───────────────────────────────────────────┘
                                       │ Solid Queue threads, in the same process
                 FollowUpReminderJob ─▶ mail job ─▶ SMTP      PushDigestJob ─▶ push services
                 InterviewReminderJob   DemoResetJob
```

On the server all sharing goes through the database. There is one process, so a
restart stops requests and jobs together; there are several threads, so any two may be
between two SQL statements at once. Transactions run at READ COMMITTED. In the browser,
a tab sends server actions one after another, in the order of its gestures, each
carrying what the page showed at the gesture; what is under way does not stop the user
from acting again, and other tabs act on the same rows.

### Components

| Component | State it keeps | Operations | What is hard about it | What makes it correct |
|---|---|---|---|---|
| **Application state machine** `api/lib/application_fsm.rb` | none (a frozen table) | `assert_transition!`, `valid_next_states` | `archived` is an extra target, written twice; the sets derived from the table | what is offered is what is accepted; terminal stages stay so |
| **Application writes** `api/controllers/api/v1/applications_controller.rb`, `api/services/applications/transition_service.rb`, `web/lib/actions.ts` | `applications` (status, applied_at, lock_version, columns), `timeline_entries`; each tab's copy | show, create, update, transition, destroy | two tabs on one row; load, check, UPDATE, INSERT, COMMIT, reload are separate steps; a reminder's INSERT between a destroy's statements; crashes | the trail explains the status; no versioned write lands on a row its user has not seen; every request ends |
| **Follow-up reminder** `api/jobs/follow_up_reminder_job.rb`, `retrying_mail_delivery_job.rb`, `api/mailers/follow_up_mailer.rb` | claims (timeline entries with an idempotency key), queued jobs | daily run, claim, enqueue mail, enqueue push, deliver with retries | at-least-once execution, overlapping runs, crash between claim and enqueue, dead zones | one digest per reminder, nobody else's applications in it, held reminders fire |
| **Japanese calendar** `api/lib/japan_calendar.rb` | none | weekend, holiday, seasonal spans | spans may not wrap the year | nothing is sent over the New Year, and what was due then is sent after |
| **Dashboard cache** `api/controllers/api/v1/dashboard_controller.rb` | Solid Cache entries keyed by count, MAX(updated_at), date | hit, miss, recompute in several queries, expiry | key and contents read at different times; stamps taken before commits; midnight | a hit is what a recomputation would give |
| **Application page** `applications/[id]`: transition buttons, details editor, uploads, delete | props of the last render, open panels, typed and remembered inputs, a queue of actions | click, confirm, edit, save, upload, delete, refresh after a 409 | a refresh brings a new lock_version into a form or panel opened over an older row | a move lands where it was seen; a save keeps what the user did not touch |
| **Board** `board/board.tsx` | fetched list, optimistic overlay, drag, card menu, queue of moves | drag, drop, pick, confirm, refresh after a 409 | a second gesture before the first has settled, over cards another tab moves | a move takes the row out of the stage fetched for it; one's own moves are no conflict |
| **New application form** `applications/new` | the fields, the paste box, the ownership warning, a queue of actions | type, pre-fill by link, share or paste, check ownership, create | answers that change fields while the user types or after the form was submitted; lost answers | what is stored is what was shown; the warning is about the company in the field |
| **List and pages** `dashboard/applications-list.tsx`, `api/queries/applications/list_query.rb` | filters, rows, cursor, ticket, address | chips, selects, search, Load more, reload | requests overlap, fail and come back in any order while rows change | one result set, no gaps, honest numbers, nothing moves under the reader |
| **Pins** `web/lib/pins.ts`, `use-pins.ts` | a list of ids in local storage | toggle, clear, parse | tabs and older builds wrote it; rows may be hidden | a pin moves only its own row |
| **Sessions** `auth/sessions_controller.rb`, `web/lib/session-cookie.ts`, `web/proxy.ts`, `api/auth/expired` | `users.jti`, two cookies | sign in, sign out, expiry, redirects | one jti for all devices; a cookie outlives it; two tabs, two accounts | the chip names the session's account; no redirect goes round |
| **Passkeys** `passkeys_controller.rb`, `api/lib/passkey_challenges.rb`, `settings/passkeys-manager.tsx` | a challenge per account, credentials | options, create, register, remove | the session may change between the options and the registration | a passkey is attached to the account it was made for |
| **Push subscriptions** `push_subscriptions_controller.rb`, `api/services/push/notifier.rb`, `settings/push-manager.tsx` | the browser's subscription, rows by endpoint | enable, disable, upsert, delete, prune | two stores changed by two calls, either may fail; an endpoint changes owner | an enabled device has its row |
| **Demo reset** `api/services/demo/reset_service.rb` | the demo user's rows | hourly wipe and reseed | visitors write between its statements | sessions and devices of visitors end cleanly |
| Interview and residence reminders; ceilings; agencies; ghost risk; toasts; rate limits; URL prefill and talking points; exports; profile; HSP calculator; pages and messages; deployment | | | | see [Not modelled](#what-is-abstracted-or-not-modelled) |

The hazards of this code, each at its line and with the properties that would
catch it, are in `PROJECT.json` under `hazards`; smaller ones that no property speaks of are
among the [known gaps](#known-gaps-of-the-code).

## Modules and the code they stand for

```
ApplicationFSM ◀─ AuditTrail (abstract) ◀── implements ── ApplicationWrites ◀─ MCApplicationWrites
   ▲   ▲                                                        (SQL statements)
   │   └─ ApplicationApi (answers, each at one instant) ◀─ DetailPage, Board, NewApplicationForm
   └───── ApplicationsList ─▶ Pins ─▶ Arrange (filters, sorts)

FollowUpReminder ◀─ ReminderCalendar ─▶ JapanCalendar        DashboardCache        Account
```

Each component has an `MC…` module with its symmetry sets and the small functions a
`.cfg` cannot write, and a `…Proofs` module with its theorems. The abstract audit
trail is proved about in ApplicationWritesProofs, the pins in ApplicationsListProofs.

**ApplicationFSM** is `application_fsm.rb`: the table as a function from a stage to
the set of its targets, the sets derived from it, the guard and the list of next
stages. It has no state.

**AuditTrail** is the abstract specification: per application a status and a trail
of stage changes, moving together along one legal edge at a time (`Create`, `Move`,
`Delete`). No requests, no locks, no transactions.

**ApplicationWrites** is what the API does, statement by statement.

| TLA+ | Code |
|---|---|
| `row`, `moves`, `claims` | the committed `applications` row, its stage-changing `timeline_entries`, its reminder entries. A transaction's writes are kept in its request (`pending`) until it commits |
| `used` | the id sequence |
| `view[t]` | the `Application` a tab renders; its `lock_version` goes back with a transition or a details form |
| `req[t]` | a request: its payload, the copy it was sent from (`seen`), the loaded record, how far it is |
| `Fetch`, `Create`, `Send` | `show`, `create`, and the server actions of `actions.ts`. `checks` says whether the payload names the copy's `lock_version`: transitions and detail forms do, uploads and deletes do not |
| `Load` | `set_application` |
| `Refuse` | `assert_transition!` on the loaded record; failed validations of an update |
| `TransitionUpdate`, `TransitionCommit`, `TransitionRollback`, `Reload` | `TransitionService#call` and the `reload` that renders the answer |
| `UpdateUnchanged`, `UpdateDetails` | `update`; a save with nothing changed issues no statement and so checks no version |
| `DestroyDependents`, `DestroyRow` | `destroy`: `dependent: :destroy` reads the entries, deletes them, then deletes the row; an entry that arrived in between keeps its foreign key and everything rolls back |
| `ClaimReminder` | the INSERT of `FollowUpReminderJob#claim` |
| `Restart` | a deploy or crash of the one process |
| `Matches`, `Expected` | the WHERE clause on `lock_version`. Rails takes the old value from the payload when the payload sets it and from the loaded record otherwise |
| `Locked` | the row lock of an open transition. A details update is one autocommitted statement and a destroy's DELETE is its last one, so neither is ever seen holding the row |

**FollowUpReminder** has the calendar day, the rows with their follow-up date and
whether they are active, the claims, execution slots of the job, the mail jobs in
the queue, and three history counters per reminder (mail jobs that carried it, push
jobs that carried it, deliveries the SMTP server accepted). A reminder is its
idempotency key: an application and a date.

| TLA+ | Code |
|---|---|
| `Schedule` | `recurring.yml` |
| `Perform` | the dead-zone hold, or the query `due_on_or_before` |
| `NextUser` | the groups of `group_by(&:user)` |
| `Claim` | `claim`: inserted, refused by the unique index (rescued), or refused by the foreign key because the application is gone (not rescued, the run fails) |
| `EnqueueMail`, `EnqueuePush` | the two `…_later` calls, in their order |
| `Deliver` | `RetryingMailDeliveryJob` and `FollowUpMailer#digest`: nothing left to mention, sent, failed before or after the server took the message and retried, failed for good |
| `Edit`, `Delete` | the user's writes |
| `Restart`, `Again` | Solid Queue releases or fails executions of a stopped process; an execution is run once more |
| `Tick` | midnight |

**JapanCalendar** is `japan_calendar.rb` up to `business_day?`: weekends, holidays and
the seasonal spans. Dates and the holiday list are constants. **ReminderCalendar** composes
the job with it: the job's `BusinessDays` are the calendar's, which in the runs is the
days around New Year 2027.

**DashboardCache** has one user's rows (a stamp and the columns the stats read),
writes in flight between the moment Rails stamps `updated_at` and their commit,
dashboard requests between their key and their last query, and the store.
`ReadKey`, `Hit`, `ComputeCounts`, `ComputeRates` are `cached_stats` and
`compute_stats`, whose queries are reduced to two: what a write between any two of
them can do shows with two. `InOrder` says that stamps reach the table in their order,
which the code does not enforce and the key relies on; `OrderedSpec` is the behaviours
that keep to it, as those of one writer do. `Intact` says that no row has been deleted.

**ApplicationApi** is the API as a client knows it: for each write of an application,
the answers a row at one instant allows (`TransitionAnswers`, `UpdateAnswers`, …), the
lost answer `apiFetch` adds to them, and the affordances of `transitions.ts`
(`canRevive`, `CONFIRM_REQUIRED`). That one instant is enough to speak of is what
ApplicationWrites shows of the statements behind it.

**DetailPage** is one tab on an application's page.

| TLA+ | Code |
|---|---|
| `row` | the database row; `Elsewhere` is any other tab |
| `page` | the props of the last render, and whether the transition table arrived with them (`page.tsx`) |
| `buttons`, `handleClick`, `TypeNote`, `Confirm`, `cancelConfirm`, `go` | `transition-buttons.tsx` |
| `editor`, `Edit`, `setChannel`, `CancelEdit`, `onSubmit` | `details-editor.tsx`. `text` stands for the inputs React leaves uncontrolled, which take a new default when new props arrive; `channel` for the selects kept in `useState`, which do not |
| `onChange`, `setConfirmingDelete`, `ConfirmDelete` | `file-upload.tsx`, `delete-button.tsx` |
| `queue` | the browser's queue of server actions and refreshes. An action is bound to the props of the render it was started from |
| `Serve` | the head of the queue: the server action, the API, the answer or ten seconds of none |
| `Settle` | the answer reaches the tab: the error, the refresh it asks for, or the page `revalidatePath` carries back |
| `Refresh`, `Reload` | `router.refresh()`; the user loads the page |

**Board** is one tab on `board.tsx`: `base` is the fetched list, `overlay` the
`useOptimistic` moves over it, `onDragStart`, `onDrop`, `onDragEnd` the drag,
`setOpen`, `pick`, `setReason`, `confirm`, `cancelConfirm`, `close` the card menu,
`move` what both end in, and `Serve`, `Settle`, `Refresh` as above. `Remount` closes the
menu of a card that changes column.

**NewApplicationForm** is one tab on `new-application-form.tsx`: `Type`, `Attach`,
`Blur` (and `runOwnershipCheck`), `onPrefill`, `onPrefillFromPaste`, `onSubmit`, and the
answers of the queue in `Settle` (`applyPrefill`, `PrefillFails`, the warning, the
redirect). `Init` and `Visit` are the page opened plain, from a shared link, or with
shared text.

**ApplicationsList** is one tab on the dashboard's list over `ListQuery`. `filters`,
`items`, `next`, `loading`, `box` and `seq` are the component's state, `listed` and
`active` its props, `url` the address, `requests` what is on its way. `applyFilters`,
`loadMore`, `Serve`, `Fail`, `Drop`, `Toast`, `ShowPage`, `AppendPage` are the life of a
request; `matchesExcept` and `countBy` the numbers on chips and in selects;
`defaultStatus` and `Claimed` what the page and the list make of an address; `Write`
other tabs. **Pins** is the pure half of `pins.ts`, and **Arrange** the filters and stable
sorts both are written with: an entry goes to the position that the number of entries
before it gives, which needs no recursion and can be proved about.

**Account** is one browser: its two cookies, its tabs, what each shows, where it is
going and what it waits for.

| TLA+ | Code |
|---|---|
| `jti`, `cookie`, `email` | `users.jti`; the session cookie; the cookie that labels the account chip |
| `Navigate`, `proxy`, `Expired`, `MaxAge` | a request for a page, `proxy.ts`, `api/auth/expired/route.ts`, the cookies' lifetime |
| `doSignIn`, `onPasskeySignIn`, `setSessionCookies`, `SignOut`, `SignedOut` | `sign-in-form.tsx`, the session routes, `session-cookie.ts`, `sign-out-button.tsx` |
| `passkeyOptions`, `registerPasskey`, `cancelPasskey`, `deletePasskey` | `passkeys-manager.tsx` over `passkeys_controller.rb` and `passkey_challenges.rb` |
| `onEnable`, `subscribePush`, `onDisable`, `unsubscribePush` | `push-manager.tsx` over `push_subscriptions_controller.rb` |
| `Digest`, `Revoke`, `Reset`, `Elsewhere` | the notifier's pruning, a permission withdrawn, the demo reset, a sign-out in another browser |

Definitions called `X_Something` under a comment that starts with "Mutant" are what
`X` would be after a plausible mistake. No specification uses them. They show that
each property can fail: `PROJECT.json` lists, for each checked property, one of
them that makes the same run fail.

`TypeOK` is proved of every component (`TypeCorrect`, for every value of the constants);
of the runs only `dashboard` and `list` check it too.

## Runs: what each checks and what it shows

| Run | Configuration | Checks | Distinct states |
|---|---|---|---|
| `writes_race` | two tabs, one application, two contents, one reminder key, new requests up to version 2 | `TrailExplainsStatus`, `CopiesAreHonest`, `TransactionsAreIsolated`, `AppliedAtMatchesTrail`, `RatesAreFractions`, `OffersAreTheLegalMoves`, `NoSilentOverwrite`, `ImplementsAuditTrail` | 342,275 |
| `writes_live` | two tabs, fair | `RequestsEnd` | 45,104 |
| `reminders_overlap` | two run slots, three applications of two users, one restart or repeat | `AtMostOneDigest`, `ClaimsAreExclusive`, `DigestsArePersonal`, `PushFollowsMail` | 759,029 |
| `reminders_days` | ten days over the New Year of 2027, a date that moves between the day before the dead zone and its first, two mail attempts, one crash, repeat or missed schedule, fair | `DeliveriesAreBounded`, `HeldRemindersFire`, `QuietOverNewYear` | 26,536 |
| `reminders_lost` | three applications, no restart | `ClaimedIsNeverLost`: **violated** | |
| `dashboard` | three rows, two writers whose stamps commit in order, three writes, one midnight | `TypeOK`, `KeyNamesRows`, `CacheIsTrue`, `KeyChangesWithStats` | 229,669 |
| `detail_page` | an application opened when rejected, two texts, queue of two, other tabs, fair | `TransitionLandsWhereSeen`, `RevivalsCarryReason`, `UntouchedInputsAreKept`, `KnownVersionsAreShown` | 710,125 |
| `detail_select` | the same with two options in the select | `UntouchedSelectsAreKept`: **violated** | |
| `board` | one card opened as a draft or in the final round, queue of three, other tabs, fair | `MovesLandOnTheFetchedRow`, `ConflictsHaveACause`, `KnownVersionsAreShown` | 160,529 |
| `account` | two tabs, two accounts of which one is the demo's, one rotation each, one challenge, one endpoint | `LabelsNameTheSession`, `PasskeysEnrollTheirAccount`, `AckedDevicesHaveRows`, `RedirectsEnd` | 1,995,328 |
| `new_form` | two companies, one link, one paste, queue of two, two creates of which one answer is lost | `CreatedAsShown`, `WarningIsOfTheSettledCompany`, `DuplicatesNeedALostAnswer` | 4,373,316 |
| `list` | two applications and one that may be created, one per page, one search term, two requests under way, one write of another tab, failures | `TypeOK`, `OneResultSet`, `PagesHaveNoGaps`, `CountsAreHonest`, `LoadingMeansWaiting`, `NothingMoves` | 486,753 |

What they show:

* **The audit trail is trustworthy.** Two tabs that race transitions, edits,
  uploads and deletes of one row, a reminder claim that lands anywhere between, and
  a crash at any point leave a trail that explains the status
  (`ImplementsAuditTrail`, and `TrailExplainsStatus` read off each state). The
  reason is in the other properties: copies are honest, so a matching
  `lock_version` means the same row, so an open transaction works on what its user
  saw.
* **`applied_at` and the trail agree**, revivals included (`AppliedAtMatchesTrail`).
  `RatesAreFractions` is what the dashboard needs of it: whatever is counted as a
  response, an advance or a ghosting has an `applied_at`. It rests on the shape of the
  table; an edge from `draft` to `ghosted` breaks it.
* **Requests end**, also when the row is deleted between the commit of a
  transition and the reload that renders it.
* **A reminder is enqueued at most once**, and its push never comes without its
  mail. The mail itself may go out more than once, at most as often as one job may
  try.
* **A held reminder fires** as long as `LOOKBACK` reaches over the dead zone, a
  missed schedule and a crash together, **and none fires over the New Year**. In this
  run eight days are just enough; with seven, TLC finds the reminder that is skipped.
  The code's thirty leave room for every dead zone in its table.
* **The dashboard key is right as long as a user's writes commit in the order of their
  stamps**, as they do when they come one at a time, and a cached entry is true **as long
  as rows are never deleted**: the conditions are in the specification (`OrderedSpec`) and
  the property (`Intact`), and both are needed (see the known gaps).
* **On an application's page an accepted move moved the row the user was looking at**,
  a re-opening says why, and a save leaves untyped inputs as the row has them, however
  many refreshes, actions and other tabs came between. The page comes to show any
  version an answer has told it of. The same is not true of the selects
  (`detail_select`).
* **On the board** the same holds of moves, also of cards that show an optimistic stage;
  and a user alone on a card is never refused by their own earlier moves.
* **A created application is what the form showed** at the click; the ownership warning
  ends up about the company in the field; a second application takes a lost answer.
* **The list never mixes result sets** or skips a row, its numbers agree with what the
  server would find, and nothing moves under the reader.
* **The account chip, passkeys and push subscriptions** stay with the right account over
  two tabs that sign in and out as different users, and no redirect goes round.

Most configurations say `CHECK_DEADLOCK FALSE`: those models end with their last day,
clock value, version or challenge, or with a deleted row and nothing left to answer. The
application writes never stop (a tab can always fetch), and there deadlock is checked, as
it is in the form (the page can always be opened again).

## Bounds and why they are enough

| Bound | Where | Why it is enough |
|---|---|---|
| `MaxVersion` | a guard of what starts a write only | Requests in flight finish, so versions go beyond it by those. Two versions are enough for a copy to be current, one behind, and two behind |
| one application | ApplicationWrites, DetailPage, Board | No statement touches another row. The proofs hold for any number; they are what covers two cards on the board, which share the queue and the overlay |
| two tabs | `Tabs`; the other modules have one tab and `Elsewhere` | A race is between a step and what happened since the read it rests on; one other writer supplies any such history. The proofs hold for any number |
| `MaxRestarts` | `Restart`, `Again`, a missed `Schedule` | One restart shows every crash point of a run, or one run that is delivered again |
| `LastDay` | `Tick` | Ten days: the working day before the dead zone, its six days, three working days after it. `Dates` are the last day before it and its first: the longest hold, with and without a day on which a run could have come first |
| `LOOKBACK`, `Attempts` | constants, 30 and 10 in the code | Scaled down with the calendar. What matters is whether the window spans the hold, and whether a last attempt is reached |
| `MaxClock`, `MaxDate` | `Write`, `Midnight` | A wrong hit takes a create, a fill and a change; three writes on three ids allow each of the three kinds after each |
| `MaxQueue` | what enqueues | Two: an action under way and one that waits behind it. Three on the board, where moves of one card pile up |
| `MaxCreates`, `MaxLost` | the form | A second create, and a lost answer before it. A lost answer may or may not have created |
| `Starts` | DetailPage, Board | A closed stage that may be re-opened, an open one with few targets and one with every kind of target. The proofs hold for all |
| `MaxRotations`, `MaxChallenges`, `MaxEndpoints` | Account | One sign-out kills a token; one challenge may be taken by the wrong session; one endpoint may change owner. The proofs hold for any number |
| `Limit`, `MaxId`, `MAX_PINS` | the list | One row per page makes every further row a page; three rows make a page in the middle; one pin makes the cap |
| `MaxTickets`, `MaxWrites` | the list | Two requests under way give every order of answers; tickets are only compared with those under way. One write between any two reads |
| `Companies`, `Sources`, `Levels` | the list | None is picked in the run, so the numbers beside them are checked without a choice of their own; the stages and the term are picked. One company and one source picked as well, without writes or failures, give 243,702 states and no error either |

Symmetry is used in safety runs only, and only over sets whose members occur in no
constant expression: tabs and contents; run slots and the two applications of one
user; ids, values, writers and readers.

## Fairness

* `ApplicationWrites!FairSpec`: weak fairness of `Serve(t)`, since Puma carries on
  with what it started, and strong fairness of the statements that wait for a row lock
  (`TransitionUpdate`, `UpdateDetails`, `DestroyRow`), since PostgreSQL grants a lock
  in the order of its queue and every other transaction on the row is short. Users,
  the reminder job and restarts owe nothing.
* `FollowUpReminder!FairSpec`: weak fairness of the scheduler, of each worker, of
  delivery and of the clock. `Tick` waits for open runs: a run takes minutes. Users
  owe nothing, and neither does a restart or a repeated run.
* `DetailPage!FairSpec`, `Board!FairSpec`: weak fairness of `Serve` (`apiFetch` gives up
  after ten seconds, so every action is answered), `Settle` and `Refresh` (the browser
  takes the next entry of its queue when one has settled). Users and other tabs owe
  nothing.

The specifications used in the other safety runs and in the proofs (`Spec`) assume no
fairness.

## Proofs

TLAPS (tlapm 1.4.5, with Z3, Zenon and LS4) checks every theorem to its last leaf.
They hold for all values of the constants that satisfy the assumption of their module
(`WritesAssumption`, `RemindersAssumption`, `DashboardAssumption`, `DetailPageAssumption`,
`IdleAssumption`, `BoardAssumption`, `NewApplicationFormAssumption`, `AccountAssumption`, `ListAssumption`,
`PinsAssumption`, `CalendarAssumption`, `RemindersAskTheCalendar`): types, that `None` is none of the things it stands beside, that one
user's applications are finitely many, that bounds are numbers, and that the job's
business days are those of the calendar. The theorems about
`OrderedSpec` assume the order of stamps besides, and say so.

| Module | Theorem | Property |
|---|---|---|
| ApplicationWritesProofs | `OffersMatchGuard` | the offered moves are the accepted ones, for each stage |
| | `TypeCorrect`, `OffersCorrect`, `Invariant` | `TypeOK`, `OffersAreTheLegalMoves`, `IInv` |
| | `CopiesCorrect`, `IsolationCorrect` | `CopiesAreHonest`, `TransactionsAreIsolated` |
| | `NoOverwrite` | `NoSilentOverwrite` |
| | `TrailRefined`, `TrailExplained` | `ImplementsAuditTrail`, `TrailExplainsStatus` |
| | `AppliedAtExplained`, `RatesAreFractionsOfApplied` | `AppliedAtMatchesTrail`, `RatesAreFractions` |
| | `TrailCorrect` | `TrailExplainsStatus` of the abstract specification |
| FollowUpReminderProofs | `TypeCorrect`, `Invariant` | `TypeOK`, `IInv` |
| | `OneDigest`, `ExclusiveClaims`, `PushAfterMail` | `AtMostOneDigest`, `ClaimsAreExclusive`, `PushFollowsMail` |
| | `PersonalDigests`, `BoundedDeliveries` | `DigestsArePersonal`, `DeliveriesAreBounded` |
| | `NewYearIsQuiet` | `QuietOverNewYear`, for any calendar |
| | `LossIsExplained`, `LossIsFinal` | where a claimed reminder is lost, by what, and that it is for good |
| DashboardCacheProofs | `TypeCorrect` | `TypeOK` |
| | `Invariant`, `KeysNameRows`, `CacheCorrect`, `KeyChanges` | `IInv`, `KeyNamesRows`, `CacheIsTrue`, `KeyChangesWithStats`, all of `OrderedSpec` |
| | `OneWriterIsInOrder` | one writer's behaviours are among those of `OrderedSpec` |
| DetailPageProofs | `TypeCorrect`, `TransitionsLandWhereSeen`, `RevivalsSayWhy`, `SavesKeepUntouchedInputs` | `TypeOK`, `TransitionLandsWhereSeen`, `RevivalsCarryReason`, `UntouchedInputsAreKept` |
| | `SavesMeetTheirRow` | an accepted save met the very row its page showed |
| BoardProofs | `TypeCorrect`, `MovesLandWhereFetched`, `RefusalsHaveACause` | `TypeOK`, `MovesLandOnTheFetchedRow`, `ConflictsHaveACause` |
| NewApplicationFormProofs | `TypeCorrect`, `StoredAsShown`, `SecondApplicationNeedsALostAnswer`, `WarningFollowsTheField` | `TypeOK`, `CreatedAsShown`, `DuplicatesNeedALostAnswer`, `WarningIsOfTheSettledCompany` |
| ApplicationsListProofs | `TypeCorrect`, `Invariant` | `TypeOK`, `IInv` |
| | `LoadingCorrect`, `ResultSetCorrect`, `PagesCorrect` | `LoadingMeansWaiting`, `OneResultSet`, `PagesHaveNoGaps` |
| | `CountsCorrect`, `RowsStay` | `CountsAreHonest`, `NothingMoves` |
| | `PinsCorrect` | every loaded row is shown once, the pinned ones first in pin order, the others in theirs |
| | `TogglesAreKept` | a toggle is read back from local storage as it was written |
| AccountProofs | `TypeCorrect`, `LabelsCorrect`, `PasskeysCorrect`, `DevicesCorrect`, `RedirectsCorrect` | `TypeOK`, `LabelsNameTheSession`, `PasskeysEnrollTheirAccount`, `AckedDevicesHaveRows`, `RedirectsEnd` |

**Application writes.** The trail is right only if a transition's in-memory record
is the row its UPDATE hits. That is not an invariant by itself; the argument is:

1. A step changes a row by creating it under an id never used, by writing it with the
   next `lock_version`, or by deleting it for good (`RowsAreUsed`).
2. So a copy taken at any time stays honest: older, or equal to the row
   (`CopiesAreHonest`). That covers the copies rendered from memory after an update.
3. So when the WHERE clause matches, the row is the loaded record and, when the
   payload named a version, the user's copy. The row lock keeps it so until the
   commit (`TransactionsAreIsolated`). This needs `Locked` and the fact that a request
   never loads an older row than its user saw.
4. `NoSilentOverwrite` follows at each writing step, and each commit of a transition
   is a `Move` of the abstract specification, whose `from` is the row's status.
5. `TrailExplainsStatus` is proved once, of `AuditTrail`, and carried over by the
   refinement.
6. `StampInv` adds, per application: a row at or behind `applied` has an `applied_at`; it
   has one exactly when the trail passes through `applied`; and no counted change is
   in the trail without one. It is inductive because only `applied` leads into the
   stages behind it (`BehindApplied`, the one fact about the table it needs).

**Reminders.** At most one mail job carries a reminder because a reminder that a run
has won is claimed, is won by no other run, and has not been enqueued unless the run
stands between its two enqueues (`ClaimsAreExclusive`), and because a claim disappears
only together with its application, whose key can then not be claimed again.
`PersonalInv` adds that a run's current group is of one user. Deliveries are bounded
because no two mail jobs share a reminder and one nobody enqueued was never sent
(`MailsAreAccounted`), so a reminder's count stays below the attempt its one job is at.
No mail is enqueued over a New Year because a run past its first question is in a
business day (`RunsAreOpen`, which needs that no run spans midnight), and no date of the
New Year is one: each falls in one of the two spans (`NewYearIsClosed`).

That a claimed reminder is never lost is false (`reminders_lost`); two theorems say how
far. A run holds on to what it has won until its mail job is enqueued (`WonStays`), so
`LossIsExplained`: a reminder is lost only between its claim and the mail job of the same
run, when the process stops or when the run fails at another claim. And `LossIsFinal`: a
claim that is taken is won by nobody again (`WonIsNew`), so no retry makes up for it.

**Dashboard cache.** That count and latest stamp name the rows is not inductive: it says
nothing of how an earlier state with fewer rows compares with one that has lost some.
`SeenInv` does: a row whose stamp an earlier state had reached was in that state as it is
now. Two states with one key then have one set of rows, because a set inside another of
the same size is that set. `StampsInv` keeps it so: stamps under way are newer than any
the table has had (here `InOrder` is used), so a write takes a row out of reach of the
older states instead of changing it within. `CacheInv` adds, while no row is deleted,
that keys only grow, so that no entry and no request holds a key that is still to
come, and what was read under the present key is what the rows hold. `KeyChanges`
follows from `SeenInv` at the commits that change the rows.

**Application page and board.** Both rest on `CopyOf`: what the page or an action in the
queue remembers of a row is not ahead of it, and is the row while the versions agree
(`PageIsHonest`, `QueueIsHonest`; `CopiesAreHonest` of the board). So an accepted
action met the row it was started from (of a save, every field: `SavesMeetTheirRow`, so
what a stale select overwrites was on the page). `SaysWhatItSaw` carries the content of a panel
or form from the gesture to the answer. `ConflictsHaveACause` needs more: the list shows
each row as it is, unless somebody else wrote it or an accepted move of this tab is about
to be rendered (`FreshUnlessBehind`), and only the head of the queue has an answer
(`TailWaits`). The board's proof covers any number of cards.

**Application list.** `Kept`, `Sorted` and `Descending` place an entry by counting what
comes before it; that these counts run from 0 without a gap (`Counted`) gives what a filter, a
sort and a page contain, each entry once (`KeptOf`, `SortedOf`, `Page`). Over these, `IInv` is about requests:

1. Tickets are given once and the list is dimmed just while the newest is under way
   (`TicketInv`). So an answer that is shown is that of the last request.
2. What an answer says stays as true as it can be while it travels (`Says`): its rows are
   between the cursor it was asked with and the one it gives, of the filters it was asked
   with, and while nobody has written since, they are all of them.
3. The newest request, if it asks for more, has this list's cursor and filters
   (`MoreInv`). Without it an appended page could repeat or skip rows.
4. So the list is one result set down to its cursor (`ListInv`): `OneResultSet`,
   `PagesHaveNoGaps` are parts of it.

`CountsAreHonest` needs no history: rows and applications correspond one to one, and so do
the conditions of the page and of the server. `RowsStay` compares the loose rows (those of
no pin that was toggled) before and after: hoisting leaves them in the order of the list
(`KeptTwice`), and an appended page comes behind them (`KeptLonger`). `PinsCorrect` adds
where the pinned rows go: what is read from local storage is always a list of pins
(`ParsedPins`), and rows sorted by their place in it come in its order (`Ranked`).
`TogglesAreKept` is the round trip: a toggle of a list of pins is one (`ToggleIs`), and a
list of pins is read as it stands (`ParseKeeps`).

**New application form.** `WarningInv`: the warning is about the company the field
settled on, or a check of that company is the last one to come. `CreatesInv`: one create
is in the queue at most, a closed form has none, and an open one has stored no more than
were lost, unless the create that stored the last one is about to redirect.

**Account.** Each theorem has its own invariant over `Typed` (the types, and that no tab
speaks of a challenge or endpoint not yet made): an answer to a sign-in carries the
email of its token or none (`LabelInv`); a challenge under an account's key is held by
tabs that make a passkey for that account (`PasskeyInv`); a device whose row is being
removed is one the browser has given up (`DeviceInv`); and the redirects a request may
still meet, by where it is going (`RedirectInv`).

**Only model-checked:** the liveness properties `RequestsEnd`, `HeldRemindersFire` and
`KnownVersionsAreShown` (liveness under fairness is out of this prover's reach). Every
other property of the passing runs has a theorem. No definition is proved by induction over
data: where the models need a filter, a sort or a greatest element they count or choose,
and the proofs reason about that.

## Where code and documents part

Two runs state a sentence of the documentation and find a behaviour that differs.
`PROJECT.json` quotes the lines under `findings`.

1. `reminders_lost`: the reminder "never loses" messages. `claim` rescues the unique
   violation only. An application deleted between the query and its claim raises a
   foreign-key error; the claims already made for that user are spent and have no mail.
2. `detail_select`: a concurrent edit returns a 409 "instead of silently overwriting".
   The channel and sponsorship selects keep their first value in `useState`. After a 409
   the refreshed form carries the new `lock_version` and the old selects, and the next
   save overwrites a choice the user never touched.

The documents also rely on facts that the models confirm: the client's copy of the
rules cannot cause an illegal move, one job carries each reminder however often the
scheduler fires, and the trail misses no change.

## Known gaps of the code

Met while modelling, and not claimed otherwise by any property here:

* Uploads and deletes carry no `lock_version`; a delete from a stale tab removes a row
  another tab has changed since (the first sentence of `src/README.md:21` says every
  write carries one).
* A timeout after the SMTP server accepted a message is retried, and the digest goes out
  again, up to the attempts of its job.
* `updated_at` is taken before the commit: of two overlapping writes the earlier stamp may
  commit last and leave the dashboard's key as it was. And the key is read before the
  queries whose result is stored under it: a row that comes between and is deleted again
  brings the old key back with the wrong contents.
* The drop of a closed card on the board is not possible, but a card dropped while its row
  was closed elsewhere is sent without a reason, where the panel would have asked for one.
* In the list, pressing a second chip before the first has been answered loses the first;
  "Show none" leaves an answer under way to bring the rows back; clearing a search box
  before its search has been answered leaves the search on with an empty box; the note
  about hidden pins is not shown over an empty list; pins of another account of the browser
  count against the cap; rows created in the same microsecond across a page boundary are
  skipped.
* In the form, a pre-fill overwrites what was typed while it was under way, and a second,
  more silent posting leaves the first one's values; emptying the company while a check is
  under way shows the old warning; a refused create resets the follow-up date and the
  files.
* The route for expired sessions drops whichever cookie is there, a fresh one included.
* If the demo sign-in throws, its button stays busy.
* The interview reminder's window is anchored at the start of each run, which drifts and is
  retried: an interview may fall in two windows or in none (the comment at
  `interview_reminder_job.rb:20` says exactly one). Residence marks fire on equality with
  the day's count, so a day without a run skips one.
* `Agency.resolve`'s own validation may lose to a concurrent insert, which gives an unsaved
  agency and no exception.
* Two sign-ins with one passkey at once may store the lower sign count last. Two
  registrations at once may both find a challenge that is read and then deleted; the
  unique `external_id` refuses the second.
* `avg_days_to_offer` (`dashboard_controller.rb:152`) subtracts the latest `applied_at` from
  the first offer: an application revived after an offer can count a negative number of
  days.
* Concurrent creates at a ceiling overshoot it by the number under way, and the cap on push
  subscriptions is checked on create only, not when a known endpoint changes hands.
* A transition or an insert that commits between the deletes of the demo reset
  (`reset_service.rb:31`) makes a foreign key fail it; it rolls back and runs again the next
  hour.

## What is abstracted, or not modelled

Within the modelled components:

* **ApplicationWrites**: column contents are one value (`Details`); uploads
  and form saves differ only in whether they check a version; validations are a refusal
  that may happen; notes, ordering and formatting of timeline entries are left out. Row
  locks are modelled where a transaction holds one across statements. The key-share
  lock that a timeline INSERT takes does not conflict with an UPDATE of other columns
  and is left out.
* **FollowUpReminder**: a day is the unit of time. **JapanCalendar** leaves out
  `business_days_between`, which only ghost risk asks for. **DashboardCache** keeps the
  columns the stats read, as one value, and `compute_stats` is two reads of the rows.
* **DetailPage, Board, NewApplicationForm**: server actions of a tab run one at a time, as
  Next.js runs them, and the end of each is seen separately (React may show the ends of
  overlapping transitions together; the models allow more). Notices, focus and presets are
  left out. A failure between the browser and Next.js, where no answer of any kind comes,
  is not modelled. The board's list arrives in one piece.
* **NewApplicationForm**: status with `applied_at`, and sponsorship with the residence
  status, have the shape of channel with agency; role, notes and the other fields that of
  the company. A create the server action refuses by itself counts as refused by the API.
* **ApplicationsList**: a page load reads the rows and the facets at one instant; the
  address is committed together with the props of its render; a failing stats call is left
  out; the search by source, a substring of a host, is equality; creation times are
  distinct. A page whose address names stages without a chip is exempt from
  `PagesHaveNoGaps`: there the rows are those of the address and the chips those of the
  default.
* **Account**: registration, password change, account deletion and the locale in paths are
  left out; a passkey sign-in's own challenge and sign count are an answer that may fail;
  push payloads and the retry of a delivery are left out; the demo reset is one step.

Not modelled:

* **Interview and residence reminders**: a stateless query a day; nothing one run does is
  seen by another.
* **Per-account ceilings**: a count and an insert without a lock; the comment at
  `application.rb:212` accepts the overshoot, so no promise is left.
* **Agencies and ownership windows**: find-or-create with a retry, and a read.
* **Ghost risk**: a read and a count of days. That it changes at midnight is in
  DashboardCache.
* **Toasts**: timers of messages that nothing depends on.
* **Rate limits**: counters of a gem; a refusal is among the answers the client expects.
* **URL prefill and talking points**: calls to other services that change no state; the
  form takes their answers.
* **Exports, profile, HSP calculator**: formatting of rows, one UPDATE, a table summed in
  the browser.
* **Pages, messages and layout; deployment and CI**: rendering, translation and
  configuration. What matters of the latter (one process, the schedules) is in the models'
  restarts and fairness.

## What could follow

* The delivery of pushes: transient errors and the retry of a whole job after one device,
  composed with `EnqueuePush` and Account's subscriptions.
* The demo reset as the statements of ApplicationWrites, against visitors.

## How to run

```
tlc -workers 2 -config MCApplicationWrites.cfg MCApplicationWrites.tla
tlapm ApplicationWritesProofs.tla
```

The longest runs take about a minute (`new_form`, `list`, `writes_live`, `detail_page`,
`account`). The proofs of ApplicationsListProofs take some
minutes, the others a minute or two each.
