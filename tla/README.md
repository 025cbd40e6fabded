# A verification project for the Hiddify free-config bot

The repository is a Telegram bot in Go that hands out free VPN configs. A user
taps "claim"; the bot asks him to join the day's advertising channels, creates
a user on one of several Hiddify panels (HTTP, a foreign system) and keeps a row
about it in SQLite. Cron jobs remove expired configs from the panels, settle
claims a crash left half done, watch the panels, report and reset their daily
budgets, and send backups. Administrators work through menus and dialogues, and
may restore a backup under the running bot. This directory holds TLA+ modules
translated from that code, TLC configurations that check them on small instances, and
TLAPS proofs for instances of any size.

    tlc -workers 2 -config outbox_overlap.cfg MCClaimSystem.tla   # any .cfg here
    tlapm ClaimOutbox_proofs.tla     # and the other *_proofs modules; a minute or two each

## 1. Inventory

| component (source) | state | operations | talks to |
|---|---|---|---|
| claim flow (`internal/bot/claim.go`) | locals of one goroutine per update | `tryClaim`, `issueConfig` | store, client, membership, referral |
| store (`internal/db/stats.go`, `users.go`, `panels.go`, `schema.sql`) | tables users, panels, daily_claims, channels, channel_user, referrals, admins, settings | one statement or transaction per call, one connection | everyone |
| Hiddify client (`internal/hiddify`) | `panelMu`: one mutex per panel | `CreateUser`, `GetUser`, `ResolveUserIDs`, `BulkUserAction`, retrying `do` | panels |
| cleanup and reconciliation (`internal/scheduler/scheduler.go` 182-312) | locals of one goroutine per run | `cleanupExpiredConfigs`, `reconcilePending`, every 30 minutes | store, client |
| midnight job, report, health check (`scheduler.go` 48-179) | maps `healthy`, `warned` under a mutex | reset of budgets, daily report, hourly check | store, client, administrators |
| membership and channels (`claim.go` 49-94, `join.go`, `db/channels.go`) | tables channels, channel_user | pick quota channels, snapshot membership, credit new joins | store, Telegram |
| referrals and allowances (`user.go`, `db/users.go` 97-173) | table referrals, users.referrals_count, bonus, cap | `SetReferrer`, `CountReferralIfPending` | claim flow |
| admin menus (`bot/admin*.go`) | rows of panels, channels, users, settings | add, toggle, delete a panel or channel; change a quota, a bonus, a cap; delete a user | store |
| admin dialogues (`bot/bot.go` 114-138, `user.go`, `admin.go` 651-904) | in-memory map of dialogue states | set, read, clear; forms of three steps, number prompts | admin menus |
| backup and restore (`internal/backup`, `db/backup.go`) | backup directory, restore-tmp, the live file and its handle | snapshot, compress, send, prune; download, validate, swap the database | everyone |
| broadcast, user menus, configuration | none of their own | messages, keyboards, start-up | - |

What is hard here:

- telebot starts a goroutine per update: two taps of one user are two handlers
  that interleave at every database or network call;
- a claim is spread over two systems without a common transaction (SQLite and
  a panel), so it is an *outbox*: pending row, create on the panel, confirm;
  a crash, a lost answer or a failed statement may fall between any two;
- `Client.do` repeats a POST after a network error;
- the cleanup lists rows and numeric ids once and acts on them minutes later;
  robfig/cron starts the next run even while the last one is still busy;
- the panel mutex is waited for without regard to the 40 s context, so a
  handler may come back to a row that the reconciliation has judged meanwhile;
- administrators delete panels and users under running handlers and jobs;
- the gate reads flags, then credits an advertiser's order in another
  transaction; the budget is checked when panels are chosen and charged at the
  confirm; an inviter is credited two statements after the row was found pending;
- the health check and the midnight job share maps under a mutex that
  neither holds from its read to its write; the maps are lost with the process, and an
  alert that does not arrive is not sent again;
- a dialogue's state is a pointer: texts work on it while taps and late lookups
  write to it;
- a restore closes the one database handle and overwrites its file while
  handlers, jobs and backups go on; `db.Close` waits for no statement;
- the name of a backup has no seconds, and nothing keeps two of one minute apart.

What makes the components correct: every panel user the bot made stays named
by a row (else it is never removed); a config that was handed out stays on its
panel until it expires, and then goes; one attempt ends on one panel; one
config per user and day; budgets are not overrun; a new join or a referral is
credited once; a restore leaves a usable database. `PROJECT.json` lists the
hazards behind each of these with the line where they bite.

## 2. The modules

The claim flow:

    ConfigLedger                    abstract: what the outbox promises
         ^ (INSTANCE ... WITH)
    ClaimStore <- PanelClient <- IssueConfig --+
                      ^--------- Janitor ------+-> ClaimSystem <- ClaimInv <- MCClaimSystem
                                                        ^            ^
                                     ClaimSystem_proofs-+   ClaimOutbox_proofs <- ClaimLedger_proofs
                                                                     ^---- ClaimPromise_proofs

The membership gate, a day of volume, the database file, the dialogues
(ChannelGate implements AdvertLedger, LiveDatabase implements SnapshotStore):

    ChannelStore ----------> ChannelGate <-- GateInv ------ MCChannelGate,   ChannelGate_proofs
    Referrals, PanelWatch -> VolumeDay <---- VolumeInv ---- MCVolumeDay,     VolumeDay_proofs
                             LiveDatabase <- DatabaseInv -- MCLiveDatabase,  LiveDatabase_proofs
                             AdminDialogue <- DialogueInv - MCAdminDialogue, AdminDialogue_proofs

Each of the five systems has the state its questions need. ClaimSystem takes
the gate as one refusal (`GateRefuses`), ChannelGate takes the issue as one step
(`Issue`), VolumeDay takes the create as one success or failure; what these
stand for is modelled in full in the other module.

- **ClaimStore**: the rows of daily_claims, users and panels that the flow uses
  and the statements run on them. `SetMaxOpenConns(1)` (`db/db.go`) makes each
  statement and each transaction atomic, so a statement is an operator over
  the next state and the actions are built from these. A claim row is named by
  its slot `<<attempt, panel>>`: `issueConfig` inserts at most one row per panel
  it tries, ids are AUTOINCREMENT, and the config uuid of the attempt is what
  the panel calls the user, so one name serves row and user alike. `Rows`
  gives a failing query its code's meaning: an empty result.
- **PanelClient**: the panel (external) as the client treats it: its users, requests in
  flight, and `panelMu`. What it takes from the panel: creating a known uuid
  again succeeds, a lookup answers 404 for unknown uuids only, numeric ids
  are not reused (a stale id in an overlapping cleanup would hit a stranger).
- **IssueConfig**: `tryClaim` and `issueConfig`, one action per stretch between two
  database or network calls, with every failure path: no panel, insert fails,
  context over, panel full, network error and its retries, lost answer, confirm
  fails, rollback fails.
- **Janitor**: `reconcilePending`, then `cleanupExpiredConfigs`, with
  `ResolveUserIDs` and the chunk loop of `BulkUserAction`. Go map order
  is a free choice of the next panel, of the next slot and of the chunk.
- **ClaimSystem**: the composition, with time, midnight, crashes and the panel
  and user menus; states the properties.
- **ConfigLedger**: the abstract specification. A user is created only under a
  reservation; a reservation becomes a held config only when its user exists; a
  user is revoked only when its config is held; a reservation or a config is
  released only when no user exists. `LedgerEntry` in ClaimSystem is the refinement mapping.
- **ClaimInv**: the inductive invariant `OutboxInv`, which holds whatever fails; its
  two parts that need more of the network say so (`Told`, `Reliable`). Beside it
  what a cleanup run knows when no other overlaps it (`AloneKnows`), and
  `TurnsSpec`, the system with each user's updates taken in turn, with its own
  invariant. **MCClaimSystem**: the instance for TLC.
- **ChannelStore**: tables channels and channel_user with their statements. A
  draw may return any admissible set of channels: priorities are never negative, so
  every channel has a chance.
- **ChannelGate**: `tryClaim` between the daily check and the issue, one action per
  database or Telegram call: the day's set, choice, snapshot of membership, assignment,
  membership check, flags, credit, verdict; users who join (on request in private channels) and
  leave; the channel menu. `loyal` remembers who joined before the bot first looked.
- **AdvertLedger**: what the gate promises an advertiser, without handlers, days or
  crashes. A person is met once, and is new or a member of old from then on; a new one
  is billed once at most, with counter and notice in the same step; whoever was there
  all along never is; changing the order re-arms the notice. `Stand` in ChannelGate maps
  the rows of channel_user to it.
- **Referrals**: users, invitations, allowances; `CountReferralIfPending` is
  three statements, each an operator.
- **PanelWatch**: budgets and `healthCheck`, with its two sections under the
  mutex as separate actions and the panel rows it read at its start. An alert may be lost
  (`notifyAdmins` ignores the error of Send). Two histories count by the Tehran day: the
  warnings of a panel (`warnings`), which outlive a restart as messages do, and how often
  the map of warnings was emptied (`clears`).
- **VolumeDay**: their composition over a Tehran day. Its actors are goroutines (`Taps`), one
  for each update under way, of one user or of many: registration with a link, claims, charges,
  credits. Beside them the midnight job as report, reset and clearing of the map
  (three actions), grants to anybody at any time, deletions of users, crashes that forget the maps.
- **LiveDatabase**: the live file and its handle; statements, which keep the one connection
  from `Begin` to `Commit` or `Abort` and may be left open by `db.Close`; backups
  (snapshot, gzip, send, prune), of one minute too; restores of any document (download, unpack and
  validate, close, copy, reopen, clean up), with failing files and crashes at every step, and
  the start after a crash. A file is missing, cut off, damaged or a whole database. A
  statement left open goes on in its file while that is in place (`stray`); once the file was
  overwritten it is lost, or damages what is there (`ghost`).
- **SnapshotStore**: what backup and restore promise, without files, goroutines or a lock.
  A copy is what the database held at one moment; what is handed out is a copy; the
  database is overwritten only out of service, it goes into service only when whole, and only
  writes left under way when it went out, or a restart, spoil it. The directory's raw files,
  its compressed ones and what is being compressed are the copies (`Kept` in LiveDatabase).
- **AdminDialogue**: `setState`, `getState`, `clearState` and what the texts do to
  a dialogue. A lookup (panel ping, channel lookup) is a separate step from its
  call, and its result goes into Data in three more.
- **GateInv**, **VolumeInv**, **DatabaseInv**, **DialogueInv**: inductive invariants.

Correspondence of the main actions (every definition's lines are in the `map` of
`PROJECT.json`):

| action | code |
|---|---|
| `StartClaim`, `GateRefuses` | `claim.go` 20-94: upsert, daily check, gate |
| `SelectPanels`, `LeastUsed` | `PanelsForVolume` and the ordering of the candidates |
| `InsertPending` | `InsertPendingClaim`, before the create |
| `SendCreate`, `Resend`, `CreateReturns`, `CreateExpired` | `CreateUser` and `do` under the mutex and the context |
| `Confirm` / `Rollback` and their `...Fails` | `ConfirmClaim` / `DeleteClaimRow` |
| `Register` | the upsert of `/start` and of claims refused by maintenance |
| `ReconcileStart`, `ReconcileLook`, `ReconcileAct` | `reconcilePending` |
| `CleanupList` ... `DropRows` | `cleanupExpiredConfigs` |
| `Look`, `Pick`, `Snapshot`, `Assign`, `Check`, `ReadState`, `Settle`, `Verdict` | `claim.go` 49-99 |
| `CreditNewJoin`, `AssignChannel`, `SetChannelQuota`, `AddChannel` | the functions of these names in `db/channels.go` |
| `Arrives`; `Open`, `SelectPanels`, `Created`, `CreateFails`, `ReadReferral`, `CountReferral` | telebot's goroutine per update; `claim.go` 27-47 and 118-197, as far as volume and credits go |
| `PingPanel`, `SendAlert`, `JudgeUsage`, `SendWarning`; `SendDailyReport`, `Reset`, `ClearWarnings` | `healthCheck`; the midnight function of `Start` |
| `Begin`, `Commit`, `Abort`, `StrayEnds`, `GhostEnds` | any statement on `Store.db`, whose pool has one connection |
| `BackupStart`, `SnapshotStart`, `SnapshotEnd`, `GzipStart`, `GzipEnd`, `Send`, `Prune` | `CreateAndSend`, `Backup`, `gzipFile`, `prune` |
| `Download`, `ValidateSQLite`, `CloseLive`, `OpenSource`, `CopyEnd`, `Reopen`, `Cleanup` | `doRestore`, `gunzip` with `validateSQLite`, `Restore`, `copyFile` |
| `Tap`, `Fill`, `Arrive`, `ReadState`, `CheckRole`, `LookUp`, `Found`, `FoundRest`, `SecondAnswer`, `Save`, `SetNumber`, `Clear` | the prompts; `onText`; `handleStateInput` and the `fsm...` functions |

Data is abstracted to what the properties tell apart. Times are a day number
and two sets of slots: pending for more than ten minutes (`old`), and past
`expire_at` (`expired`). Names, links, messages and the priorities of panels are gone;
every panel of equal recorded use may come first.

### Assumptions about time

A row does not become `old` while its create is in flight (`GrowOld`). In
the code the context of a create ends 40 s after the insert and a
panel's apply follows a request within seconds, while the reconciliation asks for
ten minutes. The one wait without a limit, for the panel mutex, is *not*
covered: a slot whose handler waits does grow old, and `CtxLive` models that such
a handler sends nothing. A row that is expired is either settled or older than
ten minutes, a config lives whole days.

In VolumeDay the midnight job and a health check take less than a day; a check
that was running when the job cleared the warnings (`hc.late`) is over before the
next midnight, and it does not overlap the next check (both would take
more than 200 unreachable panels).

### Bounds in the guards

Besides counters with a `Max...` the modules have these, each with "bound" in
its comment:

- ChannelGate: lookups and writes fail, and channels are re-added, toggled and
  deleted, only in `Troubled`; the properties are stated of the others
  (`Sturdy`), since a failing write refutes them at once. Targets change only in `Resized`;
  `Overlap` allows a user's taps to overlap.
- VolumeDay: `Scenes` says what is explored together: each behaviour has one scene, a
  choice among invitations, grants, deletions and the health check, with the updates of one
  user in turn or, with "overlap", not. The proofs hold for any `Scenes`, the scene with
  everything included. `MaxRestarts` bounds how often a crash comes while the map was emptied
  that day, `MaxCredits` and `MaxErased` the numbers of a user.
- LiveDatabase: each call of a backup, a restore or a statement happens once; the documents of
  restores that overlap have different names.
- AdminDialogue: `Actions` and `MaxOpened`; keys of Data are written one at a
  time although the runtime may also stop a program that writes a map twice at once (a
  crash of the model).

## 3. Runs

| run | instance | checks | shows |
|---|---|---|---|
| outbox_overlap | 1 panel, 2 attempts, 2 jobs, crash, failing writes and bulk deletes | `NoOrphan`, `UnexpiredServed`, `OutboxInv` | overlapping handlers and overlapping cleanups neither orphan a panel user nor take a config early; the whole inductive invariant holds |
| outbox_admin | 2 panels, 1 attempt, 1 job, crash, failing writes and bulk deletes, all menus, 2 requests | `TypeOK`, `OnePanelPerAttempt`, `ImplementsLedger`, `ForgetsOnlyGone` | the panel loop with its failures, under administrators' deletions, refines the ledger; active rows go only with their users |
| single_tap | 1 panel, 2 attempts in turn (`TurnsSpec`), 1 job, lost answers, outages, failing bulk deletes, 2 requests, the panel menu | `OneConfigPerDay`, `TurnsInv`, `AloneKnows`, `OutboxInv`, `ForgetsOnlyGone` | without the overlap of finding 1 a user gets one config a day, whatever the panel answers; a run that overlaps no other drops active rows only after their users |
| outbox_live | 1 panel, 2 attempts, 1 job, crash, `FairSpec` | `PendingResolved`, `ExpiredRemoved` | nothing stays pending and every expired config is removed |
| channel_gate | 1 user, a public order whose target changes (`shop`), a private channel with every trouble (`club`), 2 days, 1 handler, crash | `TypeOK`, `CounterMatchesRows`, `NewJoinsOnly`, `NoticeMatchesOrder`, `NoFreePass`, `GateInv`, `ImplementsAdvert` | the counter an advertiser pays for is the number of new members counted, members of old are never billed, the completion notice is out only while the order is complete, and no config goes out before the day's channels are settled; every step of the gate is one of the advertisers' ledger |
| volume_day | 2 goroutines, 2 users, 1 panel with room for 1 claim but not 2, 4 scenes: invitations and deletions with updates in turn; grants, deletions or the health check with overlap; 2 days, crashes | `TypeOK`, `OvershootBounded`, `CreditsBacked`, `AlertMatchesHealth`, `WarnedOncePerClear`, `VolumeInv` | a budget overshoots by what the other updates under way charge at most, of the same user or another; an inviter is credited once per row if the referee's updates come in turn; the last alert tells the health unless it was lost or a restart came since; a panel is warned of once a day and once more for each time the map was emptied |
| live_database | 1 statement, 2 backups, 2 restores of any document, 2 minutes, `Keep = 1`, failing files, crash | `TypeOK`, `SentWhole`, `LiveFileWhole`, `AckedKept`, `DatabaseInv`, `PruneKeepsNewest`, `ImplementsSnapshots` | a backup that none of its minute overlaps sends a whole database; a restore leaves a whole one unless its copy is cut, its document damaged or a statement was left open; nothing reported as written is missing from the file; pruning keeps the newest; and together they implement the snapshot store |
| admin_dialogue | 2 people, 2 updates, 1 link, 2 items, 2 dialogues of any kind, crash | `TypeOK`, `PartsVerified`, `NumberToItsItem`, `ClosedStaysClosed`, `DialogueInv` | forms are saved from checked answers only, a number goes to the item asked about, a closed dialogue takes no more texts |
| double_tap | 1 panel, 2 attempts, no faults | `OneConfigPerDay` **violated** | finding 1 |
| outage_orphan | 1 panel, 1 attempt, outage and crash | `NoOrphan` **violated** | finding 2 |
| double_credit | 1 user, 1 order, 2 handlers, `Overlap` | `CounterMatchesRows` **violated** | finding 3 |
| midnight_report | as volume_day | `ReportSummarisesDay` **violated** | finding 4 |

Why the bounds are enough to see the interesting cases. The runs of
MCClaimSystem (outbox_*, single_tap, double_tap, outage_orphan) have one user, `Vol = 1`,
no panel limit, configs of one day and `MaxDay = 1`: two attempts on a panel
contend for the mutex, the daily check and, where they overlap (outbox_overlap), one bulk
delete, which with `ChunkSize = 1` takes two chunks, so one may fail after another went
through. Two panels give the loop its second round; two jobs overlap at every
step. One crash can fall at any point, and a day more lets a config expire.
`OutboxInv` with all six faults at once, failing queries and overlapping runs included, was
also checked by hand for two attempts and two jobs (6.7 million states), `AloneKnows` and
`ForgetsOnlyGone` for overlapping attempts with every fault but readError.

- channel_gate: the two channels differ in every respect the gate looks at; two days
  let a row be assigned again, before or after it was counted; one join
  completes an order of 1, and targets of 0, 1 and 2 end, reach and raise it. With one
  user the counter of `shop` ends at 1; two users who share an order of 2 were checked against
  AdvertLedger by hand (one channel, two handlers, 960,000 states).
- volume_day: two goroutines are two claims of one user or of two, one charged after the other was
  let in, on either side of the reset, and the bound is reached: two claims of 3 MB that
  were both let in at 0 leave 6 charged of a limit of 3. The credits go both ways; `MaxErased = 1`
  deletes an invitation between the query and the credit; one midnight is what the race of the
  maps needs, and with two restarts a day has its third warning (3.4 million states).
- live_database: two backups and two restores overlap in every pair, the backups in one minute or in
  two; with `Keep = 1` one prunes what the other sends; one statement is open, left open, in
  time, late, lost, and tells an old file from a new one (1.7 million states).
- admin_dialogue: two updates are two texts, or a text and a tap; two dialogues
  are one replaced by the other; two items tell whose number it is. Two links in one
  form would take longer than these runs should; `FormsVerified` holds for any number of them.

Symmetry is used in volume_day, live_database and admin_dialogue, for goroutines, calls, users,
statements and items, which nothing tells apart; these runs check invariants, action properties
and a refinement without liveness. What the bounds leave out (more users, panels, attempts, jobs,
days, updates, scenes) the proofs of section 4 cover.

**Fairness** (`FairSpec`, in outbox_live only): weak fairness of each handler, job, request in flight
and of the passing of time: the Go scheduler, net/http time-outs, cron and the
clock provide it. Strong fairness of the two steps that take a panel mutex:
`sync.Mutex` passes itself to a waiter starved for more than a millisecond.
Nothing is assumed of crashes, administrators, or the outcome of a request.
The liveness run is free of write errors and of outages that never end: with
these the code gives no promise.

**Findings.**

1. `double_tap`: schema.sql says "one new config per day per user"; the check of
   last_claim_date at the start and its update at the confirm are far apart and
   two taps pass the check together.
2. `outage_orphan`: stats.go says a crash in mid-create "can never orphan a
   panel user". The reconciliation drops a pending row on *any* error of its
   lookup, also when the panel is unreachable, and with the row goes the last
    trace of the user.
3. `double_credit`: schema.sql calls the rows of channel_user a snapshot "used to count only NEW
   joins and de-dupe". The flag `counted` is read before the transaction that
   sets it and adds to the counter; two taps that overlap add one join twice.
4. `midnight_report`: the report "summarises the day", but asks for the claims of
   TehranDay() when that is the next day already.

The neighbours of these findings have no run of their own; they are why the theorems
below have the assumptions they have.

- With `lostReply` `NoOrphan` and `OnePanelPerAttempt` fail: the handler rolls back a
  create that happened, and tries the next panel.
- With `readError` `ForgetsOnlyGone` fails: any error of GetPanel counts as "panel gone"
  (scheduler.go:222).
- With `outage` and two overlapping runs `ForgetsOnlyGone` fails: one run cannot
  reach the panel, the other finds the user and activates the row, and the first
  then drops it (scheduler.go:307).
- With crashes or failing writes even updates in turn may give two configs of one
  day: a row that the reconciliation activates (scheduler.go:309) leaves
  last_claim_date as it was. So does a claim whose user an administrator deletes on the
  way: the confirm then has no row to date.
- Two overlapping claims of one referee both find his row uncounted and credit the inviter
  twice (users.go:161), although schema.sql:85 says "counted after referee's first claim".
- A panel may be warned of more than "once per day" (scheduler.go:113): after a restart, and
  when the check of midnight writes to the map before it is replaced, or after.
- An alert that Telegram does not take is never repeated (scheduler.go:184), since the
  health was updated before: the administrators hear nothing until it changes again.
- Two backups of one minute use the same files (backup.go:25): one may send what
  the other has truncated, or find it gone.
- `db.Close` in Restore (db/backup.go:29) does not wait for the statement that has the
  connection. It may report success and be lost with the file it wrote to, or write its pages
  into the restored file.
- After a crash in the middle of Restore's copy the program stops at its start, or,
  when the copy had not written anything yet, comes up with an empty database.

## 4. Proofs

For every value of the constants allowed by the named assumptions:

| theorem (module) | statement |
|---|---|
| `TypeCorrect` (ClaimSystem_proofs) | `Spec => []TypeOK` |
| `OutboxInvariant` (ClaimOutbox_proofs) | `Spec => []OutboxInv` |
| `ServedUntilExpired` | `Spec => []UnexpiredServed` |
| `NeverOrphaned` | `Reliable`: `Spec => []NoOrphan` |
| `OnePanelOnly` | `Told`: `Spec => []OnePanelPerAttempt` |
| `OutboxImplementsLedger` (ClaimLedger_proofs) | `Reliable`: `Spec => ImplementsLedger` |
| `AloneInvariant` (ClaimPromise_proofs) | `OneRun`: `Spec => []AloneKnows` |
| `ForgottenWhenGone` | no readError, and no outage or `OneRun`: `Spec => ForgetsOnlyGone` |
| `TurnsInvariant`, `DailyWhenInTurn` | `Steady`: `TurnsSpec => []TurnsInv`, `TurnsSpec => []OneConfigPerDay` |
| `GateTypeCorrect`, `GateInvariant` (ChannelGate_proofs) | `Spec => []TypeOK`, `Spec => []GateInv` |
| `GateBillsNewOnly`, `GateNoticeMatches` | `Spec => []NewJoinsOnly`, `Spec => []NoticeMatchesOrder` |
| `GateCounterMatches`, `GateNoFreePass` | `~Overlap`: `Spec => []CounterMatchesRows`, `Spec => []NoFreePass` |
| `GateImplementsAdvert` | `~Overlap`: `Spec => ImplementsAdvert` |
| `VolumeTypeCorrect`, `VolumeInvariant` (VolumeDay_proofs) | `Spec => []TypeOK`, `Spec => []VolumeInv` |
| `BudgetsBounded`, `CreditsAlwaysBacked` | `Spec => []OvershootBounded`; `Spec => []CreditsBacked`, which is stated `InTurn` |
| `AlertsMatch`, `WarningsCounted` | `Spec => []AlertMatchesHealth`, `Spec => []WarnedOncePerClear` |
| `DatabaseTypeCorrect`, `DatabaseInvariant` (LiveDatabase_proofs) | `Spec => []TypeOK`, `Spec => []DatabaseInv` |
| `BackupsWhole`, `RestoreKeepsWhole`, `AckedNeverLost` | `Spec => []SentWhole`, `Spec => []LiveFileWhole`, `Spec => []AckedKept` |
| `PruningKeepsNewest` | `Spec => PruneKeepsNewest` |
| `BackupsImplementSnapshots` | `Spec => ImplementsSnapshots` |
| `DialogueTypeCorrect`, `DialogueInvariant` (AdminDialogue_proofs) | `Spec => []TypeOK`, `Spec => []DialogueInv` |
| `FormsVerified`, `NumbersReachTheirItem`, `ClosedDialogues` | `Spec => []PartsVerified`, `Spec => []NumberToItsItem`, `Spec => []ClosedStaysClosed` |

`Told` says that lostReply is not among the faults, `Reliable` that outage and
readError are not either; `OneRun` that no two runs of the cleanup job overlap;
`Steady` that neither writes nor the process fail and no user is deleted;
`~Overlap` and `InTurn` that a user's taps do not overlap. Each is needed: the findings and
their neighbours in section 3 are the counterexamples without it. Some properties name what
they except themselves: `void` alerts in AlertMatchesHealth, `clears` in WarnedOncePerClear,
`marred` backups in SentWhole, `torn` files in LiveFileWhole and AckedKept, and the channels
outside `Sturdy`; all of these happen in the models and are described there and in section 3.

What remains besides is in the guards, and the theorems hold within it: the assumptions about
time of section 2 (an open create is younger than ten minutes; the midnight job and a
check take less than a day), the bounds listed there (documents of overlapping restores
have different names, each call and statement happens once, troubles of the gate fall on
`Troubled` channels, `Actions` of the dialogues), and counters up to their `Max...`, whose
values are arbitrary. Beyond these, crashes, failing writes, failing bulk deletes, lock waits of
any length, overlapping jobs and all administrators' operations come at any time.

**The outbox.** `NoOrphan` alone is not inductive: that a rollback is harmless
depends on what the handler heard, that a dropped row is harmless on what a job
looked up long ago. The invariant `OutboxInv` has two halves. `HandlersKnow`
says what rows, requests and panel users have to do with each other and what each place
of a handler knows about its slot (`BusyKnows`, `ReplyKnows`). `JobsKnow` says
what a job's old reads are still worth. The bridge is `Inert`: no create of the
slot can be sent any more and none is in flight. A slot that is old or active is
inert and stays so, hence a 404 seen once stays true, and a deleted user stays
deleted, however late the job acts on it. The step proof has one lemma per action;
handler actions leave what a job knows intact because they do not
touch inert slots (the frame lemma), job actions are shown for the running job
first and for any other job after that. `OneSlotTaken` adds, for `OnePanelOnly`,
that what is on a panel or on its way there is the slot the handler works on.
What needs a network that answers is guarded in the invariant itself (`ToldKnows`,
`NoOrphan`, `Misled`), so that the rest holds under every fault.
The refinement needs no further invariant: one lemma per kind of ledger step
says how a change of rows, panel users or write-offs shows in the ledger, and
the actions are sorted under them.

**What a run forgets.** By `JobKnows` a row is dropped with reason unless its run was
`Misled`. Without readError only a lookup that failed for want of a connection misleads, and
only the rows under reconciliation. If the run is alone, none of these is
active (`AloneKnows`): it settles each row before it looks up the next, and a row that a
handler still confirms is young, while those on its list are old.

**One config a day.** With updates in turn and nothing that fails to be written, a row is
pending only under its own handler, so the reconciliation activates nothing; every active row
was confirmed with its date, and a handler under way found a smaller date
(`TurnsInv`). The next confirm of the user is therefore of a new day.

**The gate.** `GateInv` has a part for any taps (flags belong to a row, a member
of old is waiting for his first look or was found by it, notices are backed by joins) and
one for taps that do not overlap: `TapKnows` says which of the day's channels
are settled at each place of `tryClaim`. A handler about to credit then knows
that the pair is not counted, since no other handler of the user is under way; so counter
and flags move together. The refinement of AdvertLedger sorts the actions by the one row they
change: what a first look finds, a credit, an excuse, an order. Besides `GateInv` it
needs that a channel whose target changes is an order (`ResizedOrders`).

**Budgets.** A claim in flight was let in by `HasRoom` at some time, but what has
been charged since is unknown to it. The invariant `RoomLeft` counts the goroutines whose claim may
yet be charged to a panel, whoever's claims they are: either there is
room under the ceiling for all of them at `MostMB` each, or one of them
fits with *its own* amount and `MostMB` for each of the others. Whoever joins becomes
that one (he found room just now), whoever leaves is charged his amount at most,
and the reset only lowers what is charged. Amounts are read once (`tap[t].mb`), so a grant
changes those of later claims only, and `MostMB` bounds them all.

**Credits.** Where updates come in turn, `Owed` are the referees whose update has marked a row, or
found it deleted, and not credited yet. Marking moves a row from pending to paid and owed at
once, a credit settles what was owed, a failing one drops it, and a deleted row is added to
`erased` before anyone can be owed for it. That the update works on the row it read
(`RowKept`) needs that no other of the user runs (`OneEach`).

**Warnings.** Between two times that the map is emptied a panel is warned of once: a
warning leaves its mark in the map before it is sent. The check that read the map before
the midnight job emptied it, and warns after it, is `late`; its warning is counted on the new
emptying. `WarningsKnown` counts the warning on its way with those sent.

**The database.** `HandleKept` says who may write: while a restore is between closing and
reopening, nobody but the statements it left open, and those were on a file that is
still in place (`stray`) or not (`ghost`). `RestoreKnows` says what is in the live file at each
place of a restore; from these follow `AckedKept` and `LiveFileWhole`. `BackupKnows` says of
a backup that is not `marred` that it is alone with its files, and whole is what it
read; names of different minutes never meet, so nobody else truncates what it sends. The
three properties are inductive together with it (`Sound`). `PruneKeepsNewest` is a fact about
cardinalities: of the files with Keep or more newer ones, the newest Keep are not among them.
In the refinement a step of a backup makes one copy, of a database in service, or none
(`KeptShrinks`), a step of a restore is one of Stop, Clear, Install, Serve or a
stutter, and a statement is a Write, or a LateEnds if it was left open.

**Dialogues.** `DataKnown` says what Data may hold at each step, `LookupKnown` what a
late lookup has written on its way, `OwnDialogue` that a dialogue belongs to one person
until it is over, and that no text under way may answer one that was over when it came.

Only model-checked: liveness (TLAPS 1.4.5 has neither ENABLED nor liveness under
fairness here), and the four violated properties. Every other property of a run
is a theorem above. No module declares a RECURSIVE operator.

## 5. Not modelled, and what is left

- Hazards of the gate that refute its properties where they happen (a failing
  snapshot, a failing assignment, a channel added again, a deletion cut between its two
  statements) are actions on the channels of `Troubled` only; a property that
  holds there too would have to weaken what is promised to an advertiser.
- Restores of one file name at once: their downloads would write to one file.
- What exactly SQLite leaves of a file that two connections or a copy have written to: it is
  `Damaged` in the model.
- Columns that a migration adds, and their absence in a restored backup.
- Pure functions: weighted sample (any admissible draw here), link parsing and
  formatting, pages and progress bars.
- Bans, prices, priorities, searches, dashboards, delivery of raw configs.
- Abstract specifications of a day of volume (an account of budgets and credits) and of the
  dialogues, for VolumeDay and AdminDialogue to implement.

Left out for good: messages and keyboards, HTTP bodies and links, logging,
environment variables and start-up. They keep no state that the properties
could see.
