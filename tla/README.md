# Trustora Escrow in TLA+

Models, model-checking runs and machine-checked proofs for the escrow service of this
repository: a Telegram bot (`app/main.py`), a signer that holds the keys
(`services/signer`), two deposit watchers (`services/watcher_tron`,
`services/watcher_bsc`), and the library they share (`trustora/`), over one Postgres and
one Redis.

- `tlc -config <run>.cfg <module>` runs a check; the tables below name the pairs.
- `tlapm <module>Proofs.tla` checks the proofs.

## 1. The system

### Components, their state and their operations

| Component | State | Operations that change it |
|---|---|---|
| Escrow state machine (`trustora/state_machine.py`, `escrow.py`) | `escrows.status` | `transition_escrow`, under the row lock of `get_escrow_for_update` |
| Release and approval (`app/main.py`) | `status`, `payout_tx_hash`; Redis `release_confirm:*`, `confirm:approve:*`, `admin:*` | `request_release`, `approve_and_send_payout`, `admin_entry`, `admin_approvals`, `admin_approve` |
| Disputes (`app/main.py`) | `status`, rows of `disputes` | `open_dispute`; no code closes a dispute |
| Payout handler (`services/signer/main.py`) | `status`, `payout_tx_hash`, the chain | `handle_payout` |
| Payout limits (`trustora/limits.py`) | Redis `payouts:day:*`, `payouts:hour:*` | `check_and_track_limits` |
| Watchers | Redis `tron:last_block`, `bsc:last_block`; `status`, `deposit_tx_hash` | `scan_once`, `update_escrow` |
| Dialogue (`app/main.py`) | FSM state and data in Redis, new rows of `escrows` | `handle_start`, `new_escrow`, `set_*`, `confirm_network` |
| Deposit addresses | Redis `deposit_used:*` | `request_deposit_address`, `handle_address`, `pick_address` |
| Configuration (`trustora/config_service.py`) | the row of `config`, `config_history`, `audit_log` | `get_config` (creates), `update_config`; `admin_kill_switch`, `handle_admin_fees` |
| Chat (`app/main.py`) | Redis `chat:*`, `chat_rate:*`; `chat_frozen`, rows of `messages` | `start_chat`, `relay_message`, `admin_freeze` |
| Reviews (`app/main.py`) | Redis `review:*`, rows of `reviews` | `start_review`, `handle_review_message` |
| Message dispatch (`app/main.py`, `create_app`) | none of its own; the keys of chat, reviews and admin actions decide what a message is about | the order of the handlers and their filters |
| Users | rows of `users` | `get_or_create_user`, `handle_admin_block` |
| Signed requests (`trustora/signer_security.py`) | Redis `nonce:*` | `verify_timestamp`, `verify_nonce`, `verify_signature` |
| Fees, reports, broadcast, RPC client, settings, scripts | none that another step depends on | pure functions, reads, sends |

### How they interact

The bot calls the signer over HTTP (`POST /address`, `POST /payout`) with a signed request
and a timeout of 10 seconds. Bot, signer and watchers all write the same escrow row; each
locks it for one transaction, and none holds it over a call to another service or to a
chain. Redis carries what outlives a handler: confirmations, sessions, the dialogue, the
counters, the cursors. Several handlers of one process are under way at once (aiogram runs
a task per update, aiohttp one per request) and interleave at every `await`.

### What is hard

- **Three transactions for one payout**, in two processes, with a broadcast between the
  second and the third. A crash, a timeout or a repeated tap may come anywhere.
- **Statuses agreed on by convention.** Each writer asks the table for the transition it
  wants; whether the writers' requests fit together is written down nowhere.
- **Check, await, act**: the kill switch, the freeze of a chat, the rows a watcher
  selected, the chain of a dialogue.
- **Redis keys with a life**: two-tap confirmations, marks of addresses, counters that are
  created in one call and given their life in another.
- **Order of registration**: which handler takes a message is decided by the order in which
  handlers were registered and by which of them have a filter.
- **Windows that meet**: the life of a nonce key and the tolerance of a timestamp.
- **Rounding**: amounts are floats that users type, rounded in some places and compared
  unrounded in others.
- **Cursor and rows in two stores**, written in an order that decides what a crash loses.

### What makes each component correct

Payout: funds leave at most once, only on the buyer's release, and the record agrees with
the chain. Limits: neither limit is exceeded under concurrency. Watchers: what is recorded
is confirmed, funds lock on an exact deposit, no transaction pays two rows, nothing is
replaced, nothing is skipped. Dialogue and addresses: an escrow's payout address is of its
chain, and open escrows do not share a deposit address. Configuration: the switch is what
the history says, and nobody passes it while it is on. Signed requests: each is accepted at
most once. Chat: the record is what was relayed, limits end, a frozen room is silent.
Dispatch and reviews: what a user was asked for reaches the handler that asked.

`PROJECT.json` lists the hazards with their lines and the properties that cover them.

## 2. Modules

| Module | Models |
|---|---|
| `EscrowStates` | statuses and table of `trustora/state_machine.py` |
| `Custody` | the abstract service: funds arrive, are released, leave once |
| `Payout` | release, dispute, approval, payout: bot and signer together |
| `PayoutInv` | the inductive invariants of `Payout` |
| `PayoutProofs` | theorems about `Payout`, and that it implements `Custody` |
| `MCPayout` | its instances for TLC |
| `Money` | amounts in tenths of a cent, and rounding to cents |
| `Fees` | `trustora/fees.py`; extends `Money` |
| `PayoutLimits`, `PayoutLimitsProofs`, `MCPayoutLimits` | `check_and_track_limits`, asked for the net amounts of `Fees`, which it extends |
| `DepositWatch`, `DepositWatchProofs`, `MCDepositWatch` | a watcher; extends `Money` and `EscrowStates` |
| `Vault` | the abstract service of the composition: a row is backed by a transaction of its own, released, paid once |
| `EscrowService`, `EscrowServiceProofs`, `MCEscrowService` | `Payout` and `DepositWatch` on the same rows; implements both and `Vault` |
| `Opening`, `OpeningProofs`, `MCOpening` | the dialogue that opens an escrow, composed with the signer's handler that gives it a deposit address |
| `KillSwitch` | the config row and its writers; its theorems are in `SignerProofs` |
| `Signer`, `SignerProofs`, `MCSigner` | timestamp, nonce and switch as a request passes them; extends `KillSwitch` and implements it |
| `Routing`, `RoutingProofs`, `MCRouting` | which handler takes a message; reviews, admin actions, blocking |
| `Chat`, `ChatProofs` | the deal room's chat |

Operators whose comment begins "A slip" are deliberate mistakes. No specification uses
them; each is a variant of the definition that follows it, and a property is worth its
place only if TLC refutes it when the slip stands in for that definition. `PROJECT.json`
pairs them up under `mutants`.

### Conventions

A handler is cut into steps where it awaits something that another step can notice: a
database transaction is one step (its row is locked), a Redis call that decides a branch is
one, a call to another service or to a chain is one. Reads whose only rivals are the expiry
of a key just found alive are joined with the step that follows, since the expiry could as
well come after it. A `ValueError` of the table rolls back its transaction, so a refused
step leaves the row as it was. An action stands for the whole handler or the whole of its
part between two cuts. Answers to the user are left out.

### `Payout`

`bot[c]` and `signer[c]` say how far `approve_and_send_payout` and `handle_payout` have come
for call `c`; the lines are in `PROJECT.json`. `status`, `payoutTx` and `disputes` are
columns and rows, `releaseKey`, `approveKey`, `session` are Redis keys, `listed` are the
Approve buttons in admins' chats, `paused` is the switch. `releasedBy`, `asked`, `approved` and
`paid` are history: whose confirmation released the escrow, who had tapped Release on it before,
which escrows an admin's confirmed tap approved, and how often the chain was told to pay.

- *Bot:* `AskRelease`/`ConfirmRelease` are the two taps of `request_release`. Neither
  consumes the key. `BotApprove` is the first transaction of `approve_and_send_payout`, and
  leaves the request with the signer; `BotTimeout` is httpx giving up; `BotRecord` is the
  last transaction, which the code cannot complete after the signer recorded the payout
  itself (`PAYOUT_SENT` to `PAYOUT_SENT` is not in the table), so that it rolls back.
- *Signer:* `SignerCheck` (signature, nonce, chain, address, switch), `SignerLimits`,
  `SignerLock`, `SignerSend`, `SignerRecord`. A request refused by the totals of the limits,
  a replayed nonce or an RPC error is `SignerStops`.
- *Others:* `WatcherCredits` is a watcher whose scan selected the row while it was still
  waiting, and which now asks for its transition; the table decides, as in the code.

Two actions have no code. `BackOffice` takes an edge of the table on the row by hand, and
`Resubmit` sends `POST /payout` by hand. They are in the model because without them hardly
anything happens: as the findings below show, no deposit is recorded and no queued payout
is sent unless somebody repairs the row. What they may do is an assumption with a name:
`BackOfficeAssumption` (only edges of the table; nobody releases, disputes, or decides a
dispute for the seller in a party's place) and the guard of `BackOffice` (a payout is
declared failed only when nothing of it is on the chain or about to be). The safety results
are about the system operated like that. The runs that find a disagreement use
`DepositEdge`, which lets operators do no more than put a deposit through.

Users may tap a release button for any escrow in any status, which is more than the buttons
shown allow. The buyer's test and the table are what stop them.

### `DepositWatch`

One scan at a time, as `scan_loop` runs it. `Mine` is the chain, `MoveRow` everybody else
who writes the row (a set of edges of the table; recording a deposit is the watcher's own).
`ScanFails` is any exception or crash, `RedisLoses` the restart of a Redis without a volume.
The two watchers are the same code but for address formats and RPC calls; some definitions
are mapped to one, some to the other.

Logs are taken in any order: neither RPC call is asked to sort them. A transaction (`TxOf`) may
hold several transfers and is mined whole. Rows may share an
address, since the signer hands one out again after 24 hours (`Opening`); of the rows with
one address a scan uses the first the query returned, whichever that is (`ScanSelect`).
`RowEdges`, what others' transactions do to a status, are edges of `Moves`: the bot takes two
transitions of the table in one transaction (`PAYOUT_FAILED` to `PAYOUT_QUEUED`, `PAYOUT_QUEUED`
to `COMPLETED`), so that the table's own edges would not be all that a watcher can meet.
Amounts are raw (`Money`): `update_escrow` rounds what was sent to cents and compares it
with what is expected, which it does not round. A float halfway between two cents is
rounded to either, so `Nearest` is a set. `Unused` is the table's unique constraint on the
hash, without which `CreditedOnce` is false.

### `EscrowService`

The bot, the signer and a watcher on the rows of one chain. They share the column `status`,
which is one variable here, and nothing else; a step is one of `PayoutNext` that leaves the
watcher's variables alone or one of `WatchNext` that leaves the others' alone. The two actions
by which each module stands in for the other are gone: `WatcherCredits` of `Payout` is the
watcher's own `ScanRecord`, and `MoveRow` of `DepositWatch` is what handlers and operators do.
`PayoutMoves` names what they do, as the watcher sees it.

`HandAssumption` is new: operators put a deposit through to DEPOSIT_SEEN, but do not write by
hand the statuses that stand for a recorded amount. It is what `DepositWatch` assumes of
everybody else (`EdgeAssumption`), now said of operators, since no handler does it either.

`PayoutsAreBacked` can only be said here: behind a payout, a variable of `Payout`, is a
transfer, a variable of `DepositWatch`. `Vault` is what the whole promises. A row that locked
is backed by its transaction; an overpaid or underpaid row has a hash and is backed by none,
so that `backingOf` looks at the amount as well.

### `Fees`, `PayoutLimits`

`Fee` and `Net` are the sets of results that `calculate_fee` and `calculate_net` can have
for an amount in tenths of a cent. An amount not above the flat fee has a net amount of zero
or less, which passes both tests on the amount and is added to the day's key like any other.

The clock is in hours and `Day[h]` maps an hour to its day. A handler reads the clock once; a
request whose day or hour is over when it is counted is counted under the old key, as the code
does it, and in the history of that day and hour, since that is whose limit let it through. A key
may go once its day or hour is over, since its life is as long as the day or hour and starts
within it; a late handler may then create it anew. Redis may restart and lose every key.
`dayLost` and `hourLost` count how often a key went with something in it, `passed` and `admitted`
count what was let through and can be sent, `lowered` what non-positive amounts took off a day's
key: all are history.

### `Opening`

`Dispatch` is aiogram's filter on the state; the handler it selects runs later, in steps cut
at every Redis call on the dialogue. `state.update_data` is two of them, a read and a write
(`ReadData`, `WriteData`), and the state is a third (`SetState`); `step` says how far a handler has
come. `row` has places for as many escrows as wait for money at once.
`RequestAddress` is the call of `confirm_network` to the signer, whose handler for that
message is `signer[m]`: `ReadKey`, `MarkKey`, `FundGas`. `BotStops` is an exception, a crash,
or the 10 seconds of httpx, after which the signer goes on alone; `SignerStops` is the same
for the signer. `CloseRow` is an escrow that no longer waits for money. An address is told
by its chain and its position in the signer's key list, a payout address by the chain it is
valid for, so that `validate_address` is a comparison.

The properties are true but for exceptions, each of which the code really has and each of
which is a history variable: `crossed`, the users who sent a message while another of theirs
was being handled; `lapsed`, the addresses whose key expired while an escrow, or a request
on its way to one, had them; `contested`, the addresses held by somebody who marked them while
another handler stood between its own read and its own write of the key. An address handed out
twice without either is a violation, which is what TLC finds when `pick_address` no longer looks
at the key (the slip `TakeKey`).

### `KillSwitch`, `Signer`

`KillSwitch` cuts a transaction between its unlocked read and its commit (read committed is
the isolation Postgres gives here); the insert of a second row with id 1 fails.

`Signer` has those transactions run by bot handlers and by the signer's handlers, which get
to the switch through `verify_timestamp` and `verify_nonce`. Its clock counts whole seconds.
The bot's clock may be off by `Skew`; a handler takes at most `MaxDelay` from its look at
the clock to its nonce key, which is a guard of `Tick` (the signer's own broadcasts block
its event loop, so that this is not zero). A request may be delivered any number of times,
at any time. `EnvPaused` is `settings.pause_payouts`, which the check reads beside the row and no
tap changes. `inside` is history: the handlers past the check when the switch was turned on.

### `Routing`

`Handlers` is the order in which `create_app` registers message handlers, `Filter` their
filters, and `Handle` runs the first that matches. Each handler's effect on the keys that
say what the next message is about is an operator; what `Opening` and `Chat` model of a
dialogue and a chat is left out here. Messages of one user are handled one after another,
which is the kindest case: what is lost is lost without any race. `KeyExpires` drops one
key.

### `Chat`

`relay_message` is cut into the look at the room, the count, the life of the counter, the
relay and the store. An admin freezes a room in two taps, each within the life of a session key.
`lost` and `looked` are history: messages relayed whose handler failed before it stored them, and
photos looked at while the escrow was disputed.

## 3. Runs

### That pass

| Run (module) | Shows | Bounds |
|---|---|---|
| `Payout_core` (`MCPayout`) | `PaidAtMostOnce`, `PaidEscrowIsSpent`, `PaidOnlyOnRelease`, `RecordedPayoutIsReal`, `OneDispute`, the invariant `IInv`, the refinement `ImplementsCustody`, and `CallsEnd` (liveness) | 1 escrow, its buyer and another user, 1 admin, 2 calls, every edge for operators, resends, faults |
| `Service_backed` (`MCEscrowService`) | `ServiceIInv`, `PayoutsAreBacked`, the refinement `ImplementsVault`, and that the large escrow of two is put up for payout only after an admin's confirmed tap (`LargeWaitsForAdmin`) | 2 escrows with one address, one of them large, 1 transaction that sends the address 1.00 and 0.99 where 1.00 is expected, 1 call, 1 admin, scans that fail and lose the cursor, resends; operators put deposits through, put disputes up for review, declare payouts failed and approve those again; 3 blocks, 1 confirmation, window 1 |
| `Deposit_scan` (`MCDepositWatch`) | `IInv`, `RecordedIsConfirmed`, `LockedOnExactDeposit`, `CreditedOnce`, `PendingIsAhead`, and of steps `DepositIsKept` and `NothingDueIsPassed` | 3 escrows, two of them with one address, 3 transfers in 2 transactions, logs in any order, 4 blocks, window 1, faults |
| `Limits_hold` (`MCPayoutLimits`) | `IInv`, `DailyMaxHolds`, `HourlyMaxHolds` | 2 handlers, 3 hours of two days, 4 requests, net amounts on both sides of zero, keys that expire, late requests, 1 restart of Redis |
| `Opening_all` (`MCOpening`) | `IInv`, `PayoutMatchesChain`, `AddressesAreDistinct` | 1 user with 2 messages at once, one address of one chain and none of the other, 2 rows, 1 stopped handler, keys that expire |
| `Signer_gate` (`MCSigner`) | `IInv`, `AcceptedOnce`, `SwitchIsLastChange`, `SwitchStops` | 2 signer and 2 bot handlers, 1 admin, 4 taps, 1 request, clock to 4 with window 1, life 4, skew 1, delay 1, 1 restart of Redis |
| `Chat_record` (`Chat`) | `IInv`, `RecordIsOfRelayed`, `EvidenceNeedsDispute`, and `LimitEnds` (liveness) | 1 room, 1 party, 1 admin, 2 tasks, limit 2, 3 messages, faults |

**Why the bounds are enough.** Rows are independent but for the calls, limits and addresses
they share; what can go wrong with a payout needs one row and two approvals of it, which is
`Payout_core`, and `Service_backed` adds a call that serves two rows, with the watcher that
funds them. There the same transaction is met again after one of its logs was credited: a scan
that fails or loses the cursor reads both logs once more, and the row that has no deposit yet
shares the address. Without the constraint on the hash (`Unused`) TLC finds a payout with nothing
of its own behind it. Two handlers are the
smallest number that can race, and no step of any module looks at more than one other
handler's effects at once. In `Deposit_scan` the chain is longer than the window plus the
confirmations, so transfers do fall out of the window; to the shared address come an
underpayment and an amount that rounds to a cent below or above, and one transaction pays
both addresses. `Limits_hold` asks for four payouts where the largest net amount
fills a day and an hour admits one, across a midnight and a restart of Redis. In `Opening_all` one address for two messages is
what they race for, and the chain without any is the one on which the signer refuses. In
`Signer_gate` the margin between the life of a key and the last moment at which its request
passes is one second, the least `SignerAssumption` admits; with a life as short as the window
TLC finds a replay.
Counters of the chat are per user and room, so one party shows what a limit does.
What grows without end in the code is bounded by `MaxHeight`, `MaxHour`, `MaxAttempts`,
`MaxRestarts`, `MaxStops`, `MaxTaps`, `MaxNow`, `MaxMessages` and the set `Rows`; `Calls` and
`Tasks` bound the handlers under way. The theorems hold for every value of these.

`Limits_hold`, `Opening_all` and `Signer_gate` use symmetry of handlers (and rows), which
run the same code and are nowhere chosen by name; they check invariants only.

`Service_backed` looks at states through `LiveState`, which leaves out the escrow of a call that
has ended and the range and rows of a scan that has: the next call and the next scan set them
before they read them, so that states which differ in nothing else go on alike.

`Limits_hold`, `Opening_all` and `Signer_gate` turn deadlock checking off: their requests,
rows, taps and clocks are used up.

**Fairness.** `FairSpec` of `Payout`, which `Payout_core` checks, assumes `BotFairness`
alone: the event loop runs a ready handler on, and httpx ends a wait after 10 seconds;
nothing is assumed of the signer. `SettledSpec` adds `SignerFairness` for `Payout_queued`
only, where the property is refuted even though the signer does answer. `DepositWatch`
assumes that `scan_loop` goes on scanning and that blocks are mined. `Chat` assumes running
handlers and that Redis drops a key whose life is over; it is a weak fairness, since such a
key stays one until it is dropped. No user, admin or operator is assumed to do anything.

### That find a disagreement

| Run | The code does | The repository says |
|---|---|---|
| `Payout_queued` | the bot queues the payout and the signer refuses what is queued | README.md:9 |
| `Payout_dispute` | the automatic approval overrides a dispute | app/main.py:435 |
| `Deposit_detected` | no edge leads from AWAITING_DEPOSIT to what a watcher asks for | README.md:7-8 |
| `Deposit_unconfirmed` | the cursor passes a transfer that lacks confirmations | .env.example:17 |
| `Review_asked` | `relay_message`, registered first and without a filter, takes the rating a user was asked for | app/main.py:461 |

The refused PAYOUT_QUEUED to PAYOUT_QUEUED transition, which leaves payouts stuck, is also
what bars a second broadcast: a signer that dies between the broadcast and its record leaves
a row without a hash, and nothing but that refusal stops the next request. The slip
`SelfQueueingTransition` adds the missing edge, and `PaidAtMostOnce` falls. A repair has to
record the intent to broadcast before broadcasting.

### Refuted, without a run

TLC refuted the following while the modules were written. The modules contain the steps that
do it; the properties are not kept as runs of their own.

| What does not hold | Why |
|---|---|
| No payout leaves while the switch is on | `check_kill_switch` reads it once, before the limits, a row lock and the broadcast (services/signer/main.py:116) |
| An approved large escrow can be paid: the bot submits it "for admin approval" (app/main.py:367), the signer refuses it with "Approval required" (trustora/limits.py:19), and `HARD_MAX_PAYOUT` is above `AUTO_PAYOUT_MAX` (.env.example:37-38) | the signer's limits refuse every amount above `auto_payout_max`, approved or not (trustora/limits.py:18): the theorem `LargeStaysUnpaid` says it is never paid |
| `can_send_payout` is false for a paid escrow | the hash is recorded after the broadcast, in another transaction (services/signer/main.py:136) |
| Each sensitive action takes two taps | confirmation keys are not deleted by the tap they confirm (app/main.py:752; README.md:118 promises double confirmation) |
| Each toggle starts where the last one ended | the config row is read without a lock (app/main.py:759) |
| Nothing is relayed in a frozen room | the freeze is read before two awaits (app/main.py:564) |
| A rate counter always goes | it is given its life in a second call, by one handler only (app/main.py:570); `LimitEnds` excepts exactly these keys |
| A toggle that turns the switch on leaves no handler on its way to a payout | `SwitchStops` excepts those past the check; they go on |
| A day's payouts stay within `daily_payout_max`, whatever is asked | net amounts below zero are added to the day's key and make room in it (trustora/limits.py:25); `DailyMaxHolds` subtracts them |
| A limit, or a nonce, outlives a restart of Redis | Redis has no volume; `DailyMaxHolds` and `HourlyMaxHolds` count the lives of each key, `AcceptedOnce` those of Redis |
| No request is let through under the limit of a day or an hour whose key has expired | a handler that read the clock before may count after, and finds no key (trustora/limits.py:21, 25); the same two count the lives |
| Nothing relayed is missing from the record | the message is sent before it is stored (app/main.py:589, 603; 610), and a handler may fail between the two; `RecordIsOfRelayed` counts what is lost |
| An escrow's payout address fits its chain, for users whose messages overlap | the address is tested before an await and stored after it (app/main.py:170); `PayoutMatchesChain` excepts `crossed` |
| One dialogue gives one escrow | the row is committed before the state is cleared (app/main.py:234) |
| Open escrows do not share an address, with two requests at once, or after 24 hours | the key is read and written in two calls and has a life of its own (services/signer/main.py:82, 85); `AddressesAreDistinct` excepts `contested` and `lapsed` |

## 4. Proofs

All theorems hold for every value of the constants that satisfies the named assumptions of
the module.

**`PayoutProofs`** (assumptions `CallerAssumption`, `BackOfficeAssumption`,
`NobodyAssumption`). `PaidAtMostOnce` is not inductive: a signer about to send says nothing
about `paid`. `IInv` adds what is so at each point of a call:

- `PayInv`: at most one call per escrow is between admission and record; it found the escrow
  unpaid; its row is in `Spent`, from which no call is admitted. The table gives no edge out
  of `Spent` but PAYOUT_QUEUED to PAYOUT_FAILED (`EdgesKeep`), and that one is the
  operators', who look first.
- `ReleaseInv`: a row in a status after the release, an Approve button and an approval under
  way all go back to a confirmation by the buyer, and a confirmation to a first tap before it
  (`AskedStep`).
- `RecordInv`: a bot that goes on to record was answered by a signer that had recorded.
- `DisputeInv`: a status from which a dispute can be opened has none yet.
- `LargeInv`: no call on a large escrow gets past the limits.

`LargeNeedsAdmin` (that `LargeWaitsForAdmin` holds) needs a second invariant, `QueueInv`: a
large escrow past RELEASE_REQUESTED, and one that an approval under way is about to take
there, was approved by an admin's confirmed tap. It also needs the hypothesis `ApprovalsAreAdmins`, that
operators do not approve by hand, which is what `Service_backed` sets.

`StepInv` is one lemma per part (`PayStep`, `ReleaseStep`, ...), one step per action.
`Invariance`, then `AtMostOnePayout`, `PaidRowsAreSpent`, `PayoutNeedsBuyer`,
`RecordsAreReal`, `DisputedOnce`, `LargeStaysUnpaid` follow. `Refinement` shows that
`Payout` implements `Custody` under the mapping `custodyOf`: a confirmed release is
`Authorise`, `SignerSend` is `Pay`, a status that moves into `Held` is `Fund`, and everything
else stutters. `Pay` needs `outflow[e] = 0`, which is where `PayInv` is used.

`NothingLeavesUnaided` is the general form of the finding of `Payout_queued`: unless operators
approve a release by hand, the signer pays nothing, ever. The bot takes a row through
RELEASE_APPROVED to PAYOUT_QUEUED in one transaction, so that a row is seen in RELEASE_APPROVED
only after a hand put it there, and from no other status does a call get past `SignerLock`.

**`DepositWatchProofs`** (`AmountAssumption`, `BoundAssumption`, `EdgeAssumption`,
`NoTxAssumption`). `RecordedIsConfirmed` and `PendingIsAhead` need `ScanIsBehind`: the head a
scan saw is not ahead of the chain, and its logs are of its range. `OneRowPerTransaction`
rests on `Unused` alone. `FractionsNeverLock`: what is recorded is whole cents
(`NearestIsCents`), so an escrow that expects a fraction of one is never locked. `DepositIsKept`
is an action property, proved from the invariant. So is `NothingDueIsPassed`, which says the
converse of `PendingIsAhead`: a cursor that moves passes nothing that is due to an escrow
without a deposit. It needs `DueIsPending`, that what is due to a selected row is still in
`todo` or the row has a deposit, which in turn needs that a scan uses one row per address:
otherwise a log could be spent on one row and be due to another. `NothingRecordedUnaided` is
the general form of the finding of `Deposit_detected`: unless somebody marks a deposit as
seen, none is recorded.

**`PayoutLimitsProofs`** (`LimitsAssumption`, `DayAssumption`, `FeesAssumption`). The limits
need `KeysCover`: a key counts at least what was let through beyond the limits of its own earlier
lives (`OneMoreLife`). `LimitsOfTheDay` is the plain reading: where Redis does not restart and no
escrow is so small that its fee leaves nothing, what is let through for the day and the hour that
it is stays within the limits as configured. Three theorems are about the fees alone:
`FeeAndNetAddUp`, `NothingLeftOfSmallAmounts`, and `SellerGetsNoMore`, which needs that the
amount is whole cents: of half a cent and no fee the seller may be sent a cent.

**`EscrowServiceProofs`** (the assumptions of both components, `HandAssumption`,
`WatchAssumption`). The argument is that each component is the environment the other was
proved in. `ImplementsPayout`: a step of the watcher that changes a status is a
`WatcherCredits`. `ImplementsWatch`: a step of a handler or an operator that changes a status
is a `MoveRow` along `PayoutMoves` (`PayoutSteps`, under the invariant of `Payout`). Every theorem of the two modules is thereby
one of the whole. `WP` instantiates `DepositWatchProofs` with `PayoutMoves`, and its theorems
are cited with `MovesAreAllowed`, which is the instance's `EdgeAssumption`.

What no component knows is `BackedInv`: a row is backed before it has a status after the lock,
stays backed, and only backed rows are released. REVIEW and COMPLETED are excepted, which an
overpaid row reaches without a backing. Together with the two invariants it is `ServiceIInv`.
From it follow `EveryPayoutIsBacked`, `VaultRefinement` (a recorded exact deposit is `Back`,
where the constraint on the hash is used; a confirmed release is `Release`, where `BackedInv` is;
`SignerSend` is `Pay`, where `PayInv` is), `FractionsAreNeverPaid`, `ServiceAsksAdmin` and
`NothingHappensUnaided`:
without a hand that puts deposits through, nothing is recorded, locked, released or paid.

**`OpeningProofs`** (`OpeningAssumption`). `PayoutMatchesChain` needs `SerialDialogue`: of a
user whose messages never overlapped at most one is being handled, and it found, or left, the
state and the data that its point of the code implies. `AddressesAreDistinct` needs
`AddressesAreMarked` (what is held is marked until its key goes), `MarksAreFirst` (nobody is about
to mark what is held) and `HoldersAreDistinct` (until a row is inserted its address is held by one
handler, in the signer or in the bot, and by no row). The step that needs all three is `ReadKey`:
the handler that finds the key free finds the address held by nobody.

**`SignerProofs`** (`SignerAssumption`). `Composition` shows that `Signer` does to the config
row only what `KillSwitch` allows. There, `SwitchIsLastChange` needs that a transaction that
creates the row found none (`CreatesWhenAbsent`) and that an insert finds no row when it
commits; with it `SwitchFollowsHistoryHere` is a corollary of `SwitchFollowsHistory`.
`NoReplay` needs `KeysOutlastWindow`: once a request was accepted as often as it may be, its
key is there until the last handler that could set it again is too late. This is where
`Window + Skew + MaxDelay < Life` is used; with 60, 120 and whole seconds it leaves skew and
delay together 59 seconds. `SwitchStops` needs no more than the types.

**`RoutingProofs`**. `RelayIsLast`: the first handler whose filter holds is never one of the
two registered after `relay_message`. `HandlersBehindRelay` follows: nothing that they would
write is ever written. It is the general form of what `Review_asked` shows on one message.

**`ChatProofs`** (`ChatAssumption`, `NoRoomAssumption`). `RecordIsOfRelayed` counts the
handlers about to store, so its steps are about cardinalities (`OneMore`, `OneLess`).
`EvidenceNeedsDispute` needs `PhotosSawDispute`: the photos on record, with those whose handlers
saw a dispute and have not ended, are no more than were looked at in one.

Model-checked only: liveness (`CallsEnd`, `LimitEnds`), which needs fairness and ENABLED and
is out of the prover's reach. Every invariant and action property of a passing run is stated
by a theorem. No module declares a RECURSIVE operator, and nothing here needs
induction over data.

## 5. Not modelled, and why

- HMAC, Fernet and the formats of requests: cryptography and encoding. A request that fails
  them changes nothing but a nonce.
- Gas transfers: they succeed or raise; their money is not the escrows'.
- Which wallet pays (`tron_keys[0]`, `bsc_keys[0]`), whether it has the funds, and the
  transaction count that concurrent BSC payouts read without a lock: what a chain does with
  two transactions of one number is outside the repository.
- Values that are not numbers: `float("nan")` passes the test of an amount (app/main.py:141).
  Amounts are whole tenths of a cent in every module.
- `get_or_create_user`: its row is read by no other handler.
- Reports, what a broadcast sends, migration, scripts, settings, the unused `RpcClient`.

## 6. What is left

1. `Opening` in front of `EscrowService`, so that the rows and their addresses come from the
   dialogue: until then `Address` is any function, which includes those `Opening` can give.
2. A bound on what may leave after the switch is turned on: as many payouts as handlers in
   `inside`, which needs `Signer` in front of `Payout`.
3. A liveness run that relates the watcher's window to the length of an outage.
4. Whether a watcher whose scan ends at a refused hash ever gets past it: the log leaves the
   window only as the chain grows, and the logs behind it leave with it.
