# SatsPath: specifications, model checking and proofs

This directory holds TLA+ specifications of SatsPath: the identity and key
transparency service and its SDK under `src/satspath`, and the wallet under
`src/wallet`. Every definition is translated from the Rust or TypeScript source;
`PROJECT.json` names the lines each one stands for.

Paths below are relative to `src/satspath/crates` unless they begin with
`wallet/` (`src/wallet`) or `sdk/` (`src/satspath/sdk`); `transparency/` is
`satspath-core/src/transparency/`.

## 1. The system

SatsPath maps a name (an e-mail address or handle) to a signed payment profile.
Its daemon, **satspathd**, keeps one transparency log: every change of a name is
a signed *name event*, every commit adds an operator-signed *checkpoint* over the
Merkle tree of all events, and every resolve of a name proves the event's place
under the latest checkpoint and compares that with the checkpoint it *pinned*
before. The **wallet** is a page over a service worker that holds the keys. It
publishes receive methods through the daemon, sends and receives over Lightning
through swaps that a solver takes the other side of, and swaps assets. The
**SDK** resolves a name along a chain of resolvers and selects a rail to pay it.

```
 wallet (browser) --HTTP--> satspathd requests --+--> identity/*.key, wallet.json, profiles/*.json
                             (mutation_lock)     |
                                                 +--> TransactionalTransparencyStore (SQLite)
                                                 |      events, checkpoints, profiles, operator, anchors
 payer  ----HTTP-->  resolve (no lock) ----------+--> transparency-pins.json
                                                 |
 other processes (CLI, second daemon) -----------+
 Bitcoin node (regtest)  <--- anchor a checkpoint, confirm, attach the receipt

 wallet screens <-- flow context --> providers --- Web Lock ---> one manager per wallet
  (receive, send,                     |   |  |                   (receives), of several tabs
   swap, profile)                     |   |  +---> IndexedDB: receive, send and swap records
                                      |   +------> service worker (keys, coins), pinged
                                      +----------> covenants on the Ark server <-- solver
```

### Inventory

| component | state | operations | hard behaviour | what makes it correct |
|---|---|---|---|---|
| Name history rules (`transparency/verifier.rs`, `event.rs`, `rotation.rs`) | none: rules over a list of events | `verify_identifier_history`, `verify_event_transition` | the rules are written twice | both verifiers agree; a key enters by a dual-signed rotation only; a revocation is final |
| Transparency store (`database.rs`, `log.rs`) | five SQLite tables | `profile`, `load_log`, `prepare_*`, `commit_profile_event_checkpoint`, `replace_latest_checkpoint` | optimistic writers, reads that are no transaction, late anchors, crashes, the clock | the store passes its replay; tables advance together; append-only; one writer wins; no lost update |
| Checkpoint pins (`store.rs`, `resolve_profile`) | `transparency-pins.json` and its temporary file | load, verify, pin | several resolves at once, one temporary file, rolled back logs | a pin moves forward along one branch; the file stays readable |
| Merkle tree (`tree.rs`, `verifier.rs`) | none | roots, inclusion and consistency proofs, their verification | index arithmetic on trees of any size | proofs are accepted exactly when they are the prover's |
| Profile requests (`satspathd/src/main.rs`) | key files, `wallet.json`, `profiles/*.json`, the store | publish, verify alias, update methods, rotate key | several files and a database without a common transaction; failures between any two | owner keys are on disk; files never ahead of the log; requests can be repeated |
| File-backed log (`log.rs`) | a `.jsonl` of events, a JSON of checkpoints | `append`, `create_checkpoint`, `attach_latest_anchor` | torn lines, an event without its checkpoint | an open after a crash accepts what was acknowledged |
| Witness (`satspath-witness`) | one pin per log, equivocations | `process_checkpoint`; the client's quorum | get/save race, consistency not verified | no two forks cosigned; pin monotone |
| Boltz swaps (`satspath-swaps`) | one encrypted file of swap records | create, update, list, execute | remote swap before local record, whole-file rewrites | the secrets of a remote swap are never lost |
| Lightning receives (`wallet/src/providers/lnReceive.tsx`) | lock requests, a manager, admitted receives per tab; records | mount, unmount, track, passes over a swap | hand-over between tabs, a grace timeout, teardown while starting | one manager at a time, where there are locks; a mark is backed by something; a funded receive ends |
| Lightning sends (`wallet/src/lib/lnSendRecords.ts`, `providers/lnSwaps.tsx`) | send records, managers, their jobs | fund, save, restore, update, note a spend, prune, refund | read-modify-write across awaits by unordered managers | what is driven is stored; an outcome is recorded |
| Asset swaps (`wallet/src/providers/assetSwaps.tsx`) | offer records, cancels, the scan | create, cancel, watch, restore | four writers of one status, each after its own await | a final status is what became of the deposit |
| Wallet lifecycle (`wallet/src/providers/wallet.tsx`) | init sessions, listener, ping, worker, what is shown | create, unlock, change password, init, retry, lock, reset, reload, ping, re-init | an init overtaken by a lock or another init; a worker killed by the browser | a locked wallet stays shut; a dead worker is healed |
| SatsPath sync (`wallet/src/providers/satspath.tsx`) | identity, daemon health, local profile, profile shown, requests in flight | derive, poll, refresh, push, register, verify, publish | answers in any order, some asked for under no key | a profile of another key does not stay on screen |
| Receive screen (`wallet/src/screens/Wallet/Receive/QrCode.tsx`) | request, negotiations, code, value picked | amount, negotiate, track, pick, rebuild | quotes that answer a request that is gone | an invoice shown is monitored; the code is what is requested now |
| Send screens (`wallet/src/screens/Wallet/Send/*.tsx`) | the send in flow, form, look-up, negotiations, payment | type, parse, look up, negotiate, continue, sign, go back | late answers write what is being sent | a payment is within the balance, whatever late answers wrote |
| Swap screen (`wallet/src/screens/Wallet/Swap/Index.tsx`) | assets, entry, preserved pair, quote, review | select, type, toggle, quote, confirm | a plan quoted for an earlier amount, asset or balance | the swap created is the one reviewed |
| SDK resolvers and quotes (`sdk/resolvers`, `sdk/router`) | two caches per network resolver | resolve along the chain, check, select a rail | caches that add up; documents and keys replaced meanwhile | a profile replaced long ago is not routed |
| Everything else | | | | see section 7 |

Components call each other directly. What is shared, and can therefore be seen
half-way, is files and the SQLite database. `mutation_lock` orders the requests
of one daemon that change a profile; resolves, anchoring and other processes
take no lock. In the wallet everything runs on one thread per tab, so what can be
overtaken is an `await`; tabs share the records, the worker and the Web Lock.

## 2. Modules

| module | models | EXTENDS / uses |
|---|---|---|
| `NameHistory` | the two sets of rules for a name's history | |
| `IdentifierHistory` | one name's log, growing by any event a caller may propose | `NameHistory` |
| `NameRegistry` | abstract: what the log promises the holder of a name | |
| `TransparencyStore` | the SQLite store and the writers that use it | `NameHistory`; INSTANCE `NameRegistry` |
| `CheckpointPins` | resolves, the pins file, a log that may be rolled back | |
| `ProfileDaemon` | the requests that change a profile and their files | |
| `MerkleTree` | the tree, its proofs and their verifiers | |
| `Recursion` | no code: recursive functions exist (for the proofs) | |
| `LnReceives` | Lightning receives: tabs, lock, managers, records | |
| `LnSends` | Lightning sends: records and unordered managers | |
| `AssetSwaps` | offers, their cancels, the watcher and the scan | |
| `WalletLifecycle` | init sessions, worker, ping, lock, reset, reloads | |
| `SatsPathSync` | the provider that polls satspathd, the profile screen | |
| `ReceiveScreen`, `SendFlow`, `SwapScreen` | one flow of screens each | |
| `AliasQuotes` | resolvers, caches and the choice of a rail of the SDK | |
| `WalletApp` | the nine wallet and SDK parts side by side | the nine |
| `MC*` | constants and symmetry sets of the runs | the module they name |
| `*_proofs` | theorems and their proofs | the module they name, `TLAPS` |

`WalletProviders_proofs` is about `LnReceives`, `LnSends`, `AssetSwaps`,
`WalletLifecycle`, `SatsPathSync` and `AliasQuotes`, and `WalletApp_proofs` about
the three screens and the composition.

### How state and actions correspond to the code

**NameHistory, IdentifierHistory.** An event keeps the fields the verifiers
read; a signature is the key that made it; a hash is an opaque value, fresh for
every event because a profile has a nonce. `VerifyIdentifierHistory` is the
loop of `verify_identifier_history`, with its two loop variables
(`authorized_key`, the revoked flag) replaced by what they equal at each
iteration. `Genesis` and `Successor` are the two cases of
`verify_event_transition`. `AppendEvent` is `prepare_append`.

**TransparencyStore.** The variables are the tables, plus a clock and what each
caller holds. A writer goes through `BeginWrite` (read the profile),
`ReadEvents`, `ReadCheckpoints`, `ReadProfiles` (the three SELECTs of
`load_log`, with the checks made after each), `Prepare` (sign the event and
the checkpoint over the loaded log), the same three reads inside
`commit_profile_event_checkpoint`, and `Commit`, the IMMEDIATE transaction.
Anchoring is `BeginAnchor`, two more reads, and `ReplaceLatestCheckpoint` any
time later. `Fail` ends a caller at any step; SQLite's atomic commit is taken
as given. A writer may sign under any keys: those of other daemons are no part
of this process. A Merkle root is the sequence of hashes under it: two logs with
one root are one log (`RootIsTheLog` of `MerkleTree_proofs`, for hashes that do not collide).

**CheckpointPins.** A checkpoint is the sequence of entries it covers, a pin the
checkpoint it was copied from. The pins file is a path naming an inode, so that
opening with truncation, writing through an open handle and renaming are what
they are in the file system, one action each. `Restore` replaces the database
file by an earlier copy. `Concurrent` says whether resolves overlap,
`MayRestore` whether `Restore` happens.

**ProfileDaemon.** `request` is the one request that holds `mutation_lock`, with
the wallet record it carries in memory; one action per file write or commit, in
the order of the code; `Fail` is an error or a crash between any two. A wallet
record keeps its alias, key and whether it has a method to publish. The store is
reduced to the keys of each name's events (`TransparencyStore` is the full one).
Clients may name a key the daemon has no file for (`ClientKeys`).

**MerkleTree.** `leaves` grows; `claim` is a proof presented to a verifier. The
prover's recursions (`Root`, `Path`, `SubProof`) are functions of a slice of the
log: how many leaves lie before it and how many it has. The verifiers are the
machine `pc`, with one step for an iteration of each loop: `Climb` and `Skip` are the
two loops of `verify_inclusion_proof`; `SkipOnes`, then `BuildBoth`, `BuildNew` and
`BuildNothing`, those of `verify_consistency`. `fn`, `sn`, `fr`, `sr` and `p` are its
variables (`index`, `last` and `hash` of the other are `fn`, `sn` and `sr`). What is
presented besides the prover's own proofs is a constant, `ForgedPaths` and
`ForgedRoots`, for any index and any size. A hash is the term it was computed from.

**LnReceives.** Each run of the provider's effect in a tab is a *driver*: it asks
for `MANAGER_LOCK` (`MountDriver`), gets it (`GrantLock`), starts its manager
(`StartManager`, `BreakManager`), and is torn down in two steps, what the cleanup
does at once (`UnmountDriver`) and the stop that releases the lock
(`StopManager`). The browser's queue of the lock is what is left of it that
matters: for each request, the requests and the hold that come before it
(`ahead`), to which a new one comes last and from which one that ends is
withdrawn. A browser without Web Locks (`hasLocks` is false) has no queue: every
run drives at once. `CloseTab` takes a page away with all it holds. `track()` is
split at its awaits: `Track`, `StopWaiting` for the grace time, `AddSwap` or
`AddSwapFails`. `admitted` is the set of ids that makes a second call return at
once. The record store survives everything.

**LnSends.** A manager has at most one job per send; a job is a read, the awaits
and the write of a whole record (`ReadPrior`, `WriteUpdate`; `ReadEnding`,
`LookUpSpender`, `ReadForNote`, `WriteNote`), and keeps what it read. Managers of
several tabs and mounts take no lock. `UnmountSends` stops a manager but not what
it awaits; `CloseSendPage` stops both. A manager stopped while it starts becomes
the one sends are handed to all the same (`managerRef`, `lnSwaps.tsx:122-124`): it is
`closing`, then `stopped`, and drives nothing, as a stop during a start is taken to
stick in `RfqSwapManager`. `Retired` records may be pruned.

**AssetSwaps.** Four writers of `swapStatus`: the watcher (`WatchSpend`,
`Announce`), a cancel (`MarkCancelling` to `FinishCancel`), the reconciliation of
a cancel that failed (`LookAtDeposit`, `ResolveCancellingSpend`, `RevertCancel`)
and the scan (`FindOffers` to `AddRestored`), which writes the status it found on
chain before its awaits. `deposit` is the truth on chain. `isCancelSpend`
(`swapSpend.ts:18-25`) infers from the assets of a history row whether a spend was the
cancel; the model takes the inference to be right, for an offer and its own fill or cancel.

**WalletLifecycle.** A session is one call of `startInitSession` with its abort
signal; its attempts, the backoff, the checkpoint (`CommitSession`) and the
clean-up of an aborted session (`YieldSession`, `ClearStaleWorker`) are steps.
`pinger` and `listener` name the session that owns the interval and the message
listener. `WorkerDies` may happen whenever the worker is up, and `PingFails` also
when it is only slow (the 3 s of `wallet.tsx:721`). The onboarding is `CreateWallet`:
its session sets `wallet.pubkey` when it is through, and the auth effect runs again
under the open page (`DetectPassword`). `SavePassword` sets, changes or removes the
password.

**SatsPathSync.** `requests` are the calls in flight, answered in any order with
any profile; what differs is which calls name the wallet's key and what each
handler does with an answer for another's.

**ReceiveScreen, SendFlow, SwapScreen.** Variables are the React state and the
flow context that outlives the screens; an action is a handler together with the
effects that React runs after it (`Update` in `SendFlow` is `setSendInfo` with
everything that hangs on the fields it changes). Promises settle as actions of
their own, also after their screen is gone: a payment that succeeds writes the
`sendInfo` it was signed with over whatever is being sent by then
(`PaymentSucceeds`). Signing takes the branch of `Details.tsx:195-257` whatever the
screen shows (`SignBranch`). Amounts are small numbers; a recipient is a kind and a
payee.

**AliasQuotes.** One alias. The domain publishes and replaces versions of its
profile (`Serve`); `replacedAt` is a history variable. A request goes out
(`ResolveHttps`, `ResolveNostr`), is answered with what the domain shows at that
moment (`DomainAnswers`), and its body is read and cached later (`StoreHttps`,
`FetchNip05`, `QueryRelays`), where its life in the cache begins; time passes in
between, up to `Longest` from the request. The Nostr resolver has two
caches, of the key NIP-05 names and of an event signed with it. The first relay that
answers wins, and a relay may be behind: it may answer with any event of the key ever
published, since nobody reads `created_at`.

**WalletApp.** The nine parts share no variable, so a property of one holds
whatever the others do; `focus` picks the part that moves, to keep the state
space the sum and not the product. What one part needs of another is inside its
module: the lock and the records between tabs, the chain, the worker, the daemon.

## 3. Runs

| run | question | bounds | result |
|---|---|---|---|
| `identifier_history` | do the two verifiers agree, is ownership traceable, is revocation final? | histories of up to 4 events, two keys, two identifiers, every field of an event and of a rotation proof free | holds, 425 states |
| `store` | races of two writers and anchoring; does the store implement the registry? | 2 callers, 1 name, 2 keys, 2 operators, 2 events | holds, 1,252,248 states |
| `store_clock` | the same with a clock set back | 1 caller, 1 name | `StoreReplays` violated |
| `pins` | pins of one resolve at a time over a log that is rolled back | size 3, 2 branches, 3 inodes | holds, 454,315 states |
| `pins_race` | two resolves over a log that only grows | size 3 | `PinNeverRollsBack` violated |
| `pins_torn` | the same, the file | size 3 | `PinsReadable` violated |
| `daemon` | requests that fail between any two writes | 2 names, 3 server keys, 1 client key, 2 events per name | holds, 2,124,530 states |
| `daemon_client` | can a published name be published again by its client? | 1 name, 2 server keys, 1 client key | `RequestRepeatable` violated |
| `merkle` | prover against verifiers | up to 6 leaves, all altered proofs | holds, 4,705,952 states |
| `wallet` | twelve invariants and four liveness properties of the wallet and SDK parts | see below | holds, 334,494 states |
| `send_flow` | is the total of a Lightning send its amount? | two invoices, of 1 and 2 | `TotalIsSatoshis` violated |
| `receive_screen_amount` | is an invoice of a replaced amount still presented? | amounts 1 and 2, 1 of them quoted | `AbandonedIsNotShown` violated |

Why the bounds are enough. A store race is decided between two writers: a third
can only lose to one of them. Two events are the registration both want and an
event after it under another operator; the histories of up to four events are those of
`identifier_history`: a registration, a rotation, the rotation back, and a revocation,
with what is proposed after it refused. A log of three entries has an operator
rotation with an entry before and after it, a prefix to be rolled back to, and
two branches to fork into. Two names and three keys let the wallet file, a
profile file and the log disagree pairwise. Six leaves cover complete and
one-more-than-complete trees up to three levels and, at six, the first in which
the old log ends with an inner node that has no sibling on its level (`BuildNothing`).
What is presented is the prover's path, the path with one hash replaced by that
of any subtree, dropped or added, and the roots of all prefixes of all forks in
one leaf; the two leaf values are interchangeable (`SYMMETRY`). The theorems of section 5 do
not depend on these bounds.

The run `wallet` has two tabs that mount twice each (a hand-over and the return),
with and without Web Locks, one receive, one send under two managers (the overwriting
needs two), one offer (records are written one at a time, so offers meet only in the
scan's list), two sessions with one retry (an init and the one that overtakes it), one
amount beside none (an amount that is set, cleared and set again) and two
negotiations, two assets with one market, and three versions of a profile, the last
under another key, over four ticks with caches and requests of one. Of the kinds of
recipient it takes an invoice of more than the balance and an alias, whose rails write
every field the other kinds write; the theorem `PaymentsAreCovered` is about all kinds.
`MaxMounts`, `MaxSessions`, `MaxNegotiations` and `LastTick` are bounds on counters
that the code leaves open. `MaxInFlight` bounds the negotiations and payments in flight
at once, those of screens that are gone included: one of them, beside an LNURL
request and a look-up; the theorem is about any number. `Longest` is how long a request may
take; the code aborts one after 10 s, but only until its headers are in (the body is
read after `clearTimeout`), so it is an assumption about domains. `WideFrom` of
`CheckpointPins` stands for the tree size at which the JSON text of a pin becomes one digit
longer.

Deadlock checking is off where the behaviour really may end:
`IdentifierHistory.cfg` (a revoked history accepts nothing more), `WalletApp.cfg` (a
part whose mounts, sessions or negotiations are used up) and
`ReceiveScreenAmount.cfg` (negotiations). All other runs check
for deadlock.

Fairness is stated where the code polls, holds a lock or awaits, and only there:
a free Web Lock is granted and a manager starts, passes and stops (`DriverStep`
of `LnReceives`: browser and `RfqSwapManager` poll); a send's pass over a spent
lockup ends and its jobs settle (`PassEnds`, `JobStep` of `LnSends`); the ping
interval ticks and fails on a dead worker, and a session's awaits settle
(`DeadPing`, `ReinitSvcWallet`, `SessionStep` of `WalletLifecycle`, intervals and
timeouts at `wallet/src/providers/wallet.tsx:707-740`); the 30 s health poll ticks
and a request is answered or fails (`CheckDaemonHealth`, `RefreshAnswered` of
`SatsPathSync`). All of it is weak. Users, tabs, the solver, the browser's decision to kill a
worker and a caller of the transparency store owe nothing: a losing writer
returns an error and retries only if its user does. What liveness therefore
leaves out is in the formulas: `FundedReceiveEnds` excepts a wallet with no tab
and a tab whose manager failed to start or to rebuild the receive,
`EndedSendIsRecorded` a manager that goes, `DeadWorkerIsHealed` a ping that finds
an earlier re-init at work (`wallet.tsx:932`, for which the property would be false),
`ForeignProfileIsDropped` a daemon that is out of reach.

Every property of a passing run has a mutant in `PROJECT.json`: an operator,
next to the definition it would replace, with the fault a plausible change would
make, under which TLC finds the property violated.

## 4. What the runs found

1. **A clock set back bricks the store** (`store_clock`). `prepare_checkpoint`
   (`log.rs:111`) dates a checkpoint with the wall clock; the commit does not
   compare it with its predecessor; the replay of every later open does
   (`log.rs:439`) and refuses. Key rotation of the operator already takes the
   maximum of both times (`log.rs:145`).
2. **Concurrent resolves roll a pin back** (`pins_race`). `pin_verified`
   (`store.rs:45`) overwrites whatever is pinned by now with what was verified
   against an earlier pin.
3. **Concurrent resolves tear the pins file** (`pins_torn`). All use the
   temporary file `transparency-pins.json.tmp` (`store.rs:69`).
4. **A client's identity is replaced by a server key** (`daemon_client`).
   `sign_and_store` (`main.rs:980`) mints a key whenever it cannot load the one
   the request names: the name is registered under the server's key, and the
   client's next update is refused. With `ClientKeys` empty the property holds.
5. **An edited amount keeps the quote of a Lightning send** (`send_flow`).
   `handleAmountChange` and `handleSendAll` (`Form.tsx:760`, `:930`) change the
   amount and leave `pendingLnSend`; the details then show one amount and a total
   of another, which `Details.tsx:112` says cannot differ. "Available" changes even the
   fixed amount of an invoice. What is paid is the total, and it is still compared with
   the balance (`PaidIsCovered`).
6. **A replaced invoice is put into the code** (`receive_screen_amount`). Whether a
   run of the negotiation was abandoned is looked at before `await track(pending)`
   (`QrCode.tsx:197`) and not after it (`:203`): an amount changed in between gets the
   invoice of the old one, which `QrCode.tsx:348-353` says must not be presented.
   `CodeFitsAmount` says that this await is the only way.

Met while modelling, without a run of their own, because no line of the
repository promises otherwise or the effect is outside the properties:

- A reload that was reading when the wallet was locked marks its data ready over
  the locked wallet (`wallet.tsx:526-530`).
- An invoice picked in the copy sheet is not among the candidates of
  `resolveQrValue` (`QrCode.tsx:60`): the next rebuild shows the BIP21 code again, though
  the sheet still offers the invoice and the comment at `:52-58` says that such a pick
  stands. The model does the same (`ResolveQrValue`, `SelectValue`).
- The signing screen looks at the limits of Ark and on-chain payments to choose what
  it shows (`Details.tsx:93-97`), the button does not (`:195-257`): with a limit at 0 the
  screen may show an address while Ark is paid. Nothing in the repository says which is meant.
- An LNURL's invoice fetched at signing has no `pendingLnSend` (`Details.tsx:229-233`): the
  next tap finds no branch and leaves the screen sending for good (`stuck`).
- A payment's answer writes the send it was signed with over a newer one
  (`Details.tsx:146`), also after its screen was left.
- Without Web Locks every tab drives the receives (`lnReceive.tsx:261-267`), which the
  comment there accepts; `OneDriver` is about browsers that have them.
- The scan writes the status it found before its awaits over one recorded since
  (`assetSwaps.tsx:160`): a settled offer may be listed as pending until it is looked at again.
- The age of a Nostr event is never read: a relay that lags brings an older
  profile of the same key, which only its own expiry ends.
- A third failed ping clears its interval (`wallet.tsx:733`) before
  `reinitSvcWallet` returns early because an earlier one is at work (`:932`):
  nobody pings any more. `DeadWorkerIsHealed` excepts exactly this.
- The scan marks its transactions as scanned (`assetSwaps.tsx:148`) before the
  records it restored are written; a page closed in between never restores them,
  though the comment at `:124` says nothing is fetched twice, not that it may be
  missed.
- Two updates of one send record that read before either writes lose the earlier
  one (`lnSendRecords.ts:167-171`); the ending is written again by the next pass
  or restore. `EndedSendIsRecorded` says that an end is recorded once; that a stale whole-record
  write sets it back to pending for a while is possible and not excluded by it.

## 5. Theorems

The `_proofs` modules prove, for every value of the constants, what the runs
check on small ones. The assumptions are the named ASSUMEs of the modules
(`None` is no key, hash or record; bounds are natural numbers) and nothing else.

*IdentifierHistory_proofs.* The inductive invariant is that the history is
well typed and, if not empty, verifies. From it follow `IncrementalIsReplay`
(the two verifiers agree: the key `AuthorizedKey` computes for the step after the head is
the head's own key, by the last rotation among the events), `RevocationIsTerminal`
and `OwnershipIsTraceable`.

*TransparencyStore_proofs.* The tables are never checked against what a caller
holds except by comparing counts and one hash, so the inductive invariant has to
say what these comparisons stand for: whatever a caller has loaded is a prefix of
the tables (up to anchors), the events and checkpoints of the tables correspond
one to one, hashes are unique over the tables and the callers' signed but
uncommitted events, and every checkpoint follows the one before it. Then equal counts
mean equal tables, and `Commit` keeps the replay. `StoreNeverBricked` needs
`~ ClockMayStepBack`, the premise that run `store_clock` shows to be necessary.
`LoadsAreSnapshots` follows from the profiles check at the third read: a commit
after the first read changes a profile to one that is not in the events read.
`RegistryImplemented` maps every step of the store to a step or a stutter of
`NameRegistry`.

*ProfileDaemon_proofs.* The inductive invariant joins `TypeOK`,
`OwnerKeysOnDisk`, `FilesFollowTheLog` and one conjunct about the request under
way: what its carried wallet may be at each step (its key is on disk from
"commit" on; it is published from "save profile" on).

*CheckpointPins_proofs.* `ResolvesJudgeByTheLog` is a fact about sequences: if
the checkpoint extends the pin, its operator is the pin's exactly when no rotation
comes after it, because the operator's key is the log up to its last rotation,
whose length tells two of them apart. Types need an inode for the temporary file:
`InodesSuffice` gives every resolve one to hold, by cardinality.
`PinsSpoiledByRacesOnly` is about any number of overlapping resolves: the pins change by
a rename only, or by a resolve that goes on writing a file another one has moved over them;
a rename whose temporary file is still its own leaves a readable pin, and one that
extends the pin it verified against if that is still there. So a pin that goes back or
is torn took a resolve overtaken between its check and its rename, which runs `pins_race` and
`pins_torn` show to happen. Its invariant (`RaceInv`) says that what a resolve is about to
pin follows what it verified against. For resolves one after another nobody is
overtaken, and `PinsStayReadable` and `PinIsMonotone` of the same module state what
run `pins` checks.

*MerkleTree_proofs, Recursion.* The prover recurses over the leaves, and what a recursive
function computes for every size needs an induction. tlapm cannot instantiate a
theorem that takes an operator, but it can instantiate a module whose *constant* is
an operator: `Recursion` proves for any `Def` that the function it defines exists
(by the least number where it would not), and `MerkleTree_proofs` takes it with
the definitions of `TwoTo`, `Root`, `Path` and `SubProof`. Induction itself is stated for sets
(`Induction`, `StrongInduction`).

The argument is by level. On the level where nodes are `w` leaves wide, node `j`
is the slice that starts at `j * w` and ends `w` further or with the log, and `Above`
relates it to its parent: the left or the right half of it, split at `w`, or the same
slice. These are the three branches of each loop, so that a verifier at node
`fn` with last node `sn` is at a slice the prover recursed over. The invariant
`VerifierOK` says what it has there. In `verify_inclusion_proof` (`Climbed`), its hash is the
slice's root exactly if the leaf is the claimed one and the hashes used so far are the
prover's path for the slice. That does not suffice at the end of the log: the
verifier may use a hash where the node has no sibling, or above the root, and must not
by that meet a root again. So `Apart` adds what a wrong hash cannot be: before the last node
no root of a narrower slice (it is `w` deep), at the last node no root of any
slice that ends the log. In `verify_consistency` (`Built`) the new root is right exactly if the
path is the prover's so far and, if the old size is a power of two, the old root was the
log's own; and then the old root that was built is right too. `Shorter` shows that
no prover's path ends below the root, so that neither verifier refuses one for
its length. `RootTellsLeaves` is the induction under all of this, that slices with
one root hold the same leaves; `RootIsTheLog` is its case for whole logs. The premise
`ForgedArePaths` says only that what is presented is a sequence.

*WalletProviders_proofs, records.* Each invariant says what a call knows that waits between
a read and a write. For sends: a job that will write carries a swap with a state
or a record that was stored. For offers: a cancel that would write a status back
holds a true one, and one that found the deposit spent is right for good, since
a spent deposit stays spent. For receives (`MarksAreBacked`): a mark in a tab
without a record stands for the run *in force* there, which adds the receive or
drives it, and a run in force has not been torn down. `AdmittedIsKnown` itself is
weaker and not inductive: it would let the run that adds be another's.
`OneManagerAtWork` is about the lock: of two runs in the queue one is ahead of the
other, a run that holds the lock has nobody ahead of it, and only runs in the
queue or at work are ahead of anybody (`QueueInv`, where there are locks). A run that stops its
manager still holds the lock, so that the next is granted only after the stop.

*WalletProviders_proofs, services.* `LockedIsShut` needs the sessions: while the wallet is
locked every session has been aborted, ended or not begun, so none can pass its
checkpoint; a session that may still pass is the last one begun. For
`QuotedIsRecent`, what a request brings was on show when it was answered, so that it was
replaced, if it was, no earlier than the request went out; it is cached at most
`Longest` after that and expires `CacheTtl` later. A Nostr profile is brought by two
requests and kept twice, the key and then the event signed with it, and the lags add up:
`Lag` is once or twice the sum. For Nostr the property is about the key: which event of
that key a relay has is up to the relay.

*WalletApp_proofs, screens.* `InvoicesAreMonitored` rests on the values the screen
holds being payable: each invoice in the request, a pick or the code was monitored before.
For `CodeFollowsAmount`, a run that is not abandoned is the last one and for the amount
requested, and an invoice in the request is one of that amount or of a run abandoned while
`track()` was awaited; the code is rebuilt from the request whenever this changes.
`SwapsAreReviewed` and `PreservedPairIsShown` rest on a bound on the plan in hand and on
the pair belonging to the asset it was entered for. `PaymentsAreCovered` says that on a
signing screen without an error, which nothing clears, the total worked out from what is
being sent *now* is within the balance: every late write either keeps `sendInfo` or works the
details out again. It holds for any number of negotiations in flight and every kind of recipient.

*WalletApp_proofs, the whole.* A step of the wallet is for each part one of its own or none
(`PartsStep`), so that the conjunction of the nine inductive invariants is one of
the composition; its theorems state of `WalletAppSpec`, which the run `wallet`
checks, everything proved of the parts.

Model-checked only: the liveness properties (liveness and ENABLED are out of the
prover's reach) and the properties that are violated. Every invariant and every
action property of the passing runs is stated by a theorem, of `pins` with the premise
that resolves do not overlap.

## 6. Plan

Done: the name rules, the store with its abstract registry, the pins, the profile
requests and the Merkle tree; the wallet's receives, sends, offers, life cycle,
profile sync and three screens; the SDK's resolvers; the proofs above. Left, in
this order:

1. `CheckpointWitness`: `process_checkpoint` at its awaits, several witnesses, a
   forking operator and the client's quorum; abstract specification: at most one
   branch gains a quorum.
2. `SwapRecords`: swap creation, whole-file updates and restart of
   `satspath-swaps`; secrets of a remote swap against the persisted record.
3. The Nostr backup of the wallet (`wallet/src/providers/backup.tsx`): merging of
   events by time stamps from several devices.
4. The file-backed log: torn lines and events without a checkpoint.

Composition: the store is used by `ProfileDaemon` and `CheckpointPins` through
what is proved of it (one owner per name, snapshots, append-only); `WalletApp`
composes the wallet. The witness will use the checkpoints of `CheckpointPins`.

## 7. Not modelled

Cryptography (a signature is the key that made it, a hash has no collisions);
JSON and canonical encodings; HTTP and authentication; identifier attestations
(immutable rows nothing depends on); version 1 consistency proofs; the read-only
endpoints of the daemon and its previews; the Rust resolver chain, DNS and
Bitcoin node (external services, no state kept); the legacy registries (not
trusted by the daemon); splitting of payments (stateless); the post-quantum
crate; CLI, WASM and proxies (front ends). Events in `TransparencyStore` take no
timestamps: only checkpoints are compared by time.

Of the wallet: `@arkade-os/sdk` and `@arkade-os/swap`, whose managers, watcher and
repositories are modelled as the providers use them; legacy Boltz receives;
`restartWallet`, which no screen calls; `resolveAndQuote`, which keeps no state;
sends of assets, fiat entry and the limits of LNURLs; the discovery of markets,
which fills a list; settings other than the password, the development auto-init, history and the
other screens. What a lock or a balance that changes under the signing screen does to the amounts
there is left out: `BalanceSats` is a constant, but for a payment just made. Most of
the repository's lines are of that last kind: 41,726 lines of TypeScript, of which
some nine in ten render components, convert text, declare generated bindings or
hold styles. They keep no state that interleaves with anything, so a model of them would
say nothing the code does not; the map covers the part that does, a
twelfth of all lines.
