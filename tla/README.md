# money-market: the BIL vault and its market in TLA+

This directory holds a TLA+ development of the programs in this repository that
have behaviour of their own: the **BIL vault** (`bil-vault/`), an
ERC-4626/ERC-7540 vault that takes HOLLAR, invests it in Decentral pools as NFT
positions, and pays redemptions through an asynchronous, rate-locking queue; its
keeper and its watchdog; the pushed price oracles; the scripts that deploy a
market and hand it over to governance; and the tasks that put together the
governance proposals of the Hydration money market.

Paths below are relative to the repository; `PROJECT.json` gives, for every
definition, the lines it translates.

## 1. Inventory

### Share and HOLLAR ledger — `bil-vault/src/BILVault.sol`

State: share balances (the vault's escrow, the dead shares, everybody else),
`idleHollar`, `totalReservedHollar`, `totalQueuedBil`, `totalSettledBil`,
`totalInvestedPrincipal`, the vault's HOLLAR balance, two pause switches.

Operations: `deposit`, `mint` (HOLLAR goes straight on to Decentral),
`requestRedeem`, `cancelRedeem`, `redeem`, `withdraw` (claims), `pokeQueue`
(sync, settle, sweep, reinvest), `pokeDecentral` (moves one position along and
settles after a principal payment), `syncMaturities`, the switches, setters for
the limits, and roles/operators that decide who may call.

Correct when: the counters equal the sums they stand for; tokens held cover what
is promised; no call moves value between holders beyond rounding in the vault's
favour; a settled redeemer keeps the locked amount; nobody is overtaken.

### Redemption queue — `bil-vault/src/libraries/QueueLib.sol`

State: `redemptionQueue` (a mapping of requests that are never re-used),
`queueHead`/`queueTail`, and per controller an unordered index of the requests
with something settled.

Operations: `processQueue` (FIFO, two budgets, full and partial fills, three ways
to stop early), `claimByShares`/`claimByAssets` (walk the index from the back,
draw pro rata, delete what is empty), `advanceQueueHead`, `sumSettled`.

Hard: the index and the head are updated in many places; partial fills and
claims round; a request may be settled in part, cancelled in part and claimed in
part, in any order, while the rate changes.

### Positions, yield aggregates, maturity heap, pool registry — both files

State: `positions`, `positionHead`, a binary heap keyed by maturity, four
aggregates from which `totalAssets` is computed without a loop, the registry of
pools and of their NFT contracts, the active pool.

Operations: opening (deposit, mint, reinvestment), capping at maturity
(`processMaturities`), the withdrawal life cycle of a position (`pokeDecentral`:
Active, yield requested, yield claimed, principal requested, redeemed, several of
them in one call when possible), `registerPool`, `setActiveDepositPool`,
`retirePool`.

Hard: maturities happen without a transaction, so the price must be right when
nobody has synced; pools of different period mature out of order; every step of
Decentral may be refused and retried; sync and sweep budgets.

### Keeper and watchdog — `bil-vault/keeper`, `bil-vault/watchdog`

The keeper is a loop: sync maturities, poke the positions that can move, read
three totals and decide whether to poke the queue, sum what is settled for each
controller over many reads, claim for those that opted in. It keeps nothing
between cycles. Correct when, whatever happens between two of its reads, requests
get settled, auto-claims get paid and idle HOLLAR is invested.

The watchdog is a loop too: it scans the vault at one block, starts and stops
clocks, opens, repeats and resolves alerts in a chat channel. All that it knows is
in memory. Correct when the channel is told what is so: once, and not for ever.

### Deployment — `scripts/bil`, `scripts/gigahdx`, `deploy/`, `scripts/post-deploy-bil-vault.mjs`

A shell script runs some twenty scripts in order and retries those that fail. State:
what is deployed, who holds which role, what is recorded on the deployer's disk,
and which transactions are still under way. Every script may die at any step, and
asks a few questions to find out what was done before it. Correct when no role is
ever without a holder, when in the end the deployer holds none, and when running
it again gets there.

### Governance proposals — `tasks/proposals`, `tasks/misc`, `helpers/hydration-proposal.js`

A task reads the chain and prints a batch of calls, which runs days later if the
referendum passes. Token addresses are predicted from a nonce; some of the calls are
dispatched on behalf of an account and fail without a sound; some are scheduled
for later blocks. Correct when the batch does on the later chain what it was
meant for, or does nothing.

### The rest

| Component | What it does | State |
|---|---|---|
| Decentral pool (external) | mints NFTs, accrues yield, approves and pays withdrawals late, may refuse | not ours |
| `contracts/ManagedOracle`, `CheckedOracle`, `DiscountedCheckedOracle` | a pushed price, gated by a band around a check feed | price round, feed, band, pusher, coefficient |
| `BILOracle`, `BILOracleAdapter`, `FixedPriceOracle`, `OraclesAggregator`, `HybridOracleAggregator`, `USDOracleAdapter` | derived prices | none (an owner and a source at most) |
| `contracts/LockableAToken` | an aToken whose burns and transfers respect balances locked by the runtime | the aToken's |
| `contracts/BILDepositZap` | deposit and supply in one transaction | none |
| `univ3-fee-setter` | role-guarded access to a Uniswap v3 factory | roles |
| `helpers`, `markets`, other `tasks` and `scripts`, `deployments` | configuration data, drivers for test networks, recorded addresses | recorded addresses |

### How they interact

Users and the keeper call the vault; the vault calls a pool and measures its own
HOLLAR balance before and after; the pool calls back `onERC721Received` when it
mints. The market reads `exchangeRate` through an oracle adapter. The keeper and
the watchdog only see the vault through separate reads, between which other
transactions happen. Within the vault, the ledger and the positions share
`totalInvestedPrincipal`, the yield terms of `totalAssets`, and the calls
`deposit`, `pokeQueue` and `pokeDecentral`.

An EVM transaction is atomic, and `nonReentrant` guards the entry points, so one
call is one action and interleaving is between calls. A call that reverts changes
nothing: it is an action that is not enabled.

## 2. Modules

| Module | Models |
|---|---|
| `Iteration` | bounded loops and sums as recursive functions |
| `QueueLib` | the queue half of `QueueLib.sol`, as pure operators |
| `VaultLedger` | the ledger and the queue as a state machine |
| `MCVaultLedger` | symmetry for TLC |
| `MaturityHeap` | `pushMaturity`, `_popMaturity`, as pure operators |
| `MaturityQueue` | abstract: a set from which the smallest entry is always taken next |
| `HeapQueue` | the heap as a component; implements `MaturityQueue` |
| `PositionBook` | positions, aggregates, heap, pool registry |
| `MCPositionBook` | two pools of different period and yield for TLC |
| `BILVault` | the composition of `VaultLedger` and `PositionBook`; implements `VaultLedger` |
| `MCBILVault` | two pools of different period for TLC |
| `CheckedOracle` | the pushed price oracles of `contracts/` and their check feed |
| `MCCheckedOracle` | three feeds of different decimals for TLC |
| `Keeper` | the keeper's cycle on top of `VaultLedger` |
| `Watchdog` | the watchdog, its channel, and what it watches |
| `DeployAll` | the deployment scripts of the BIL and the GIGAHDX market |
| `GovCalls` | the calls of a proposal and how a batch of them is dispatched |
| `MarketReview` | the tasks that compare the market with the configuration |
| `Listings` | the proposals that list reserves |
| `Upkeep` | the proposals that change settings |
| `Satellite` | the proposals that open a market for BIL or stHDX |
| `Launch` | proposals from the day they are built to the day they run |
| `MCLaunch` | the configured reserves for TLC |
| `IterationProofs` | proofs about loops, sums and the heap's sifts |
| `VaultLedgerProofs`, `HeapQueueProofs` | proofs about the queue and the ledger, and the heap's refinement |
| `BILVaultProofs` | proofs about the positions, and that the vault implements the ledger |
| `CheckedOracleProofs`, `DeployAllProofs`, `WatchdogProofs` | proofs about the oracles, the deployment, the watchdog |
| `LaunchProofs` | proofs about proposals in any number and order |

**VaultLedger.** One action per external function: `Deposit`, `Mint`,
`RequestRedeem`, `CancelRedeem`, `Redeem`, `Withdraw`, `PokeQueue`,
`SyncMaturities`, `SetPaused`, `SetDepositsPaused`. `pokeDecentral` is split by
what it does to the ledger: a call that pays yield is `ClaimYield`, one that pays
principal, and then settles, is `ClaimPrincipal`; one that pays nothing is
`SyncMaturities`. In place of the positions there are two numbers, the invested
principal and `yieldValue` (accrued plus pending). Time is `AccrueYield`.
`SyncDust` and `SyncCatchUp` bound what a maturity sync may do to `yieldValue`:
rounding a capped position down can cost the sum a unit, and an aggregate that
stood still at an overdue maturity may catch up. `DonateShares` and
`DonateHollar` are plain token transfers to the vault. Share balances are three
numbers, because nothing the ledger decides depends on which outside account
holds a share; the receiver of a claim is left out, as a controller may always
name one. Two wider choices than the code's: deposits do not wait for overdue
maturities (PositionBook has that guard), and any part of the principal can
mature at a time.

**QueueLib.** A Solidity loop is `Iterate(F, start, n)`, the n-fold application of
its body; the body is the identity once the loop is over. `PassEntry`,
`SettleEntry`, `Draw`, `Evict` are the arms of the bodies. Requests never re-use
an id; a deleted slot reads as `Hole`.

**PositionBook.** A call computes a whole `Book` and stores it at the end. Pause,
shares, idle HOLLAR and the payout breaker are the ledger's; the amount that
`PokeQueue` reinvests is an input here. Decentral is three things: `accepts` and
`serves`, whether the pool takes a request and executes a payable withdrawal, each
behind a try/catch of its own, so that a paid yield may be followed in the same call
by a refused request for the principal; and `Release`, the moment at which an
outstanding withdrawal becomes payable (approval and delay in one). A new withdrawal request
cannot be payable within the call that makes it, since its approval is a separate
transaction of Decentral's. `tokenId`, `depositTime` and events are left out.

**BILVault.** The vault whole: the actions of `PositionBook` joined with what the same
call does to shares, HOLLAR and the queue, over one `totalInvestedPrincipal`. Here
the yield is `YieldValue(Book)`, `VaultPokeQueue` and `VaultPokeDecentral` compute
their rate from the book as the call has left it, and HOLLAR arrives only when a
position has matured, was capped, asked for and released. `Ledger` is `VaultLedger`
with the yield of the book in place of `yieldValue`. Calls that leave the positions
alone are the ledger's actions; the others are written out here, so that nothing of
the ledger's guards on the yield is assumed. Decentral pays what is expected, and
pools, pause and donations stay as they are.

**CheckedOracle.** `SetPrice` is `_setDiscountedPrice`, the one path of a gated push;
`SetPriceUnchecked` and the setters of feed, band and coefficient are the owner's.
`FeedMoves` changes what a feed does when it is called: answer, revert, or return
something that does not decode, a case that a Solidity `catch` does not cover. The
pusher's address is left out (the owner may push through the same gate), and so are
rounds and timestamps, which nothing here reads. Two history variables, `shown` and
`gated`, relate the stored price to the check prices since the last change of feed
or band.

**Keeper.** The composition of the keeper with the ledger. `step` is where the
cycle stands; every read is an action of its own, so that users, other pokers and
opt-outs act between any two. The three totals of `reReadState` are asked for at
once and arrive in any order (`Read`); `ReadRequest` sums one request at a time.
`AutoClaim` redeems a sum that may be stale by then, in which case the call reverts
and the next controller's turn comes. `CycleFails` and `ClaimFails` are calls the
node does not serve. Which positions can be redeemed is one number, `ready`; a poke of a
position is `PokePrincipal`, which settles the queue unless a backlog of maturities
remains, or `PokeYield`, after which the queue is not settled. The vault is not paused
here.

**Watchdog.** Time is counted in polls. A `Cycle` is one scan with all that it posts;
any of its posts may be lost, which `post()` does not notice. `heard` is what the
channel believes; `owed` and `lost` are history variables. The chain side is as small
as the scan can tell: a request is pending, settled in part or in full, or claimed;
a position goes through its withdrawal with an approval and a delay.

**DeployAll.** The scripts are data. A step is a record that says what it looks at
(`looks`, `unless`, `lax`), requires (`needs`, `bans`), does (`gets`, `drops`), whom
its transaction must come from (`auth`), whether a revert goes unnoticed (`blind`),
and which steps are left out with it (`span`). `Pipeline` lists the scripts of
each market. The actions are an interpreter: `LeaveOut`, `WriteDisk`, `Send`, `Land`,
`Throw`, and what the operator and the world do: `Die` (with the last transaction
lost or still to land), `Retry`, `Rerun`. Phase 1 is one command, so its retry starts at
the first function with the tag; those on record are passed over, `PoolImplementation`
never is, as it returns nothing. It initialises its contract each time, and rethrows a
revert whose reason it does not know (`InitializeStrictly`); the other implementations
swallow a silent one too (`Initialize`). Whether the node gives the reason is the
fact `RevertsExplained`, which `Init` leaves open; Hydration's does not
(`08_tokens_implementations.ts:67`). Taken for granted: the reserve's underlying is not registered yet, so that `09_init_reserves` defers;
hardhat-deploy's deploy-and-record is one step; the singletons of another market are
reused all or none.

**GovCalls, MarketReview, Listings, Upkeep, Satellite, Launch.** The chain is a set of
facts, the nonce of the PoolConfigurator, and the next farm id. A call is a record
of what it needs and brings about; `Dispatch` runs a batch as `batchAll` does, in
which a dispatched call (`soft`) fails alone. A proposal is a function from the chain
it is built from to its batches (`now`, and `later` for scheduled ones). `Launch` builds
them, and enacts, rejects or refuses them in any order. What the Hydration runtime
does is external and known from how the tasks use it; where the tasks do not
tell (does the registry check that an address is taken, does the router look at a
route) both answers are tried (`strict`). Amounts are left out: a treasury holds a
token or does not.

Definitions commented *Seeded fault* are variations of a neighbouring definition.
No action uses them; they serve to show that the properties notice such faults.

## 3. What is checked

| Run | Configuration | Question |
|---|---|---|
| `ledger_par` | `MCVaultLedger.cfg` | With Decentral paying in full: is the queue's bookkeeping right in every interleaving, can every settled request be claimed, is nobody overtaken? |
| `ledger_loss` | `MCVaultLedgerLoss.cfg` | With shortfalls inside the tolerance, unsolicited transfers and the switches: are escrow and HOLLAR covered, does no call lower the rate by more than Decentral does? |
| `keeper` | `Keeper.cfg` | With reads in any order, failing calls, other pokers, yield paid while principal waits, and a role that comes and goes: is every request settled, every auto-claim paid in spite of stale sums and opt-outs, idle HOLLAR invested? |
| `heap_queue` | `HeapQueue.cfg` | Does the array heap implement the abstract queue? |
| `positions` | `MCPositionBook.cfg` | Are aggregates, heap, head and registry right in every order of events; does the reported yield never jump or vanish? |
| `vault` | `BILVault.cfg` | Do positions and ledger together do only what the ledger alone allows, and is every request paid out of maturing positions in the end? |
| `pushed_prices` | `MCCheckedOracle.cfg` | Is a gated price always inside the band around a check price, whatever feed and owner do meanwhile, and can an honest pusher always publish the check price? |
| `watchdog` | `Watchdog.cfg` | With failed scans, lost posts and restarts: does the channel believe what is open, is a lost alert repeated, is an overdue claim raised? |
| `deployment` | `DeployAll.cfg` | Dying anywhere, twice, on a node that says why a call reverts or one that does not: does every role keep a holder, is all handed over in the end, do re-runs get there, and in which states not? |
| `launches` | `MCLaunch.cfg` | Any two proposals of the same time, in any order: do predicted addresses hold, is nothing half done, do settings follow the configuration? |

The two remaining runs, `lost_index` and `unclaimed`, each find a
violation of something a comment or document says (section 5).

The properties, and what each is about, are stated where they are defined, at the
end of each module. The ones that say most:

* `CallsNeverLowerRate`: no call lowers `activeAssets / activeSupply`, compared exactly,
  but by the gain or loss that Decentral brings in it. For the calls of users and for
  `pokeQueue` that is what the sync does to the yield; for a `pokeDecentral` that pays, the
  change in all that the vault holds and is owed (`Holdings`). A tolerated shortfall
  does lower the rate; the settlement that follows in the same call must not lower it
  further, and so must be priced after the loss. This covers the rounding of deposit,
  mint, partial fills and claims, the exclusion of settled shares from the price, and
  both places that settle, in one statement.
* `CountersMatchEntries`, `EscrowBacked`, `HollarBacked`: with these no checked
  subtraction of the contract can underflow, so no state blocks a later call.
* `IndexExact`, `MaxClaimsHonoured`: what `maxRedeem` and `maxWithdraw` report can
  really be claimed, and by either route nothing remains.
* `SettlementIsFifo`, `HeadPrefixDone`, `EveryRequestSettles`: nobody is overtaken,
  lost behind the head, or left waiting. `EveryRequestPaid` is the same with nothing
  taken for granted about where the HOLLAR comes from.
* `ImplementsLedger`: every step of the vault whole, its yield computed from the
  positions, is a step or a stutter of `VaultLedger`. So what is shown of the
  ledger with yield and payments that come as they please, and above all what is proved
  of it, holds when they come from positions.
* `AggregatesExact`, `NoPhantomYield`, `YieldNeverLost`, `NoYieldJump`: the price
  computed from aggregates is the price the positions justify, however late the
  syncs are, and no call moves it.
* `GatedPriceNearFeed`, `HonestPushAccepted`: the gate of a pushed price lets nothing
  through from outside the band, and never shuts out an honest price by rounding.
* `MarketHasAdmin`, `VaultHasAdmin`, `HandedOver`, `RerunsGetThere`: the hand-over never
  loses a role, leaves the deployer nothing, and reaches the end from wherever it
  died, except in the three states named in `RerunsGetThere`, the third of them only on
  a node that gives no reasons.
* `PredictionHolds`, `SatelliteWired`, `GigaAllOrNothing`, `FreshNothingLost`: a
  proposal that runs on the nonce it was built for finds its tokens where it expects
  them, although its silent calls may fail and others get ahead.
* `AutoClaimsPaid`, `ChannelAgrees`, `PartSettledRaised`: what stale reads and lost
  messages may cost is time, never the claim or the alert.

### Bounds

`ledger_par`: two controllers, three requests (so that one can be in front of,
inside and behind a partial fill), `tvlCap` 5, total assets up to 7, total supply
up to 6, fixed-point one (`WAD`) 4 so that rates such as 5/4 or 7/4 round, one
dead share, budgets of 2. `ledger_loss`: two requests, tolerance of one half so
that shortfalls of a unit are tolerated at this scale, one unit of donations.
`keeper`: one controller, two requests, both budgets 1, so that a call stops inside a
run of holes, and one failing call or loss of the keeper's role (`MaxFaults`); controllers getting in each other's
way is the question of `ledger_par`. `heap_queue`: seven entries, three levels. `positions`: three positions, a short pool that yields 1/2 a
unit per unit of time and a long one with 3/2, clock up to 4, sync and sweep budgets
of 1, so that backlogs, dust yields and out-of-order redemptions occur.
`vault`: three positions in a pool of period 2 or 3, principal up to 3 that yields 1/5
a unit per unit of time, so that the first deposit's yield may be dust (2 for two
time units yields nothing) and yet no tick earns more than a unit (`AccrueYield`);
two requests, every budget 1; `SyncDust` 1, without which the refinement fails, as two
positions can lose a unit together that each alone has not got. `ledger_par` and
`keeper` have `SyncDust` 0, since there a unit stands for many wei. `pushed_prices`: an oracle of one
decimal, feeds of none, two and (too many) three decimals, bands of 0 and 2/10,
coefficients 9/10 and 1, and feed answers that scale to nothing, into reach of the
pushed prices, and beyond `MaxUint`. `watchdog`: one request, one position, grace
periods of one to three polls, so that each can end while a scan fails; two lost posts,
failed scans or restarts (`MaxFaults`), one pause or change of the keeper
(`MaxSwitches`). `deployment`: both markets, two failures (`MaxFailures`), so that the
recovery from one failure can itself fail. `launches`: six eras of the market, two
proposals of the same era (`MaxReferenda`); two are enough for one to get ahead of
another at every point between its building and its last scheduled batch. The
configuration is one constant and no call undoes a setting: `ReviewedIsConfigured` is
about reserves that get listed while a review is pending, not about a review that
overwrites a newer value.

`MaxRequests`, `MaxAssets`, `MaxShares`, `MaxAccrual`, `MaxDonation`, `MaxPositions`, `MaxTime`,
`MaxFaults`, `MaxSwitches`, `MaxFailures` and `MaxReferenda` are bounds of the model;
all other constants are parameters of the code. In the vault's runs stopping at a bound
is not a deadlock: `PokeQueue` or `SyncMaturities` stays enabled. `watchdog`,
`deployment` and `launches` do stop, when the clock, the deployment or the proposals
are at their end, and do not check for deadlock.

### Fairness

`keeper` (`FairKeeper`): the keeper goes on for ever (weak fairness of
its steps: it is a loop with a timer); Decentral makes every withdrawal of principal
ready some time (weak fairness of `MakeReady`); and it does not refuse one, or a
reinvestment, each time it is asked (strong fairness of `ProcessPosition(PokePrincipal)`
and of a reinvesting `Poke`, as users act in between). Nothing is assumed of payments of
yield, which Decentral may refuse for ever. It is not assumed that anybody cancels or claims, nor that the
keeper's reads are of one block. `vault` (`VaultFairSpec`) adds to `VaultSpec` that time passes, that
each open position and the queue are poked again and again (the keeper walks them
all in every cycle), that a pool that is asked often enough serves the call, and that
Decentral releases what was requested. It assumes no `syncMaturities` call and nothing
of any user. `deployment` (`FairSpec`) assumes that a running script goes on, that
transactions under way land, and that the operator starts a failed deployment
again.

## 4. What is proved

`tlapm` checks every theorem in eight modules, for all values of the constants
that satisfy the named assumptions. For the ledger these are, in effect: naturals,
with `WAD`, `BPS`, `DEAD_SHARES` and `minRedeemAmount` positive. For the
positions: naturals, periods and `MAX_MATURITY_SYNC` included, and fewer positions
than an index has room for beside a maturity (`SHIFT`, 2^128 in the code). For the
oracles: any integers as answers and prices, coefficients of at most one, bands of at
most `MAX_BPS`. For the proposals (`ConfigAssumption`): what they list is configured as
collateral, and no reserve but PRIME and APYUSD has a debt ceiling. For the deployment: the deployer is none of the other five accounts, no account is one
of the two marks the facts use (`"set"`, `"saved"`), and `MaxFailures` is a natural.

`VaultLedgerProofs` proves `TypeOK`, `CountersMatchEntries`, `EscrowBacked`,
`HollarBacked`, `RequestsConsistent`, `HeadPrefixDone` and `ActiveSupplyKept` as
invariants of `Spec`, and the action properties `SettlementIsFifo`,
`CallsNeverLowerRate` and `ClaimsPayOwnReserve`; and, of the behaviours in which
Decentral never takes from the total assets (`LossFree`), `IndexExact` and
`MaxClaimsHonoured`.

The argument. None of the money invariants is inductive alone: that a claim's burn
finds its shares depends on `EscrowBacked`, which depends on `totalQueuedBil`
being the sum over requests, which depends on what the loops do to the requests.
The inductive invariant `IInv` is `QueueInv` (requests, their order, the
counters) and `MoneyInv` (balances and what they cover, and that the dead shares
stay). The loops are treated once, in the first part of the module:

* `IterateInvariant`: what one iteration keeps, n iterations keep.
* `SumUpdate`, `SumMonotone`, `SumOfZeros`: how a sum over requests moves when one
  request changes.
* `PartialFill`, `ProRata`: the two roundings, as facts about integers.
* `QueueWalkStepKeepsInv`, `ProcessQueueResult`: what a call of `processQueue`
  returns: HOLLAR used within what was available, worth no more than the shares
  it locked, sums moved by exactly these amounts, everything before the head done.
* `ClaimSharesStepKeepsInv`, `ClaimAssetsStepKeepsInv`, `ClaimResult`: the same for
  claims.

`CallsNeverLowerRate` then is arithmetic: minting rounds down, `previewMint`
rounds up, and a settlement locks `n` shares for at most `n * rate / WAD`. For the
settlement inside `pokeDecentral` the rate must be the one the payout leaves:
`ClaimPrincipalEffect` says what such a call does to assets and settled shares,
`VenueKeepsRate` that no more is lost than was not paid.

`ClaimsPayOwnReserve` compares two sums over requests before and after a claim, all
that is owed and all that is owed to the claimant: the walk changes requests of the
claimant only, so both fall by the same amount (`SumsDifferAlike`, `ClaimLowersOwed`),
which is what the walk pays.

*The claim index.* `IndexExact` and `MaxClaimsHonoured` are false of `Spec`: run
`lost_index` reaches a request with shares settled that is in no index. It takes a rate
below `WAD`, at which one share can be settled for no HOLLAR. The theorems therefore
read `Spec /\ LossFree => ...`, where `LossFree` says of every step of Decentral's and
of the sync in `pokeQueue` that the total assets do not fall; the constants of
`ledger_par` give just these behaviours to TLC. The invariant is `ParInv`: `IInv`, and

* `AtPar`: an active share is worth at least one HOLLAR. Calls of the vault keep it, by
  the lemmas of `CallsNeverLowerRate`; steps of Decentral's keep it by `LossFree`. A
  settlement then runs at a rate of `WAD` or more (`RateAtPar`).
* `Indexed`: every request with shares settled has HOLLAR reserved (`Covered`), and the
  index of each controller lists its settled requests, each once (`IndexOf`). A settlement
  at par reserves HOLLAR for every share it locks, and enters the request in the index if and
  only if nothing of it was settled before. A claim that empties a request evicts it by
  swapping in the last entry, and because of `Covered` it evicts no other.

For `MaxClaimsHonoured` the walk of a claim is followed entry by entry: what remains to be
drawn is the sum over the entries it has not come to yet, so it takes all that its entry
holds and evicts it (`Drained`), and is left with nothing when it has come to the end
(`IterateReaches`). The sum over the index is that over all requests of the controller.

Induction in `IterationProofs` is done by hand, from a least counterexample whose
existence is the well-foundedness of `<` on the naturals (`WellFoundedInduction` of
the library), because the library's induction theorems take an operator as a
parameter.

`BILVaultProofs` proves first, of `PositionBook`, `OpenPositionsReachable` as an invariant
of `Spec`: only
redeemed positions are behind `positionHead`, and open positions keep their pool. It
is not inductive alone, because a sync changes positions by way of the heap: it pops
an entry and replaces the position whose index is in the entry's low bits. Only if
that position exists is the book after it the same, as far as the head and the
registry can tell. So the inductive invariant `IInv` adds `SoundBook`: every entry of
the heap names a position, and no position matures before it opens. `FillKeeps` and
`MoveKeeps` carry this through one move of a sift, `PushKeeps` and `PopKeeps` through
all of them, `SyncSound` through the loop of a sync. `SweepSound` says that the sweep of the head stops at
the first open position; `RegistryReachable`, that a scan from the head on is enough for
`retirePool`.

`HeapQueueProofs` proves `YieldsEarliest`, the refinement of `MaturityQueue`, for any
entries. A sift holds one entry in the hand and has a vacant place; the array only makes
sense with the entry put there (`Fill`). Seen so, a move of the sift swaps two places
(`MoveSwaps`), so nothing is lost or doubled (`SwapKeeps`), and the heap is in order
but for one place: `OrderedButUp` on the way up, `OrderedButDown` on the way down
(`UpSwap`, `DownSwap`). A sift ends because the place it is at moves towards one end
(`IterateReaches`). `PushResult` and `PopResult` sum this up.

With these, `BILVaultProofs` also proves `AggregatesExact`, `HeapTracksUncapped`,
`NoPhantomYield`, and the action properties `YieldNeverLost` and `NoYieldJump`. The second inductive invariant, `ExactBook`, ties the book together:
the heap is in order and names each uncapped position once, under its maturity
(`Tracks`, `Distinct`); yield is pending only between its capping and its
payment (`YieldInOrder`); the four aggregates are sums over positions (`SumsMatch`). Each
needs the others: a capped position is taken out of the right sums because the root
names a position that is still uncapped, and that is so because of `Tracks`. A sum over
positions changes by one term when a position is appended or replaced (`TotalAppend`,
`TotalReplace`). `NoPhantomYield` follows: the root's maturity clamps the live
aggregate, the root is the earliest (`AccrualClamped`), so term by term the aggregate
is at most what the positions have earned (`SumOfDifferences`).
To cap the root moves the clamp on, never back, so it costs one rounding at most
(`CapLoses`, `FloorLoss`); along a sync these add up to the number of positions it has
caught (`Caps`); an opening without backlog leaves aggregate and offset in balance
(`OpenKeepsValue`); and a payment is of yield that was frozen before the call, since only
what was outstanding can be payable (`PayableOutstanding`).

*The vault whole.* `BILVaultProofs` then proves `ImplementsLedger` of `VaultSpec`: the vault
made of positions implements the ledger, so that the ledger's theorems hold of it.
Five are stated of the vault: `VaultPromises` (six invariants of the ledger in one),
`CallsNeverLowerRate`, `SettlementIsFifo`, `ClaimsPayOwnReserve`, and the refinement itself.

* The ledger's module occurs twice, as the `Ledger` that `BILVault` is built from and
  as `Proved`, the instance of `VaultLedgerProofs`. The lemmas `Same...` show them equal,
  operator by operator.
* A step of the vault is one of the ledger only where the book is sound, so the inductive
  invariant `VaultInv` joins those of both sides: `IInv` and `ExactBook` of the book, the
  ledger's own `IInv`, that nothing is paused, and `Funded`: every position was opened with
  some principal. Without it a position of no principal might be the only one that
  earns; a sync could then raise the yield of a ledger with nothing invested, and
  closing a position would be no `ClaimPrincipal`. `TermWithinTotal` says that a position's
  principal is part of what is invested.
* What is left is what each call does to the yield. Storing a book keeps the
  principal's and the pending sums (`StoredMoves`), opening keeps the value
  (`DepositMoves`), a sync loses at most a unit for each position it caps and may catch up
  what stood still (`SyncMoves`, `SyncInBounds`), and a payment of yield or principal moves
  just that from the book to `idleHollar` (`PokeMoves`). A call of `pokeDecentral` that pays
  yield is `ClaimYield`, one that pays principal `ClaimPrincipal`, which may settle at
  the rate of the book it leaves, and one that pays nothing `SyncMaturities`.

The ledger does not know what earns, so its constants bound how far one step may move the
yield and the total assets. The theorems have the hypothesis `RoomFor(rate)`: if no
position can earn more than `rate` in a unit of time, these four bounds of the model
(`SyncDust`, `SyncCatchUp`, `MaxAccrual`, `MaxAssets`) are as large as all positions together can
earn by `MaxTime`. It is about constants only, restricts no constant of the code, and any
values of those can be given such bounds. That no step of the vault then leaves the bounds
(`YieldStaysInBounds`) is an induction of its own. A position earns at most `YieldLimit`
before it matures; the hard part is HOLLAR, which goes round: what comes back from a
position can be paid out or invested again. `RoomInv` bounds it by `PaidBack`, what the
positions so far were opened with and may earn, less what is still in them.

Run `vault` has much tighter bounds than `RoomFor` asks (`SyncCatchUp` 1, not 72), so that
TLC sees a step that moves the yield by too much. `VaultStaysSound`, the lemma under these
theorems, covers it as well: it holds for any bounds, as long as every step keeps
`YieldInBounds`. That this is so in the run was checked with TLC as an action property
of its configuration.

`CheckedOracleProofs` proves `GatedPriceNearFeed` and `HonestPushAccepted`. The first
is inductive once it is known that the check price on view is always on record
(`Watch \subseteq shown`). The second is arithmetic, `RoundTrip`: to round a push up and
its discount down is exact as long as the coefficient is at most one.

`DeployAllProofs` proves `MarketHasAdmin`, `VaultHasAdmin` and `TypeOK` as invariants
of `Spec`, for both markets and any number of failures, over the scripts as they
are listed. Neither is inductive: whether a renouncing transaction that
lands late does harm depends on what its script had made sure of before it was sent.
The inductive invariant `IInv` says so with `Ready`, of the position of the running
script and of every transaction in flight: past its first step, `RevokeDeployer` has
seen governance's admin right; past steps 5, 6 and 7, `RotateVault` has granted one role
each. That a grant may revert unnoticed is harmless for the reason in `Landing`: it
reverts only if the deployer is no admin any more, and then governance holds all
roles. The lemmas `Tame...` show, script by script, that no other step takes a
right away (`SafeScript`, `PipelinesSafe`); `GoesOn` is the step from one position to
the next; there is one lemma per action after that.

It also proves `HandedOver`, with a second inductive invariant on top of the first,
`HandInv`, which TLC checked as an invariant before it was proved. It has three parts.
`RightsInv`: the deployer never holds more than the rights of a list (`Holdings`), each
of which some step of the hand-over takes, and each ownable contract has exactly one
owner from its deployment on. `Reached`: whatever the steps behind the run's position
have to achieve (`Target`) is still achieved; this is where a step that skipped because
its work was already on the chain, a transaction that landed, and one that reverted
have to come to the same end (`PastSkipped`, `PastTaken`, `PastReverted`). `AclInv`: the
one script that could undo it is `InitAcl`, which makes the deployer admin again; but
nonces are served in order, so when it goes on record none of its transactions is under
way, and from then on it skips. The lemmas `Orderly...` sort the steps by what
they may touch, and `Places` says where in the two pipelines the scripts of the
hand-over stand: in both, each grant to governance comes before the revocation that
relies on it.

`WatchdogProofs` proves `ChannelAgrees`, `HeardOrRetried` and `PartSettledRaised` as
invariants of `Spec`, for any number of requests and positions, all delays and grace
periods, and any number of faults. `CycleEffect` says what a cycle does to the channel,
issue by issue, whichever of its posts fail. `HeardOrRetried` is inductive as it stands.
`ChannelAgrees` also needs `FailuresCounted`: a watchdog that has told it is blind has
failed to scan since, so that each failed scan is one of the faults counted.
`PartSettledRaised` needs `ClockRuns`: the clock of a partly settled request has run at
least as long as its claim has been due. A request settled in full has no such clock
once `queueHead` has passed it, which is what the run `unclaimed` is about.

`LaunchProofs` proves `IsolatedHasCeiling`, `ReviewedIsConfigured`, `GigaAllOrNothing`,
`PredictionHolds` and `SatelliteWired` of any number of proposals, each built from any
earlier state of the chain: the run has two. What a batch does depends on a chain it was not built for, so the argument has to be
about every chain that can have come of the one it was built from.

* `World` is what no batch can break: an aToken is below the nonce, a listed reserve has
  exactly one, collateral is listed, and whoever holds a GIGA token holds the token of its
  reserve (`Earned`). `Grown(c, d)` says that `d` can have come of `c`: facts of a lasting
  kind stay, the nonce does not fall, and while it stands still nothing is listed.
* A run of a batch is a path (`Runs`) on which each call has its effect or, if it is soft,
  none. `Decent` calls keep `World` and `Grown`; this is shown of every call of every proposal.
* `Fine(b, c, R)`: a batch built from `c` lists only reserves of `R`, and each call that lists one is
  followed by what makes it collateral, and for an isolated one by its ceiling, unless `c` has
  them already. Run on any later chain it leaves every listed reserve with both (`Backed`): either
  the reserve was listed meanwhile, or the calls that follow succeed.
* `Lays(b, c, M, d, G)`: where the tokens go. On a chain that lists none of `M` the batch moves the
  nonce by `d` and puts each reserve at its offset. `Covers(b, c, s)`: a review has a call for every
  listed reserve that is out of step in `c`.
* `Orderly`, the inductive invariant: `Settled` (`World`, `Backed`, and in the main market
  that every reserve but the ones edited at the start follows the configuration), and for each
  referendum an `Entry`: pending, it was built from a settled chain of which the present one has
  grown; passed, its result is still there; and the batches it has still to run are `Idle`,
  such as list and move nothing.

For the markets of their own this is not enough: `setLocation` can be called again there, so
where the id of the collateral's token points is not lasting. A second invariant is proved
relative to the first.

* `Moored(s, c, d)`: from `c` to `d` the place of the collateral's token, or the one it will
  have, is unchanged, and the id that points there still does. No batch breaks it, as
  the only place a call moves an id to is that one (`Sited`), and a listed
  reserve keeps its token.
* `Opens(s, b, c)`: the batch of a launch is `(K \o H) \o W`, where `K` lists the collateral, `H`
  lists HOLLAR and `W` makes HOLLAR's token a facilitator, tells it its debt token and moves the
  id. Whatever `K` and `H` find there already, on the nonce it was built for the
  contracts `W` names are the ones that got listed.
* `Anchored`: each pending referendum is moored to the chain it was built from, and
  `BerthResult` is true of each that passed. With `Orderly` it is inductive, and gives
  `PredictionHolds` and `SatelliteWired`.

The parts that need no chain are stated once for calls, then for batches, then for each
proposal; `BuiltFine` and `PlacingPlaces` collect the proposals. That the chain of each era is
`Settled` at the start is a calculation of its own (`StartSettled`), as its facts are given
by position in two lists.

**Only model-checked**, not proved: every property of `Keeper`; `IncentivesReachReserve` and
`FreshNothingLost` of `Launch`, which are about every single call of every proposal, not
about a few that hold the others up; and liveness, which is outside the prover's reach.

## 5. Where the code and its documents disagree

| Run | Said | Done |
|---|---|---|
| `lost_index` | `maxWithdraw`: the value of all settled requests | below par, a dust fill followed by `withdraw` and a further settlement leaves a request out of the index for good, its HOLLAR reserved and unreachable |
| `unclaimed` | `docker-stack.yml:4`: an opted-in settled redemption that stays unclaimed raises an alert | the watchdog scans `[queueHead, queueTail)`, and `queueHead` passes what is settled in full |

Remarks without a run, met while modelling.

*Vault.* `redeem` promises FIFO order among settled requests (`BILVault.sol:699`); the
claim walk starts at the newest and swap-pops (`QueueLib.sol:466`). A comment keeps
settled entries in `[queueHead, queueTail)` (`BILVault.sol:1565-1567`); `processQueue`
moves the head past them (`QueueLib.sol:372`). `onERC721Received` accepts NFTs of any
registered pool (`BILVault.sol:1538`), but retiring one of two pools that share an NFT
contract refuses the other's (`:1506`). INV-11 of `x-ray.md` calls `totalQueuedBil` the sum of
the unsettled shares; it is the sum of all queued shares until they are claimed or
cancelled, as `CountersMatchEntries` states. INV-5 of `InvariantVault.t.sol` (the rate is
never below 1e18) holds when Decentral pays in full, up to the rounding of yields at
their maturity; the breaker knowingly lets small shortfalls through.

*Oracle.* `_checkPrice` says that any failure of the feed surfaces as `ok == false`
(`CheckedOracle.sol:200-201`); an answer that does not decode or overflows when scaled
reverts, and `setPriceUnchecked` with it (`:206`).

*Keeper.* The three totals are not read at one block, so their difference may come out
negative. With idle HOLLAR below `MIN_QUEUE_HOLLAR` and something queued the queue is
not poked. A request that has lost its index entry (above) makes the keeper's
`redeem` of the whole sum revert in every cycle.

*Watchdog.* The alert that it is blind is posted once and not repeated if lost. A restart
forgets clocks, open issues and the digest window. A claim and a new partial
settlement between two scans leave the old clock running; a pause forgets it.

*Deployment.* `deploy-all.sh:43` says "Re-runnable: every step is idempotent". Three are
not. A crash between attaching the incentives proxy and writing its artifact
(`07_incentives.ts:104-130`) leaves a proxy no later run records.
`post-deploy-bil-vault.mjs:116-119` refuses to run once `ADMIN_ROLE` is given up, with
`DEFAULT_ADMIN_ROLE` perhaps still held. And `01a_pool_implementation.ts:56-68`
initialises its contract in every run and rethrows a revert whose reason it does not
find in the message: on a node that gives none, as Hydration's, phase 1 cannot be run
again once it got past this line. `RerunsGetThere` names all three. `grant()` and
`renounce()` of `post-deploy-bil-vault.mjs` do not look at a receipt's status. The guard of `revoke-deployer.ts` looks at two of four
roles and at no ownership.

*Proposals.* An address is predicted from the nonce on the day of building; comments say
so (`hype-mm.ts:19-20`, `spy-mm.ts:28-30`, `sigil-launch.ts:80`). The check "skip if
already a facilitator" of `bil.ts:212-220` and `gigahdx-launch.ts:252-264` looks at the
address HOLLAR's token would have if it were listed next; built again for a market
that has HOLLAR, the proposal adds a second facilitator, with a bucket of its own, at an address where no token of
the market is. `gigahdx-launch.ts:461-478` schedules the recurring funding on every run.
`submit-bil-proposal.ts` registers 550 and 55 under one name, although names are
unique (`bil.ts:325-327`), so that it is refused where neither exists.
`bil-stablepool-lark.ts` asks whether id 55 is registered, not whether BIL is listed.
`review-debt-ceiling` emits ceilings for configured assets that are no reserves, which
fail without a sound; `FreshNothingLost` excepts them.

## 6. Not modelled, and the plan

* *Vault:* operators (`setOperator`), who act as their controller; the setters of the limits,
  which are constants here; the views that only estimate or format; events.
* *Oracles:* the derived oracles, `BILOracle` and its adapter keep no state worth a module;
  `setPusher`, round ids and timestamps.
* *Small contracts:* `LockableAToken` is two guards against a balance that only the
  runtime knows, `BILDepositZap` one transaction without state,
  `PotRewardsTransferStrategy` a guarded transfer, `UniswapV3FeeSetter` a guarded forward.
* *Deployment:* phase 0a, which may deploy the vault a second time and leave an orphan;
  the configuration of the reserve, which `09_init_reserves` leaves to the proposal;
  `transfer-protocol-ownership.ts`, which neither market's script calls; the
  deployments of single oracles; test drivers.
* *Proposals:* amounts and buffers (the 0.3 % of `bil-stablepool-lark.ts`), that treasuries
  hold enough, votes and approval. Configuration is the one each proposal was written
  for, and constant: at this commit `ReserveAssets` and `IncentivesConfig` no longer have
  all their entries. A review that meets a listed reserve without one ends the task
  (`Unknown`), so that there is no proposal; `ConfigAssumption` leaves no such reserve.
* *The rest of Aave v3* is a dependency, known by how the tasks call it.

What would come next, most important first:

1. A proof of `IncentivesReachReserve`, which needs what `PredictionHolds` needs, of calls
   that are scheduled for later as well.
2. The setters of the limits and operators as actions of the ledger.

Running: `tlc -config <run>.cfg <module>.tla`, `tlapm <module>.tla`.
