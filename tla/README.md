# TLA+ models of cw-injective

This directory holds TLA+ models of these parts of the repository:

- the fixed-point math of `injective-math`, in `fp_decimal/exp.rs`;
- the "hello" betting contract, in `contracts/hello`;
- the Decimal256 helpers of the maker contract, in `contracts/maker/src/utils.rs`.

The models are checked with TLC. Each module translates the source's
control flow: every branch, early return, panic and loop iteration. Data is
abstracted to what the properties need to tell apart.

## The system

**FPDecimal** is a signed fixed-point number. It is stored as a magnitude
`num` (a U256 holding the value times 10^18) and a `sign`. Note that `sign`
is 1 for non-negative values and 0 for negative ones. `exp.rs` builds
`_pow`, `_exp` and `sqrt` on top of the type's `_mul`, `_div` and
`reciprocal`.

**The betting contract** is a CosmWasm contract with these parts:

- The owner opens *markets*. Each mirrors an Injective derivative market and
  carries long/short odds.
- The owner creates reward *pools*. Liquidity providers deposit coins into a
  pool and receive LP tokens.
- Users place up/down *orders* against a market and a pool.
- The `BeginBlocker` sudo hook runs at the start of every block. It:
  - walks the live-order queue;
  - settles each order whose `close_time` has passed, using the mark price;
  - pays winners out of the pool, and splits losses between the pool balance
    and `dev_rewards`;
  - rebuilds the queue;
  - every 1000 blocks, re-prices the odds.

The parts interact only through contract storage and the bank:

- `place_order` escrows coins and appends to `STATE.live_orders`.
- `BeginBlocker` reads that queue and writes pool balances.
- `deposit` and `withdraw` read and write those same balances.

Every handler is atomic. An `Err` or a panic reverts all of its writes and
bank messages. That includes `BeginBlocker`, which the chain still runs
again at the next block.

## Modules

| Module | Models | Source |
|---|---|---|
| `FPDecimal` | The representation and the truncating `_mul`, `_div` and `reciprocal`, with `DIGITS` as a constant. Also `ISqrt`, a recursive reference integer square root. | `fp_decimal/mod.rs` is not under `src/`, so this module is modelled from the spec (`spec_modelled` in the map). |
| `FPSqrt` | `FPDecimal::sqrt` as a state machine: `SqrtStart` (negative → `None`, zero → 0, otherwise the first guess), `SqrtIterate` (one Newton step `(r + a/r)/2`, or an abort when `r = 0`), and `SqrtReturn`. | `exp.rs` 299-324 |
| `FPExp` | `FPDecimal::_exp`: `ExpStart` (saturation at -45), `ExpReduce` (one pass of the e^10 reduction loop), `ExpReduced` (the exact hits at 1 and 0, or the start of the series), `ExpSeriesStep` (one Taylor term) and `ExpReturn` (the product, and the reciprocal for a negative argument). | `exp.rs` 258-296 |
| `BettingContract` | One action per handler: `OpenMarket`, `CreatePool`, `Deposit`, `Withdraw`, `PlaceOrder` and `BeginBlocker`. Also `NewBlock`, the chain advancing height, time and mark prices. `Init` is `instantiate`. | `contract.rs`, `execution.rs`, `state.rs` |
| `SqrtContract` | The abstract contract of `sqrt` from the spec: a negative argument gives `None`, zero gives 0, and any other argument eventually gets one answer within one unit of its truncated root. `FPSqrt` instantiates it with the refinement mapping "the result once returned, `Pending` before", and checks it as the property `SqrtImplementsContract`. | spec 4.1 |
| `FPPow` | `FPDecimal::_pow`: the chain of early returns (zero base, zero exponent by the base's sign, the base-10 table for exponents 1..20, -1..-18 and 21..59) and the general path. A table literal is the exact power `PowTen(k)`; the general path is the value `General(a, b)` that it delegates to `exp(ln(a) * b)`. | `exp.rs` 9-255 |
| `MakerUtils` | Every maker helper as an operator over Decimal256 atomics: `wrap`, `wrap_from_state`, `div_int`, `div_dec`, `sub_abs`, `sub_no_overflow`, `round_to_precision` and `bp_to_perct`. The cosmwasm-std operations they call are written by what they do (truncating multiply, `from_ratio`, `inv`, division by a `Uint256`). `from_str` turns a string into the value it spells, or panics on `Malformed`. The `State` that `wrap` loads from storage is the `shift` input. One `Call` step applies every helper to one input. | `utils.rs` 8-50 |
| `OrderBook` | The abstract promise to order takers. An order is placed at the mark, paid from its owner's wallet, and settled once: when due (close time reached, positive mark), winning exactly when the mark moved strictly its way, with a winner paid principal + amount * odd / 100 in that step. Wallets otherwise change one account and one denom at a time. `BettingContract` instantiates it with orders, users' bank balances, prices and time (`ImplementsOrderBook`). | abstract |
| `MCFPSqrt`, `MCFPExp`, `MCFPPow`, `MCMakerUtils`, `MCBettingContract` | The finite instances that TLC checks. | n/a |

### How the contract's state maps to the code

- `markets`, `pools`, `assets` and `orders` are the `MARKETS`, `POOLS`,
  `my_pool_assets()` and `orders()` maps.
- Storage keys are abstracted to what they hash:
  - a pool id `P{height}` is the height;
  - an asset key `sha256(height ++ sender)` is `<<height, sender>>`;
  - an order key `sha256(height ++ sender ++ open_time)` is
    `<<height, sender, open_time>>`.

  So collisions happen exactly when the code's keys collide.
- `liveOrders` is `STATE.live_orders`.
- `bank` holds the bank balances of the users and of the contract.
- `price` is what the exchange querier reports for each market.

Each action's guard is the conjunction of the handler's error returns and
panics (Uint128 underflow, division by zero, an unfundable bank send). A
failing call is therefore a stuttering step, which is exactly what a
reverted transaction is.

`BeginBlocker` folds `SettleStep` (one iteration of the `for_each` at
`contract.rs` 90-194) over the queue it loaded (`FoldLeft`). It then
re-prices the odds (`Reprice`) and sends the accumulated payouts. If any
step panics, or the contract cannot fund the sends, `sudoReverted` is set
and nothing else changes.

### Inputs

`PlaceOrder` takes `open_time` to be the block time and `close_time` to be
time + a delay in `CloseDelays`. In the code both values come from the
client.

`FreshOrderKeys` says whether clients avoid reusing an `open_time` within a
block. With it FALSE, two orders of one user in one block collide, as they
do in the code when the client sends the same `open_time` twice.

## Runs

| Run | Checks | Result |
|---|---|---|
| `sqrt_pass` | `TypeOK`, `SqrtFloorOnConvergence` and `SqrtImplementsContract` (`FPSqrt` implements `SqrtContract` on every input whose first guess `a/2` is a divisor) over every input 0.00..4.00 (scale 10^2) | pass, 4.7k states |
| `sqrt_abort` | `SqrtNeverAborts` | violated: `sqrt(0.01)` takes the guess `r = 0.01/2 = 0`, then divides by it |
| `pow_pass` | `TypeOK` over bases 0, 10, 0.5, 3, -2, -10, exponents -25..65 and two fractions | pass, 1.1k states |
| `maker_pass` | `TypeOK`, `RoundTruncates`, `DivIntErrorBound`, `WrapAgree` over atomics 0..5000 (0..5.000), each also as a malformed string, and shifts 1, 2, 3, 7, 10, 100 | pass, 120k states |
| `exp_pass` | `TypeOK`, `ExpExactAtIntegers` over magnitudes below 12, both signs | pass, 19.5k states |
| `contract_pass` | `TypeOK`, `Solvency`, `LiveOrdersPending`, `ImplementsOrderBook`; 2 users, 1 denom, 1 market, 3 blocks, 2 messages per block, prices {0,1,2} | pass, 1.7M states, about 40 s |
| `contract_double_settle` | `Solvency`, with order-key reuse | violated: a key queued twice settles the surviving order twice; in the trace it loses, and its amount 2 is split 1 + 1 into the pool twice, so the books owe 4 against 3 coins |
| `contract_dropped` | `PendingOrderTracked` | violated: an order not yet closed is dropped from the queue |
| `contract_lp_supply` | `LpSupplyMatchesHoldings` | violated: two first deposits in one block share an asset key |
| `contract_revert` | `SettlementNeverReverts` | violated: an uncovered win panics `BeginBlocker` at height 3 and rolls back the whole hook of that block |
| `contract_lp_locked` | `LpRedeemable` | violated: after a win leaves balance 1 and supply 2, withdrawing 2 LP is refused and withdrawing 1 pays 0 coins |
| `contract_stranded` | `FundsClaimed`, with two denoms | violated: a deposit of the other denom returns Ok and its coins are claimed by no record |

`contract_lp_locked` uses the LP bounds of `contract_lp_supply`
(amounts 1 and 2, `InitFunds = 3`). `LpRedeemable` says that in any state
where a message can still be sent, an asset worth at least one coin by its
share of the pool has some LP amount whose `Withdraw` is enabled; it uses
`ENABLED` on the model's action, whose guard is the handler's errors. It
assumes, as wasmd does, that a bank send of zero coins fails the transaction.

`FundsClaimed` is the exact form of `Solvency`: the contract's balance
equals what its records owe. Three code paths break it: a deposit without
the pool's denom (`execution.rs` 105), a second `create_pool` in one block
(`execution.rs` 84), and the lost unit when an odd loss is halved twice
(`contract.rs` 172). The run shows the shortest, the deposit.

Two effects were found while modelling but have no run, and are listed
as hazards with a note:

- `sqrt(0.26)` at two digits oscillates until `MAX_ITERATIONS` and returns
  floor + 1, which the refinement still accepts;
- after a lost order raises a pool's balance above its supply, a deposit of
  1 mints 0 LP (`execution.rs` 109).

`pow_pass` checks only the type invariant. The table literals are
abstracted to the exact powers `PowTen(k)`, so a property that `pow(10, k)`
is exact would only read back the arms of `Pow`. What the literals must be
was checked digit by digit instead (below).

`_pow` has no range check on the base-10 table: exponents 60 and -19 go to
the general path. The model cannot say what that path returns. Evaluated
outside TLC at 18 digits, with `ln(10)` correct to 18 digits,
`pow(10, -19)` returns 0 (no panic, so `test_pow_10_underflow`, marked
`#[should_panic]`, would fail), and `pow(10, 60)` panics with an overflow
in `_mul`. The table's literals were checked digit by digit to be the
powers of ten their exponents name.

Every property of a passing run has a mutant in `PROJECT.json`: an operator
defined just before the code's definition that changes it the way a
plausible bug would. TLC finds the property violated with the mutant in
place.

### Bounds

**Math.** The math is checked at `DIGITS = 2` rather than 18, because TLC's
integers are 32-bit. Each algorithm's structure (the loops, the exact-hit
branches and the number of series terms, `2*DIGITS`) is unchanged by the
scale. `E_NUM = 271` and `E_10_NUM = 2202646` are e and e^10 truncated to
two digits.

Some effects exist only at 18 digits and were found outside TLC:

- the series is about 1e-6 short near 10;
- `exp` is not monotone just above 1.

These are listed as hazards with a note.

**Maker utils.** These are checked at `DIGITS = 3`, so that `ONE * ONE` and
`num * ONE` stay inside TLC's integers. Shifts 1, 10 and 100 are the powers
of ten that `RoundTruncates` is stated for. Shifts 2, 3 and 7 exercise the
truncated reciprocals. `WrapAgree` is stated for the shifts that divide
10^3 (1, 2, 10, 100). For 3 and 7, `wrap` (x / 3) and `wrap_from_state`
(x * 0.333) differ, for example 1.666 against 1.665 at x = 5. At 3 digits `round(1.000, 3)` is 0.999: for shifts
that are not powers of ten, rounding is not idempotent, and that is listed
as a hazard. `bp_to_perct` is computed but not asserted: at 3 digits
`inv(10000)` is 0.

**Contract.** The contract bounds were chosen so that every interesting case
occurs within them:

- An order placed in block 1 with delay 2 meets a `BeginBlocker` before it
  closes.
- Two messages per block make same-block collisions possible.
- Prices include 0, the value for which the code keeps orders queued.
- `InitFunds = 3` lets a doubly paid win exceed the escrow.

### The refinements

- `FPSqrt` implements `SqrtContract`: the mapping shows the result once the
  loop returns, and `Pending` before. The property is the contract's
  specification under the precondition `FirstGuessDefined` (the input is
  not positive, or `a/2` is nonzero), so one run checks every input and the
  one excluded input, 0.01, is the abort of `sqrt_abort`. TLC checks no
  implication whose consequent holds an action, so the property is written
  as the contract's three conjuncts, each under the precondition. The
  contract's weak fairness of `Return` becomes "the mapped result is
  eventually not `Pending`", which is the same thing here because `Return`
  is enabled exactly while the result is `Pending`.
- `BettingContract` implements `OrderBook`: `book <- orders`,
  `wallet <- bank` of the users, `mark <- price`, `now <- time`.
  - `PlaceOrder` is `Place`.
  - `Deposit` and `Withdraw` are `PoolTransfer`.
  - `NewBlock` is `Tick`.
  - A successful `BeginBlocker` is one `Settle` of the queued orders that
    closed.
  - Every other step, a rolled-back `BeginBlocker` included, is a stuttering
    step.

  The `contract_pass` bounds keep order keys fresh (`FreshOrderKeys`), so the
  key reuse of `contract_double_settle` is outside this check. The dropped
  orders of `contract_dropped` stay pending, which a safety refinement
  allows. At three blocks, an order settles at most once within the bound, so
  a double settlement from the queue is checked by `LiveOrdersPending`.

### Fairness

`FPSqrt` assumes weak fairness of its steps. The function is a plain loop
with nothing else running, so it keeps stepping.

`SqrtContract` states weak fairness of `Return`: an answer eventually
comes. `SqrtImplementsContract` checks it on the detailed loop, so
`sqrt_pass` shows that the iteration counter and the `l = r` test together
end the loop with an answer on every input except 0.01.

The contract model states no liveness property. Blocks are produced by the
chain, not by the contract, and the bounded height makes the runs finite.

## Not modelled, and the plan

- **`_ln`** is not in this repository. `_pow`'s general path is therefore the
  value it delegates to, not a number.
- **Queries** (`query.rs`, `query`) are read-only: they change no state,
  so they are no actions, and what they return is a projection of the
  state the model already holds.
- **`msg.rs`** holds data types only. The one conversion in the dispatch,
  `direction == 1` to LONG and anything else to SHORT (`contract.rs` 41-60),
  is abstracted to a choice over the two directions, which every i32 reaches.
- **Withdraw accounting.** The withdraw theft (`execution.rs` 198, which
  compares the deposited amount with the LP amount) needs longer sequences
  than the pass run's bound.
- **An abstract LP-pool specification** (deposit, withdraw and settle as
  share arithmetic), with `BettingContract` shown to refine it: planned.
- **Liveness of settlement.** "Every order is eventually settled" under
  fairness of block production: planned.
- **The per-block owner checks.** Non-owner calls of `open_market` and
  `create_pool` fail and change nothing, so they are the stuttering steps.
