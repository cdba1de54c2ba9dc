-------------------------- MODULE BettingContract --------------------------
(***************************************************************************)
(* The "hello" betting contract (contracts/hello): reward pools that take *)
(* LP deposits, binary up/down orders placed against a derivative market, *)
(* and the BeginBlocker sudo hook that settles closed orders from the      *)
(* market's mark price, pays winners from the pool and re-prices odds.     *)
(*                                                                         *)
(* Every execute message and the sudo hook run atomically: a handler that  *)
(* returns Err or panics leaves storage and balances as they were, so the  *)
(* model's action for a handler is enabled exactly when the handler        *)
(* succeeds, and a failing call is a stuttering step.  The one exception   *)
(* is BeginBlocker, which runs at every block whether it fails or not.     *)
(*                                                                         *)
(* Storage keys: a pool is "P{height}", abstracted to the height; a pool   *)
(* asset is sha256("{height}{sender}")[..20] and an order                  *)
(* sha256("{height}{sender}{open_time}")[..20], abstracted to the tuples   *)
(* they hash (addresses have a fixed length, so the strings are           *)
(* unambiguous, and a truncated hash is taken to be collision free).      *)
(***************************************************************************)
EXTENDS Integers, Sequences, FiniteSets, SequencesExt

CONSTANTS
    Users,          \* addresses that send messages
    Owner,          \* the instantiating address, one of Users
    Contract,       \* the contract's own bank account
    Denoms,         \* coin denominations
    Markets,        \* derivative market ids known to the exchange module
    Prices,         \* mark prices the exchange module can report
    Amounts,        \* coin amounts a message can carry
    LpAmounts,      \* LP amounts a Withdraw can name
    OddsChoices,    \* odds the owner can open a market with
    CloseDelays,    \* close_time - block time a client can choose
    InitFunds,      \* each user's starting balance of every denom
    MaxHeight,      \* last block height explored
    MaxTxs,         \* execute messages explored per block
    ODDS_PERIOD,    \* BeginBlocker re-prices odds when height % ODDS_PERIOD = 0
    FreshOrderKeys  \* TRUE: clients never reuse an order key (see PlaceOrder)

ASSUME Owner \in Users /\ Contract \notin Users
ASSUME FreshOrderKeys \in BOOLEAN

VARIABLES
    height,         \* env.block.height
    time,           \* env.block.time.seconds()
    begun,          \* BeginBlocker has run in the current block
    price,          \* mark price of each market, as the querier reports it
    markets,        \* MARKETS: market id -> BMarket
    pools,          \* POOLS: pool id (creation height) -> BRewardPool
    assets,         \* my_pool_assets(): asset key -> MyRewardPoolAsset
    orders,         \* orders(): order key -> BOrder
    liveOrders,     \* STATE.live_orders
    bank,           \* bank balances: account -> denom -> amount
    sudoReverted,   \* the last BeginBlocker failed and was rolled back
    txs             \* execute messages included in the current block

vars == <<height, time, begun, price, markets, pools, assets, orders,
          liveOrders, bank, sudoReverted, txs>>

Accounts == Users \cup {Contract}

Directions == {"LONG", "SHORT"}

Statuses == {"PENDING", "WIN", "LOSE"}

\* Move n of denom d from one bank account to another.
Transfer(b, from, to, d, n) ==
    [b EXCEPT ![from][d] = @ - n, ![to][d] = @ + n]

\* instantiate: the owner is recorded and the live order queue is empty.
Init ==
    /\ height = 1
    /\ time = 1
    /\ begun = TRUE
    /\ price \in [Markets -> Prices]
    /\ markets = <<>>
    /\ pools = <<>>
    /\ assets = <<>>
    /\ orders = <<>>
    /\ liveOrders = <<>>
    /\ bank = [a \in Accounts |-> [d \in Denoms |-> IF a = Contract THEN 0 ELSE InitFunds]]
    /\ sudoReverted = FALSE
    /\ txs = 0

-----------------------------------------------------------------------------
(* Execute messages.  Each runs inside a block, after its BeginBlocker.    *)

\* A transaction can be included: the block has begun and has room.
InBlock ==
    /\ begun
    /\ txs < MaxTxs
    /\ txs' = txs + 1

\* OpenMarket: owner only; the market must exist on the exchange and not
\* yet in MARKETS ("Duplicated Market"); both prices start at the mark.
OpenMarket(m, lo, so) ==
    /\ InBlock
    /\ m \notin DOMAIN markets
    /\ markets' = markets @@ (m :> [long_odd |-> lo, short_odd |-> so,
                                    current_price |-> price[m],
                                    last_price |-> price[m]])
    /\ UNCHANGED <<height, time, begun, price, pools, assets, orders,
                   liveOrders, bank, sudoReverted>>

\* CreatePool: owner only; the id is "P{height}" and POOLS.save replaces
\* any pool created earlier in the same block.
CreatePool(d) ==
    /\ InBlock
    /\ pools' = (height :> [denom |-> d, balance |-> 0, supply |-> 0, dev |-> 0])
                  @@ pools
    /\ UNCHANGED <<height, time, begun, price, markets, assets, orders,
                   liveOrders, bank, sudoReverted>>


\* The asset keys of u's deposits whose pool_id is p (at most one).
AssetsOf(u, p) ==
    {k \in DOMAIN assets : assets[k].depositor = u /\ assets[k].pool = p}

\* Deposit: the funds reach the contract before the handler runs.  Without
\* a coin of the pool's denom the handler returns Ok and keeps the funds.
\* LP tokens are deposited * supply / balance, both read as 1 when zero.
\* The asset found by pool id is updated; a new one is keyed by
\* (height, sender), and when that key already holds the sender's asset
\* of another pool this block, the update adds to that asset.
Deposit(u, p, d, n) ==
    /\ InBlock
    /\ p \in DOMAIN pools
    /\ bank[u][d] >= n
    /\ bank' = Transfer(bank, u, Contract, d, n)
    /\ IF d # pools[p].denom
          THEN UNCHANGED <<pools, assets>>
          ELSE LET pool    == pools[p]
                   bal     == IF pool.balance > 0 THEN pool.balance ELSE 1
                   sup     == IF pool.supply > 0 THEN pool.supply ELSE 1
                   lp      == (n * sup) \div bal
                   assetId == IF AssetsOf(u, p) # {}
                                 THEN CHOOSE k \in AssetsOf(u, p) : TRUE
                                 ELSE <<height, u>>
               IN /\ pools' = [pools EXCEPT ![p].balance = @ + n,
                                           ![p].supply = @ + lp]
                  /\ assets' =
                       IF assetId \in DOMAIN assets
                          THEN [assets EXCEPT ![assetId].amount = @ + n,
                                              ![assetId].lp = @ + lp]
                          ELSE assets @@ (assetId :> [depositor |-> u, pool |-> p,
                                                      amount |-> n, lp |-> lp])
    /\ UNCHANGED <<height, time, begun, price, markets, orders, liveOrders,
                   sudoReverted>>

\* The pool's Uint128 subtractions supply - n and balance - tokens do not
\* go below zero (they panic if they would).
PoolCovers(pool, n, tokens) == pool.supply >= n /\ pool.balance >= tokens

\* Withdraw n LP tokens of pool p.  Errors: no pool, balance < n ("insufflation
\* fund"), no asset of the sender for p.  Panics: zero supply (division),
\* and every Uint128 subtraction that would go below zero.  The asset is
\* removed when its deposited amount equals n, else tokens_received and n
\* are taken off it.  A bank send of zero coins is rejected by the chain.
Withdraw(u, p, n) ==
    /\ InBlock
    /\ p \in DOMAIN pools
    /\ ~(pools[p].balance < n)
    /\ AssetsOf(u, p) # {}
    /\ pools[p].supply # 0
    /\ LET pool   == pools[p]
           k      == CHOOSE key \in AssetsOf(u, p) : TRUE
           asset  == assets[k]
           tokens == (n * pool.balance) \div pool.supply
       IN /\ IF asset.amount = n
                THEN assets' = [key \in DOMAIN assets \ {k} |-> assets[key]]
                ELSE /\ asset.amount >= tokens
                     /\ asset.lp >= n
                     /\ assets' = [assets EXCEPT ![k].amount = @ - tokens,
                                                 ![k].lp = @ - n]
          /\ PoolCovers(pool, n, tokens)
          /\ pools' = [pools EXCEPT ![p].supply = @ - n, ![p].balance = @ - tokens]
          /\ tokens > 0
          /\ bank[Contract][pool.denom] >= tokens
          /\ bank' = Transfer(bank, Contract, u, pool.denom, tokens)
    /\ UNCHANGED <<height, time, begun, price, markets, orders, liveOrders,
                   sudoReverted>>

\* PlaceOrder: the market must be in MARKETS and the pool exist, and the
\* sender must send the pool's denom.  The odd is taken from the market by
\* direction, the open price is the current mark, and the order, keyed by
\* (height, sender, open_time), is saved over any order with that key and
\* its key appended to the live queue.  Clients send the block time as
\* open_time; with FreshOrderKeys they never send a key twice.
PlaceOrder(u, m, p, dir, n, delay) ==
    /\ InBlock
    /\ m \in DOMAIN markets
    /\ p \in DOMAIN pools
    /\ LET d  == pools[p].denom
           id == <<height, u, time>>
       IN /\ bank[u][d] >= n
          /\ FreshOrderKeys => id \notin DOMAIN orders
          /\ orders' = (id :> [owner |-> u, market |-> m, pool |-> p, dir |-> dir,
                               open_price |-> price[m], close_price |-> 0,
                               odd |-> IF dir = "LONG" THEN markets[m].long_odd
                                                       ELSE markets[m].short_odd,
                               denom |-> d, amount |-> n, status |-> "PENDING",
                               reward |-> 0, close_time |-> time + delay])
                       @@ orders
          /\ liveOrders' = Append(liveOrders, id)
          /\ bank' = Transfer(bank, u, Contract, d, n)
    /\ UNCHANGED <<height, time, begun, price, markets, pools, assets, sudoReverted>>

-----------------------------------------------------------------------------
(* Blocks.                                                                 *)

\* A new block: height and time advance, the exchange reports new mark
\* prices, and the block starts with the BeginBlocker.
NewBlock ==
    /\ begun
    /\ height < MaxHeight
    /\ height' = height + 1
    /\ time' = time + 1
    /\ price' \in [Markets -> Prices]
    /\ begun' = FALSE
    /\ txs' = 0
    /\ UNCHANGED <<markets, pools, assets, orders, liveOrders, bank, sudoReverted>>

\* One pass of the live-order loop of BeginBlocker over the accumulated
\* state st.  The order always loads (orders are never removed) and the
\* querier always answers for a market in MARKETS.  With a positive mark
\* price a closed order is settled and every order is left out of the new
\* queue; with no positive price the order is kept.  Settlement does not
\* look at the order's status.  A win pays principal + amount * odd / 100
\* and takes the reward from the pool balance (a Uint128 subtraction that
\* panics below zero); a loss puts half the amount in the pool balance and
\* half in dev_rewards.
\* The order as the update closure leaves it.
Settled(o, pr, win, reward) ==
    [o EXCEPT !.close_price = pr, !.reward = reward,
              !.status = IF win THEN "WIN" ELSE "LOSE"]

\* Mutant: the balance subtraction of a win is not checked.
RewardPanicDropped(ps, o, reward) == FALSE

\* p.balance -= reward panics when the pool balance is below the reward.
RewardUncoveredPanics(ps, o, reward) == ps[o.pool].balance < reward

\* Mutant: the winner is paid but the pool balance is not debited.
PayWinnerNoDebit(ps, o, reward) == ps

\* Win: the reward leaves the pool balance.
PayWinner(ps, o, reward) == [ps EXCEPT ![o.pool].balance = @ - reward]

\* Loss: half the amount to the pool balance, half to dev_rewards.
CreditLoss(ps, o) ==
    [ps EXCEPT ![o.pool].balance = @ + o.amount \div 2,
               ![o.pool].dev = @ + o.amount \div 2]

\* Mutant: the push into the new queue is outside the price check.
KeepInQueueAlways(queue, id, pr) == Append(queue, id)

\* The new queue keeps an order only when the mark price is not positive.
KeepInQueue(queue, id, pr) == IF pr > 0 THEN queue ELSE Append(queue, id)

\* Mutant: an unchanged mark price counts as a win.
OrderWinsOnTie(o, pr) ==
    \/ o.dir = "LONG" /\ ~(o.open_price > pr)
    \/ o.dir = "SHORT" /\ ~(o.open_price < pr)

\* A LONG order loses when open_price >= price, a SHORT one when
\* open_price <= price; otherwise it wins.
OrderWins(o, pr) ==
    \/ o.dir = "LONG" /\ ~(o.open_price >= pr)
    \/ o.dir = "SHORT" /\ ~(o.open_price <= pr)

SettleStep(st, id) ==
    LET o      == st.orders[id]
        pr     == price[o.market]
        win    == OrderWins(o, pr)
        reward == IF win THEN (o.amount * o.odd) \div 100 ELSE o.amount
        closes == pr > 0 /\ o.close_time <= time
    IN [st EXCEPT
          !.orders = IF closes THEN [@ EXCEPT ![id] = Settled(o, pr, win, reward)] ELSE @,
          !.payout = IF closes /\ win
                        THEN [@ EXCEPT ![o.owner][o.denom] = @ + o.amount + reward]
                        ELSE @,
          !.panic  = @ \/ (closes /\ win /\ RewardUncoveredPanics(st.pools, o, reward)),
          !.pools  = CASE closes /\ win  -> PayWinner(@, o, reward)
                       [] closes /\ ~win -> CreditLoss(@, o)
                       [] OTHER          -> @,
          !.queue  = KeepInQueue(@, id, pr)]

\* Every ODDS_PERIOD blocks each market's price moves to the mark and the
\* odds are re-set from lucky = time % 10, favouring the side that lost
\* on the last move.
Reprice(ms) ==
    LET lucky == time % 10
    IN [m \in DOMAIN ms |->
          LET up == price[m] > ms[m].current_price
          IN [ms[m] EXCEPT !.last_price = ms[m].current_price,
                           !.current_price = price[m],
                           !.long_odd = IF up THEN 72 - lucky ELSE 72 + lucky,
                           !.short_odd = IF up THEN 70 + lucky ELSE 70 - lucky]]

\* The sudo BeginBlocker: settle the live queue (a copy of it loaded
\* before the loop), write the new queue, re-price on a period, then send
\* the collected bank messages.  A panic or a send the contract cannot fund
\* fails the hook and rolls all of it back.
BeginBlocker ==
    /\ ~begun
    /\ begun' = TRUE
    /\ LET base  == [orders |-> orders, pools |-> pools, queue |-> <<>>,
                     payout |-> [u \in Users |-> [d \in Denoms |-> 0]],
                     panic |-> FALSE]
           st    == FoldLeft(SettleStep, base, liveOrders)
           total == [d \in Denoms |-> MapThenSumSet(LAMBDA u : st.payout[u][d], Users)]
       IN IF ~st.panic /\ \A d \in Denoms : total[d] <= bank[Contract][d]
             THEN /\ orders' = st.orders
                  /\ pools' = st.pools
                  /\ liveOrders' = st.queue
                  /\ markets' = IF height % ODDS_PERIOD = 0 THEN Reprice(markets)
                                                             ELSE markets
                  /\ bank' = [a \in Accounts |-> [d \in Denoms |->
                                IF a = Contract THEN bank[a][d] - total[d]
                                                ELSE bank[a][d] + st.payout[a][d]]]
                  /\ sudoReverted' = FALSE
             ELSE /\ sudoReverted' = TRUE
                  /\ UNCHANGED <<orders, pools, liveOrders, markets, bank>>
    /\ UNCHANGED <<height, time, price, assets, txs>>

\* The explored prefix of the chain ends at MaxHeight.
BoundReached ==
    /\ begun /\ height = MaxHeight
    /\ UNCHANGED vars

Next ==
    \/ \E m \in Markets, lo, so \in OddsChoices : OpenMarket(m, lo, so)
    \/ \E d \in Denoms : CreatePool(d)
    \/ \E u \in Users, p \in DOMAIN pools, d \in Denoms, n \in Amounts : Deposit(u, p, d, n)
    \/ \E u \in Users, p \in DOMAIN pools, n \in LpAmounts : Withdraw(u, p, n)
    \/ \E u \in Users, m \in DOMAIN markets, p \in DOMAIN pools, n \in Amounts,
         dir \in Directions, delay \in CloseDelays :
           PlaceOrder(u, m, p, dir, n, delay)
    \/ NewBlock
    \/ BeginBlocker
    \/ BoundReached

Spec == Init /\ [][Next]_vars

-----------------------------------------------------------------------------
MarketRecords ==
    [long_odd : Nat, short_odd : Nat, current_price : Prices, last_price : Prices]

PoolRecords == [denom : Denoms, balance : Nat, supply : Nat, dev : Nat]

AssetRecords == [depositor : Users, pool : Nat, amount : Nat, lp : Nat]

OrderRecords ==
    [owner : Users, market : Markets, pool : Nat, dir : Directions,
     open_price : Prices, close_price : {0} \cup Prices, odd : Nat,
     denom : Denoms, amount : Amounts,
     status : Statuses, reward : Nat, close_time : Nat]

TypeOK ==
    /\ height \in 1..MaxHeight /\ time \in Nat /\ begun \in BOOLEAN
    /\ price \in [Markets -> Prices]
    /\ DOMAIN markets \subseteq Markets
    /\ \A m \in DOMAIN markets : markets[m] \in MarketRecords
    /\ DOMAIN pools \subseteq 1..MaxHeight
    /\ \A p \in DOMAIN pools : pools[p] \in PoolRecords
    /\ \A k \in DOMAIN assets : assets[k] \in AssetRecords /\ assets[k].pool \in DOMAIN pools
    /\ \A k \in DOMAIN orders : orders[k] \in OrderRecords
    /\ \A i \in DOMAIN liveOrders : liveOrders[i] \in DOMAIN orders
    /\ bank \in [Accounts -> [Denoms -> Nat]]
    /\ sudoReverted \in BOOLEAN
    /\ txs \in 0..MaxTxs

-----------------------------------------------------------------------------
(* Properties.                                                             *)

\* What the contract owes, per denom: the pools' balances and dev rewards
\* and the principal of every order not yet settled.
Owed(d) ==
    MapThenSumSet(LAMBDA p : pools[p].balance + pools[p].dev,
                  {p \in DOMAIN pools : pools[p].denom = d})
  + MapThenSumSet(LAMBDA k : orders[k].amount,
                  {k \in DOMAIN orders : orders[k].denom = d /\ orders[k].status = "PENDING"})

\* The contract's bank balance covers everything its storage says it holds:
\* deposits, withdrawals, order escrow, settlement payouts and the loss
\* split keep the books and the coins in step.
Solvency == \A d \in Denoms : bank[Contract][d] >= Owed(d)

\* Every key in the live queue names an order that is still pending:
\* BeginBlocker never keeps a settled order in the queue, so no order is
\* settled twice from it.
LiveOrdersPending ==
    \A i \in DOMAIN liveOrders : orders[liveOrders[i]].status = "PENDING"

\* Every coin the contract holds is claimed by its storage: its balance of
\* each denom is exactly what the pools, the dev rewards and the pending
\* orders owe.  No handler (a deposit, a pool creation, the loss split)
\* takes coins that no record accounts for.
FundsClaimed == \A d \in Denoms : bank[Contract][d] = Owed(d)

\* An order that is still pending is in the live queue, the only place
\* BeginBlocker looks for orders to settle.
PendingOrderTracked ==
    \A k \in DOMAIN orders :
        orders[k].status = "PENDING" => \E i \in DOMAIN liveOrders : liveOrders[i] = k

\* The LP supply of a pool is the sum of the LP tokens its depositors hold
\* (the state.rs formulas: LP minted on deposit, burned on withdraw).
LpSupplyMatchesHoldings ==
    \A p \in DOMAIN pools :
        pools[p].supply = MapThenSumSet(LAMBDA k : assets[k].lp,
                                        {k \in DOMAIN assets : assets[k].pool = p})

\* BeginBlocker runs to completion: it is never rolled back.
SettlementNeverReverts == ~sudoReverted

\* The coins an asset's LP tokens are worth in its pool.
ShareValue(k) ==
    LET pool == pools[assets[k].pool]
    IN IF pool.supply = 0 THEN 0 ELSE (assets[k].lp * pool.balance) \div pool.supply

\* A depositor whose LP tokens are worth at least one coin can withdraw
\* some of them in the next message of the block: withdraw's balance guard,
\* its asset bookkeeping and its rounding never lock a share in the pool.
LpRedeemable ==
    (begun /\ txs < MaxTxs) =>
        \A k \in DOMAIN assets :
            ShareValue(k) > 0 =>
                \E n \in 1..assets[k].lp :
                    ENABLED Withdraw(assets[k].depositor, assets[k].pool, n)

\* The order book the contract presents to order takers: its orders, the
\* users' bank balances, the mark prices and the block time.
Orders == INSTANCE OrderBook WITH book <- orders,
                                  wallet <- [u \in Users |-> bank[u]],
                                  mark <- price,
                                  now <- time

\* place_order, BeginBlocker's settlement loop and its payouts implement
\* OrderBook: an order is settled at most once, only when due, at the
\* block's mark price, and a winner is paid its principal plus reward in
\* that block and never again; no other handler touches an order or pays
\* more than one account.
ImplementsOrderBook == Orders!Spec
=============================================================================
