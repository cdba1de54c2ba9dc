----------------------------- MODULE OrderBook -----------------------------
(***************************************************************************)
(* What the betting contract promises its order takers, without pools,    *)
(* storage keys or the live queue.  An order is placed at the current     *)
(* mark price with its principal taken from the owner's wallet.  It stays *)
(* pending until it is settled, once, at a block whose time is at or past *)
(* its close time and whose mark price is positive.  It wins exactly when *)
(* the mark moved strictly in its direction.  A winner's owner receives   *)
(* the principal plus amount * odd / 100 in the same step; a loser        *)
(* receives nothing.  Several orders may settle in one step (a block).    *)
(* Wallets change in other ways only one account and one denom at a time  *)
(* (LP deposits and withdrawals, which this specification leaves open).   *)
(***************************************************************************)
EXTENDS Integers, FiniteSetsExt, TLC

CONSTANTS Users, Denoms, Markets, Prices

VARIABLES book,     \* order id -> order record
          wallet,   \* user -> denom -> coins held
          mark,     \* market -> mark price
          now       \* block time

vars == <<book, wallet, mark, now>>

Init ==
    /\ book = <<>>
    /\ wallet \in [Users -> [Denoms -> Nat]]
    /\ mark \in [Markets -> Prices]
    /\ now \in Nat

\* A new block: time advances and the market reports new mark prices.
Tick ==
    /\ now' = now + 1
    /\ mark' \in [Markets -> Prices]
    /\ UNCHANGED <<book, wallet>>

\* A new order under a fresh id, at the current mark, paid for by its owner.
Place(k, o) ==
    /\ k \notin DOMAIN book
    /\ o.status = "PENDING" /\ o.reward = 0 /\ o.close_price = 0
    /\ o.open_price = mark[o.market]
    /\ o.close_time >= now
    /\ wallet[o.owner][o.denom] >= o.amount
    /\ book' = (k :> o) @@ book
    /\ wallet' = [wallet EXCEPT ![o.owner][o.denom] = @ - o.amount]
    /\ UNCHANGED <<mark, now>>

\* Coins of one user in one denom move to or from outside the order book.
PoolTransfer(u, d) ==
    /\ wallet' \in [Users -> [Denoms -> Nat]]
    /\ \A v \in Users, e \in Denoms : <<v, e>> # <<u, d>> => wallet'[v][e] = wallet[v][e]
    /\ UNCHANGED <<book, mark, now>>

Wins(o) ==
    \/ o.dir = "LONG" /\ mark[o.market] > o.open_price
    \/ o.dir = "SHORT" /\ mark[o.market] < o.open_price

Reward(o) == IF Wins(o) THEN (o.amount * o.odd) \div 100 ELSE o.amount

\* The coins a settled order pays its owner.
Payout(o) == IF Wins(o) THEN o.amount + Reward(o) ELSE 0

\* The orders that may settle now.
Due == {k \in DOMAIN book : /\ book[k].status = "PENDING"
                            /\ book[k].close_time <= now
                            /\ mark[book[k].market] > 0}

\* A set of due orders settles at the current mark, and each winner's
\* owner is paid.
Settle(S) ==
    /\ S \subseteq Due
    /\ book' = [k \in DOMAIN book |->
                  IF k \in S
                     THEN [book[k] EXCEPT !.close_price = mark[book[k].market],
                                          !.reward = Reward(book[k]),
                                          !.status = IF Wins(book[k]) THEN "WIN" ELSE "LOSE"]
                     ELSE book[k]]
    /\ wallet' = [u \in Users |-> [d \in Denoms |->
                    wallet[u][d] + MapThenSumSet(LAMBDA k : Payout(book[k]),
                                     {k \in S : book[k].owner = u /\ book[k].denom = d})]]
    /\ UNCHANGED <<mark, now>>

\* The specification is checked as a property of the contract's behaviours,
\* so the placed order is read from the next state.
Next ==
    \/ Tick
    \/ \E k \in DOMAIN book' : Place(k, book'[k])
    \/ \E u \in Users, d \in Denoms : PoolTransfer(u, d)
    \/ \E S \in SUBSET Due : Settle(S)

Spec == Init /\ [][Next]_vars
=============================================================================
