------------------------------ MODULE AmmCalc ------------------------------
(***************************************************************************)
(* The swap arithmetic of the SDK (sol-trade-sdk/src/utils/calc and        *)
(* common/bonding_curve.rs), and a trader who buys from and sells to one   *)
(* pool that moves by it.  What does not fit 64 bits wraps or is cut off,  *)
(* as in the release build (overflow-checks = false); where no % U64 is    *)
(* written an amount or a reserve bounds the result.  The products are     *)
(* computed in 128 bits, which hold them.                                  *)
(***************************************************************************)
EXTENDS Integers

CONSTANTS
  U64,             \* 2^64
  Pools,           \* reserves a pool may start with, as [base, quote] records
  Budget,          \* the money the trader starts with
  Amounts,         \* what a trade may be of
  BasisPoints,     \* slippage tolerances, also above 100%
  Precision,       \* 2^50: four roundings of an f64 lose less than one part in it
  MaxTrades,       \* bound: trades that are made
  Dust, DustSol, FallbackLarge, FallbackSmall
                   \* PumpFun: a quote of no more than Dust tokens is replaced

ASSUME AmmCalcAssumption ==
  /\ U64 \in Nat \ {0} /\ Budget \in Nat /\ MaxTrades \in Nat
  /\ Pools \subseteq [base : Nat \ {0}, quote : Nat \ {0}]
  /\ \A p \in Pools : p.base < U64 /\ p.quote + Budget < U64   \* a supply is a u64
  /\ Amounts \subseteq Nat \ {0} /\ \A a \in Amounts : a < U64
  /\ BasisPoints \subseteq Nat /\ Precision \in Nat \ {0}
  /\ {Dust, DustSol, FallbackLarge, FallbackSmall} \subseteq Nat
  /\ Dust <= FallbackSmall /\ FallbackSmall <= FallbackLarge

-----------------------------------------------------------------------------
Least(a, b) == IF a < b THEN a ELSE b
Monus(a, b) == IF a < b THEN 0 ELSE a - b        \* saturating_sub

ceil_div(a, b) == (a + b - 1) \div b
compute_fee(amount, bps) == ceil_div(amount * bps, 10000)

MAX_SLIPPAGE_BASIS_POINTS == 9999
calculate_with_slippage_buy(amount, bps) ==
  (amount + ((amount * Least(bps, MAX_SLIPPAGE_BASIS_POINTS)) % U64) \div 10000) % U64

\* Mutated form: the tolerance is added, as for a purchase.
calculate_with_slippage_sell_added(amount, bps) ==
  IF amount <= bps \div 10000 THEN 1 ELSE (amount + ((amount * bps) % U64) \div 10000) % U64
calculate_with_slippage_sell(amount, bps) ==
  IF amount <= bps \div 10000 THEN 1 ELSE (amount - ((amount * bps) % U64) \div 10000) % U64

(* The curves: what comes out for an amount, and what goes into the pool.  *)
Trade(out, in, taken) == [out |-> out, in |-> in, taken |-> taken]

-----------------------------------------------------------------------------
(* PumpSwap.  creator: whether the coin has a creator who gets a fee.      *)
LP_FEE_BASIS_POINTS == 25
PROTOCOL_FEE_BASIS_POINTS == 5
COIN_CREATOR_FEE_BASIS_POINTS == 5
creator_bps(creator) == IF creator THEN COIN_CREATOR_FEE_BASIS_POINTS ELSE 0
Fees(amount, creator) ==
  compute_fee(amount, LP_FEE_BASIS_POINTS) + compute_fee(amount, PROTOCOL_FEE_BASIS_POINTS)
    + compute_fee(amount, creator_bps(creator))
TotalBps(creator) == LP_FEE_BASIS_POINTS + PROTOCOL_FEE_BASIS_POINTS + creator_bps(creator)

\* The quote amount for base tokens out, without and with the fees.
buy_base_input_internal(base, p, creator) ==
  LET in == ceil_div(p.quote * base, p.base - base) % U64
  IN  [internal_quote_amount |-> in, ui_quote |-> (in + Fees(in, creator)) % U64]

buy_quote_input_internal(quote, p, creator) ==
  LET effective == (quote * 10000) \div (10000 + TotalBps(creator))
      out == (p.base * effective) \div (p.quote + effective)
  IN  Trade(out, effective, out)

SellBaseFails(base, p, creator) ==
  LET out == (p.quote * base) \div (p.base + base) IN Fees(out, creator) > out
\* Mutated form: the reserves are swapped.
sell_base_input_internal_swapped(base, p, creator) ==
  LET out == (p.base * base) \div (p.quote + base)
  IN  Trade(out - Fees(out, creator), base, out)
sell_base_input_internal(base, p, creator) ==
  LET out == (p.quote * base) \div (p.base + base)
  IN  Trade(out - Fees(out, creator), base, out)

\* The base amount to sell for quote tokens; defined where it is no error.
RawQuote(quote, creator) == ceil_div(quote * 10000, 10000 - TotalBps(creator))
calculate_quote_amount_out(quote, creator) == RawQuote(quote, creator) % U64
SellQuoteFails(quote, p, creator) ==
  quote > p.quote \/ calculate_quote_amount_out(quote, creator) >= p.quote
\* Mutated form: rounded down.
sell_quote_input_internal_floor(quote, p, creator) ==
  LET raw == calculate_quote_amount_out(quote, creator) IN ((p.base * raw) \div (p.quote - raw)) % U64
sell_quote_input_internal(quote, p, creator) ==
  LET raw == calculate_quote_amount_out(quote, creator) IN ceil_div(p.base * raw, p.quote - raw) % U64

-----------------------------------------------------------------------------
(* PumpFun, whose curve has creators' fees, too.  The pool gives what is   *)
(* left at most; the quote for a small amount is a made-up number.         *)
FEE_BASIS_POINTS == 95
CREATOR_FEE == 30
PumpFunBps(creator) == FEE_BASIS_POINTS + (IF creator THEN CREATOR_FEE ELSE 0)

PumpFunBuy(amount, p, creator, real) ==
  LET net == (amount * 10000) \div (PumpFunBps(creator) + 10000)
      out == Least((net * p.base) \div (p.quote + net), real)
  IN  Trade(out, net, out)
get_buy_token_amount_from_sol_amount(amount, p, creator, real) ==
  LET out == PumpFunBuy(amount, p, creator, real).out
  IN  IF amount = 0 \/ p.base = 0 THEN 0
      ELSE IF out > Dust THEN out
      ELSE IF amount > DustSol THEN FallbackLarge ELSE FallbackSmall

get_sell_sol_amount_from_token_amount(amount, p, creator) ==
  LET cost == (amount * p.quote) \div (p.base + amount)
  IN  Trade(IF amount = 0 \/ p.base = 0 THEN 0
            ELSE Monus(cost, compute_fee(cost, PumpFunBps(creator))), amount, cost)

\* The same curve in BondingCurveAccount, before fees.  A complete curve has no
\* price any more.
CurveIsComplete == "Curve is complete"
get_buy_price(amount, p, real, complete) ==
  IF complete THEN CurveIsComplete
  ELSE IF amount = 0 THEN 0
  ELSE Least(p.base - ((p.quote * p.base) \div (p.quote + amount) + 1), real)
get_sell_price(amount, p, bps, complete) ==
  LET n == (amount * p.quote) \div (p.base + amount)
  IN  IF complete THEN CurveIsComplete
      ELSE IF amount = 0 THEN 0
      ELSE (n - (n * bps) \div 10000) % U64
\* What buying out costs; a smaller amount than the SOL in the curve counts as
\* that many tokens.
BuyOutValue(amount, p, real_sol) ==
  LET sol_tokens == IF amount < real_sol THEN real_sol ELSE amount
  IN  (sol_tokens * p.quote) \div (p.base - sol_tokens) + 1
get_buy_out_price(amount, p, real_sol, bps) ==
  LET value == BuyOutValue(amount, p, real_sol) IN (value + (value * bps) \div 10000) % U64

-----------------------------------------------------------------------------
(* Bonk; base and quote stand for virtual_base - real_base and             *)
(* virtual_quote + real_quote.  Its fees are rounded down.  Both functions *)
(* end by taking the tolerance off what the pool gives.                    *)
BonkFees(amount) == (amount * 25) \div 10000 + (amount * 100) \div 10000
Bonk_buy(amount, p) ==
  LET net == amount - BonkFees(amount)
      out == (net * p.base) \div (p.quote + net)
  IN  Trade(out, net, out)
Bonk_sell(amount, p) ==
  LET out == (amount * p.quote) \div (p.base + amount) IN Trade(out - BonkFees(out), amount, out)
BonkSlippage(out, bps) == (out - (out * bps) \div 10000) % U64

(* Raydium.  Input and output are the reserves on the side of what goes in *)
(* and of what comes out.                                                  *)
RaydiumAmmV4_swap_base_input(amount, input, output) ==
  LET trade_fee == ceil_div(amount * 25, 10000)
      net == Monus(amount, trade_fee)
      swapped == (output * net) \div (input + net)
  IN  Trade(Monus(swapped, (trade_fee * 25) \div 10000), net, swapped)

RaydiumCpmm_swap_base_input(amount, input, output) ==
  LET trade_fee == ceil_div(amount * 2500, 1000000)
      net == Monus(amount, trade_fee)              \* CREATOR_FEE_RATE is 0
      swapped == (output * net) \div (input + net)
  IN  Trade(swapped, net, swapped)

\* min_amount_out, computed in floating point, which is off by one part in
\* Precision at most and may come out just below a whole number; a negative
\* product, of a tolerance above 100%, becomes 0.
RaydiumMinOuts(out, bps) ==
  LET rate == Precision * (10000 - bps)
  IN  IF bps >= 10000 THEN {0}
      ELSE (out * Monus(rate, 10000)) \div (10000 * Precision)
             .. Least(U64 - 1, (out * (rate + 10000)) \div (10000 * Precision))

-----------------------------------------------------------------------------
VARIABLES
  venue,       \* whose pool it is
  creator,     \* whether its coin pays a creator
  pool,        \* its reserves
  money,       \* the trader's money
  tokens,      \* the trader's tokens
  trades       \* trades made so far

vars == <<venue, creator, pool, money, tokens, trades>>

Venues == {"PumpSwap", "PumpFun", "Bonk", "RaydiumAmmV4", "RaydiumCpmm"}

\* Every venue's trade of an amount, and whether the SDK gives it up.  These are
\* what the pool gives; the number the SDK replaces a small PumpFun quote by is
\* none of them, it only makes a purchase fail.
BuyOf(amount, p) ==
  CASE venue = "PumpSwap" -> buy_quote_input_internal(amount, p, creator)
    [] venue = "PumpFun" -> PumpFunBuy(amount, p, creator, p.base)
    [] venue = "Bonk" -> Bonk_buy(amount, p)
    [] venue = "RaydiumAmmV4" -> RaydiumAmmV4_swap_base_input(amount, p.quote, p.base)
    [] venue = "RaydiumCpmm" -> RaydiumCpmm_swap_base_input(amount, p.quote, p.base)
SellOf(amount, p) ==
  CASE venue = "PumpSwap" -> sell_base_input_internal(amount, p, creator)
    [] venue = "PumpFun" -> get_sell_sol_amount_from_token_amount(amount, p, creator)
    [] venue = "Bonk" -> Bonk_sell(amount, p)
    [] venue = "RaydiumAmmV4" -> RaydiumAmmV4_swap_base_input(amount, p.base, p.quote)
    [] venue = "RaydiumCpmm" -> RaydiumCpmm_swap_base_input(amount, p.base, p.quote)
SellFails(amount, p) == venue = "PumpSwap" /\ SellBaseFails(amount, p, creator)

Init ==
  /\ venue \in Venues /\ creator \in BOOLEAN /\ pool \in Pools
  /\ money = Budget /\ tokens = 0 /\ trades = 0

Buy(amount) ==
  LET t == BuyOf(amount, pool) IN
  /\ trades < MaxTrades /\ trades' = trades + 1
  /\ amount <= money /\ t.taken < pool.base
  /\ money' = money - amount /\ tokens' = tokens + t.out
  /\ pool' = [base |-> pool.base - t.taken, quote |-> pool.quote + t.in]
  /\ UNCHANGED <<venue, creator>>

Sell(amount) ==
  LET t == SellOf(amount, pool) IN
  /\ trades < MaxTrades /\ trades' = trades + 1
  /\ amount <= tokens /\ ~SellFails(amount, pool)
  /\ money' = money + t.out /\ tokens' = tokens - amount
  /\ pool' = [base |-> pool.base + t.in, quote |-> pool.quote - t.taken]
  /\ UNCHANGED <<venue, creator>>

Next == \E amount \in Amounts : Buy(amount) \/ Sell(amount)
Spec == Init /\ [][Next]_vars

-----------------------------------------------------------------------------
\* However the trader splits its purchases and sales, the quotes never add up
\* to a gain: with what selling everything would bring, it has no more than
\* it started with.  The rounding of every step is against the trader.
RoundTripLoses ==
  money + (IF tokens = 0 \/ SellFails(tokens, pool) THEN 0 ELSE SellOf(tokens, pool).out) <= Budget

\* Whether the amounts fit 64 bits: no one has more tokens, or pays more, than
\* that, and the SDK cuts them off.
SellQuoteFits(quote, p) ==
  LET raw == RawQuote(quote, creator)
  IN  raw < U64 /\ ceil_div(p.base * raw, p.quote - raw) < U64
BuyOutFits(amount, p) == BuyOutValue(amount, p, 0) < U64

\* Where the SDK computes the same trade in two ways they agree.  PumpSwap: the
\* tokens an amount buys cost no more than that amount without fees, and the
\* tokens it says to sell for an amount do bring it, up to the rounding of
\* the fees, unless that many tokens do not fit 64 bits.  PumpFun:
\* BondingCurveAccount is within one unit of the quotes, the price of buying
\* out, where it fits, buys that many, and the number a small quote is
\* replaced by asks for no less, so that such a purchase fails sooner than
\* it is made at a bad price.
QuotesAgree ==
  \A x \in Amounts :
    /\ LET b == buy_quote_input_internal(x, pool, creator) IN
         0 < b.out /\ b.out < pool.base =>
           buy_base_input_internal(b.out, pool, creator).internal_quote_amount <= b.in
    /\ ~SellQuoteFails(x, pool, creator) /\ SellQuoteFits(x, pool) =>
         LET y == sell_quote_input_internal(x, pool, creator)
         IN  sell_base_input_internal(y, pool, creator).out >= x - 2
    /\ LET a == get_buy_price(x, pool, pool.base, FALSE)
           b == (x * pool.base) \div (pool.quote + x)
           s == get_sell_price(x, pool, PumpFunBps(creator), FALSE)
           t == get_sell_sol_amount_from_token_amount(x, pool, creator).out
       IN  b - 1 <= a /\ a <= b /\ s - 1 <= t /\ t <= s
    /\ get_buy_token_amount_from_sol_amount(x, pool, creator, pool.base)
         >= PumpFunBuy(x, pool, creator, pool.base).out
    /\ x < pool.base /\ BuyOutFits(x, pool) =>
         get_buy_price(get_buy_out_price(x, pool, 0, 0), pool, pool.base, FALSE) >= x

\* A tolerance never turns into a worse price than it says, not even when the
\* product wraps: for an amount, or for what the pool quotes for one, the least
\* output asked for is no less than the tolerance leaves of the quote, and the
\* most paid is within it above the amount, and below twice the amount even for
\* a tolerance above 100%.  Up to 100% no more is asked for than the quote, so
\* that the trade can be made; above, the difference wraps for PumpSwap, PumpFun
\* and Bonk, which may ask for what no pool gives.  Raydium's limit is within two
\* units, and the precision of a float, of the tolerance.
LeastKept(least, x, bps) ==
  x * (10000 - bps) <= least * 10000 /\ (bps <= 10000 => least <= x)
SlippageKept ==
  \A x \in (Amounts \cup {BuyOf(a, pool).out : a \in Amounts}) \ {0}, bps \in BasisPoints :
    LET most == calculate_with_slippage_buy(x, bps)
    IN  /\ LeastKept(calculate_with_slippage_sell(x, bps), x, bps)
        /\ LeastKept(BonkSlippage(x, bps), x, bps)
        /\ most <= x + (x * bps) \div 10000 /\ most < 2 * x
        /\ \A m \in RaydiumMinOuts(x, bps) :
             x * (10000 - bps) < (m + 2 + x \div Precision) * 10000 /\ m <= x + x \div Precision
=============================================================================
