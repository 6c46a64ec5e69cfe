---------------------------- MODULE AmmCalcProofs ----------------------------
(***************************************************************************)
(* The swap arithmetic for every pool, every amount, every tolerance and   *)
(* every width of the machine word.  All divisions are used through        *)
(* Quotient and Ceiling, the bounds of what they round to.                 *)
(***************************************************************************)
EXTENDS AmmCalc, TLAPS

Reserves == [base : Nat \ {0}, quote : Nat \ {0}]

\* q is a / d rounded down, and rounded up.
Quotient(q, a, d) == q \in Nat /\ d * q <= a /\ a < d * q + d
Ceiling(q, a, d) == q \in Nat /\ a <= d * q /\ d * q < a + d

LEMMA DivQuotient ==
  ASSUME NEW a \in Nat, NEW d \in Nat \ {0}
  PROVE  Quotient(a \div d, a, d)
<1> DEFINE q == a \div d
           r == a % d
<1>1. q \in Int /\ r \in 0 .. d - 1 /\ a = d * q + r
  OBVIOUS
<1> HIDE DEF q, r
<1>2. ASSUME q < 0 PROVE FALSE
  <2>1. q <= -1
    BY <1>1, <1>2
  <2>2. d * q <= -d
    BY <1>1, <2>1
  <2> QED  BY <1>1, <2>2
<1>3. Quotient(q, a, d)
  BY <1>1, <1>2 DEF Quotient
<1> QED  BY <1>3 DEF q

LEMMA CeilDiv ==
  ASSUME NEW a \in Nat, NEW d \in Nat \ {0}
  PROVE  Ceiling(ceil_div(a, d), a, d)
<1> DEFINE n == a + d - 1
           q == n \div d
<1>1. n \in Nat
  OBVIOUS
<1>2. Quotient(q, n, d)
  BY <1>1, DivQuotient
<1>3. ceil_div(a, d) = q
  BY DEF ceil_div
<1> HIDE DEF q
<1>4. d * q \in Int
  BY <1>2 DEF Quotient
<1> QED  BY <1>2, <1>3, <1>4 DEF Quotient, Ceiling

\* The quotient is the greatest number, and the ceiling the least.
LEMMA QuotientGreatest ==
  ASSUME NEW a \in Nat, NEW d \in Nat \ {0}, NEW q, Quotient(q, a, d), NEW n \in Int, d * n <= a
  PROVE  n <= q
<1> USE DEF Quotient
<1> SUFFICES ASSUME n >= q + 1 PROVE FALSE
  OBVIOUS
<1>1. d * n >= d * (q + 1)
  OBVIOUS
<1>2. d * (q + 1) = d * q + d
  OBVIOUS
<1> QED  BY <1>1, <1>2

LEMMA CeilingLeast ==
  ASSUME NEW a \in Nat, NEW d \in Nat \ {0}, NEW q, Ceiling(q, a, d), NEW n \in Int, a <= d * n
  PROVE  q <= n
<1> USE DEF Ceiling
<1> SUFFICES ASSUME n <= q - 1 PROVE FALSE
  OBVIOUS
<1>1. d * n <= d * (q - 1)
  OBVIOUS
<1>2. d * (q - 1) = d * q - d
  OBVIOUS
<1> QED  BY <1>1, <1>2

(***************************************************************************)
(* A trade along a constant-product curve: no more of the output leaves    *)
(* the pool than keeps the product of the reserves.                        *)
(***************************************************************************)
Keeps(output, input, taken, in) ==
  taken \in Nat /\ in \in Nat /\ taken < output /\ (output - taken) * (input + in) >= output * input

LEMMA CurveKeeps ==
  ASSUME NEW output \in Nat \ {0}, NEW input \in Nat \ {0}, NEW in \in Nat,
         NEW q, Quotient(q, output * in, input + in), NEW taken \in Nat, taken <= q
  PROVE  Keeps(output, input, taken, in)
<1>1. q \in Nat /\ (input + in) * q <= output * in
  BY DEF Quotient
<1>2. taken * (input + in) <= output * in
  <2>1. taken * (input + in) <= q * (input + in)
    BY <1>1
  <2>2. q * (input + in) = (input + in) * q /\ taken * (input + in) \in Int /\ output * in \in Int
    BY <1>1
  <2> QED  BY <1>1, <2>1, <2>2
<1>3. (output - taken) * (input + in) = output * input + output * in - taken * (input + in)
  OBVIOUS
<1>4. (output - taken) * (input + in) >= output * input
  <2>1. output * input \in Int /\ output * in \in Int /\ taken * (input + in) \in Int
    OBVIOUS
  <2> QED  BY <1>2, <1>3, <2>1
<1>5. taken < output
  <2> SUFFICES ASSUME taken >= output PROVE FALSE
    OBVIOUS
  <2>1. (output - taken) * (input + in) <= 0
    OBVIOUS
  <2>2. output * input > 0
    OBVIOUS
  <2> QED  BY <1>4, <2>1, <2>2
<1> QED  BY <1>4, <1>5 DEF Keeps

\* What every venue's formula comes to: a part of the amount goes into the pool,
\* and the trader gets no more than leaves it along the curve.
Quoted(t, amount, input, output) ==
  /\ t.in <= amount /\ t.out \in Int /\ t.out <= t.taken
  /\ Keeps(output, input, t.taken, t.in)

LEMMA TradeQuoted ==
  ASSUME NEW output \in Nat \ {0}, NEW input \in Nat \ {0}, NEW amount \in Nat,
         NEW in \in Nat, in <= amount, NEW taken \in Nat, NEW out \in Int, out <= taken,
         taken <= (output * in) \div (input + in)
  PROVE  Quoted(Trade(out, in, taken), amount, input, output)
<1> DEFINE q == (output * in) \div (input + in)
<1>1. output * in \in Nat /\ input + in \in Nat \ {0}
  OBVIOUS
<1>2. Quotient(q, output * in, input + in)
  BY <1>1, DivQuotient
<1>3. taken <= q
  OBVIOUS
<1> HIDE DEF q
<1>4. Keeps(output, input, taken, in)
  BY <1>2, <1>3, CurveKeeps
<1> QED  BY <1>4 DEF Quoted, Trade

LEMMA FeeFacts ==
  ASSUME NEW amount \in Nat, NEW bps \in Nat
  PROVE  Ceiling(compute_fee(amount, bps), amount * bps, 10000)
<1>1. amount * bps \in Nat
  OBVIOUS
<1> QED  BY <1>1, CeilDiv DEF compute_fee

LEMMA BpsFacts ==
  /\ creator_bps(creator) \in {0, 5} /\ TotalBps(creator) \in {30, 35}
  /\ PumpFunBps(creator) \in {95, 125}
  BY DEF creator_bps, TotalBps, PumpFunBps, COIN_CREATOR_FEE_BASIS_POINTS, LP_FEE_BASIS_POINTS,
         PROTOCOL_FEE_BASIS_POINTS, FEE_BASIS_POINTS, CREATOR_FEE

\* The three fees of PumpSwap, each rounded up.
LEMMA FeesBounds ==
  ASSUME NEW amount \in Nat
  PROVE  /\ Fees(amount, creator) \in Nat
         /\ 10000 * Fees(amount, creator) <= amount * TotalBps(creator) + 29997
<1> DEFINE f == compute_fee(amount, 25)
           g == compute_fee(amount, 5)
           h == compute_fee(amount, creator_bps(creator))
<1>1. Ceiling(f, amount * 25, 10000) /\ Ceiling(g, amount * 5, 10000)
  BY FeeFacts
<1>2. creator_bps(creator) \in Nat
  BY BpsFacts
<1>3. Ceiling(h, amount * creator_bps(creator), 10000)
  BY <1>2, FeeFacts
<1>4. Fees(amount, creator) = f + g + h
  BY DEF Fees, LP_FEE_BASIS_POINTS, PROTOCOL_FEE_BASIS_POINTS
<1>5. TotalBps(creator) = 30 + creator_bps(creator)
  BY BpsFacts DEF TotalBps, LP_FEE_BASIS_POINTS, PROTOCOL_FEE_BASIS_POINTS
<1> HIDE DEF f, g, h
<1>6. amount * (30 + creator_bps(creator)) = amount * 30 + amount * creator_bps(creator)
      /\ amount * creator_bps(creator) \in Nat
  BY <1>2
<1> QED  BY <1>1, <1>3, <1>4, <1>5, <1>6 DEF Ceiling

\* What is left of an amount when fees of bps on top of it are taken out.
LEMMA NetAmount ==
  ASSUME NEW amount \in Nat, NEW bps \in Nat
  PROVE  (amount * 10000) \div (10000 + bps) \in 0 .. amount
<1> DEFINE q == (amount * 10000) \div (10000 + bps)
<1>1. amount * 10000 \in Nat /\ 10000 + bps \in Nat \ {0}
  OBVIOUS
<1>2. Quotient(q, amount * 10000, 10000 + bps)
  BY <1>1, DivQuotient
<1> HIDE DEF q
<1>3. q \in Nat /\ (10000 + bps) * q <= amount * 10000
  BY <1>2 DEF Quotient
<1>4. (10000 + bps) * q = 10000 * q + bps * q /\ bps * q >= 0 /\ bps * q \in Int
  BY <1>3
<1>5. q \in 0 .. amount
  BY <1>3, <1>4
<1> QED  BY <1>5 DEF q

LEMMA CurveOut ==
  ASSUME NEW output \in Nat \ {0}, NEW input \in Nat \ {0}, NEW in \in Nat
  PROVE  (output * in) \div (input + in) \in Nat
<1>1. output * in \in Nat /\ input + in \in Nat \ {0}
  OBVIOUS
<1> QED  BY <1>1, DivQuotient DEF Quotient

LEMMA BonkFeesBounds ==
  ASSUME NEW amount \in Nat
  PROVE  BonkFees(amount) \in 0 .. amount
<1> DEFINE f == (amount * 25) \div 10000
           g == (amount * 100) \div 10000
<1>1. Quotient(f, amount * 25, 10000) /\ Quotient(g, amount * 100, 10000)
  BY DivQuotient
<1>2. BonkFees(amount) = f + g
  BY DEF BonkFees
<1> HIDE DEF f, g
<1> QED  BY <1>1, <1>2 DEF Quotient

LEMMA MonusFacts ==
  ASSUME NEW a \in Nat, NEW b \in Nat
  PROVE  Monus(a, b) \in 0 .. a
  BY DEF Monus

\* The two Raydium formulas, in either direction.
LEMMA RaydiumAmmV4Quoted ==
  ASSUME NEW output \in Nat \ {0}, NEW input \in Nat \ {0}, NEW amount \in Nat
  PROVE  /\ Quoted(RaydiumAmmV4_swap_base_input(amount, input, output), amount, input, output)
         /\ RaydiumAmmV4_swap_base_input(amount, input, output).out \in Nat
<1> DEFINE f == ceil_div(amount * 25, 10000)
           net == Monus(amount, f)
           q == (output * net) \div (input + net)
           g == (f * 25) \div 10000
           out == Monus(q, g)
<1>1. f \in Nat
  BY CeilDiv DEF Ceiling
<1>2. RaydiumAmmV4_swap_base_input(amount, input, output) = Trade(out, net, q)
  BY DEF RaydiumAmmV4_swap_base_input
<1> HIDE DEF f
<1>3. g \in Nat
  <2>1. f * 25 \in Nat
    BY <1>1
  <2> QED  BY <2>1, DivQuotient, SMT DEF Quotient
<1>4. net \in Nat /\ net <= amount
  <2>1. net \in 0 .. amount
    BY <1>1, MonusFacts
  <2> HIDE DEF net
  <2> QED  BY <2>1
<1> HIDE DEF net, g
<1>5. q \in Nat
  BY <1>4, CurveOut
<1>6. out \in Nat /\ out <= q
  <2> HIDE DEF q
  <2> QED  BY <1>3, <1>5, MonusFacts
<1> HIDE DEF out
<1>7. Quoted(Trade(out, net, q), amount, input, output)
  BY <1>4, <1>5, <1>6, TradeQuoted
<1> QED  BY <1>2, <1>6, <1>7 DEF Trade

LEMMA RaydiumCpmmQuoted ==
  ASSUME NEW output \in Nat \ {0}, NEW input \in Nat \ {0}, NEW amount \in Nat
  PROVE  /\ Quoted(RaydiumCpmm_swap_base_input(amount, input, output), amount, input, output)
         /\ RaydiumCpmm_swap_base_input(amount, input, output).out \in Nat
<1> DEFINE f == ceil_div(amount * 2500, 1000000)
           net == Monus(amount, f)
           q == (output * net) \div (input + net)
<1>1. f \in Nat
  BY CeilDiv DEF Ceiling
<1>2. RaydiumCpmm_swap_base_input(amount, input, output) = Trade(q, net, q)
  BY DEF RaydiumCpmm_swap_base_input
<1> HIDE DEF f
<1>3. net \in Nat /\ net <= amount
  <2>1. net \in 0 .. amount
    BY <1>1, MonusFacts
  <2> HIDE DEF net
  <2> QED  BY <2>1
<1> HIDE DEF net
<1>4. q \in Nat
  BY <1>3, CurveOut
<1>5. Quoted(Trade(q, net, q), amount, input, output)
  <2>1. q <= q /\ q \in Int
    BY <1>4
  <2> QED  BY <1>3, <1>4, <2>1, TradeQuoted
<1> QED  BY <1>2, <1>4, <1>5 DEF Trade

LEMMA BuyQuoted ==
  ASSUME NEW p \in Reserves, NEW amount \in Nat, venue \in Venues
  PROVE  Quoted(BuyOf(amount, p), amount, p.quote, p.base) /\ BuyOf(amount, p).out \in Nat
<1>1. p.base \in Nat \ {0} /\ p.quote \in Nat \ {0}
  BY DEF Reserves
<1>2. CASE venue = "PumpSwap"
  <2> DEFINE net == (amount * 10000) \div (10000 + TotalBps(creator))
             q == (p.base * net) \div (p.quote + net)
  <2>1. net \in Nat /\ net <= amount
    <3>1. TotalBps(creator) \in Nat
      BY BpsFacts
    <3> QED  BY <3>1, NetAmount
  <2>2. BuyOf(amount, p) = Trade(q, net, q)
    BY <1>2 DEF BuyOf, buy_quote_input_internal
  <2> HIDE DEF net
  <2>3. q \in Nat
    BY <1>1, <2>1, CurveOut
  <2>4. q <= q /\ q \in Int
    BY <2>3
  <2>5. Quoted(Trade(q, net, q), amount, p.quote, p.base)
    BY <1>1, <2>1, <2>3, <2>4, TradeQuoted
  <2> QED  BY <2>2, <2>3, <2>5 DEF Trade
<1>3. CASE venue = "PumpFun"
  <2> DEFINE net == (amount * 10000) \div (PumpFunBps(creator) + 10000)
             q == (p.base * net) \div (p.quote + net)
             out == Least((net * p.base) \div (p.quote + net), p.base)
  <2>1. net \in Nat /\ net <= amount
    <3>1. PumpFunBps(creator) \in Nat /\ PumpFunBps(creator) + 10000 = 10000 + PumpFunBps(creator)
      BY BpsFacts
    <3>2. (amount * 10000) \div (10000 + PumpFunBps(creator)) \in 0 .. amount
      BY <3>1, NetAmount
    <3>3. net \in 0 .. amount
      BY <3>1, <3>2
    <3> QED  BY <3>3
  <2>2. BuyOf(amount, p) = Trade(out, net, out)
    BY <1>3 DEF BuyOf, PumpFunBuy
  <2> HIDE DEF net
  <2>3. q \in Nat
    BY <1>1, <2>1, CurveOut
  <2>4. out \in Nat /\ out <= q
    <3>1. net * p.base = p.base * net
      BY <1>1, <2>1
    <3>2. out = Least(q, p.base)
      BY <3>1
    <3> HIDE DEF q, out
    <3> QED  BY <1>1, <2>3, <3>2 DEF Least
  <2> HIDE DEF out
  <2>5. out <= out /\ out \in Int
    BY <2>4
  <2>6. Quoted(Trade(out, net, out), amount, p.quote, p.base)
    BY <1>1, <2>1, <2>4, <2>5, TradeQuoted
  <2> QED  BY <2>2, <2>4, <2>6 DEF Trade
<1>4. CASE venue = "Bonk"
  <2> DEFINE net == amount - BonkFees(amount)
             q == (p.base * net) \div (p.quote + net)
             out == (net * p.base) \div (p.quote + net)
  <2>1. net \in Nat /\ net <= amount
    BY BonkFeesBounds
  <2>2. BuyOf(amount, p) = Trade(out, net, out)
    BY <1>4 DEF BuyOf, Bonk_buy
  <2> HIDE DEF net
  <2>3. q \in Nat
    BY <1>1, <2>1, CurveOut
  <2>4. net * p.base = p.base * net
    BY <1>1, <2>1
  <2>5. out = q
    BY <2>4
  <2>6. q <= q /\ q \in Int
    BY <2>3
  <2>7. Quoted(Trade(q, net, q), amount, p.quote, p.base)
    BY <1>1, <2>1, <2>3, <2>6, TradeQuoted
  <2> QED  BY <2>2, <2>3, <2>5, <2>7 DEF Trade
<1>5. CASE venue = "RaydiumAmmV4"
  <2>1. BuyOf(amount, p) = RaydiumAmmV4_swap_base_input(amount, p.quote, p.base)
    BY <1>5 DEF BuyOf
  <2> QED  BY <1>1, <2>1, RaydiumAmmV4Quoted
<1>6. CASE venue = "RaydiumCpmm"
  <2>1. BuyOf(amount, p) = RaydiumCpmm_swap_base_input(amount, p.quote, p.base)
    BY <1>6 DEF BuyOf
  <2> QED  BY <1>1, <2>1, RaydiumCpmmQuoted
<1> QED  BY <1>2, <1>3, <1>4, <1>5, <1>6 DEF Venues

LEMMA SellQuoted ==
  ASSUME NEW p \in Reserves, NEW amount \in Nat \ {0}, venue \in Venues
  PROVE  /\ Quoted(SellOf(amount, p), amount, p.base, p.quote)
         /\ ~SellFails(amount, p) => SellOf(amount, p).out \in Nat
<1>1. p.base \in Nat \ {0} /\ p.quote \in Nat \ {0}
  BY DEF Reserves
<1> DEFINE q == (p.quote * amount) \div (p.base + amount)
<1>2. q \in Nat /\ amount \in Nat /\ amount <= amount /\ q <= q
  <2>1. q \in Nat
    BY <1>1, CurveOut
  <2> HIDE DEF q
  <2> QED  BY <2>1
<1>3. (amount * p.quote) \div (p.base + amount) = q
  <2>1. amount * p.quote = p.quote * amount
    BY <1>1
  <2> QED  BY <2>1
<1>4. ASSUME NEW out \in Int, out <= q PROVE Quoted(Trade(out, amount, q), amount, p.base, p.quote)
  BY <1>1, <1>2, <1>4, TradeQuoted
<1>5. CASE venue = "PumpSwap"
  <2> DEFINE out == q - Fees(q, creator)
  <2>1. SellOf(amount, p) = Trade(out, amount, q)
    BY <1>5 DEF SellOf, sell_base_input_internal
  <2> HIDE DEF q
  <2>2. out \in Int /\ out <= q /\ Fees(q, creator) \in Nat
    BY <1>2, FeesBounds
  <2>3. ~SellFails(amount, p) => ~(Fees(q, creator) > q)
    BY <1>5 DEF SellFails, SellBaseFails, q
  <2>4. ~SellFails(amount, p) => out \in Nat
    BY <1>2, <2>2, <2>3
  <2> HIDE DEF out
  <2> QED  BY <1>4, <2>1, <2>2, <2>4 DEF Trade
<1>6. CASE venue = "PumpFun"
  <2> DEFINE out == Monus(q, compute_fee(q, PumpFunBps(creator)))
  <2>1. SellOf(amount, p) = Trade(out, amount, q)
    BY <1>1, <1>3, <1>6 DEF SellOf, get_sell_sol_amount_from_token_amount
  <2> HIDE DEF q
  <2>2. compute_fee(q, PumpFunBps(creator)) \in Nat
    <3>1. PumpFunBps(creator) \in Nat
      BY BpsFacts
    <3>2. Ceiling(compute_fee(q, PumpFunBps(creator)), q * PumpFunBps(creator), 10000)
      BY <1>2, <3>1, FeeFacts
    <3> QED  BY <3>2, SMT DEF Ceiling
  <2>3. out \in Nat /\ out <= q
    BY <1>2, <2>2, MonusFacts
  <2> HIDE DEF out
  <2> QED  BY <1>4, <2>1, <2>3 DEF Trade
<1>7. CASE venue = "Bonk"
  <2> DEFINE out == q - BonkFees(q)
  <2>1. SellOf(amount, p) = Trade(out, amount, q)
    BY <1>3, <1>7 DEF SellOf, Bonk_sell
  <2> HIDE DEF q
  <2>2. out \in Nat /\ out <= q
    BY <1>2, BonkFeesBounds
  <2> HIDE DEF out
  <2> QED  BY <1>4, <2>1, <2>2 DEF Trade
<1>8. CASE venue = "RaydiumAmmV4"
  <2>1. SellOf(amount, p) = RaydiumAmmV4_swap_base_input(amount, p.base, p.quote)
    BY <1>8 DEF SellOf
  <2> QED  BY <1>1, <1>2, <2>1, RaydiumAmmV4Quoted
<1>9. CASE venue = "RaydiumCpmm"
  <2>1. SellOf(amount, p) = RaydiumCpmm_swap_base_input(amount, p.base, p.quote)
    BY <1>9 DEF SellOf
  <2> QED  BY <1>1, <1>2, <2>1, RaydiumCpmmQuoted
<1> QED  BY <1>5, <1>6, <1>7, <1>8, <1>9 DEF Venues

(***************************************************************************)
(* No gain.  Compared with the reserves p the pool started with, it holds  *)
(* with the trader's tokens no more base, with the trader's money no more  *)
(* quote than there was, and its product has not shrunk.                   *)
(***************************************************************************)
Since(p) ==
  /\ pool.base + tokens <= p.base /\ pool.quote + money <= p.quote + Budget
  /\ p.base * p.quote <= pool.base * pool.quote

AmmTypeOK == venue \in Venues /\ pool \in Reserves /\ money \in Nat /\ tokens \in Nat
AmmInv == AmmTypeOK /\ \E p \in Pools : Since(p)

LEMMA AmmInit == Init => AmmInv
<1> SUFFICES ASSUME Init PROVE AmmInv
  OBVIOUS
<1>1. Budget \in Nat /\ Pools \subseteq Reserves
  BY AmmCalcAssumption DEF Reserves
<1>2. pool \in Pools /\ pool \in Reserves /\ venue \in Venues /\ money = Budget /\ tokens = 0
  BY <1>1 DEF Init
<1>3. pool.base \in Nat /\ pool.quote \in Nat
  BY <1>2 DEF Reserves
<1>4. pool.base * pool.quote <= pool.base * pool.quote
  <2>1. pool.base * pool.quote \in Int
    BY <1>3
  <2> QED  BY <2>1
<1>5. Since(pool)
  BY <1>1, <1>2, <1>3, <1>4 DEF Since
<1> QED  BY <1>1, <1>2, <1>5 DEF AmmInv, AmmTypeOK

LEMMA BuyKeeps ==
  ASSUME AmmInv, NEW amount \in Amounts, Buy(amount)
  PROVE  AmmInv'
<1> DEFINE t == BuyOf(amount, pool)
           b == pool.base
           q == pool.quote
<1>1. amount \in Nat \ {0} /\ Pools \subseteq Reserves /\ Budget \in Nat
  BY AmmCalcAssumption DEF Reserves
<1>2. /\ venue' = venue /\ money' = money - amount /\ amount <= money /\ tokens' = tokens + t.out
      /\ pool' = [base |-> b - t.taken, quote |-> q + t.in]
  BY DEF Buy
<1>3. Quoted(t, amount, q, b) /\ t.out \in Nat
  BY <1>1, BuyQuoted DEF AmmInv, AmmTypeOK
<1>4. b \in Nat \ {0} /\ q \in Nat \ {0} /\ money \in Nat /\ tokens \in Nat
  BY DEF AmmInv, AmmTypeOK, Reserves
<1>5. PICK p \in Pools : Since(p)
  BY DEF AmmInv
<1> HIDE DEF t, b, q
<1>6. /\ t.in \in Nat /\ t.in <= amount /\ t.taken \in Nat /\ t.taken < b /\ t.out <= t.taken
      /\ (b - t.taken) * (q + t.in) >= b * q
  BY <1>3 DEF Quoted, Keeps
<1>7. pool' \in Reserves /\ pool'.base = b - t.taken /\ pool'.quote = q + t.in
  BY <1>2, <1>4, <1>6 DEF Reserves
<1>8. p.base \in Nat /\ p.quote \in Nat
  BY <1>1 DEF Reserves
<1>9. b + tokens <= p.base /\ q + money <= p.quote + Budget /\ p.base * p.quote <= b * q
  BY <1>5 DEF Since, b, q
<1>10. Since(p)'
  <2>1. pool'.base + tokens' <= p.base
    BY <1>2, <1>3, <1>4, <1>6, <1>7, <1>8, <1>9
  <2>2. pool'.quote + money' <= p.quote + Budget
    BY <1>1, <1>2, <1>4, <1>6, <1>7, <1>8, <1>9
  <2>3. p.base * p.quote <= pool'.base * pool'.quote
    <3>1. p.base * p.quote \in Int /\ b * q \in Int /\ (b - t.taken) * (q + t.in) \in Int
      BY <1>4, <1>6, <1>8
    <3>2. pool'.base * pool'.quote = (b - t.taken) * (q + t.in)
      BY <1>7
    <3> QED  BY <1>6, <1>9, <3>1, <3>2
  <2> QED  BY <2>1, <2>2, <2>3 DEF Since
<1>11. AmmTypeOK'
  BY <1>1, <1>2, <1>3, <1>4, <1>7 DEF AmmTypeOK, AmmInv
<1> QED  BY <1>10, <1>11 DEF AmmInv

LEMMA SellKeeps ==
  ASSUME AmmInv, NEW amount \in Amounts, Sell(amount)
  PROVE  AmmInv'
<1> DEFINE t == SellOf(amount, pool)
           b == pool.base
           q == pool.quote
<1>1. amount \in Nat \ {0} /\ Pools \subseteq Reserves /\ Budget \in Nat
  BY AmmCalcAssumption DEF Reserves
<1>2. /\ venue' = venue /\ money' = money + t.out /\ tokens' = tokens - amount /\ amount <= tokens
      /\ pool' = [base |-> b + t.in, quote |-> q - t.taken]
  BY DEF Sell
<1>3. Quoted(t, amount, b, q) /\ t.out \in Nat
  <2>1. ~SellFails(amount, pool)
    BY DEF Sell
  <2> QED  BY <1>1, <2>1, SellQuoted DEF AmmInv, AmmTypeOK
<1>4. b \in Nat \ {0} /\ q \in Nat \ {0} /\ money \in Nat /\ tokens \in Nat
  BY DEF AmmInv, AmmTypeOK, Reserves
<1>5. PICK p \in Pools : Since(p)
  BY DEF AmmInv
<1> HIDE DEF t, b, q
<1>6. /\ t.in \in Nat /\ t.in <= amount /\ t.taken \in Nat /\ t.taken < q
      /\ t.out \in Int /\ t.out <= t.taken
      /\ (q - t.taken) * (b + t.in) >= q * b
  BY <1>3 DEF Quoted, Keeps
<1>7. pool' \in Reserves /\ pool'.base = b + t.in /\ pool'.quote = q - t.taken
  BY <1>2, <1>4, <1>6 DEF Reserves
<1>8. p.base \in Nat /\ p.quote \in Nat
  BY <1>1 DEF Reserves
<1>9. b + tokens <= p.base /\ q + money <= p.quote + Budget /\ p.base * p.quote <= b * q
  BY <1>5 DEF Since, b, q
<1>10. Since(p)'
  <2>1. pool'.base + tokens' <= p.base
    BY <1>1, <1>2, <1>4, <1>6, <1>7, <1>8, <1>9
  <2>2. pool'.quote + money' <= p.quote + Budget
    BY <1>1, <1>2, <1>4, <1>6, <1>7, <1>8, <1>9
  <2>3. p.base * p.quote <= pool'.base * pool'.quote
    <3>1. /\ p.base * p.quote \in Int /\ b * q \in Int /\ b * q = q * b
          /\ (q - t.taken) * (b + t.in) \in Int
          /\ (b + t.in) * (q - t.taken) = (q - t.taken) * (b + t.in)
      BY <1>4, <1>6, <1>8
    <3>2. pool'.base * pool'.quote = (b + t.in) * (q - t.taken)
      BY <1>7
    <3> QED  BY <1>6, <1>9, <3>1, <3>2
  <2> QED  BY <2>1, <2>2, <2>3 DEF Since
<1>11. AmmTypeOK'
  BY <1>1, <1>2, <1>3, <1>4, <1>6, <1>7 DEF AmmTypeOK, AmmInv
<1> QED  BY <1>10, <1>11 DEF AmmInv

LEMMA AmmNext == AmmInv /\ [Next]_vars => AmmInv'
<1> SUFFICES ASSUME AmmInv, [Next]_vars PROVE AmmInv'
  OBVIOUS
<1>1. CASE \E amount \in Amounts : Buy(amount)
  BY <1>1, BuyKeeps
<1>2. CASE \E amount \in Amounts : Sell(amount)
  BY <1>2, SellKeeps
<1>3. CASE UNCHANGED vars
  BY <1>3 DEF vars, AmmInv, AmmTypeOK, Since
<1> QED  BY <1>1, <1>2, <1>3 DEF Next

\* The reserves stay within 64 bits.
LEMMA PoolFits == AmmInv => pool.base < U64 /\ pool.quote < U64
<1> SUFFICES ASSUME AmmInv PROVE pool.base < U64 /\ pool.quote < U64
  OBVIOUS
<1>1. PICK p \in Pools : Since(p)
  BY DEF AmmInv
<1>2. /\ Pools \subseteq Reserves /\ Budget \in Nat /\ U64 \in Nat
      /\ p.base < U64 /\ p.quote + Budget < U64
  BY AmmCalcAssumption DEF Reserves
<1>3. /\ pool.base \in Nat /\ pool.quote \in Nat /\ money \in Nat /\ tokens \in Nat
      /\ p.base \in Nat /\ p.quote \in Nat
  BY <1>2 DEF AmmInv, AmmTypeOK, Reserves
<1>4. pool.base + tokens <= p.base /\ pool.quote + money <= p.quote + Budget
  BY <1>1 DEF Since
<1> QED  BY <1>2, <1>3, <1>4

\* Selling the rest cannot bring more than was paid: it would take the quote
\* reserve below what it started with.
LEMMA NoGain == AmmInv => RoundTripLoses
<1> SUFFICES ASSUME AmmInv PROVE RoundTripLoses
  OBVIOUS
<1> DEFINE b == pool.base
           q == pool.quote
           t == SellOf(tokens, pool)
<1>1. Pools \subseteq Reserves /\ Budget \in Nat
  BY AmmCalcAssumption DEF Reserves
<1>2. b \in Nat \ {0} /\ q \in Nat \ {0} /\ money \in Nat /\ tokens \in Nat
  BY DEF AmmInv, AmmTypeOK, Reserves
<1>3. PICK p \in Pools : Since(p)
  BY DEF AmmInv
<1>4. p.base \in Nat \ {0} /\ p.quote \in Nat \ {0}
  BY <1>1 DEF Reserves
<1>5. b + tokens <= p.base /\ q + money <= p.quote + Budget /\ p.base * p.quote <= b * q
  BY <1>3 DEF Since
<1>6. money <= Budget
  <2>1. q >= p.quote
    <3> HIDE DEF b, q
    <3> SUFFICES ASSUME q < p.quote PROVE FALSE
      BY <1>2, <1>4
    <3>1. b <= p.base
      BY <1>2, <1>4, <1>5
    <3>2. b * q <= p.base * q
      BY <1>2, <1>4, <3>1
    <3>3. p.base * q < p.base * p.quote
      BY <1>2, <1>4
    <3>4. b * q \in Int /\ p.base * q \in Int /\ p.base * p.quote \in Int
      BY <1>2, <1>4
    <3> QED  BY <1>5, <3>2, <3>3, <3>4
  <2> QED  BY <1>1, <1>2, <1>4, <1>5, <2>1
<1>7. ASSUME tokens # 0 PROVE money + t.out <= Budget
  <2>1. Quoted(t, tokens, b, q)
    <3>1. tokens \in Nat \ {0}
      BY <1>2, <1>7
    <3> QED  BY <3>1, SellQuoted DEF AmmInv, AmmTypeOK
  <2> HIDE DEF t, b, q
  <2>2. /\ t.in \in Nat /\ t.in <= tokens /\ t.taken \in Nat /\ t.taken < q
        /\ t.out \in Int /\ t.out <= t.taken
        /\ (q - t.taken) * (b + t.in) >= q * b
    BY <2>1 DEF Quoted, Keeps
  <2> DEFINE rest == q - t.taken
             total == b + t.in
  <2>3. rest \in Nat /\ total \in Nat /\ total <= p.base
    BY <1>2, <1>4, <1>5, <2>2
  <2>4. rest * total >= q * b
    BY <2>2
  <2> HIDE DEF rest, total
  <2>5. rest >= p.quote
    <3> SUFFICES ASSUME rest < p.quote PROVE FALSE
      BY <1>4, <2>3
    <3>1. rest * total <= rest * p.base
      BY <1>4, <2>3
    <3>2. rest * p.base < p.quote * p.base
      BY <1>4, <2>3
    <3>3. /\ rest * total \in Int /\ rest * p.base \in Int /\ p.quote * p.base \in Int
          /\ q * b = b * q /\ p.base * p.quote = p.quote * p.base /\ b * q \in Int
      BY <1>2, <1>4, <2>3
    <3> QED  BY <1>5, <2>4, <3>1, <3>2, <3>3
  <2> QED  BY <1>1, <1>2, <1>4, <1>5, <2>2, <2>5 DEF rest
<1>8. CASE tokens = 0 \/ SellFails(tokens, pool)
  <2>1. money + 0 <= Budget
    BY <1>2, <1>6
  <2> QED  BY <1>8, <2>1 DEF RoundTripLoses
<1>9. CASE ~(tokens = 0 \/ SellFails(tokens, pool))
  BY <1>7, <1>9 DEF RoundTripLoses
<1> QED  BY <1>8, <1>9

\* On every venue, from every pool, whatever a trader buys and sells and in what
\* portions, the SDK's formulas leave it with no more than it started with.
THEOREM RoundTripsAlwaysLose == Spec => []RoundTripLoses
  BY AmmInit, AmmNext, NoGain, PTL DEF Spec

(***************************************************************************)
(* Tolerances, also where the product wraps.                               *)
(***************************************************************************)
LEMMA ModBelow ==
  ASSUME NEW a \in Nat, NEW d \in Nat \ {0}
  PROVE  a % d \in Nat /\ a % d <= a
<1> DEFINE q == a \div d
           r == a % d
<1>1. r \in 0 .. d - 1 /\ a = d * q + r
  OBVIOUS
<1>2. Quotient(q, a, d)
  BY DivQuotient
<1> HIDE DEF q, r
<1>3. q \in Nat /\ d * q >= 0 /\ d * q \in Int
  BY <1>2 DEF Quotient
<1>4. r \in Nat /\ r <= a
  BY <1>1, <1>3
<1> QED  BY <1>4 DEF r

\* What fits is not cut off.
LEMMA ModFits ==
  ASSUME NEW a \in Nat, NEW d \in Nat \ {0}, a < d
  PROVE  a % d = a
<1> DEFINE q == a \div d
           r == a % d
<1>1. r \in 0 .. d - 1 /\ a = d * q + r
  OBVIOUS
<1>2. Quotient(q, a, d)
  BY DivQuotient
<1> HIDE DEF q, r
<1>3. q = 0
  <2> SUFFICES ASSUME q >= 1 PROVE FALSE
    BY <1>2 DEF Quotient
  <2>1. d * q >= d
    BY <1>2 DEF Quotient
  <2> QED  BY <1>2, <2>1 DEF Quotient
<1>4. r = a
  BY <1>1, <1>3
<1> QED  BY <1>4 DEF r

\* What is cut off is never negative.
LEMMA ModNat ==
  ASSUME NEW a \in Int, NEW d \in Nat \ {0}
  PROVE  a % d \in Nat
  OBVIOUS

\* The share of a tolerance, computed from a product that may have wrapped.
Share(x, bps) == ((x * bps) % U64) \div 10000

NoMore(f, x, bps) == 10000 * f <= x * bps

LEMMA ShareBelow ==
  ASSUME NEW x \in Nat, NEW bps \in Nat
  PROVE  Share(x, bps) \in Nat /\ NoMore(Share(x, bps), x, bps)
<1> DEFINE a == x * bps
           m == a % U64
           f == m \div 10000
<1>1. a \in Nat /\ U64 \in Nat \ {0}
  BY AmmCalcAssumption, SMT
<1>2. m \in Nat /\ m <= a
  <2> HIDE DEF a
  <2> QED  BY <1>1, ModBelow
<1>3. Share(x, bps) = f
  BY SMT DEF Share
<1> HIDE DEF m
<1>4. Quotient(f, m, 10000)
  BY <1>2, DivQuotient, SMT
<1> HIDE DEF f
<1>5. f \in Nat /\ 10000 * f <= a
  <2> HIDE DEF a
  <2> QED  BY <1>1, <1>2, <1>4, SMT DEF Quotient
<1> QED  BY <1>3, <1>5, SMT DEF NoMore

SellWithin(x, bps) == LeastKept(calculate_with_slippage_sell(x, bps), x, bps)
BonkWithin(x, bps) == LeastKept(BonkSlippage(x, bps), x, bps)
BuyWithin(x, bps) ==
  /\ calculate_with_slippage_buy(x, bps) <= x + (x * bps) \div 10000
  /\ calculate_with_slippage_buy(x, bps) < 2 * x
MinOutsWithin(x, bps) ==
  \A m \in RaydiumMinOuts(x, bps) :
    x * (10000 - bps) < (m + 2 + x \div Precision) * 10000 /\ m <= x + x \div Precision

\* A share that is no more than the tolerance says may be taken off, and what
\* wraps because the tolerance is above 100% is still no less than nothing.
LEMMA ShareOff ==
  ASSUME NEW x \in Nat, x < U64, NEW bps \in Nat, NEW f \in Nat, NoMore(f, x, bps),
         NEW least, least = (x - f) % U64
  PROVE  LeastKept(least, x, bps)
<1>1. x * (10000 - bps) = 10000 * x - x * bps /\ x * bps \in Int /\ 10000 * f <= x * bps
  BY SMT DEF NoMore
<1>2. U64 \in Nat \ {0}
  BY AmmCalcAssumption, SMT
<1>3. CASE bps <= 10000
  <2>1. x * bps <= x * 10000
    BY <1>3, SMT
  <2>2. x - f \in Nat /\ x - f < U64
    BY <1>1, <1>2, <2>1, SMT
  <2>3. least = x - f
    BY <1>2, <2>2, ModFits
  <2>4. x * (10000 - bps) <= least * 10000 /\ least <= x
    BY <1>1, <2>3, SMT
  <2> QED  BY <2>4, SMT DEF LeastKept
<1>4. CASE bps > 10000
  <2>1. least \in Nat
    <3>1. x - f \in Int
      OBVIOUS
    <3> QED  BY <1>2, <3>1, ModNat
  <2>2. x * (10000 - bps) <= 0
    <3>1. 10000 - bps <= 0
      BY <1>4, SMT
    <3> QED  BY <3>1, SMT
  <2>3. x * (10000 - bps) <= least * 10000 /\ ~(bps <= 10000)
    BY <1>1, <1>4, <2>1, <2>2, SMT
  <2> QED  BY <2>3, SMT DEF LeastKept
<1> QED  BY <1>3, <1>4, SMT

LEMMA SellTolerance ==
  ASSUME NEW x \in Nat, x # 0, x < U64, NEW bps \in Nat
  PROVE  SellWithin(x, bps)
<1> DEFINE k == bps \div 10000
           f == Share(x, bps)
           least == calculate_with_slippage_sell(x, bps)
<1>1. f \in Nat /\ NoMore(f, x, bps)
  BY ShareBelow, Zenon
<1>2. least = IF x <= k THEN 1 ELSE (x - f) % U64
  BY SMT DEF calculate_with_slippage_sell, Share
<1>3. Quotient(k, bps, 10000)
  BY DivQuotient, SMT
<1> HIDE DEF k, f, least
<1>4. CASE x <= k
  <2>1. least = 1 /\ bps >= 10000
    BY <1>2, <1>3, <1>4, SMT DEF Quotient
  <2>2. x * (10000 - bps) <= 0
    <3>1. 10000 - bps <= 0
      BY <2>1, SMT
    <3> QED  BY <3>1, SMT
  <2>3. x * (10000 - bps) <= least * 10000 /\ least <= x
    <3>1. x * (10000 - bps) \in Int
      BY SMT
    <3> QED  BY <2>1, <2>2, <3>1, SMT
  <2> QED  BY <2>3, SMT DEF least, SellWithin, LeastKept
<1>5. CASE ~(x <= k)
  <2>1. least = (x - f) % U64
    BY <1>2, <1>5, SMT
  <2>2. LeastKept(least, x, bps)
    BY <1>1, <2>1, ShareOff, Zenon
  <2> QED  BY <2>2, SMT DEF least, SellWithin
<1> QED  BY <1>4, <1>5, SMT

LEMMA BonkTolerance ==
  ASSUME NEW x \in Nat, x < U64, NEW bps \in Nat
  PROVE  BonkWithin(x, bps)
<1> DEFINE a == x * bps
           f == a \div 10000
<1>1. a \in Nat
  BY SMT
<1>2. BonkSlippage(x, bps) = (x - f) % U64
  BY SMT DEF BonkSlippage
<1> HIDE DEF a
<1>3. f \in Nat /\ 10000 * f <= a
  BY <1>1, DivQuotient, SMT DEF Quotient
<1> HIDE DEF f
<1>4. f \in Nat /\ NoMore(f, x, bps)
  BY <1>3, SMT DEF a, NoMore
<1> DEFINE least == BonkSlippage(x, bps)
<1> HIDE DEF least
<1>5. least = (x - f) % U64
  BY <1>2 DEF least
<1>6. LeastKept(least, x, bps)
  BY <1>4, <1>5, ShareOff, Zenon
<1> QED  BY <1>6, Zenon DEF BonkWithin, least

LEMMA BuyTolerance ==
  ASSUME NEW x \in Nat \ {0}, NEW bps \in Nat
  PROVE  BuyWithin(x, bps)
<1> DEFINE c == Least(bps, MAX_SLIPPAGE_BASIS_POINTS)
           f == Share(x, c)
           a == x * bps
           g == a \div 10000
           most == calculate_with_slippage_buy(x, bps)
<1>1. c \in Nat /\ c <= bps /\ c <= 9999
  BY SMT DEF Least, MAX_SLIPPAGE_BASIS_POINTS
<1>2. most = (x + f) % U64
  BY SMT DEF calculate_with_slippage_buy, Share
<1> HIDE DEF c
<1>3. f \in Nat /\ 10000 * f <= x * c
  <2>1. Share(x, c) \in Nat /\ NoMore(Share(x, c), x, c)
    BY <1>1, ShareBelow
  <2> QED  BY <2>1, SMT DEF NoMore
<1> HIDE DEF f
<1>4. most \in Nat /\ most <= x + f
  <2>1. x + f \in Nat /\ U64 \in Nat \ {0}
    BY <1>3, AmmCalcAssumption, SMT
  <2> QED  BY <1>2, <2>1, ModBelow
<1> HIDE DEF most
<1>5. a \in Nat /\ x * c <= a /\ x * c <= x * 9999 /\ x * c \in Int
  BY <1>1, SMT
<1>6. 10000 * f <= a
  BY <1>3, <1>5, SMT
<1>7. f < x
  BY <1>3, <1>5, SMT
<1> HIDE DEF a
<1>8. Quotient(g, a, 10000)
  BY <1>5, DivQuotient, SMT
<1> HIDE DEF g
<1>9. f <= g
  BY <1>3, <1>5, <1>6, <1>8, QuotientGreatest, SMT
<1>10. g \in Nat
  BY <1>8, SMT DEF Quotient
<1>11. most <= x + g /\ most < 2 * x
  BY <1>3, <1>4, <1>7, <1>9, <1>10, SMT
<1> QED  BY <1>11, SMT DEF most, g, a, BuyWithin

LEMMA RaydiumTolerance ==
  ASSUME NEW x \in Nat \ {0}, NEW bps \in Nat
  PROVE  MinOutsWithin(x, bps)
<1> SUFFICES ASSUME NEW m \in RaydiumMinOuts(x, bps)
             PROVE  x * (10000 - bps) < (m + 2 + x \div Precision) * 10000
                    /\ m <= x + x \div Precision
  BY SMT DEF MinOutsWithin
<1> DEFINE P == Precision
           e == x \div P
<1>1. P \in Nat \ {0}
  BY AmmCalcAssumption, SMT
<1>2. Quotient(e, x, P)
  BY <1>1, DivQuotient
<1> HIDE DEF P, e
<1>3. e \in Nat /\ P * e <= x /\ x < P * e + P /\ P * e \in Int
  BY <1>1, <1>2 DEF Quotient
<1>4. CASE bps >= 10000
  <2>1. m = 0
    BY <1>4, SMT DEF RaydiumMinOuts
  <2>2. x * (10000 - bps) <= 0 /\ x * (10000 - bps) \in Int
    <3>1. 10000 - bps <= 0
      BY <1>4, SMT
    <3> QED  BY <3>1, SMT
  <2>3. x * (10000 - bps) < (m + 2 + e) * 10000 /\ m <= x + e
    BY <1>3, <2>1, <2>2, SMT
  <2> QED  BY <2>3 DEF e, P
<1>5. CASE ~(bps >= 10000)
  <2> DEFINE c == 10000 - bps
             rate == P * c
             d == 10000 * P
             a == x * Monus(rate, 10000)
             b == x * (rate + 10000)
             lo == a \div d
             hi == b \div d
  <2>1. c \in Nat /\ c <= 10000
    BY <1>5, SMT
  <2>2. m \in lo .. Least(U64 - 1, hi)
    BY <1>5, SMT DEF RaydiumMinOuts, P
  <2> HIDE DEF c
  <2>3. rate \in Nat /\ rate <= d /\ d \in Nat \ {0}
    BY <1>1, <2>1, SMT
  <2>4. Monus(rate, 10000) \in Nat /\ Monus(rate, 10000) >= rate - 10000
    <3> HIDE DEF rate
    <3> QED  BY <2>3, SMT DEF Monus
  <2>5. a \in Nat /\ a >= x * (rate - 10000)
    <3> DEFINE z == Monus(rate, 10000)
    <3>1. z \in Nat /\ z >= rate - 10000
      BY <2>4
    <3> HIDE DEF z, rate
    <3>2. x * z \in Nat /\ x * z >= x * (rate - 10000)
      BY <2>3, <3>1, SMT
    <3> QED  BY <3>2 DEF z
  <2>6. b \in Nat /\ b <= x * (d + 10000)
    <3> HIDE DEF rate, d
    <3> QED  BY <2>3, SMT
  <2>7. rate = P * c /\ d = 10000 * P
    OBVIOUS
  <2> HIDE DEF rate, d
  <2> HIDE DEF a, b
  <2>8. Quotient(lo, a, d) /\ Quotient(hi, b, d)
    BY <2>3, <2>5, <2>6, DivQuotient
  <2> HIDE DEF lo, hi
  <2>9. lo \in Nat /\ hi \in Nat /\ m \in Nat /\ lo <= m /\ m <= hi
    <3>1. lo \in Nat /\ hi \in Nat /\ U64 \in Nat
      BY <2>8, AmmCalcAssumption DEF Quotient
    <3>2. Least(U64 - 1, hi) \in Int /\ Least(U64 - 1, hi) <= hi
      BY <3>1, SMT DEF Least
    <3> HIDE DEF Least
    <3> QED  BY <2>2, <3>1, <3>2, SMT
  <2>10. x * c < (m + 2 + e) * 10000
    <3>1. d * lo <= d * m /\ d * m \in Int /\ d * lo \in Int
      BY <2>3, <2>9
    <3>2. a < d * m + d
      BY <2>3, <2>5, <2>8, <3>1 DEF Quotient
    <3>3. x * (rate - 10000) = P * (x * c) - 10000 * x /\ x * c \in Int
      BY <1>1, <2>1, <2>7
    <3>4. P * (x * c) \in Int
      BY <1>1, <3>3
    <3>5. d * m + d + 10000 * (P * e + P) = P * ((m + 2 + e) * 10000)
      BY <1>1, <1>3, <2>7, <2>9
    <3>6. P * (x * c) < P * ((m + 2 + e) * 10000)
      <4>1. P * ((m + 2 + e) * 10000) \in Int
        BY <1>1, <1>3, <2>9
      <4>2. x * (rate - 10000) < d * m + d
        BY <2>3, <2>5, <3>1, <3>2, <3>3, <3>4
      <4>3. P * (x * c) < d * m + d + 10000 * x
        BY <2>3, <3>1, <3>3, <3>4, <4>2
      <4>4. 10000 * x < 10000 * (P * e + P)
        BY <1>1, <1>3
      <4>5. 10000 * (P * e + P) \in Int
        BY <1>1, <1>3
      <4> QED  BY <2>3, <3>1, <3>4, <3>5, <4>1, <4>3, <4>4, <4>5
    <3>7. (m + 2 + e) * 10000 \in Int
      BY <1>3, <2>9
    <3> QED  BY <1>1, <3>3, <3>6, <3>7
  <2>11. m <= x + e
    <3> SUFFICES ASSUME m >= x + e + 1 PROVE FALSE
      BY <1>3, <2>9
    <3>1. d * m >= d * (x + e + 1) /\ d * m \in Int
      BY <1>3, <2>3, <2>9
    <3>2. d * m <= d * hi /\ d * hi \in Int
      BY <2>3, <2>9
    <3>3. d * (x + e + 1) = d * x + 10000 * (P * e + P) /\ x * (d + 10000) = d * x + 10000 * x
          /\ d * x \in Int
      BY <1>1, <1>3, <2>3, <2>7
    <3> QED  BY <1>1, <1>3, <2>6, <2>8, <3>1, <3>2, <3>3 DEF Quotient
  <2> QED  BY <2>10, <2>11 DEF c, e, P
<1> QED  BY <1>4, <1>5

LEMMA ToleranceKept == AmmInv => SlippageKept
<1> SUFFICES ASSUME AmmInv PROVE SlippageKept
  OBVIOUS
<1>1. Amounts \subseteq Nat \ {0} /\ \A a \in Amounts : a < U64
  BY AmmCalcAssumption, SMT
<1>2. \A bps \in BasisPoints : bps \in Nat
  BY AmmCalcAssumption, SMT
<1>3. ASSUME NEW a \in Amounts
      PROVE  BuyOf(a, pool).out \in Nat /\ BuyOf(a, pool).out < U64
  <2> DEFINE t == BuyOf(a, pool)
  <2>1. Quoted(t, a, pool.quote, pool.base) /\ t.out \in Nat
    BY <1>1, BuyQuoted DEF AmmInv, AmmTypeOK
  <2>2. pool.base \in Nat /\ pool.base < U64 /\ U64 \in Nat
    BY PoolFits, AmmCalcAssumption DEF AmmInv, AmmTypeOK, Reserves
  <2> HIDE DEF t
  <2>3. t.out \in Nat /\ t.out < U64
    BY <2>1, <2>2 DEF Quoted, Keeps
  <2> QED  BY <2>3 DEF t
<1>4. \A x \in (Amounts \cup {BuyOf(a, pool).out : a \in Amounts}) \ {0} : x \in Nat \ {0} /\ x < U64
  BY <1>1, <1>3, Zenon
<1>5. ASSUME NEW x \in (Amounts \cup {BuyOf(a, pool).out : a \in Amounts}) \ {0},
             NEW bps \in BasisPoints
      PROVE  SellWithin(x, bps) /\ BonkWithin(x, bps) /\ BuyWithin(x, bps) /\ MinOutsWithin(x, bps)
  <2>1. x \in Nat \ {0} /\ x \in Nat /\ x # 0 /\ x < U64
    BY <1>4, Zenon
  <2>2. bps \in Nat
    BY <1>2, Zenon
  <2> QED  BY <2>1, <2>2, SellTolerance, BonkTolerance, BuyTolerance, RaydiumTolerance, Zenon
<1> QED  BY <1>5, SMT DEF SlippageKept, SellWithin, BonkWithin, BuyWithin, MinOutsWithin

\* For every amount, every tolerance that is a u64 and every width of the word:
\* no limit the SDK puts into a transaction allows a worse price than the
\* tolerance, and up to 100% none asks for more than the quote, but for what a
\* float rounds.
THEOREM SlippageAlwaysKept == Spec => []SlippageKept
  BY AmmInit, AmmNext, ToleranceKept, PTL DEF Spec

(***************************************************************************)
(* The same trade computed in two ways, for reserves p and an amount x.    *)
(***************************************************************************)

\* PumpSwap: what an amount buys does not cost more than that.
BuysAgree(x, p) ==
  LET b == buy_quote_input_internal(x, p, creator) IN
    0 < b.out /\ b.out < p.base =>
      buy_base_input_internal(b.out, p, creator).internal_quote_amount <= b.in

LEMMA BuysAlwaysAgree ==
  ASSUME NEW p \in Reserves, NEW x \in Nat
  PROVE  BuysAgree(x, p)
<1> DEFINE net == (x * 10000) \div (10000 + TotalBps(creator))
           B == p.base
           Q == p.quote
           out == (B * net) \div (Q + net)
           cost == ceil_div(Q * out, B - out)
           asked == cost % U64
<1>1. B \in Nat \ {0} /\ Q \in Nat \ {0}
  BY SMT DEF Reserves
<1>2. net \in Nat
  <2>1. TotalBps(creator) \in Nat
    BY BpsFacts, SMT
  <2> QED  BY <2>1, NetAmount, SMT
<1>3. /\ buy_quote_input_internal(x, p, creator) = Trade(out, net, out)
      /\ buy_base_input_internal(out, p, creator).internal_quote_amount = asked
  BY SMT DEF buy_quote_input_internal, buy_base_input_internal
<1>4. /\ buy_quote_input_internal(x, p, creator).out = out
      /\ buy_quote_input_internal(x, p, creator).in = net
  BY <1>3, SMT DEF Trade
<1> HIDE DEF net, B, Q
<1>5. B * net \in Nat /\ Q + net \in Nat \ {0}
  BY <1>1, <1>2
<1>6. Quotient(out, B * net, Q + net)
  BY <1>5, DivQuotient
<1> HIDE DEF out
<1>7. ASSUME 0 < out, out < B PROVE asked <= net
  <2>1. out \in Nat /\ (Q + net) * out <= B * net
    BY <1>6 DEF Quotient
  <2> DEFINE d == B - out
             a == Q * out
  <2>2. d \in Nat \ {0} /\ a \in Nat
    BY <1>1, <1>7, <2>1
  <2>3. a <= d * net
    <3>1. (Q + net) * out = Q * out + net * out /\ (B - out) * net = B * net - net * out
      BY <1>1, <1>2, <2>1
    <3>2. Q * out \in Int /\ net * out \in Int /\ B * net \in Int
      BY <1>1, <1>2, <2>1
    <3> QED  BY <2>1, <3>1, <3>2
  <2>4. cost = ceil_div(a, d)
    OBVIOUS
  <2> HIDE DEF d, a, cost
  <2>5. Ceiling(cost, a, d)
    BY <2>2, <2>4, CeilDiv
  <2>6. cost \in Nat /\ cost <= net
    BY <1>2, <2>2, <2>3, <2>5, CeilingLeast DEF Ceiling
  <2>7. asked \in Nat /\ asked <= cost
    BY <2>6, AmmCalcAssumption, ModBelow
  <2> HIDE DEF asked
  <2> QED  BY <1>2, <2>6, <2>7
<1>8. B = p.base
  BY DEF B
<1> HIDE DEF cost, asked
<1> QED  BY <1>3, <1>4, <1>7, <1>8, SMT DEF BuysAgree

\* PumpSwap: what it says to sell for an amount brings it, up to the rounding.
SalesAgree(x, p) ==
  ~SellQuoteFails(x, p, creator) /\ SellQuoteFits(x, p) =>
    LET y == sell_quote_input_internal(x, p, creator)
    IN  sell_base_input_internal(y, p, creator).out >= x - 2

LEMMA SalesAlwaysAgree ==
  ASSUME NEW p \in Reserves, NEW x \in Nat
  PROVE  SalesAgree(x, p)
<1> DEFINE T == TotalBps(creator)
           raw == RawQuote(x, creator)
           B == p.base
           Q == p.quote
           y == ceil_div(B * raw, Q - raw)
           out == (Q * y) \div (B + y)
           fees == Fees(out, creator)
<1> SUFFICES ASSUME ~SellQuoteFails(x, p, creator), SellQuoteFits(x, p)
             PROVE  sell_base_input_internal(sell_quote_input_internal(x, p, creator), p, creator).out
                      >= x - 2
  BY SMT DEF SalesAgree
<1>1. B \in Nat \ {0} /\ Q \in Nat \ {0}
  BY SMT DEF Reserves
<1>2. T \in {30, 35}
  BY BpsFacts
<1>3. raw = ceil_div(x * 10000, 10000 - T)
  BY SMT DEF RawQuote
<1>4. U64 \in Nat \ {0} /\ raw < U64 /\ y < U64
  BY AmmCalcAssumption, SMT DEF SellQuoteFits
<1> HIDE DEF T, raw, B, Q
<1>6. raw \in Nat /\ x * 10000 <= (10000 - T) * raw
  <2>1. 10000 - T \in Nat \ {0} /\ x * 10000 \in Nat
    BY <1>2, SMT
  <2>2. Ceiling(raw, x * 10000, 10000 - T)
    BY <1>3, <2>1, CeilDiv, SMT
  <2> QED  BY <2>2, SMT DEF Ceiling
<1>5. calculate_quote_amount_out(x, creator) = raw /\ ~(raw >= Q)
  <2>1. raw % U64 = raw
    BY <1>4, <1>6, ModFits
  <2>2. calculate_quote_amount_out(x, creator) = raw
    BY <2>1 DEF calculate_quote_amount_out, raw
  <2> QED  BY <2>2 DEF SellQuoteFails, Q
<1>7. y \in Nat /\ B * raw <= (Q - raw) * y
  <2>1. Q - raw \in Nat \ {0} /\ B * raw \in Nat
    BY <1>1, <1>5, <1>6
  <2>2. Ceiling(y, B * raw, Q - raw)
    BY <2>1, CeilDiv
  <2> HIDE DEF y
  <2> QED  BY <2>2 DEF Ceiling
<1>11. sell_base_input_internal(sell_quote_input_internal(x, p, creator), p, creator).out = out - fees
  <2>1. y % U64 = y
    <3> HIDE DEF y
    <3> QED  BY <1>4, <1>7, ModFits
  <2>2. sell_quote_input_internal(x, p, creator) = y
    BY <1>5, <2>1 DEF sell_quote_input_internal, B, Q
  <2> QED  BY <2>2, SMT DEF sell_base_input_internal, Trade, B, Q
<1> HIDE DEF y
<1>8. out \in Nat /\ raw <= out
  <2>1. Q * y \in Nat /\ B + y \in Nat \ {0}
    BY <1>1, <1>7
  <2>2. Quotient(out, Q * y, B + y)
    BY <2>1, DivQuotient
  <2>3. (B + y) * raw <= Q * y
    <3>1. (B + y) * raw = B * raw + y * raw /\ (Q - raw) * y = Q * y - y * raw
      BY <1>1, <1>6, <1>7
    <3>2. B * raw \in Int /\ y * raw \in Int /\ Q * y \in Int
      BY <1>1, <1>6, <1>7
    <3> QED  BY <1>7, <3>1, <3>2
  <2> HIDE DEF out
  <2>4. raw <= out
    BY <1>6, <2>1, <2>2, <2>3, QuotientGreatest
  <2> QED  BY <2>2, <2>4 DEF Quotient
<1> HIDE DEF out
<1>9. fees \in Nat /\ 10000 * fees <= out * T + 29997
  BY <1>8, FeesBounds, SMT DEF T
<1> HIDE DEF fees
<1>10. out - fees >= x - 2
  <2>1. CASE T = 30
    BY <1>6, <1>8, <1>9, <2>1, SMT
  <2>2. CASE T = 35
    BY <1>6, <1>8, <1>9, <2>2, SMT
  <2> QED  BY <1>2, <2>1, <2>2
<1> QED  BY <1>10, <1>11, SMT

\* PumpFun: the curve of BondingCurveAccount is that of the quotes.
CurvesAgree(x, p) ==
  LET a == get_buy_price(x, p, p.base, FALSE)
      b == (x * p.base) \div (p.quote + x)
      s == get_sell_price(x, p, PumpFunBps(creator), FALSE)
      t == get_sell_sol_amount_from_token_amount(x, p, creator).out
  IN  b - 1 <= a /\ a <= b /\ s - 1 <= t /\ t <= s

LEMMA CurvesAlwaysAgree ==
  ASSUME NEW p \in Reserves, p.quote < U64, NEW x \in Nat \ {0}
  PROVE  CurvesAgree(x, p)
<1> DEFINE B == p.base
           Q == p.quote
           a == get_buy_price(x, p, p.base, FALSE)
           b == (x * B) \div (Q + x)
           k == (Q * B) \div (Q + x)
           s == get_sell_price(x, p, PumpFunBps(creator), FALSE)
           t == get_sell_sol_amount_from_token_amount(x, p, creator).out
           n == (x * Q) \div (B + x)
           P == PumpFunBps(creator)
           f == (n * P) \div 10000
           c == compute_fee(n, P)
<1>1. B \in Nat \ {0} /\ Q \in Nat \ {0}
  BY SMT DEF Reserves
<1>2. P \in Nat /\ P <= 10000
  BY BpsFacts, SMT
<1>3. a = Least(B - (k + 1), B)
  BY SMT DEF get_buy_price
<1>4. s = (n - f) % U64
  BY SMT DEF get_sell_price
<1>5. t = Monus(n, c)
  BY <1>1, SMT DEF get_sell_sol_amount_from_token_amount, Trade
<1> HIDE DEF B, Q, P
<1>6. b - 1 <= a /\ a <= b
  <2> DEFINE d == Q + x
  <2>1. d \in Nat \ {0} /\ x * B \in Nat /\ Q * B \in Nat
    BY <1>1
  <2>2. Quotient(b, x * B, d) /\ Quotient(k, Q * B, d)
    BY <2>1, DivQuotient
  <2>3. d * B = Q * B + x * B
    BY <1>1
  <2> HIDE DEF b, k, d, a
  <2>4. /\ b \in Nat /\ k \in Nat /\ d * B < d * k + d * b + 2 * d /\ d * k + d * b <= d * B
        /\ d * k \in Int /\ d * b \in Int /\ d * B \in Int
    BY <1>1, <2>1, <2>2, <2>3 DEF Quotient
  <2>5. k + b <= B
    <3> SUFFICES ASSUME k + b >= B + 1 PROVE FALSE
      BY <1>1, <2>4
    <3>1. d * (k + b) >= d * (B + 1) /\ d * (k + b) = d * k + d * b /\ d * (B + 1) = d * B + d
      BY <1>1, <2>1, <2>4
    <3> QED  BY <2>1, <2>4, <3>1
  <2>6. B <= k + b + 1
    <3> SUFFICES ASSUME B >= k + b + 2 PROVE FALSE
      BY <1>1, <2>4
    <3>1. d * B >= d * (k + b + 2) /\ d * (k + b + 2) = d * k + d * b + 2 * d
      BY <1>1, <2>1, <2>4
    <3> QED  BY <2>1, <2>4, <3>1
  <2>7. a = B - (k + 1)
    BY <1>1, <1>3, <2>4 DEF Least
  <2> QED  BY <1>1, <2>4, <2>5, <2>6, <2>7
<1>7. n \in Nat /\ n < U64
  <2>1. x * Q \in Nat /\ B + x \in Nat \ {0} /\ Q < U64 /\ U64 \in Nat
    BY <1>1, AmmCalcAssumption DEF Q
  <2>2. Quotient(n, x * Q, B + x)
    BY <2>1, DivQuotient
  <2> HIDE DEF n
  <2>3. n \in Nat /\ (B + x) * n <= x * Q
    BY <2>2 DEF Quotient
  <2>4. n <= Q
    <3> SUFFICES ASSUME n >= Q + 1 PROVE FALSE
      BY <1>1, <2>3
    <3>1. (B + x) * n >= (B + x) * (Q + 1)
      BY <1>1, <2>3
    <3>2. (B + x) * (Q + 1) = x * Q + x + B * (Q + 1) /\ B * (Q + 1) >= 0
      BY <1>1
    <3>3. (B + x) * n \in Int /\ x * Q \in Int /\ B * (Q + 1) \in Int
      BY <1>1, <2>3
    <3> QED  BY <2>3, <3>1, <3>2, <3>3
  <2> QED  BY <1>1, <2>1, <2>3, <2>4
<1> HIDE DEF n, s, t
<1>8. s - 1 <= t /\ t <= s
  <2> DEFINE m == n * P
  <2>1. m \in Nat /\ m <= 10000 * n
    BY <1>2, <1>7, SMT
  <2>2. Ceiling(c, m, 10000)
    BY <1>2, <1>7, FeeFacts, SMT
  <2> HIDE DEF m, c
  <2>3. Quotient(m \div 10000, m, 10000)
    BY <2>1, DivQuotient, SMT
  <2>4. f = m \div 10000
    BY SMT DEF m
  <2>5. Quotient(f, m, 10000)
    BY <2>3, <2>4, SMT
  <2> HIDE DEF f
  <2>6. f \in Nat /\ c \in Nat /\ c <= f + 1 /\ f <= c /\ f <= n
    BY <1>7, <2>1, <2>2, <2>5, SMT DEF Quotient, Ceiling
  <2>7. s = n - f
    <3>1. n - f \in Nat /\ n - f < U64 /\ U64 \in Nat \ {0}
      BY <1>7, <2>6, AmmCalcAssumption, SMT
    <3>2. (n - f) % U64 = n - f
      BY <3>1, ModFits
    <3> QED  BY <1>4, <3>2
  <2> QED  BY <1>5, <1>7, <2>6, <2>7, SMT DEF Monus
<1> QED  BY <1>6, <1>8, Zenon DEF CurvesAgree, B, Q, s, t

\* PumpFun: the number a small quote is replaced by is no smaller.
LEMMA FallbackCovers ==
  ASSUME NEW p \in Reserves, NEW x \in Nat \ {0}
  PROVE  get_buy_token_amount_from_sol_amount(x, p, creator, p.base) >= PumpFunBuy(x, p, creator, p.base).out
<1> DEFINE out == PumpFunBuy(x, p, creator, p.base).out
<1>1. p.base # 0 /\ x # 0
  BY SMT DEF Reserves
<1>2. out \in Nat
  <2> DEFINE net == (x * 10000) \div (PumpFunBps(creator) + 10000)
             q == (net * p.base) \div (p.quote + net)
  <2>1. out = Least(q, p.base)
    BY SMT DEF PumpFunBuy, Trade
  <2>2. net \in Nat
    <3>1. PumpFunBps(creator) + 10000 \in Nat \ {0} /\ x * 10000 \in Nat
      BY BpsFacts, SMT
    <3> QED  BY <3>1, DivQuotient, SMT DEF Quotient
  <2> HIDE DEF net, out
  <2>3. p.base \in Nat /\ p.quote \in Nat \ {0}
    BY SMT DEF Reserves
  <2>4. net * p.base \in Nat /\ p.quote + net \in Nat \ {0}
    BY <2>2, <2>3
  <2>5. q \in Nat
    BY <2>4, DivQuotient DEF Quotient
  <2> HIDE DEF q
  <2> QED  BY <2>1, <2>3, <2>5 DEF Least
<1>3. get_buy_token_amount_from_sol_amount(x, p, creator, p.base)
        = IF out > Dust THEN out ELSE IF x > DustSol THEN FallbackLarge ELSE FallbackSmall
  BY <1>1, SMT DEF get_buy_token_amount_from_sol_amount
<1> HIDE DEF out
<1>4. /\ Dust \in Nat /\ FallbackLarge \in Nat /\ FallbackSmall \in Nat
      /\ Dust <= FallbackSmall /\ FallbackSmall <= FallbackLarge
  BY AmmCalcAssumption, SMT
<1>5. get_buy_token_amount_from_sol_amount(x, p, creator, p.base) >= out
  BY <1>2, <1>3, <1>4, SMT
<1> QED  BY <1>5 DEF out

\* PumpFun: the price of buying out buys that many.
LEMMA BuyOutCovers ==
  ASSUME NEW p \in Reserves, NEW x \in Nat \ {0}, x < p.base, BuyOutFits(x, p)
  PROVE  get_buy_price(get_buy_out_price(x, p, 0, 0), p, p.base, FALSE) >= x
<1> DEFINE B == p.base
           Q == p.quote
           v == (x * Q) \div (B - x) + 1
           k == (Q * B) \div (Q + v)
<1>1. B \in Nat \ {0} /\ Q \in Nat \ {0} /\ x < B
  BY SMT DEF Reserves
<1> HIDE DEF B, Q
<1>2. B - x \in Nat \ {0} /\ x * Q \in Nat
  BY <1>1
<1>3. v \in Nat \ {0} /\ (B - x) * v > x * Q
  <2> DEFINE w == (x * Q) \div (B - x)
  <2>1. Quotient(w, x * Q, B - x)
    BY <1>2, DivQuotient
  <2>2. v = w + 1
    OBVIOUS
  <2> HIDE DEF w, v
  <2>3. w \in Nat /\ x * Q < (B - x) * w + (B - x)
    BY <2>1 DEF Quotient
  <2>4. (B - x) * v = (B - x) * w + (B - x)
    BY <1>1, <2>2, <2>3
  <2> QED  BY <2>2, <2>3, <2>4
<1>4. get_buy_out_price(x, p, 0, 0) = v
  <2> DEFINE w == (x * Q) \div (B - x)
  <2>1. v = w + 1 /\ w + 1 \in Nat
    BY <1>3
  <2>2. ~(x < 0)
    OBVIOUS
  <2>3. BuyOutValue(x, p, 0) = w + 1 /\ w + 1 < U64
    BY <2>2, SMT DEF BuyOutValue, BuyOutFits, B, Q
  <2>4. get_buy_out_price(x, p, 0, 0) = ((w + 1) + ((w + 1) * 0) \div 10000) % U64
    BY <2>3, SMT DEF get_buy_out_price
  <2> HIDE DEF w, v
  <2>5. (w + 1) * 0 = 0
    BY <2>1, SMT
  <2>6. 0 \div 10000 = 0
    BY SMT
  <2>7. (w + 1) + ((w + 1) * 0) \div 10000 = w + 1
    BY <2>1, <2>5, <2>6, SMT
  <2>8. (w + 1) % U64 = w + 1
    BY <2>1, <2>3, AmmCalcAssumption, ModFits
  <2> QED  BY <2>1, <2>4, <2>7, <2>8
<1>5. get_buy_price(v, p, B, FALSE) = Least(B - (k + 1), B)
  <2>1. v # 0
    BY <1>3
  <2> HIDE DEF v
  <2> QED  BY <2>1, SMT DEF get_buy_price, B, Q
<1> HIDE DEF v
<1>6. Quotient(k, Q * B, Q + v)
  <2>1. Q * B \in Nat /\ Q + v \in Nat \ {0}
    BY <1>1, <1>3
  <2> QED  BY <2>1, DivQuotient
<1> HIDE DEF k
<1>7. k \in Nat /\ (Q + v) * k <= Q * B
  BY <1>6 DEF Quotient
<1>8. k < B - x
  <2> SUFFICES ASSUME k >= B - x PROVE FALSE
    BY <1>1, <1>7
  <2>1. (Q + v) * k >= (Q + v) * (B - x)
    BY <1>1, <1>3, <1>7
  <2>2. (Q + v) * (B - x) = Q * B - x * Q + (B - x) * v
    BY <1>1, <1>3
  <2>3. (Q + v) * k \in Int /\ Q * B \in Int /\ x * Q \in Int /\ (B - x) * v \in Int
    BY <1>1, <1>3, <1>7
  <2> QED  BY <1>3, <1>7, <2>1, <2>2, <2>3
<1>9. Least(B - (k + 1), B) >= x
  BY <1>1, <1>7, <1>8 DEF Least
<1> QED  BY <1>4, <1>5, <1>9 DEF B

LEMMA AlwaysAgree == AmmInv => QuotesAgree
<1> SUFFICES ASSUME AmmInv PROVE QuotesAgree
  OBVIOUS
<1>1. pool \in Reserves /\ pool.quote < U64
  BY PoolFits DEF AmmInv, AmmTypeOK
<1>2. Amounts \subseteq Nat \ {0}
  BY AmmCalcAssumption, SMT
<1>3. ASSUME NEW x \in Amounts
      PROVE  /\ BuysAgree(x, pool) /\ SalesAgree(x, pool) /\ CurvesAgree(x, pool)
             /\ get_buy_token_amount_from_sol_amount(x, pool, creator, pool.base)
                  >= PumpFunBuy(x, pool, creator, pool.base).out
             /\ x < pool.base /\ BuyOutFits(x, pool) =>
                  get_buy_price(get_buy_out_price(x, pool, 0, 0), pool, pool.base, FALSE) >= x
  <2>1. x \in Nat \ {0} /\ x \in Nat
    BY <1>2, Zenon
  <2> QED  BY <1>1, <2>1, BuysAlwaysAgree, SalesAlwaysAgree, CurvesAlwaysAgree, FallbackCovers,
              BuyOutCovers, Zenon
<1> QED  BY <1>3, Zenon DEF QuotesAgree, BuysAgree, SalesAgree, CurvesAgree

\* For every pool, amount and width of the word, wherever the SDK computes the
\* same trade twice and the amounts fit the word.
THEOREM QuotesAlwaysAgree == Spec => []QuotesAgree
  BY AmmInit, AmmNext, AlwaysAgree, PTL DEF Spec
==============================================================================
