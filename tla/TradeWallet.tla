---------------------------- MODULE TradeWallet ----------------------------
(***************************************************************************)
(* The wallet a trading client works on, and the transactions the SDK      *)
(* builds for it: purchases and sales on every DEX (sol-trade-sdk/src/     *)
(* instruction), and the client's wrapping, unwrapping, closing, claiming  *)
(* and transferring (lib.rs, trading/common).  A transaction is a sequence *)
(* of instructions that takes effect as a whole or not at all.  It is      *)
(* built from what its caller read, and lands later: transactions of other *)
(* callers of the same wallet land in between.  Prices are one to one, and *)
(* the rent of an account is left out.                                     *)
(***************************************************************************)
EXTENDS Integers, Sequences

CONSTANTS
  Mints,           \* the tokens that are traded
  Callers,         \* concurrent users of the client
  RequestsOf,      \* RequestsOf[c]: what caller c may ask for
  InitialWallets,  \* balances at the start
  Slippage,        \* what a purchase may cost beyond its amount
  MaxCalls,        \* bound: calls that are made
  Failed           \* the outcome of a transaction the chain refuses

Money == {"WSOL", "USDC", "USD1"}
Accounts == (Mints \cup Money) \X {"ata", "seed"}
Absent == -1
WsolAta == <<"WSOL", "ata">>
WsolSeed == <<"WSOL", "seed">>

WalletState == [sol : Nat, acct : [Accounts -> Nat \cup {Absent}]]

TradeRequest ==
  [op : {"buy", "sell"}, pool : STRING, mint : Mints, amount : Nat, percent : Nat,
   token_type : Money \cup {"SOL"}, params : BOOLEAN,
   dex : {"PumpFun", "PumpSwap", "Bonk", "RaydiumCpmm", "RaydiumAmmV4", "MeteoraDammV2"},
   money_is_quote : BOOLEAN, exact : BOOLEAN, fixed : BOOLEAN, blockhash : BOOLEAN,
   create_in : BOOLEAN, create_out : BOOLEAN, close_in : BOOLEAN, close_out : BOOLEAN]

\* What a caller may ask for.  pool is the money of the pool that is traded on,
\* token_type the money the caller says it pays with or is paid in, and params
\* that the parameters are those of the DEX.  Bonk's pools hold SOL or USD1.
IsRequest(r) ==
  \/ r.op \in {"buy", "sell"} /\ r \in TradeRequest /\ (r.dex = "Bonk" => r.pool \in {"WSOL", "USD1"})
  \/ r.op \in {"wrap_sol_to_wsol", "wrap_wsol_to_sol", "transfer_sol"} /\ r.amount \in Nat
  \/ r.op \in {"close_wsol", "create_wsol_ata", "claim_cashback_pumpfun", "claim_cashback_pumpswap"}
  \/ r.op = "close_token_account" /\ r.mint \in Mints \cup Money

ASSUME TradeWalletAssumption ==
  /\ Mints \cap (Money \cup {"SOL"}) = {}
  /\ InitialWallets \subseteq WalletState /\ Failed \notin WalletState
  /\ \A w \in InitialWallets : w.acct[WsolSeed] <= 0
  /\ \A c \in Callers : \A r \in RequestsOf[c] : IsRequest(r)
  /\ Slippage \in Nat /\ MaxCalls \in Nat

VARIABLES
  wallet,      \* native SOL and the token accounts of the payer
  seed,        \* use_seed_optimize of the client
  job,         \* per caller: the request, its transaction and how far it is
  calls,       \* calls made so far
  wsolAsked    \* history: a caller left wrapped SOL behind on purpose

walletVars == <<wallet, seed, job, calls, wsolAsked>>

-----------------------------------------------------------------------------
(* Token accounts.  With the seed option every mint but SOL's has its      *)
(* account at another address.  SOL itself has a mint of its own, no       *)
(* account of which is ever opened.                                        *)
Seeded(mint) == seed /\ mint \notin {"WSOL", "SOL"}
get_associated_token_address(mint) == <<mint, IF Seeded(mint) THEN "seed" ELSE "ata">>

Create(a) == [op |-> "create", at |-> a]
CreateNew(a) == [op |-> "createNew", at |-> a]
Wrap(n) == [op |-> "wrap", n |-> n]
Move(a, b, n) == [op |-> "swap", from |-> a, to |-> b, min |-> n, max |-> n]
Pay(a, b, max) == [op |-> "swap", from |-> a, to |-> b, min |-> 1, max |-> max]
Close(a) == [op |-> "close", at |-> a]
Out(n) == [op |-> "out", n |-> n]
Claim(a) == [op |-> "claim", at |-> a]
Mismatch == [op |-> "mismatch"]   \* a swap on an account that is missing or of another mint
Native == <<"SOL", "native">>

create_associated_token_account(mint) ==
  IF Seeded(mint) THEN <<CreateNew(<<mint, "seed">>)>> ELSE <<Create(<<mint, "ata">>)>>

handle_wsol(n) == <<Create(WsolAta), Wrap(n)>>
close_wsol == <<Close(WsolAta)>>
create_wsol_ata == <<Create(WsolAta)>>
\* Mutated form: the account it passes through is left open.
wrap_wsol_to_sol_open(n) == <<Move(WsolAta, WsolSeed, n)>>
wrap_wsol_to_sol_without_create(n) == <<Move(WsolAta, WsolSeed, n), Close(WsolSeed)>>
wrap_wsol_to_sol(n) == <<CreateNew(WsolSeed)>> \o wrap_wsol_to_sol_without_create(n)

(***************************************************************************)
(* What the programs of the chain do with an instruction: the wallets it   *)
(* can leave, or Failed.                                                   *)
(***************************************************************************)
Balance(w, a) == IF a = Native THEN w.sol ELSE w.acct[a]
Credit(w, a, n) == IF a = Native THEN [w EXCEPT !.sol = @ + n] ELSE [w EXCEPT !.acct[a] = @ + n]
Exists(w, a) == Balance(w, a) # Absent

Perform(i, w) ==
  CASE i.op = "create" -> {IF Exists(w, i.at) THEN w ELSE [w EXCEPT !.acct[i.at] = 0]}
    [] i.op = "createNew" -> {IF Exists(w, i.at) THEN Failed ELSE [w EXCEPT !.acct[i.at] = 0]}
    [] i.op = "wrap" -> {IF Exists(w, WsolAta) /\ i.n <= w.sol
                         THEN Credit(Credit(w, Native, -i.n), WsolAta, i.n) ELSE Failed}
    [] i.op = "swap" -> {IF 0 < n /\ n <= Balance(w, i.from) /\ Exists(w, i.to)
                         THEN Credit(Credit(w, i.from, -n), i.to, n) ELSE Failed : n \in i.min .. i.max}
    [] i.op = "close" ->
         {IF Exists(w, i.at) /\ (i.at[1] = "WSOL" \/ w.acct[i.at] = 0)
          THEN [sol |-> w.sol + w.acct[i.at], acct |-> [w.acct EXCEPT ![i.at] = Absent]] ELSE Failed}
    [] i.op = "out" -> {IF i.n <= w.sol THEN Credit(w, Native, -i.n) ELSE Failed}
    [] i.op = "mismatch" -> {Failed}
    [] i.op = "claim" -> {IF Exists(w, i.at) THEN Credit(w, i.at, 1) ELSE Failed}

\* The same after each instruction of a transaction; one that fails undoes all.
After(instructions, w) ==
  LET after[n \in 0 .. Len(instructions)] ==
        IF n = 0 THEN {w}
        ELSE UNION {IF v = Failed THEN {Failed} ELSE Perform(instructions[n], v) : v \in after[n - 1]}
  IN  after
Execute(instructions, w) == After(instructions, w)[Len(instructions)]

-----------------------------------------------------------------------------
(* The instruction builders.  Refused is an error before anything is sent. *)
Refused == <<>>
When(condition, instructions) == IF condition THEN instructions ELSE <<>>

\* The shape most of them share: wrap what is paid, open the token's account,
\* swap, and unwrap what is left; the other way round for a sale.
Purchase(r, wrapped, swap) ==
  When(r.create_in, handle_wsol(wrapped))
    \o When(r.create_out, create_associated_token_account(r.mint))
    \o <<swap>> \o When(r.close_in, close_wsol)
Sale(r, create, swap) ==
  When(create, create_wsol_ata) \o <<swap>>
    \o When(r.close_out, close_wsol)
    \o When(r.close_in, <<Close(get_associated_token_address(r.mint))>>)

Token(r) == get_associated_token_address(r.mint)
Cash(r) == get_associated_token_address(r.pool)
BuyExactIn(r) == Move(Cash(r), Token(r), r.amount)
SellExactIn(r) == Move(Token(r), Cash(r), r.amount)
Listed(r) == r.pool \in {"WSOL", "USDC"}

\* Mutated form: the amount without the slippage is wrapped.
PumpSwap_buy_wraps_amount(r) ==
  IF r.amount = 0 \/ ~Listed(r) THEN Refused
  ELSE Purchase(r, r.amount, IF r.money_is_quote /\ ~r.exact
                             THEN Pay(Cash(r), Token(r), r.amount + Slippage) ELSE BuyExactIn(r))
\* buy_exact_quote_in spends the amount, buy up to the amount with slippage;
\* in a pool whose base is the money, a purchase is a sale of the base.
PumpSwap_buy(r) ==
  IF r.amount = 0 \/ ~Listed(r) THEN Refused
  ELSE IF r.money_is_quote /\ ~r.exact
       THEN Purchase(r, r.amount + Slippage, Pay(Cash(r), Token(r), r.amount + Slippage))
       ELSE Purchase(r, r.amount, BuyExactIn(r))
PumpSwap_sell(r) ==
  IF ~Listed(r) THEN Refused
  ELSE Sale(r, r.create_out, IF r.money_is_quote THEN SellExactIn(r)
                             ELSE Pay(Token(r), Cash(r), r.amount + Slippage))

\* The bonding curve is paid in SOL itself.
PumpFun_buy(r) ==
  IF r.amount = 0 THEN Refused
  ELSE When(r.create_out, create_associated_token_account(r.mint))
         \o <<IF r.exact THEN Move(Native, Token(r), r.amount)
                         ELSE Pay(Native, Token(r), r.amount + Slippage)>>
PumpFun_sell(r) ==
  IF r.amount = 0 THEN Refused
  ELSE <<Move(Token(r), Native, r.amount)>> \o When(r.close_in, <<Close(Token(r))>>)

\* Bonk's pools hold SOL or USD1.  Its sales open the account for the proceeds
\* when they are to close it, whatever create_output_mint_ata says.
Bonk_buy(r) ==
  IF r.amount = 0 THEN Refused
  ELSE Purchase([r EXCEPT !.create_in = @ /\ r.pool # "USD1"], r.amount, BuyExactIn(r))
Bonk_sell(r) ==
  IF r.amount = 0 THEN Refused
  ELSE Sale(r, r.close_out /\ r.pool # "USD1", SellExactIn(r))

RaydiumCpmm_buy(r) ==
  IF r.amount = 0 \/ ~Listed(r) THEN Refused ELSE Purchase(r, r.amount, BuyExactIn(r))
RaydiumCpmm_sell(r) ==
  IF r.amount = 0 \/ ~Listed(r) THEN Refused ELSE Sale(r, r.create_out, SellExactIn(r))

RaydiumAmmV4_buy(r) ==
  IF r.amount = 0 \/ ~Listed(r) THEN Refused ELSE Purchase(r, r.amount, BuyExactIn(r))
\* Mutated form: as Bonk's sale, it opens the account only if it closes it.
RaydiumAmmV4_sell_as_bonk(r) ==
  IF r.amount = 0 \/ ~Listed(r) THEN Refused ELSE Sale(r, r.close_out, SellExactIn(r))
RaydiumAmmV4_sell(r) ==
  IF r.amount = 0 \/ ~Listed(r) THEN Refused ELSE Sale(r, r.create_out, SellExactIn(r))

\* Meteora needs to be told the amount that comes out.  Its builder alone names
\* the account of the caller's token type, where the others take the pool's money.
OnAccountOf(token_type, r, swap) ==
  IF get_associated_token_address(token_type) = Cash(r) THEN swap ELSE Mismatch
MeteoraDammV2_buy(r) ==
  IF r.amount = 0 \/ ~Listed(r) \/ ~r.fixed THEN Refused
  ELSE Purchase(r, r.amount, OnAccountOf(r.token_type, r, BuyExactIn(r)))
MeteoraDammV2_sell(r) ==
  IF r.amount = 0 \/ ~Listed(r) \/ ~r.fixed THEN Refused
  ELSE Sale(r, r.create_out, OnAccountOf(r.token_type, r, SellExactIn(r)))

-----------------------------------------------------------------------------
(* The operations of the client.                                           *)
Supported(r) == r.blockhash /\ (r.token_type = "USD1" => r.dex = "Bonk") /\ r.params

buy(r) ==
  IF ~Supported(r) THEN Refused
  ELSE CASE r.dex = "PumpFun" -> PumpFun_buy(r)
         [] r.dex = "PumpSwap" -> PumpSwap_buy(r)
         [] r.dex = "Bonk" -> Bonk_buy(r)
         [] r.dex = "RaydiumCpmm" -> RaydiumCpmm_buy(r)
         [] r.dex = "RaydiumAmmV4" -> RaydiumAmmV4_buy(r)
         [] r.dex = "MeteoraDammV2" -> MeteoraDammV2_buy(r)

sell(r) ==
  IF ~Supported(r) THEN Refused
  ELSE CASE r.dex = "PumpFun" -> PumpFun_sell(r)
         [] r.dex = "PumpSwap" -> PumpSwap_sell(r)
         [] r.dex = "Bonk" -> Bonk_sell(r)
         [] r.dex = "RaydiumCpmm" -> RaydiumCpmm_sell(r)
         [] r.dex = "RaydiumAmmV4" -> RaydiumAmmV4_sell(r)
         [] r.dex = "MeteoraDammV2" -> MeteoraDammV2_sell(r)

\* A sale is of a share of what the caller found in its account.
sell_by_percent(r, percent) == [r EXCEPT !.amount = (@ * percent) \div 100]

Held(mint) == LET n == wallet.acct[get_associated_token_address(mint)] IN IF n = Absent THEN 0 ELSE n
Sized(r) == IF r.op # "sell" THEN r
            ELSE sell_by_percent([r EXCEPT !.amount = Held(r.mint)], r.percent)

\* What these do depends on a look at the wallet, which the node may not answer:
\* an account whose look fails is taken to be absent.
close_token_account(mint, answered) ==
  When(answered /\ Exists(wallet, <<mint, "ata">>), <<Close(<<mint, "ata">>)>>)
transfer_sol(n, answered) == When(n > 0 /\ answered /\ wallet.sol >= n, <<Out(n)>>)
unwrap(n, answered) ==
  IF answered /\ Exists(wallet, WsolSeed) THEN wrap_wsol_to_sol_without_create(n) ELSE wrap_wsol_to_sol(n)
claim_cashback_pumpfun == <<Claim(Native)>>
claim_cashback_pumpswap == create_associated_token_account("WSOL") \o <<Claim(WsolAta)>>

\* The transaction for a request, from what the caller sees of the wallet.
Build(r, answered) ==
  CASE r.op = "buy" -> buy(r)
    [] r.op = "sell" -> IF r.percent \in 1 .. 100 THEN sell(r) ELSE Refused
    [] r.op = "wrap_sol_to_wsol" -> handle_wsol(r.amount)
    [] r.op = "close_wsol" -> close_wsol
    [] r.op = "create_wsol_ata" -> create_wsol_ata
    [] r.op = "wrap_wsol_to_sol" -> unwrap(r.amount, answered)
    [] r.op = "claim_cashback_pumpfun" -> claim_cashback_pumpfun
    [] r.op = "claim_cashback_pumpswap" -> claim_cashback_pumpswap
    [] r.op = "transfer_sol" -> transfer_sol(r.amount, answered)
    [] r.op = "close_token_account" -> close_token_account(r.mint, answered)

\* A request after which wrapped SOL, or its account, is there on purpose.
KeepsWsol(r) ==
  \/ r.op \in {"wrap_sol_to_wsol", "create_wsol_ata", "claim_cashback_pumpswap"}
  \/ r.op = "buy" /\ r.create_in /\ ~r.close_in
  \/ r.op = "sell" /\ r.create_out /\ ~r.close_out

-----------------------------------------------------------------------------
Idle == [at |-> "idle"]

WalletInit ==
  /\ wallet \in InitialWallets /\ seed \in BOOLEAN
  /\ job = [c \in Callers |-> Idle] /\ calls = 0
  /\ wsolAsked = (wallet.acct[WsolAta] # Absent)

Call(c, request) ==
  /\ job[c].at # "sent" /\ calls < MaxCalls /\ calls' = calls + 1
  /\ \E answered \in BOOLEAN :
       LET r == Sized(request)
           tx == Build(r, answered)
       IN  IF tx = Refused THEN job' = [job EXCEPT ![c] = Idle] /\ UNCHANGED wsolAsked
           ELSE /\ job' = [job EXCEPT ![c] = [at |-> "sent", req |-> r, tx |-> tx]]
                /\ wsolAsked' = (wsolAsked \/ KeepsWsol(r))
  /\ UNCHANGED <<wallet, seed>>

Answer(c, result) == job' = [job EXCEPT ![c] = [at |-> result]]

Land(c) ==
  /\ job[c].at = "sent"
  /\ \E w \in Execute(job[c].tx, wallet) :
       IF w = Failed THEN Answer(c, "failed") /\ UNCHANGED wallet
                     ELSE Answer(c, "landed") /\ wallet' = w
  /\ UNCHANGED <<seed, calls, wsolAsked>>

\* The price has left the bounds of the swap, or the transaction expires.
Reject(c) ==
  /\ job[c].at = "sent" /\ Answer(c, "rejected")
  /\ UNCHANGED <<wallet, seed, calls, wsolAsked>>

WalletNext == \E c \in Callers : (\E r \in RequestsOf[c] : Call(c, r)) \/ Land(c) \/ Reject(c)

WalletSpec == WalletInit /\ [][WalletNext]_walletVars

-----------------------------------------------------------------------------
\* Meteora is told another money than the pool's.
Misnamed(r) == r.dex = "MeteoraDammV2" /\ r.token_type # r.pool
FailsNow(c, op) == job[c].at = "sent" /\ job[c].req.op = op /\ job'[c].at = "failed"

\* A purchase that opens the accounts it needs (the bot's always do, trading.rs:
\* 792) depends on nothing the other transactions of the wallet do to those
\* accounts: on a pool paid in SOL it fails for lack of SOL only, whatever token
\* type it names, except on Meteora, which must be told WSOL and not SOL; or,
\* with the seed option, when the token's account is already there: with a seed
\* the "idempotent" creation is none.
PurchaseExecutes ==
  [][\A c \in Callers : FailsNow(c, "buy") =>
       LET r == job[c].req IN
       r.pool = "WSOL" /\ r.create_out /\ (r.create_in \/ r.dex = "PumpFun") =>
         \/ wallet.sol < r.amount + (IF r.exact THEN 0 ELSE Slippage)
         \/ seed /\ Exists(wallet, Token(r))
         \/ Misnamed(r)]_walletVars

\* The same for a sale: it fails when the tokens it counted are gone, or when it
\* is to close the account and more have come in since, or on Meteora when it
\* names SOL where the pool pays in WSOL.  Bonk's sales also fail for want of the
\* account they did not open, and the sales of pools whose base is the money
\* sell another amount than they were told.
SaleExecutes ==
  [][\A c \in Callers : FailsNow(c, "sell") =>
       LET r == job[c].req IN
       r.pool = "WSOL" /\ r.money_is_quote /\ (r.create_out \/ r.dex = "PumpFun") =>
         \/ r.amount = 0 \/ Balance(wallet, Token(r)) < r.amount
         \/ r.close_in /\ Balance(wallet, Token(r)) > r.amount
         \/ r.dex = "Bonk" /\ ~r.close_out /\ ~Exists(wallet, WsolAta)
         \/ Misnamed(r)]_walletVars

\* Trades that are told to close what they open leave no wrapped SOL behind,
\* neither in the usual account nor in the one unwrapping uses in passing.
NoWsolLeft ==
  /\ ~wsolAsked => ~Exists(wallet, WsolAta)
  /\ wallet.acct[WsolSeed] <= 0
=============================================================================
