--------------------------- MODULE MCTradeWallet ---------------------------
(* A small instance of TradeWallet: one token, one caller who tries every DEX
   and flag, and one that trades as the bot does and manages its SOL. *)
EXTENDS TradeWallet

CONSTANTS mint, explorer, bot

Empty == [sol |-> 3, acct |-> [a \in {mint, "WSOL", "USDC", "USD1"} \X {"ata", "seed"} |-> Absent]]
Rich == [sol |-> 2, acct |-> [a \in {mint, "WSOL", "USDC", "USD1"} \X {"ata", "seed"} |->
           CASE a = <<"WSOL", "seed">> -> 0 [] a[1] \in {"WSOL", "USDC", "USD1"} -> 1 [] OTHER -> Absent]]
Start == {Empty, Rich}

Trade(op, dex, pool, quote, exact, flags) ==
  [op |-> op, dex |-> dex, pool |-> pool, mint |-> mint, amount |-> 1, percent |-> 100,
   token_type |-> pool, params |-> TRUE,
   money_is_quote |-> quote, exact |-> exact, fixed |-> TRUE, blockhash |-> TRUE,
   create_in |-> op = "buy" /\ "create" \in flags, create_out |-> "create" \in flags,
   close_in |-> "close" \in flags, close_out |-> op = "sell" /\ "close" \in flags]

Flags == SUBSET {"create", "close"}
Venues == {<<"PumpSwap", "WSOL", TRUE>>, <<"PumpSwap", "WSOL", FALSE>>, <<"PumpSwap", "USDC", TRUE>>,
           <<"PumpFun", "WSOL", TRUE>>, <<"Bonk", "WSOL", TRUE>>, <<"Bonk", "USD1", TRUE>>,
           <<"RaydiumCpmm", "USDC", TRUE>>, <<"RaydiumAmmV4", "WSOL", TRUE>>,
           <<"MeteoraDammV2", "WSOL", TRUE>>}
Trades == {Trade(op, v[1], v[2], v[3], TRUE, f) : op \in {"buy", "sell"}, v \in Venues, f \in Flags}
            \cup {Trade("buy", dex, "WSOL", TRUE, FALSE, f) : dex \in {"PumpSwap", "PumpFun"}, f \in Flags}
Usual == Trade("buy", "PumpSwap", "WSOL", TRUE, TRUE, {"create", "close"})
UsualSale == Trade("sell", "PumpSwap", "WSOL", TRUE, TRUE, {"create", "close"})
Unusual == {[Usual EXCEPT !.pool = "other"], [Usual EXCEPT !.token_type = "USD1"],
            [Usual EXCEPT !.blockhash = FALSE], [Usual EXCEPT !.params = FALSE],
            [Usual EXCEPT !.token_type = "SOL"], [UsualSale EXCEPT !.token_type = "SOL"],
            [Usual EXCEPT !.dex = "MeteoraDammV2", !.token_type = "SOL"],
            [UsualSale EXCEPT !.dex = "MeteoraDammV2", !.token_type = "SOL"], [Usual EXCEPT !.amount = 0],
            [Usual EXCEPT !.dex = "MeteoraDammV2", !.fixed = FALSE],
            [UsualSale EXCEPT !.percent = 101], [UsualSale EXCEPT !.percent = 50]}
Managing == {[op |-> op, amount |-> 1] : op \in
               {"wrap_sol_to_wsol", "close_wsol", "create_wsol_ata", "wrap_wsol_to_sol",
                "claim_cashback_pumpfun", "claim_cashback_pumpswap", "transfer_sol"}}
              \cup {[op |-> "close_token_account", mint |-> mint]}

Requests == [c \in {explorer, bot} |->
               IF c = explorer THEN Trades \cup Unusual ELSE {Usual, UsualSale} \cup Managing]
=============================================================================
