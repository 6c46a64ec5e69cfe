------------------------------ MODULE NodeStore ------------------------------
(***************************************************************************)
(* RedisStore of the Node.js bot as its reader sees it: lists of trade     *)
(* records that grow at the front by records of parsed transactions.  The  *)
(* reads the strategy decides on are operators.  NodeFeed shows that the   *)
(* subscriber's callbacks do nothing else to the lists.                    *)
(***************************************************************************)
EXTENDS Integers, Sequences

CONSTANTS
  Keys,            \* account keys an instruction may name
  Excluded,        \* keys extractMintFromAccountKeys passes over
  NodeSigs,        \* transaction signatures
  Tx,              \* Tx[s]: the transaction getTransaction finds for s
  Times,           \* values of Date.now()
  maxTradesPerToken

VARIABLE trades    \* trades[m]: the Redis list "trades:m", last inserted first

\* The tokens of the store: what extractMintFromAccountKeys can return.
Tokens == Keys \ Excluded

Instruction == [pumpswap: BOOLEAN, data: {"buy", "exact_in", "sell", "other"},
                a: Nat, b: Nat, accounts: Seq(Keys)]

ASSUME NodeStoreAssumption ==
  /\ Excluded \subseteq Keys
  /\ \A s \in NodeSigs : /\ DOMAIN Tx[s] = {"blockTime", "instructions"}
                         /\ Tx[s].blockTime \in Nat
                         /\ Tx[s].instructions \in Seq(Instruction)
  /\ Times \subseteq Nat /\ maxTradesPerToken \in Nat \ {0}

(***************************************************************************)
(* Parsing.                                                                *)
(***************************************************************************)

\* The amounts of an instruction: max_sol and min amounts count as traded.
parseInstructionData(ix) ==
  [isBuy |-> ix.data # "sell",
   token |-> IF ix.data = "exact_in" THEN ix.b ELSE ix.a,
   sol   |-> IF ix.data = "exact_in" THEN ix.a ELSE ix.b]

\* The first account that is not excluded; the set is empty when all are.
extractMintFromAccountKeys(accounts) ==
  {accounts[i] : i \in {j \in DOMAIN accounts :
     accounts[j] \notin Excluded /\ \A k \in 1..(j - 1) : accounts[k] \in Excluded}}

Usable(ix) ==
  ix.pumpswap /\ ix.data # "other" /\ extractMintFromAccountKeys(ix.accounts) # {}

\* The first usable instruction of a transaction decides; later swaps of the
\* same transaction are ignored.  A set, empty for null.
parseTransaction(tx) ==
  {[mint |-> CHOOSE m \in extractMintFromAccountKeys(tx.instructions[i].accounts) : TRUE,
    swap |-> parseInstructionData(tx.instructions[i])] :
      i \in {j \in DOMAIN tx.instructions :
               /\ Usable(tx.instructions[j])
               /\ \A k \in 1..(j - 1) : ~Usable(tx.instructions[k])}}

MintOf(s) == (CHOOSE p \in parseTransaction(Tx[s]) : TRUE).mint

\* (sol / token) / 1000, in thousandths of a SOL per token; 0 without tokens.
calculatePriceFromAmounts(sol, token) == IF token <= 0 THEN 0 ELSE sol \div token

createTradeRecord(s, time) ==
  LET p == CHOOSE p \in parseTransaction(Tx[s]) : TRUE
  IN  [price |-> calculatePriceFromAmounts(p.swap.sol, p.swap.token),
       blocktime |-> time, isBuy |-> p.swap.isBuy, signature |-> s]

(***************************************************************************)
(* Reads of RedisStore.                                                    *)
(***************************************************************************)
Prefix(s, n) == SubSeq(s, 1, IF n < Len(s) THEN n ELSE Len(s))

\* getRecentTrades before its sort, and the ends of that stable descending sort.
getRecentTrades(m, limit) == Prefix(trades[m], limit)
newestTrade(s) == s[CHOOSE i \in DOMAIN s : \A j \in DOMAIN s :
  s[j].blocktime < s[i].blocktime \/ (s[j].blocktime = s[i].blocktime /\ i <= j)]
oldestTrade(s) == s[CHOOSE i \in DOMAIN s : \A j \in DOMAIN s :
  s[j].blocktime > s[i].blocktime \/ (s[j].blocktime = s[i].blocktime /\ j <= i)]

\* A set, empty for null.  With a limit of 1 the sort has nothing to do: the
\* price is that of the last insertion.
getLatestPriceFromTrades(m) ==
  LET s == getRecentTrades(m, 1) IN IF s = <<>> THEN {} ELSE {newestTrade(s).price}

\* calculatePriceChangeFromRecords compared with a threshold; null is no rise.
priceRises(m, recordCount, thresholdPct) ==
  LET s == getRecentTrades(m, recordCount)
  IN  /\ Len(s) >= 2
      /\ oldestTrade(s).price # 0
      /\ (newestTrade(s).price - oldestTrade(s).price) * 100
           >= thresholdPct * oldestTrade(s).price

activeMints == {m \in Tokens : trades[m] # <<>>}

(***************************************************************************)
(* The lists.                                                              *)
(***************************************************************************)

\* The block time of a transaction, or the clock when it has none (0).
TimesOf(s) == IF Tx[s].blockTime = 0 THEN Times ELSE {Tx[s].blockTime}

\* LPUSH and LTRIM of storeTrade, those of them that are applied: the commands of
\* a pipeline fail one by one, and nobody looks at their errors.
Stored(list, record, applied) ==
  LET pushed == IF "lpush" \in applied THEN <<record>> \o list ELSE list
  IN  IF "ltrim" \in applied THEN Prefix(pushed, maxTradesPerToken) ELSE pushed

pushTrade(m, record, applied) ==
  trades' = [trades EXCEPT ![m] = Stored(@, record, applied)]

\* A transaction that parses is stored, or cuts the list at least.
StoreUpdate(s, time, applied) ==
  /\ parseTransaction(Tx[s]) # {} /\ time \in TimesOf(s)
  /\ pushTrade(MintOf(s), createTradeRecord(s, time), applied)

StoreInit == trades = [m \in Tokens |-> <<>>]
StoreNext == \E s \in NodeSigs : \E time \in TimesOf(s) :
  \E applied \in {{"lpush", "ltrim"}, {"lpush"}, {"ltrim"}} : StoreUpdate(s, time, applied)

\* What the bot may assume about the lists it reads: every record is made of a
\* transaction on the token it is listed under, and the list is cut, never edited.
StoreSpec == StoreInit /\ [][StoreNext]_trades
=============================================================================
