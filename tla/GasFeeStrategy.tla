---------------------------- MODULE GasFeeStrategy ----------------------------
(***************************************************************************)
(* GasFeeStrategy of the SDK: a map from (channel, trade type, kind) to a  *)
(* fee, shared by clones of one Arc.  Each rcu is atomic, but a call is a  *)
(* sequence of them: Writers interleave between the deletion of the other  *)
(* kinds and the insertion of their own, and execute_parallel takes its    *)
(* snapshot (get_strategies) at any point in between.                      *)
(***************************************************************************)
EXTENDS Integers, Sequences, FiniteSets

CONSTANTS
  SwqosTypes,      \* SwqosType::values() as a sequence
  DefaultType,     \* SwqosType::Default
  CuPrices, Tips,  \* what a GasFeeStrategyValue is made of
  Absent,          \* no entry
  Writers,         \* threads that hold a clone
  MinTip,          \* min_tip_sol() of the channels but Default
  MaxCalls         \* bound: calls that are made

Types == {SwqosTypes[i] : i \in DOMAIN SwqosTypes}
TradeTypes == {"Buy", "Sell"}
Kinds == {"Normal", "LowTipHighCuPrice", "HighTipLowCuPrice"}
Pairs == Types \X TradeTypes
Values == [cu_price: CuPrices, tip: Tips]

ASSUME GasFeeAssumption ==
  /\ SwqosTypes \in Seq(Types) /\ DefaultType \in Types
  /\ \A i, j \in DOMAIN SwqosTypes : SwqosTypes[i] = SwqosTypes[j] => i = j
  /\ CuPrices \subseteq Nat /\ Tips \subseteq Nat /\ 0 \in Tips
  /\ Absent \notin Values
  /\ MinTip \in Nat /\ MaxCalls \in Nat

VARIABLES
  strategies,   \* strategies[p][k]: the value of (p, k), or Absent
  todo,         \* todo[w]: the rcu steps left of the call of w
  calls,        \* calls made so far
  touched,      \* touched[w]: the pairs the call of w works on
  configured,   \* history: pairs with a strategy that no deletion was asked for
  contended     \* history: pairs that two calls worked on at once

feeVars == <<strategies, todo, calls, touched, configured, contended>>

NoStrategies == [p \in Pairs |-> [k \in Kinds |-> Absent]]
IsSet(s, p) == \E k \in Kinds : s[p][k] # Absent

(***************************************************************************)
(* Calls as sequences of rcu steps.                                        *)
(***************************************************************************)
Del(p, k)    == [op |-> "del", pair |-> p, kinds |-> {k}]
DelAll(p)    == [op |-> "del", pair |-> p, kinds |-> Kinds]
Put(p, k, v) == [op |-> "put", pair |-> p, kind |-> k, value |-> v]

\* Mutated form: the entries of the other kinds are deleted after the insertion.
set_late_del(p, k, v) ==
  IF k = "Normal"
  THEN <<Put(p, k, v), Del(p, "HighTipLowCuPrice"), Del(p, "LowTipHighCuPrice")>>
  ELSE <<Put(p, k, v), Del(p, "Normal")>>
\* Mutated form: a normal strategy leaves one of the high-low ones in place.
set_no_del(p, k, v) ==
  IF k = "Normal"
  THEN <<Del(p, "HighTipLowCuPrice"), Del(p, "HighTipLowCuPrice"), Put(p, k, v)>>
  ELSE <<Del(p, "Normal"), Put(p, k, v)>>

set(p, k, v) ==
  IF k = "Normal"
  THEN <<Del(p, "HighTipLowCuPrice"), Del(p, "LowTipHighCuPrice"), Put(p, k, v)>>
  ELSE <<Del(p, "Normal"), Put(p, k, v)>>

\* The steps for each of a sequence of types, one type after the other.
ForTypes(types, steps(_), n) ==
  [i \in 1..(n * Len(types)) |-> steps(types[((i - 1) \div n) + 1])[((i - 1) % n) + 1]]

NoTip(v) == [v EXCEPT !.tip = 0]

\* The types but Default, in their order: the loop passes over it.
OtherTypes ==
  LET d == CHOOSE i \in DOMAIN SwqosTypes : SwqosTypes[i] = DefaultType
  IN  SubSeq(SwqosTypes, 1, d - 1) \o SubSeq(SwqosTypes, d + 1, Len(SwqosTypes))

\* The Default channel comes last and gets no tip.
set_global_fee_strategy(buy, sell) ==
  LET Both(q) == set(<<q, "Buy">>, "Normal", buy) \o set(<<q, "Sell">>, "Normal", sell)
  IN  ForTypes(OtherTypes, Both, 6)
        \o set(<<DefaultType, "Buy">>, "Normal", NoTip(buy))
        \o set(<<DefaultType, "Sell">>, "Normal", NoTip(sell))

\* low and high stand for the fees with the low and with the high tip.
set_high_low_fee_strategies(types, trade, low, high) ==
  LET HighLow(q) == <<Del(<<q, trade>>, "Normal")>>
                      \o set(<<q, trade>>, "LowTipHighCuPrice", low)
                      \o set(<<q, trade>>, "HighTipLowCuPrice", high)
  IN  ForTypes(types, HighLow, 5)

\* Nothing for the Default channel, unlike its plural.
set_high_low_fee_strategy(q, trade, low, high) ==
  IF q = DefaultType THEN <<>> ELSE set_high_low_fee_strategies(<<q>>, trade, low, high)

set_normal_fee_strategies(types, buy, sell) ==
  LET Both(q) == <<DelAll(<<q, "Buy">>), DelAll(<<q, "Sell">>)>>
                   \o set(<<q, "Buy">>, "Normal", buy) \o set(<<q, "Sell">>, "Normal", sell)
  IN  ForTypes(types, Both, 8)

set_normal_fee_strategy(q, buy, sell) == set_normal_fee_strategies(<<q>>, buy, sell)

(***************************************************************************)
(* Actions.                                                                *)
(***************************************************************************)
FeeInit ==
  /\ strategies = NoStrategies /\ calls = 0 /\ configured = {} /\ contended = {}
  /\ todo = [w \in Writers |-> <<>>] /\ touched = [w \in Writers |-> {}]

PairsOf(steps) == {steps[i].pair : i \in DOMAIN steps}

\* A thread makes a call.
Call(w, steps) ==
  /\ todo[w] = <<>> /\ steps # <<>>
  /\ calls < MaxCalls /\ calls' = calls + 1
  /\ todo' = [todo EXCEPT ![w] = steps]
  /\ touched' = [touched EXCEPT ![w] = PairsOf(steps)]
  /\ contended' = contended \cup
       {p \in PairsOf(steps) : \E v \in Writers \ {w} : todo[v] # <<>> /\ p \in touched[v]}
  /\ UNCHANGED <<strategies, configured>>

\* One rcu of a call: the deletion of some kinds of a pair, or an insertion.
Rcu(w) ==
  /\ todo[w] # <<>>
  /\ LET step == Head(todo[w]) IN
       /\ strategies' = [strategies EXCEPT ![step.pair] =
            IF step.op = "del" THEN [k \in Kinds |-> IF k \in step.kinds THEN Absent ELSE @[k]]
            ELSE [@ EXCEPT ![step.kind] = step.value]]
       /\ configured' = IF step.op = "put" THEN configured \cup {step.pair} ELSE configured
  /\ todo' = [todo EXCEPT ![w] = Tail(@)]
  /\ touched' = [touched EXCEPT ![w] = IF Len(todo[w]) = 1 THEN {} ELSE @]
  /\ UNCHANGED <<calls, contended>>

\* A user asks for a deletion: del, del_all, or clear.
Remove(p, kinds) ==
  /\ calls < MaxCalls /\ calls' = calls + 1
  /\ strategies' = [strategies EXCEPT ![p] = [k \in Kinds |-> IF k \in kinds THEN Absent ELSE @[k]]]
  /\ configured' = IF IsSet(strategies', p) THEN configured ELSE configured \ {p}
  /\ UNCHANGED <<todo, touched, contended>>

clear ==
  /\ calls < MaxCalls /\ calls' = calls + 1
  /\ strategies' = NoStrategies /\ configured' = {}
  /\ UNCHANGED <<todo, touched, contended>>

\* update_buy_tip and the like: one rcu over every entry of a trade type.
Update(trade, field, x) ==
  /\ calls < MaxCalls /\ calls' = calls + 1
  /\ strategies' = [p \in Pairs |-> [k \in Kinds |->
       IF p[2] # trade \/ strategies[p][k] = Absent THEN strategies[p][k]
       ELSE [strategies[p][k] EXCEPT ![field] = x]]]
  /\ UNCHANGED <<todo, touched, configured, contended>>

Calls ==
  UNION {{set(p, k, v) : p \in Pairs, k \in Kinds, v \in Values},
         {set_global_fee_strategy(v, w) : v \in Values, w \in Values},
         {set_high_low_fee_strategies(SwqosTypes, t, v, w) : t \in TradeTypes, v \in Values, w \in Values},
         {set_high_low_fee_strategy(q, t, v, w) : q \in Types, t \in TradeTypes, v \in Values, w \in Values},
         {set_normal_fee_strategies(SwqosTypes, v, w) : v \in Values, w \in Values},
         {set_normal_fee_strategy(q, v, w) : q \in Types, v \in Values, w \in Values}}

FeeNext ==
  \/ \E w \in Writers : (\E steps \in Calls : Call(w, steps)) \/ Rcu(w)
  \/ \E p \in Pairs, kinds \in {{k} : k \in Kinds} \cup {Kinds} : Remove(p, kinds)
  \/ clear
  \/ \E trade \in TradeTypes, v \in Values :
       Update(trade, "tip", v.tip) \/ Update(trade, "cu_price", v.cu_price)

FeeSpec == FeeInit /\ [][FeeNext]_feeVars

(***************************************************************************)
(* What a swap sees.                                                       *)
(***************************************************************************)
get_strategies(trade) ==
  {c \in Types \X Kinds \X Values : c[3] = strategies[<<c[1], trade>>][c[2]]}

\* The (channel, fee) pairs execute_parallel sends, for clients of these types:
\* without a tip only Default, with one no channel whose tip is too small.
task_configs(clients, trade, with_tip, check_min_tip) ==
  {c \in get_strategies(trade) :
     /\ c[1] \in clients
     /\ ~with_tip => c[1] = DefaultType
     /\ with_tip /\ check_min_tip /\ c[1] # DefaultType => c[3].tip >= MinTip}

(***************************************************************************)
(* Properties.                                                             *)
(***************************************************************************)
\* A pair that was configured is without strategies only because somebody asked
\* for it, or in the middle of a call that is about to insert one: updates that
\* run into each other never leave a channel without a fee.
NeverUnset ==
  \A p \in configured : ~IsSet(strategies, p) =>
    \E w \in Writers : \E i \in DOMAIN todo[w] : todo[w][i].op = "put" /\ todo[w][i].pair = p

\* The kinds of the transactions a swap would send through a channel now.
SentKinds(q, trade) == {c[2] : c \in {t \in task_configs(Types, trade, TRUE, FALSE) : t[1] = q}}

\* gas_fee_strategy.rs:88 and 155: the normal strategy and the high-low ones of a
\* pair replace each other.  A swap that takes its snapshot at any point of any
\* call sends one normal transaction or the high-low ones through a channel, not
\* three, unless two calls worked on the same pair at once.
KindsExclusive ==
  \A p \in Pairs \ contended :
    "Normal" \in SentKinds(p[1], p[2]) => SentKinds(p[1], p[2]) = {"Normal"}
=============================================================================
