---------------------------- MODULE SdkClientProofs ----------------------------
(***************************************************************************)
(* Proofs about the client of the SDK.                                     *)
(*                                                                         *)
(* The wallet, for all tokens, callers, requests and slippages, and as     *)
(* many calls as one likes: trades that close what they open leave no      *)
(* wrapped SOL behind, and a trade that opens the accounts it needs fails  *)
(* for lack of funds, not for what other transactions did to those         *)
(* accounts.  What a transaction does is found instruction by instruction, *)
(* with a rule for one instruction and one for two parts in sequence.      *)
(*                                                                         *)
(* The start-up, for every set of wallets and every configuration, machine *)
(* and chain state to start in: a client is handed out only once the rents *)
(* and the channels are ready, and the process is aborted over a WSOL      *)
(* account only when that is explained.                                    *)
(***************************************************************************)
EXTENDS TradeWallet, SdkStartup, FiniteSetTheorems, SequenceTheorems, WellFoundedInduction, TLAPS

\* Induction: what is not true of all numbers has a least one of which it is not.
LEMMA LeastNatural ==
  ASSUME NEW S \in SUBSET Nat, S # {}
  PROVE  \E n \in S : \A m \in S : n <= m
<1>1. PICK n \in S : \A m \in S : <<m, n>> \notin OpToRel(<, Nat)
  BY WFMin, NatLessThanWellFounded, Zenon
<1>2. \A m \in S : ~(m < n)
  BY <1>1 DEF OpToRel
<1> QED  BY <1>2

(***************************************************************************)
(* What a transaction does, instruction by instruction.                    *)
(***************************************************************************)

\* What one more instruction makes of the wallets so far.
Onward(ws, i) == UNION {IF v = Failed THEN {Failed} ELSE Perform(i, v) : v \in ws}

\* f is After as far as the first n instructions.
Traces(f, n, tx, w) == f = [k \in 0..n |-> IF k = 0 THEN {w} ELSE Onward(f[k - 1], tx[k])]

\* A recursive function is the CHOOSE of its equation; there is one that solves it.
LEMMA TraceChosen ==
  ASSUME NEW tx, NEW w
  PROVE  After(tx, w) = CHOOSE f : Traces(f, Len(tx), tx, w)
  BY Zenon DEF After, Onward, Traces

LEMMA TraceExists ==
  ASSUME NEW tx, Len(tx) \in Nat, NEW w
  PROVE  \E f : Traces(f, Len(tx), tx, w)
<1> DEFINE Bad == {n \in Nat : ~\E f : Traces(f, n, tx, w)}
<1>1. ASSUME Bad # {} PROVE FALSE
  <2>1. PICK n \in Bad : \A m \in Bad : n <= m
    BY <1>1, LeastNatural, Zenon
  <2>2. n # 0
    <3> DEFINE f == [k \in 0..0 |-> {w}]
    <3>1. Traces(f, 0, tx, w)
      BY DEF Traces
    <3> QED  BY <3>1
  <2>3. n - 1 \in Nat /\ n - 1 \notin Bad
    BY <2>1, <2>2
  <2>4. PICK g : Traces(g, n - 1, tx, w)
    BY <2>3
  <2> DEFINE f == [k \in 0..n |-> IF k = n THEN Onward(g[n - 1], tx[n]) ELSE g[k]]
  <2>5. \A k \in 0 .. n - 1 : g[k] = IF k = 0 THEN {w} ELSE Onward(g[k - 1], tx[k])
    BY <2>4 DEF Traces
  <2>6. \A k \in 0..n : f[k] = IF k = 0 THEN {w} ELSE Onward(f[k - 1], tx[k])
    <3> SUFFICES ASSUME NEW k \in 0..n
                 PROVE  f[k] = IF k = 0 THEN {w} ELSE Onward(f[k - 1], tx[k])
      OBVIOUS
    <3>1. CASE k = n
      <4>1. f[k] = Onward(g[n - 1], tx[n]) /\ f[k - 1] = g[n - 1]
        BY <2>2, <2>3, <3>1
      <4> QED  BY <2>2, <3>1, <4>1
    <3>2. CASE k # n
      <4>1. k \in 0 .. n - 1 /\ f[k] = g[k] /\ (k # 0 => f[k - 1] = g[k - 1])
        BY <2>3, <3>2
      <4> QED  BY <2>5, <4>1
    <3> QED  BY <3>1, <3>2
  <2>7. Traces(f, n, tx, w)
    BY <2>6 DEF Traces
  <2> QED  BY <2>1, <2>7
<1> QED  BY <1>1

\* The recursive definition of After, as an equation.
LEMMA AfterEquation ==
  ASSUME NEW tx, Len(tx) \in Nat, NEW w
  PROVE  /\ After(tx, w)[0] = {w}
         /\ \A k \in 1 .. Len(tx) : After(tx, w)[k] = Onward(After(tx, w)[k - 1], tx[k])
<1>1. Traces(After(tx, w), Len(tx), tx, w)
  BY TraceChosen, TraceExists, Zenon
<1> DEFINE f == After(tx, w)
<1> HIDE DEF f
<1>2. \A k \in 0 .. Len(tx) : f[k] = IF k = 0 THEN {w} ELSE Onward(f[k - 1], tx[k])
  BY <1>1, Zenon DEF Traces, f
<1>3. 0 \in 0 .. Len(tx) /\ \A k \in 1 .. Len(tx) : k \in 0 .. Len(tx) /\ k # 0
  OBVIOUS
<1> QED  BY <1>2, <1>3, Zenon DEF f

\* The first part of a transaction does what it does by itself.
LEMMA FirstPart ==
  ASSUME NEW S, NEW s \in Seq(S), NEW t \in Seq(S), NEW w
  PROVE  \A n \in 0 .. Len(s) : After(s \o t, w)[n] = After(s, w)[n]
<1> DEFINE Bad == {n \in 0 .. Len(s) : After(s \o t, w)[n] # After(s, w)[n]}
<1>1. /\ Len(s) \in Nat /\ Len(t) \in Nat /\ Len(s \o t) = Len(s) + Len(t)
      /\ \A k \in 1 .. Len(s) : (s \o t)[k] = s[k]
  BY ConcatProperties
<1>2. ASSUME Bad # {} PROVE FALSE
  <2>1. PICK n \in Bad : \A m \in Bad : n <= m
    <3>1. Bad \in SUBSET Nat
      BY <1>1
    <3> HIDE DEF Bad
    <3> QED  BY <1>2, <3>1, LeastNatural, Zenon
  <2> DEFINE x == s \o t
  <2>2. /\ n \in 0 .. Len(s) /\ After(x, w)[n] # After(s, w)[n]
        /\ Len(s) \in Nat /\ Len(x) \in Nat /\ Len(s) <= Len(x)
    BY <1>1, <2>1
  <2>3. \A m \in 0 .. Len(s) : After(x, w)[m] = After(s, w)[m] \/ n <= m
    BY <2>1
  <2>4. \A k \in 1 .. Len(s) : x[k] = s[k]
    BY <1>1
  <2> HIDE DEF x, Bad
  <2>5. n # 0
    <3>1. After(x, w)[0] = {w}
      BY <2>2, AfterEquation
    <3>2. After(s, w)[0] = {w}
      BY <2>2, AfterEquation
    <3> QED  BY <2>2, <3>1, <3>2
  <2>6. n - 1 \in 0 .. Len(s) /\ n \in 1 .. Len(s) /\ n \in 1 .. Len(x) /\ ~(n <= n - 1)
    BY <2>2, <2>5
  <2>7. After(x, w)[n] = Onward(After(x, w)[n - 1], x[n])
    <3>1. \A k \in 1 .. Len(x) : After(x, w)[k] = Onward(After(x, w)[k - 1], x[k])
      BY <2>2, AfterEquation, Zenon
    <3> QED  BY <2>6, <3>1, Zenon
  <2>8. After(s, w)[n] = Onward(After(s, w)[n - 1], s[n])
    <3>1. \A k \in 1 .. Len(s) : After(s, w)[k] = Onward(After(s, w)[k - 1], s[k])
      BY <2>2, AfterEquation, Zenon
    <3> QED  BY <2>6, <3>1, Zenon
  <2> QED  BY <2>2, <2>3, <2>4, <2>6, <2>7, <2>8, Zenon
<1> QED  BY <1>2

\* The second part goes on from a wallet that the first part leaves.
LEMMA SecondPart ==
  ASSUME NEW S, NEW s \in Seq(S), NEW t \in Seq(S), NEW w
  PROVE  \A n \in 0 .. Len(t) : \A v \in After(s \o t, w)[Len(s) + n] :
           \E u \in Execute(s, w) : v \in After(t, u)[n]
<1> DEFINE P(n) == \A v \in After(s \o t, w)[Len(s) + n] :
                      \E u \in Execute(s, w) : v \in After(t, u)[n]
           Bad == {n \in 0 .. Len(t) : ~P(n)}
<1>1. /\ Len(s) \in Nat /\ Len(t) \in Nat /\ Len(s \o t) = Len(s) + Len(t)
      /\ \A k \in 1 .. Len(t) : (s \o t)[Len(s) + k] = t[k]
  <2>1. \A k \in 1 .. Len(t) : Len(s) + k \in 1 .. Len(s) + Len(t)
                               /\ ~(Len(s) + k <= Len(s)) /\ Len(s) + k - Len(s) = k
    OBVIOUS
  <2> QED  BY <2>1, ConcatProperties
<1>2. ASSUME Bad # {} PROVE FALSE
  <2>1. PICK n \in Bad : \A m \in Bad : n <= m
    <3>1. Bad \in SUBSET Nat
      BY <1>1
    <3> HIDE DEF Bad
    <3> QED  BY <1>2, <3>1, LeastNatural, Zenon
  <2> DEFINE x == s \o t
  <2>2. /\ n \in 0 .. Len(t) /\ ~P(n)
        /\ Len(s) \in Nat /\ Len(t) \in Nat /\ Len(x) = Len(s) + Len(t)
    BY <1>1, <2>1
  <2>3. \A m \in 0 .. Len(t) : P(m) \/ n <= m
    BY <2>1
  <2>4. \A k \in 1 .. Len(t) : x[Len(s) + k] = t[k]
    BY <1>1
  <2>5. After(x, w)[Len(s)] = Execute(s, w)
    <3>1. Len(s) \in 0 .. Len(s)
      BY <1>1
    <3>2. After(x, w)[Len(s)] = After(s, w)[Len(s)]
      BY <3>1, FirstPart
    <3> QED  BY <3>2 DEF Execute
  <2> HIDE DEF x, Bad
  <2>6. n # 0
    <3>1. \A u : After(t, u)[0] = {u}
      BY <2>2, AfterEquation
    <3>2. Len(s) + 0 = Len(s)
      BY <2>2
    <3>3. P(0)
      BY <2>5, <3>1, <3>2 DEF x
    <3> QED  BY <2>2, <3>3
  <2>7. /\ n - 1 \in 0 .. Len(t) /\ n \in 1 .. Len(t) /\ ~(n <= n - 1)
        /\ Len(s) + n \in 1 .. Len(x) /\ (Len(s) + n) - 1 = Len(s) + (n - 1) /\ Len(x) \in Nat
    <3>1. n \in Nat /\ n <= Len(t) /\ n > 0
      BY <2>2, <2>6
    <3> QED  BY <2>2, <3>1
  <2>8. P(n - 1)
    BY <2>3, <2>7, Zenon
  <2>9. After(x, w)[Len(s) + n] = Onward(After(x, w)[Len(s) + (n - 1)], t[n])
    <3>1. \A k \in 1 .. Len(x) : After(x, w)[k] = Onward(After(x, w)[k - 1], x[k])
      BY <2>7, AfterEquation, Zenon
    <3>2. After(x, w)[Len(s) + n] = Onward(After(x, w)[(Len(s) + n) - 1], x[Len(s) + n])
      BY <2>7, <3>1, Zenon
    <3> QED  BY <2>4, <2>7, <3>2, Zenon
  <2>10. \A u : After(t, u)[n] = Onward(After(t, u)[n - 1], t[n])
    <3>1. \A u : \A k \in 1 .. Len(t) : After(t, u)[k] = Onward(After(t, u)[k - 1], t[k])
      BY <2>2, AfterEquation, Zenon
    <3> QED  BY <2>7, <3>1, Zenon
  <2>11. P(n)
    <3> SUFFICES ASSUME NEW v \in After(x, w)[Len(s) + n]
                 PROVE  \E u \in Execute(s, w) : v \in After(t, u)[n]
      BY DEF x
    <3>1. PICK y \in After(x, w)[Len(s) + (n - 1)] :
            v \in IF y = Failed THEN {Failed} ELSE Perform(t[n], y)
      BY <2>9, Zenon DEF Onward
    <3>2. PICK u \in Execute(s, w) : y \in After(t, u)[n - 1]
      BY <2>8, <3>1, Zenon DEF x
    <3>3. v \in Onward(After(t, u)[n - 1], t[n])
      BY <3>1, <3>2, Zenon DEF Onward
    <3> QED  BY <2>10, <3>2, <3>3, Zenon
  <2> QED  BY <2>2, <2>11
<1> QED  BY <1>2

\* From any wallet in A, a transaction leaves one in B.
Achieves(tx, A, B) == \A w \in A : Execute(tx, w) \subseteq B

LEMMA EmptyAchieves ==
  ASSUME NEW A
  PROVE  Achieves(<<>>, A, A)
<1>1. Len(<<>>) = 0
  OBVIOUS
<1>2. \A w : After(<<>>, w)[0] = {w}
  BY <1>1, AfterEquation
<1> QED  BY <1>1, <1>2 DEF Achieves, Execute

LEMMA OneAchieves ==
  ASSUME NEW i, NEW A, NEW B,
         \A w \in A : IF w = Failed THEN Failed \in B ELSE Perform(i, w) \subseteq B
  PROVE  Achieves(<<i>>, A, B)
<1>1. Len(<<i>>) = 1 /\ <<i>>[1] = i
  OBVIOUS
<1>2. ASSUME NEW w \in A PROVE Execute(<<i>>, w) \subseteq B
  <2>1. After(<<i>>, w)[0] = {w}
    BY <1>1, AfterEquation
  <2>2. After(<<i>>, w)[1] = Onward(After(<<i>>, w)[1 - 1], <<i>>[1])
    BY <1>1, AfterEquation
  <2>3. 1 - 1 = 0
    OBVIOUS
  <2>4. Execute(<<i>>, w) = Onward({w}, i)
    BY <1>1, <2>1, <2>2, <2>3 DEF Execute
  <2> QED  BY <1>2, <2>4 DEF Onward
<1> QED  BY <1>2 DEF Achieves

LEMMA BothAchieve ==
  ASSUME NEW S, NEW s \in Seq(S), NEW t \in Seq(S), NEW A, NEW B, NEW C,
         Achieves(s, A, B), Achieves(t, B, C)
  PROVE  Achieves(s \o t, A, C)
<1> SUFFICES ASSUME NEW w \in A, NEW v \in Execute(s \o t, w) PROVE v \in C
  BY DEF Achieves
<1>1. Len(t) \in 0 .. Len(t) /\ Len(s \o t) = Len(s) + Len(t)
  BY ConcatProperties
<1>2. v \in After(s \o t, w)[Len(s) + Len(t)]
  BY <1>1 DEF Execute
<1>3. PICK u \in Execute(s, w) : v \in After(t, u)[Len(t)]
  BY <1>1, <1>2, SecondPart, Zenon
<1> QED  BY <1>3 DEF Achieves, Execute

(***************************************************************************)
(* What each instruction does.                                             *)
(***************************************************************************)
Same(v, w, S) == \A b \in Accounts \ S : v.acct[b] = w.acct[b]

\* Wallets.
LEMMA WalletTyped ==
  ASSUME NEW w \in WalletState
  PROVE  w.sol \in Nat /\ w # Failed /\ \A a \in Accounts : w.acct[a] \in Nat \cup {-1}
  BY TradeWalletAssumption DEF WalletState, Absent

LEMMA NativeApart == Native \notin Accounts
  BY DEF Native, Accounts

LEMMA BalanceAt ==
  ASSUME NEW w \in WalletState
  PROVE  /\ Balance(w, Native) = w.sol /\ Exists(w, Native)
         /\ \A a \in Accounts : Balance(w, a) = w.acct[a] /\ (Exists(w, a) <=> w.acct[a] >= 0)
  BY WalletTyped, NativeApart DEF Balance, Exists, Absent

LEMMA WsolAccounts == WsolAta \in Accounts /\ WsolSeed \in Accounts /\ WsolAta # WsolSeed
  BY DEF Accounts, Money, WsolAta, WsolSeed

\* A wallet with one account changed.
LEMMA SetAccount ==
  ASSUME NEW w \in WalletState, NEW a \in Accounts, NEW n \in Nat \cup {-1}
  PROVE  LET v == [w EXCEPT !.acct[a] = n]
         IN  v \in WalletState /\ v.sol = w.sol /\ v.acct[a] = n /\ Same(v, w, {a})
  BY DEF WalletState, Same, Absent

LEMMA CreateEffect ==
  ASSUME NEW w \in WalletState, NEW a \in Accounts, NEW v \in Perform(Create(a), w)
  PROVE  /\ v \in WalletState /\ v.sol = w.sol /\ Same(v, w, {a}) /\ v.acct[a] >= 0
         /\ w.acct[a] >= 0 => v.acct[a] = w.acct[a]
<1>1. v = IF Exists(w, a) THEN w ELSE [w EXCEPT !.acct[a] = 0]
  BY DEF Perform, Create
<1>2. CASE Exists(w, a)
  BY <1>1, <1>2, BalanceAt DEF Same
<1>3. CASE ~Exists(w, a)
  <2>1. v = [w EXCEPT !.acct[a] = 0]
    BY <1>1, <1>3
  <2>2. v \in WalletState /\ v.sol = w.sol /\ v.acct[a] = 0 /\ Same(v, w, {a})
    BY <2>1, SetAccount
  <2> QED  BY <1>3, <2>2, BalanceAt
<1> QED  BY <1>2, <1>3

LEMMA CreateNewEffect ==
  ASSUME NEW w \in WalletState, NEW a \in Accounts, NEW v \in Perform(CreateNew(a), w)
  PROVE  \/ v = Failed /\ w.acct[a] >= 0
         \/ v \in WalletState /\ v.sol = w.sol /\ Same(v, w, {a}) /\ v.acct[a] = 0 /\ w.acct[a] < 0
<1>1. v = IF Exists(w, a) THEN Failed ELSE [w EXCEPT !.acct[a] = 0]
  BY DEF Perform, CreateNew
<1>2. CASE Exists(w, a)
  BY <1>1, <1>2, BalanceAt
<1>3. CASE ~Exists(w, a)
  <2>1. v = [w EXCEPT !.acct[a] = 0]
    BY <1>1, <1>3
  <2>2. v \in WalletState /\ v.sol = w.sol /\ v.acct[a] = 0 /\ Same(v, w, {a})
    BY <2>1, SetAccount
  <2>3. w.acct[a] < 0
    BY <1>3, BalanceAt, WalletTyped
  <2> QED  BY <2>2, <2>3
<1> QED  BY <1>2, <1>3

LEMMA CloseEffect ==
  ASSUME NEW w \in WalletState, NEW a \in Accounts, NEW v \in Perform(Close(a), w)
  PROVE  \/ v = Failed /\ (w.acct[a] < 0 \/ (a[1] # "WSOL" /\ w.acct[a] # 0))
         \/ v \in WalletState /\ Same(v, w, {a}) /\ v.acct[a] = -1
<1>1. v = IF Exists(w, a) /\ (a[1] = "WSOL" \/ w.acct[a] = 0)
          THEN [sol |-> w.sol + w.acct[a], acct |-> [w.acct EXCEPT ![a] = Absent]] ELSE Failed
  BY DEF Perform, Close
<1>2. CASE Exists(w, a) /\ (a[1] = "WSOL" \/ w.acct[a] = 0)
  <2>1. v = [sol |-> w.sol + w.acct[a], acct |-> [w.acct EXCEPT ![a] = Absent]]
    BY <1>1, <1>2
  <2>2. w.sol + w.acct[a] \in Nat
    BY <1>2, BalanceAt, WalletTyped
  <2>3. [w.acct EXCEPT ![a] = Absent] \in [Accounts -> Nat \cup {Absent}]
    BY DEF WalletState
  <2>4. v \in WalletState
    BY <2>1, <2>2, <2>3 DEF WalletState
  <2>5. Same(v, w, {a}) /\ v.acct[a] = -1
    BY <2>1 DEF WalletState, Same, Absent
  <2> QED  BY <2>4, <2>5
<1>3. CASE ~(Exists(w, a) /\ (a[1] = "WSOL" \/ w.acct[a] = 0))
  BY <1>1, <1>3, BalanceAt, WalletTyped
<1> QED  BY <1>2, <1>3

\* What is credited, a purchase or a payment, in SOL or tokens.
LEMMA CreditEffect ==
  ASSUME NEW w \in WalletState, NEW a \in Accounts \cup {Native}, NEW n \in Int,
         Exists(w, a), Balance(w, a) + n >= 0
  PROVE  LET v == Credit(w, a, n)
         IN  /\ v \in WalletState /\ Same(v, w, {a})
             /\ v.sol = IF a = Native THEN w.sol + n ELSE w.sol
             /\ a # Native => v.acct[a] = w.acct[a] + n
<1>1. CASE a = Native
  <2>1. w.sol + n \in Nat
    BY <1>1, BalanceAt, WalletTyped
  <2>2. Credit(w, a, n) = [w EXCEPT !.sol = w.sol + n]
    BY <1>1 DEF Credit
  <2> QED  BY <1>1, <2>1, <2>2 DEF WalletState, Same
<1>2. CASE a # Native
  <2>1. a \in Accounts /\ w.acct[a] + n \in Nat
    BY <1>2, BalanceAt, WalletTyped
  <2>2. Credit(w, a, n) = [w EXCEPT !.acct[a] = w.acct[a] + n]
    BY <1>2, <2>1 DEF Credit, WalletState
  <2> DEFINE v == [w EXCEPT !.acct[a] = w.acct[a] + n]
  <2>3. v \in WalletState /\ v.sol = w.sol /\ v.acct[a] = w.acct[a] + n /\ Same(v, w, {a})
    BY <2>1, SetAccount
  <2> HIDE DEF v
  <2> QED  BY <1>2, <2>2, <2>3 DEF v
<1> QED  BY <1>1, <1>2

Places == Accounts \cup {Native}

\* v is w after n has gone from one place to another.
Transferred(v, w, from, to, n) ==
  /\ v \in WalletState /\ Same(v, w, {from, to})
  /\ from # Native => v.acct[from] = w.acct[from] - n
  /\ to # Native => v.acct[to] = w.acct[to] + n

LEMMA TransferEffect ==
  ASSUME NEW w \in WalletState, NEW from \in Places, NEW to \in Places, from # to,
         NEW n \in Nat, Exists(w, from), n <= Balance(w, from), Exists(w, to)
  PROVE  Transferred(Credit(Credit(w, from, -n), to, n), w, from, to, n)
<1> DEFINE u == Credit(w, from, -n)
           v == Credit(u, to, n)
<1>1. Balance(w, from) \in Int /\ Balance(w, to) \in Int /\ Balance(w, to) >= 0
  BY BalanceAt, WalletTyped DEF Places
<1>2. /\ u \in WalletState /\ Same(u, w, {from})
      /\ u.sol = IF from = Native THEN w.sol - n ELSE w.sol
      /\ from # Native => u.acct[from] = w.acct[from] - n
  <2>1. -n \in Int /\ Balance(w, from) + (-n) >= 0 /\ w.sol + (-n) = w.sol - n
        /\ (from # Native => w.acct[from] + (-n) = w.acct[from] - n)
    BY <1>1, WalletTyped DEF Places
  <2> QED  BY <2>1, CreditEffect DEF Places
<1> HIDE DEF u
<1>3. Exists(u, to) /\ Balance(u, to) + n >= 0
  BY <1>1, <1>2, BalanceAt, WalletTyped DEF Places, Same
<1>4. /\ v \in WalletState /\ Same(v, u, {to})
      /\ to # Native => v.acct[to] = u.acct[to] + n
  BY <1>2, <1>3, CreditEffect DEF Places
<1> HIDE DEF v
<1>5. Same(v, w, {from, to})
  BY <1>2, <1>4 DEF Same
<1>6. from # Native => v.acct[from] = w.acct[from] - n
  BY <1>2, <1>4 DEF Same, Places
<1>7. to # Native => v.acct[to] = w.acct[to] + n
  BY <1>2, <1>4 DEF Same, Places
<1>8. Transferred(v, w, from, to, n)
  BY <1>4, <1>5, <1>6, <1>7 DEF Transferred
<1> QED  BY <1>8 DEF u, v

Swap(from, to, min, max) == [op |-> "swap", from |-> from, to |-> to, min |-> min, max |-> max]

LEMMA SwapEffect ==
  ASSUME NEW w \in WalletState, NEW from \in Places, NEW to \in Places, from # to,
         NEW min \in Nat, NEW max \in Nat, NEW v \in Perform(Swap(from, to, min, max), w)
  PROVE  \E n \in min .. max :
           \/ v = Failed /\ ~(0 < n /\ n <= Balance(w, from) /\ Exists(w, to))
           \/ /\ 0 < n /\ n <= Balance(w, from) /\ Exists(w, to)
              /\ Transferred(v, w, from, to, n)
<1>1. PICK n \in min .. max :
        v = IF 0 < n /\ n <= Balance(w, from) /\ Exists(w, to)
            THEN Credit(Credit(w, from, -n), to, n) ELSE Failed
  BY DEF Perform, Swap
<1>2. CASE 0 < n /\ n <= Balance(w, from) /\ Exists(w, to)
  <2>1. n \in Nat /\ Exists(w, from)
    BY <1>2, BalanceAt, WalletTyped DEF Places, Exists, Absent
  <2>2. Transferred(Credit(Credit(w, from, -n), to, n), w, from, to, n)
    BY <1>2, <2>1, TransferEffect
  <2> QED  BY <1>1, <1>2, <2>2
<1> QED  BY <1>1, <1>2

LEMMA WrapEffect ==
  ASSUME NEW w \in WalletState, NEW n \in Nat, NEW v \in Perform(Wrap(n), w)
  PROVE  \/ v = Failed /\ ~(w.acct[WsolAta] >= 0 /\ n <= w.sol)
         \/ w.acct[WsolAta] >= 0 /\ Transferred(v, w, Native, WsolAta, n)
<1>1. v = IF Exists(w, WsolAta) /\ n <= w.sol
          THEN Credit(Credit(w, Native, -n), WsolAta, n) ELSE Failed
  BY DEF Perform, Wrap
<1>2. CASE Exists(w, WsolAta) /\ n <= w.sol
  <2>1. Transferred(Credit(Credit(w, Native, -n), WsolAta, n), w, Native, WsolAta, n)
    BY <1>2, TransferEffect, BalanceAt, WsolAccounts, NativeApart DEF Places
  <2> QED  BY <1>1, <1>2, <2>1, BalanceAt, WsolAccounts
<1> QED  BY <1>1, <1>2, BalanceAt, WsolAccounts

LEMMA OutEffect ==
  ASSUME NEW w \in WalletState, NEW n \in Nat, NEW v \in Perform(Out(n), w)
  PROVE  v = Failed \/ (v \in WalletState /\ Same(v, w, {}))
<1>1. v = IF n <= w.sol THEN Credit(w, Native, -n) ELSE Failed
  BY DEF Perform, Out
<1>2. CASE n <= w.sol
  <2>1. -n \in Int /\ Balance(w, Native) + (-n) >= 0 /\ Exists(w, Native)
    BY <1>2, BalanceAt, WalletTyped
  <2>2. Credit(w, Native, -n) \in WalletState /\ Same(Credit(w, Native, -n), w, {Native})
    BY <2>1, CreditEffect
  <2> QED  BY <1>1, <1>2, <2>2, NativeApart DEF Same
<1> QED  BY <1>1, <1>2

LEMMA ClaimEffect ==
  ASSUME NEW w \in WalletState, NEW a \in Places, NEW v \in Perform(Claim(a), w)
  PROVE  v = Failed \/ (v \in WalletState /\ Same(v, w, {a}) /\ Exists(w, a))
<1>1. v = IF Exists(w, a) THEN Credit(w, a, 1) ELSE Failed
  BY DEF Perform, Claim
<1>2. CASE Exists(w, a)
  <2>1. Balance(w, a) + 1 >= 0
    BY BalanceAt, WalletTyped DEF Places
  <2>2. Credit(w, a, 1) \in WalletState /\ Same(Credit(w, a, 1), w, {a})
    BY <1>2, <2>1, CreditEffect DEF Places
  <2> QED  BY <1>1, <1>2, <2>2
<1> QED  BY <1>1, <1>2

(***************************************************************************)
(* Transactions that keep an account at or below a level: -1 for none, 0   *)
(* for empty, 1 for whatever it may be.                                    *)
(***************************************************************************)
Instr ==
  [op : {"create", "createNew", "close", "claim"}, at : Places]
    \cup [op : {"wrap", "out"}, n : Nat]
    \cup [op : {"swap"}, from : Places, to : Places, min : Nat, max : Nat]
    \cup [op : {"mismatch"}]

Within(a, m) == {w \in WalletState : m = 1 \/ w.acct[a] <= m} \cup {Failed}
Kept(tx, a, m) == tx \in Seq(Instr) /\ Achieves(tx, Within(a, m), Within(a, m))

LEMMA KeptBoth ==
  ASSUME NEW a, NEW m, NEW s, NEW t, Kept(s, a, m), Kept(t, a, m)
  PROVE  Kept(s \o t, a, m)
<1>1. s \in Seq(Instr) /\ t \in Seq(Instr)
  BY DEF Kept
<1>2. s \o t \in Seq(Instr)
  BY <1>1, ConcatProperties
<1>3. Achieves(s \o t, Within(a, m), Within(a, m))
  BY <1>1, BothAchieve DEF Kept
<1> QED  BY <1>2, <1>3 DEF Kept

LEMMA KeptWhen ==
  ASSUME NEW a, NEW m, NEW condition \in BOOLEAN, NEW s, condition => Kept(s, a, m)
  PROVE  Kept(When(condition, s), a, m)
<1>1. <<>> \in Seq(Instr)
  OBVIOUS
<1>2. Kept(<<>>, a, m)
  BY <1>1, EmptyAchieves DEF Kept
<1> QED  BY <1>2 DEF When

LEMMA KeptOne ==
  ASSUME NEW a, NEW m, NEW i \in Instr,
         \A w \in WalletState : (m = 1 \/ w.acct[a] <= m) =>
           \A v \in Perform(i, w) : v = Failed \/ (v \in WalletState /\ (m = 1 \/ v.acct[a] <= m))
  PROVE  Kept(<<i>>, a, m)
<1>1. <<i>> \in Seq(Instr)
  OBVIOUS
<1>2. \A w \in Within(a, m) : IF w = Failed THEN Failed \in Within(a, m)
                              ELSE Perform(i, w) \subseteq Within(a, m)
  BY DEF Within
<1>3. Achieves(<<i>>, Within(a, m), Within(a, m))
  BY <1>2, OneAchieves
<1> QED  BY <1>1, <1>3 DEF Kept

LEMMA KeptCreate ==
  ASSUME NEW a \in Accounts, NEW m \in {-1, 0, 1}, NEW b \in Accounts, a # b \/ m = 1
  PROVE  Kept(<<Create(b)>>, a, m)
<1>1. Create(b) \in Instr
  BY DEF Create, Instr, Places
<1>2. ASSUME NEW w \in WalletState, m = 1 \/ w.acct[a] <= m, NEW v \in Perform(Create(b), w)
      PROVE  v \in WalletState /\ (m = 1 \/ v.acct[a] <= m)
  BY <1>2, CreateEffect DEF Same
<1> QED  BY <1>1, <1>2, KeptOne

LEMMA KeptCreateNew ==
  ASSUME NEW a \in Accounts, NEW m \in {-1, 0, 1}, NEW b \in Accounts, a # b \/ m # -1
  PROVE  Kept(<<CreateNew(b)>>, a, m)
<1>1. CreateNew(b) \in Instr
  BY DEF CreateNew, Instr, Places
<1>2. ASSUME NEW w \in WalletState, m = 1 \/ w.acct[a] <= m, NEW v \in Perform(CreateNew(b), w)
      PROVE  v = Failed \/ (v \in WalletState /\ (m = 1 \/ v.acct[a] <= m))
  BY <1>2, CreateNewEffect DEF Same
<1> QED  BY <1>1, <1>2, KeptOne

LEMMA KeptWrap ==
  ASSUME NEW a \in Accounts, NEW m \in {-1, 0, 1}, NEW n \in Nat, a # WsolAta \/ m # 0
  PROVE  Kept(<<Wrap(n)>>, a, m)
<1>1. Wrap(n) \in Instr
  BY DEF Wrap, Instr
<1>2. ASSUME NEW w \in WalletState, m = 1 \/ w.acct[a] <= m, NEW v \in Perform(Wrap(n), w)
      PROVE  v = Failed \/ (v \in WalletState /\ (m = 1 \/ v.acct[a] <= m))
  <2>1. \/ v = Failed
        \/ /\ w.acct[WsolAta] >= 0 /\ v \in WalletState /\ Same(v, w, {Native, WsolAta})
    BY <1>2, WrapEffect DEF Transferred
  <2>2. a # Native
    BY NativeApart
  <2>3. CASE a = WsolAta
    <3>1. w.acct[a] \in Int
      BY WalletTyped
    <3>2. m \in {-1, 1}
      BY <2>3
    <3>3. v # Failed => w.acct[a] >= 0 /\ v \in WalletState
      BY <2>1, <2>3
    <3> QED  BY <1>2, <3>1, <3>2, <3>3
  <2>4. CASE a # WsolAta
    BY <1>2, <2>1, <2>2, <2>4 DEF Same
  <2> QED  BY <2>3, <2>4
<1> QED  BY <1>1, <1>2, KeptOne

LEMMA KeptSwap ==
  ASSUME NEW a \in Accounts, NEW m \in {-1, 0, 1}, NEW from \in Places, NEW to \in Places,
         from # to, NEW min \in Nat, NEW max \in Nat, a # to \/ m # 0
  PROVE  Kept(<<Swap(from, to, min, max)>>, a, m)
<1>1. Swap(from, to, min, max) \in Instr
  BY DEF Swap, Instr
<1>2. ASSUME NEW w \in WalletState, m = 1 \/ w.acct[a] <= m,
             NEW v \in Perform(Swap(from, to, min, max), w), v # Failed
      PROVE  v \in WalletState /\ (m = 1 \/ v.acct[a] <= m)
  <2>1. PICK n \in min .. max : /\ 0 < n /\ n <= Balance(w, from) /\ Exists(w, to)
                                /\ Transferred(v, w, from, to, n)
    BY <1>2, SwapEffect
  <2>2. v \in WalletState /\ a # Native
    BY <2>1, NativeApart DEF Transferred
  <2>3. CASE m = 1
    BY <2>2, <2>3
  <2>4. CASE a \notin {from, to}
    BY <1>2, <2>1, <2>2, <2>4 DEF Transferred, Same
  <2> HIDE DEF Transferred, Same
  <2>5. CASE m # 1 /\ a = from
    <3>1. n <= w.acct[a] /\ n \in Int /\ 0 < n
      BY <2>1, <2>5, BalanceAt
    <3>2. w.acct[a] \in Int /\ w.acct[a] <= m /\ m <= 0
      BY <1>2, <2>5, WalletTyped
    <3> QED  BY <3>1, <3>2
  <2>6. CASE m = -1 /\ a = to
    <3>1. w.acct[a] >= 0
      BY <2>1, <2>6, BalanceAt
    <3>2. w.acct[a] \in Int /\ w.acct[a] <= -1
      BY <1>2, <2>6, WalletTyped
    <3> QED  BY <3>1, <3>2
  <2> QED  BY <2>3, <2>4, <2>5, <2>6
<1> QED  BY <1>1, <1>2, KeptOne

LEMMA KeptClose ==
  ASSUME NEW a \in Accounts, NEW m \in {-1, 0, 1}, NEW b \in Accounts
  PROVE  Kept(<<Close(b)>>, a, m)
<1>1. Close(b) \in Instr
  BY DEF Close, Instr, Places
<1>2. ASSUME NEW w \in WalletState, m = 1 \/ w.acct[a] <= m, NEW v \in Perform(Close(b), w)
      PROVE  v = Failed \/ (v \in WalletState /\ (m = 1 \/ v.acct[a] <= m))
  BY <1>2, CloseEffect DEF Same
<1> QED  BY <1>1, <1>2, KeptOne

LEMMA KeptOut ==
  ASSUME NEW a \in Accounts, NEW m \in {-1, 0, 1}, NEW n \in Nat
  PROVE  Kept(<<Out(n)>>, a, m)
<1>1. Out(n) \in Instr
  BY DEF Out, Instr
<1>2. ASSUME NEW w \in WalletState, m = 1 \/ w.acct[a] <= m, NEW v \in Perform(Out(n), w)
      PROVE  v = Failed \/ (v \in WalletState /\ (m = 1 \/ v.acct[a] <= m))
  BY <1>2, OutEffect DEF Same
<1> QED  BY <1>1, <1>2, KeptOne

LEMMA KeptClaim ==
  ASSUME NEW a \in Accounts, NEW m \in {-1, 0, 1}, NEW b \in Places, a # b \/ m # 0
  PROVE  Kept(<<Claim(b)>>, a, m)
<1>1. Claim(b) \in Instr
  BY DEF Claim, Instr
<1>2. ASSUME NEW w \in WalletState, m = 1 \/ w.acct[a] <= m, NEW v \in Perform(Claim(b), w)
      PROVE  v = Failed \/ (v \in WalletState /\ (m = 1 \/ v.acct[a] <= m))
  <2>1. v = Failed \/ (v \in WalletState /\ Same(v, w, {b}) /\ Exists(w, b))
    BY <1>2, ClaimEffect
  <2>2. CASE a = b
    <3>1. v # Failed => w.acct[a] >= 0
      BY <2>1, <2>2, BalanceAt, WalletTyped
    <3>2. w.acct[a] \in Int
      BY WalletTyped
    <3> QED  BY <1>2, <2>1, <2>2, <3>1, <3>2
  <2>3. CASE a # b
    BY <1>2, <2>1, <2>3 DEF Same
  <2> QED  BY <2>2, <2>3
<1> QED  BY <1>1, <1>2, KeptOne

\* What closes an account at its end leaves none, whatever it did before.
LEMMA KeptClosed ==
  ASSUME NEW a \in Accounts, NEW m \in {-1, 0, 1}, NEW s, Kept(s, a, 1)
  PROVE  Kept(s \o <<Close(a)>>, a, m)
<1>1. Close(a) \in Instr /\ <<Close(a)>> \in Seq(Instr) /\ s \in Seq(Instr)
  BY DEF Close, Instr, Places, Kept
<1>2. Achieves(s, Within(a, m), Within(a, 1))
  BY DEF Kept, Achieves, Within
<1>3. Achieves(<<Close(a)>>, Within(a, 1), Within(a, m))
  <2>1. ASSUME NEW w \in WalletState, NEW v \in Perform(Close(a), w)
        PROVE  v \in Within(a, m)
    <3>1. v = Failed \/ (v \in WalletState /\ v.acct[a] = -1)
      BY <2>1, CloseEffect
    <3> QED  BY <3>1 DEF Within
  <2>2. \A w \in Within(a, 1) : IF w = Failed THEN Failed \in Within(a, m)
                                ELSE Perform(Close(a), w) \subseteq Within(a, m)
    BY <2>1 DEF Within
  <2> QED  BY <2>2, OneAchieves
<1>4. Achieves(s \o <<Close(a)>>, Within(a, m), Within(a, m))
  BY <1>1, <1>2, <1>3, BothAchieve
<1>5. s \o <<Close(a)>> \in Seq(Instr)
  BY <1>1, ConcatProperties
<1> QED  BY <1>4, <1>5 DEF Kept

(***************************************************************************)
(* What the builders build.                                                *)
(***************************************************************************)

\* Nothing is left in the account of unwrapping, nor, unless it is meant to be,
\* an account with wrapped SOL.
Tidy(tx, keeps) == Kept(tx, WsolSeed, 0) /\ (~keeps => Kept(tx, WsolAta, -1))

LEMMA TradeAccounts ==
  ASSUME NEW r \in TradeRequest
  PROVE  /\ Token(r) \in Accounts \ {WsolAta, WsolSeed} /\ Token(r)[1] # "WSOL"
         /\ r.pool \in Money => Cash(r) \in Accounts \ {WsolSeed} /\ Token(r) # Cash(r)
         /\ r.pool = "WSOL" => Cash(r) = WsolAta
<1>1. r.mint \in Mints /\ r.mint \notin Money /\ Money = {"WSOL", "USDC", "USD1"}
  BY TradeWalletAssumption DEF TradeRequest, Money
<1>2. Token(r) \in {<<r.mint, "ata">>, <<r.mint, "seed">>}
  BY DEF Token, get_associated_token_address, Seeded
<1>3. Cash(r) \in {<<r.pool, "ata">>, <<r.pool, "seed">>} /\ (r.pool = "WSOL" => Cash(r) = WsolAta)
  BY DEF Cash, get_associated_token_address, Seeded, WsolAta
<1>4. r.pool = "WSOL" => Cash(r) # WsolSeed
  BY <1>3, WsolAccounts
<1>5. Token(r)[1] = r.mint /\ Cash(r)[1] = r.pool /\ WsolAta[1] = "WSOL" /\ WsolSeed[1] = "WSOL"
  BY <1>2, <1>3 DEF WsolAta, WsolSeed
<1>6. Token(r) \in Accounts /\ (r.pool \in Money => Cash(r) \in Accounts)
  BY <1>1, <1>2, <1>3 DEF Accounts
<1>7. r.pool \in Money => Token(r) # Cash(r)
  BY <1>1, <1>5
<1> QED  BY <1>1, <1>3, <1>4, <1>5, <1>6, <1>7

LEMMA CreateTokenKept ==
  ASSUME NEW r \in TradeRequest, NEW a \in {WsolAta, WsolSeed}, NEW m \in {-1, 0, 1}
  PROVE  Kept(create_associated_token_account(r.mint), a, m)
<1>1. r.mint # "WSOL"
  BY TradeWalletAssumption DEF TradeRequest, Money
<1>2. /\ <<r.mint, "seed">> \in Accounts /\ <<r.mint, "ata">> \in Accounts /\ a \in Accounts
      /\ a # <<r.mint, "seed">> /\ a # <<r.mint, "ata">>
  BY <1>1, WsolAccounts DEF TradeRequest, Accounts, WsolAta, WsolSeed
<1>3. Kept(<<CreateNew(<<r.mint, "seed">>)>>, a, m)
  BY <1>2, KeptCreateNew
<1>4. Kept(<<Create(<<r.mint, "ata">>)>>, a, m)
  BY <1>2, KeptCreate
<1> QED  BY <1>3, <1>4 DEF create_associated_token_account

LEMMA HandleWsolKept ==
  ASSUME NEW n \in Nat
  PROVE  Kept(handle_wsol(n), WsolSeed, 0) /\ Kept(handle_wsol(n), WsolAta, 1)
<1>1. handle_wsol(n) = <<Create(WsolAta)>> \o <<Wrap(n)>>
  BY DEF handle_wsol
<1>2. Kept(<<Create(WsolAta)>>, WsolSeed, 0) /\ Kept(<<Create(WsolAta)>>, WsolAta, 1)
  BY WsolAccounts, KeptCreate
<1>3. Kept(<<Wrap(n)>>, WsolSeed, 0) /\ Kept(<<Wrap(n)>>, WsolAta, 1)
  BY WsolAccounts, KeptWrap
<1>4. Kept(<<Create(WsolAta)>> \o <<Wrap(n)>>, WsolSeed, 0)
  BY <1>2, <1>3, KeptBoth
<1>5. Kept(<<Create(WsolAta)>> \o <<Wrap(n)>>, WsolAta, 1)
  BY <1>2, <1>3, KeptBoth
<1> QED  BY <1>1, <1>4, <1>5

\* A swap opens no account, and puts nothing into the one of unwrapping.
TidySwap(i) == Kept(<<i>>, WsolSeed, 0) /\ Kept(<<i>>, WsolAta, 1) /\ Kept(<<i>>, WsolAta, -1)

LEMMA SwapTidy ==
  ASSUME NEW from \in Places, NEW to \in Places, from # to, to # WsolSeed,
         NEW min \in Nat, NEW max \in Nat
  PROVE  TidySwap(Swap(from, to, min, max))
  BY WsolAccounts, KeptSwap DEF TidySwap

LEMMA MismatchTidy == TidySwap(Mismatch)
<1>1. Mismatch \in Instr
  BY DEF Mismatch, Instr
<1>2. \A w : Perform(Mismatch, w) = {Failed}
  BY DEF Perform, Mismatch
<1>3. \A a, m : Kept(<<Mismatch>>, a, m)
  BY <1>1, <1>2, KeptOne
<1> QED  BY <1>3 DEF TidySwap

LEMMA PurchaseTidy ==
  ASSUME NEW r \in TradeRequest, NEW n \in Nat, NEW swap, TidySwap(swap)
  PROVE  Tidy(Purchase(r, n, swap), r.create_in /\ ~r.close_in)
<1> DEFINE A == When(r.create_in, handle_wsol(n))
           B == When(r.create_out, create_associated_token_account(r.mint))
           C == <<swap>>
           D == When(r.close_in, close_wsol)
           tx == ((A \o B) \o C) \o D
<1>1. r.create_in \in BOOLEAN /\ r.create_out \in BOOLEAN /\ r.close_in \in BOOLEAN
  BY DEF TradeRequest
<1>3. \A a \in {WsolAta, WsolSeed} : \A m \in {-1, 0, 1} : Kept(B, a, m)
  BY <1>1, CreateTokenKept, KeptWhen
<1>4. Kept(C, WsolSeed, 0) /\ Kept(C, WsolAta, 1) /\ Kept(C, WsolAta, -1)
  BY DEF TidySwap
<1>5. Kept(A, WsolSeed, 0) /\ Kept(A, WsolAta, 1) /\ (~r.create_in => Kept(A, WsolAta, -1))
  BY <1>1, HandleWsolKept, KeptWhen
<1>6. Kept(D, WsolSeed, 0)
  BY <1>1, WsolAccounts, KeptClose, KeptWhen DEF close_wsol
<1>7. ~r.close_in => Kept(D, WsolAta, -1)
  BY <1>1, KeptWhen
<1>8. r.close_in => D = <<Close(WsolAta)>>
  BY DEF When, close_wsol
<1> HIDE DEF A, B, C, D
<1>9. Kept(tx, WsolSeed, 0)
  <2>1. Kept(A \o B, WsolSeed, 0)
    BY <1>3, <1>5, KeptBoth
  <2>2. Kept((A \o B) \o C, WsolSeed, 0)
    BY <1>4, <2>1, KeptBoth
  <2> QED  BY <1>6, <2>2, KeptBoth
<1>10. ASSUME r.close_in PROVE Kept(tx, WsolAta, -1)
  <2>1. Kept(A \o B, WsolAta, 1)
    BY <1>3, <1>5, KeptBoth
  <2>2. Kept((A \o B) \o C, WsolAta, 1)
    BY <1>4, <2>1, KeptBoth
  <2>3. Kept(((A \o B) \o C) \o <<Close(WsolAta)>>, WsolAta, -1)
    BY <2>2, WsolAccounts, KeptClosed
  <2> QED  BY <1>8, <1>10, <2>3
<1>11. ASSUME ~r.close_in, ~r.create_in PROVE Kept(tx, WsolAta, -1)
  <2>1. Kept(A \o B, WsolAta, -1)
    BY <1>3, <1>5, <1>11, KeptBoth
  <2>2. Kept((A \o B) \o C, WsolAta, -1)
    BY <1>4, <2>1, KeptBoth
  <2> QED  BY <1>7, <1>11, <2>2, KeptBoth
<1>12. Purchase(r, n, swap) = tx
  BY DEF Purchase, A, B, C, D
<1> HIDE DEF tx
<1> QED  BY <1>1, <1>9, <1>10, <1>11, <1>12 DEF Tidy

LEMMA SaleTidy ==
  ASSUME NEW r \in TradeRequest, NEW create \in BOOLEAN, NEW swap, TidySwap(swap)
  PROVE  Tidy(Sale(r, create, swap), create /\ ~r.close_out)
<1> DEFINE A == When(create, create_wsol_ata)
           B == <<swap>>
           C == When(r.close_out, close_wsol)
           D == When(r.close_in, <<Close(Token(r))>>)
           tx == ((A \o B) \o C) \o D
<1>1. r.close_out \in BOOLEAN /\ r.close_in \in BOOLEAN
  BY DEF TradeRequest
<1>2. Token(r) \in Places /\ Token(r) \in Accounts
  BY TradeAccounts DEF Places
<1>3. Kept(B, WsolSeed, 0) /\ Kept(B, WsolAta, 1) /\ Kept(B, WsolAta, -1)
  BY DEF TidySwap
<1>4. Kept(A, WsolSeed, 0) /\ Kept(A, WsolAta, 1) /\ (~create => Kept(A, WsolAta, -1))
  BY WsolAccounts, KeptCreate, KeptWhen DEF create_wsol_ata
<1>5. Kept(C, WsolSeed, 0) /\ (~r.close_out => Kept(C, WsolAta, -1))
  BY <1>1, WsolAccounts, KeptClose, KeptWhen DEF close_wsol
<1>6. Kept(D, WsolSeed, 0) /\ Kept(D, WsolAta, -1)
  BY <1>1, <1>2, WsolAccounts, KeptClose, KeptWhen
<1>7. r.close_out => C = <<Close(WsolAta)>>
  BY DEF When, close_wsol
<1> HIDE DEF A, B, C, D
<1>8. Kept(tx, WsolSeed, 0)
  <2>1. Kept(A \o B, WsolSeed, 0)
    BY <1>3, <1>4, KeptBoth
  <2>2. Kept((A \o B) \o C, WsolSeed, 0)
    BY <1>5, <2>1, KeptBoth
  <2> QED  BY <1>6, <2>2, KeptBoth
<1>9. ASSUME r.close_out PROVE Kept(tx, WsolAta, -1)
  <2>1. Kept(A \o B, WsolAta, 1)
    BY <1>3, <1>4, KeptBoth
  <2>2. Kept((A \o B) \o <<Close(WsolAta)>>, WsolAta, -1)
    BY <2>1, WsolAccounts, KeptClosed
  <2>3. Kept((A \o B) \o C, WsolAta, -1)
    BY <1>7, <1>9, <2>2
  <2> QED  BY <1>6, <2>3, KeptBoth
<1>10. ASSUME ~r.close_out, ~create PROVE Kept(tx, WsolAta, -1)
  <2>1. Kept(A \o B, WsolAta, -1)
    BY <1>3, <1>4, <1>10, KeptBoth
  <2>2. Kept((A \o B) \o C, WsolAta, -1)
    BY <1>5, <1>10, <2>1, KeptBoth
  <2> QED  BY <1>6, <2>2, KeptBoth
<1>11. Sale(r, create, swap) = tx
  BY DEF Sale, A, B, C, D, Token
<1> HIDE DEF tx
<1> QED  BY <1>1, <1>8, <1>9, <1>10, <1>11 DEF Tidy

LEMMA EmptyTidy == \A keeps : Tidy(<<>>, keeps)
<1>1. <<>> \in Seq(Instr)
  OBVIOUS
<1> QED  BY <1>1, EmptyAchieves DEF Tidy, Kept

\* Wherever a trade on a DEX but PumpFun spends or gets money, the pool has it in
\* an account the SDK knows.
Funded(r) == r.pool \in Money

LEMMA BuyForms ==
  ASSUME NEW r \in TradeRequest, r.dex # "PumpFun", r.dex = "Bonk" => r.pool \in {"WSOL", "USD1"}
  PROVE  \/ buy(r) = Refused
         \/ /\ r.amount > 0 /\ Funded(r) /\ r.dex # "Bonk"
            /\ \/ buy(r) = Purchase(r, r.amount, Swap(Cash(r), Token(r), r.amount, r.amount))
               \/ /\ ~r.exact
                  /\ buy(r) = Purchase(r, r.amount + Slippage,
                                       Swap(Cash(r), Token(r), 1, r.amount + Slippage))
         \/ /\ r.amount > 0 /\ Funded(r) /\ r.dex = "Bonk"
            /\ buy(r) = Purchase([r EXCEPT !.create_in = @ /\ r.pool # "USD1"], r.amount,
                                 Swap(Cash(r), Token(r), r.amount, r.amount))
         \/ Misnamed(r) /\ buy(r) = Purchase(r, r.amount, Mismatch)
<1>1. /\ BuyExactIn(r) = Swap(Cash(r), Token(r), r.amount, r.amount)
      /\ Pay(Cash(r), Token(r), r.amount + Slippage)
           = Swap(Cash(r), Token(r), 1, r.amount + Slippage)
  BY DEF BuyExactIn, Move, Pay, Swap
<1>2. /\ r.dex \in {"PumpSwap", "Bonk", "RaydiumCpmm", "RaydiumAmmV4", "MeteoraDammV2"}
      /\ r.amount \in Nat /\ r.exact \in BOOLEAN
  BY DEF TradeRequest
<1>3. Listed(r) => Funded(r)
  BY DEF Listed, Funded, Money
<1>4. CASE r.dex = "Bonk"
  <2>1. Funded(r)
    BY <1>4 DEF Funded, Money
  <2> QED  BY <1>1, <1>2, <1>4, <2>1 DEF buy, Bonk_buy
<1>5. CASE r.dex = "PumpSwap"
  <2>1. buy(r) \in {Refused, PumpSwap_buy(r)}
    BY <1>5 DEF buy
  <2>2. CASE r.amount = 0 \/ ~Listed(r)
    BY <2>1, <2>2 DEF PumpSwap_buy
  <2>3. CASE r.amount # 0 /\ Listed(r) /\ r.money_is_quote /\ ~r.exact
    <3>1. PumpSwap_buy(r)
            = Purchase(r, r.amount + Slippage, Pay(Cash(r), Token(r), r.amount + Slippage))
      BY <2>3, Zenon DEF PumpSwap_buy
    <3>2. r.amount > 0
      BY <1>2, <2>3
    <3> QED  BY <1>1, <1>3, <1>5, <2>1, <2>3, <3>1, <3>2, Zenon
  <2>4. CASE r.amount # 0 /\ Listed(r) /\ ~(r.money_is_quote /\ ~r.exact)
    <3>1. PumpSwap_buy(r) = Purchase(r, r.amount, BuyExactIn(r))
      BY <2>4, Zenon DEF PumpSwap_buy
    <3>2. r.amount > 0
      BY <1>2, <2>4
    <3> QED  BY <1>1, <1>3, <1>5, <2>1, <2>4, <3>1, <3>2, Zenon
  <2> QED  BY <2>2, <2>3, <2>4
<1>6. CASE r.dex \in {"RaydiumCpmm", "RaydiumAmmV4"}
  <2>1. buy(r) \in {Refused, RaydiumCpmm_buy(r), RaydiumAmmV4_buy(r)}
    BY <1>6 DEF buy
  <2> QED  BY <1>1, <1>2, <1>3, <1>6, <2>1 DEF RaydiumCpmm_buy, RaydiumAmmV4_buy
<1>7. CASE r.dex = "MeteoraDammV2"
  <2>1. buy(r) \in {Refused, MeteoraDammV2_buy(r)}
    BY <1>7 DEF buy
  <2>2. /\ OnAccountOf(r.token_type, r, BuyExactIn(r)) \in {BuyExactIn(r), Mismatch}
        /\ ~Misnamed(r) => OnAccountOf(r.token_type, r, BuyExactIn(r)) = BuyExactIn(r)
    BY <1>7 DEF OnAccountOf, Misnamed, Cash
  <2> QED  BY <1>1, <1>2, <1>3, <1>7, <2>1, <2>2 DEF MeteoraDammV2_buy
<1> QED  BY <1>2, <1>4, <1>5, <1>6, <1>7

LEMMA SellForms ==
  ASSUME NEW r \in TradeRequest, r.dex # "PumpFun", r.dex = "Bonk" => r.pool \in {"WSOL", "USD1"}
  PROVE  \/ sell(r) = Refused
         \/ /\ Funded(r) /\ r.dex # "Bonk"
            /\ \/ sell(r) = Sale(r, r.create_out, Swap(Token(r), Cash(r), r.amount, r.amount))
               \/ /\ ~r.money_is_quote
                  /\ sell(r) = Sale(r, r.create_out,
                                    Swap(Token(r), Cash(r), 1, r.amount + Slippage))
         \/ /\ Funded(r) /\ r.dex = "Bonk"
            /\ sell(r) = Sale(r, r.close_out /\ r.pool # "USD1",
                              Swap(Token(r), Cash(r), r.amount, r.amount))
         \/ Misnamed(r) /\ sell(r) = Sale(r, r.create_out, Mismatch)
<1>1. /\ SellExactIn(r) = Swap(Token(r), Cash(r), r.amount, r.amount)
      /\ Pay(Token(r), Cash(r), r.amount + Slippage)
           = Swap(Token(r), Cash(r), 1, r.amount + Slippage)
  BY DEF SellExactIn, Move, Pay, Swap
<1>2. r.dex \in {"PumpSwap", "Bonk", "RaydiumCpmm", "RaydiumAmmV4", "MeteoraDammV2"}
      /\ r.money_is_quote \in BOOLEAN
  BY DEF TradeRequest
<1>3. Listed(r) => Funded(r)
  BY DEF Listed, Funded, Money
<1>4. CASE r.dex = "Bonk"
  <2>1. Funded(r)
    BY <1>4 DEF Funded, Money
  <2> QED  BY <1>1, <1>4, <2>1 DEF sell, Bonk_sell
<1>5. CASE r.dex = "PumpSwap"
  <2>1. sell(r) \in {Refused, PumpSwap_sell(r)}
    BY <1>5 DEF sell
  <2>2. CASE ~Listed(r)
    BY <2>1, <2>2 DEF PumpSwap_sell
  <2>3. CASE Listed(r) /\ r.money_is_quote
    <3>1. PumpSwap_sell(r) = Sale(r, r.create_out, SellExactIn(r))
      BY <2>3, Zenon DEF PumpSwap_sell
    <3> QED  BY <1>1, <1>3, <1>5, <2>1, <2>3, <3>1, Zenon
  <2>4. CASE Listed(r) /\ ~r.money_is_quote
    <3>1. PumpSwap_sell(r)
            = Sale(r, r.create_out, Pay(Token(r), Cash(r), r.amount + Slippage))
      BY <2>4, Zenon DEF PumpSwap_sell
    <3> QED  BY <1>1, <1>3, <1>5, <2>1, <2>4, <3>1, Zenon
  <2> QED  BY <2>2, <2>3, <2>4
<1>6. CASE r.dex \in {"RaydiumCpmm", "RaydiumAmmV4"}
  <2>1. sell(r) \in {Refused, RaydiumCpmm_sell(r), RaydiumAmmV4_sell(r)}
    BY <1>6 DEF sell
  <2> QED  BY <1>1, <1>3, <1>6, <2>1 DEF RaydiumCpmm_sell, RaydiumAmmV4_sell
<1>7. CASE r.dex = "MeteoraDammV2"
  <2>1. sell(r) \in {Refused, MeteoraDammV2_sell(r)}
    BY <1>7 DEF sell
  <2>2. /\ OnAccountOf(r.token_type, r, SellExactIn(r)) \in {SellExactIn(r), Mismatch}
        /\ ~Misnamed(r) => OnAccountOf(r.token_type, r, SellExactIn(r)) = SellExactIn(r)
    BY <1>7 DEF OnAccountOf, Misnamed, Cash
  <2> QED  BY <1>1, <1>3, <1>7, <2>1, <2>2 DEF MeteoraDammV2_sell
<1> QED  BY <1>2, <1>4, <1>5, <1>6, <1>7

LEMMA TidyMore ==
  ASSUME NEW tx, NEW k \in BOOLEAN, NEW l \in BOOLEAN, k => l, Tidy(tx, k)
  PROVE  Tidy(tx, l)
  BY DEF Tidy

LEMMA TidyBoth ==
  ASSUME NEW s, NEW t, NEW k \in BOOLEAN, Tidy(s, k), Tidy(t, k)
  PROVE  Tidy(s \o t, k)
<1>1. Kept(s \o t, WsolSeed, 0)
  BY KeptBoth DEF Tidy
<1>2. ~k => Kept(s \o t, WsolAta, -1)
  BY KeptBoth DEF Tidy
<1> QED  BY <1>1, <1>2 DEF Tidy

LEMMA TidyWhen ==
  ASSUME NEW condition \in BOOLEAN, NEW s, NEW k \in BOOLEAN, Tidy(s, k)
  PROVE  Tidy(When(condition, s), k)
  BY EmptyTidy DEF When

LEMMA BuyTidy ==
  ASSUME NEW r \in TradeRequest, r.dex = "Bonk" => r.pool \in {"WSOL", "USD1"}
  PROVE  Tidy(buy(r), r.create_in /\ ~r.close_in)
<1>1. /\ r.amount \in Nat /\ Slippage \in Nat /\ r.amount + Slippage \in Nat /\ 1 \in Nat
      /\ r.create_in \in BOOLEAN /\ r.close_in \in BOOLEAN /\ r.create_out \in BOOLEAN
  BY TradeWalletAssumption DEF TradeRequest
<1>2. Token(r) \in Places /\ Token(r) \notin {Native, WsolAta, WsolSeed} /\ Native \in Places
  BY TradeAccounts, NativeApart DEF Places
<1>3. CASE r.dex = "PumpFun"
  <2> DEFINE swap == IF r.exact THEN Move(Native, Token(r), r.amount)
                     ELSE Pay(Native, Token(r), r.amount + Slippage)
  <2>1. swap \in {Swap(Native, Token(r), r.amount, r.amount),
                  Swap(Native, Token(r), 1, r.amount + Slippage)}
    BY DEF Move, Pay, Swap
  <2>2. /\ Tidy(<<Swap(Native, Token(r), r.amount, r.amount)>>, FALSE)
        /\ Tidy(<<Swap(Native, Token(r), 1, r.amount + Slippage)>>, FALSE)
    BY <1>1, <1>2, WsolAccounts, KeptSwap DEF Tidy
  <2>3. Tidy(When(r.create_out, create_associated_token_account(r.mint)), FALSE)
    BY <1>1, CreateTokenKept, TidyWhen DEF Tidy
  <2>4. buy(r) \in {Refused, When(r.create_out, create_associated_token_account(r.mint)) \o <<swap>>}
    BY <1>3 DEF buy, PumpFun_buy
  <2> HIDE DEF swap
  <2>5. Tidy(<<swap>>, FALSE)
    BY <2>1, <2>2
  <2>6. Tidy(buy(r), FALSE)
    BY <2>3, <2>4, <2>5, TidyBoth, EmptyTidy DEF Refused
  <2> QED  BY <1>1, <2>6, TidyMore
<1>4. CASE r.dex # "PumpFun"
  <2>1. CASE buy(r) = Refused
    BY <2>1, EmptyTidy DEF Refused
  <2>2. CASE Funded(r) /\ r.dex = "Bonk"
             /\ buy(r) = Purchase([r EXCEPT !.create_in = @ /\ r.pool # "USD1"], r.amount,
                                  Swap(Cash(r), Token(r), r.amount, r.amount))
    <3> DEFINE q == [r EXCEPT !.create_in = @ /\ r.pool # "USD1"]
    <3>1. q \in TradeRequest /\ q.create_in = (r.create_in /\ r.pool # "USD1") /\ q.close_in = r.close_in
          /\ q.mint = r.mint
      BY <1>1 DEF TradeRequest
    <3>2. Token(q) = Token(r)
      BY <3>1 DEF Token
    <3> HIDE DEF q
    <3>3. TidySwap(Swap(Cash(r), Token(q), r.amount, r.amount))
      <4>1. Cash(r) \in Places /\ Cash(r) # Token(r)
        BY <2>2, TradeAccounts DEF Places, Funded
      <4> QED  BY <1>1, <1>2, <3>2, <4>1, SwapTidy
    <3>4. Tidy(Purchase(q, r.amount, Swap(Cash(r), Token(q), r.amount, r.amount)),
               q.create_in /\ ~q.close_in)
      BY <1>1, <3>1, <3>2, <3>3, PurchaseTidy
    <3>5. buy(r) = Purchase(q, r.amount, Swap(Cash(r), Token(q), r.amount, r.amount))
      BY <2>2, <3>2 DEF q
    <3> QED  BY <1>1, <3>1, <3>4, <3>5, TidyMore
  <2>3. CASE buy(r) = Purchase(r, r.amount, Mismatch)
    BY <1>1, <2>3, MismatchTidy, PurchaseTidy
  <2>4. CASE Funded(r)
    <3>1. Cash(r) \in Places /\ Cash(r) # Token(r)
      BY <2>4, TradeAccounts DEF Places, Funded
    <3>2. /\ TidySwap(Swap(Cash(r), Token(r), r.amount, r.amount))
          /\ TidySwap(Swap(Cash(r), Token(r), 1, r.amount + Slippage))
      BY <1>1, <1>2, <3>1, SwapTidy
    <3>3. /\ Tidy(Purchase(r, r.amount, Swap(Cash(r), Token(r), r.amount, r.amount)),
                  r.create_in /\ ~r.close_in)
          /\ Tidy(Purchase(r, r.amount + Slippage, Swap(Cash(r), Token(r), 1, r.amount + Slippage)),
                  r.create_in /\ ~r.close_in)
      BY <1>1, <3>2, PurchaseTidy
    <3> QED  BY <1>4, <2>1, <2>2, <2>3, <3>3, BuyForms, Zenon
  <2> QED  BY <1>4, <2>1, <2>3, <2>4, BuyForms, Zenon
<1> QED  BY <1>3, <1>4

LEMMA SellTidy ==
  ASSUME NEW r \in TradeRequest, r.dex = "Bonk" => r.pool \in {"WSOL", "USD1"}
  PROVE  Tidy(sell(r), r.create_out /\ ~r.close_out)
<1>1. /\ r.amount \in Nat /\ Slippage \in Nat /\ r.amount + Slippage \in Nat /\ 1 \in Nat
      /\ r.create_out \in BOOLEAN /\ r.close_out \in BOOLEAN /\ r.close_in \in BOOLEAN
  BY TradeWalletAssumption DEF TradeRequest
<1>2. Token(r) \in Accounts /\ Token(r) \in Places /\ Token(r) # Native /\ Native \in Places
      /\ Native \notin {WsolAta, WsolSeed}
  BY TradeAccounts, NativeApart, WsolAccounts DEF Places
<1>3. CASE r.dex = "PumpFun"
  <2>1. Move(Token(r), Native, r.amount) = Swap(Token(r), Native, r.amount, r.amount)
    BY DEF Move, Swap
  <2>2. Tidy(<<Swap(Token(r), Native, r.amount, r.amount)>>, FALSE)
    BY <1>1, <1>2, WsolAccounts, KeptSwap DEF Tidy
  <2>3. Tidy(When(r.close_in, <<Close(Token(r))>>), FALSE)
    BY <1>1, <1>2, WsolAccounts, KeptClose, TidyWhen DEF Tidy
  <2>4. sell(r) \in {Refused, <<Move(Token(r), Native, r.amount)>> \o When(r.close_in, <<Close(Token(r))>>)}
    BY <1>3 DEF sell, PumpFun_sell
  <2>5. Tidy(sell(r), FALSE)
    BY <2>1, <2>2, <2>3, <2>4, TidyBoth, EmptyTidy DEF Refused
  <2> QED  BY <1>1, <2>5, TidyMore
<1>4. CASE r.dex # "PumpFun"
  <2>1. CASE sell(r) = Refused
    BY <2>1, EmptyTidy DEF Refused
  <2>2. CASE sell(r) = Sale(r, r.create_out, Mismatch)
    BY <1>1, <2>2, MismatchTidy, SaleTidy
  <2>3. CASE Funded(r)
    <3>1. Cash(r) \in Places /\ Cash(r) # Token(r) /\ Cash(r) # WsolSeed
      BY <2>3, TradeAccounts DEF Places, Funded
    <3>2. /\ TidySwap(Swap(Token(r), Cash(r), r.amount, r.amount))
          /\ TidySwap(Swap(Token(r), Cash(r), 1, r.amount + Slippage))
      BY <1>1, <1>2, <3>1, SwapTidy
    <3>3. /\ Tidy(Sale(r, r.create_out, Swap(Token(r), Cash(r), r.amount, r.amount)),
                  r.create_out /\ ~r.close_out)
          /\ Tidy(Sale(r, r.create_out, Swap(Token(r), Cash(r), 1, r.amount + Slippage)),
                  r.create_out /\ ~r.close_out)
      BY <1>1, <3>2, SaleTidy
    <3>4. Tidy(Sale(r, r.close_out /\ r.pool # "USD1", Swap(Token(r), Cash(r), r.amount, r.amount)),
               r.create_out /\ ~r.close_out)
      <4> DEFINE create == r.close_out /\ r.pool # "USD1"
      <4>1. create \in BOOLEAN /\ ~(create /\ ~r.close_out)
        OBVIOUS
      <4> HIDE DEF create
      <4>2. Tidy(Sale(r, create, Swap(Token(r), Cash(r), r.amount, r.amount)), create /\ ~r.close_out)
        BY <1>1, <3>2, <4>1, SaleTidy
      <4>3. Tidy(Sale(r, create, Swap(Token(r), Cash(r), r.amount, r.amount)),
                 r.create_out /\ ~r.close_out)
        BY <1>1, <4>1, <4>2, TidyMore
      <4> QED  BY <4>3 DEF create
    <3> QED  BY <1>4, <2>1, <2>2, <3>3, <3>4, SellForms, Zenon
  <2> QED  BY <1>4, <2>1, <2>3, <2>2, SellForms, Zenon
<1> QED  BY <1>3, <1>4

LEMMA UnwrapTidy ==
  ASSUME NEW n \in Nat, NEW answered \in BOOLEAN
  PROVE  Tidy(unwrap(n, answered), FALSE)
<1> DEFINE move == <<Swap(WsolAta, WsolSeed, n, n)>>
           rest == move \o <<Close(WsolSeed)>>
<1>1. wrap_wsol_to_sol_without_create(n) = rest
  BY DEF wrap_wsol_to_sol_without_create, Move, Swap
<1>2. WsolAta \in Places /\ WsolSeed \in Places
  BY WsolAccounts DEF Places
<1>3. Kept(move, WsolSeed, 1) /\ Kept(move, WsolAta, -1)
  BY <1>2, WsolAccounts, KeptSwap
<1>4. Kept(<<Close(WsolSeed)>>, WsolAta, -1)
  BY WsolAccounts, KeptClose
<1>5. Kept(<<CreateNew(WsolSeed)>>, WsolSeed, 0) /\ Kept(<<CreateNew(WsolSeed)>>, WsolAta, -1)
  BY WsolAccounts, KeptCreateNew
<1> HIDE DEF move
<1>6. Kept(rest, WsolSeed, 0)
  BY <1>3, WsolAccounts, KeptClosed
<1>7. Kept(rest, WsolAta, -1)
  BY <1>3, <1>4, KeptBoth
<1> HIDE DEF rest
<1>8. Tidy(rest, FALSE) /\ Tidy(<<CreateNew(WsolSeed)>>, FALSE)
  BY <1>5, <1>6, <1>7 DEF Tidy
<1>9. Tidy(<<CreateNew(WsolSeed)>> \o rest, FALSE)
  BY <1>8, TidyBoth
<1> QED  BY <1>1, <1>8, <1>9 DEF unwrap, wrap_wsol_to_sol

\* The other requests of the client.
LEMMA HelpersTidy ==
  ASSUME NEW answered \in BOOLEAN
  PROVE  /\ \A n \in Nat : Tidy(handle_wsol(n), TRUE) /\ Tidy(transfer_sol(n, answered), FALSE)
         /\ Tidy(close_wsol, FALSE) /\ Tidy(create_wsol_ata, TRUE)
         /\ Tidy(claim_cashback_pumpfun, FALSE) /\ Tidy(claim_cashback_pumpswap, TRUE)
         /\ \A mint \in Mints \cup Money : Tidy(close_token_account(mint, answered), FALSE)
<1>1. ASSUME NEW n \in Nat PROVE Tidy(handle_wsol(n), TRUE) /\ Tidy(transfer_sol(n, answered), FALSE)
  <2>1. Tidy(handle_wsol(n), TRUE)
    BY HandleWsolKept DEF Tidy
  <2>2. Tidy(<<Out(n)>>, FALSE)
    BY WsolAccounts, KeptOut DEF Tidy
  <2> QED  BY <2>1, <2>2, EmptyTidy DEF transfer_sol, When
<1>2. Tidy(close_wsol, FALSE)
  BY WsolAccounts, KeptClose DEF Tidy, close_wsol
<1>3. Tidy(create_wsol_ata, TRUE)
  BY WsolAccounts, KeptCreate DEF Tidy, create_wsol_ata
<1>4. Native \in Places /\ WsolAta \in Places /\ Native \notin {WsolAta, WsolSeed}
  BY NativeApart, WsolAccounts DEF Places
<1>5. Tidy(claim_cashback_pumpfun, FALSE)
  BY <1>4, WsolAccounts, KeptClaim DEF Tidy, claim_cashback_pumpfun
<1>6. Tidy(claim_cashback_pumpswap, TRUE)
  <2>1. create_associated_token_account("WSOL") = create_wsol_ata
    BY DEF create_associated_token_account, Seeded, create_wsol_ata, WsolAta
  <2>2. Tidy(<<Claim(WsolAta)>>, TRUE)
    BY <1>4, WsolAccounts, KeptClaim DEF Tidy
  <2> QED  BY <1>3, <2>1, <2>2, TidyBoth DEF claim_cashback_pumpswap
<1>7. ASSUME NEW mint \in Mints \cup Money PROVE Tidy(close_token_account(mint, answered), FALSE)
  <2>1. <<mint, "ata">> \in Accounts
    BY DEF Accounts
  <2>2. Tidy(<<Close(<<mint, "ata">>)>>, FALSE)
    BY <2>1, WsolAccounts, KeptClose DEF Tidy
  <2> QED  BY <2>2, EmptyTidy DEF close_token_account, When
<1> QED  BY <1>1, <1>2, <1>3, <1>5, <1>6, <1>7

\* Every request of a caller, as it is built.
LEMMA BuildTidy ==
  ASSUME NEW r, IsRequest(r), NEW answered \in BOOLEAN
  PROVE  Tidy(Build(r, answered), KeepsWsol(r))
<1>1. CASE r.op = "buy" \/ r.op = "sell"
  <2>1. r \in TradeRequest /\ (r.dex = "Bonk" => r.pool \in {"WSOL", "USD1"})
    BY <1>1 DEF IsRequest
  <2>2. /\ r.create_in \in BOOLEAN /\ r.close_in \in BOOLEAN
        /\ r.create_out \in BOOLEAN /\ r.close_out \in BOOLEAN
    BY <2>1 DEF TradeRequest
  <2>3. CASE r.op = "buy"
    <3>1. Build(r, answered) = buy(r)
      BY <2>3 DEF Build
    <3>2. KeepsWsol(r) = (r.create_in /\ ~r.close_in)
      BY <2>2, <2>3 DEF KeepsWsol
    <3> QED  BY <2>1, <3>1, <3>2, BuyTidy
  <2>4. CASE r.op = "sell"
    <3>1. Build(r, answered) \in {Refused, sell(r)}
      BY <2>4 DEF Build
    <3>2. KeepsWsol(r) = (r.create_out /\ ~r.close_out)
      BY <2>2, <2>4 DEF KeepsWsol
    <3> QED  BY <2>1, <3>1, <3>2, SellTidy, EmptyTidy DEF Refused
  <2> QED  BY <1>1, <2>3, <2>4
<1>2. KeepsWsol(r) \in BOOLEAN
  BY DEF KeepsWsol
<1>3. CASE r.op = "wrap_sol_to_wsol" \/ r.op = "wrap_wsol_to_sol" \/ r.op = "transfer_sol"
  <2>1. r.amount \in Nat
    BY <1>3 DEF IsRequest
  <2>2. CASE r.op = "wrap_sol_to_wsol"
    <3>1. Build(r, answered) = handle_wsol(r.amount) /\ KeepsWsol(r)
      BY <2>2 DEF Build, KeepsWsol
    <3> QED  BY <2>1, <3>1, HelpersTidy, <1>2, TidyMore
  <2>3. CASE r.op = "wrap_wsol_to_sol"
    <3>1. Build(r, answered) = unwrap(r.amount, answered)
      BY <2>3 DEF Build
    <3> QED  BY <1>2, <2>1, <3>1, UnwrapTidy, TidyMore
  <2>4. CASE r.op = "transfer_sol"
    <3>1. Build(r, answered) = transfer_sol(r.amount, answered)
      BY <2>4 DEF Build
    <3> QED  BY <1>2, <2>1, <3>1, HelpersTidy, TidyMore
  <2> QED  BY <1>3, <2>2, <2>3, <2>4
<1>4. CASE r.op = "create_wsol_ata" \/ r.op = "claim_cashback_pumpswap"
  <2>1. Build(r, answered) \in {create_wsol_ata, claim_cashback_pumpswap} /\ KeepsWsol(r)
    BY <1>4 DEF Build, KeepsWsol
  <2> QED  BY <1>2, <2>1, HelpersTidy, TidyMore
<1>5. CASE r.op = "close_wsol" \/ r.op = "claim_cashback_pumpfun"
  <2>1. Build(r, answered) \in {close_wsol, claim_cashback_pumpfun}
    BY <1>5 DEF Build
  <2> QED  BY <1>2, <2>1, HelpersTidy, TidyMore
<1>6. CASE r.op = "close_token_account"
  <2>1. Build(r, answered) = close_token_account(r.mint, answered) /\ r.mint \in Mints \cup Money
    BY <1>6 DEF Build, IsRequest
  <2> QED  BY <1>2, <2>1, HelpersTidy, TidyMore
<1> QED  BY <1>1, <1>3, <1>4, <1>5, <1>6 DEF IsRequest

\* The amount of a sale is a number, whatever is in the account.
LEMMA SizedRequest ==
  ASSUME wallet \in WalletState, NEW r, IsRequest(r)
  PROVE  IsRequest(Sized(r)) /\ Sized(r).op = r.op
<1>1. CASE r.op # "sell"
  BY <1>1 DEF Sized
<1>2. CASE r.op = "sell"
  <2> DEFINE q == [r EXCEPT !.amount = Held(r.mint)]
             n == (Held(r.mint) * r.percent) \div 100
  <2>1. r \in TradeRequest /\ (r.dex = "Bonk" => r.pool \in {"WSOL", "USD1"})
    BY <1>2 DEF IsRequest
  <2>2. get_associated_token_address(r.mint) \in Accounts
    BY <2>1, TradeAccounts DEF Token
  <2>3. Held(r.mint) \in Nat
    BY <2>2, WalletTyped DEF Held, Absent
  <2>4. q \in TradeRequest /\ q.amount = Held(r.mint)
    BY <2>1, <2>3 DEF TradeRequest
  <2>5. Sized(r) = [r EXCEPT !.amount = n]
    <3>1. Sized(r) = [q EXCEPT !.amount = (q.amount * r.percent) \div 100]
      BY <1>2 DEF Sized, sell_by_percent
    <3>2. \A x, y : [[r EXCEPT !.amount = x] EXCEPT !.amount = y] = [r EXCEPT !.amount = y]
      BY <2>1 DEF TradeRequest
    <3> QED  BY <2>4, <3>1, <3>2
  <2>6. n \in Nat
    <3>1. r.percent \in Nat
      BY <2>1 DEF TradeRequest
    <3>2. \A x \in Nat, y \in Nat : x * y \in Nat
      OBVIOUS
    <3>3. \A x \in Nat : x \div 100 \in Nat
      OBVIOUS
    <3> QED  BY <2>3, <3>1, <3>2, <3>3
  <2> HIDE DEF n, q
  <2>7. /\ Sized(r) \in TradeRequest /\ Sized(r).op = r.op
        /\ Sized(r).dex = r.dex /\ Sized(r).pool = r.pool
    BY <2>1, <2>5, <2>6 DEF TradeRequest
  <2> QED  BY <1>2, <2>1, <2>7 DEF IsRequest
<1> QED  BY <1>1, <1>2

-----------------------------------------------------------------------------
(* The wallet under the transactions of all its callers.                   *)

LEMMA TidyLands ==
  ASSUME NEW w \in WalletState, w.acct[WsolSeed] <= 0, NEW k \in BOOLEAN, NEW tx, Tidy(tx, k),
         NEW v \in Execute(tx, w), v # Failed
  PROVE  /\ v \in WalletState /\ v.acct[WsolSeed] <= 0
         /\ ~k /\ ~Exists(w, WsolAta) => ~Exists(v, WsolAta)
<1>1. w \in Within(WsolSeed, 0)
  BY DEF Within
<1>2. v \in Within(WsolSeed, 0)
  BY <1>1 DEF Tidy, Kept, Achieves
<1>3. v \in WalletState /\ v.acct[WsolSeed] <= 0
  BY <1>2 DEF Within
<1>4. ASSUME ~k, ~Exists(w, WsolAta) PROVE ~Exists(v, WsolAta)
  <2>1. w.acct[WsolAta] <= -1
    BY <1>4, WsolAccounts, WalletTyped, BalanceAt
  <2>2. w \in Within(WsolAta, -1)
    BY <2>1 DEF Within
  <2>3. v \in Within(WsolAta, -1)
    BY <1>4, <2>2 DEF Tidy, Kept, Achieves
  <2>4. v.acct[WsolAta] <= -1
    BY <1>3, <2>3 DEF Within
  <2> QED  BY <1>3, <2>4, WsolAccounts, WalletTyped, BalanceAt
<1> QED  BY <1>3, <1>4

\* A transaction that was sent is tidy, and leaves wrapped SOL only if asked to.
Ordered(r, tx, asked) == IsRequest(r) /\ Tidy(tx, KeepsWsol(r)) /\ (KeepsWsol(r) => asked)

WalletInv ==
  /\ wallet \in WalletState /\ wsolAsked \in BOOLEAN
  /\ job = [c \in Callers |-> job[c]]
  /\ \A c \in Callers : job[c].at = "sent" => Ordered(job[c].req, job[c].tx, wsolAsked)
  /\ NoWsolLeft

LEMMA KeepsBoolean == \A r : KeepsWsol(r) \in BOOLEAN
  BY DEF KeepsWsol

LEMMA WalletInitInv == WalletInit => WalletInv
<1> SUFFICES ASSUME WalletInit PROVE WalletInv
  OBVIOUS
<1>1. wallet \in WalletState /\ wallet.acct[WsolSeed] <= 0 /\ wsolAsked \in BOOLEAN
  BY TradeWalletAssumption DEF WalletInit
<1>2. job = [c \in Callers |-> job[c]] /\ \A c \in Callers : job[c].at # "sent"
  BY DEF WalletInit, Idle
<1>3. ~wsolAsked => ~Exists(wallet, WsolAta)
  BY <1>1, WsolAccounts, BalanceAt DEF WalletInit, Exists
<1> QED  BY <1>1, <1>2, <1>3 DEF WalletInv, NoWsolLeft

LEMMA CallInv ==
  ASSUME WalletInv, NEW c \in Callers, NEW request \in RequestsOf[c], Call(c, request)
  PROVE  WalletInv'
<1> DEFINE r == Sized(request)
<1>0. PICK answered \in BOOLEAN :
         \/ job' = [job EXCEPT ![c] = Idle] /\ UNCHANGED wsolAsked
         \/ /\ job' = [job EXCEPT ![c] = [at |-> "sent", req |-> r, tx |-> Build(r, answered)]]
            /\ wsolAsked' = (wsolAsked \/ KeepsWsol(r))
  BY DEF Call
<1>1. IsRequest(r)
  BY TradeWalletAssumption, SizedRequest DEF WalletInv
<1>2. Tidy(Build(r, answered), KeepsWsol(r)) /\ KeepsWsol(r) \in BOOLEAN
  BY <1>1, BuildTidy, KeepsBoolean
<1> HIDE DEF r
<1>3. UNCHANGED <<wallet, seed>> /\ job = [d \in Callers |-> job[d]] /\ NoWsolLeft
  BY DEF Call, WalletInv
<1>4. /\ \/ job' = [job EXCEPT ![c] = Idle] /\ UNCHANGED wsolAsked
         \/ /\ job' = [job EXCEPT ![c] = [at |-> "sent", req |-> r, tx |-> Build(r, answered)]]
            /\ wsolAsked' = (wsolAsked \/ KeepsWsol(r))
  BY <1>0
<1>5. wsolAsked' \in BOOLEAN /\ (wsolAsked => wsolAsked')
  BY <1>2, <1>4 DEF WalletInv
<1>6. job' = [d \in Callers |-> job'[d]]
  BY <1>3, <1>4
<1>7. ASSUME NEW d \in Callers, job'[d].at = "sent"
      PROVE  Ordered(job'[d].req, job'[d].tx, wsolAsked')
  <2>1. CASE d # c
    <3>1. job'[d] = job[d]
      BY <1>3, <1>4, <2>1
    <3>2. Ordered(job[d].req, job[d].tx, wsolAsked)
      BY <1>7, <3>1 DEF WalletInv
    <3> QED  BY <1>5, <3>1, <3>2 DEF Ordered
  <2>2. CASE d = c
    <3>1. job'[d] = [at |-> "sent", req |-> r, tx |-> Build(r, answered)] /\ wsolAsked' = (wsolAsked \/ KeepsWsol(r))
      BY <1>3, <1>4, <1>7, <2>2 DEF Idle
    <3>2. job'[d].req = r /\ job'[d].tx = Build(r, answered)
      BY <3>1
    <3>3. Ordered(r, Build(r, answered), wsolAsked')
      BY <1>1, <1>2, <3>1 DEF Ordered
    <3> QED  BY <3>2, <3>3
  <2> QED  BY <2>1, <2>2
<1>8. NoWsolLeft'
  BY <1>3, <1>5 DEF NoWsolLeft, Exists, Balance
<1>9. wallet' \in WalletState
  BY <1>3 DEF WalletInv
<1> QED  BY <1>5, <1>6, <1>7, <1>8, <1>9 DEF WalletInv

LEMMA AnswerInv ==
  ASSUME WalletInv, NEW c \in Callers, NEW result, result # "sent", Answer(c, result),
         UNCHANGED wsolAsked
  PROVE  /\ job' = [d \in Callers |-> job'[d]] /\ wsolAsked' \in BOOLEAN
         /\ \A d \in Callers : job'[d].at = "sent" => Ordered(job'[d].req, job'[d].tx, wsolAsked')
<1>1. job = [d \in Callers |-> job[d]] /\ job' = [job EXCEPT ![c] = [at |-> result]]
  BY DEF WalletInv, Answer
<1>2. job' = [d \in Callers |-> job'[d]]
  BY <1>1
<1>3. \A d \in Callers : job'[d].at = "sent" => job'[d] = job[d]
  BY <1>1
<1>4. \A d \in Callers : job'[d].at = "sent" => Ordered(job[d].req, job[d].tx, wsolAsked)
  BY <1>3 DEF WalletInv
<1>5. wsolAsked' = wsolAsked /\ wsolAsked \in BOOLEAN
  BY DEF WalletInv
<1> QED  BY <1>2, <1>3, <1>4, <1>5

LEMMA LandInv ==
  ASSUME WalletInv, NEW c \in Callers, Land(c)
  PROVE  WalletInv'
<1>1. PICK w \in Execute(job[c].tx, wallet) :
        IF w = Failed THEN Answer(c, "failed") /\ UNCHANGED wallet
                      ELSE Answer(c, "landed") /\ wallet' = w
  BY DEF Land
<1>2. UNCHANGED wsolAsked /\ job[c].at = "sent"
  BY DEF Land
<1>3. /\ job' = [d \in Callers |-> job'[d]] /\ wsolAsked' \in BOOLEAN
      /\ \A d \in Callers : job'[d].at = "sent" => Ordered(job'[d].req, job'[d].tx, wsolAsked')
  BY <1>1, <1>2, AnswerInv
<1>4. wallet' \in WalletState /\ NoWsolLeft'
  <2>1. CASE w = Failed
    BY <1>1, <1>2, <2>1 DEF WalletInv, NoWsolLeft, Exists, Balance
  <2>2. CASE w # Failed
    <3> DEFINE k == KeepsWsol(job[c].req)
    <3>1. Tidy(job[c].tx, k) /\ (k => wsolAsked) /\ k \in BOOLEAN
      BY <1>2, KeepsBoolean DEF WalletInv, Ordered
    <3>2. wallet \in WalletState /\ wallet.acct[WsolSeed] <= 0 /\ (~wsolAsked => ~Exists(wallet, WsolAta))
      BY DEF WalletInv, NoWsolLeft
    <3> HIDE DEF k
    <3>3. /\ w \in WalletState /\ w.acct[WsolSeed] <= 0
          /\ ~k /\ ~Exists(wallet, WsolAta) => ~Exists(w, WsolAta)
      BY <1>1, <2>2, <3>1, <3>2, TidyLands
    <3>4. wallet' = w
      BY <1>1, <2>2
    <3>5. ~wsolAsked' => ~Exists(w, WsolAta)
      BY <1>2, <3>1, <3>2, <3>3
    <3> QED  BY <3>3, <3>4, <3>5 DEF NoWsolLeft, Exists, Balance
  <2> QED  BY <2>1, <2>2
<1> QED  BY <1>3, <1>4 DEF WalletInv

LEMMA RejectInv ==
  ASSUME WalletInv, NEW c \in Callers, Reject(c)
  PROVE  WalletInv'
<1>1. Answer(c, "rejected") /\ UNCHANGED <<wallet, wsolAsked>>
  BY DEF Reject
<1>2. /\ job' = [d \in Callers |-> job'[d]] /\ wsolAsked' \in BOOLEAN
      /\ \A d \in Callers : job'[d].at = "sent" => Ordered(job'[d].req, job'[d].tx, wsolAsked')
  BY <1>1, AnswerInv
<1>3. wallet' \in WalletState /\ NoWsolLeft'
  BY <1>1 DEF WalletInv, NoWsolLeft, Exists, Balance
<1> QED  BY <1>2, <1>3 DEF WalletInv

LEMMA WalletNextInv == WalletInv /\ [WalletNext]_walletVars => WalletInv'
<1> SUFFICES ASSUME WalletInv, [WalletNext]_walletVars PROVE WalletInv'
  OBVIOUS
<1>1. ASSUME NEW c \in Callers, NEW r \in RequestsOf[c], Call(c, r) PROVE WalletInv'
  BY <1>1, CallInv
<1>2. ASSUME NEW c \in Callers, Land(c) PROVE WalletInv'
  BY <1>2, LandInv
<1>3. ASSUME NEW c \in Callers, Reject(c) PROVE WalletInv'
  BY <1>3, RejectInv
<1>4. CASE UNCHANGED walletVars
  BY <1>4 DEF walletVars, WalletInv, NoWsolLeft, Exists, Balance
<1> QED  BY <1>1, <1>2, <1>3, <1>4 DEF WalletNext

\* Trades told to close what they open leave no wrapped SOL behind, and nothing
\* stays in the account unwrapping passes it through (the builders of
\* instruction/*.rs, wsol_manager.rs), however the transactions of the callers
\* of a wallet interleave and fail.
THEOREM WsolNeverLeft == WalletSpec => []NoWsolLeft
<1>1. WalletInv => NoWsolLeft
  BY DEF WalletInv
<1> QED  BY <1>1, WalletInitInv, WalletNextInv, PTL DEF WalletSpec

-----------------------------------------------------------------------------
(* Trades that open what they need.  From the wallets in A, none of which  *)
(* is Failed, a transaction leads to one in B.                             *)
Leads(tx, A, B) == tx \in Seq(Instr) /\ Achieves(tx, A, B)

LEMMA LeadsOne ==
  ASSUME NEW i \in Instr, NEW A \in SUBSET WalletState, NEW B,
         \A w \in A : \A v \in Perform(i, w) : v \in B
  PROVE  Leads(<<i>>, A, B)
<1>1. <<i>> \in Seq(Instr)
  OBVIOUS
<1>2. \A w \in A : w # Failed
  BY WalletTyped
<1>3. Achieves(<<i>>, A, B)
  BY <1>2, OneAchieves
<1> QED  BY <1>1, <1>3 DEF Leads

LEMMA LeadsBoth ==
  ASSUME NEW s, NEW t, NEW A, NEW B, NEW C, Leads(s, A, B), Leads(t, B, C)
  PROVE  Leads(s \o t, A, C)
<1>1. s \in Seq(Instr) /\ t \in Seq(Instr)
  BY DEF Leads
<1>2. s \o t \in Seq(Instr)
  BY <1>1, ConcatProperties
<1>3. Achieves(s \o t, A, C)
  BY <1>1, BothAchieve DEF Leads
<1> QED  BY <1>2, <1>3 DEF Leads

LEMMA LeadsWhen ==
  ASSUME NEW condition \in BOOLEAN, NEW s, NEW A, NEW B,
         condition => Leads(s, A, B), ~condition => A \subseteq B
  PROVE  Leads(When(condition, s), A, B)
<1>1. <<>> \in Seq(Instr)
  OBVIOUS
<1>2. ~condition => Achieves(<<>>, A, B)
  BY EmptyAchieves DEF Achieves
<1> QED  BY <1>1, <1>2 DEF When, Leads

LEMMA InstrTyped ==
  /\ \A a \in Accounts : Create(a) \in Instr /\ CreateNew(a) \in Instr /\ Close(a) \in Instr
  /\ \A n \in Nat : Wrap(n) \in Instr
  /\ \A a \in Places, b \in Places, m \in Nat, n \in Nat : Swap(a, b, m, n) \in Instr
  BY DEF Create, CreateNew, Close, Wrap, Swap, Instr, Places

\* A swap that is covered and has somewhere to go.
LEMMA SwapWorks ==
  ASSUME NEW w \in WalletState, NEW from \in Places, NEW to \in Places, from # to,
         NEW min \in Nat, NEW max \in Nat, 0 < min, max <= Balance(w, from), Exists(w, to),
         NEW v \in Perform(Swap(from, to, min, max), w)
  PROVE  \E n \in min .. max : Transferred(v, w, from, to, n)
<1>1. PICK n \in min .. max :
        \/ v = Failed /\ ~(0 < n /\ n <= Balance(w, from) /\ Exists(w, to))
        \/ Transferred(v, w, from, to, n)
  BY SwapEffect
<1>2. Balance(w, from) \in Int
  BY BalanceAt, WalletTyped DEF Places
<1>3. 0 < n /\ n <= Balance(w, from)
  BY <1>2
<1> QED  BY <1>1, <1>3

\* The token's account is not where the seed option would open it.
Openable(w, r) == seed => w.acct[Token(r)] < 0

LEMMA TokenOpens ==
  ASSUME NEW r \in TradeRequest, NEW A \in SUBSET WalletState,
         \A v \in A : Openable(v, r),
         NEW B, \A v \in A : \A u \in WalletState :
                  u.sol = v.sol /\ Same(u, v, {Token(r)}) /\ u.acct[Token(r)] >= 0 => u \in B
  PROVE  Leads(create_associated_token_account(r.mint), A, B)
<1>1. r.mint # "WSOL" /\ r.mint # "SOL" /\ Token(r) \in Accounts
  BY TradeWalletAssumption, TradeAccounts DEF TradeRequest, Money
<1>2. create_associated_token_account(r.mint) = IF seed THEN <<CreateNew(Token(r))>> ELSE <<Create(Token(r))>>
  BY <1>1 DEF create_associated_token_account, Token, get_associated_token_address, Seeded
<1>3. Create(Token(r)) \in Instr /\ CreateNew(Token(r)) \in Instr
  BY <1>1, InstrTyped
<1>4. CASE seed
  <2>1. \A v \in A : \A u \in Perform(CreateNew(Token(r)), v) : u \in B
    <3> SUFFICES ASSUME NEW v \in A, NEW u \in Perform(CreateNew(Token(r)), v) PROVE u \in B
      OBVIOUS
    <3>1. v \in WalletState /\ v.acct[Token(r)] < 0
      BY <1>4 DEF Openable
    <3>2. v.acct[Token(r)] \in Int
      BY <1>1, <3>1, WalletTyped
    <3>3. u \in WalletState /\ u.sol = v.sol /\ Same(u, v, {Token(r)}) /\ u.acct[Token(r)] = 0
      BY <1>1, <3>1, <3>2, CreateNewEffect
    <3> QED  BY <3>3
  <2> QED  BY <1>2, <1>3, <1>4, <2>1, LeadsOne
<1>5. CASE ~seed
  <2>1. \A v \in A : \A u \in Perform(Create(Token(r)), v) : u \in B
    BY <1>1, CreateEffect
  <2> QED  BY <1>2, <1>3, <1>5, <2>1, LeadsOne
<1> QED  BY <1>4, <1>5

LEMMA PurchaseWorks ==
  ASSUME NEW r \in TradeRequest, r.create_in, r.create_out, NEW n \in Nat,
         NEW min \in Nat, NEW max \in Nat, 0 < min, max <= n
  PROVE  Leads(Purchase(r, n, Swap(WsolAta, Token(r), min, max)),
               {w \in WalletState : n <= w.sol /\ Openable(w, r)}, WalletState)
<1> DEFINE A == {w \in WalletState : n <= w.sol /\ Openable(w, r)}
           B == {w \in WalletState : n <= w.sol /\ Openable(w, r) /\ w.acct[WsolAta] >= 0}
           C == {w \in WalletState : Openable(w, r) /\ w.acct[WsolAta] >= n}
           D == {w \in WalletState : w.acct[WsolAta] >= n /\ w.acct[Token(r)] >= 0}
           E == {w \in WalletState : w.acct[WsolAta] >= 0}
<1>1. /\ Token(r) \in Accounts /\ Token(r) # WsolAta /\ Token(r) # Native /\ WsolAta # Native
      /\ Token(r) \in Places /\ WsolAta \in Places
  BY TradeAccounts, NativeApart, WsolAccounts DEF Places
<1>2. r.close_in \in BOOLEAN
  BY DEF TradeRequest
<1>3. \A w \in WalletState : w.acct[WsolAta] \in Int /\ w.acct[Token(r)] \in Int /\ w.sol \in Nat
  BY <1>1, WsolAccounts, WalletTyped
<1>4. Leads(<<Create(WsolAta)>>, A, B)
  <2>1. \A w \in A : \A v \in Perform(Create(WsolAta), w) : v \in B
    BY <1>1, WsolAccounts, CreateEffect DEF Same, Openable
  <2> QED  BY <2>1, WsolAccounts, InstrTyped, LeadsOne
<1>5. Leads(<<Wrap(n)>>, B, C)
  <2>1. ASSUME NEW w \in B, NEW v \in Perform(Wrap(n), w) PROVE v \in C
    <3>1. Transferred(v, w, Native, WsolAta, n)
      BY <2>1, WrapEffect
    <3>2. /\ v \in WalletState /\ v.acct[WsolAta] = w.acct[WsolAta] + n
          /\ v.acct[Token(r)] = w.acct[Token(r)]
      BY <1>1, <3>1 DEF Transferred, Same
    <3>3. v.acct[WsolAta] >= n
      BY <1>3, <3>2
    <3> QED  BY <3>2, <3>3 DEF Openable
  <2> QED  BY <2>1, InstrTyped, LeadsOne
<1>6. Leads(create_associated_token_account(r.mint), C, D)
  <2>1. \A w \in C : Openable(w, r)
    OBVIOUS
  <2>2. \A w \in C : \A u \in WalletState :
          u.sol = w.sol /\ Same(u, w, {Token(r)}) /\ u.acct[Token(r)] >= 0 => u \in D
    BY <1>1, WsolAccounts DEF Same
  <2>3. C \in SUBSET WalletState
    OBVIOUS
  <2> HIDE DEF C, D
  <2> QED  BY <2>1, <2>2, <2>3, TokenOpens
<1>7. Leads(<<Swap(WsolAta, Token(r), min, max)>>, D, E)
  <2>1. ASSUME NEW w \in D, NEW v \in Perform(Swap(WsolAta, Token(r), min, max), w) PROVE v \in E
    <3>1. max <= Balance(w, WsolAta) /\ Exists(w, Token(r))
      BY <1>1, <1>3, WsolAccounts, BalanceAt
    <3>2. PICK k \in min .. max : Transferred(v, w, WsolAta, Token(r), k)
      BY <1>1, <3>1, SwapWorks
    <3>3. v \in WalletState /\ v.acct[WsolAta] = w.acct[WsolAta] - k
      BY <1>1, <3>2 DEF Transferred
    <3>4. v.acct[WsolAta] >= 0
      BY <1>3, <3>3
    <3> QED  BY <3>3, <3>4
  <2> QED  BY <1>1, <2>1, InstrTyped, LeadsOne
<1>8. Leads(When(r.close_in, close_wsol), E, WalletState)
  <2>1. ASSUME NEW w \in E, NEW v \in Perform(Close(WsolAta), w) PROVE v \in WalletState
    <3>1. WsolAta[1] = "WSOL"
      BY DEF WsolAta
    <3>2. w \in WalletState /\ ~(w.acct[WsolAta] < 0)
      BY <1>3, <2>1
    <3> QED  BY <2>1, <3>1, <3>2, WsolAccounts, CloseEffect
  <2>2. Leads(close_wsol, E, WalletState)
    BY <2>1, WsolAccounts, InstrTyped, LeadsOne DEF close_wsol
  <2> QED  BY <1>2, <2>2, LeadsWhen
<1> DEFINE a == <<Create(WsolAta)>> \o <<Wrap(n)>>
           b == create_associated_token_account(r.mint)
           c == <<Swap(WsolAta, Token(r), min, max)>>
           d == When(r.close_in, close_wsol)
<1>9. Purchase(r, n, Swap(WsolAta, Token(r), min, max)) = ((a \o b) \o c) \o d
  <2>1. handle_wsol(n) = a
    BY DEF handle_wsol
  <2>2. When(r.create_in, handle_wsol(n)) = a /\ When(r.create_out, b) = b
    BY <2>1 DEF When
  <2> HIDE DEF a, b, c, d
  <2> QED  BY <2>2 DEF Purchase, b, c, d
<1> HIDE DEF A, B, C, D, E
<1>10. Leads(a, A, C)
  BY <1>4, <1>5, LeadsBoth
<1> HIDE DEF a, b, c, d
<1>11. Leads(a \o b, A, D)
  BY <1>6, <1>10, LeadsBoth DEF b
<1>12. Leads((a \o b) \o c, A, E)
  BY <1>7, <1>11, LeadsBoth DEF c
<1>13. Leads(((a \o b) \o c) \o d, A, WalletState)
  BY <1>8, <1>12, LeadsBoth DEF d
<1> QED  BY <1>9, <1>13 DEF A

LEMMA LeadsFrom ==
  ASSUME NEW tx, NEW A, NEW B, NEW C, Leads(tx, B, C), A \subseteq B
  PROVE  Leads(tx, A, C)
  BY DEF Leads, Achieves

\* What a purchase may cost.
Cost(r) == r.amount + (IF r.exact THEN 0 ELSE Slippage)
Affordable(r) == {w \in WalletState : Cost(r) <= w.sol /\ Openable(w, r)}

LEMMA PumpFunBuyWorks ==
  ASSUME NEW r \in TradeRequest, r.dex = "PumpFun", r.create_out, buy(r) # Refused
  PROVE  Leads(buy(r), Affordable(r), WalletState)
<1> DEFINE min == IF r.exact THEN r.amount ELSE 1
           B == {w \in WalletState : Cost(r) <= w.sol /\ w.acct[Token(r)] >= 0}
<1>1. r.amount \in Nat /\ Slippage \in Nat /\ r.exact \in BOOLEAN
  BY TradeWalletAssumption DEF TradeRequest
<1>2. /\ r.amount # 0
      /\ buy(r) = create_associated_token_account(r.mint)
                    \o <<IF r.exact THEN Move(Native, Token(r), r.amount)
                                    ELSE Pay(Native, Token(r), r.amount + Slippage)>>
  BY DEF buy, PumpFun_buy, When
<1>3. Cost(r) \in Nat /\ min \in Nat /\ 0 < min
  BY <1>1, <1>2 DEF Cost
<1>4. (IF r.exact THEN Move(Native, Token(r), r.amount) ELSE Pay(Native, Token(r), r.amount + Slippage))
        = Swap(Native, Token(r), min, Cost(r))
  <2>1. r.amount + 0 = r.amount
    BY <1>1
  <2> QED  BY <2>1 DEF Cost, Move, Pay, Swap
<1> HIDE DEF min
<1>5. Token(r) \in Accounts /\ Token(r) \in Places /\ Token(r) # Native /\ Native \in Places
  BY TradeAccounts, NativeApart DEF Places
<1>6. Leads(create_associated_token_account(r.mint), Affordable(r), B)
  <2>1. Affordable(r) \in SUBSET WalletState /\ \A w \in Affordable(r) : Openable(w, r)
    BY DEF Affordable
  <2>2. \A w \in Affordable(r) : \A u \in WalletState :
          u.sol = w.sol /\ Same(u, w, {Token(r)}) /\ u.acct[Token(r)] >= 0 => u \in B
    BY DEF Affordable
  <2> HIDE DEF B
  <2> QED  BY <2>1, <2>2, TokenOpens
<1>7. Leads(<<Swap(Native, Token(r), min, Cost(r))>>, B, WalletState)
  <2>1. ASSUME NEW w \in B, NEW v \in Perform(Swap(Native, Token(r), min, Cost(r)), w)
        PROVE  v \in WalletState
    <3>1. w \in WalletState /\ Cost(r) <= Balance(w, Native) /\ Exists(w, Token(r))
      BY <1>5, BalanceAt
    <3>2. \E n \in min .. Cost(r) : Transferred(v, w, Native, Token(r), n)
      BY <1>3, <1>5, <2>1, <3>1, SwapWorks
    <3> QED  BY <3>2 DEF Transferred
  <2>2. Swap(Native, Token(r), min, Cost(r)) \in Instr
    BY <1>3, <1>5, InstrTyped
  <2>3. B \in SUBSET WalletState
    OBVIOUS
  <2> HIDE DEF B
  <2> QED  BY <2>1, <2>2, <2>3, LeadsOne
<1> HIDE DEF B
<1>8. Leads(create_associated_token_account(r.mint) \o <<Swap(Native, Token(r), min, Cost(r))>>,
            Affordable(r), WalletState)
  BY <1>6, <1>7, LeadsBoth
<1> QED  BY <1>2, <1>4, <1>8

LEMMA BuyWorks ==
  ASSUME NEW r \in TradeRequest, r.pool = "WSOL", r.create_out, r.create_in \/ r.dex = "PumpFun",
         buy(r) # Refused, ~Misnamed(r)
  PROVE  Leads(buy(r), Affordable(r), WalletState)
<1>1. CASE r.dex = "PumpFun"
  BY <1>1, PumpFunBuyWorks
<1>2. CASE r.dex # "PumpFun"
  <2>1. r.amount \in Nat /\ Slippage \in Nat /\ r.exact \in BOOLEAN /\ Cash(r) = WsolAta
        /\ r.amount + Slippage \in Nat
    BY TradeWalletAssumption, TradeAccounts DEF TradeRequest
  <2> DEFINE q == [r EXCEPT !.create_in = @ /\ r.pool # "USD1"]
             P(n) == {w \in WalletState : n <= w.sol /\ Openable(w, r)}
  <2>2. q = r
    BY <1>2 DEF TradeRequest
  <2> HIDE DEF q
  <2>3. /\ r.amount > 0
        /\ \/ buy(r) = Purchase(r, r.amount, Swap(WsolAta, Token(r), r.amount, r.amount))
           \/ /\ ~r.exact
              /\ buy(r) = Purchase(r, r.amount + Slippage,
                                   Swap(WsolAta, Token(r), 1, r.amount + Slippage))
    <3>1. r.dex = "Bonk" => r.pool \in {"WSOL", "USD1"}
      OBVIOUS
    <3> QED  BY <1>2, <2>1, <2>2, <3>1, BuyForms, Zenon DEF q
  <2>4. Leads(Purchase(r, r.amount, Swap(WsolAta, Token(r), r.amount, r.amount)), P(r.amount), WalletState)
    BY <1>2, <2>1, <2>3, PurchaseWorks
  <2>5. Leads(Purchase(r, r.amount + Slippage, Swap(WsolAta, Token(r), 1, r.amount + Slippage)),
              P(r.amount + Slippage), WalletState)
    BY <1>2, <2>1, PurchaseWorks
  <2>6. Affordable(r) \subseteq P(r.amount)
    <3> SUFFICES ASSUME NEW w \in Affordable(r) PROVE r.amount <= w.sol
      BY DEF Affordable
    <3>1. w.sol \in Nat /\ Cost(r) <= w.sol
      BY WalletTyped DEF Affordable
    <3> QED  BY <2>1, <3>1 DEF Cost
  <2>7. ~r.exact => Affordable(r) \subseteq P(r.amount + Slippage)
    BY DEF Affordable, Cost
  <2> HIDE DEF P
  <2> QED  BY <2>3, <2>4, <2>5, <2>6, <2>7, LeadsFrom, Zenon
<1> QED  BY <1>1, <1>2

\* The wallets that hold what a sale is to sell, and no more if it is to close
\* the token's account.
Sellable(r) ==
  {w \in WalletState : w.acct[Token(r)] >= r.amount /\ (r.close_in => w.acct[Token(r)] = r.amount)}
Emptied(r) == {w \in WalletState : r.close_in => w.acct[Token(r)] = 0}

LEMMA TokenCloses ==
  ASSUME NEW r \in TradeRequest
  PROVE  Leads(When(r.close_in, <<Close(Token(r))>>), Emptied(r), WalletState)
<1>1. Token(r) \in Accounts /\ r.close_in \in BOOLEAN
  BY TradeAccounts DEF TradeRequest
<1>2. ASSUME r.close_in, NEW w \in Emptied(r), NEW v \in Perform(Close(Token(r)), w)
      PROVE  v \in WalletState
  <2>1. w \in WalletState /\ w.acct[Token(r)] = 0
    BY <1>2 DEF Emptied
  <2>2. ~(w.acct[Token(r)] < 0)
    BY <2>1
  <2> QED  BY <1>1, <1>2, <2>1, <2>2, CloseEffect
<1>3. Emptied(r) \in SUBSET WalletState
  BY DEF Emptied
<1>4. r.close_in => Leads(<<Close(Token(r))>>, Emptied(r), WalletState)
  BY <1>1, <1>2, <1>3, InstrTyped, LeadsOne
<1> QED  BY <1>1, <1>3, <1>4, LeadsWhen

LEMMA SwapEmpties ==
  ASSUME NEW r \in TradeRequest, r.amount > 0, NEW to \in Places, to # Token(r),
         NEW w \in Sellable(r), Exists(w, to),
         NEW v \in Perform(Swap(Token(r), to, r.amount, r.amount), w)
  PROVE  Transferred(v, w, Token(r), to, r.amount) /\ v \in Emptied(r)
<1>1. /\ Token(r) \in Accounts /\ Token(r) \in Places /\ Token(r) # Native /\ r.amount \in Nat
  BY TradeAccounts, NativeApart DEF TradeRequest, Places
<1>2. /\ w \in WalletState /\ w.acct[Token(r)] >= r.amount
      /\ r.close_in => w.acct[Token(r)] = r.amount
  BY DEF Sellable
<1>3. w.acct[Token(r)] \in Int
  BY <1>1, <1>2, WalletTyped
<1>4. r.amount <= Balance(w, Token(r)) /\ 0 < r.amount
  BY <1>1, <1>2, <1>3, BalanceAt
<1>5. PICK n \in r.amount .. r.amount : Transferred(v, w, Token(r), to, n)
  BY <1>1, <1>2, <1>4, SwapWorks
<1>6. n = r.amount
  BY <1>1
<1>7. v \in WalletState /\ v.acct[Token(r)] = w.acct[Token(r)] - r.amount
  BY <1>1, <1>5, <1>6 DEF Transferred
<1> QED  BY <1>1, <1>2, <1>5, <1>6, <1>7 DEF Emptied

LEMMA SaleWorks ==
  ASSUME NEW r \in TradeRequest, r.amount > 0, NEW create \in BOOLEAN
  PROVE  Leads(Sale(r, create, Swap(Token(r), WsolAta, r.amount, r.amount)),
               {w \in Sellable(r) : create \/ w.acct[WsolAta] >= 0}, WalletState)
<1> DEFINE A == {w \in Sellable(r) : create \/ w.acct[WsolAta] >= 0}
           B == {w \in Sellable(r) : w.acct[WsolAta] >= 0}
           C == {w \in Emptied(r) : w.acct[WsolAta] >= 0}
<1>1. /\ Token(r) \in Accounts /\ Token(r) \in Places /\ WsolAta \in Places /\ WsolAta \in Accounts
      /\ Token(r) # WsolAta /\ WsolAta # Native /\ r.amount \in Nat /\ r.close_out \in BOOLEAN
  BY TradeAccounts, NativeApart, WsolAccounts DEF TradeRequest, Places
<1>2. /\ Sellable(r) \subseteq WalletState /\ Emptied(r) \subseteq WalletState
      /\ A \in SUBSET WalletState /\ B \in SUBSET WalletState /\ C \in SUBSET WalletState
  BY DEF Sellable, Emptied
<1>3. Leads(When(create, create_wsol_ata), A, B)
  <2>1. ASSUME NEW w \in A, NEW v \in Perform(Create(WsolAta), w) PROVE v \in B
    <3>1. v \in WalletState /\ Same(v, w, {WsolAta}) /\ v.acct[WsolAta] >= 0
      BY <1>1, <1>2, <2>1, CreateEffect
    <3>2. v.acct[Token(r)] = w.acct[Token(r)]
      BY <1>1, <3>1 DEF Same
    <3> QED  BY <3>1, <3>2 DEF Sellable
  <2>2. ~create => A \subseteq B
    OBVIOUS
  <2> HIDE DEF A, B
  <2>3. Leads(create_wsol_ata, A, B)
    BY <1>1, <1>2, <2>1, InstrTyped, LeadsOne DEF create_wsol_ata
  <2> QED  BY <2>2, <2>3, LeadsWhen
<1>4. Leads(<<Swap(Token(r), WsolAta, r.amount, r.amount)>>, B, C)
  <2>1. ASSUME NEW w \in B, NEW v \in Perform(Swap(Token(r), WsolAta, r.amount, r.amount), w)
        PROVE  v \in C
    <3>1. w \in WalletState /\ w.acct[WsolAta] \in Int /\ w.acct[WsolAta] >= 0
      BY <1>1, <1>2, <2>1, WalletTyped
    <3>2. Exists(w, WsolAta)
      BY <1>1, <3>1, BalanceAt
    <3>3. Transferred(v, w, Token(r), WsolAta, r.amount) /\ v \in Emptied(r)
      BY <1>1, <2>1, <3>2, SwapEmpties
    <3>4. v.acct[WsolAta] = w.acct[WsolAta] + r.amount
      BY <1>1, <3>3 DEF Transferred
    <3> QED  BY <1>1, <3>1, <3>3, <3>4
  <2>2. Swap(Token(r), WsolAta, r.amount, r.amount) \in Instr
    BY <1>1, InstrTyped
  <2> HIDE DEF B, C
  <2> QED  BY <1>2, <2>1, <2>2, LeadsOne
<1>5. Leads(When(r.close_out, close_wsol), C, Emptied(r))
  <2>1. ASSUME NEW w \in C, NEW v \in Perform(Close(WsolAta), w) PROVE v \in Emptied(r)
    <3>1. WsolAta[1] = "WSOL"
      BY DEF WsolAta
    <3>2. w \in WalletState /\ w.acct[WsolAta] \in Int /\ ~(w.acct[WsolAta] < 0)
      BY <1>1, <1>2, <2>1, WalletTyped
    <3>3. v \in WalletState /\ Same(v, w, {WsolAta})
      BY <1>1, <2>1, <3>1, <3>2, CloseEffect
    <3>4. v.acct[Token(r)] = w.acct[Token(r)]
      BY <1>1, <3>3 DEF Same
    <3> QED  BY <2>1, <3>3, <3>4 DEF Emptied
  <2>2. C \subseteq Emptied(r)
    OBVIOUS
  <2> HIDE DEF C
  <2>3. Leads(close_wsol, C, Emptied(r))
    BY <1>1, <1>2, <2>1, InstrTyped, LeadsOne DEF close_wsol
  <2> QED  BY <1>1, <2>2, <2>3, LeadsWhen
<1> DEFINE a == When(create, create_wsol_ata)
           b == <<Swap(Token(r), WsolAta, r.amount, r.amount)>>
           c == When(r.close_out, close_wsol)
           d == When(r.close_in, <<Close(Token(r))>>)
<1>6. Sale(r, create, Swap(Token(r), WsolAta, r.amount, r.amount)) = ((a \o b) \o c) \o d
  BY DEF Sale, Token
<1> HIDE DEF A, B, C, a, b, c, d
<1>7. Leads(a \o b, A, C)
  BY <1>3, <1>4, LeadsBoth DEF a, b
<1>8. Leads((a \o b) \o c, A, Emptied(r))
  BY <1>5, <1>7, LeadsBoth DEF c
<1>9. Leads(((a \o b) \o c) \o d, A, WalletState)
  BY <1>8, TokenCloses, LeadsBoth DEF d
<1> QED  BY <1>6, <1>9 DEF A

LEMMA SellWorks ==
  ASSUME NEW r \in TradeRequest, r.pool = "WSOL", r.money_is_quote, r.amount > 0,
         r.create_out \/ r.dex = "PumpFun", sell(r) # Refused, ~Misnamed(r), NEW w \in Sellable(r),
         r.dex = "Bonk" /\ ~r.close_out => w.acct[WsolAta] >= 0
  PROVE  Execute(sell(r), w) \subseteq WalletState
<1>1. CASE r.dex = "PumpFun"
  <2>1. sell(r) = <<Move(Token(r), Native, r.amount)>> \o When(r.close_in, <<Close(Token(r))>>)
    BY <1>1 DEF sell, PumpFun_sell
  <2>2. Move(Token(r), Native, r.amount) = Swap(Token(r), Native, r.amount, r.amount)
    BY DEF Move, Swap
  <2>3. Native \in Places /\ Token(r) \in Places /\ Token(r) # Native /\ r.amount \in Nat
    BY TradeAccounts, NativeApart DEF Places, TradeRequest
  <2>4. Sellable(r) \in SUBSET WalletState
    BY DEF Sellable
  <2>5. \A x \in Sellable(r) : \A v \in Perform(Swap(Token(r), Native, r.amount, r.amount), x) :
          v \in Emptied(r)
    BY <2>3, <2>4, BalanceAt, SwapEmpties
  <2>6. Leads(<<Swap(Token(r), Native, r.amount, r.amount)>>, Sellable(r), Emptied(r))
    BY <2>3, <2>4, <2>5, InstrTyped, LeadsOne
  <2>7. Leads(sell(r), Sellable(r), WalletState)
    BY <2>1, <2>2, <2>6, TokenCloses, LeadsBoth
  <2> QED  BY <2>7 DEF Leads, Achieves
<1>2. CASE r.dex # "PumpFun"
  <2>1. Cash(r) = WsolAta /\ r.create_out /\ r.create_out \in BOOLEAN /\ r.close_out \in BOOLEAN
    BY <1>2, TradeAccounts DEF TradeRequest
  <2> DEFINE create == r.close_out /\ r.pool # "USD1"
  <2>2. create = r.close_out
    BY <2>1
  <2> HIDE DEF create
  <2>3. \/ r.dex # "Bonk" /\ sell(r) = Sale(r, r.create_out, Swap(Token(r), WsolAta, r.amount, r.amount))
        \/ r.dex = "Bonk" /\ sell(r) = Sale(r, create, Swap(Token(r), WsolAta, r.amount, r.amount))
    <3>1. r.dex = "Bonk" => r.pool \in {"WSOL", "USD1"}
      OBVIOUS
    <3> QED  BY <1>2, <2>1, <3>1, SellForms, Zenon DEF create
  <2> DEFINE A(k) == {x \in Sellable(r) : k \/ x.acct[WsolAta] >= 0}
  <2>4. Leads(Sale(r, r.create_out, Swap(Token(r), WsolAta, r.amount, r.amount)), A(r.create_out), WalletState)
    BY <2>1, SaleWorks
  <2>5. Leads(Sale(r, create, Swap(Token(r), WsolAta, r.amount, r.amount)), A(create), WalletState)
    BY <2>1, <2>2, SaleWorks
  <2>6. w \in A(r.create_out) /\ (r.dex = "Bonk" => w \in A(create))
    BY <2>1, <2>2
  <2> HIDE DEF A
  <2> QED  BY <2>3, <2>4, <2>5, <2>6 DEF Leads, Achieves
<1> QED  BY <1>1, <1>2

\* The builders look at nothing but the seed option.
LEMMA BuildersSame ==
  ASSUME UNCHANGED seed
  PROVE  \A r : buy(r)' = buy(r) /\ sell(r)' = sell(r)
<1> SUFFICES ASSUME NEW r PROVE buy(r)' = buy(r) /\ sell(r)' = sell(r)
  OBVIOUS
<1>1. \A mint : /\ get_associated_token_address(mint)' = get_associated_token_address(mint)
                /\ create_associated_token_account(mint)' = create_associated_token_account(mint)
  BY DEF get_associated_token_address, create_associated_token_account, Seeded
<1>2. /\ PumpFun_buy(r)' = PumpFun_buy(r)
      /\ PumpFun_sell(r)' = PumpFun_sell(r)
  BY <1>1 DEF PumpFun_buy, PumpFun_sell, Token
<1>3. PumpSwap_buy(r)' = PumpSwap_buy(r)
  BY <1>1 DEF PumpSwap_buy, Purchase, BuyExactIn, Token, Cash
<1>4. PumpSwap_sell(r)' = PumpSwap_sell(r)
  BY <1>1 DEF PumpSwap_sell, Sale, SellExactIn, Token, Cash
<1>5. Bonk_buy(r)' = Bonk_buy(r)
  BY <1>1 DEF Bonk_buy, Purchase, BuyExactIn, Token, Cash
<1>6. Bonk_sell(r)' = Bonk_sell(r)
  BY <1>1 DEF Bonk_sell, Sale, SellExactIn, Token, Cash
<1>7. RaydiumCpmm_buy(r)' = RaydiumCpmm_buy(r)
  BY <1>1 DEF RaydiumCpmm_buy, Purchase, BuyExactIn, Token, Cash
<1>8. RaydiumCpmm_sell(r)' = RaydiumCpmm_sell(r)
  BY <1>1 DEF RaydiumCpmm_sell, Sale, SellExactIn, Token, Cash
<1>9. RaydiumAmmV4_buy(r)' = RaydiumAmmV4_buy(r)
  BY <1>1 DEF RaydiumAmmV4_buy, Purchase, BuyExactIn, Token, Cash
<1>10. RaydiumAmmV4_sell(r)' = RaydiumAmmV4_sell(r)
  BY <1>1 DEF RaydiumAmmV4_sell, Sale, SellExactIn, Token, Cash
<1>11. MeteoraDammV2_buy(r)' = MeteoraDammV2_buy(r)
  BY <1>1 DEF MeteoraDammV2_buy, OnAccountOf, Purchase, BuyExactIn, Token, Cash
<1>12. MeteoraDammV2_sell(r)' = MeteoraDammV2_sell(r)
  BY <1>1 DEF MeteoraDammV2_sell, OnAccountOf, Sale, SellExactIn, Token, Cash
<1>13. buy(r)' = buy(r)
  BY <1>2, <1>3, <1>5, <1>7, <1>9, <1>11 DEF buy
<1>14. sell(r)' = sell(r)
  BY <1>2, <1>4, <1>6, <1>8, <1>10, <1>12 DEF sell
<1> QED  BY <1>13, <1>14

\* A trade that was sent is what its builder made of it.
TradesBuilt ==
  \A c \in Callers : \A r : job[c].at = "sent" /\ job[c].req = r =>
    /\ job[c].tx # Refused
    /\ r.op = "buy" => job[c].tx = buy(r)
    /\ r.op = "sell" => job[c].tx = sell(r)

LEMMA CallBuilt ==
  ASSUME WalletInv, TradesBuilt, NEW c \in Callers, NEW request, Call(c, request)
  PROVE  TradesBuilt'
<1>1. PICK answered \in BOOLEAN :
        /\ UNCHANGED seed /\ job = [d \in Callers |-> job[d]]
        /\ \/ job' = [job EXCEPT ![c] = Idle]
           \/ /\ Build(Sized(request), answered) # Refused
              /\ job' = [job EXCEPT ![c] = [at |-> "sent", req |-> Sized(request),
                                           tx |-> Build(Sized(request), answered)]]
  BY DEF Call, WalletInv
<1>2. SUFFICES ASSUME NEW d \in Callers, NEW r, job'[d].at = "sent", job'[d].req = r
               PROVE  /\ job'[d].tx # Refused
                      /\ r.op = "buy" => job'[d].tx = buy(r)
                      /\ r.op = "sell" => job'[d].tx = sell(r)
  BY <1>1, BuildersSame DEF TradesBuilt, Refused
<1>3. CASE d # c
  <2>1. job'[d] = job[d]
    BY <1>1, <1>3
  <2> QED  BY <1>2, <2>1 DEF TradesBuilt
<1>4. CASE d = c
  <2>1. Build(r, answered) # Refused /\ job'[d].tx = Build(r, answered)
    <3>1. /\ Build(Sized(request), answered) # Refused
          /\ job'[d] = [at |-> "sent", req |-> Sized(request), tx |-> Build(Sized(request), answered)]
      BY <1>1, <1>2, <1>4 DEF Idle
    <3>2. r = Sized(request)
      BY <1>2, <3>1
    <3> QED  BY <3>1, <3>2
  <2>2. r.op = "buy" => Build(r, answered) = buy(r)
    BY DEF Build
  <2>3. r.op = "sell" => Build(r, answered) = sell(r)
    BY <2>1 DEF Build
  <2> QED  BY <2>1, <2>2, <2>3
<1> QED  BY <1>3, <1>4

LEMMA AnswerBuilt ==
  ASSUME WalletInv, TradesBuilt, UNCHANGED seed,
         UNCHANGED job \/ \E c \in Callers : \E result : result # "sent" /\ Answer(c, result)
  PROVE  TradesBuilt'
<1>1. job = [d \in Callers |-> job[d]]
  BY DEF WalletInv
<1>2. \A d \in Callers : job'[d].at = "sent" => job'[d] = job[d]
  BY <1>1 DEF Answer
<1>3. SUFFICES ASSUME NEW d \in Callers, NEW r, job'[d].at = "sent", job'[d].req = r
               PROVE  /\ job'[d].tx # Refused
                      /\ r.op = "buy" => job'[d].tx = buy(r)
                      /\ r.op = "sell" => job'[d].tx = sell(r)
  BY BuildersSame DEF TradesBuilt, Refused
<1> QED  BY <1>2, <1>3 DEF TradesBuilt

LEMMA NextBuilt == WalletInv /\ TradesBuilt /\ [WalletNext]_walletVars => TradesBuilt'
<1> SUFFICES ASSUME WalletInv, TradesBuilt, [WalletNext]_walletVars PROVE TradesBuilt'
  OBVIOUS
<1>1. ASSUME NEW c \in Callers, NEW r \in RequestsOf[c], Call(c, r) PROVE TradesBuilt'
  BY <1>1, CallBuilt
<1>2. ASSUME NEW c \in Callers, Land(c) PROVE TradesBuilt'
  <2>1. UNCHANGED seed /\ (Answer(c, "failed") \/ Answer(c, "landed"))
    BY <1>2 DEF Land
  <2> QED  BY <2>1, AnswerBuilt
<1>3. ASSUME NEW c \in Callers, Reject(c) PROVE TradesBuilt'
  <2>1. UNCHANGED seed /\ Answer(c, "rejected")
    BY <1>3 DEF Reject
  <2> QED  BY <2>1, AnswerBuilt
<1>4. CASE UNCHANGED walletVars
  BY <1>4, AnswerBuilt DEF walletVars
<1> QED  BY <1>1, <1>2, <1>3, <1>4 DEF WalletNext

LEMMA InitBuilt == WalletInit => TradesBuilt
  BY DEF WalletInit, TradesBuilt, Idle

\* A trade is answered "failed" only when it lands, and the chain refuses it.
LEMMA FailsWhenRefused ==
  ASSUME WalletInv, TradesBuilt, WalletNext, NEW c \in Callers, NEW op, FailsNow(c, op)
  PROVE  /\ IsRequest(job[c].req) /\ job[c].req.op = op /\ job[c].tx # Refused
         /\ Failed \in Execute(job[c].tx, wallet)
<1>1. job[c].at = "sent" /\ job[c].req.op = op /\ job'[c].at = "failed" /\ job = [d \in Callers |-> job[d]]
  BY DEF FailsNow, WalletInv
<1>2. IsRequest(job[c].req) /\ job[c].tx # Refused
  BY <1>1 DEF WalletInv, Ordered, TradesBuilt
<1>3. ASSUME NEW d \in Callers, NEW r \in RequestsOf[d], Call(d, r) PROVE FALSE
  <2>1. d # c
    BY <1>1, <1>3 DEF Call
  <2>2. job'[c] = job[c]
    BY <1>1, <1>3, <2>1 DEF Call
  <2> QED  BY <1>1, <2>2
<1>4. ASSUME NEW d \in Callers, Reject(d) PROVE FALSE
  BY <1>1, <1>4 DEF Reject, Answer
<1>5. ASSUME NEW d \in Callers, Land(d) PROVE Failed \in Execute(job[c].tx, wallet)
  <2>1. PICK w \in Execute(job[d].tx, wallet) :
          \/ w = Failed /\ Answer(d, "failed")
          \/ w # Failed /\ Answer(d, "landed")
    BY <1>5 DEF Land
  <2>2. d = c
    BY <1>1, <2>1 DEF Answer
  <2>3. w = Failed
    BY <1>1, <2>1, <2>2 DEF Answer
  <2> QED  BY <2>1, <2>2, <2>3
<1> QED  BY <1>1, <1>2, <1>3, <1>4, <1>5 DEF WalletNext

\* A purchase that opens its accounts and is paid in SOL (build_buy_instructions
\* of every DEX) fails for lack of SOL only, or, with the seed option, over an
\* account that is already there, or on Meteora over another token type than
\* the pool's, whatever landed since it was built.
THEOREM PurchasesExecute == WalletSpec => PurchaseExecutes
<1>1. ASSUME WalletInv, TradesBuilt, WalletNext, NEW c \in Callers, FailsNow(c, "buy"),
             job[c].req.pool = "WSOL", job[c].req.create_out,
             job[c].req.create_in \/ job[c].req.dex = "PumpFun", ~Misnamed(job[c].req)
      PROVE  \/ wallet.sol < job[c].req.amount + (IF job[c].req.exact THEN 0 ELSE Slippage)
             \/ seed /\ Exists(wallet, Token(job[c].req))
  <2> DEFINE r == job[c].req
  <2>1. IsRequest(r) /\ r.op = "buy" /\ job[c].tx # Refused /\ Failed \in Execute(job[c].tx, wallet)
    BY <1>1, FailsWhenRefused
  <2>2. job[c].tx = buy(r)
    BY <1>1, <2>1 DEF TradesBuilt, FailsNow
  <2>3. r.pool = "WSOL" /\ r.create_out /\ (r.create_in \/ r.dex = "PumpFun") /\ ~Misnamed(r)
    BY <1>1
  <2>4. wallet \in WalletState
    BY <1>1 DEF WalletInv
  <2> HIDE DEF r
  <2>5. r \in TradeRequest
    BY <2>1 DEF IsRequest
  <2>6. Leads(buy(r), Affordable(r), WalletState)
    BY <2>1, <2>2, <2>3, <2>5, BuyWorks
  <2>7. wallet \notin Affordable(r)
    <3>1. Failed \notin WalletState
      BY TradeWalletAssumption
    <3> QED  BY <2>1, <2>2, <2>6, <3>1 DEF Leads, Achieves
  <2>8. Token(r) \in Accounts
    BY <2>5, TradeAccounts
  <2>9. ~(Cost(r) <= wallet.sol) \/ (seed /\ ~(wallet.acct[Token(r)] < 0))
    BY <2>4, <2>7 DEF Affordable, Openable
  <2>10. Cost(r) \in Int /\ wallet.sol \in Int /\ wallet.acct[Token(r)] \in Int
    BY <2>4, <2>5, <2>8, WalletTyped, TradeWalletAssumption DEF Cost, TradeRequest
  <2>11. wallet.sol < Cost(r) \/ (seed /\ Exists(wallet, Token(r)))
    BY <2>4, <2>8, <2>9, <2>10, BalanceAt
  <2> QED  BY <2>11 DEF Cost, r
<1>2. WalletInv /\ TradesBuilt /\ [WalletNext]_walletVars =>
        [\A c \in Callers : FailsNow(c, "buy") =>
           LET r == job[c].req IN
           r.pool = "WSOL" /\ r.create_out /\ (r.create_in \/ r.dex = "PumpFun") =>
             \/ wallet.sol < r.amount + (IF r.exact THEN 0 ELSE Slippage)
             \/ seed /\ Exists(wallet, Token(r))
             \/ Misnamed(r)]_walletVars
  BY <1>1
<1> QED  BY <1>2, WalletInitInv, WalletNextInv, InitBuilt, NextBuilt, PTL DEF WalletSpec, PurchaseExecutes

\* A sale that opens the account for its proceeds (build_sell_instructions of
\* every DEX) fails only when the tokens it counted are gone, when more have
\* come into an account it closes, on Bonk for the account it did not open, or
\* on Meteora over another token type than the pool's.
THEOREM SalesExecute == WalletSpec => SaleExecutes
<1>1. ASSUME WalletInv, TradesBuilt, WalletNext, NEW c \in Callers, FailsNow(c, "sell"),
             job[c].req.pool = "WSOL", job[c].req.money_is_quote,
             job[c].req.create_out \/ job[c].req.dex = "PumpFun", ~Misnamed(job[c].req)
      PROVE  \/ job[c].req.amount = 0 \/ Balance(wallet, Token(job[c].req)) < job[c].req.amount
             \/ job[c].req.close_in /\ Balance(wallet, Token(job[c].req)) > job[c].req.amount
             \/ job[c].req.dex = "Bonk" /\ ~job[c].req.close_out /\ ~Exists(wallet, WsolAta)
  <2> DEFINE r == job[c].req
  <2>1. IsRequest(r) /\ r.op = "sell" /\ job[c].tx # Refused /\ Failed \in Execute(job[c].tx, wallet)
    BY <1>1, FailsWhenRefused
  <2>2. job[c].tx = sell(r)
    BY <1>1, <2>1 DEF TradesBuilt, FailsNow
  <2>3. r.pool = "WSOL" /\ r.money_is_quote /\ (r.create_out \/ r.dex = "PumpFun") /\ ~Misnamed(r)
    BY <1>1
  <2>4. wallet \in WalletState
    BY <1>1 DEF WalletInv
  <2> HIDE DEF r
  <2>5. r \in TradeRequest
    BY <2>1 DEF IsRequest
  <2>6. SUFFICES ASSUME r.amount # 0, ~(Balance(wallet, Token(r)) < r.amount),
                        ~(r.close_in /\ Balance(wallet, Token(r)) > r.amount),
                        ~(r.dex = "Bonk" /\ ~r.close_out /\ ~Exists(wallet, WsolAta))
                 PROVE  FALSE
    BY DEF r
  <2>7. r.amount \in Nat /\ Token(r) \in Accounts /\ r.close_in \in BOOLEAN
    BY <2>5, TradeAccounts DEF TradeRequest
  <2>8. Balance(wallet, Token(r)) = wallet.acct[Token(r)] /\ wallet.acct[Token(r)] \in Int
    BY <2>4, <2>7, BalanceAt, WalletTyped
  <2>9. r.amount > 0 /\ wallet.acct[Token(r)] >= r.amount
        /\ (r.close_in => wallet.acct[Token(r)] = r.amount)
    BY <2>6, <2>7, <2>8
  <2>10. wallet \in Sellable(r)
    BY <2>4, <2>9 DEF Sellable
  <2>11. r.dex = "Bonk" /\ ~r.close_out => wallet.acct[WsolAta] >= 0
    BY <2>4, <2>6, BalanceAt, WsolAccounts
  <2>12. Execute(sell(r), wallet) \subseteq WalletState
    BY <2>1, <2>2, <2>3, <2>5, <2>9, <2>10, <2>11, SellWorks
  <2> QED  BY <2>1, <2>2, <2>12, TradeWalletAssumption
<1>2. WalletInv /\ TradesBuilt /\ [WalletNext]_walletVars =>
        [\A c \in Callers : FailsNow(c, "sell") =>
           LET r == job[c].req IN
           r.pool = "WSOL" /\ r.money_is_quote /\ (r.create_out \/ r.dex = "PumpFun") =>
             \/ r.amount = 0 \/ Balance(wallet, Token(r)) < r.amount
             \/ r.close_in /\ Balance(wallet, Token(r)) > r.amount
             \/ r.dex = "Bonk" /\ ~r.close_out /\ ~Exists(wallet, WsolAta)
             \/ Misnamed(r)]_walletVars
  BY <1>1
<1> QED  BY <1>2, WalletInitInv, WalletNextInv, InitBuilt, NextBuilt, PTL DEF WalletSpec, SaleExecutes

-----------------------------------------------------------------------------
(* The start-up.                                                           *)

USE SdkStartupAssumption

\* TradingInfrastructure::new has returned.
Built == at \in {"balance", "ensure", "ready"}

(***************************************************************************)
(* The rents.  They are set one after the other, and none is ever unset;   *)
(* the updater and the clients come after both.                            *)
(***************************************************************************)
RentInv ==
  /\ rents \in [spl : {"unset", "set"}, t22 : {"unset", "set"}]
  /\ at = "rent2" => rents.spl = "set"
  /\ at \notin {"rent", "rent2"} => rents.spl = "set" /\ rents.t22 = "set"
  /\ updater => at \notin {"rent", "rent2"}
  /\ clients # {} => Built

(***************************************************************************)
(* The channels.  What infrastructure there is when it is built, and that  *)
(* nothing uses it before.                                                 *)
(***************************************************************************)
Wired ==
  /\ swqos_clients # <<>>
  /\ max_sender_concurrency \in 1 .. Len(swqos_clients)
  /\ effective_core_ids \subseteq 0 .. num_cores - 1
  /\ Cardinality(effective_core_ids) = Least(max_sender_concurrency, num_cores)

Names == STRING \cup {"Default"}

ChannelsInv ==
  /\ num_cores \in Nat /\ configs \in Seq(STRING) /\ swqos_clients \in Seq(Names)
  /\ next \in Nat \ {0} /\ max_sender_concurrency \in Nat
  /\ sender_thread_cores \in [Wallets -> Int]
  /\ clients # {} => Built
  /\ Built => Wired
  /\ clients = {} => sender_thread_cores = [w \in Wallets |-> 0]
  /\ \A w \in Wallets : sender_thread_cores[w] <= max_sender_concurrency
  /\ clients \subseteq Wallets

(***************************************************************************)
(* The WSOL accounts.  No creation of a wallet is under way before its     *)
(* ensure_wsol_ata has looked; between two attempts an account that is     *)
(* there, or may still come, went unseen.                                  *)
(***************************************************************************)
EnsureOK(w) ==
  /\ ensure[w].at \in {"off", "check"} => Pending(w) = {}
  /\ ensure[w].at = "create" /\ (w \in ata \/ Pending(w) # {}) => w \in unseen
  /\ w \notin clients /\ w # Main => ensure[w].at = "off"

Creation == [at : {"off", "check", "create", "confirm", "done", "panic"}, attempt : Int]

AbortInv ==
  /\ ensure \in [Wallets -> Creation]
  /\ at \notin {"ensure", "ready"} => ensure[Main].at = "off"
  /\ \A w \in Wallets : EnsureOK(w)
  /\ AbortExplained

-----------------------------------------------------------------------------
\* The steps that are neither the rents', nor the infrastructure's, nor those of
\* TradingClient::new.
AccountStep == LandCreate \/ ExpireCreate \/ \E w \in Wallets : EnsureStep(w)
OtherClient ==
  \/ \E w \in Wallets, c \in BOOLEAN : from_infrastructure(w, c)
  \/ \E w \in Wallets, count \in {1, 2} :
       with_dedicated_sender_threads(w, recommended_sender_thread_core_indices(count))

LEMMA NextCases ==
  ASSUME [Next]_vars
  PROVE  \/ aborted = {} /\ (NewStep \/ start_rent_updater \/ AccountStep \/ OtherClient)
         \/ UNCHANGED vars
  BY DEF Next, AccountStep, OtherClient

\* What happens to the accounts leaves everything else alone.
LEMMA AccountFrame ==
  ASSUME AccountStep
  PROVE  UNCHANGED <<at, setup, rents, updater, infra, clients, sender_thread_cores, sol>>
  BY DEF AccountStep, LandCreate, ExpireCreate, EnsureStep, ensure_wsol_ata, SendCreate,
         try_create_wsol_ata_once, Elsewhere

LEMMA RentInit == Init => RentInv
  BY DEF Init, RentInv

LEMMA RentNext ==
  ASSUME RentInv, [Next]_vars
  PROVE  RentInv'
<1>1. CASE update_rents
  BY <1>1 DEF update_rents, set_default_rents, RentInv, Built
<1>2. CASE start_rent_updater
  <2>1. rents.spl = "set" /\ rents.t22 = "set" /\ rents \in [spl : {"unset", "set"}, t22 : {"unset", "set"}]
    BY <1>2 DEF start_rent_updater, RentInv
  <2>2. rents'.spl = "set" /\ rents'.t22 = "set" /\ rents' \in [spl : {"unset", "set"}, t22 : {"unset", "set"}]
    BY <1>2, <2>1 DEF start_rent_updater
  <2>3. QED  BY <1>2, <2>2 DEF start_rent_updater, RentInv, Built
<1>3. CASE get_swqos_client \/ FinishInfrastructure \/ CheckBalance \/ FinishClient
  BY <1>3 DEF get_swqos_client, FinishInfrastructure, CheckBalance, FinishClient, RentInv, Built
<1>4. CASE AccountStep
  BY <1>4, AccountFrame DEF RentInv, Built
<1>5. CASE OtherClient
  BY <1>5 DEF OtherClient, from_infrastructure, with_dedicated_sender_threads, RentInv, Built
<1>6. CASE UNCHANGED vars
  BY <1>6 DEF vars, RentInv, Built
<1>7. QED  BY <1>1, <1>2, <1>3, <1>4, <1>5, <1>6, NextCases DEF NewStep

\* TradingInfrastructure::new: whether the fetches of the rents answer, fail or
\* time out, and whatever the updater does later, no client is handed out while
\* a rent is unset.
THEOREM RentAlwaysReady == Spec => []RentReady
<1>1. RentInv => RentReady
  BY DEF RentInv, RentReady, Built
<1>2. RentInv /\ [Next]_vars => RentInv'
  BY RentNext
<1>3. QED  BY <1>1, <1>2, RentInit, PTL DEF Spec

-----------------------------------------------------------------------------
\* At least one sender, no more than there are channels.
LEMMA CapRange ==
  ASSUME num_cores \in Nat, NEW count \in Nat \ {0}
  PROVE  cap_of(count) \in 1 .. count
  BY DEF cap_of, Most, Least

\* A block of n cores.
LEMMA CoreBlock ==
  ASSUME NEW a \in Int, NEW n \in Nat
  PROVE  IsFiniteSet(a .. a + n - 1) /\ Cardinality(a .. a + n - 1) = n
<1>1. a + n - 1 \in Int
  OBVIOUS
<1>2. /\ IsFiniteSet(a .. a + n - 1)
      /\ Cardinality(a .. a + n - 1) = IF a > a + n - 1 THEN 0 ELSE a + n - 1 - a + 1
  BY <1>1, FS_Interval
<1>3. QED  BY <1>2

\* The cores that are chosen exist, and are as many as the senders, or all.
LEMMA CoresChosen ==
  ASSUME NEW cores \in Nat, NEW cap \in Nat, NEW ids,
         \/ cores >= cap /\ ids = cores - cap .. cores - 1
         \/ ids = 0 .. Least(cap, cores) - 1
  PROVE  ids \subseteq 0 .. cores - 1 /\ Cardinality(ids) = Least(cap, cores)
<1>1. Least(cap, cores) \in 0 .. cores /\ (cores >= cap => Least(cap, cores) = cap)
  BY DEF Least
<1>2. CASE cores >= cap /\ ids = cores - cap .. cores - 1
  <2>1. ids = cores - cap .. (cores - cap) + cap - 1 /\ cores - cap \in Int
    BY <1>2
  <2>2. Cardinality(ids) = cap
    BY <2>1, CoreBlock
  <2>3. ids \subseteq 0 .. cores - 1
    BY <1>2
  <2>4. QED  BY <1>1, <1>2, <2>2, <2>3
<1>3. CASE ids = 0 .. Least(cap, cores) - 1
  <2> DEFINE n == Least(cap, cores)
  <2>1. n \in Nat /\ n <= cores /\ ids = 0 .. 0 + n - 1
    BY <1>1, <1>3
  <2> HIDE DEF n
  <2>2. Cardinality(ids) = n
    <3>1. 0 \in Int /\ n \in Nat
      BY <2>1
    <3>2. Cardinality(0 .. 0 + n - 1) = n
      BY <3>1, CoreBlock
    <3>3. QED  BY <2>1, <3>2, Zenon
  <2>3. ids \subseteq 0 .. cores - 1
    BY <1>1, <2>1
  <2>4. QED  BY <2>2, <2>3 DEF n
<1>4. QED  BY <1>2, <1>3

LEMMA OneElement ==
  ASSUME NEW S, NEW x \in S
  PROVE  <<x>> \in Seq(S) /\ Len(<<x>>) = 1
  OBVIOUS

LEMMA ChannelsInit == Init => ChannelsInv
<1> SUFFICES ASSUME Init PROVE ChannelsInv
  OBVIOUS
<1>1. PICK s \in Settings : configs = s.configs /\ num_cores = s.num_cores
  BY DEF Init
<1>2. configs \in Seq(STRING) /\ num_cores \in Nat
  BY <1>1
<1>3. swqos_clients \in Seq(Names)
  BY EmptySeq DEF Init
<1>4. QED  BY <1>2, <1>3 DEF Init, ChannelsInv, Built

LEMMA FinishWires ==
  ASSUME ChannelsInv, FinishInfrastructure
  PROVE  ChannelsInv'
<1> DEFINE cap == cap_of(Len(fallback))
<1>1. /\ at = "channels" /\ at' = "balance" /\ swqos_clients' = fallback
      /\ max_sender_concurrency' = cap
      /\ effective_core_ids' = IF from_end /\ num_cores >= cap THEN num_cores - cap .. num_cores - 1
                               ELSE 0 .. Least(cap, num_cores) - 1
      /\ UNCHANGED <<num_cores, configs, next, clients, sender_thread_cores>>
  BY DEF FinishInfrastructure
<1>2. fallback \in Seq(Names) /\ fallback # <<>> /\ Len(fallback) \in Nat \ {0}
  <2>1. CASE swqos_clients = <<>>
    <3>1. fallback = <<"Default">>
      BY <2>1 DEF fallback
    <3>2. "Default" \in Names
      BY DEF Names
    <3>3. fallback \in Seq(Names) /\ Len(fallback) = 1
      BY <3>1, <3>2, OneElement
    <3>4. fallback # <<>>
      BY <3>1
    <3>5. QED  BY <3>3, <3>4
  <2>2. CASE swqos_clients # <<>>
    <3>1. fallback = swqos_clients
      BY <2>2 DEF fallback
    <3>2. swqos_clients \in Seq(Names)
      BY DEF ChannelsInv
    <3>3. Len(swqos_clients) \in Nat \ {0}
      BY <2>2, <3>2, EmptySeq
    <3>4. QED  BY <2>2, <3>1, <3>2, <3>3
  <2>3. QED  BY <2>1, <2>2
<1>3. num_cores \in Nat /\ clients = {} /\ sender_thread_cores = [w \in Wallets |-> 0]
  BY <1>1 DEF ChannelsInv, Built
<1>4. cap \in 1 .. Len(fallback) /\ cap \in Nat
  BY <1>2, <1>3, CapRange
<1> HIDE DEF cap
<1>5. /\ effective_core_ids' \subseteq 0 .. num_cores - 1
      /\ Cardinality(effective_core_ids') = Least(cap, num_cores)
  BY <1>1, <1>3, <1>4, CoresChosen
<1>6. Wired'
  BY <1>1, <1>2, <1>4, <1>5 DEF Wired
<1>7. \A w \in Wallets : sender_thread_cores'[w] <= max_sender_concurrency'
  BY <1>1, <1>3, <1>4
<1>8. QED  BY <1>1, <1>2, <1>3, <1>4, <1>6, <1>7 DEF ChannelsInv

LEMMA ChannelsNext ==
  ASSUME ChannelsInv, [Next]_vars
  PROVE  ChannelsInv'
<1> USE DEF ChannelsInv, infra
<1>1. CASE update_rents \/ start_rent_updater
  BY <1>1 DEF update_rents, start_rent_updater, Built, Wired
<1>2. CASE get_swqos_client
  <2>1. /\ at = "channels" /\ at' = at /\ next' = next + 1 /\ next <= Len(configs)
        /\ swqos_clients' = Append(swqos_clients, configs[next]) \/ swqos_clients' = swqos_clients
        /\ UNCHANGED <<num_cores, configs, max_sender_concurrency, clients, sender_thread_cores>>
    BY <1>2 DEF get_swqos_client
  <2>2. configs[next] \in Names
    BY <2>1 DEF Names
  <2>3. swqos_clients' \in Seq(Names)
    <3>1. swqos_clients \in Seq(Names)
      OBVIOUS
    <3>2. Append(swqos_clients, configs[next]) \in Seq(Names)
      BY <2>2, <3>1, AppendProperties
    <3>3. QED  BY <2>1, <3>1, <3>2
  <2>4. next' \in Nat \ {0}
    BY <2>1
  <2>5. QED  BY <2>1, <2>3, <2>4 DEF Built
<1>3. CASE FinishInfrastructure
  BY <1>3, FinishWires
<1>4. CASE CheckBalance \/ FinishClient
  BY <1>4 DEF CheckBalance, FinishClient, Built, Wired
<1>5. CASE AccountStep
  BY <1>5, AccountFrame DEF Built, Wired
<1>6. ASSUME NEW w \in Wallets, NEW c \in BOOLEAN, from_infrastructure(w, c)
      PROVE  ChannelsInv'
  BY <1>6 DEF from_infrastructure, Built, Wired
<1>7. ASSUME NEW w \in Wallets, NEW count \in {1, 2},
             with_dedicated_sender_threads(w, recommended_sender_thread_core_indices(count))
      PROVE  ChannelsInv'
  <2> DEFINE cores == recommended_sender_thread_core_indices(count)
  <2> DEFINE n == Least(Cardinality(cores), max_sender_concurrency)
  <2>1. w \in clients /\ sender_thread_cores' = [sender_thread_cores EXCEPT ![w] = n]
        /\ UNCHANGED <<at, infra, clients>>
    BY <1>7 DEF with_dedicated_sender_threads
  <2>2. Cardinality(cores) \in Nat
    <3>1. cap_of(count) \in Nat
      BY CapRange
    <3>2. Least(cap_of(count), num_cores) \in Nat
      BY <3>1 DEF Least
    <3>3. num_cores - Least(cap_of(count), num_cores) \in Int /\ num_cores - 1 \in Int
      BY <3>2
    <3>4. IsFiniteSet(cores)
      BY <3>3, FS_Interval DEF recommended_sender_thread_core_indices
    <3>5. QED  BY <3>4, FS_CardinalityType
  <2> HIDE DEF cores
  <2>3. n \in Int /\ n <= max_sender_concurrency
    BY <2>2 DEF Least
  <2> HIDE DEF n
  <2>4. QED  BY <2>1, <2>3 DEF Built, Wired
<1>8. CASE UNCHANGED vars
  BY <1>8 DEF vars, Built, Wired
<1>9. QED
  BY <1>1, <1>2, <1>3, <1>4, <1>5, <1>6, <1>7, <1>8, NextCases DEF NewStep, OtherClient

\* Whatever channels are configured and however many of them fail or are
\* blacklisted, on any number of cores, known or not: a client has a channel, a
\* sender at least and no more than channels, on cores that exist.
THEOREM ChannelsAlwaysReady == Spec => []ChannelsReady
<1>1. ChannelsInv => ChannelsReady
  BY DEF ChannelsInv, ChannelsReady, Built, Wired
<1>2. ChannelsInv /\ [Next]_vars => ChannelsInv'
  BY ChannelsNext
<1>3. QED  BY <1>1, <1>2, ChannelsInit, PTL DEF Spec

\* Both: no client is handed out over an incomplete infrastructure.
THEOREM ClientAlwaysReady == Spec => []ClientReady
BY RentAlwaysReady, ChannelsAlwaysReady, PTL DEF ClientReady

-----------------------------------------------------------------------------
\* A wallet whose own ensure_wsol_ata does not move: what lands was pending.
LEMMA OtherWallet ==
  ASSUME NEW u \in Wallets, EnsureOK(u), ensure'[u] = ensure[u], clients \subseteq clients',
         unseen \subseteq unseen', Pending(u)' \subseteq Pending(u),
         u \in ata' => u \in ata \/ Pending(u) # {}
  PROVE  EnsureOK(u)'
  BY DEF EnsureOK

LEMMA AbortInit == Init => AbortInv
<1> SUFFICES ASSUME Init PROVE AbortInv
  OBVIOUS
<1>1. ensure = [w \in Wallets |-> [at |-> "off", attempt |-> 0]] /\ inflight = {} /\ aborted = {}
  BY DEF Init
<1>2. [at |-> "off", attempt |-> 0] \in Creation
  BY DEF Creation
<1>3. \A w \in Wallets : EnsureOK(w)
  BY <1>1 DEF EnsureOK, Pending
<1>4. QED  BY <1>1, <1>2, <1>3 DEF AbortInv, AbortExplained

\* A call of ensure_wsol_ata starts for a wallet that has had none.
LEMMA StartEnsure ==
  ASSUME AbortInv, aborted = {}, NEW w \in Wallets, ensure[w].at = "off",
         ensure' = [ensure EXCEPT ![w].at = "check"] \/ ensure' = ensure,
         UNCHANGED <<ata, inflight, unseen, aborted>>,
         clients' = clients \/ clients' = clients \cup {w},
         w \in clients' \/ w = Main,
         at' \notin {"ensure", "ready"} => ensure'[Main].at = "off"
  PROVE  AbortInv'
<1>1. ensure' \in [Wallets -> Creation]
  BY DEF AbortInv, Creation
<1>2. \A u \in Wallets \ {w} : ensure'[u] = ensure[u]
  BY DEF AbortInv
<1>3. \A u : Pending(u)' = Pending(u)
  BY DEF Pending
<1>4. \A u \in Wallets \ {w} : EnsureOK(u)'
  BY <1>2, <1>3, OtherWallet DEF AbortInv
<1>5. ensure'[w].at \in {"off", "check"} /\ Pending(w) = {}
  BY DEF AbortInv, Creation, EnsureOK
<1>6. EnsureOK(w)'
  BY <1>3, <1>5 DEF EnsureOK
<1>7. QED  BY <1>1, <1>4, <1>6 DEF AbortInv, AbortExplained

\* A step that concerns neither accounts nor clients.
LEMMA NoAccount ==
  ASSUME AbortInv, UNCHANGED <<ata, ensure, inflight, unseen, aborted>>, clients \subseteq clients',
         at' \notin {"ensure", "ready"} => at \notin {"ensure", "ready"}
  PROVE  AbortInv'
<1>1. \A u : Pending(u)' = Pending(u)
  BY DEF Pending
<1>2. \A u \in Wallets : EnsureOK(u)'
  BY <1>1, OtherWallet DEF AbortInv
<1>3. QED  BY <1>2 DEF AbortInv, AbortExplained

\* The chain's steps: aborted is empty, and stays so.
LEMMA ChainStep ==
  ASSUME AbortInv, aborted = {}, LandCreate \/ ExpireCreate
  PROVE  AbortInv'
<1>1. PICK tx \in inflight :
        /\ inflight' = inflight \ {tx} /\ ata' \in {ata, ata \cup {tx[1]}}
        /\ UNCHANGED <<at, clients, ensure, unseen, aborted>>
  BY DEF LandCreate, ExpireCreate, Elsewhere
<1>2. ASSUME NEW u \in Wallets PROVE EnsureOK(u)'
  <2>1. Pending(u)' \subseteq Pending(u)
    BY <1>1 DEF Pending
  <2>2. u \in ata' => u \in ata \/ Pending(u) # {}
    BY <1>1 DEF Pending
  <2>3. EnsureOK(u)
    BY DEF AbortInv
  <2>4. QED  BY <1>1, <2>1, <2>2, <2>3, OtherWallet
<1>3. QED  BY <1>1, <1>2 DEF AbortInv, AbortExplained

\* A step of w's ensure_wsol_ata.  It may end in "create" or in an abort only
\* when an account that is there or may still come is counted as unseen.
LEMMA EnsureMoves ==
  ASSUME AbortInv, aborted = {}, NEW w \in Wallets, ensure[w].at \in {"check", "create", "confirm"},
         NEW new \in Creation, ensure' = [ensure EXCEPT ![w] = new],
         new.at \in {"create", "confirm", "done", "panic"},
         UNCHANGED <<at, clients, ata>>, unseen \subseteq unseen',
         \A u \in Wallets \ {w} : Pending(u)' = Pending(u),
         aborted' \in {{}, {w}},
         new.at = "create" /\ (w \in ata \/ Pending(w)' # {}) => w \in unseen',
         aborted' = {w} /\ w \in ata => w \in unseen'
  PROVE  AbortInv'
<1>1. ensure' \in [Wallets -> Creation] /\ ensure'[w] = new
      /\ \A u \in Wallets \ {w} : ensure'[u] = ensure[u]
  BY DEF AbortInv
<1>2. \A u \in Wallets \ {w} : EnsureOK(u)'
  BY <1>1, OtherWallet DEF AbortInv
<1>3. EnsureOK(w)'
  <2>1. w \in clients \/ w = Main
    BY DEF AbortInv, EnsureOK
  <2>2. QED  BY <1>1, <2>1 DEF EnsureOK
<1>4. at' \notin {"ensure", "ready"} => ensure'[Main].at = "off"
  <2>1. at' \notin {"ensure", "ready"} => ensure[Main].at = "off"
    BY DEF AbortInv
  <2>2. QED  BY <1>1, <2>1
<1>5. AbortExplained'
  BY DEF AbortExplained
<1>6. QED  BY <1>1, <1>2, <1>3, <1>4, <1>5 DEF AbortInv

\* Where an attempt that failed leaves the wallet.
LEMMA FailMoves ==
  ASSUME AbortInv, aborted = {}, NEW w \in Wallets, AttemptFails(w)
  PROVE  \E new \in Creation : /\ ensure' = [ensure EXCEPT ![w] = new]
                               /\ new.at \in {"create", "panic"} /\ aborted' \in {{}, {w}}
<1>1. ensure[w] \in Creation /\ ensure \in [Wallets -> Creation]
  BY DEF AbortInv
<1>2. CASE ensure[w].attempt < MAX_RETRIES
  <2> DEFINE new == [at |-> "create", attempt |-> ensure[w].attempt + 1]
  <2>1. ensure' = [ensure EXCEPT ![w] = new] /\ aborted' = {}
    BY <1>1, <1>2 DEF AttemptFails
  <2>2. new \in Creation
    BY <1>1 DEF Creation
  <2>3. QED  BY <2>1, <2>2
<1>3. CASE ~(ensure[w].attempt < MAX_RETRIES)
  <2> DEFINE new == [ensure[w] EXCEPT !.at = "panic"]
  <2>1. ensure' = [ensure EXCEPT ![w] = new] /\ aborted' = {w}
    BY <1>1, <1>3 DEF AttemptFails, Set
  <2>2. new \in Creation /\ new.at = "panic"
    BY <1>1 DEF Creation
  <2>3. QED  BY <2>1, <2>2
<1>4. QED  BY <1>2, <1>3

LEMMA SetMoves ==
  ASSUME AbortInv, NEW w \in Wallets, NEW pc \in {"confirm", "done"}, Set(w, pc)
  PROVE  \E new \in Creation : ensure' = [ensure EXCEPT ![w] = new] /\ new.at = pc
<1> DEFINE new == [ensure[w] EXCEPT !.at = pc]
<1>1. ensure[w] \in Creation /\ ensure \in [Wallets -> Creation]
  BY DEF AbortInv
<1>2. ensure' = [ensure EXCEPT ![w] = new]
  BY <1>1 DEF Set
<1>3. new \in Creation /\ new.at = pc
  BY <1>1 DEF Creation
<1>4. QED  BY <1>2, <1>3

LEMMA EnsureKeeps ==
  ASSUME AbortInv, aborted = {}, NEW w \in Wallets, EnsureStep(w)
  PROVE  AbortInv'
<1>1. CASE ensure_wsol_ata(w)
  <2>1. /\ ensure[w].at = "check" /\ UNCHANGED <<at, clients, ata, inflight, aborted>>
        /\ unseen \subseteq unseen'
    BY <1>1 DEF ensure_wsol_ata, Elsewhere
  <2>2. \A u : Pending(u)' = Pending(u)
    BY <2>1 DEF Pending
  <2>3. Pending(w) = {}
    BY <2>1 DEF AbortInv, EnsureOK
  <2>4. CASE Set(w, "done")
    <3>1. PICK new \in Creation : ensure' = [ensure EXCEPT ![w] = new] /\ new.at = "done"
      BY <2>4, SetMoves
    <3>2. QED  BY <2>1, <2>2, <3>1, EnsureMoves
  <2>5. CASE /\ ensure' = [ensure EXCEPT ![w] = [at |-> "create", attempt |-> 1]]
             /\ unseen' = IF w \in ata THEN unseen \cup {w} ELSE unseen
    <3> DEFINE new == [at |-> "create", attempt |-> 1]
    <3>1. new \in Creation /\ new.at = "create" /\ ensure' = [ensure EXCEPT ![w] = new]
      BY <2>5 DEF Creation
    <3>2. w \in ata => w \in unseen'
      BY <2>5
    <3> HIDE DEF new
    <3>3. QED  BY <2>1, <2>2, <2>3, <3>1, <3>2, EnsureMoves
  <2>6. QED  BY <1>1, <2>4, <2>5 DEF ensure_wsol_ata
<1>2. CASE SendCreate(w)
  <2>1. ensure[w].at = "create" /\ UNCHANGED <<at, clients, ata, unseen>>
    BY <1>2 DEF SendCreate, Elsewhere
  <2>2. (w \in ata \/ Pending(w) # {}) => w \in unseen
    BY <2>1 DEF AbortInv, EnsureOK
  <2>3. CASE /\ Set(w, "confirm") /\ UNCHANGED aborted
             /\ inflight' = inflight \cup {<<w, ensure[w].attempt>>}
    <3>1. PICK new \in Creation : ensure' = [ensure EXCEPT ![w] = new] /\ new.at = "confirm"
      BY <2>3, SetMoves
    <3>2. \A u \in Wallets \ {w} : Pending(u)' = Pending(u)
      BY <2>3 DEF Pending
    <3>3. QED  BY <2>1, <2>3, <3>1, <3>2, EnsureMoves
  <2>4. CASE AttemptFails(w) /\ UNCHANGED inflight
    <3>1. PICK new \in Creation : /\ ensure' = [ensure EXCEPT ![w] = new]
                                  /\ new.at \in {"create", "panic"} /\ aborted' \in {{}, {w}}
      BY <2>4, FailMoves
    <3>2. \A u : Pending(u)' = Pending(u)
      BY <2>4 DEF Pending
    <3>3. QED  BY <2>1, <2>2, <3>1, <3>2, EnsureMoves
  <2>5. QED  BY <1>2, <2>3, <2>4 DEF SendCreate
<1>3. CASE try_create_wsol_ata_once(w)
  <2>1. ensure[w].at = "confirm" /\ UNCHANGED <<at, clients, ata, inflight>>
    BY <1>3 DEF try_create_wsol_ata_once, Elsewhere
  <2>2. \A u : Pending(u)' = Pending(u)
    BY <2>1 DEF Pending
  <2>3. CASE Set(w, "done") /\ UNCHANGED <<unseen, aborted>>
    <3>1. PICK new \in Creation : ensure' = [ensure EXCEPT ![w] = new] /\ new.at = "done"
      BY <2>3, SetMoves
    <3>2. QED  BY <2>1, <2>2, <2>3, <3>1, EnsureMoves
  <2>4. CASE /\ AttemptFails(w) /\ unseen \subseteq unseen'
             /\ w \in unseen' \/ (w \notin ata /\ Pending(w) \subseteq unseen')
    <3>1. PICK new \in Creation : /\ ensure' = [ensure EXCEPT ![w] = new]
                                  /\ new.at \in {"create", "panic"} /\ aborted' \in {{}, {w}}
      BY <2>4, FailMoves
    <3>2. (w \in ata \/ Pending(w) # {}) => w \in unseen'
      BY <2>4 DEF Pending
    <3>3. QED  BY <2>1, <2>2, <2>4, <3>1, <3>2, EnsureMoves
  <2>5. QED  BY <1>3, <2>3, <2>4 DEF try_create_wsol_ata_once
<1>4. QED  BY <1>1, <1>2, <1>3 DEF EnsureStep

LEMMA AbortNext ==
  ASSUME AbortInv, [Next]_vars
  PROVE  AbortInv'
<1>1. CASE UNCHANGED vars
  BY <1>1, NoAccount DEF vars, accounts
<1> SUFFICES ASSUME aborted = {}, NewStep \/ start_rent_updater \/ AccountStep \/ OtherClient
             PROVE  AbortInv'
  BY <1>1, NextCases
<1>2. CASE update_rents \/ start_rent_updater \/ get_swqos_client \/ FinishInfrastructure
             \/ FinishClient
  BY <1>2, NoAccount
     DEF update_rents, start_rent_updater, get_swqos_client, FinishInfrastructure, FinishClient,
         accounts
<1>3. CASE CheckBalance
  <2>1. ensure[Main].at = "off"
    BY <1>3 DEF CheckBalance, AbortInv
  <2>2. at' \in {"ensure", "ready"} /\ UNCHANGED <<ata, inflight, unseen, aborted>>
        /\ (ensure' = [ensure EXCEPT ![Main].at = "check"] \/ ensure' = ensure)
        /\ (clients' = clients \/ clients' = clients \cup {Main})
    BY <1>3 DEF CheckBalance
  <2>3. QED  BY <2>1, <2>2, StartEnsure
<1>4. CASE AccountStep
  BY <1>4, ChainStep, EnsureKeeps DEF AccountStep
<1>5. ASSUME NEW w \in Wallets, NEW c \in BOOLEAN, from_infrastructure(w, c)
      PROVE  AbortInv'
  <2>1. /\ w \notin clients \cup {Main} /\ clients' = clients \cup {w}
        /\ (ensure' = [ensure EXCEPT ![w].at = "check"] \/ ensure' = ensure)
        /\ UNCHANGED <<at, ata, inflight, unseen, aborted>>
    BY <1>5 DEF from_infrastructure
  <2>2. ensure[w].at = "off"
    BY <2>1 DEF AbortInv, EnsureOK
  <2>3. at' \notin {"ensure", "ready"} => ensure'[Main].at = "off"
    BY <2>1 DEF AbortInv
  <2>4. QED  BY <2>1, <2>2, <2>3, StartEnsure
<1>6. CASE \E w \in Wallets, count \in {1, 2} :
             with_dedicated_sender_threads(w, recommended_sender_thread_core_indices(count))
  BY <1>6, NoAccount DEF with_dedicated_sender_threads, accounts
<1>7. QED  BY <1>2, <1>3, <1>4, <1>5, <1>6 DEF NewStep, OtherClient

\* ensure_wsol_ata: the process is aborted over a wallet's account only when the
\* account does not exist, or a look at it or a confirmation of it was not
\* answered, or a creation that was given up could still land; for any number
\* of wallets whose creations run side by side.
THEOREM AbortAlwaysExplained == Spec => []AbortExplained
<1>1. AbortInv => AbortExplained
  BY DEF AbortInv
<1>2. AbortInv /\ [Next]_vars => AbortInv'
  BY AbortNext
<1>3. QED  BY <1>1, <1>2, AbortInit, PTL DEF Spec
===============================================================================
