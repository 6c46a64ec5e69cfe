-------------------------- MODULE TransactionProofs ---------------------------
(***************************************************************************)
(* Proofs about what a transaction is made with: its fees (GasFeeStrategy) *)
(* and the shared structures it passes through (TransactionAssembly).      *)
(*                                                                         *)
(* NeverUnset and KindsExclusive for every set of channels, fees and       *)
(* writers.  Both rest on what a call is made of: a deletion is followed   *)
(* by an insertion for its pair (Replaces), and before an insertion the    *)
(* kinds it excludes were deleted by the same call (Cleans).  While a call *)
(* runs, the deletions it has made live on in the map (Cleaning), as long  *)
(* as no other call works on the pair.                                     *)
(*                                                                         *)
(* SentAsAsked and NonceFirst for every set of threads and jobs and every  *)
(* list of middlewares.  The invariant says for each stage of a thread     *)
(* what it holds, as a function of its job alone.                          *)
(***************************************************************************)
EXTENDS GasFeeStrategy, TransactionAssembly, SequenceTheorems, FiniteSetTheorems,
        WellFoundedInduction, TLAPS

DelStep == [op: {"del"}, pair: Pairs, kinds: SUBSET Kinds]
PutStep == [op: {"put"}, pair: Pairs, kind: Kinds, value: Values]
Step == DelStep \cup PutStep

Rivals(k) == IF k = "Normal" THEN Kinds \ {"Normal"} ELSE {"Normal"}
Deletes(step, p, c) == step.op = "del" /\ step.pair = p /\ c \in step.kinds
Inserts(step, p, c) == step.op = "put" /\ step.pair = p /\ step.kind = c

\* Every deletion is followed by an insertion for the pair.
Replaces(s) == \A i \in DOMAIN s : s[i].op = "del" =>
  \E j \in DOMAIN s : j > i /\ s[j].op = "put" /\ s[j].pair = s[i].pair

\* The step at i comes after a deletion of kind c of its pair, and no insertion
\* of that kind comes between them.
Cleared(s, i, c) == \E j \in DOMAIN s :
  /\ j < i /\ Deletes(s[j], s[i].pair, c)
  /\ \A m \in DOMAIN s : j < m /\ m < i => ~Inserts(s[m], s[i].pair, c)

Cleans(s) == \A i \in DOMAIN s : s[i].op = "put" =>
  \A c \in Rivals(s[i].kind) : Cleared(s, i, c)

WholeCall(s) == s \in Seq(Step) /\ Replaces(s) /\ Cleans(s)

(***************************************************************************)
(* The inductive invariant.                                                *)
(***************************************************************************)
GasTypeOK ==
  /\ strategies \in [Pairs -> [Kinds -> Values \cup {Absent}]]
  /\ todo \in [Writers -> Seq(Step)]
  /\ touched \in [Writers -> SUBSET Pairs]
  /\ configured \subseteq Pairs /\ contended \subseteq Pairs

Replacing == \A w \in Writers : Replaces(todo[w])

Touching == \A w \in Writers : \A i \in DOMAIN todo[w] : todo[w][i].pair \in touched[w]

Overlaps == \A w, v \in Writers :
  w # v /\ todo[w] # <<>> /\ todo[v] # <<>> => touched[w] \cap touched[v] \subseteq contended

\* The step at i of s would find kind c of its pair empty if the map does not
\* change before s starts.
Vacant(s, i, c) ==
  /\ strategies[s[i].pair][c] = Absent
  /\ \A m \in DOMAIN s : m < i => ~Inserts(s[m], s[i].pair, c)

Cleaning == \A w \in Writers : \A i \in DOMAIN todo[w] :
  todo[w][i].op = "put" /\ todo[w][i].pair \notin contended =>
    \A c \in Rivals(todo[w][i].kind) : Cleared(todo[w], i, c) \/ Vacant(todo[w], i, c)

Exclusive == \A p \in Pairs \ contended : strategies[p]["Normal"] # Absent =>
  \A c \in Rivals("Normal") : strategies[p][c] = Absent

UnsetInv == GasTypeOK /\ Replacing /\ NeverUnset
KindsInv == GasTypeOK /\ Touching /\ Overlaps /\ Cleaning /\ Exclusive

(***************************************************************************)
(* Calls.                                                                  *)
(***************************************************************************)

\* What the fields of a step are.
LEMMA StepFields ==
  ASSUME NEW step \in Step
  PROVE  /\ step.op \in {"del", "put"} /\ step.pair \in Pairs
         /\ step.op = "put" => step.kind \in Kinds /\ step.value \in Values
         /\ step.op = "del" => step.kinds \in SUBSET Kinds
BY DEF Step, DelStep, PutStep

\* The deletions and insertions of the code are steps.
LEMMA StepKinds ==
  ASSUME NEW p \in Pairs, NEW k \in Kinds, NEW v \in Values
  PROVE  Del(p, k) \in Step /\ DelAll(p) \in Step /\ Put(p, k, v) \in Step
BY DEF Step, DelStep, PutStep, Del, DelAll, Put, Kinds

\* A sequence and a call after it are a call if the call inserts what the
\* sequence deletes and leaves open.
InsertsFor(t, p) == \E j \in DOMAIN t : t[j].op = "put" /\ t[j].pair = p
Completes(s, t) == \A i \in DOMAIN s : s[i].op = "del" =>
  \/ \E j \in DOMAIN s : j > i /\ s[j].op = "put" /\ s[j].pair = s[i].pair
  \/ InsertsFor(t, s[i].pair)

LEMMA ConcatCompletes ==
  ASSUME NEW s \in Seq(Step), NEW t, Cleans(s), WholeCall(t), Completes(s, t)
  PROVE  WholeCall(s \o t)
<1> DEFINE u == s \o t
<1>1. s \in Seq(Step) /\ t \in Seq(Step) /\ Len(s) \in Nat /\ Len(t) \in Nat
  BY LenProperties DEF WholeCall
<1>2. u \in Seq(Step) /\ Len(u) = Len(s) + Len(t)
  BY <1>1, ConcatProperties
<1>3. /\ DOMAIN s = 1..Len(s) /\ DOMAIN t = 1..Len(t) /\ DOMAIN u = 1..(Len(s) + Len(t))
  BY <1>1, <1>2, LenProperties
<1>4. /\ \A i \in 1..Len(s) : u[i] = s[i]
      /\ \A i \in 1..Len(t) : u[Len(s) + i] = t[i]
  <2>1. \A i \in 1..(Len(s) + Len(t)) : u[i] = IF i <= Len(s) THEN s[i] ELSE t[i - Len(s)]
    BY <1>1, ConcatProperties
  <2> QED  BY <1>1, <2>1
<1> HIDE DEF u
<1>5. Replaces(u)
  <2> SUFFICES ASSUME NEW i \in DOMAIN u, u[i].op = "del"
               PROVE  \E j \in DOMAIN u : j > i /\ u[j].op = "put" /\ u[j].pair = u[i].pair
    BY DEF Replaces
  <2>1. CASE i <= Len(s)
    <3>1. i \in DOMAIN s /\ u[i] = s[i]
      BY <1>1, <1>3, <1>4, <2>1
    <3>2. \/ \E j \in DOMAIN s : j > i /\ s[j].op = "put" /\ s[j].pair = u[i].pair
          \/ \E j \in DOMAIN t : t[j].op = "put" /\ t[j].pair = u[i].pair
      BY <3>1 DEF Completes, InsertsFor
    <3>3. CASE \E j \in DOMAIN s : j > i /\ s[j].op = "put" /\ s[j].pair = u[i].pair
      BY <1>1, <1>3, <1>4, <3>3
    <3>4. CASE \E j \in DOMAIN t : t[j].op = "put" /\ t[j].pair = u[i].pair
      <4>1. PICK j \in DOMAIN t : t[j].op = "put" /\ t[j].pair = u[i].pair
        BY <3>4
      <4>2. Len(s) + j \in DOMAIN u /\ Len(s) + j > i /\ u[Len(s) + j] = t[j]
        BY <1>1, <1>3, <1>4, <2>1
      <4> QED  BY <4>1, <4>2
    <3> QED  BY <3>2, <3>3, <3>4
  <2>2. CASE i > Len(s)
    <3>1. i - Len(s) \in DOMAIN t /\ u[i] = t[i - Len(s)]
      BY <1>1, <1>3, <1>4, <2>2
    <3>2. PICK j \in DOMAIN t : j > i - Len(s) /\ t[j].op = "put" /\ t[j].pair = u[i].pair
      BY <3>1 DEF WholeCall, Replaces
    <3>3. Len(s) + j \in DOMAIN u /\ Len(s) + j > i /\ u[Len(s) + j] = t[j]
      BY <1>1, <1>3, <1>4, <2>2, <3>2
    <3> QED  BY <3>2, <3>3
  <2> QED  BY <1>1, <1>3, <2>1, <2>2
<1>6. Cleans(u)
  <2> SUFFICES ASSUME NEW i \in DOMAIN u, u[i].op = "put", NEW c \in Rivals(u[i].kind)
               PROVE  Cleared(u, i, c)
    BY DEF Cleans
  <2>1. CASE i <= Len(s)
    <3>1. i \in DOMAIN s /\ u[i] = s[i]
      BY <1>1, <1>3, <1>4, <2>1
    <3>2. Cleared(s, i, c)
      BY <3>1 DEF Cleans
    <3>3. PICK j \in DOMAIN s : /\ j < i /\ Deletes(s[j], u[i].pair, c)
                                /\ \A m \in DOMAIN s : j < m /\ m < i => ~Inserts(s[m], u[i].pair, c)
      BY <3>1, <3>2 DEF Cleared
    <3>4. j \in DOMAIN u /\ u[j] = s[j]
      BY <1>1, <1>3, <1>4
    <3>5. \A m \in DOMAIN u : j < m /\ m < i => m \in DOMAIN s /\ u[m] = s[m]
      BY <1>1, <1>3, <1>4, <2>1
    <3> QED  BY <3>3, <3>4, <3>5 DEF Cleared
  <2>2. CASE i > Len(s)
    <3>1. i - Len(s) \in DOMAIN t /\ u[i] = t[i - Len(s)]
      BY <1>1, <1>3, <1>4, <2>2
    <3>2. Cleared(t, i - Len(s), c)
      BY <3>1 DEF WholeCall, Cleans
    <3>3. PICK j \in DOMAIN t :
            /\ j < i - Len(s) /\ Deletes(t[j], u[i].pair, c)
            /\ \A m \in DOMAIN t : j < m /\ m < i - Len(s) => ~Inserts(t[m], u[i].pair, c)
      BY <3>1, <3>2 DEF Cleared
    <3>4. Len(s) + j \in DOMAIN u /\ Len(s) + j < i /\ u[Len(s) + j] = t[j]
      BY <1>1, <1>3, <1>4, <3>3
    <3>5. \A m \in DOMAIN u : Len(s) + j < m /\ m < i =>
            m - Len(s) \in DOMAIN t /\ j < m - Len(s) /\ m - Len(s) < i - Len(s) /\ u[m] = t[m - Len(s)]
      <4> SUFFICES ASSUME NEW m \in DOMAIN u, Len(s) + j < m, m < i
                   PROVE  m - Len(s) \in DOMAIN t /\ j < m - Len(s)
                          /\ m - Len(s) < i - Len(s) /\ u[m] = t[m - Len(s)]
        OBVIOUS
      <4>1. m - Len(s) \in 1..Len(t)
        BY <1>1, <1>3, <2>2
      <4>2. u[Len(s) + (m - Len(s))] = t[m - Len(s)]
        BY <1>4, <4>1
      <4>3. Len(s) + (m - Len(s)) = m
        BY <1>1, <1>3
      <4> QED  BY <1>1, <1>3, <4>1, <4>2, <4>3
    <3> QED  BY <3>3, <3>4, <3>5 DEF Cleared
  <2> QED  BY <1>1, <1>3, <2>1, <2>2
<1> QED  BY <1>2, <1>5, <1>6 DEF WholeCall, u

\* Two calls one after the other are a call.
LEMMA ConcatWhole ==
  ASSUME NEW s, NEW t, WholeCall(s), WholeCall(t)
  PROVE  WholeCall(s \o t) /\ Len(s \o t) = Len(s) + Len(t)
<1>1. s \in Seq(Step) /\ t \in Seq(Step) /\ Cleans(s) /\ Completes(s, t)
  BY DEF WholeCall, Completes, Replaces
<1> QED  BY <1>1, ConcatCompletes, ConcatProperties

\* Every step of s lies in a part of n steps that is a call.
InBlocks(s, n) == \A i \in DOMAIN s : \E b \in Nat, block \in Seq(Step) :
  /\ WholeCall(block) /\ Len(block) = n
  /\ i > b /\ i <= b + n
  /\ \A r \in 1..n : b + r \in DOMAIN s /\ s[b + r] = block[r]

\* A sequence whose every step lies in a part that is a call is a call.
LEMMA BlocksWhole ==
  ASSUME NEW s \in Seq(Step), NEW n \in Nat, InBlocks(s, n)
  PROVE  WholeCall(s)
<1>1. DOMAIN s = 1..Len(s) /\ Len(s) \in Nat
  BY LenProperties
<1>2. ASSUME NEW b \in Nat, NEW i \in DOMAIN s, i > b, i <= b + n
      PROVE  \E x \in 1..n : b + x = i
  <2>1. i - b \in 1..n /\ b + (i - b) = i
    BY <1>1, <1>2
  <2> QED  BY <2>1
<1>3. Replaces(s)
  <2> SUFFICES ASSUME NEW i \in DOMAIN s, s[i].op = "del"
               PROVE  \E j \in DOMAIN s : j > i /\ s[j].op = "put" /\ s[j].pair = s[i].pair
    BY DEF Replaces
  <2>1. PICK b \in Nat, block \in Seq(Step) :
          /\ WholeCall(block) /\ Len(block) = n
          /\ i > b /\ i <= b + n
          /\ \A r \in 1..n : b + r \in DOMAIN s /\ s[b + r] = block[r]
    BY DEF InBlocks
  <2>2. DOMAIN block = 1..n
    BY <2>1, LenProperties
  <2>3. PICK x \in 1..n : b + x = i
    BY <1>2, <2>1
  <2>4. block[x].op = "del" /\ block[x].pair = s[i].pair
    BY <2>1, <2>3
  <2>5. PICK r \in 1..n : r > x /\ block[r].op = "put" /\ block[r].pair = block[x].pair
    BY <2>1, <2>2, <2>4 DEF WholeCall, Replaces
  <2>6. b + r \in DOMAIN s /\ s[b + r] = block[r]
    BY <2>1
  <2>7. b + r > i
    BY <2>3, <2>5
  <2> QED  BY <2>4, <2>5, <2>6, <2>7
<1>4. Cleans(s)
  <2> SUFFICES ASSUME NEW i \in DOMAIN s, s[i].op = "put", NEW c \in Rivals(s[i].kind)
               PROVE  Cleared(s, i, c)
    BY DEF Cleans
  <2>1. PICK b \in Nat, block \in Seq(Step) :
          /\ WholeCall(block) /\ Len(block) = n
          /\ i > b /\ i <= b + n
          /\ \A r \in 1..n : b + r \in DOMAIN s /\ s[b + r] = block[r]
    BY DEF InBlocks
  <2>2. DOMAIN block = 1..n
    BY <2>1, LenProperties
  <2>3. PICK x \in 1..n : b + x = i
    BY <1>2, <2>1
  <2>4. s[i] = block[x]
    BY <2>1, <2>3
  <2>5. Cleared(block, x, c)
    BY <2>1, <2>2, <2>4 DEF WholeCall, Cleans
  <2>6. PICK r \in 1..n : /\ r < x /\ Deletes(block[r], s[i].pair, c)
                          /\ \A m \in 1..n : r < m /\ m < x => ~Inserts(block[m], s[i].pair, c)
    BY <2>2, <2>4, <2>5 DEF Cleared
  <2>7. b + r \in DOMAIN s /\ b + r < i /\ s[b + r] = block[r]
    BY <2>1, <2>3, <2>6
  <2>8. ASSUME NEW m \in DOMAIN s, b + r < m, m < i
        PROVE  ~Inserts(s[m], s[i].pair, c)
    <3>1. m > b /\ m <= b + n
      <4>1. m \in Nat /\ i \in Nat /\ r \in Nat /\ r >= 1 /\ b + r < m /\ m < i
        BY <1>1, <2>8
      <4>2. i <= b + n
        BY <2>1
      <4> QED  BY <4>1, <4>2
    <3>2. PICK y \in 1..n : b + y = m
      BY <1>2, <3>1
    <3>3. r < y /\ y < x /\ s[m] = block[y]
      BY <2>1, <2>3, <2>8, <3>2
    <3> QED  BY <2>6, <3>3
  <2> QED  BY <2>6, <2>7, <2>8 DEF Cleared
<1> QED  BY <1>3, <1>4 DEF WholeCall

\* ForTypes: the steps of every type are a call, and so are all of them.
LEMMA ForTypesWhole ==
  ASSUME NEW types \in Seq(Types), NEW F, NEW n \in {5, 6, 8},
         \A q \in Types : WholeCall(F[q]) /\ Len(F[q]) = n
  PROVE  WholeCall([i \in 1..(n * Len(types)) |->
                      F[types[((i - 1) \div n) + 1]][((i - 1) % n) + 1]])
<1> DEFINE s == [i \in 1..(n * Len(types)) |->
                      F[types[((i - 1) \div n) + 1]][((i - 1) % n) + 1]]
<1>1. n \in Nat /\ Len(types) \in Nat /\ n * Len(types) \in Nat /\ DOMAIN types = 1..Len(types)
  BY LenProperties
<1>2. ASSUME NEW i \in 1..(n * Len(types))
      PROVE  /\ ((i - 1) \div n) + 1 \in 1..Len(types)
             /\ ((i - 1) % n) + 1 \in 1..n
             /\ ((i - 1) \div n) * n + ((i - 1) % n) + 1 = i
             /\ ((i - 1) \div n) * n \in Nat
  <2>1. CASE n = 5  BY <1>1, <2>1
  <2>2. CASE n = 6  BY <1>1, <2>2
  <2>3. CASE n = 8  BY <1>1, <2>3
  <2> QED  BY <2>1, <2>2, <2>3
<1>3. ASSUME NEW i \in 1..(n * Len(types)), NEW r \in 1..n
      PROVE  /\ ((i - 1) \div n) * n + r \in 1..(n * Len(types))
             /\ ((((i - 1) \div n) * n + r) - 1) \div n = (i - 1) \div n
             /\ ((((i - 1) \div n) * n + r) - 1) % n = r - 1
  <2> DEFINE j == (i - 1) \div n
  <2>1. j \in Nat /\ j + 1 <= Len(types)
    <3>1. j \in Int
      BY <1>1
    <3> QED  BY <1>1, <1>2, <3>1
  <2> HIDE DEF j
  <2>2. /\ j * n + r \in 1..(n * Len(types))
        /\ ((j * n + r) - 1) \div n = j
        /\ ((j * n + r) - 1) % n = r - 1
    <3>1. CASE n = 5
      <4>1. j * 5 + r \in 1..(5 * Len(types))
        BY <1>1, <2>1, <3>1
      <4>2. ((j * 5 + r) - 1) \div 5 = j
        BY <2>1, <3>1
      <4>3. ((j * 5 + r) - 1) % 5 = r - 1
        BY <2>1, <3>1
      <4> QED  BY <3>1, <4>1, <4>2, <4>3
    <3>2. CASE n = 6
      <4>1. j * 6 + r \in 1..(6 * Len(types))
        BY <1>1, <2>1, <3>2
      <4>2. ((j * 6 + r) - 1) \div 6 = j
        BY <2>1, <3>2
      <4>3. ((j * 6 + r) - 1) % 6 = r - 1
        BY <2>1, <3>2
      <4> QED  BY <3>2, <4>1, <4>2, <4>3
    <3>3. CASE n = 8
      <4>1. j * 8 + r \in 1..(8 * Len(types))
        BY <1>1, <2>1, <3>3
      <4>2. ((j * 8 + r) - 1) \div 8 = j
        BY <2>1, <3>3
      <4>3. ((j * 8 + r) - 1) % 8 = r - 1
        BY <2>1, <3>3
      <4> QED  BY <3>3, <4>1, <4>2, <4>3
    <3> QED  BY <3>1, <3>2, <3>3
  <2> QED  BY <2>2 DEF j
<1>4. \A q \in Types : F[q] \in Seq(Step) /\ DOMAIN F[q] = 1..n
  BY LenProperties DEF WholeCall
<1>5. \A i \in 1..(n * Len(types)) : types[((i - 1) \div n) + 1] \in Types
  BY <1>1, <1>2, ElementOfSeq
<1>6. \A i \in 1..(n * Len(types)) : s[i] \in Step
  <2> TAKE i \in 1..(n * Len(types))
  <2>1. F[types[((i - 1) \div n) + 1]][((i - 1) % n) + 1] \in Step
    BY <1>2, <1>4, <1>5, ElementOfSeq
  <2> QED  BY <2>1
<1>7. s \in Seq(Step) /\ DOMAIN s = 1..(n * Len(types))
  <2> DEFINE k == n * Len(types)
  <2>1. k \in Nat
    BY <1>1
  <2>2. s \in [1..k -> Step] /\ DOMAIN s = 1..k
    BY <1>6
  <2> HIDE DEF k, s
  <2>3. s \in Seq(Step)
    BY <2>1, <2>2
  <2> QED  BY <2>2, <2>3 DEF k
<1>8. ASSUME NEW i \in DOMAIN s
      PROVE  \E b \in Nat, block \in Seq(Step) :
               /\ WholeCall(block) /\ Len(block) = n
               /\ i > b /\ i <= b + n
               /\ \A r \in 1..n : b + r \in DOMAIN s /\ s[b + r] = block[r]
  <2> DEFINE b == ((i - 1) \div n) * n
             q == types[((i - 1) \div n) + 1]
  <2>1. i \in 1..(n * Len(types))
    BY <1>7
  <2>2. q \in Types /\ b \in Nat /\ i > b /\ i <= b + n
    <3>1. /\ b \in Nat /\ b + ((i - 1) % n) + 1 = i
          /\ ((i - 1) % n) + 1 \in 1..n /\ (i - 1) % n \in Int
      <4>1. (i - 1) % n \in Int
        BY <1>1, <2>1
      <4> QED  BY <1>2, <2>1, <4>1
    <3>2. q \in Types
      BY <1>5, <2>1
    <3> HIDE DEF b, q
    <3>3. i \in Nat
      BY <1>1, <2>1
    <3> DEFINE x == (i - 1) % n
    <3> HIDE DEF x
    <3>4. b \in Nat /\ x \in Int /\ b + x + 1 = i /\ x + 1 \in 1..n
      BY <3>1 DEF x
    <3> QED  BY <1>1, <3>2, <3>3, <3>4
  <2>3. ASSUME NEW r \in 1..n
        PROVE  b + r \in DOMAIN s /\ s[b + r] = F[q][r]
    <3>1. b + r \in 1..(n * Len(types)) /\ ((b + r) - 1) \div n = (i - 1) \div n
          /\ ((b + r) - 1) % n = r - 1
      BY <1>3, <2>1
    <3>2. s[b + r] = F[types[(((b + r) - 1) \div n) + 1]][(((b + r) - 1) % n) + 1]
      BY <3>1
    <3>3. (r - 1) + 1 = r
      OBVIOUS
    <3> QED  BY <1>7, <3>1, <3>2, <3>3
  <2> HIDE DEF b, q, s
  <2>4. F[q] \in Seq(Step) /\ WholeCall(F[q]) /\ Len(F[q]) = n
    BY <1>4, <2>2
  <2> QED  BY <2>2, <2>3, <2>4
<1> HIDE DEF s
<1>9. WholeCall(s)
  BY <1>1, <1>7, <1>8, BlocksWhole DEF InBlocks
<1> QED  BY <1>9 DEF s

\* set replaces what it deletes and deletes first what it excludes.
LEMMA SetWhole ==
  ASSUME NEW p \in Pairs, NEW k \in Kinds, NEW v \in Values
  PROVE  /\ WholeCall(set(p, k, v))
         /\ Len(set(p, k, v)) = IF k = "Normal" THEN 3 ELSE 2
<1> DEFINE s == set(p, k, v)
<1>1. CASE k = "Normal"
  <2> DEFINE a == Del(p, "HighTipLowCuPrice")
             b == Del(p, "LowTipHighCuPrice")
             d == Put(p, k, v)
  <2>1. /\ a \in Step /\ a.op = "del" /\ a.pair = p /\ a.kinds = {"HighTipLowCuPrice"}
        /\ b \in Step /\ b.op = "del" /\ b.pair = p /\ b.kinds = {"LowTipHighCuPrice"}
        /\ d \in Step /\ d.op = "put" /\ d.pair = p /\ d.kind = "Normal"
    BY <1>1, StepKinds DEF Del, Put, Kinds
  <2>2. s = <<a, b, d>>
    BY <1>1 DEF set
  <2> HIDE DEF a, b, d, s
  <2>3. s \in Seq(Step) /\ Len(s) = 3 /\ DOMAIN s = 1..3 /\ s[1] = a /\ s[2] = b /\ s[3] = d
    BY <2>1, <2>2
  <2>4. Replaces(s)
    <3> SUFFICES ASSUME NEW i \in DOMAIN s, s[i].op = "del"
                 PROVE  \E j \in DOMAIN s : j > i /\ s[j].op = "put" /\ s[j].pair = s[i].pair
      BY DEF Replaces
    <3>1. i \in 1..3 /\ i # 3 /\ s[i].pair = p
      BY <2>1, <2>3
    <3>2. 3 \in DOMAIN s /\ 3 > i
      BY <2>3, <3>1
    <3> QED  BY <2>1, <2>3, <3>1, <3>2
  <2>5. Cleans(s)
    <3> SUFFICES ASSUME NEW i \in DOMAIN s, s[i].op = "put", NEW c \in Rivals(s[i].kind)
                 PROVE  Cleared(s, i, c)
      BY DEF Cleans
    <3>1. i = 3 /\ c \in {"HighTipLowCuPrice", "LowTipHighCuPrice"}
      BY <2>1, <2>3 DEF Rivals, Kinds
    <3>2. \A m \in DOMAIN s : m < i => ~Inserts(s[m], s[i].pair, c)
      BY <2>1, <2>3, <3>1 DEF Inserts
    <3>3. CASE c = "HighTipLowCuPrice"
      <4>1. 1 \in DOMAIN s /\ 1 < i /\ Deletes(s[1], s[i].pair, c)
        BY <2>1, <2>3, <3>1, <3>3 DEF Deletes
      <4> QED  BY <3>2, <4>1 DEF Cleared
    <3>4. CASE c = "LowTipHighCuPrice"
      <4>1. 2 \in DOMAIN s /\ 2 < i /\ Deletes(s[2], s[i].pair, c)
        BY <2>1, <2>3, <3>1, <3>4 DEF Deletes
      <4> QED  BY <3>2, <4>1 DEF Cleared
    <3> QED  BY <3>1, <3>3, <3>4
  <2>6. WholeCall(s) /\ Len(s) = 3
    BY <2>3, <2>4, <2>5 DEF WholeCall
  <2> QED  BY <1>1, <2>6 DEF s
<1>2. CASE k # "Normal"
  <2> DEFINE a == Del(p, "Normal")
             d == Put(p, k, v)
  <2>1. /\ a \in Step /\ a.op = "del" /\ a.pair = p /\ a.kinds = {"Normal"}
        /\ d \in Step /\ d.op = "put" /\ d.pair = p /\ d.kind = k
    BY StepKinds DEF Del, Put, Kinds
  <2>2. s = <<a, d>>
    BY <1>2 DEF set
  <2> HIDE DEF a, d, s
  <2>3. s \in Seq(Step) /\ Len(s) = 2 /\ DOMAIN s = 1..2 /\ s[1] = a /\ s[2] = d
    BY <2>1, <2>2
  <2>4. Replaces(s)
    BY <2>1, <2>3 DEF Replaces
  <2>5. Cleans(s)
    <3> SUFFICES ASSUME NEW i \in DOMAIN s, s[i].op = "put", NEW c \in Rivals(s[i].kind)
                 PROVE  Cleared(s, i, c)
      BY DEF Cleans
    <3>1. i = 2 /\ c = "Normal"
      BY <1>2, <2>1, <2>3 DEF Rivals
    <3>2. 1 \in DOMAIN s /\ 1 < i /\ Deletes(s[1], s[i].pair, c)
      BY <2>1, <2>3, <3>1 DEF Deletes
    <3>3. \A m \in DOMAIN s : ~(1 < m /\ m < i)
      BY <2>3, <3>1
    <3> QED  BY <3>2, <3>3 DEF Cleared
  <2>6. WholeCall(s) /\ Len(s) = 2
    BY <2>3, <2>4, <2>5 DEF WholeCall
  <2> QED  BY <1>2, <2>6 DEF s
<1> QED  BY <1>1, <1>2

\* set inserts for its pair.
LEMMA SetInserts ==
  ASSUME NEW p \in Pairs, NEW k \in Kinds, NEW v \in Values
  PROVE  InsertsFor(set(p, k, v), p)
<1>1. CASE k = "Normal"
  <2>1. 3 \in DOMAIN set(p, k, v) /\ set(p, k, v)[3] = Put(p, k, v)
    BY <1>1 DEF set
  <2> QED  BY <2>1 DEF Put, InsertsFor
<1>2. CASE k # "Normal"
  <2>1. 2 \in DOMAIN set(p, k, v) /\ set(p, k, v)[2] = Put(p, k, v)
    BY <1>2 DEF set
  <2> QED  BY <2>1 DEF Put, InsertsFor
<1> QED  BY <1>1, <1>2

\* What the second of two sequences holds their concatenation holds.
LEMMA SecondInserts ==
  ASSUME NEW s \in Seq(Step), NEW t \in Seq(Step), NEW p,
         InsertsFor(s, p) \/ InsertsFor(t, p)
  PROVE  InsertsFor(s \o t, p)
<1> DEFINE u == s \o t
<1>1. /\ Len(s) \in Nat /\ Len(t) \in Nat
      /\ DOMAIN s = 1..Len(s) /\ DOMAIN t = 1..Len(t) /\ DOMAIN u = 1..(Len(s) + Len(t))
      /\ \A i \in 1..(Len(s) + Len(t)) : u[i] = IF i <= Len(s) THEN s[i] ELSE t[i - Len(s)]
  BY ConcatProperties, LenProperties
<1> HIDE DEF u
<1>2. ASSUME NEW j \in DOMAIN s  PROVE j \in DOMAIN u /\ u[j] = s[j]
  BY <1>1
<1>3. ASSUME NEW j \in DOMAIN t  PROVE Len(s) + j \in DOMAIN u /\ u[Len(s) + j] = t[j]
  BY <1>1
<1>4. InsertsFor(u, p)
  BY <1>2, <1>3 DEF InsertsFor
<1> QED  BY <1>4 DEF u

\* Deletions before a call that inserts for their pairs.
LEMMA PrefixWhole ==
  ASSUME NEW s \in Seq(Step), NEW t, WholeCall(t),
         \A i \in DOMAIN s : s[i].op = "del" /\ InsertsFor(t, s[i].pair)
  PROVE  WholeCall(s \o t) /\ Len(s \o t) = Len(s) + Len(t)
<1>1. Cleans(s) /\ Completes(s, t) /\ t \in Seq(Step)
  BY DEF Cleans, Completes, WholeCall
<1> QED  BY <1>1, ConcatCompletes, ConcatProperties

\* The pairs of a type.
LEMMA PairOf ==
  ASSUME NEW q \in Types, NEW trade \in TradeTypes  PROVE <<q, trade>> \in Pairs
BY DEF Pairs

\* The body of the loop of set_global_fee_strategy.
LEMMA BothWhole ==
  ASSUME NEW q \in Types, NEW buy \in Values, NEW sell \in Values
  PROVE  /\ WholeCall(set(<<q, "Buy">>, "Normal", buy) \o set(<<q, "Sell">>, "Normal", sell))
         /\ Len(set(<<q, "Buy">>, "Normal", buy) \o set(<<q, "Sell">>, "Normal", sell)) = 6
<1>1. <<q, "Buy">> \in Pairs /\ <<q, "Sell">> \in Pairs /\ "Normal" \in Kinds
  BY PairOf DEF TradeTypes, Kinds
<1> DEFINE b == set(<<q, "Buy">>, "Normal", buy)
           s == set(<<q, "Sell">>, "Normal", sell)
<1>2. WholeCall(b) /\ Len(b) = 3 /\ WholeCall(s) /\ Len(s) = 3
  BY <1>1, SetWhole
<1> HIDE DEF b, s
<1>3. WholeCall(b \o s) /\ Len(b \o s) = Len(b) + Len(s)
  BY <1>2, ConcatWhole, Zenon
<1>4. Len(b \o s) = 6
  BY <1>2, <1>3
<1> QED  BY <1>3, <1>4 DEF b, s

\* set_normal_fee_strategies first deletes every kind of both trade types.
LEMMA NormalWhole ==
  ASSUME NEW types \in Seq(Types), NEW buy \in Values, NEW sell \in Values
  PROVE  WholeCall(set_normal_fee_strategies(types, buy, sell))
<1> DEFINE Both(q) == <<DelAll(<<q, "Buy">>), DelAll(<<q, "Sell">>)>>
                        \o set(<<q, "Buy">>, "Normal", buy) \o set(<<q, "Sell">>, "Normal", sell)
           F == [q \in Types |-> Both(q)]
<1>1. ASSUME NEW q \in Types  PROVE WholeCall(Both(q)) /\ Len(Both(q)) = 8
  <2> DEFINE d == <<DelAll(<<q, "Buy">>), DelAll(<<q, "Sell">>)>>
             b == set(<<q, "Buy">>, "Normal", buy)
             s == set(<<q, "Sell">>, "Normal", sell)
  <2>1. <<q, "Buy">> \in Pairs /\ <<q, "Sell">> \in Pairs /\ "Normal" \in Kinds
    BY PairOf DEF TradeTypes, Kinds
  <2>2. b \in Seq(Step) /\ s \in Seq(Step)
    BY <2>1, SetWhole DEF WholeCall
  <2>3. WholeCall(b \o s) /\ Len(b \o s) = 6
    BY BothWhole
  <2>4. /\ DelAll(<<q, "Buy">>) \in Step /\ DelAll(<<q, "Sell">>) \in Step
        /\ DelAll(<<q, "Buy">>).op = "del" /\ DelAll(<<q, "Buy">>).pair = <<q, "Buy">>
        /\ DelAll(<<q, "Sell">>).op = "del" /\ DelAll(<<q, "Sell">>).pair = <<q, "Sell">>
    <3>1. DelAll(<<q, "Buy">>) \in Step /\ DelAll(<<q, "Sell">>) \in Step
      BY <2>1, StepKinds
    <3> QED  BY <3>1 DEF DelAll
  <2>5. /\ d \in Seq(Step) /\ Len(d) = 2 /\ DOMAIN d = 1..2
        /\ d[1] = DelAll(<<q, "Buy">>) /\ d[2] = DelAll(<<q, "Sell">>)
    BY <2>4
  <2>6. InsertsFor(b, <<q, "Buy">>) /\ InsertsFor(s, <<q, "Sell">>)
    BY <2>1, SetInserts
  <2>7. (d \o b) \o s = d \o (b \o s)
    BY <2>2, <2>5, ConcatAssociative
  <2> HIDE DEF d, b, s
  <2>8. InsertsFor(b \o s, <<q, "Buy">>) /\ InsertsFor(b \o s, <<q, "Sell">>)
    BY <2>2, <2>6, SecondInserts, Zenon
  <2> DEFINE t == b \o s
  <2>9. WholeCall(t) /\ Len(t) = 6
    BY <2>3
  <2>10. \A i \in DOMAIN d : d[i].op = "del" /\ InsertsFor(t, d[i].pair)
    <3> TAKE i \in DOMAIN d
    <3> HIDE DEF t
    <3>1. i = 1 \/ i = 2
      BY <2>5
    <3>2. CASE i = 1  BY <2>4, <2>5, <2>8, <3>2 DEF t
    <3>3. CASE i = 2  BY <2>4, <2>5, <2>8, <3>3 DEF t
    <3> QED  BY <3>1, <3>2, <3>3
  <2> HIDE DEF t
  <2>11. WholeCall(d \o t) /\ Len(d \o t) = Len(d) + Len(t)
    BY <2>5, <2>9, <2>10, PrefixWhole, Zenon
  <2>12. Len(d \o t) = 8
    BY <2>5, <2>9, <2>11
  <2> QED  BY <2>7, <2>11, <2>12 DEF d, b, s, t
<1>2. \A q \in Types : F[q] = Both(q)
  OBVIOUS
<1>3. \A q \in Types : WholeCall(F[q]) /\ Len(F[q]) = 8
  BY <1>1, <1>2
<1>4. WholeCall([i \in 1..(8 * Len(types)) |->
                   F[types[((i - 1) \div 8) + 1]][((i - 1) % 8) + 1]])
  <2> HIDE DEF F
  <2> QED  BY <1>3, ForTypesWhole
<1>5. \A i \in 1..(8 * Len(types)) : types[((i - 1) \div 8) + 1] \in Types
  <2> TAKE i \in 1..(8 * Len(types))
  <2>1. ((i - 1) \div 8) + 1 \in 1..Len(types)
    BY LenProperties
  <2> QED  BY <2>1, ElementOfSeq
<1>6. set_normal_fee_strategies(types, buy, sell)
        = [i \in 1..(8 * Len(types)) |-> Both(types[((i - 1) \div 8) + 1])[((i - 1) % 8) + 1]]
  BY DEF set_normal_fee_strategies, ForTypes
<1> HIDE DEF Both, F
<1>7. set_normal_fee_strategies(types, buy, sell)
        = [i \in 1..(8 * Len(types)) |-> F[types[((i - 1) \div 8) + 1]][((i - 1) % 8) + 1]]
  BY <1>2, <1>5, <1>6
<1> QED  BY <1>4, <1>7

\* set_high_low_fee_strategies: both high-low kinds replace the normal one.
LEMMA HighLowWhole ==
  ASSUME NEW types \in Seq(Types), NEW trade \in TradeTypes,
         NEW low \in Values, NEW high \in Values
  PROVE  WholeCall(set_high_low_fee_strategies(types, trade, low, high))
<1> DEFINE HighLow(q) == <<Del(<<q, trade>>, "Normal")>>
                           \o set(<<q, trade>>, "LowTipHighCuPrice", low)
                           \o set(<<q, trade>>, "HighTipLowCuPrice", high)
           F == [q \in Types |-> HighLow(q)]
<1>1. ASSUME NEW q \in Types  PROVE WholeCall(HighLow(q)) /\ Len(HighLow(q)) = 5
  <2> DEFINE d == <<Del(<<q, trade>>, "Normal")>>
             l == set(<<q, trade>>, "LowTipHighCuPrice", low)
             h == set(<<q, trade>>, "HighTipLowCuPrice", high)
             t == l \o h
  <2>1. <<q, trade>> \in Pairs /\ {"Normal", "LowTipHighCuPrice", "HighTipLowCuPrice"} \subseteq Kinds
    BY PairOf DEF Kinds
  <2>2. /\ WholeCall(l) /\ Len(l) = 2 /\ l \in Seq(Step)
        /\ WholeCall(h) /\ Len(h) = 2 /\ h \in Seq(Step)
    BY <2>1, SetWhole DEF WholeCall
  <2>3. InsertsFor(h, <<q, trade>>)
    BY <2>1, SetInserts
  <2>4. Del(<<q, trade>>, "Normal") \in Step
    BY <2>1, StepKinds
  <2>5. Del(<<q, trade>>, "Normal").op = "del" /\ Del(<<q, trade>>, "Normal").pair = <<q, trade>>
    BY DEF Del
  <2>6. d \in Seq(Step) /\ Len(d) = 1 /\ DOMAIN d = {1} /\ d[1] = Del(<<q, trade>>, "Normal")
    BY <2>4
  <2>7. (d \o l) \o h = d \o (l \o h)
    BY <2>2, <2>6, ConcatAssociative
  <2> HIDE DEF d, l, h
  <2>8. WholeCall(t) /\ Len(t) = Len(l) + Len(h)
    BY <2>2, ConcatWhole, Zenon
  <2>9. InsertsFor(t, <<q, trade>>)
    BY <2>2, <2>3, SecondInserts, Zenon
  <2> HIDE DEF t
  <2>10. \A i \in DOMAIN d : d[i].op = "del" /\ InsertsFor(t, d[i].pair)
    BY <2>5, <2>6, <2>9
  <2>11. WholeCall(d \o t) /\ Len(d \o t) = Len(d) + Len(t)
    BY <2>6, <2>8, <2>10, PrefixWhole, Zenon
  <2>12. Len(d \o t) = 5
    BY <2>2, <2>6, <2>8, <2>11
  <2> QED  BY <2>7, <2>11, <2>12 DEF d, l, h, t
<1>2. \A q \in Types : F[q] = HighLow(q)
  OBVIOUS
<1>3. \A q \in Types : WholeCall(F[q]) /\ Len(F[q]) = 5
  BY <1>1, <1>2
<1>4. WholeCall([i \in 1..(5 * Len(types)) |->
                   F[types[((i - 1) \div 5) + 1]][((i - 1) % 5) + 1]])
  <2> HIDE DEF F
  <2> QED  BY <1>3, ForTypesWhole
<1>5. \A i \in 1..(5 * Len(types)) : types[((i - 1) \div 5) + 1] \in Types
  <2> TAKE i \in 1..(5 * Len(types))
  <2>1. ((i - 1) \div 5) + 1 \in 1..Len(types)
    BY LenProperties
  <2> QED  BY <2>1, ElementOfSeq
<1>6. set_high_low_fee_strategies(types, trade, low, high)
        = [i \in 1..(5 * Len(types)) |-> HighLow(types[((i - 1) \div 5) + 1])[((i - 1) % 5) + 1]]
  BY DEF set_high_low_fee_strategies, ForTypes
<1> HIDE DEF HighLow, F
<1>7. set_high_low_fee_strategies(types, trade, low, high)
        = [i \in 1..(5 * Len(types)) |-> F[types[((i - 1) \div 5) + 1]][((i - 1) % 5) + 1]]
  BY <1>2, <1>5, <1>6
<1> QED  BY <1>4, <1>7

\* The types the loop of set_global_fee_strategy runs over.
LEMMA OtherTypesAreTypes == OtherTypes \in Seq(Types)
<1>1. SwqosTypes \in Seq(Types) /\ Len(SwqosTypes) \in Nat /\ DOMAIN SwqosTypes = 1..Len(SwqosTypes)
  BY GasFeeAssumption, LenProperties
<1>2. \E i \in DOMAIN SwqosTypes : SwqosTypes[i] = DefaultType
  BY GasFeeAssumption DEF Types
<1> DEFINE d == CHOOSE i \in DOMAIN SwqosTypes : SwqosTypes[i] = DefaultType
<1>3. d \in 1..Len(SwqosTypes)
  BY <1>1, <1>2
<1> HIDE DEF d
<1>4. SubSeq(SwqosTypes, 1, d - 1) \in Seq(Types)
  <2>1. \A i \in 1..(d - 1) : SwqosTypes[i] \in Types
    BY <1>1, <1>3, ElementOfSeq
  <2> QED  BY <1>3, <2>1, SubSeqProperties
<1>5. SubSeq(SwqosTypes, d + 1, Len(SwqosTypes)) \in Seq(Types)
  <2>1. \A i \in (d + 1)..Len(SwqosTypes) : SwqosTypes[i] \in Types
    BY <1>1, <1>3, ElementOfSeq
  <2> QED  BY <1>1, <1>3, <2>1, SubSeqProperties
<1>6. SubSeq(SwqosTypes, 1, d - 1) \o SubSeq(SwqosTypes, d + 1, Len(SwqosTypes)) \in Seq(Types)
  BY <1>4, <1>5, ConcatProperties
<1> QED  BY <1>6 DEF OtherTypes, d

\* set_global_fee_strategy.
LEMMA GlobalWhole ==
  ASSUME NEW buy \in Values, NEW sell \in Values
  PROVE  WholeCall(set_global_fee_strategy(buy, sell))
<1> DEFINE Both(q) == set(<<q, "Buy">>, "Normal", buy) \o set(<<q, "Sell">>, "Normal", sell)
           F == [q \in Types |-> Both(q)]
           types == OtherTypes
           x == ForTypes(OtherTypes, Both, 6)
           b == set(<<DefaultType, "Buy">>, "Normal", NoTip(buy))
           s == set(<<DefaultType, "Sell">>, "Normal", NoTip(sell))
<1>1. types \in Seq(Types)
  BY OtherTypesAreTypes
<1>2. \A q \in Types : F[q] = Both(q)
  OBVIOUS
<1>3. \A q \in Types : WholeCall(F[q]) /\ Len(F[q]) = 6
  BY <1>2, BothWhole
<1>4. x = [i \in 1..(6 * Len(types)) |-> Both(types[((i - 1) \div 6) + 1])[((i - 1) % 6) + 1]]
  BY DEF ForTypes
<1>5. set_global_fee_strategy(buy, sell) = (x \o b) \o s
  BY DEF set_global_fee_strategy
<1>6. WholeCall(b) /\ WholeCall(s)
  <2>1. NoTip(buy) \in Values /\ NoTip(sell) \in Values
    BY GasFeeAssumption DEF NoTip, Values
  <2>2. <<DefaultType, "Buy">> \in Pairs /\ <<DefaultType, "Sell">> \in Pairs /\ "Normal" \in Kinds
    BY GasFeeAssumption, PairOf DEF TradeTypes, Kinds
  <2> QED  BY <2>1, <2>2, SetWhole
<1> HIDE DEF Both, F, types, x, b, s
<1>7. WholeCall([i \in 1..(6 * Len(types)) |->
                   F[types[((i - 1) \div 6) + 1]][((i - 1) % 6) + 1]])
  BY <1>1, <1>3, ForTypesWhole
<1>8. \A i \in 1..(6 * Len(types)) : types[((i - 1) \div 6) + 1] \in Types
  <2> TAKE i \in 1..(6 * Len(types))
  <2>1. ((i - 1) \div 6) + 1 \in 1..Len(types)
    BY <1>1, LenProperties
  <2> QED  BY <1>1, <2>1, ElementOfSeq
<1>9. x = [i \in 1..(6 * Len(types)) |-> F[types[((i - 1) \div 6) + 1]][((i - 1) % 6) + 1]]
  BY <1>2, <1>4, <1>8
<1>10. WholeCall(x)
  BY <1>7, <1>9
<1>11. WholeCall(x \o b)
  BY <1>6, <1>10, ConcatWhole, Zenon
<1>12. WholeCall((x \o b) \o s)
  BY <1>6, <1>11, ConcatWhole, Zenon
<1> QED  BY <1>5, <1>12

\* Every call the program makes replaces what it deletes and deletes first
\* what it excludes.
LEMMA CallsWhole ==
  ASSUME NEW steps \in Calls, steps # <<>>
  PROVE  WholeCall(steps)
<1>1. \A q \in Types : <<q>> \in Seq(Types)
  OBVIOUS
<1>2. SwqosTypes \in Seq(Types)
  BY GasFeeAssumption
<1>3. CASE \E p \in Pairs, k \in Kinds, v \in Values : steps = set(p, k, v)
  BY <1>3, SetWhole
<1>4. CASE \E v, w \in Values : steps = set_global_fee_strategy(v, w)
  BY <1>4, GlobalWhole
<1>5. CASE \E t \in TradeTypes, v, w \in Values : steps = set_high_low_fee_strategies(SwqosTypes, t, v, w)
  BY <1>2, <1>5, HighLowWhole
<1>6. CASE \E q \in Types, t \in TradeTypes, v, w \in Values :
             steps = set_high_low_fee_strategy(q, t, v, w)
  <2>1. PICK q \in Types, t \in TradeTypes, v \in Values, w \in Values :
          steps = set_high_low_fee_strategy(q, t, v, w)
    BY <1>6
  <2>2. steps = set_high_low_fee_strategies(<<q>>, t, v, w)
    BY <2>1 DEF set_high_low_fee_strategy
  <2> QED  BY <1>1, <2>2, HighLowWhole
<1>7. CASE \E v, w \in Values : steps = set_normal_fee_strategies(SwqosTypes, v, w)
  BY <1>2, <1>7, NormalWhole
<1>8. CASE \E q \in Types, v, w \in Values : steps = set_normal_fee_strategy(q, v, w)
  BY <1>1, <1>8, NormalWhole DEF set_normal_fee_strategy
<1> QED  BY <1>3, <1>4, <1>5, <1>6, <1>7, <1>8 DEF Calls

(***************************************************************************)
(* Steps.                                                                  *)
(***************************************************************************)

\* What a thread has left after one rcu.
LEMMA AfterHead ==
  ASSUME NEW s \in Seq(Step), s # <<>>
  PROVE  /\ Len(s) \in Nat /\ Len(s) >= 1 /\ DOMAIN s = 1..Len(s)
         /\ Head(s) = s[1] /\ Head(s) \in Step
         /\ Tail(s) \in Seq(Step) /\ DOMAIN Tail(s) = 1..(Len(s) - 1)
         /\ \A i \in 1..(Len(s) - 1) : Tail(s)[i] = s[i + 1]
<1>1. Len(s) \in Nat /\ Len(s) >= 1 /\ DOMAIN s = 1..Len(s)
  BY LenProperties, EmptySeq
<1>2. Head(s) = s[1]
  BY <1>1
<1>3. /\ Head(s) \in Step /\ Tail(s) \in Seq(Step) /\ Len(Tail(s)) = Len(s) - 1
      /\ \A i \in 1..Len(Tail(s)) : Tail(s)[i] = s[i + 1]
  BY HeadTailProperties
<1>4. DOMAIN Tail(s) = 1..Len(Tail(s))
  BY <1>3, LenProperties
<1> QED  BY <1>1, <1>2, <1>3, <1>4

\* An rcu touches one pair, and that pair as its operation says.
LEMMA RcuMap ==
  ASSUME GasTypeOK, NEW w \in Writers, Rcu(w)
  PROVE  LET step == todo[w][1] IN
         /\ step \in Step
         /\ strategies' \in [Pairs -> [Kinds -> Values \cup {Absent}]]
         /\ \A p \in Pairs : p # step.pair => strategies'[p] = strategies[p]
         /\ step.op = "put" => \A k \in Kinds : strategies'[step.pair][k] =
              IF k = step.kind THEN step.value ELSE strategies[step.pair][k]
         /\ step.op = "del" => \A k \in Kinds : strategies'[step.pair][k] =
              IF k \in step.kinds THEN Absent ELSE strategies[step.pair][k]
<1> DEFINE step == todo[w][1]
<1>1. todo[w] \in Seq(Step) /\ todo[w] # <<>>
  BY DEF GasTypeOK, Rcu
<1>2. step = Head(todo[w]) /\ step \in Step
  BY <1>1, AfterHead
<1>3. /\ step.op \in {"del", "put"} /\ step.pair \in Pairs
      /\ step.op = "put" => step.kind \in Kinds /\ step.value \in Values
      /\ step.op = "del" => step.kinds \in SUBSET Kinds
  BY <1>2, StepFields
<1>4. strategies' = [strategies EXCEPT ![step.pair] =
            IF step.op = "del" THEN [k \in Kinds |-> IF k \in step.kinds THEN Absent ELSE @[k]]
            ELSE [@ EXCEPT ![step.kind] = step.value]]
  BY <1>2 DEF Rcu
<1> HIDE DEF step
<1>5. strategies \in [Pairs -> [Kinds -> Values \cup {Absent}]]
  BY DEF GasTypeOK
<1>6. CASE step.op = "del"
  <2>1. strategies' = [strategies EXCEPT ![step.pair] =
          [k \in Kinds |-> IF k \in step.kinds THEN Absent ELSE strategies[step.pair][k]]]
    BY <1>4, <1>6
  <2> QED  BY <1>2, <1>3, <1>5, <1>6, <2>1 DEF step
<1>7. CASE step.op = "put"
  <2>1. strategies' = [strategies EXCEPT ![step.pair] = [strategies[step.pair] EXCEPT ![step.kind] = step.value]]
    BY <1>4, <1>7
  <2> QED  BY <1>2, <1>3, <1>5, <1>7, <2>1 DEF step
<1> QED  BY <1>3, <1>6, <1>7

\* Deletions leave an entry as it is or remove it.
LEMMA RemoveMap ==
  ASSUME GasTypeOK, NEW p \in Pairs, NEW kinds, Remove(p, kinds)
  PROVE  /\ strategies' \in [Pairs -> [Kinds -> Values \cup {Absent}]]
         /\ \A q \in Pairs, k \in Kinds :
              strategies'[q][k] = IF q = p /\ k \in kinds THEN Absent ELSE strategies[q][k]
<1>1. strategies \in [Pairs -> [Kinds -> Values \cup {Absent}]]
  BY DEF GasTypeOK
<1>2. strategies' = [strategies EXCEPT ![p] =
        [k \in Kinds |-> IF k \in kinds THEN Absent ELSE strategies[p][k]]]
  BY DEF Remove
<1> QED  BY <1>1, <1>2

\* An update neither inserts nor removes an entry.
LEMMA UpdateMap ==
  ASSUME GasTypeOK, NEW trade, NEW v \in Values,
         Update(trade, "tip", v.tip) \/ Update(trade, "cu_price", v.cu_price)
  PROVE  /\ strategies' \in [Pairs -> [Kinds -> Values \cup {Absent}]]
         /\ \A q \in Pairs, k \in Kinds : strategies'[q][k] = Absent <=> strategies[q][k] = Absent
<1>1. strategies \in [Pairs -> [Kinds -> Values \cup {Absent}]]
  BY DEF GasTypeOK
<1>2. \A x \in Values : [x EXCEPT !["tip"] = v.tip] \in Values /\ [x EXCEPT !["cu_price"] = v.cu_price] \in Values
  BY DEF Values
<1>3. Absent \notin Values
  BY GasFeeAssumption
<1>4. CASE Update(trade, "tip", v.tip)
  <2>1. strategies' = [p \in Pairs |-> [k \in Kinds |->
          IF p[2] # trade \/ strategies[p][k] = Absent THEN strategies[p][k]
          ELSE [strategies[p][k] EXCEPT !["tip"] = v.tip]]]
    BY <1>4 DEF Update
  <2>2. ASSUME NEW p \in Pairs, NEW k \in Kinds
        PROVE  /\ strategies'[p][k] \in Values \cup {Absent}
               /\ strategies'[p][k] = Absent <=> strategies[p][k] = Absent
    <3>1. strategies[p][k] \in Values \cup {Absent}
      BY <1>1
    <3>2. strategies'[p][k] = IF p[2] # trade \/ strategies[p][k] = Absent THEN strategies[p][k]
                              ELSE [strategies[p][k] EXCEPT !["tip"] = v.tip]
      BY <2>1
    <3>3. CASE p[2] # trade \/ strategies[p][k] = Absent
      BY <3>1, <3>2, <3>3
    <3>4. CASE ~(p[2] # trade \/ strategies[p][k] = Absent)
      <4>1. [strategies[p][k] EXCEPT !["tip"] = v.tip] \in Values
        BY <1>2, <3>1, <3>4
      <4>2. strategies'[p][k] = [strategies[p][k] EXCEPT !["tip"] = v.tip]
        BY <3>2, <3>4
      <4> QED  BY <1>3, <3>4, <4>1, <4>2
    <3> QED  BY <3>3, <3>4
  <2>3. strategies' \in [Pairs -> [Kinds -> Values \cup {Absent}]]
    BY <1>1, <1>2, <2>1
  <2> QED  BY <2>2, <2>3
<1>5. CASE Update(trade, "cu_price", v.cu_price)
  <2>1. strategies' = [p \in Pairs |-> [k \in Kinds |->
          IF p[2] # trade \/ strategies[p][k] = Absent THEN strategies[p][k]
          ELSE [strategies[p][k] EXCEPT !["cu_price"] = v.cu_price]]]
    BY <1>5 DEF Update
  <2>2. ASSUME NEW p \in Pairs, NEW k \in Kinds
        PROVE  /\ strategies'[p][k] \in Values \cup {Absent}
               /\ strategies'[p][k] = Absent <=> strategies[p][k] = Absent
    <3>1. strategies[p][k] \in Values \cup {Absent}
      BY <1>1
    <3>2. strategies'[p][k] = IF p[2] # trade \/ strategies[p][k] = Absent THEN strategies[p][k]
                              ELSE [strategies[p][k] EXCEPT !["cu_price"] = v.cu_price]
      BY <2>1
    <3>3. CASE p[2] # trade \/ strategies[p][k] = Absent
      BY <3>1, <3>2, <3>3
    <3>4. CASE ~(p[2] # trade \/ strategies[p][k] = Absent)
      <4>1. [strategies[p][k] EXCEPT !["cu_price"] = v.cu_price] \in Values
        BY <1>2, <3>1, <3>4
      <4>2. strategies'[p][k] = [strategies[p][k] EXCEPT !["cu_price"] = v.cu_price]
        BY <3>2, <3>4
      <4> QED  BY <1>3, <3>4, <4>1, <4>2
    <3> QED  BY <3>3, <3>4
  <2>3. strategies' \in [Pairs -> [Kinds -> Values \cup {Absent}]]
    BY <1>1, <1>2, <2>1
  <2> QED  BY <2>2, <2>3
<1> QED  BY <1>4, <1>5

\* The types of the variables are kept.
LEMMA GasTypeStep ==
  ASSUME GasTypeOK, [FeeNext]_feeVars
  PROVE  GasTypeOK'
<1>1. ASSUME NEW w \in Writers, NEW steps \in Calls, Call(w, steps)
      PROVE  GasTypeOK'
  <2>1. steps \in Seq(Step)
    BY <1>1, CallsWhole DEF Call, WholeCall
  <2>2. PairsOf(steps) \in SUBSET Pairs
    <3>1. \A i \in DOMAIN steps : steps[i] \in Step
      BY <2>1, ElementOfSeq, LenProperties
    <3> QED  BY <3>1, StepFields DEF PairsOf
  <2> QED  BY <1>1, <2>1, <2>2 DEF GasTypeOK, Call
<1>2. ASSUME NEW w \in Writers, Rcu(w)
      PROVE  GasTypeOK'
  <2>1. todo[w] \in Seq(Step) /\ todo[w] # <<>>
    BY <1>2 DEF GasTypeOK, Rcu
  <2>2. Tail(todo[w]) \in Seq(Step) /\ Head(todo[w]).pair \in Pairs
    BY <2>1, AfterHead, StepFields
  <2>3. strategies' \in [Pairs -> [Kinds -> Values \cup {Absent}]]
    BY <1>2, RcuMap
  <2>4. todo' \in [Writers -> Seq(Step)]
    BY <1>2, <2>2 DEF GasTypeOK, Rcu
  <2>5. touched' \in [Writers -> SUBSET Pairs]
    BY <1>2 DEF GasTypeOK, Rcu
  <2>6. configured' \subseteq Pairs /\ contended' \subseteq Pairs
    BY <1>2, <2>2 DEF GasTypeOK, Rcu
  <2> QED  BY <2>3, <2>4, <2>5, <2>6 DEF GasTypeOK
<1>3. ASSUME NEW p \in Pairs, NEW kinds, Remove(p, kinds)
      PROVE  GasTypeOK'
  <2>1. strategies' \in [Pairs -> [Kinds -> Values \cup {Absent}]]
    BY <1>3, RemoveMap
  <2> QED  BY <1>3, <2>1 DEF GasTypeOK, Remove
<1>4. CASE clear
  BY <1>4 DEF GasTypeOK, clear, NoStrategies
<1>5. ASSUME NEW trade, NEW v \in Values,
             Update(trade, "tip", v.tip) \/ Update(trade, "cu_price", v.cu_price)
      PROVE  GasTypeOK'
  <2>1. strategies' \in [Pairs -> [Kinds -> Values \cup {Absent}]]
    BY <1>5, UpdateMap
  <2> QED  BY <1>5, <2>1 DEF GasTypeOK, Update
<1>6. CASE UNCHANGED feeVars
  BY <1>6 DEF GasTypeOK, feeVars
<1> QED  BY <1>1, <1>2, <1>3, <1>4, <1>5, <1>6 DEF FeeNext

(***************************************************************************)
(* No channel is left without a fee.                                       *)
(***************************************************************************)

\* A call that has made its first rcu still replaces what it deletes.
LEMMA TailReplaces ==
  ASSUME NEW s \in Seq(Step), s # <<>>, Replaces(s)
  PROVE  Replaces(Tail(s))
<1>1. /\ Len(s) \in Nat /\ Len(s) >= 1 /\ DOMAIN s = 1..Len(s) /\ DOMAIN Tail(s) = 1..(Len(s) - 1)
      /\ \A i \in 1..(Len(s) - 1) : Tail(s)[i] = s[i + 1]
  BY AfterHead
<1> SUFFICES ASSUME NEW i \in DOMAIN Tail(s), Tail(s)[i].op = "del"
             PROVE  \E j \in DOMAIN Tail(s) : j > i /\ Tail(s)[j].op = "put"
                                              /\ Tail(s)[j].pair = Tail(s)[i].pair
  BY DEF Replaces
<1>2. i + 1 \in DOMAIN s /\ Tail(s)[i] = s[i + 1]
  BY <1>1
<1>3. PICK j \in DOMAIN s : j > i + 1 /\ s[j].op = "put" /\ s[j].pair = Tail(s)[i].pair
  BY <1>2 DEF Replaces
<1>4. j - 1 \in DOMAIN Tail(s) /\ j - 1 > i /\ (j - 1) + 1 = j
  BY <1>1, <1>3
<1>5. Tail(s)[j - 1] = s[j]
  BY <1>1, <1>4
<1> QED  BY <1>3, <1>4, <1>5

\* What an rcu leaves of the insertions ahead for a pair.
LEMMA InsertsAfter ==
  ASSUME NEW s \in Seq(Step), s # <<>>, NEW p, NEW i \in DOMAIN s, i # 1,
         s[i].op = "put", s[i].pair = p
  PROVE  InsertsFor(Tail(s), p)
<1>1. /\ Len(s) \in Nat /\ DOMAIN s = 1..Len(s) /\ DOMAIN Tail(s) = 1..(Len(s) - 1)
      /\ \A j \in 1..(Len(s) - 1) : Tail(s)[j] = s[j + 1]
  BY AfterHead
<1>2. i - 1 \in DOMAIN Tail(s) /\ (i - 1) + 1 = i
  BY <1>1
<1>3. Tail(s)[i - 1] = s[i]
  BY <1>1, <1>2
<1> QED  BY <1>2, <1>3 DEF InsertsFor

\* The initial state.
LEMMA UnsetInit == FeeInit => UnsetInv
BY DEF FeeInit, UnsetInv, GasTypeOK, Replacing, NeverUnset, Replaces, NoStrategies

\* A deletion in a call is followed by an insertion of the call, and that is
\* what keeps NeverUnset while the pair is empty.
LEMMA UnsetStep ==
  ASSUME UnsetInv, [FeeNext]_feeVars
  PROVE  UnsetInv'
<1> USE DEF UnsetInv
<1>1. GasTypeOK'
  BY GasTypeStep
<1>2. Replacing'
  <2>1. ASSUME NEW w \in Writers, NEW steps \in Calls, Call(w, steps)
        PROVE  Replacing'
    <3>1. Replaces(steps)
      BY <2>1, CallsWhole DEF Call, WholeCall
    <3> QED  BY <2>1, <3>1 DEF Replacing, Call, GasTypeOK
  <2>2. ASSUME NEW w \in Writers, Rcu(w)
        PROVE  Replacing'
    <3>1. Replaces(Tail(todo[w]))
      BY <2>2, TailReplaces DEF Rcu, GasTypeOK, Replacing
    <3> QED  BY <2>2, <3>1 DEF Replacing, Rcu, GasTypeOK
  <2>3. CASE UNCHANGED todo
    BY <2>3 DEF Replacing
  <2> QED  BY <2>1, <2>2, <2>3 DEF FeeNext, Remove, clear, Update, feeVars
<1>3. NeverUnset'
  <2> SUFFICES ASSUME NEW p \in configured', ~IsSet(strategies', p)
               PROVE  \E w \in Writers : InsertsFor(todo'[w], p)
    BY DEF NeverUnset, InsertsFor
  <2>1. ~IsSet(strategies, p) /\ p \in configured => \E w \in Writers : InsertsFor(todo[w], p)
    BY DEF NeverUnset, InsertsFor
  <2>2. p \in Pairs
    BY <1>1 DEF GasTypeOK
  <2>3. ASSUME NEW w \in Writers, NEW steps \in Calls, Call(w, steps)
        PROVE  \E v \in Writers : InsertsFor(todo'[v], p)
    <3>1. PICK v \in Writers : InsertsFor(todo[v], p)
      BY <2>1, <2>3 DEF Call
    <3>2. v # w
      BY <2>3, <3>1 DEF Call, InsertsFor
    <3>3. todo'[v] = todo[v]
      BY <2>3, <3>2 DEF Call, GasTypeOK
    <3> QED  BY <3>1, <3>3
  <2>4. ASSUME NEW w \in Writers, Rcu(w)
        PROVE  \E v \in Writers : InsertsFor(todo'[v], p)
    <3> DEFINE step == todo[w][1]
    <3>1. /\ todo[w] \in Seq(Step) /\ todo[w] # <<>> /\ todo \in [Writers -> Seq(Step)]
          /\ todo' = [todo EXCEPT ![w] = Tail(todo[w])]
      BY <2>4 DEF GasTypeOK, Rcu
    <3>2. step \in Step /\ step = Head(todo[w]) /\ 1 \in DOMAIN todo[w]
      BY <3>1, AfterHead
    <3>3. /\ step.op \in {"del", "put"} /\ step.pair \in Pairs
          /\ step.op = "put" => step.kind \in Kinds /\ step.value \in Values
      BY <3>2, StepFields
    <3>4. \A q \in Pairs : q # step.pair => strategies'[q] = strategies[q]
      BY <2>4, RcuMap
    <3>5. ASSUME p \in configured, ~IsSet(strategies, p), step.op = "put" => step.pair # p
          PROVE  \E v \in Writers : InsertsFor(todo'[v], p)
      <4>1. PICK v \in Writers : InsertsFor(todo[v], p)
        BY <2>1, <3>5
      <4>2. CASE v # w
        <5>1. todo'[v] = todo[v]
          BY <3>1, <4>2
        <5> QED  BY <4>1, <5>1
      <4>3. CASE v = w
        <5>1. PICK i \in DOMAIN todo[w] : todo[w][i].op = "put" /\ todo[w][i].pair = p
          BY <4>1, <4>3 DEF InsertsFor
        <5>2. i # 1
          BY <3>5, <5>1
        <5>3. InsertsFor(Tail(todo[w]), p)
          BY <3>1, <5>1, <5>2, InsertsAfter
        <5>4. todo'[w] = Tail(todo[w])
          BY <3>1
        <5> QED  BY <5>3, <5>4
      <4> QED  BY <4>2, <4>3
    <3>6. CASE p # step.pair
      <4>1. ~IsSet(strategies, p)
        BY <2>2, <3>4, <3>6 DEF IsSet
      <4>2. p \in configured
        BY <2>4, <3>2, <3>6 DEF Rcu
      <4> QED  BY <3>5, <3>6, <4>1, <4>2
    <3>7. CASE p = step.pair /\ step.op = "put"
      <4>1. strategies'[p][step.kind] = step.value
        BY <2>4, <3>3, <3>7, RcuMap
      <4>2. step.value # Absent
        BY <3>3, <3>7, GasFeeAssumption
      <4> QED  BY <3>3, <3>7, <4>1, <4>2 DEF IsSet
    <3>8. CASE p = step.pair /\ step.op = "del"
      <4>1. PICK j \in DOMAIN todo[w] : j > 1 /\ todo[w][j].op = "put" /\ todo[w][j].pair = p
        BY <3>2, <3>8 DEF Replacing, Replaces
      <4>2. j # 1
        BY <3>1, <4>1, AfterHead
      <4>3. InsertsFor(Tail(todo[w]), p)
        BY <3>1, <4>1, <4>2, InsertsAfter
      <4>4. todo'[w] = Tail(todo[w])
        BY <3>1
      <4> QED  BY <4>3, <4>4
    <3> QED  BY <3>3, <3>6, <3>7, <3>8
  <2>5. ASSUME NEW q \in Pairs, NEW kinds, Remove(q, kinds)
        PROVE  \E v \in Writers : InsertsFor(todo'[v], p)
    <3>1. q # p
      BY <2>5 DEF Remove
    <3>2. \A k \in Kinds : strategies'[p][k] = strategies[p][k]
      BY <2>2, <2>5, <3>1, RemoveMap
    <3>3. ~IsSet(strategies, p) /\ p \in configured
      BY <2>5, <3>2 DEF IsSet, Remove
    <3> QED  BY <2>1, <2>5, <3>3 DEF Remove
  <2>6. CASE clear
    BY <2>6 DEF clear
  <2>7. ASSUME NEW trade, NEW v \in Values,
               Update(trade, "tip", v.tip) \/ Update(trade, "cu_price", v.cu_price)
        PROVE  \E w \in Writers : InsertsFor(todo'[w], p)
    <3>1. \A k \in Kinds : strategies'[p][k] = Absent <=> strategies[p][k] = Absent
      BY <2>2, <2>7, UpdateMap
    <3>2. ~IsSet(strategies, p) /\ p \in configured
      BY <2>7, <3>1 DEF IsSet, Update
    <3> QED  BY <2>1, <2>7, <3>2 DEF Update
  <2>8. CASE UNCHANGED feeVars
    BY <2>1, <2>8 DEF feeVars
  <2> QED  BY <2>3, <2>4, <2>5, <2>6, <2>7, <2>8 DEF FeeNext
<1> QED  BY <1>1, <1>2, <1>3

\* Whatever the threads that hold clones of a GasFeeStrategy do to each other, a
\* configured channel is without a fee only while a call is about to insert it.
THEOREM NoChannelUnset == FeeSpec => []NeverUnset
<1>1. UnsetInv => NeverUnset
  BY DEF UnsetInv
<1>2. UnsetInv /\ [FeeNext]_feeVars => UnsetInv'
  BY UnsetStep
<1> QED  BY <1>1, <1>2, UnsetInit, PTL DEF FeeSpec

(***************************************************************************)
(* The kinds of a channel exclude each other.                              *)
(***************************************************************************)

\* The initial state.
LEMMA KindsInit == FeeInit => KindsInv
BY DEF FeeInit, KindsInv, GasTypeOK, Touching, Overlaps, Cleaning, Exclusive, NoStrategies,
       Rivals, Kinds

\* An rcu of another call on another pair, a deletion or an update: the entries
\* that were empty stay empty, and the steps of the call are the same.
LEMMA VacantKept ==
  ASSUME NEW s, NEW i \in DOMAIN s, NEW c,
         strategies[s[i].pair][c] = Absent => strategies'[s[i].pair][c] = Absent,
         Cleared(s, i, c) \/ Vacant(s, i, c)
  PROVE  Cleared(s, i, c) \/ (/\ strategies'[s[i].pair][c] = Absent
                              /\ \A m \in DOMAIN s : m < i => ~Inserts(s[m], s[i].pair, c))
BY DEF Vacant

\* An rcu of the call itself: a deletion that was still ahead is now done, or
\* it is still ahead.
LEMMA TailCleared ==
  ASSUME GasTypeOK, NEW w \in Writers, Rcu(w),
         NEW i \in DOMAIN Tail(todo[w]), NEW c \in Kinds,
         Cleared(todo[w], i + 1, c) \/ Vacant(todo[w], i + 1, c)
  PROVE  \/ Cleared(Tail(todo[w]), i, c)
         \/ /\ strategies'[Tail(todo[w])[i].pair][c] = Absent
            /\ \A m \in DOMAIN Tail(todo[w]) :
                 m < i => ~Inserts(Tail(todo[w])[m], Tail(todo[w])[i].pair, c)
<1> DEFINE s == todo[w]
           t == Tail(todo[w])
           p == t[i].pair
<1>1. s \in Seq(Step) /\ s # <<>>
  BY DEF GasTypeOK, Rcu
<1>2. /\ Len(s) \in Nat /\ Len(s) >= 1 /\ DOMAIN s = 1..Len(s) /\ DOMAIN t = 1..(Len(s) - 1)
      /\ \A m \in 1..(Len(s) - 1) : t[m] = s[m + 1]
  BY <1>1, AfterHead
<1>3. i \in 1..(Len(s) - 1) /\ i + 1 \in DOMAIN s /\ s[i + 1] = t[i]
  BY <1>2
<1>4. p \in Pairs
  <2>1. s[i + 1] \in Step
    BY <1>1, <1>2, <1>3, ElementOfSeq
  <2> QED  BY <1>3, <2>1, StepFields
<1>5. /\ s[1] \in Step
      /\ \A q \in Pairs : q # s[1].pair => strategies'[q] = strategies[q]
      /\ s[1].op = "put" => \A k \in Kinds : strategies'[s[1].pair][k] =
           IF k = s[1].kind THEN s[1].value ELSE strategies[s[1].pair][k]
      /\ s[1].op = "del" => \A k \in Kinds : strategies'[s[1].pair][k] =
           IF k \in s[1].kinds THEN Absent ELSE strategies[s[1].pair][k]
  BY RcuMap
<1>6. s[1].op \in {"del", "put"}
  BY <1>5, StepFields
<1>7. Cleared(s, i + 1, c) \/ Vacant(s, i + 1, c)
  OBVIOUS
<1> HIDE DEF s, t, p
<1>8. CASE Vacant(s, i + 1, c)
  <2>1. /\ strategies[p][c] = Absent
        /\ \A m \in DOMAIN s : m < i + 1 => ~Inserts(s[m], p, c)
    BY <1>3, <1>8 DEF Vacant, p
  <2>2. ~Inserts(s[1], p, c)
    BY <1>2, <1>3, <2>1
  <2>3. strategies'[p][c] = Absent
    <3>1. CASE s[1].pair # p
      BY <1>4, <1>5, <2>1, <3>1
    <3>2. CASE s[1].pair = p /\ s[1].op = "del"
      BY <1>5, <2>1, <3>2
    <3>3. CASE s[1].pair = p /\ s[1].op = "put"
      BY <1>5, <2>1, <2>2, <3>3 DEF Inserts
    <3> QED  BY <1>6, <3>1, <3>2, <3>3
  <2>4. ASSUME NEW m \in DOMAIN t, m < i  PROVE ~Inserts(t[m], p, c)
    <3>1. m + 1 \in DOMAIN s /\ m + 1 < i + 1 /\ t[m] = s[m + 1]
      BY <1>2, <1>3, <2>4
    <3> QED  BY <2>1, <3>1
  <2> QED  BY <2>3, <2>4 DEF s, t, p
<1>9. CASE Cleared(s, i + 1, c)
  <2>1. PICK j \in DOMAIN s :
          /\ j < i + 1 /\ Deletes(s[j], p, c)
          /\ \A m \in DOMAIN s : j < m /\ m < i + 1 => ~Inserts(s[m], p, c)
    BY <1>3, <1>9 DEF Cleared, p
  <2>2. ASSUME NEW m \in DOMAIN t, m < i, j < m + 1  PROVE ~Inserts(t[m], p, c)
    <3>1. m + 1 \in DOMAIN s /\ m + 1 < i + 1 /\ t[m] = s[m + 1]
      BY <1>2, <1>3, <2>2
    <3> QED  BY <2>1, <2>2, <3>1
  <2>3. CASE j = 1
    <3>1. strategies'[p][c] = Absent
      BY <1>5, <2>1, <2>3 DEF Deletes
    <3>2. \A m \in DOMAIN t : m < i => ~Inserts(t[m], p, c)
      BY <1>2, <2>2, <2>3
    <3> QED  BY <3>1, <3>2 DEF s, t, p
  <2>4. CASE j # 1
    <3>1. j - 1 \in DOMAIN t /\ j - 1 < i /\ (j - 1) + 1 = j
      BY <1>2, <1>3, <2>1, <2>4
    <3>2. t[j - 1] = s[j]
      BY <1>2, <3>1
    <3>3. \A m \in DOMAIN t : j - 1 < m /\ m < i => ~Inserts(t[m], p, c)
      BY <1>2, <2>2
    <3>4. Cleared(t, i, c)
      BY <2>1, <3>1, <3>2, <3>3 DEF Cleared, p
    <3> QED  BY <3>4 DEF t
  <2> QED  BY <2>3, <2>4
<1> QED  BY <1>7, <1>8, <1>9

\* The threads at work and the pairs they work on.
LEMMA TouchingStep ==
  ASSUME GasTypeOK, Touching, Overlaps, [FeeNext]_feeVars
  PROVE  Touching' /\ Overlaps'
<1>1. ASSUME NEW w \in Writers, NEW steps \in Calls, Call(w, steps)
      PROVE  Touching' /\ Overlaps'
  <2>1. /\ todo' = [todo EXCEPT ![w] = steps] /\ touched' = [touched EXCEPT ![w] = PairsOf(steps)]
        /\ contended' = contended \cup
             {p \in PairsOf(steps) : \E v \in Writers \ {w} : todo[v] # <<>> /\ p \in touched[v]}
        /\ todo \in [Writers -> Seq(Step)] /\ touched \in [Writers -> SUBSET Pairs]
    BY <1>1 DEF Call, GasTypeOK
  <2>2. Touching'
    BY <2>1 DEF Touching, PairsOf
  <2>3. Overlaps'
    <3> SUFFICES ASSUME NEW x \in Writers, NEW y \in Writers, x # y,
                        todo'[x] # <<>>, todo'[y] # <<>>,
                        NEW p \in touched'[x] \cap touched'[y]
                 PROVE  p \in contended'
      BY DEF Overlaps
    <3>1. CASE x = w  BY <2>1, <3>1
    <3>2. CASE y = w  BY <2>1, <3>2
    <3>3. CASE x # w /\ y # w  BY <2>1, <3>3 DEF Overlaps
    <3> QED  BY <3>1, <3>2, <3>3
  <2> QED  BY <2>2, <2>3
<1>2. ASSUME NEW w \in Writers, Rcu(w)
      PROVE  Touching' /\ Overlaps'
  <2>1. /\ todo[w] # <<>> /\ todo' = [todo EXCEPT ![w] = Tail(todo[w])]
        /\ touched' = [touched EXCEPT ![w] = IF Len(todo[w]) = 1 THEN {} ELSE touched[w]]
        /\ contended' = contended
        /\ todo \in [Writers -> Seq(Step)] /\ touched \in [Writers -> SUBSET Pairs]
    BY <1>2 DEF Rcu, GasTypeOK
  <2>2. /\ Len(todo[w]) \in Nat /\ DOMAIN todo[w] = 1..Len(todo[w])
        /\ DOMAIN Tail(todo[w]) = 1..(Len(todo[w]) - 1)
        /\ \A i \in 1..(Len(todo[w]) - 1) : Tail(todo[w])[i] = todo[w][i + 1]
    BY <2>1, AfterHead
  <2>3. Touching'
    <3> SUFFICES ASSUME NEW v \in Writers, NEW i \in DOMAIN todo'[v]
                 PROVE  todo'[v][i].pair \in touched'[v]
      BY DEF Touching
    <3>1. CASE v # w  BY <2>1, <3>1 DEF Touching
    <3>2. CASE v = w
      <4>1. todo'[v] = Tail(todo[w])
        BY <2>1, <3>2
      <4>2. i + 1 \in DOMAIN todo[w] /\ todo'[v][i] = todo[w][i + 1] /\ Len(todo[w]) # 1
        BY <2>2, <4>1
      <4> QED  BY <2>1, <3>2, <4>2 DEF Touching
    <3> QED  BY <3>1, <3>2
  <2>4. Overlaps'
    <3>1. \A v \in Writers : touched'[v] \subseteq touched[v]
      BY <2>1
    <3>2. \A v \in Writers : todo'[v] # <<>> => todo[v] # <<>>
      BY <2>1
    <3> QED  BY <2>1, <3>1, <3>2 DEF Overlaps
  <2> QED  BY <2>3, <2>4
<1>3. CASE UNCHANGED <<todo, touched, contended>>
  BY <1>3 DEF Touching, Overlaps
<1> QED  BY <1>1, <1>2, <1>3 DEF FeeNext, Remove, clear, Update, feeVars

\* Before an insertion of a call the kinds it excludes are empty or about to be
\* deleted.
LEMMA CleaningStep ==
  ASSUME KindsInv, [FeeNext]_feeVars
  PROVE  Cleaning'
<1> SUFFICES ASSUME NEW v \in Writers, NEW i \in DOMAIN todo'[v], todo'[v][i].op = "put",
                    todo'[v][i].pair \notin contended', NEW c \in Rivals(todo'[v][i].kind)
             PROVE  Cleared(todo'[v], i, c)
                    \/ (/\ strategies'[todo'[v][i].pair][c] = Absent
                        /\ \A m \in DOMAIN todo'[v] : m < i => ~Inserts(todo'[v][m], todo'[v][i].pair, c))
  BY DEF Cleaning, Vacant
<1>1. GasTypeOK /\ GasTypeOK'
  BY GasTypeStep DEF KindsInv
<1>2. todo'[v] \in Seq(Step) /\ todo'[v][i] \in Step
  BY <1>1, ElementOfSeq, LenProperties DEF GasTypeOK
<1>3. todo'[v][i].pair \in Pairs /\ c \in Kinds
  BY <1>2, StepFields DEF Rivals, Kinds
<1>4. ASSUME todo'[v] = todo[v], contended \subseteq contended',
             strategies[todo[v][i].pair][c] = Absent => strategies'[todo[v][i].pair][c] = Absent
      PROVE  Cleared(todo'[v], i, c)
             \/ (/\ strategies'[todo'[v][i].pair][c] = Absent
                 /\ \A m \in DOMAIN todo'[v] : m < i => ~Inserts(todo'[v][m], todo'[v][i].pair, c))
  <2>1. Cleared(todo[v], i, c) \/ Vacant(todo[v], i, c)
    BY <1>4 DEF KindsInv, Cleaning
  <2> QED  BY <1>4, <2>1, VacantKept
<1>5. ASSUME NEW w \in Writers, NEW steps \in Calls, Call(w, steps)
      PROVE  Cleared(todo'[v], i, c)
             \/ (/\ strategies'[todo'[v][i].pair][c] = Absent
                 /\ \A m \in DOMAIN todo'[v] : m < i => ~Inserts(todo'[v][m], todo'[v][i].pair, c))
  <2>1. CASE v = w
    <3>1. todo'[v] = steps
      BY <1>1, <1>5, <2>1 DEF Call, GasTypeOK
    <3>2. Cleans(steps)
      BY <1>5, CallsWhole DEF Call, WholeCall
    <3> QED  BY <3>1, <3>2 DEF Cleans
  <2>2. CASE v # w
    <3>1. todo'[v] = todo[v] /\ contended \subseteq contended' /\ strategies' = strategies
      BY <1>1, <1>5, <2>2 DEF Call, GasTypeOK
    <3> QED  BY <1>4, <3>1
  <2> QED  BY <2>1, <2>2
<1>6. ASSUME NEW w \in Writers, Rcu(w)
      PROVE  Cleared(todo'[v], i, c)
             \/ (/\ strategies'[todo'[v][i].pair][c] = Absent
                 /\ \A m \in DOMAIN todo'[v] : m < i => ~Inserts(todo'[v][m], todo'[v][i].pair, c))
  <2>1. /\ todo[w] # <<>> /\ todo' = [todo EXCEPT ![w] = Tail(todo[w])] /\ contended' = contended
        /\ todo \in [Writers -> Seq(Step)]
    BY <1>1, <1>6 DEF Rcu, GasTypeOK
  <2>2. /\ Len(todo[w]) \in Nat /\ Len(todo[w]) >= 1 /\ DOMAIN todo[w] = 1..Len(todo[w])
        /\ DOMAIN Tail(todo[w]) = 1..(Len(todo[w]) - 1)
        /\ \A m \in 1..(Len(todo[w]) - 1) : Tail(todo[w])[m] = todo[w][m + 1]
    BY <2>1, AfterHead
  <2>3. CASE v = w
    <3>1. todo'[v] = Tail(todo[w]) /\ i \in DOMAIN Tail(todo[w])
      BY <2>1, <2>3
    <3>2. i + 1 \in DOMAIN todo[w] /\ todo[w][i + 1] = todo'[v][i]
      BY <2>2, <3>1
    <3>3. Cleared(todo[w], i + 1, c) \/ Vacant(todo[w], i + 1, c)
      BY <2>1, <3>2 DEF KindsInv, Cleaning
    <3> QED  BY <1>1, <1>3, <1>6, <3>1, <3>3, TailCleared
  <2>4. CASE v # w
    <3>1. todo'[v] = todo[v]
      BY <2>1, <2>4
    <3>2. todo'[v][i].pair \in touched[v] /\ todo[w][1].pair \in touched[w]
      BY <2>2, <3>1 DEF KindsInv, Touching
    <3>3. todo[v] # <<>>
      BY <3>1
    <3>4. todo'[v][i].pair # todo[w][1].pair
      BY <2>1, <2>4, <3>2, <3>3 DEF KindsInv, Overlaps
    <3>5. strategies'[todo'[v][i].pair] = strategies[todo'[v][i].pair]
      BY <1>1, <1>3, <1>6, <3>4, RcuMap
    <3> QED  BY <1>4, <2>1, <3>1, <3>5
  <2> QED  BY <2>3, <2>4
<1>7. ASSUME NEW q \in Pairs, NEW kinds, Remove(q, kinds)
      PROVE  Cleared(todo'[v], i, c)
             \/ (/\ strategies'[todo'[v][i].pair][c] = Absent
                 /\ \A m \in DOMAIN todo'[v] : m < i => ~Inserts(todo'[v][m], todo'[v][i].pair, c))
  <2>1. todo' = todo /\ contended' = contended
    BY <1>7 DEF Remove
  <2>2. strategies[todo[v][i].pair][c] = Absent => strategies'[todo[v][i].pair][c] = Absent
    BY <1>1, <1>3, <1>7, <2>1, RemoveMap
  <2> QED  BY <1>4, <2>1, <2>2
<1>8. CASE clear
  <2>1. todo' = todo /\ contended' = contended /\ strategies' = NoStrategies
    BY <1>8 DEF clear
  <2>2. strategies'[todo[v][i].pair][c] = Absent
    BY <1>3, <2>1 DEF NoStrategies
  <2> QED  BY <1>4, <2>1, <2>2
<1>9. ASSUME NEW trade, NEW x \in Values,
             Update(trade, "tip", x.tip) \/ Update(trade, "cu_price", x.cu_price)
      PROVE  Cleared(todo'[v], i, c)
             \/ (/\ strategies'[todo'[v][i].pair][c] = Absent
                 /\ \A m \in DOMAIN todo'[v] : m < i => ~Inserts(todo'[v][m], todo'[v][i].pair, c))
  <2>1. todo' = todo /\ contended' = contended
    BY <1>9 DEF Update
  <2>2. strategies[todo[v][i].pair][c] = Absent => strategies'[todo[v][i].pair][c] = Absent
    BY <1>1, <1>3, <1>9, <2>1, UpdateMap
  <2> QED  BY <1>4, <2>1, <2>2
<1>10. CASE UNCHANGED feeVars
  <2>1. todo' = todo /\ contended' = contended /\ strategies' = strategies
    BY <1>10 DEF feeVars
  <2> QED  BY <1>4, <2>1
<1> QED  BY <1>5, <1>6, <1>7, <1>8, <1>9, <1>10 DEF FeeNext

\* The map itself.
LEMMA ExclusiveStep ==
  ASSUME KindsInv, [FeeNext]_feeVars
  PROVE  Exclusive'
<1> SUFFICES ASSUME NEW p \in Pairs, p \notin contended', strategies'[p]["Normal"] # Absent,
                    NEW c \in Rivals("Normal")
             PROVE  strategies'[p][c] = Absent
  BY DEF Exclusive
<1>1. GasTypeOK /\ GasTypeOK'
  BY GasTypeStep DEF KindsInv
<1>2. c \in Kinds /\ "Normal" \in Kinds /\ c # "Normal"
  BY DEF Rivals, Kinds
<1>3. ASSUME contended \subseteq contended',
             \A k \in Kinds : strategies[p][k] = Absent => strategies'[p][k] = Absent
      PROVE  strategies'[p][c] = Absent
  <2>1. p \notin contended /\ strategies[p]["Normal"] # Absent
    BY <1>2, <1>3
  <2>2. strategies[p][c] = Absent
    BY <2>1 DEF KindsInv, Exclusive
  <2> QED  BY <1>2, <1>3, <2>2
<1>4. ASSUME NEW w \in Writers, NEW steps \in Calls, Call(w, steps)
      PROVE  strategies'[p][c] = Absent
  BY <1>3, <1>4 DEF Call
<1>5. ASSUME NEW w \in Writers, Rcu(w)
      PROVE  strategies'[p][c] = Absent
  <2> DEFINE step == todo[w][1]
  <2>1. todo[w] # <<>> /\ todo[w] \in Seq(Step) /\ contended' = contended
    BY <1>1, <1>5 DEF Rcu, GasTypeOK
  <2>2. DOMAIN todo[w] = 1..Len(todo[w]) /\ 1 \in DOMAIN todo[w]
    BY <2>1, AfterHead
  <2>3. /\ step \in Step
        /\ \A q \in Pairs : q # step.pair => strategies'[q] = strategies[q]
        /\ step.op = "put" => \A k \in Kinds : strategies'[step.pair][k] =
              IF k = step.kind THEN step.value ELSE strategies[step.pair][k]
        /\ step.op = "del" => \A k \in Kinds : strategies'[step.pair][k] =
              IF k \in step.kinds THEN Absent ELSE strategies[step.pair][k]
    BY <1>1, <1>5, RcuMap
  <2>4. step.op \in {"del", "put"} /\ (step.op = "put" => step.kind \in Kinds)
    BY <2>3, StepFields
  <2>5. CASE p # step.pair
    BY <1>3, <2>1, <2>3, <2>5
  <2>6. CASE p = step.pair /\ step.op = "del"
    BY <1>3, <2>1, <2>3, <2>6
  <2>7. CASE p = step.pair /\ step.op = "put"
    <3>1. ASSUME NEW k \in Rivals(step.kind)  PROVE strategies[p][k] = Absent
      <4>1. Cleared(todo[w], 1, k) \/ Vacant(todo[w], 1, k)
        BY <2>1, <2>2, <2>7 DEF KindsInv, Cleaning
      <4>2. ~Cleared(todo[w], 1, k)
        BY <2>2 DEF Cleared
      <4> QED  BY <2>7, <4>1, <4>2 DEF Vacant
    <3>2. CASE step.kind = "Normal"
      BY <1>2, <2>3, <2>7, <3>1, <3>2
    <3>3. CASE step.kind # "Normal"
      <4>1. strategies[p]["Normal"] = Absent
        BY <3>1, <3>3 DEF Rivals
      <4> QED  BY <1>2, <2>3, <2>7, <3>3, <4>1
    <3> QED  BY <3>2, <3>3
  <2> QED  BY <2>4, <2>5, <2>6, <2>7
<1>6. ASSUME NEW q \in Pairs, NEW kinds, Remove(q, kinds)
      PROVE  strategies'[p][c] = Absent
  <2>1. contended' = contended
    BY <1>6 DEF Remove
  <2>2. \A k \in Kinds : strategies[p][k] = Absent => strategies'[p][k] = Absent
    BY <1>1, <1>6, RemoveMap
  <2> QED  BY <1>3, <2>1, <2>2
<1>7. CASE clear
  BY <1>2, <1>7 DEF clear, NoStrategies
<1>8. ASSUME NEW trade, NEW x \in Values,
             Update(trade, "tip", x.tip) \/ Update(trade, "cu_price", x.cu_price)
      PROVE  strategies'[p][c] = Absent
  <2>1. contended' = contended
    BY <1>8 DEF Update
  <2>2. \A k \in Kinds : strategies[p][k] = Absent => strategies'[p][k] = Absent
    BY <1>1, <1>8, UpdateMap
  <2> QED  BY <1>3, <2>1, <2>2
<1>9. CASE UNCHANGED feeVars
  BY <1>3, <1>9 DEF feeVars
<1> QED  BY <1>4, <1>5, <1>6, <1>7, <1>8, <1>9 DEF FeeNext

\* What a swap sends through a channel are the kinds that are in the map.
LEMMA SentAreSet ==
  ASSUME GasTypeOK, NEW p \in Pairs, NEW k
  PROVE  k \in SentKinds(p[1], p[2]) <=> k \in Kinds /\ strategies[p][k] # Absent
<1>1. p = <<p[1], p[2]>> /\ p[1] \in Types
  BY DEF Pairs
<1>2. \A j \in Kinds : strategies[p][j] \in Values \cup {Absent}
  BY DEF GasTypeOK
<1>3. Absent \notin Values
  BY GasFeeAssumption
<1>4. ASSUME k \in SentKinds(p[1], p[2])
      PROVE  k \in Kinds /\ strategies[p][k] # Absent
  <2>1. PICK c \in task_configs(Types, p[2], TRUE, FALSE) : c[1] = p[1] /\ c[2] = k
    BY <1>4 DEF SentKinds
  <2>2. c \in Types \X Kinds \X Values /\ c[3] = strategies[<<c[1], p[2]>>][c[2]]
    BY <2>1 DEF task_configs, get_strategies
  <2>3. c[2] \in Kinds /\ c[3] \in Values
    BY <2>2
  <2> QED  BY <1>1, <1>3, <2>1, <2>2, <2>3
<1>5. ASSUME k \in Kinds, strategies[p][k] # Absent
      PROVE  k \in SentKinds(p[1], p[2])
  <2> DEFINE c == <<p[1], k, strategies[p][k]>>
  <2>1. c \in Types \X Kinds \X Values
    BY <1>1, <1>2, <1>5
  <2>2. c[1] = p[1] /\ c[2] = k /\ c[3] = strategies[p][k]
    OBVIOUS
  <2> HIDE DEF c
  <2>3. c[3] = strategies[<<c[1], p[2]>>][c[2]]
    BY <1>1, <2>2
  <2>4. c \in get_strategies(p[2])
    BY <2>1, <2>3 DEF get_strategies
  <2>5. c \in task_configs(Types, p[2], TRUE, FALSE)
    BY <1>1, <2>2, <2>4 DEF task_configs
  <2> QED  BY <2>2, <2>5 DEF SentKinds
<1> QED  BY <1>4, <1>5

\* A swap never finds the normal strategy of a channel together with a high-low
\* one, at whatever point of whatever call it reads the map, unless two calls
\* worked on the channel at once.
THEOREM KindsExcludeEachOther == FeeSpec => []KindsExclusive
<1>1. ASSUME KindsInv  PROVE KindsExclusive
  <2> SUFFICES ASSUME NEW p \in Pairs \ contended, "Normal" \in SentKinds(p[1], p[2])
               PROVE  SentKinds(p[1], p[2]) = {"Normal"}
    BY DEF KindsExclusive
  <2>1. GasTypeOK /\ Exclusive
    BY <1>1 DEF KindsInv
  <2>2. strategies[p]["Normal"] # Absent
    BY <2>1, SentAreSet
  <2>3. \A c \in Rivals("Normal") : strategies[p][c] = Absent
    BY <2>1, <2>2 DEF Exclusive
  <2>4. \A k : k \in SentKinds(p[1], p[2]) => k = "Normal"
    BY <2>1, <2>3, SentAreSet DEF Rivals
  <2> QED  BY <2>4
<1>2. KindsInv /\ [FeeNext]_feeVars => KindsInv'
  BY GasTypeStep, TouchingStep, CleaningStep, ExclusiveStep DEF KindsInv
<1> QED  BY <1>1, <1>2, KindsInit, PTL DEF FeeSpec

-----------------------------------------------------------------------------
(***************************************************************************)
(* Transaction assembly: the middlewares.                                  *)
(***************************************************************************)
\* A set of numbers has a least one: with it, induction over a list.
LEMMA LeastNatural ==
  ASSUME NEW S \in SUBSET Nat, S # {}
  PROVE  \E n \in S : \A m \in S : n <= m
<1>1. PICK n \in S : \A m \in S : <<m, n>> \notin OpToRel(<, Nat)
  BY WFMin, NatLessThanWellFounded, Zenon
<1>2. \A m \in S : ~(m < n)
  BY <1>1 DEF OpToRel
<1> QED  BY <1>2

\* What the next middleware makes of the result so far.
Through(r, m) ==
  IF r.ends THEN r
  ELSE LET out == process(m, Some(r.out)) IN [out |-> out, ends |-> out \in {{}, {<<>>}}]

Start(instructions) == [out |-> {instructions}, ends |-> FALSE]

\* f is the chain as far as the first n middlewares.
Follows(f, n, ms, instructions) ==
  f = [k \in 0..n |-> IF k = 0 THEN Start(instructions) ELSE Through(f[k - 1], ms[k])]

LEMMA FollowsChosen ==
  ASSUME NEW ms, NEW ixs
  PROVE  Chain(ms, ixs) = CHOOSE f : Follows(f, Len(ms), ms, ixs)
  BY Zenon DEF Chain, Through, Start, Follows

LEMMA FollowsExists ==
  ASSUME NEW ms, Len(ms) \in Nat, NEW ixs
  PROVE  \E f : Follows(f, Len(ms), ms, ixs)
<1> DEFINE Bad == {n \in Nat : ~\E f : Follows(f, n, ms, ixs)}
<1>1. ASSUME Bad # {} PROVE FALSE
  <2>1. PICK n \in Bad : \A m \in Bad : n <= m
    BY <1>1, LeastNatural, Zenon
  <2>2. n # 0
    <3> DEFINE f == [k \in 0..0 |-> Start(ixs)]
    <3>1. Follows(f, 0, ms, ixs)
      BY DEF Follows
    <3> QED  BY <3>1
  <2>3. n - 1 \in Nat /\ n - 1 \notin Bad
    BY <2>1, <2>2
  <2>4. PICK g : Follows(g, n - 1, ms, ixs)
    BY <2>3
  <2> DEFINE f == [k \in 0..n |-> IF k = n THEN Through(g[n - 1], ms[n]) ELSE g[k]]
  <2>5. \A k \in 0 .. n - 1 : g[k] = IF k = 0 THEN Start(ixs) ELSE Through(g[k - 1], ms[k])
    BY <2>4 DEF Follows
  <2>6. \A k \in 0..n : f[k] = IF k = 0 THEN Start(ixs) ELSE Through(f[k - 1], ms[k])
    <3> SUFFICES ASSUME NEW k \in 0..n
                 PROVE  f[k] = IF k = 0 THEN Start(ixs) ELSE Through(f[k - 1], ms[k])
      OBVIOUS
    <3>1. CASE k = n
      <4>1. f[k] = Through(g[n - 1], ms[n]) /\ f[k - 1] = g[n - 1]
        BY <2>2, <2>3, <3>1
      <4> QED  BY <2>2, <3>1, <4>1
    <3>2. CASE k # n
      <4>1. k \in 0 .. n - 1 /\ f[k] = g[k] /\ (k # 0 => f[k - 1] = g[k - 1])
        BY <2>3, <3>2
      <4> QED  BY <2>5, <4>1
    <3> QED  BY <3>1, <3>2
  <2>7. Follows(f, n, ms, ixs)
    BY <2>6 DEF Follows
  <2> QED  BY <2>1, <2>7
<1> QED  BY <1>1

\* The recursive definition of the chain, as an equation.
LEMMA ChainEquation ==
  ASSUME NEW ms, Len(ms) \in Nat, NEW ixs
  PROVE  /\ Chain(ms, ixs)[0] = Start(ixs)
         /\ \A k \in 1 .. Len(ms) : Chain(ms, ixs)[k] = Through(Chain(ms, ixs)[k - 1], ms[k])
<1>1. Follows(Chain(ms, ixs), Len(ms), ms, ixs)
  BY FollowsChosen, FollowsExists, Zenon
<1> QED  BY <1>1 DEF Follows

(***************************************************************************)
(* What the middlewares return.                                            *)
(***************************************************************************)

\* An option of a list of instructions that still begins as the input did.
Returned(r, ixs) ==
  /\ r.ends \in BOOLEAN /\ (r.out = {} => r.ends)
  /\ r.out = {} \/ \E s \in Seq(Ix) : /\ r.out = {s}
                                      /\ s # <<>> /\ ixs # <<>> => s[1] = ixs[1]
                                      /\ s = <<>> => r.ends \/ ixs = <<>>

LEMMA SomeOfOne == \A x : Some({x}) = x
  BY DEF Some

LEMMA MemoTyped == Memo \in Ix
  BY AssemblyAssumption DEF Memo, Ix

LEMMA ReturnedOne ==
  ASSUME NEW ixs, NEW s \in Seq(Ix), s # <<>> /\ ixs # <<>> => s[1] = ixs[1]
  PROVE  Returned([out |-> {s}, ends |-> {s} \in {{}, {<<>>}}], ixs)
<1> DEFINE e == {s} \in {{}, {<<>>}}
           r == [out |-> {s}, ends |-> e]
<1>1. e \in BOOLEAN /\ (s = <<>> => e)
  <2>1. s = <<>> => {s} = {<<>>}
    OBVIOUS
  <2>2. s = <<>> => e
    BY <2>1
  <2>3. e \in BOOLEAN
    OBVIOUS
  <2> QED  BY <2>2, <2>3
<1>2. {s} # {}
  OBVIOUS
<1> HIDE DEF e
<1>3. r.out = {s} /\ r.ends = e
  OBVIOUS
<1> HIDE DEF r
<1>4. Returned(r, ixs)
  BY <1>1, <1>2, <1>3, Zenon DEF Returned
<1> QED  BY <1>4 DEF r, e

LEMMA ThroughReturned ==
  ASSUME NEW r, NEW ixs \in Seq(Ix), Returned(r, ixs), NEW m \in Middleware
  PROVE  Returned(Through(r, m), ixs)
<1>1. CASE r.ends
  BY <1>1 DEF Through
<1>2. CASE ~r.ends
  <2>1. PICK s \in Seq(Ix) : /\ r.out = {s}
                             /\ s # <<>> /\ ixs # <<>> => s[1] = ixs[1]
                             /\ s = <<>> => ixs = <<>>
    BY <1>2, Zenon DEF Returned
  <2>2. \A out : process(m, s) = out => Through(r, m) = [out |-> out, ends |-> out \in {{}, {<<>>}}]
    BY <1>2, <2>1, SomeOfOne, Zenon DEF Through
  <2>3. CASE m = "log"
    <3>1. process(m, s) = {s}
      BY <2>3 DEF process
    <3>2. Returned([out |-> {s}, ends |-> {s} \in {{}, {<<>>}}], ixs)
      BY <2>1, ReturnedOne
    <3> QED  BY <2>2, <3>1, <3>2, Zenon
  <2>4. CASE m = "memo"
    <3>1. process(m, s) = {Append(s, Memo)}
      BY <2>4 DEF process
    <3>2. Append(s, Memo) \in Seq(Ix) /\ (s # <<>> => Append(s, Memo)[1] = s[1])
      <4> HIDE DEF Memo
      <4> QED  BY MemoTyped, AppendProperties
    <3>3. Append(s, Memo) # <<>> /\ ixs # <<>> => Append(s, Memo)[1] = ixs[1]
      BY <2>1, <3>2
    <3> DEFINE u == Append(s, Memo)
    <3> HIDE DEF u, Memo
    <3>4. Returned([out |-> {u}, ends |-> {u} \in {{}, {<<>>}}], ixs)
      BY <3>2, <3>3, ReturnedOne, Zenon DEF u
    <3> QED  BY <2>2, <3>1, <3>4, Zenon DEF u
  <2>5. CASE m = "clear"
    <3>1. process(m, s) = {<<>>}
      BY <2>5 DEF process
    <3>2. <<>> \in Seq(Ix)
      OBVIOUS
    <3> QED  BY <2>2, <3>1, <3>2, ReturnedOne, Zenon
  <2>6. CASE m = "fail"
    <3>1. process(m, s) = {}
      BY <2>6 DEF process
    <3> DEFINE e == {} \in {{}, {<<>>}}
    <3>2. e
      BY Zenon
    <3>3. Through(r, m) = [out |-> {}, ends |-> e]
      BY <2>2, <3>1, Zenon
    <3> HIDE DEF e
    <3>4. Through(r, m).out = {} /\ Through(r, m).ends \in BOOLEAN /\ Through(r, m).ends
      BY <3>2, <3>3
    <3> QED  BY <3>4, Zenon DEF Returned
  <2> QED  BY <2>3, <2>4, <2>5, <2>6 DEF Middleware
<1> QED  BY <1>1, <1>2 DEF Returned

\* Induction along the chain.
LEMMA ChainReturned ==
  ASSUME NEW ms \in Seq(Middleware), NEW ixs \in Seq(Ix)
  PROVE  \A n \in 0 .. Len(ms) : Returned(Chain(ms, ixs)[n], ixs)
<1> DEFINE Bad == {n \in 0 .. Len(ms) : ~Returned(Chain(ms, ixs)[n], ixs)}
<1>1. Len(ms) \in Nat
  OBVIOUS
<1>2. ASSUME Bad # {} PROVE FALSE
  <2>1. PICK n \in Bad : \A m \in Bad : n <= m
    <3>1. Bad \in SUBSET Nat
      OBVIOUS
    <3> HIDE DEF Bad
    <3> QED  BY <1>2, <3>1, LeastNatural, Zenon
  <2>2. n # 0
    <3> DEFINE r == Start(ixs)
    <3>1. r.out = {ixs} /\ r.ends = FALSE
      BY DEF Start
    <3>2. ixs # <<>> /\ ixs # <<>> => ixs[1] = ixs[1]
      OBVIOUS
    <3> HIDE DEF r
    <3>3. Returned(r, ixs)
      BY <3>1, Zenon DEF Returned
    <3> QED  BY <1>1, <3>3, ChainEquation DEF r
  <2>3. n - 1 \in 0 .. Len(ms) /\ n \in 1 .. Len(ms) /\ n - 1 \notin Bad
    BY <2>1, <2>2
  <2>4. Returned(Chain(ms, ixs)[n - 1], ixs) /\ ms[n] \in Middleware
    BY <2>3
  <2>5. Returned(Through(Chain(ms, ixs)[n - 1], ms[n]), ixs)
    BY <2>4, ThroughReturned, Zenon
  <2>6. Chain(ms, ixs)[n] = Through(Chain(ms, ixs)[n - 1], ms[n])
    BY <1>1, <2>3, ChainEquation, Zenon
  <2> QED  BY <2>1, <2>5, <2>6
<1> QED  BY <1>2

\* The middlewares return a list of instructions, or nothing; they leave the
\* first instruction where it is.
LEMMA Applied ==
  ASSUME NEW ms \in Seq(Middleware), NEW ixs \in Seq(Ix), apply_middlewares(ms, ixs) # {}
  PROVE  LET s == Some(apply_middlewares(ms, ixs))
         IN  s \in Seq(Ix) /\ (s # <<>> /\ ixs # <<>> => s[1] = ixs[1])
<1>1. Len(ms) \in 0 .. Len(ms)
  OBVIOUS
<1>2. Returned(Chain(ms, ixs)[Len(ms)], ixs)
  BY <1>1, ChainReturned, Zenon
<1> QED  BY <1>2, SomeOfOne, Zenon DEF Returned, apply_middlewares

(***************************************************************************)
(* The message.                                                            *)
(***************************************************************************)
LEMMA CountUpTo ==
  ASSUME NEW S, NEW i \in Nat, S \cap 1..i = 1..i
  PROVE  Cardinality(S \cap 1..i) = i
<1>1. Cardinality(1..i) = IF 1 > i THEN 0 ELSE i - 1 + 1
  BY FS_Interval
<1>2. (IF 1 > i THEN 0 ELSE i - 1 + 1) = i
  OBVIOUS
<1> QED  BY <1>1, <1>2, Zenon

\* Without zero keys the client's places are those of the table itself.
LEMMA PlacesOfTable ==
  ASSUME NEW a \in Seq(Accounts), ZeroKey \notin {a[i] : i \in DOMAIN a},
         NEW e \in fetch_address_lookup_table_account(a)
  PROVE  e[1] \in DOMAIN a /\ e[2] = a[e[1]]
<1> DEFINE kept == {i \in DOMAIN a : a[i] # ZeroKey}
<1>1. PICK i \in kept : e = <<Cardinality(kept \cap 1..i), a[i]>>
  BY DEF fetch_address_lookup_table_account
<1>2. i \in Nat /\ i \in DOMAIN a /\ kept \cap 1..i = 1..i
  <2>1. DOMAIN a = 1 .. Len(a) /\ Len(a) \in Nat
    BY LenProperties
  <2>2. kept = DOMAIN a
    OBVIOUS
  <2> HIDE DEF kept
  <2> QED  BY <2>1, <2>2
<1> HIDE DEF kept
<1>3. Cardinality(kept \cap 1..i) = i
  BY <1>2, CountUpTo
<1> QED  BY <1>1, <1>2, <1>3

\* The chain reads the instructions that the client wrote.
LEMMA CompiledExecutes ==
  ASSUME NEW ixs \in Seq(Ix), NEW j \in Jobs, NEW hash,
         \A a \in j.table : ZeroKey \notin {a[i] : i \in DOMAIN a}
  PROVE  Executed(Compile(ixs, j.table, hash)) = ixs
<1> DEFINE table == j.table
           entries(key) == {e \in UNION {fetch_address_lookup_table_account(a) : a \in table} :
                              e[2] = key}
           name(key) == IF entries(key) = {} THEN <<"key", key>>
                        ELSE <<"table", Some(entries(key))[1]>>
           c == [i \in DOMAIN ixs |-> [op |-> ixs[i].op, amount |-> ixs[i].amount,
                                       account |-> name(ixs[i].key)]]
           x(i) == IF c[i].account[1] = "key" THEN c[i].account[2]
                   ELSE Some(table)[c[i].account[2]]
<1>1. Executed(Compile(ixs, table, hash)) =
        [i \in DOMAIN ixs |-> [op |-> c[i].op, amount |-> c[i].amount, key |-> x(i)]]
  BY DEF Executed, Compile
<1>2. ASSUME NEW i \in DOMAIN ixs
      PROVE  c[i].op = ixs[i].op /\ c[i].amount = ixs[i].amount /\ x(i) = ixs[i].key
  <2> DEFINE key == ixs[i].key
  <2>1. c[i].op = ixs[i].op /\ c[i].amount = ixs[i].amount /\ c[i].account = name(key)
    OBVIOUS
  <2>2. CASE entries(key) = {}
    <3>1. name(key) = <<"key", key>>
      BY <2>2
    <3> HIDE DEF c, name
    <3> QED  BY <2>1, <3>1
  <2>3. CASE entries(key) # {}
    <3> DEFINE e == Some(entries(key))
    <3>1. e \in entries(key)
      BY <2>3 DEF Some
    <3>2. PICK a \in table : e \in fetch_address_lookup_table_account(a) /\ e[2] = key
      BY <3>1
    <3>3. a \in Seq(Accounts) /\ ZeroKey \notin {a[k] : k \in DOMAIN a}
      BY <3>2, AssemblyAssumption
    <3>4. a[e[1]] = key
      BY <3>2, <3>3, PlacesOfTable
    <3>5. Some(table) = a
      <4>1. \A b \in table : b = a
        BY <3>2, AssemblyAssumption DEF AtMostOne
      <4> QED  BY <3>2, <4>1 DEF Some
    <3>6. name(key) = <<"table", e[1]>>
      BY <2>3
    <3> HIDE DEF c, name, e
    <3> QED  BY <2>1, <3>4, <3>5, <3>6
  <2> QED  BY <2>1, <2>2, <2>3
<1> HIDE DEF c, x
<1>3. \A i \in DOMAIN ixs : [op |-> c[i].op, amount |-> c[i].amount, key |-> x(i)] = ixs[i]
  <2>1. \A i \in DOMAIN ixs : ixs[i] \in Ix
    OBVIOUS
  <2>2. \A r \in Ix : r = [op |-> r.op, amount |-> r.amount, key |-> r.key]
    BY DEF Ix
  <2> QED  BY <1>2, <2>1, <2>2
<1> QED  BY <1>1, <1>3

(***************************************************************************)
(* The invariant.                                                          *)
(***************************************************************************)

\* The instructions of a job after each application of the middlewares.
Swapped(j) == apply_middlewares(j.middlewares, j.business)
Whole(j) == Prologue(j, compute_budget_instructions(j)) \o Some(Swapped(j))
Ready(j) ==
  /\ Swapped(j) # {} /\ apply_middlewares(j.middlewares, Whole(j)) # {}
  /\ get_transaction_blockhash(j) # {}

HashOf(j) == Some(get_transaction_blockhash(j))
MessageOf(j) == Compile(Asked(j), j.table, HashOf(j))

\* What a thread that works on job j holds at each stage; only the builder
\* comes from the pool with something unknown in it.
Before(l, j) ==
  /\ Swapped(j) # {}
  /\ \/ l = [stage |-> "budget", job |-> j, business |-> Some(Swapped(j))]
     \/ \E s \in {"insert", "finish"} : l = [stage |-> s, job |-> j, ixs |-> Whole(j)]

After(l, j) ==
  /\ Ready(j)
  /\ \/ l = [stage |-> "acquire", job |-> j, ixs |-> Asked(j), hash |-> HashOf(j)]
     \/ /\ l.stage = "compile"
        /\ l = [stage |-> "compile", job |-> j, ixs |-> Asked(j), hash |-> HashOf(j),
                builder |-> l.builder]
     \/ /\ l.stage = "release"
        /\ l = [stage |-> "release", job |-> j, builder |-> l.builder, message |-> MessageOf(j)]
     \/ \E s \in {"simulate", "serialize"} :
          l = [stage |-> s, job |-> j, message |-> MessageOf(j)]
     \/ \E s \in {"encode", "drop"} : l = [stage |-> s, job |-> j, buffer |-> <<MessageOf(j)>>]
     \/ l = [stage |-> "send", job |-> j, bytes |-> <<MessageOf(j)>>]

InPlace(l) == l = Idle \/ \E j \in Jobs : Before(l, j) \/ After(l, j)

\* An entry of the cache serves every job with its key.
CacheRight ==
  \A e \in cache : \A j \in Jobs : BudgetKey(j) = e.key => e.ixs = compute_budget_instructions(j)

SentRight ==
  \A s \in sent : s.job \in Jobs /\ Ready(s.job) /\ s.bytes = <<MessageOf(s.job)>>

AssemblyInv ==
  /\ DOMAIN thread = Threads /\ \A t \in Threads : InPlace(thread[t])
  /\ CacheRight /\ SentRight

LEMMA AskedWhole ==
  \A j \in Jobs : Asked(j) = Some(apply_middlewares(j.middlewares, Whole(j)))
  BY DEF Asked, Whole, Swapped

LEMMA PrologueTyped ==
  ASSUME NEW j \in Jobs
  PROVE  /\ add_nonce_instruction(j) \in Seq(Ix) /\ add_tip(j) \in Seq(Ix)
         /\ compute_budget_instructions(j) \in Seq(Ix)
<1>1. ZeroKey \in Accounts /\ j.tip_account \in Accounts /\ j.tip \in Nat
      /\ j.price \in Nat /\ j.limit \in Nat /\ j.nonce \subseteq NonceInfo
  BY AssemblyAssumption
<1>2. j.nonce # {} => Some(j.nonce).account \in Accounts
  <2>1. j.nonce # {} => Some(j.nonce) \in NonceInfo
    BY <1>1 DEF Some
  <2> QED  BY <2>1 DEF NonceInfo
<1>3. \A op \in {"advance", "tip", "price", "limit"}, key \in Accounts, n \in Nat :
        [op |-> op, key |-> key, amount |-> n] \in Ix
  BY DEF Ix
<1>4. \A ix \in Ix : <<ix>> \in Seq(Ix)
  OBVIOUS
<1>5. <<>> \in Seq(Ix)
  OBVIOUS
<1>6. add_nonce_instruction(j) \in Seq(Ix)
  <2>1. j.nonce # {} => [op |-> "advance", key |-> Some(j.nonce).account, amount |-> 0] \in Ix
    BY <1>2, <1>3
  <2> QED  BY <1>4, <1>5, <2>1, Zenon DEF add_nonce_instruction
<1>7. add_tip(j) \in Seq(Ix)
  <2>1. [op |-> "tip", key |-> j.tip_account, amount |-> j.tip] \in Ix
    BY <1>1, <1>3
  <2> QED  BY <1>4, <1>5, <2>1, Zenon DEF add_tip
<1>8. compute_budget_instructions(j) \in Seq(Ix)
  <2> DEFINE p == IF j.price > 0 THEN <<[op |-> "price", key |-> ZeroKey, amount |-> j.price]>>
                  ELSE <<>>
             q == IF j.limit > 0 THEN <<[op |-> "limit", key |-> ZeroKey, amount |-> j.limit]>>
                  ELSE <<>>
  <2>1. /\ [op |-> "price", key |-> ZeroKey, amount |-> j.price] \in Ix
        /\ [op |-> "limit", key |-> ZeroKey, amount |-> j.limit] \in Ix
    BY <1>1, <1>3
  <2>2. p \in Seq(Ix) /\ q \in Seq(Ix)
    BY <1>4, <1>5, <2>1, Zenon
  <2> HIDE DEF p, q
  <2>3. p \o q \in Seq(Ix)
    BY <2>2, ConcatProperties
  <2> QED  BY <2>3 DEF compute_budget_instructions, p, q
<1> QED  BY <1>6, <1>7, <1>8

LEMMA WholeTyped ==
  ASSUME NEW j \in Jobs, Swapped(j) # {}
  PROVE  /\ Whole(j) \in Seq(Ix)
         /\ j.nonce # {} => Whole(j) # <<>> /\ Whole(j)[1].op = "advance"
<1> DEFINE n == add_nonce_instruction(j)
           p == add_tip(j) \o compute_budget_instructions(j)
           b == Some(Swapped(j))
<1>1. j.middlewares \in Seq(Middleware) /\ j.business \in Seq(Ix)
  BY AssemblyAssumption
<1>2. b \in Seq(Ix)
  BY <1>1, Applied DEF Swapped
<1>3. n \in Seq(Ix) /\ p \in Seq(Ix)
  BY PrologueTyped, ConcatProperties
<1>4. j.nonce # {} => Len(n) = 1 /\ n[1].op = "advance"
  BY DEF add_nonce_instruction
<1>5. Whole(j) = (n \o p) \o b
  <2>1. /\ add_tip(j) \in Seq(Ix) /\ compute_budget_instructions(j) \in Seq(Ix)
        /\ n \in Seq(Ix)
    BY PrologueTyped
  <2> HIDE DEF n
  <2>2. (n \o add_tip(j)) \o compute_budget_instructions(j) = n \o p
    BY <2>1, ConcatAssociative
  <2> QED  BY <2>2 DEF Whole, Prologue, n
<1> HIDE DEF n, p, b
<1>6. n \o p \in Seq(Ix) /\ (n \o p) \o b \in Seq(Ix)
  BY <1>2, <1>3, ConcatProperties
<1>7. Len(n) = 1 => Len(n \o p) >= 1 /\ (n \o p)[1] = n[1]
  BY <1>3, ConcatProperties
<1>8. Len(n) = 1 => Len((n \o p) \o b) >= 1 /\ ((n \o p) \o b)[1] = n[1]
  BY <1>2, <1>6, <1>7, ConcatProperties
<1>9. Len(n) = 1 => (n \o p) \o b # <<>>
  BY <1>6, <1>8
<1> QED  BY <1>4, <1>5, <1>6, <1>8, <1>9

LEMMA AskedTyped ==
  ASSUME NEW j \in Jobs, Ready(j)
  PROVE  /\ Asked(j) \in Seq(Ix)
         /\ j.nonce # {} /\ Asked(j) # <<>> => Asked(j)[1].op = "advance"
<1>1. Whole(j) \in Seq(Ix) /\ (j.nonce # {} => Whole(j) # <<>> /\ Whole(j)[1].op = "advance")
  BY WholeTyped DEF Ready
<1>2. j.middlewares \in Seq(Middleware)
  BY AssemblyAssumption
<1>3. apply_middlewares(j.middlewares, Whole(j)) # {}
  BY DEF Ready
<1>4. /\ Asked(j) \in Seq(Ix)
      /\ Asked(j) # <<>> /\ Whole(j) # <<>> => Asked(j)[1] = Whole(j)[1]
  BY <1>1, <1>2, <1>3, Applied, AskedWhole
<1> QED  BY <1>1, <1>4

LEMMA IdleInPlace == InPlace(Idle)
  BY DEF InPlace

\* Only thread t moves, to a place where it may be.
LEMMA Moved ==
  ASSUME AssemblyInv, NEW t \in Threads, NEW l, Goto(t, l), InPlace(l)
  PROVE  DOMAIN thread' = Threads /\ \A u \in Threads : InPlace(thread'[u])
<1>1. DOMAIN thread' = Threads
  BY DEF AssemblyInv, Goto
<1>2. \A u \in Threads : thread'[u] = IF u = t THEN l ELSE thread[u]
  BY DEF AssemblyInv, Goto
<1>3. \A u \in Threads : InPlace(thread[u])
  BY DEF AssemblyInv
<1> QED  BY <1>1, <1>2, <1>3, Zenon

LEMMA CacheKept == ASSUME AssemblyInv, UNCHANGED cache PROVE CacheRight'
  BY DEF AssemblyInv, CacheRight
LEMMA SentKept == ASSUME AssemblyInv, UNCHANGED sent PROVE SentRight'
  BY DEF AssemblyInv, SentRight

\* A step that neither adds to the cache nor sends.
LEMMA LocalStep ==
  ASSUME AssemblyInv, NEW t \in Threads, NEW l, Goto(t, l), InPlace(l), UNCHANGED <<cache, sent>>
  PROVE  AssemblyInv'
<1>1. CacheRight' /\ SentRight'
  BY CacheKept, SentKept
<1>2. DOMAIN thread' = Threads /\ \A u \in Threads : InPlace(thread'[u])
  BY Moved
<1> QED  BY <1>1, <1>2 DEF AssemblyInv

LEMMA AtBudget ==
  ASSUME NEW l, InPlace(l), l.stage = "budget"
  PROVE  \E j \in Jobs : /\ Swapped(j) # {}
                         /\ l = [stage |-> "budget", job |-> j, business |-> Some(Swapped(j))]
  BY DEF InPlace, Before, After, Idle

LEMMA AtWhole ==
  ASSUME NEW l, InPlace(l), l.stage \in {"insert", "finish"}
  PROVE  \E j \in Jobs : Swapped(j) # {} /\ l = [stage |-> l.stage, job |-> j, ixs |-> Whole(j)]
  BY DEF InPlace, Before, After, Idle

LEMMA AtAcquire ==
  ASSUME NEW l, InPlace(l), l.stage = "acquire"
  PROVE  \E j \in Jobs :
           /\ Ready(j)
           /\ l = [stage |-> "acquire", job |-> j, ixs |-> Asked(j), hash |-> HashOf(j)]
  BY DEF InPlace, Before, After, Idle

LEMMA AtCompile ==
  ASSUME NEW l, InPlace(l), l.stage = "compile"
  PROVE  \E j \in Jobs :
           Ready(j) /\ l.job = j /\ l.ixs = Asked(j) /\ l.hash = HashOf(j)
  BY DEF InPlace, Before, After, Idle

LEMMA AtMessage ==
  ASSUME NEW l, InPlace(l), l.stage \in {"release", "simulate", "serialize"}
  PROVE  \E j \in Jobs : Ready(j) /\ l.job = j /\ l.message = MessageOf(j)
  BY DEF InPlace, Before, After, Idle

LEMMA AtBuffer ==
  ASSUME NEW l, InPlace(l), l.stage \in {"encode", "drop"}
  PROVE  \E j \in Jobs :
           Ready(j) /\ l = [stage |-> l.stage, job |-> j, buffer |-> <<MessageOf(j)>>]
  BY DEF InPlace, Before, After, Idle

LEMMA AtSend ==
  ASSUME NEW l, InPlace(l), l.stage = "send"
  PROVE  \E j \in Jobs : Ready(j) /\ l = [stage |-> "send", job |-> j, bytes |-> <<MessageOf(j)>>]
  BY DEF InPlace, Before, After, Idle

(***************************************************************************)
(* The steps.                                                              *)
(***************************************************************************)
LEMMA SwapStep ==
  ASSUME AssemblyInv, NEW t \in Threads, NEW j \in Jobs, swap(t, j)
  PROVE  AssemblyInv'
<1>1. UNCHANGED <<cache, sent>>
  BY DEF swap
<1> DEFINE l == [stage |-> "budget", job |-> j, business |-> Some(Swapped(j))]
<1>2. Goto(t, Idle) \/ (Swapped(j) # {} /\ Goto(t, l))
  BY DEF swap, Swapped, Fail
<1>3. Swapped(j) # {} => InPlace(l)
  BY DEF InPlace, Before
<1> HIDE DEF l
<1> QED  BY <1>1, <1>2, <1>3, IdleInPlace, LocalStep

\* Where both lookups in the cache lead.
LEMMA Extended ==
  ASSUME NEW j \in Jobs, Swapped(j) # {}, NEW t \in Threads, NEW s \in {"insert", "finish"},
         thread[t] = [stage |-> "budget", job |-> j, business |-> Some(Swapped(j))],
         Extend(t, compute_budget_instructions(j), s)
  PROVE  \E l : Goto(t, l) /\ InPlace(l)
<1> DEFINE l == [stage |-> s, job |-> j, ixs |-> Whole(j)]
<1>1. Goto(t, l)
  BY DEF Extend, Whole
<1>2. InPlace(l)
  BY DEF InPlace, Before
<1> QED  BY <1>1, <1>2

LEMMA BudgetHitStep ==
  ASSUME AssemblyInv, NEW t \in Threads, BudgetHit(t)
  PROVE  AssemblyInv'
<1>1. InPlace(thread[t]) /\ thread[t].stage = "budget" /\ UNCHANGED <<cache, sent>>
  BY DEF BudgetHit, At, AssemblyInv
<1>2. PICK j \in Jobs :
        /\ Swapped(j) # {}
        /\ thread[t] = [stage |-> "budget", job |-> j, business |-> Some(Swapped(j))]
  BY <1>1, AtBudget
<1>3. PICK e \in Cached(BudgetKey(thread[t].job)) : Extend(t, e.ixs, "finish")
  BY DEF BudgetHit
<1>4. e.ixs = compute_budget_instructions(j)
  BY <1>2, <1>3 DEF AssemblyInv, CacheRight, Cached
<1>5. Extend(t, compute_budget_instructions(j), "finish")
  BY <1>3, <1>4
<1>6. PICK l : Goto(t, l) /\ InPlace(l)
  BY <1>2, <1>5, Extended
<1> QED  BY <1>1, <1>6, LocalStep

LEMMA BudgetMissStep ==
  ASSUME AssemblyInv, NEW t \in Threads, BudgetMiss(t)
  PROVE  AssemblyInv'
<1>1. InPlace(thread[t]) /\ thread[t].stage = "budget" /\ UNCHANGED <<cache, sent>>
  BY DEF BudgetMiss, At, AssemblyInv
<1>2. PICK j \in Jobs :
        /\ Swapped(j) # {}
        /\ thread[t] = [stage |-> "budget", job |-> j, business |-> Some(Swapped(j))]
  BY <1>1, AtBudget
<1>3. Extend(t, compute_budget_instructions(j), "insert")
  BY <1>2 DEF BudgetMiss
<1>4. PICK l : Goto(t, l) /\ InPlace(l)
  BY <1>2, <1>3, Extended
<1> QED  BY <1>1, <1>4, LocalStep

LEMMA BudgetInsertStep ==
  ASSUME AssemblyInv, NEW t \in Threads, BudgetInsert(t)
  PROVE  AssemblyInv'
<1>1. InPlace(thread[t]) /\ thread[t].stage = "insert" /\ UNCHANGED sent
  BY DEF BudgetInsert, At, AssemblyInv
<1>2. PICK j \in Jobs :
        Swapped(j) # {} /\ thread[t] = [stage |-> "insert", job |-> j, ixs |-> Whole(j)]
  BY <1>1, AtWhole
<1> DEFINE l == [stage |-> "finish", job |-> j, ixs |-> Whole(j)]
           new == [key |-> BudgetKey(j), ixs |-> compute_budget_instructions(j)]
<1>3. Goto(t, l)
  BY <1>2 DEF BudgetInsert
<1>4. InPlace(l)
  BY <1>2 DEF InPlace, Before
<1>5. cache' \subseteq cache \cup {new}
  BY <1>2 DEF BudgetInsert, Cached
<1>6. \A i \in Jobs : BudgetKey(i) = new.key => new.ixs = compute_budget_instructions(i)
  BY AssemblyAssumption DEF BudgetKey, compute_budget_instructions
<1> HIDE DEF l, new
<1>7. CacheRight'
  BY <1>5, <1>6 DEF AssemblyInv, CacheRight
<1>8. SentRight'
  BY <1>1, SentKept
<1>9. DOMAIN thread' = Threads /\ \A u \in Threads : InPlace(thread'[u])
  BY <1>3, <1>4, Moved
<1> QED  BY <1>7, <1>8, <1>9 DEF AssemblyInv

LEMMA BuildStep ==
  ASSUME AssemblyInv, NEW t \in Threads, build_transaction(t)
  PROVE  AssemblyInv'
<1>1. InPlace(thread[t]) /\ thread[t].stage = "finish" /\ UNCHANGED <<cache, sent>>
  BY DEF build_transaction, At, AssemblyInv
<1>2. PICK j \in Jobs :
        Swapped(j) # {} /\ thread[t] = [stage |-> "finish", job |-> j, ixs |-> Whole(j)]
  BY <1>1, AtWhole
<1> DEFINE l == [stage |-> "acquire", job |-> j, ixs |-> Asked(j), hash |-> HashOf(j)]
<1>3. thread[t].job = j /\ thread[t].ixs = Whole(j)
  BY <1>2
<1>4. Goto(t, Idle) \/ (Ready(j) /\ Goto(t, l))
  BY <1>2, <1>3, AskedWhole DEF build_transaction, Fail, Ready, HashOf
<1>5. Ready(j) => InPlace(l)
  BY DEF InPlace, After
<1> HIDE DEF l
<1> QED  BY <1>1, <1>4, <1>5, IdleInPlace, LocalStep

LEMMA AcquireStep ==
  ASSUME AssemblyInv, NEW t \in Threads, acquire_builder(t)
  PROVE  AssemblyInv'
<1>1. InPlace(thread[t]) /\ thread[t].stage = "acquire" /\ UNCHANGED <<cache, sent>>
  BY DEF acquire_builder, At, AssemblyInv
<1>2. PICK j \in Jobs :
        /\ Ready(j)
        /\ thread[t] = [stage |-> "acquire", job |-> j, ixs |-> Asked(j), hash |-> HashOf(j)]
  BY <1>1, AtAcquire
<1> DEFINE b == IF builders = <<>> THEN <<>> ELSE Head(builders)
           l == [stage |-> "compile", job |-> j, ixs |-> Asked(j), hash |-> HashOf(j),
                 builder |-> b]
<1>3. Goto(t, l)
  BY <1>2 DEF acquire_builder
<1> HIDE DEF b
<1>4. InPlace(l)
  BY <1>2 DEF InPlace, After
<1> HIDE DEF l
<1> QED  BY <1>1, <1>3, <1>4, LocalStep

LEMMA CompileStep ==
  ASSUME AssemblyInv, NEW t \in Threads, build_zero_alloc(t)
  PROVE  AssemblyInv'
<1>1. InPlace(thread[t]) /\ thread[t].stage = "compile" /\ UNCHANGED <<cache, sent>>
  BY DEF build_zero_alloc, At, AssemblyInv
<1>2. PICK j \in Jobs : /\ Ready(j) /\ thread[t].job = j
                        /\ thread[t].ixs = Asked(j) /\ thread[t].hash = HashOf(j)
  BY <1>1, AtCompile
<1> DEFINE l == [stage |-> "release", job |-> j, builder |-> Asked(j), message |-> MessageOf(j)]
<1>3. Asked(j) \in Seq(Ix)
  BY <1>2, AskedTyped
<1>4. reset(thread[t].builder) \o thread[t].ixs = Asked(j)
  BY <1>2, <1>3, ConcatEmptySeq DEF reset
<1>5. Goto(t, l)
  BY <1>2, <1>4 DEF build_zero_alloc, MessageOf
<1>6. InPlace(l)
  BY <1>2 DEF InPlace, After
<1> HIDE DEF l
<1> QED  BY <1>1, <1>5, <1>6, LocalStep

LEMMA ReleaseStep ==
  ASSUME AssemblyInv, NEW t \in Threads, release_builder(t)
  PROVE  AssemblyInv'
<1>1. InPlace(thread[t]) /\ thread[t].stage = "release" /\ UNCHANGED <<cache, sent>>
  BY DEF release_builder, At, AssemblyInv
<1>2. PICK j \in Jobs : Ready(j) /\ thread[t].job = j /\ thread[t].message = MessageOf(j)
  BY <1>1, AtMessage
<1> DEFINE l(s) == [stage |-> s, job |-> j, message |-> MessageOf(j)]
<1>3. Goto(t, l("simulate")) \/ Goto(t, l("serialize"))
  BY <1>2 DEF release_builder
<1>4. \A s \in {"simulate", "serialize"} : InPlace(l(s))
  BY <1>2 DEF InPlace, After
<1> HIDE DEF l
<1> QED  BY <1>1, <1>3, <1>4, LocalStep

LEMMA SimulateStep ==
  ASSUME AssemblyInv, NEW t \in Threads, simulate_transaction(t)
  PROVE  AssemblyInv'
  BY IdleInPlace, LocalStep DEF simulate_transaction

LEMMA SerializeStep ==
  ASSUME AssemblyInv, NEW t \in Threads, serialize_zero_alloc(t)
  PROVE  AssemblyInv'
<1>1. InPlace(thread[t]) /\ thread[t].stage = "serialize" /\ UNCHANGED <<cache, sent>>
  BY DEF serialize_zero_alloc, At, AssemblyInv
<1>2. PICK j \in Jobs : Ready(j) /\ thread[t].job = j /\ thread[t].message = MessageOf(j)
  BY <1>1, AtMessage
<1> DEFINE l == [stage |-> "encode", job |-> j, buffer |-> <<MessageOf(j)>>]
<1>3. Goto(t, l)
  BY <1>2 DEF serialize_zero_alloc
<1>4. InPlace(l)
  BY <1>2 DEF InPlace, After
<1> HIDE DEF l
<1> QED  BY <1>1, <1>3, <1>4, LocalStep

LEMMA EncodeStep ==
  ASSUME AssemblyInv, NEW t \in Threads, serialize_transaction_sync(t)
  PROVE  AssemblyInv'
<1>1. InPlace(thread[t]) /\ thread[t].stage = "encode" /\ UNCHANGED <<cache, sent>>
  BY DEF serialize_transaction_sync, At, AssemblyInv
<1>2. PICK j \in Jobs :
        Ready(j) /\ thread[t] = [stage |-> "encode", job |-> j, buffer |-> <<MessageOf(j)>>]
  BY <1>1, AtBuffer
<1> DEFINE l == [stage |-> "send", job |-> j, bytes |-> <<MessageOf(j)>>]
<1>3. Goto(t, l)
  BY <1>2 DEF serialize_transaction_sync
<1>4. InPlace(l)
  BY <1>2 DEF InPlace, After
<1> HIDE DEF l
<1> QED  BY <1>1, <1>3, <1>4, LocalStep

\* The text of a job, or the buffer it was serialized to, is what goes out.
LEMMA SendStep ==
  ASSUME AssemblyInv, NEW t \in Threads, send(t)
  PROVE  AssemblyInv'
<1>1. InPlace(thread[t]) /\ UNCHANGED cache
  BY DEF send, AssemblyInv
<1>2. PICK j \in Jobs :
        /\ Ready(j) /\ \E l : Goto(t, l) /\ InPlace(l)
        /\ sent' = sent \cup {[job |-> j, bytes |-> <<MessageOf(j)>>]}
  <2>1. CASE thread[t].stage = "send"
    <3>1. PICK j \in Jobs :
            Ready(j) /\ thread[t] = [stage |-> "send", job |-> j, bytes |-> <<MessageOf(j)>>]
      BY <1>1, <2>1, AtSend
    <3>2. thread[t].job = j /\ thread[t].bytes = <<MessageOf(j)>>
      BY <3>1
    <3>3. Goto(t, Idle) /\ sent' = sent \cup {[job |-> j, bytes |-> <<MessageOf(j)>>]}
      BY <2>1, <3>2 DEF send, At
    <3> QED  BY <3>1, <3>3, IdleInPlace
  <2>2. CASE thread[t].stage # "send"
    <3>1. thread[t].stage = "encode"
      BY <2>2 DEF send, At
    <3>2. PICK j \in Jobs :
            Ready(j) /\ thread[t] = [stage |-> "encode", job |-> j, buffer |-> <<MessageOf(j)>>]
      BY <1>1, <3>1, AtBuffer
    <3> DEFINE l == [stage |-> "drop", job |-> j, buffer |-> <<MessageOf(j)>>]
    <3>3. thread[t].job = j /\ thread[t].buffer = <<MessageOf(j)>>
          /\ [thread[t] EXCEPT !.stage = "drop"] = l
      BY <3>2
    <3>4. Goto(t, l) /\ sent' = sent \cup {[job |-> j, bytes |-> <<MessageOf(j)>>]}
      BY <2>2, <3>3 DEF send, At
    <3>5. InPlace(l)
      BY <3>2 DEF InPlace, After
    <3> QED  BY <3>2, <3>4, <3>5
  <2> QED  BY <2>1, <2>2
<1>3. SentRight'
  BY <1>2 DEF AssemblyInv, SentRight
<1>4. CacheRight'
  BY <1>1, CacheKept
<1>5. DOMAIN thread' = Threads /\ \A u \in Threads : InPlace(thread'[u])
  BY <1>2, Moved
<1> QED  BY <1>3, <1>4, <1>5 DEF AssemblyInv

LEMMA AssemblyStep ==
  ASSUME AssemblyInv, [Next]_vars
  PROVE  AssemblyInv'
<1>1. ASSUME NEW t \in Threads, EncodingFails(t) \/ DropGuard(t) PROVE AssemblyInv'
  BY <1>1, IdleInPlace, LocalStep DEF EncodingFails, DropGuard, Fail
<1>2. CASE UNCHANGED vars
  BY <1>2 DEF vars, AssemblyInv, CacheRight, SentRight
<1> QED  BY <1>1, <1>2, SwapStep, BudgetHitStep, BudgetMissStep, BudgetInsertStep, BuildStep,
            AcquireStep, CompileStep, ReleaseStep, SimulateStep, SerializeStep, EncodeStep,
            SendStep DEF Next

LEMMA AssemblyInit == Init => AssemblyInv
  BY IdleInPlace DEF Init, AssemblyInv, CacheRight, SentRight

LEMMA AssemblyInvariant == Spec => []AssemblyInv
<1>1. AssemblyInv /\ [Next]_vars => AssemblyInv'
  BY AssemblyStep
<1> QED  BY <1>1, AssemblyInit, PTL DEF Spec

\* What is sent is what its job asked for (SentAsAsked): builders, buffers and
\* the cache, which the threads share, carry nothing from one job to another.
THEOREM AlwaysSentAsAsked == Spec => []SentAsAsked
<1>1. AssemblyInv => SentAsAsked
  <2> SUFFICES ASSUME AssemblyInv, NEW s \in sent,
                      \A a \in s.job.table : ZeroKey \notin {a[i] : i \in DOMAIN a}
               PROVE  Len(s.bytes) = 1 /\ Executed(s.bytes[1]) = Asked(s.job)
    BY DEF SentAsAsked
  <2>1. s.job \in Jobs /\ Ready(s.job) /\ s.bytes = <<MessageOf(s.job)>>
    BY DEF AssemblyInv, SentRight
  <2>2. Asked(s.job) \in Seq(Ix)
    BY <2>1, AskedTyped
  <2>3. Executed(MessageOf(s.job)) = Asked(s.job)
    BY <2>1, <2>2, CompiledExecutes DEF MessageOf
  <2> QED  BY <2>1, <2>3
<1> QED  BY <1>1, AssemblyInvariant, PTL

\* A transaction with a durable nonce begins with the advance of that nonce and
\* carries it (NonceFirst), whatever middlewares the program has added.
THEOREM NonceAlwaysFirst == Spec => []NonceFirst
<1>1. AssemblyInv => NonceFirst
  <2> SUFFICES ASSUME AssemblyInv, NEW s \in sent, s.job.nonce # {}, s.bytes[1].ixs # <<>>
               PROVE  /\ s.bytes[1].ixs[1].op = "advance"
                      /\ s.bytes[1].hash \in Some(s.job.nonce).current
    BY DEF NonceFirst
  <2> DEFINE j == s.job
             a == Asked(j)
  <2>1. j \in Jobs /\ Ready(j) /\ s.bytes = <<MessageOf(j)>>
    BY DEF AssemblyInv, SentRight
  <2>2. s.bytes[1] = MessageOf(j)
    BY <2>1
  <2>3. a \in Seq(Ix) /\ (a # <<>> => a[1].op = "advance")
    BY <2>1, AskedTyped
  <2>4. /\ MessageOf(j).hash = HashOf(j) /\ DOMAIN MessageOf(j).ixs = DOMAIN a
        /\ \A i \in DOMAIN a : MessageOf(j).ixs[i].op = a[i].op
    BY DEF MessageOf, Compile
  <2>5. a # <<>>
    <3>1. CASE a = <<>>
      <4>1. MessageOf(j).ixs = <<>>
        BY <3>1 DEF MessageOf, Compile
      <4> QED  BY <2>2, <4>1
    <3> QED  BY <3>1
  <2>6. 1 \in DOMAIN a
    BY <2>3, <2>5
  <2>7. HashOf(j) \in Some(j.nonce).current
    BY <2>1 DEF Ready, HashOf, get_transaction_blockhash, Some
  <2> QED  BY <2>2, <2>3, <2>4, <2>5, <2>6, <2>7
<1> QED  BY <1>1, AssemblyInvariant, PTL
=============================================================================
