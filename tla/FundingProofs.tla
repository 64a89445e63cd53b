--------------------------- MODULE FundingProofs ----------------------------
(***************************************************************************)
(* The safety properties of Funding and of the ledger it uses, for every   *)
(* number of Options, every budget, every width of the integers and every  *)
(* order of transfers, leases, settlements, closings and crashes.          *)
(*                                                                         *)
(* What a recursive function of Ledger computes is shown by induction, in  *)
(* the form of a least counterexample: a set of numbers that is not empty  *)
(* has a least element (WFMin).                                            *)
(***************************************************************************)
EXTENDS Funding, TLAPS, WellFoundedInduction, FiniteSetTheorems,
        SequenceTheorems

USE LedgerAssumption DEF Root, Options, Accounts

-----------------------------------------------------------------------------
(* Sums of balances.                                                       *)

\* A nonempty set of natural numbers has a least element.
LEMMA Least ==
    ASSUME NEW T \in SUBSET Nat, T # {}
    PROVE  \E m \in T : \A y \in T : m <= y
  <1>1. T \subseteq Nat
    OBVIOUS
  <1>2. PICK m \in T : \A y \in T : ~ (<<y, m>> \in OpToRel(<, Nat))
    BY <1>1, NatLessThanWellFounded, WFMin
  <1>3. \A y \in T : ~ (y < m)
    BY <1>1, <1>2 DEF OpToRel
  <1>4. ASSUME NEW y \in T PROVE m <= y
    <2>1. m \in Nat /\ y \in Nat /\ ~ (y < m)
      BY <1>1, <1>3
    <2> QED BY <2>1
  <1> QED BY <1>4

\* The partial sums of balances f up to account n.
SumsTo(f, n, g) ==
    g \in [0..n -> Int] /\ \A k \in 0..n :
        g[k] = IF k = 0 THEN f[k] ELSE g[k - 1] + f[k]
\* They exist.
LEMMA SumsExist ==
    ASSUME NEW f \in [Accounts -> Int], NEW n \in Accounts
    PROVE  \E g : SumsTo(f, n, g)
  <1> DEFINE Bad == {k \in Accounts : ~ \E g : SumsTo(f, k, g)}
  <1> SUFFICES Bad = {}
    OBVIOUS
  <1> SUFFICES ASSUME Bad # {} PROVE FALSE
    OBVIOUS
  <1>1. PICK k \in Bad : \A y \in Bad : k <= y
    <2>1. Bad \in SUBSET Nat
      OBVIOUS
    <2> HIDE DEF Bad
    <2> QED BY <2>1, Least
  <1>2. CASE k = 0
    <2>1. SumsTo(f, 0, [i \in 0..0 |-> f[0]])
      BY DEF SumsTo
    <2> QED BY <1>2, <2>1
  <1>3. CASE k # 0
    <2>1. k - 1 \in Accounts /\ k - 1 \notin Bad
      BY <1>1, <1>3
    <2>2. PICK g : SumsTo(f, k - 1, g)
      BY <2>1
    <2> DEFINE h == [i \in 0..k |-> IF i < k THEN g[i] ELSE g[k - 1] + f[k]]
    <2>3. h \in [0..k -> Int]
      BY <1>3, <2>1, <2>2 DEF SumsTo
    <2>4. ASSUME NEW i \in 0..k
          PROVE  h[i] = IF i = 0 THEN f[i] ELSE h[i - 1] + f[i]
      BY <1>3, <2>1, <2>2 DEF SumsTo
    <2> QED BY <2>3, <2>4 DEF SumsTo
  <1> QED BY <1>2, <1>3
\* Refresh adds the balances up.
LEMMA SumsDef ==
    ASSUME NEW f \in [Accounts -> Int]
    PROVE  /\ Sums(f) \in [Accounts -> Int]
           /\ Sums(f)[0] = f[0]
           /\ \A n \in Options : Sums(f)[n] = Sums(f)[n - 1] + f[n]
  <1> DEFINE D(s) == [n \in Accounts |->
                        IF n = Root THEN f[n] ELSE s[n - 1] + f[n]]
  <1>1. PICK g : SumsTo(f, MaxOptions, g)
    BY SumsExist
  <1>2. g = D(g)
    BY <1>1 DEF SumsTo
  <1>3. Sums(f) = CHOOSE s : s = D(s)
    BY DEF Sums
  <1>4. Sums(f) = D(Sums(f))
    BY <1>2, <1>3
  <1> DEFINE s == Sums(f)
  <1> HIDE DEF s
  <1>5. s = D(s)
    BY <1>4 DEF s
  <1> DEFINE Bad == {k \in Accounts : s[k] \notin Int}
  <1>6. Bad = {}
    <2> SUFFICES ASSUME Bad # {} PROVE FALSE
      OBVIOUS
    <2>1. PICK k \in Bad : \A y \in Bad : k <= y
      <3>1. Bad \in SUBSET Nat
        OBVIOUS
      <3> HIDE DEF Bad
      <3> QED BY <3>1, Least
    <2>2. k # 0 => k - 1 \in Accounts /\ k - 1 \notin Bad
      BY <2>1
    <2> QED BY <1>5, <2>1, <2>2
  <1>7. s \in [Accounts -> Int]
    BY <1>5, <1>6
  <1>8. s[0] = f[0] /\ \A n \in Options : s[n] = s[n - 1] + f[n]
    BY <1>5
  <1> QED BY <1>7, <1>8 DEF s
\* Balances f and g that differ by d in account a.
Differ(f, g, a, d) ==
    /\ f \in [Accounts -> Int] /\ g \in [Accounts -> Int]
    /\ a \in Accounts /\ d \in Int
    /\ g[a] = f[a] + d /\ \A b \in Accounts \ {a} : g[b] = f[b]
\* What changes one balance changes the sum by as much.
LEMMA SumsChange ==
    ASSUME NEW f, NEW g, NEW a, NEW d, Differ(f, g, a, d)
    PROVE  Sums(g)[MaxOptions] = Sums(f)[MaxOptions] + d
  <1>0. /\ f \in [Accounts -> Int] /\ g \in [Accounts -> Int]
        /\ a \in Accounts /\ d \in Int
        /\ g[a] = f[a] + d /\ \A b \in Accounts \ {a} : g[b] = f[b]
    BY DEF Differ
  <1> DEFINE s == Sums(f)
             t == Sums(g)
             Bad == {k \in Accounts : t[k] # s[k] + (IF k < a THEN 0 ELSE d)}
  <1>1. /\ s \in [Accounts -> Int] /\ t \in [Accounts -> Int]
        /\ s[0] = f[0] /\ t[0] = g[0]
        /\ \A n \in Options : s[n] = s[n - 1] + f[n] /\ t[n] = t[n - 1] + g[n]
    BY <1>0, SumsDef
  <1> HIDE DEF s, t
  <1>2. Bad = {}
    <2> SUFFICES ASSUME Bad # {} PROVE FALSE
      OBVIOUS
    <2>1. PICK k \in Bad : \A y \in Bad : k <= y
      <3>1. Bad \in SUBSET Nat
        OBVIOUS
      <3> HIDE DEF Bad
      <3> QED BY <3>1, Least
    <2>2. CASE k = 0
      <3>1. t[k] # s[k] + (IF k < a THEN 0 ELSE d)
        BY <2>1
      <3>2. a \in Nat /\ s[k] \in Int /\ s[k] = f[k] /\ t[k] = g[k]
        BY <1>0, <1>1, <2>1, <2>2
      <3>3. g[k] = IF k = a THEN f[k] + d ELSE f[k]
        BY <1>0, <2>1
      <3>4. k < a => k # a
        BY <2>2, <3>2
      <3>5. k = a \/ k < a
        BY <2>2, <3>2
      <3> HIDE DEF Bad
      <3>6. CASE k = a
        BY <3>1, <3>2, <3>3, <3>4, <3>6
      <3>7. CASE k < a
        BY <3>1, <3>2, <3>3, <3>4, <3>7
      <3> QED BY <3>5, <3>6, <3>7
    <2>3. CASE k # 0
      <3>1. k - 1 \in Accounts /\ k - 1 \notin Bad /\ k \in Options
        BY <2>1, <2>3
      <3>2. t[k - 1] = s[k - 1] + (IF k - 1 < a THEN 0 ELSE d)
        BY <3>1
      <3>3. s[k] = s[k - 1] + f[k] /\ t[k] = t[k - 1] + g[k]
        BY <1>1, <3>1
      <3>4. g[k] = IF k = a THEN f[k] + d ELSE f[k]
        BY <1>0, <2>1
      <3>5. /\ s[k - 1] \in Int /\ t[k - 1] \in Int /\ f[k] \in Int
            /\ s[k] \in Int /\ k \in Int /\ a \in Int
        <4>1. s[k - 1] \in Int /\ t[k - 1] \in Int /\ s[k] \in Int
          BY <1>1, <3>1
        <4>2. f[k] \in Int /\ k \in Int /\ a \in Int
          BY <1>0, <3>1
        <4> QED BY <4>1, <4>2
      <3>6. t[k] # s[k] + (IF k < a THEN 0 ELSE d)
        BY <2>1
      <3>7. (k < a => k - 1 < a) /\ (k = a => k - 1 < a)
        BY <3>5
      <3>d. d \in Int
        BY <1>0
      <3>8. k < a \/ k = a \/ (~ (k < a) /\ k # a /\ ~ (k - 1 < a))
        BY <3>5
      <3>9. /\ k < a => k # a
            /\ k = a => ~ (k < a)
        BY <3>5
      <3> HIDE DEF Bad
      <3>10. CASE k < a
        <4>1. t[k - 1] = s[k - 1] + 0 /\ g[k] = f[k] /\ t[k] # s[k] + 0
          BY <3>2, <3>4, <3>6, <3>7, <3>9, <3>10
        <4> QED BY <3>3, <3>5, <4>1
      <3>11. CASE k = a
        <4>1. /\ t[k - 1] = s[k - 1] + 0 /\ g[k] = f[k] + d
              /\ t[k] # s[k] + d
          BY <3>2, <3>4, <3>6, <3>7, <3>9, <3>11
        <4> QED BY <3>3, <3>5, <3>d, <4>1
      <3>12. CASE ~ (k < a) /\ k # a /\ ~ (k - 1 < a)
        <4>1. t[k - 1] = s[k - 1] + d /\ g[k] = f[k] /\ t[k] # s[k] + d
          BY <3>2, <3>4, <3>6, <3>12
        <4> QED BY <3>3, <3>5, <3>d, <4>1
      <3> QED BY <3>8, <3>10, <3>11, <3>12
    <2> QED BY <2>2, <2>3
  <1>3. MaxOptions \in Accounts /\ ~ (MaxOptions < a)
    BY <1>0
  <1> QED BY <1>2, <1>3 DEF s, t
\* A balance is part of the sum.
LEMMA SumsBound ==
    ASSUME NEW f \in [Accounts -> Nat], NEW a \in Accounts
    PROVE  Sums(f)[MaxOptions] \in Nat /\ f[a] <= Sums(f)[MaxOptions]
  <1> DEFINE s == Sums(f)
             Bad == {k \in Accounts :
                        ~ (s[k] \in Nat /\ (a <= k => f[a] <= s[k]))}
  <1>1. /\ s \in [Accounts -> Int] /\ s[0] = f[0]
        /\ \A n \in Options : s[n] = s[n - 1] + f[n]
    BY SumsDef
  <1> HIDE DEF s
  <1>2. Bad = {}
    <2> SUFFICES ASSUME Bad # {} PROVE FALSE
      OBVIOUS
    <2>1. PICK k \in Bad : \A y \in Bad : k <= y
      <3>1. Bad \in SUBSET Nat
        OBVIOUS
      <3> HIDE DEF Bad
      <3> QED BY <3>1, Least
    <2>2. CASE k = 0
      BY <1>1, <2>1, <2>2
    <2>3. CASE k # 0
      <3>1. k - 1 \in Accounts /\ k - 1 \notin Bad /\ k \in Options
        BY <2>1, <2>3
      <3>2. s[k - 1] \in Nat /\ (a <= k - 1 => f[a] <= s[k - 1])
        BY <3>1
      <3>3. s[k] = s[k - 1] + f[k] /\ f[k] \in Nat /\ f[a] \in Nat
        BY <1>1, <3>1
      <3>4. k \in Nat /\ a \in Nat
        BY <3>1
      <3>5. s[k] \in Nat /\ f[k] <= s[k] /\ s[k - 1] <= s[k]
        BY <3>2, <3>3
      <3>6. a <= k => a = k \/ a <= k - 1
        BY <3>4
      <3> QED BY <2>1, <3>2, <3>3, <3>5, <3>6
    <2> QED BY <2>2, <2>3
  <1>3. MaxOptions \in Accounts /\ a <= MaxOptions
    OBVIOUS
  <1> QED BY <1>2, <1>3 DEF s
\* Two balances are part of the sum.
LEMMA SumsPair ==
    ASSUME NEW f \in [Accounts -> Nat], NEW a \in Accounts,
           NEW b \in Accounts \ {a}
    PROVE  f[a] + f[b] <= Sums(f)[MaxOptions]
  <1> DEFINE d == 0 - f[a]
             g == [f EXCEPT ![a] = f[a] + d]
  <1>1. /\ d \in Int /\ d = 0 - f[a] /\ g \in [Accounts -> Nat]
        /\ g[b] = f[b]
    OBVIOUS
  <1>2. Differ(f, g, a, d)
    BY <1>1 DEF Differ
  <1> HIDE DEF d, g
  <1>3. Sums(g)[MaxOptions] = Sums(f)[MaxOptions] + d
    BY <1>2, SumsChange
  <1>4. f[b] <= Sums(g)[MaxOptions] /\ Sums(g)[MaxOptions] \in Nat
    BY <1>1, SumsBound
  <1>5. Sums(f)[MaxOptions] \in Nat /\ f[a] \in Nat /\ f[b] \in Nat
    BY SumsBound
  <1> QED BY <1>1, <1>3, <1>4, <1>5
\* Only the root has a balance.
LEMMA SumsRoot ==
    ASSUME NEW n \in Int,
           NEW f \in [Accounts -> Int],
           f = [a \in Accounts |-> IF a = Root THEN n ELSE 0]
    PROVE  Sums(f)[MaxOptions] = n
  <1> DEFINE s == Sums(f)
             Bad == {k \in Accounts : s[k] # n}
  <1>1. /\ s \in [Accounts -> Int] /\ s[0] = f[0]
        /\ \A i \in Options : s[i] = s[i - 1] + f[i]
    BY SumsDef
  <1> HIDE DEF s
  <1>2. Bad = {}
    <2> SUFFICES ASSUME Bad # {} PROVE FALSE
      OBVIOUS
    <2>1. PICK k \in Bad : \A y \in Bad : k <= y
      <3>1. Bad \in SUBSET Nat
        OBVIOUS
      <3> HIDE DEF Bad
      <3> QED BY <3>1, Least
    <2>2. CASE k = 0
      BY <1>1, <2>1, <2>2
    <2>3. CASE k # 0
      <3>1. k - 1 \in Accounts /\ k - 1 \notin Bad /\ k \in Options
        BY <2>1, <2>3
      <3>2. s[k - 1] = n /\ s[k] = s[k - 1] + f[k] /\ f[k] = 0
        BY <1>1, <3>1
      <3> QED BY <2>1, <3>2
    <2> QED BY <2>2, <2>3
  <1> QED BY <1>2 DEF s

-----------------------------------------------------------------------------
(* The way from an account up to the root.                                 *)

\* Options are created below accounts that exist: a parent is older.
Descends(P) == P \in [Options -> Accounts] /\ \A o \in Options : P[o] < o
\* The chains of the accounts up to n.
UpTo(P, n, g) ==
    g \in [0..n -> Seq(Accounts)] /\ \A k \in 0..n :
        g[k] = IF k = 0 THEN <<0>> ELSE <<k>> \o g[P[k]]
\* They exist.
LEMMA ChainsExist ==
    ASSUME NEW P, Descends(P), NEW n \in Accounts
    PROVE  \E g : UpTo(P, n, g)
  <1> DEFINE Bad == {k \in Accounts : ~ \E g : UpTo(P, k, g)}
  <1> SUFFICES ASSUME Bad # {} PROVE FALSE
    OBVIOUS
  <1>1. PICK k \in Bad : \A y \in Bad : k <= y
    <2>1. Bad \in SUBSET Nat
      OBVIOUS
    <2> HIDE DEF Bad
    <2> QED BY <2>1, Least
  <1>2. CASE k = 0
    <2> DEFINE h == [i \in 0..0 |-> <<0>>]
    <2>1. <<0>> \in Seq(Accounts)
      OBVIOUS
    <2>2. h \in [0..0 -> Seq(Accounts)]
      BY <2>1
    <2>3. UpTo(P, 0, h)
      BY <2>2 DEF UpTo
    <2> QED BY <1>2, <2>3
  <1>3. CASE k # 0
    <2>1. k - 1 \in Accounts /\ k - 1 \notin Bad /\ k \in Options
      BY <1>1, <1>3
    <2>2. PICK g : UpTo(P, k - 1, g)
      BY <2>1
    <2>3. P[k] \in 0..(k - 1)
      BY <2>1 DEF Descends
    <2> DEFINE h == [i \in 0..k |-> IF i < k THEN g[i] ELSE <<k>> \o g[P[k]]]
    <2>4. <<k>> \o g[P[k]] \in Seq(Accounts)
      <3>1. g[P[k]] \in Seq(Accounts)
        BY <2>2, <2>3 DEF UpTo
      <3>2. <<k>> \in Seq(Accounts)
        OBVIOUS
      <3> QED BY <3>1, <3>2
    <2>5. h \in [0..k -> Seq(Accounts)]
      <3>1. ASSUME NEW i \in 0..k, i < k PROVE g[i] \in Seq(Accounts)
        BY <3>1, <2>1, <2>2 DEF UpTo
      <3> QED BY <2>4, <3>1
    <2>6. ASSUME NEW i \in 0..k
          PROVE  h[i] = IF i = 0 THEN <<0>> ELSE <<i>> \o h[P[i]]
      <3>1. CASE i = k
        <4>1. h[P[k]] = g[P[k]]
          BY <2>1, <2>3
        <4>2. h[k] = <<k>> \o g[P[k]]
          BY <2>1
        <4> HIDE DEF h
        <4> QED BY <1>3, <3>1, <4>1, <4>2
      <3>2. CASE i # k
        <4>1. i \in 0..(k - 1) /\ h[i] = g[i]
          BY <2>1, <3>2
        <4>2. i # 0 => i \in Options /\ P[i] \in 0..(k - 1)
          BY <2>1, <4>1 DEF Descends
        <4>3. i # 0 => h[P[i]] = g[P[i]]
          BY <2>1, <4>2
        <4>4. g[i] = IF i = 0 THEN <<0>> ELSE <<i>> \o g[P[i]]
          BY <2>2, <4>1 DEF UpTo
        <4> HIDE DEF h
        <4> QED BY <4>1, <4>3, <4>4
      <3> QED BY <3>1, <3>2
    <2> HIDE DEF h
    <2>7. UpTo(P, k, h)
      BY <2>5, <2>6 DEF UpTo
    <2> QED BY <2>7
  <1> QED BY <1>2, <1>3
\* The chain of an Option is the Option and the chain of its parent.
LEMMA ChainDef ==
    ASSUME NEW L, Descends(L.parent)
    PROVE  /\ \A a \in Accounts : Chain(L, a) \in Seq(Accounts)
           /\ Chain(L, 0) = <<0>>
           /\ \A o \in Options : Chain(L, o) = <<o>> \o Chain(L, L.parent[o])
  <1> DEFINE D(s) == [b \in Accounts |->
                        IF b = Root THEN <<Root>>
                        ELSE <<b>> \o s[L.parent[b]]]
             up == CHOOSE s : s = D(s)
  <1>1. PICK g : UpTo(L.parent, MaxOptions, g)
    BY ChainsExist
  <1>2. g = D(g)
    BY <1>1 DEF UpTo
  <1>3. up = D(up)
    BY <1>2
  <1>4. \A a \in Accounts : Chain(L, a) = up[a]
    BY DEF Chain
  <1> HIDE DEF up
  <1> DEFINE Bad == {k \in Accounts : up[k] \notin Seq(Accounts)}
  <1>5. Bad = {}
    <2> SUFFICES ASSUME Bad # {} PROVE FALSE
      OBVIOUS
    <2>1. PICK k \in Bad : \A y \in Bad : k <= y
      <3>1. Bad \in SUBSET Nat
        OBVIOUS
      <3> HIDE DEF Bad
      <3> QED BY <3>1, Least
    <2>2. CASE k = 0
      BY <1>3, <2>1, <2>2
    <2>3. CASE k # 0
      <3>1. k \in Options /\ L.parent[k] \in Accounts /\ L.parent[k] < k
        BY <2>1, <2>3 DEF Descends
      <3>2. up[L.parent[k]] \in Seq(Accounts)
        <4>1. ~ (k <= L.parent[k])
          BY <3>1
        <4>2. L.parent[k] \notin Bad
          BY <2>1, <4>1
        <4> QED BY <3>1, <4>2
      <3>3. up[k] = <<k>> \o up[L.parent[k]]
        BY <1>3, <2>3, <3>1
      <3>4. <<k>> \in Seq(Accounts)
        BY <3>1
      <3>5. <<k>> \o up[L.parent[k]] \in Seq(Accounts)
        BY <3>2, <3>4
      <3> QED BY <2>1, <3>3, <3>5
    <2> QED BY <2>2, <2>3
  <1>6. \A o \in Options : L.parent[o] \in Accounts
    BY DEF Descends
  <1>7. up[0] = <<0>>
    BY <1>3
  <1>8. ASSUME NEW o \in Options PROVE up[o] = <<o>> \o up[L.parent[o]]
    <2>1. o \in Accounts /\ o # Root
      OBVIOUS
    <2>2. D(up)[o] = <<o>> \o up[L.parent[o]]
      BY <2>1
    <2> QED BY <1>3, <2>2
  <1>9. \A a \in Accounts : up[a] \in Seq(Accounts)
    BY <1>5
  <1>10. /\ \A a \in Accounts : Chain(L, a) \in Seq(Accounts)
         /\ Chain(L, 0) = <<0>>
    <2>1. 0 \in Accounts
      OBVIOUS
    <2>2. Chain(L, 0) = <<0>>
      BY <1>4, <1>7, <2>1
    <2>3. ASSUME NEW a \in Accounts PROVE Chain(L, a) \in Seq(Accounts)
      BY <1>4, <1>9
    <2> QED BY <2>2, <2>3
  <1>11. ASSUME NEW o \in Options
         PROVE  Chain(L, o) = <<o>> \o Chain(L, L.parent[o])
    <2>1. o \in Accounts
      OBVIOUS
    <2>2. Chain(L, o) = up[o] /\ Chain(L, L.parent[o]) = up[L.parent[o]]
      BY <1>4, <1>6, <2>1
    <2> QED BY <1>8, <2>2
  <1> QED BY <1>10, <1>11
\* Position by position.
LEMMA ChainPositions ==
    ASSUME NEW L, Descends(L.parent), NEW o \in Options
    PROVE  LET up == Chain(L, o)
               rest == Chain(L, L.parent[o])
           IN  /\ Len(up) = Len(rest) + 1 /\ up[1] = o
               /\ \A i \in 1..Len(rest) : up[i + 1] = rest[i]
  <1> DEFINE up == Chain(L, o)
             rest == Chain(L, L.parent[o])
  <1>1. L.parent[o] \in Accounts /\ o \in Accounts
    BY DEF Descends
  <1>2. rest \in Seq(Accounts) /\ up = <<o>> \o rest
    BY <1>1, ChainDef
  <1> HIDE DEF up, rest
  <1>3. /\ Len(up) = Len(rest) + 1 /\ up[1] = o
        /\ \A i \in 1..Len(rest) : up[i + 1] = rest[i]
    BY <1>2
  <1> QED BY <1>3 DEF up, rest
\* The accounts on a chain.
LEMMA ChainMembers ==
    ASSUME NEW L, Descends(L.parent)
    PROVE  /\ \A c : Contains(Chain(L, 0), c) <=> c = 0
           /\ \A o \in Options : \A c :
                 Contains(Chain(L, o), c) <=>
                    c = o \/ Contains(Chain(L, L.parent[o]), c)
  <1>1. \A c : Contains(Chain(L, 0), c) <=> c = 0
    <2>1. Chain(L, 0) = <<0>>
      BY ChainDef
    <2>2. \A c : Contains(<<0>>, c) <=> c = 0
      BY DEF Contains
    <2> QED BY <2>1, <2>2
  <1>2. ASSUME NEW o \in Options, NEW c
        PROVE  Contains(Chain(L, o), c) <=>
                  c = o \/ Contains(Chain(L, L.parent[o]), c)
    <2> DEFINE up == Chain(L, o)
               rest == Chain(L, L.parent[o])
    <2>1. L.parent[o] \in Accounts
      BY DEF Descends
    <2>2. Len(rest) \in Nat
      BY <2>1, ChainDef
    <2>3. /\ Len(up) = Len(rest) + 1 /\ up[1] = o
          /\ \A i \in 1..Len(rest) : up[i + 1] = rest[i]
      BY ChainPositions
    <2> HIDE DEF up, rest
    <2>4. ASSUME NEW i \in 1..Len(up), up[i] = c
          PROVE  c = o \/ \E j \in 1..Len(rest) : rest[j] = c
      <3>1. CASE i = 1
        BY <2>3, <2>4, <3>1
      <3>2. CASE i # 1
        <4>1. i - 1 \in 1..Len(rest) /\ (i - 1) + 1 = i
          BY <2>2, <2>3, <3>2
        <4> QED BY <2>3, <2>4, <4>1
      <3> QED BY <3>1, <3>2
    <2>5. ASSUME NEW j \in 1..Len(rest), rest[j] = c
          PROVE  \E i \in 1..Len(up) : up[i] = c
      <3>1. j + 1 \in 1..Len(up) /\ up[j + 1] = c
        BY <2>2, <2>3, <2>5
      <3> QED BY <3>1
    <2>6. 1 \in 1..Len(up)
      BY <2>2, <2>3
    <2>7. Contains(up, c) <=> c = o \/ Contains(rest, c)
      BY <2>3, <2>4, <2>5, <2>6 DEF Contains
    <2> QED BY <2>7 DEF up, rest
  <1> QED BY <1>1, <1>2
\* A chain leads down in numbers to the root.
LEMMA ChainRange ==
    ASSUME NEW L, Descends(L.parent), NEW a \in Accounts
    PROVE  /\ Contains(Chain(L, a), a) /\ Contains(Chain(L, a), 0)
           /\ \A c : Contains(Chain(L, a), c) => c \in 0..a
  <1> DEFINE Good(k) == /\ Contains(Chain(L, k), k) /\ Contains(Chain(L, k), 0)
                        /\ \A c : Contains(Chain(L, k), c) => c \in 0..k
             Bad == {k \in Accounts : ~Good(k)}
  <1> SUFFICES ASSUME Bad # {} PROVE FALSE
    OBVIOUS
  <1>1. PICK k \in Bad : \A y \in Bad : k <= y
    <2>1. Bad \in SUBSET Nat
      OBVIOUS
    <2> HIDE DEF Bad
    <2> QED BY <2>1, Least
  <1>2. CASE k = 0
    BY <1>1, <1>2, ChainMembers
  <1>3. CASE k # 0
    <2>1. k \in Options /\ L.parent[k] \in Accounts /\ L.parent[k] < k
      BY <1>1, <1>3 DEF Descends
    <2>2. L.parent[k] \notin Bad
      <3>1. ~ (k <= L.parent[k])
        BY <2>1
      <3> QED BY <1>1, <3>1
    <2>3. Good(L.parent[k])
      BY <2>1, <2>2
    <2>4. \A c : Contains(Chain(L, k), c) <=>
                    c = k \/ Contains(Chain(L, L.parent[k]), c)
      BY <2>1, ChainMembers
    <2>5. \A c \in 0..L.parent[k] : c \in 0..k
      BY <2>1
    <2>6. k \in 0..k
      BY <2>1
    <2>7. Good(k)
      BY <2>3, <2>4, <2>5, <2>6
    <2> QED BY <1>1, <2>7
  <1> QED BY <1>2, <1>3
\* From an account on a chain the chain goes on as that account's own.
LEMMA ChainSuffix ==
    ASSUME NEW L, Descends(L.parent), NEW a \in Accounts,
           NEW i \in 1..Len(Chain(L, a)), NEW j \in i..Len(Chain(L, a))
    PROVE  Contains(Chain(L, Chain(L, a)[i]), Chain(L, a)[j])
  <1> DEFINE Good(k) == \A m \in 1..Len(Chain(L, k)) :
                            \A n \in m..Len(Chain(L, k)) :
                            Contains(Chain(L, Chain(L, k)[m]), Chain(L, k)[n])
             Bad == {k \in Accounts : ~Good(k)}
  <1> SUFFICES ASSUME Bad # {} PROVE FALSE
    OBVIOUS
  <1>1. PICK k \in Bad : \A y \in Bad : k <= y
    <2>1. Bad \in SUBSET Nat
      OBVIOUS
    <2> HIDE DEF Bad
    <2> QED BY <2>1, Least
  <1>2. CASE k = 0
    <2>1. Chain(L, 0) = <<0>> /\ Contains(Chain(L, 0), 0)
      BY ChainDef, ChainMembers
    <2>2. Good(0)
      <3> SUFFICES ASSUME NEW m \in 1..1, NEW n \in m..1
                   PROVE  Contains(Chain(L, <<0>>[m]), <<0>>[n])
        BY <2>1
      <3>1. m = 1 /\ n = 1
        OBVIOUS
      <3> QED BY <2>1, <3>1
    <2> QED BY <1>1, <1>2, <2>2
  <1>3. CASE k # 0
    <2> DEFINE p == L.parent[k]
               up == Chain(L, k)
               rest == Chain(L, p)
    <2>1. k \in Options /\ p \in Accounts /\ p < k
      <3>1. k \in Options
        BY <1>1, <1>3
      <3> QED BY <3>1 DEF Descends
    <2>2. Good(p)
      <3>1. ~ (k <= p)
        BY <2>1
      <3> QED BY <1>1, <2>1, <3>1
    <2>3. Len(rest) \in Nat
      BY <2>1, ChainDef
    <2>4. /\ Len(up) = Len(rest) + 1 /\ up[1] = k
          /\ \A m \in 1..Len(rest) : up[m + 1] = rest[m]
      BY <2>1, ChainPositions
    <2>5. \A m \in 1..Len(rest) : \A n \in m..Len(rest) :
             Contains(Chain(L, rest[m]), rest[n])
      BY <2>2
    <2> HIDE DEF up, rest, p
    <2>6. ASSUME NEW m \in 1..Len(up), NEW n \in m..Len(up)
          PROVE  Contains(Chain(L, up[m]), up[n])
      <3>1. CASE m = 1
        <4>1. n \in 1..Len(up)
          BY <2>3, <2>4
        <4>2. Contains(up, up[n])
          BY <4>1 DEF Contains
        <4> QED BY <2>4, <3>1, <4>2 DEF up
      <3>2. CASE m # 1
        <4>1. /\ m - 1 \in 1..Len(rest) /\ n - 1 \in (m - 1)..Len(rest)
              /\ n - 1 \in 1..Len(rest)
          BY <2>3, <2>4, <3>2
        <4>2. up[(m - 1) + 1] = rest[m - 1] /\ up[(n - 1) + 1] = rest[n - 1]
          BY <2>4, <4>1
        <4>3. (m - 1) + 1 = m /\ (n - 1) + 1 = n
          BY <2>3, <2>4
        <4> QED BY <2>5, <4>1, <4>2, <4>3
      <3> QED BY <3>1, <3>2
    <2>7. Good(k)
      BY <2>6 DEF up
    <2> QED BY <1>1, <2>7
  <1> QED BY <1>2, <1>3
\* LCA is above all participants, and whatever else is lies above it.
LEMMA LCADeepest ==
    ASSUME NEW L, Descends(L.parent), NEW ids \in Seq(Accounts),
           1 \in DOMAIN ids
    PROVE  /\ LCA(L, ids) \in Accounts
           /\ \A k \in DOMAIN ids : Contains(Chain(L, ids[k]), LCA(L, ids))
           /\ \A c : (\A k \in DOMAIN ids : Contains(Chain(L, ids[k]), c)) =>
                        Contains(Chain(L, LCA(L, ids)), c)
  <1> DEFINE up == Chain(L, ids[1])
             common(i) == \A k \in DOMAIN ids :
                              Contains(Chain(L, ids[k]), up[i])
             first(i) == common(i) /\ \A j \in 1..(i - 1) : ~common(j)
             n == CHOOSE i \in DOMAIN up : first(i)
             T == {i \in DOMAIN up : common(i)}
  <1>1. \A k \in DOMAIN ids : ids[k] \in Accounts
    OBVIOUS
  <1>2. up \in Seq(Accounts) /\ DOMAIN up = 1..Len(up) /\ Len(up) \in Nat
    BY <1>1, ChainDef
  <1>3. \A k \in DOMAIN ids : Contains(Chain(L, ids[k]), 0)
    BY <1>1, ChainRange
  <1>4. PICK r \in 1..Len(up) : up[r] = 0
    BY <1>3 DEF Contains
  <1>5. T # {} /\ T \in SUBSET Nat
    <2>1. common(r)
      BY <1>3, <1>4
    <2>2. r \in DOMAIN up /\ DOMAIN up \in SUBSET Nat
      BY <1>2, <1>4
    <2> HIDE DEF up, common
    <2>3. r \in T
      BY <2>1, <2>2
    <2>4. T \in SUBSET Nat
      BY <2>2
    <2> QED BY <2>3, <2>4
  <1>6. PICK m \in T : \A y \in T : m <= y
    <2> HIDE DEF T
    <2> QED BY <1>5, Least
  <1>7. first(m)
    <2>1. ASSUME NEW j \in 1..(m - 1) PROVE ~common(j)
      <3>1. m \in Nat /\ m \in 1..Len(up)
        BY <1>2, <1>6
      <3>2. j \in DOMAIN up /\ ~ (m <= j)
        BY <1>2, <3>1
      <3> HIDE DEF common
      <3> QED BY <1>6, <3>2
    <2> HIDE DEF common
    <2> QED BY <1>6, <2>1
  <1>8. n \in DOMAIN up /\ first(n)
    <2>1. m \in DOMAIN up
      BY <1>6
    <2> HIDE DEF first
    <2> QED BY <1>7, <2>1
  <1>9. LCA(L, ids) = up[n]
    BY DEF LCA
  <1> HIDE DEF n
  <1>10. up[n] \in Accounts
    BY <1>2, <1>8
  <1>11. ASSUME NEW c, \A k \in DOMAIN ids : Contains(Chain(L, ids[k]), c)
         PROVE  Contains(Chain(L, up[n]), c)
    <2>1. Contains(up, c)
      BY <1>11
    <2>2. PICK j \in 1..Len(up) : up[j] = c
      BY <2>1 DEF Contains
    <2>3. common(j)
      BY <1>11, <2>2
    <2>4. j \notin 1..(n - 1)
      BY <1>8, <2>3
    <2>5. n \in 1..Len(up) /\ j \in n..Len(up)
      BY <1>2, <1>8, <2>4
    <2>6. ids[1] \in Accounts
      BY <1>1
    <2> QED BY <2>2, <2>5, <2>6, ChainSuffix
  <1> QED BY <1>8, <1>9, <1>10, <1>11
\* Which is the deepest account above all of them.
LEMMA LCAReference ==
    ASSUME NEW L, Descends(L.parent), NEW ids \in Seq(Accounts),
           1 \in DOMAIN ids
    PROVE  LCA(L, ids) = DeepestCommon(L, ids)
  <1> DEFINE up == [a \in Accounts |-> ToSet(Chain(L, a))]
             above == {a \in Accounts : \A i \in DOMAIN ids : a \in up[ids[i]]}
             d == LCA(L, ids)
  <1>1. ASSUME NEW a \in Accounts, NEW c
        PROVE  c \in up[a] <=> Contains(Chain(L, a), c)
    <2>1. Chain(L, a) \in Seq(Accounts)
      BY ChainDef
    <2>2. up[a] = ToSet(Chain(L, a))
      OBVIOUS
    <2> DEFINE s == Chain(L, a)
    <2> HIDE DEF up, s
    <2>3. DOMAIN s = 1..Len(s)
      BY <2>1 DEF s
    <2>4. c \in ToSet(s) <=> Contains(s, c)
      BY <2>3 DEF ToSet, Contains
    <2> QED BY <2>2, <2>4 DEF s
  <1>2. \A i \in DOMAIN ids : ids[i] \in Accounts
    OBVIOUS
  <1>3. \A c : c \in above <=>
           c \in Accounts /\ \A i \in DOMAIN ids : Contains(Chain(L, ids[i]), c)
    BY <1>1, <1>2
  <1>4. d \in above
    BY <1>3, LCADeepest
  <1>5. above \subseteq up[d]
    <2> SUFFICES ASSUME NEW c \in above PROVE c \in up[d]
      OBVIOUS
    <2>1. \A i \in DOMAIN ids : Contains(Chain(L, ids[i]), c)
      BY <1>3
    <2>2. d \in Accounts /\ Contains(Chain(L, d), c)
      BY <2>1, LCADeepest
    <2> HIDE DEF up
    <2> QED BY <1>1, <2>2
  <1>6. ASSUME NEW a \in above, above \subseteq up[a]
        PROVE  a = d
    <2>1. a \in Accounts /\ d \in Accounts
      BY <1>4
    <2>2. d \in up[a] /\ a \in up[d]
      BY <1>4, <1>5, <1>6
    <2>3. Contains(Chain(L, a), d) /\ Contains(Chain(L, d), a)
      BY <1>1, <2>1, <2>2
    <2>4. d \in 0..a /\ a \in 0..d
      BY <2>1, <2>3, ChainRange
    <2> QED BY <2>1, <2>4
  <1>7. DeepestCommon(L, ids) = CHOOSE a \in above : above \subseteq up[a]
    BY DEF DeepestCommon
  <1> HIDE DEF above, up, d
  <1> QED BY <1>4, <1>5, <1>6, <1>7 DEF d

-----------------------------------------------------------------------------
(* What the operations of the ledger preserve.                             *)

\* A ledger that Refresh accepts: balances and totals fit, time is neither
\* created nor lost, and the accounts are a tree.
Sound(L) ==
    /\ L \in LedgerRecord /\ L.ok
    /\ L.remaining \in [Accounts -> 0..MaxInt]
    /\ L.minted \in 0..MaxInt /\ L.charged \in Nat /\ L.retired \in Nat
    /\ L.lease = NoLease \/ L.lease.amount > 0
    /\ Balanced(L)
    /\ Descends(L.parent)
\* Only balances differ, and no transfer has drawn on the root's reserve.
Transfer(L, M) ==
    /\ Sound(M)
    /\ M.parent = L.parent /\ M.lease = L.lease /\ M.minted = L.minted
    /\ M.charged = L.charged /\ M.retired = L.retired
    /\ \/ M.remaining[Root] >= L.remaining[Root]
       \/ M.remaining[Root] >= MinRootAfterTransferMS

\* The fields of a ledger.
LEMMA LedgerFields ==
    ASSUME NEW L \in LedgerRecord
    PROVE  /\ L.remaining \in [Accounts -> Int]
           /\ L.parent \in [Options -> Accounts]
           /\ L.lease \in [anchor: Accounts, amount: Int]
           /\ L.lease.anchor \in Accounts /\ L.lease.amount \in Int
           /\ L.minted \in Int /\ L.charged \in Int /\ L.retired \in Int
           /\ L.ok \in BOOLEAN
           /\ L = [remaining |-> L.remaining, parent |-> L.parent,
                   lease |-> L.lease, minted |-> L.minted,
                   charged |-> L.charged, retired |-> L.retired, ok |-> L.ok]
  BY DEF LedgerRecord
\* All of the time fits into what was minted.
LEMMA Room ==
    ASSUME NEW L, Sound(L)
    PROVE  /\ Remaining(L) \in Nat /\ Outstanding(L) \in Nat
           /\ L.minted = Remaining(L) + Outstanding(L) + L.charged + L.retired
           /\ L.minted \in Nat /\ L.minted <= MaxInt
           /\ \A a \in Accounts : /\ L.remaining[a] \in Nat
                                  /\ L.remaining[a] <= Remaining(L)
           /\ \A a, b \in Accounts : a # b =>
                 L.remaining[a] + L.remaining[b] <= Remaining(L)
  <1> DEFINE f == L.remaining
  <1>1. f \in [Accounts -> Nat]
    BY DEF Sound
  <1>2. Outstanding(L) \in Nat
    <2>1. L.lease.amount \in Int /\ (L.lease = NoLease => L.lease.amount = 0)
      BY LedgerFields DEF Sound, NoLease
    <2> QED BY <2>1 DEF Sound, Outstanding
  <1>3. L.minted = Remaining(L) + Outstanding(L) + L.charged + L.retired
    BY DEF Sound, Balanced
  <1>4. L.minted \in Nat /\ L.minted <= MaxInt
    BY DEF Sound
  <1> HIDE DEF f
  <1>5. /\ Sums(f)[MaxOptions] \in Nat
        /\ \A a \in Accounts : f[a] \in Nat /\ f[a] <= Sums(f)[MaxOptions]
    <2>1. 0 \in Accounts
      OBVIOUS
    <2> QED BY <1>1, <2>1, SumsBound
  <1>6. ASSUME NEW a \in Accounts, NEW b \in Accounts, a # b
        PROVE  f[a] + f[b] <= Sums(f)[MaxOptions]
    BY <1>1, <1>6, SumsPair
  <1> QED BY <1>2, <1>3, <1>4, <1>5, <1>6 DEF Remaining, f

\* A refused operation says so.
LEMMA RefusedOK ==
    ASSUME NEW L \in LedgerRecord
    PROVE  Refused(L) \in LedgerRecord /\ ~Refused(L).ok
  BY DEF Refused, LedgerRecord

\* From L to M an amount n has moved.
Moved(L, M, from, to, n) ==
    /\ L.ok /\ from # to /\ n >= 0
    /\ from = Root /\ n > 0 =>
          L.remaining[Root] - n >= MinRootAfterTransferMS
    /\ L.remaining[from] >= n
    /\ Addable(L.remaining[to], n)
    /\ M = [L EXCEPT !.remaining = M.remaining]
    /\ M.remaining = [a \in Accounts |->
                        IF a = from THEN L.remaining[a] - n
                        ELSE IF a = to THEN L.remaining[a] + n
                        ELSE L.remaining[a]]
\* Moving time changes two balances, or is refused.
LEMMA MoveWrites ==
    ASSUME NEW L \in LedgerRecord, NEW from \in Accounts, NEW to \in Accounts,
           NEW n \in Int
    PROVE  /\ Move(L, from, to, n) \in LedgerRecord
           /\ Move(L, from, to, n).ok =>
                 Moved(L, Move(L, from, to, n), from, to, n)
  <1> DEFINE M == Move(L, from, to, n)
             G == /\ L.ok /\ from # to /\ n >= 0
                  /\ ~ (from = Root /\ n > 0
                          /\ L.remaining[Root] - n < MinRootAfterTransferMS)
                  /\ L.remaining[from] >= n
                  /\ Addable(L.remaining[to], n)
             f == [a \in Accounts |->
                      IF a = from THEN L.remaining[a] - n
                      ELSE IF a = to THEN L.remaining[a] + n
                      ELSE L.remaining[a]]
  <1>0. L.remaining \in [Accounts -> Int]
    BY LedgerFields
  <1>1. CASE G
    <2> DEFINE g == [L.remaining EXCEPT ![from] = @ - n, ![to] = @ + n]
               E == [L EXCEPT !.remaining = g]
    <2>1. M = E
      BY <1>1 DEF Move
    <2>2. /\ E \in LedgerRecord /\ E.remaining = f
          /\ E = [L EXCEPT !.remaining = E.remaining]
      <3>1. from # to
        BY <1>1
      <3>2. g = f
        BY <1>0, <3>1
      <3>3. E = [L EXCEPT !.remaining = f]
        BY <3>2
      <3>4. f \in [Accounts -> Int]
        BY <1>0
      <3> HIDE DEF E, f
      <3> QED BY <3>3, <3>4 DEF LedgerRecord
    <2>3. from = Root /\ n > 0 =>
             L.remaining[Root] - n >= MinRootAfterTransferMS
      BY <1>0, <1>1
    <2> HIDE DEF E, f, M
    <2>4. G
      BY <1>1
    <2>5. /\ L.ok /\ from # to /\ n >= 0 /\ L.remaining[from] >= n
          /\ Addable(L.remaining[to], n)
      BY <2>4
    <2> HIDE DEF G
    <2>6. /\ M \in LedgerRecord /\ M.remaining = f
          /\ M = [L EXCEPT !.remaining = M.remaining]
      BY <2>1, <2>2
    <2> QED BY <2>3, <2>5, <2>6 DEF f, M, Moved
  <1>2. CASE ~G
    <2>1. M = Refused(L)
      BY <1>2 DEF Move
    <2> HIDE DEF G, M
    <2>2. M \in LedgerRecord /\ ~M.ok
      BY <2>1, RefusedOK
    <2> QED BY <2>2 DEF M
  <1> QED BY <1>1, <1>2
\* A ledger whose balances alone differ.
LEMMA Rebalanced ==
    ASSUME NEW L \in LedgerRecord, NEW f \in [Accounts -> Int],
           NEW M, M = [L EXCEPT !.remaining = f]
    PROVE  /\ M \in LedgerRecord /\ M.remaining = f
           /\ M.parent = L.parent /\ M.lease = L.lease
           /\ M.minted = L.minted /\ M.charged = L.charged
           /\ M.retired = L.retired /\ M.ok = L.ok
  BY DEF LedgerRecord
\* A transfer that succeeds moves time and keeps the root's reserve.
LEMMA MoveTransfers ==
    ASSUME NEW L, Sound(L), NEW from \in Accounts, NEW to \in Accounts,
           NEW n \in Int, Move(L, from, to, n).ok
    PROVE  Transfer(L, Move(L, from, to, n))
  <1> DEFINE M == Move(L, from, to, n)
             f == L.remaining
             h == M.remaining
             g == [f EXCEPT ![from] = f[from] - n]
             m == 0 - n
  <1>1. L \in LedgerRecord
    BY DEF Sound
  <1>2. M \in LedgerRecord /\ Moved(L, M, from, to, n)
    BY <1>1, MoveWrites
  <1> HIDE DEF M
  <1>3. /\ M.parent = L.parent /\ M.lease = L.lease /\ M.minted = L.minted
        /\ M.charged = L.charged /\ M.retired = L.retired /\ M.ok = L.ok
        /\ h \in [Accounts -> Int]
    <2>1. h \in [Accounts -> Int]
      BY <1>2, LedgerFields
    <2> HIDE DEF h
    <2>2. M = [L EXCEPT !.remaining = h]
      BY <1>2 DEF h, Moved
    <2> QED BY <1>1, <2>1, <2>2, Rebalanced
  <1>4. f \in [Accounts -> 0..MaxInt] /\ f \in [Accounts -> Int]
    <2>1. f \in [Accounts -> 0..MaxInt]
      BY DEF Sound
    <2> HIDE DEF f
    <2> QED BY <2>1
  <1>5. h = [a \in Accounts |-> IF a = from THEN f[a] - n
                                ELSE IF a = to THEN f[a] + n ELSE f[a]]
    BY <1>2 DEF Moved
  <1>6. /\ n >= 0 /\ f[from] >= n /\ n <= MaxInt - f[to] /\ from # to
        /\ from = Root /\ n > 0 => f[0] - n >= MinRootAfterTransferMS
    BY <1>2 DEF Moved, Addable
  <1> HIDE DEF f, h
  <1>7. h \in [Accounts -> 0..MaxInt]
    <2>1. ASSUME NEW a \in Accounts PROVE h[a] \in 0..MaxInt
      <3>1. f[a] \in 0..MaxInt
        BY <1>4
      <3>2. h[a] = IF a = from THEN f[a] - n
                   ELSE IF a = to THEN f[a] + n ELSE f[a]
        BY <1>5
      <3> QED BY <1>6, <3>1, <3>2
    <2> QED BY <1>3, <2>1
  <1>8. m \in Int /\ Differ(f, g, from, m) /\ Differ(g, h, to, n)
    BY <1>3, <1>4, <1>5, <1>6 DEF Differ
  <1>9. m + n = 0
    OBVIOUS
  <1> HIDE DEF m, g
  <1>10. Sums(g)[MaxOptions] = Sums(f)[MaxOptions] + m
    BY <1>8, SumsChange
  <1>11. Sums(h)[MaxOptions] = Sums(g)[MaxOptions] + n
    BY <1>8, SumsChange
  <1>12. Remaining(M) = Remaining(L)
    <2>1. Sums(f)[MaxOptions] \in Int
      BY <1>4, SumsDef
    <2>2. Sums(h)[MaxOptions] = Sums(f)[MaxOptions]
      <3>1. m \in Int
        BY <1>8
      <3> QED BY <1>9, <1>10, <1>11, <2>1, <3>1
    <2> QED BY <2>2 DEF Remaining, f, h
  <1>13. Sound(M)
    BY <1>2, <1>3, <1>7, <1>12 DEF Sound, Balanced, Outstanding, Moved, h
  <1>14. h[0] >= f[0] \/ h[0] >= MinRootAfterTransferMS
    <2>1. 0 \in Accounts /\ f[0] \in Int
      BY <1>4
    <2>2. h[0] = IF 0 = from THEN f[0] - n
                 ELSE IF 0 = to THEN f[0] + n ELSE f[0]
      BY <1>5, <2>1
    <2> QED BY <1>6, <2>1, <2>2
  <1> QED BY <1>3, <1>13, <1>14 DEF Transfer, M, f, h
\* Transfers compose.
LEMMA TransfersCompose ==
    ASSUME NEW L, NEW M, NEW N, L.remaining[Root] \in Int,
           Transfer(L, M), Transfer(M, N)
    PROVE  Transfer(L, N)
  <1>1. M.remaining[Root] \in Int /\ N.remaining[Root] \in Int
    BY DEF Transfer, Sound
  <1> QED BY <1>1 DEF Transfer
\* Moving nothing is a transfer.
LEMMA TransferNothing ==
    ASSUME NEW L, Sound(L) PROVE Transfer(L, L)
  BY DEF Transfer, Sound
\* A ledger in which an operation was refused stays refused.
LEMMA MoveRefused ==
    ASSUME NEW L \in LedgerRecord, ~L.ok, NEW from \in Accounts,
           NEW to \in Accounts, NEW n \in Int
    PROVE  ~Move(L, from, to, n).ok
  BY MoveWrites DEF Moved

\* A lease takes from its anchor what it holds.
LEMMA ReserveSound ==
    ASSUME NEW L, Sound(L), NEW a \in Accounts, NEW n \in Int,
           Reserve(L, a, n).ok
    PROVE  /\ Sound(Reserve(L, a, n)) /\ L.lease = NoLease
           /\ Reserve(L, a, n).lease = [anchor |-> a, amount |-> n]
           /\ Reserve(L, a, n).lease # NoLease
           /\ Reserve(L, a, n).parent = L.parent
  <1> DEFINE M == Reserve(L, a, n)
             f == L.remaining
             h == [f EXCEPT ![a] = @ - n]
             l == [anchor |-> a, amount |-> n]
             m == 0 - n
  <1>1. L \in LedgerRecord
    BY DEF Sound
  <1>2. n > 0 /\ L.lease = NoLease /\ f[a] >= n
    BY <1>1, RefusedOK DEF Reserve
  <1>3. M = [L EXCEPT !.remaining = h, !.lease = l]
    BY <1>1, <1>2 DEF Reserve, LedgerRecord
  <1>4. f \in [Accounts -> 0..MaxInt]
    BY DEF Sound
  <1>5. l \in [anchor: Accounts, amount: Int] /\ l.amount = n /\ l # NoLease
    BY <1>2 DEF NoLease
  <1> HIDE DEF M, f, l
  <1>6. h \in [Accounts -> 0..MaxInt]
    BY <1>2, <1>4
  <1>7. h \in [Accounts -> Int] /\ Differ(f, h, a, m)
    BY <1>4 DEF Differ
  <1>8. m = 0 - n
    OBVIOUS
  <1> HIDE DEF h, m
  <1>9. Sums(h)[MaxOptions] = Sums(f)[MaxOptions] + m
    BY <1>7, SumsChange
  <1>10. /\ M \in LedgerRecord /\ M.remaining = h /\ M.lease = l
         /\ M.parent = L.parent /\ M.minted = L.minted
         /\ M.charged = L.charged /\ M.retired = L.retired /\ M.ok = L.ok
    BY <1>1, <1>3, <1>5, <1>7 DEF LedgerRecord
  <1>11. Balanced(M)
    <2>1. /\ Remaining(M) = Sums(h)[MaxOptions] /\ Outstanding(M) = n
          /\ Remaining(L) = Sums(f)[MaxOptions] /\ Outstanding(L) = 0
      BY <1>2, <1>5, <1>10 DEF Remaining, Outstanding, f, NoLease
    <2>2. L.minted = Remaining(L) + Outstanding(L) + L.charged + L.retired
      BY Room
    <2>3. Remaining(L) \in Int /\ L.charged \in Int /\ L.retired \in Int
      BY <1>1, Room, LedgerFields
    <2> QED BY <1>8, <1>9, <1>10, <2>1, <2>2, <2>3 DEF Balanced
  <1>12. Sound(M)
    BY <1>2, <1>5, <1>6, <1>10, <1>11 DEF Sound
  <1> QED BY <1>2, <1>5, <1>10, <1>12 DEF M, l
\* The lesser of two numbers.
LEMMA MinOfTwo ==
    ASSUME NEW a \in Int, NEW b \in Int
    PROVE  Min({a, b}) = IF a <= b THEN a ELSE b
  <1> DEFINE m == IF a <= b THEN a ELSE b
  <1>1. m \in {a, b} /\ \A y \in {a, b} : m <= y
    OBVIOUS
  <1>2. \A c \in {a, b} : (\A y \in {a, b} : c <= y) => c = m
    OBVIOUS
  <1> HIDE DEF m
  <1>3. Min({a, b}) = m
    BY <1>1, <1>2 DEF Min
  <1> QED BY <1>3 DEF m
\* Settling returns what the step did not use.
LEMMA SettleSound ==
    ASSUME NEW L, Sound(L), L.lease # NoLease,
           NEW elapsed \in Nat, NEW uncertain \in BOOLEAN
    PROVE  /\ Sound(Settle(L, elapsed, uncertain))
           /\ Settle(L, elapsed, uncertain).lease = NoLease
           /\ Settle(L, elapsed, uncertain).parent = L.parent
  <1> DEFINE M == Settle(L, elapsed, uncertain)
             f == L.remaining
             a == L.lease.anchor
             n == L.lease.amount
             c == Charge(L, elapsed, uncertain)
             d == n - c
             h == [f EXCEPT ![a] = f[a] + d]
  <1>1. L \in LedgerRecord
    BY DEF Sound
  <1>2. a \in Accounts /\ n \in Int /\ n > 0
    BY <1>1, LedgerFields DEF Sound
  <1>3. c \in 0..n
    <2>1. Min({elapsed, n}) = IF elapsed <= n THEN elapsed ELSE n
      BY <1>2, MinOfTwo
    <2> HIDE DEF n
    <2>2. c = IF uncertain THEN n ELSE Min({elapsed, n})
      BY DEF Charge, n
    <2> HIDE DEF c
    <2> QED BY <1>2, <2>1, <2>2
  <1>4. f \in [Accounts -> 0..MaxInt]
    BY DEF Sound
  <1>5. /\ Remaining(L) \in Nat /\ L.charged \in Nat /\ L.retired \in Nat
        /\ L.minted \in Nat /\ L.minted <= MaxInt
        /\ L.minted = Remaining(L) + n + L.charged + L.retired
        /\ f[a] \in Nat /\ f[a] <= Remaining(L)
    BY <1>2, Room DEF Sound, Outstanding
  <1>6. Wrap(f[a] + n - c) = f[a] + d /\ Wrap(L.charged + c) = L.charged + c
    <2> HIDE DEF f, n, c
    <2>1. f[a] + n - c = f[a] + d
      BY <1>2, <1>3, <1>5
    <2>2. f[a] + d \in Nat /\ f[a] + d <= MaxInt
      BY <1>2, <1>3, <1>5
    <2>3. L.charged + c \in Nat /\ L.charged + c <= MaxInt
      BY <1>2, <1>3, <1>5
    <2> QED BY <2>1, <2>2, <2>3 DEF Wrap
  <1>7. M = [L EXCEPT !.remaining = h, !.charged = L.charged + c,
                      !.lease = NoLease]
    <2>1. ~ (elapsed < 0)
      OBVIOUS
    <2>2. M = [L EXCEPT !.remaining[a] = Wrap(@ + n - c),
                        !.charged = Wrap(@ + c), !.lease = NoLease]
      BY <2>1 DEF Settle
    <2> HIDE DEF M, a, n, c
    <2>3. M = [L EXCEPT !.remaining = [L.remaining EXCEPT ![a] =
                                          Wrap(L.remaining[a] + n - c)],
                        !.charged = Wrap(L.charged + c), !.lease = NoLease]
      BY <1>1, <2>2 DEF LedgerRecord
    <2> QED BY <1>6, <2>3
  <1> HIDE DEF M, f, a, n, c
  <1>8. /\ h \in [Accounts -> 0..MaxInt]
        /\ d \in Int /\ Differ(f, h, a, d) /\ d = n - c
    <2>1. f[a] + d \in 0..MaxInt
      BY <1>2, <1>3, <1>5
    <2>2. h \in [Accounts -> 0..MaxInt]
      BY <1>4, <2>1
    <2>3. d \in Int /\ d = n - c
      BY <1>2, <1>3
    <2> QED BY <1>2, <1>4, <2>2, <2>3 DEF Differ
  <1> HIDE DEF h, d
  <1>9. Sums(h)[MaxOptions] = Sums(f)[MaxOptions] + d
    BY <1>8, SumsChange
  <1>10. NoLease \in [anchor: Accounts, amount: Int] /\ NoLease.amount = 0
    BY DEF NoLease
  <1>11. L.charged + c \in Nat /\ h \in [Accounts -> Int]
    <2>1. L.charged + c \in Nat
      BY <1>2, <1>3, <1>5
    <2>2. h \in [Accounts -> Int]
      BY <1>8
    <2> QED BY <2>1, <2>2
  <1>12. /\ M \in LedgerRecord /\ M.remaining = h /\ M.lease = NoLease
         /\ M.parent = L.parent /\ M.minted = L.minted
         /\ M.charged = L.charged + c /\ M.retired = L.retired /\ M.ok = L.ok
    <2> DEFINE e == L.charged + c
    <2>1. e \in Int
      BY <1>11
    <2> HIDE DEF e
    <2>2. M = [L EXCEPT !.remaining = h, !.charged = e, !.lease = NoLease]
      BY <1>7 DEF e
    <2>3. /\ M \in LedgerRecord /\ M.remaining = h /\ M.lease = NoLease
          /\ M.parent = L.parent /\ M.minted = L.minted
          /\ M.charged = e /\ M.retired = L.retired /\ M.ok = L.ok
      BY <1>1, <1>10, <1>11, <2>1, <2>2 DEF LedgerRecord
    <2> QED BY <2>3 DEF e
  <1>13. Balanced(M)
    <2>1. /\ Remaining(M) = Sums(h)[MaxOptions] /\ Outstanding(M) = 0
          /\ Remaining(L) = Sums(f)[MaxOptions]
      BY <1>10, <1>12 DEF Remaining, Outstanding, f
    <2>2. Remaining(M) = Remaining(L) + d
      BY <1>9, <2>1
    <2> QED BY <1>2, <1>3, <1>5, <1>8, <1>12, <2>1, <2>2 DEF Balanced
  <1>14. Sound(M)
    BY <1>8, <1>11, <1>12, <1>13 DEF Sound
  <1> QED BY <1>12, <1>14 DEF M
\* An extension mints what it adds to the root.
LEMMA ExtendedSound ==
    ASSUME NEW L, Sound(L), NEW n \in Int, Extended(L, n).ok
    PROVE  /\ Sound(Extended(L, n))
           /\ Extended(L, n).lease = L.lease
           /\ Extended(L, n).parent = L.parent
           /\ Extended(L, n).remaining[Root] >= L.remaining[Root]
  <1> DEFINE M == Extended(L, n)
             f == L.remaining
             h == [f EXCEPT ![0] = f[0] + n]
             e == L.minted + n
  <1>1. L \in LedgerRecord
    BY DEF Sound
  <1>2. n > 0 /\ Addable(L.minted, n) /\ Addable(f[0], n)
    BY <1>1, RefusedOK DEF Extended
  <1>3. M = [L EXCEPT !.minted = e, !.remaining = h]
    BY <1>1, <1>2 DEF Extended, LedgerRecord
  <1>4. f \in [Accounts -> 0..MaxInt] /\ L.minted \in Nat
    BY DEF Sound
  <1> HIDE DEF M, f
  <1>5. e \in 0..MaxInt /\ e \in Int /\ e = L.minted + n
    BY <1>2, <1>4 DEF Addable
  <1>6. h \in [Accounts -> 0..MaxInt] /\ Differ(f, h, 0, n) /\ h[0] >= f[0]
    <2>1. 0 \in Accounts /\ f[0] \in 0..MaxInt /\ n <= MaxInt - f[0]
      BY <1>2, <1>4 DEF Addable
    <2>2. f[0] + n \in 0..MaxInt /\ f[0] + n >= f[0]
      BY <1>2, <2>1
    <2>3. h \in [Accounts -> 0..MaxInt]
      BY <1>4, <2>2
    <2>4. h[0] = f[0] + n
      BY <1>4, <2>1
    <2> QED BY <1>4, <2>1, <2>2, <2>3, <2>4 DEF Differ
  <1> HIDE DEF h, e
  <1>7. Sums(h)[MaxOptions] = Sums(f)[MaxOptions] + n
    BY <1>6, SumsChange
  <1>8. /\ M \in LedgerRecord /\ M.remaining = h /\ M.lease = L.lease
        /\ M.parent = L.parent /\ M.minted = e
        /\ M.charged = L.charged /\ M.retired = L.retired /\ M.ok = L.ok
    <2>1. h \in [Accounts -> Int]
      BY <1>6
    <2> QED BY <1>1, <1>3, <1>5, <2>1 DEF LedgerRecord
  <1>9. Balanced(M)
    <2>1. /\ Remaining(M) = Sums(h)[MaxOptions]
          /\ Remaining(L) = Sums(f)[MaxOptions]
          /\ Outstanding(M) = Outstanding(L)
      BY <1>8 DEF Remaining, Outstanding, f
    <2>2. /\ L.minted = Remaining(L) + Outstanding(L) + L.charged + L.retired
          /\ Remaining(L) \in Nat /\ Outstanding(L) \in Nat
          /\ L.charged \in Nat /\ L.retired \in Nat
      BY Room DEF Sound
    <2> QED BY <1>5, <1>7, <1>8, <2>1, <2>2 DEF Balanced
  <1>10. Sound(M)
    BY <1>5, <1>6, <1>8, <1>9 DEF Sound
  <1> QED BY <1>6, <1>8, <1>10 DEF M, f
\* Closing the Task retires what is left, to the last of it.
LEMMA RetiredSound ==
    ASSUME NEW L, Sound(L), L.lease = NoLease
    PROVE  /\ Sound(Retired(L))
           /\ Retired(L).lease = NoLease
           /\ Retired(L).parent = L.parent
  <1> DEFINE M == Retired(L)
             h == [a \in Accounts |-> IF a = Root THEN 0 ELSE 0]
             e == L.retired + Remaining(L)
  <1>1. L \in LedgerRecord
    BY DEF Sound
  <1>2. /\ Remaining(L) \in Nat /\ L.charged \in Nat /\ L.retired \in Nat
        /\ L.minted \in Nat /\ L.minted <= MaxInt /\ Outstanding(L) = 0
        /\ L.minted = Remaining(L) + Outstanding(L) + L.charged + L.retired
    BY Room DEF Sound, Outstanding, NoLease
  <1>3. Wrap(L.retired + Wrap(Remaining(L))) = e
    BY <1>2 DEF Wrap
  <1>4. M = [L EXCEPT !.retired = e, !.remaining = h]
    BY <1>1, <1>3 DEF Retired, LedgerRecord
  <1>5. /\ h \in [Accounts -> 0..MaxInt] /\ h \in [Accounts -> Int]
        /\ e \in Nat /\ e = L.retired + Remaining(L)
    BY <1>2
  <1>6. Sums(h)[MaxOptions] = 0
    BY <1>5, SumsRoot
  <1> HIDE DEF M, h, e
  <1>7. /\ M \in LedgerRecord /\ M.remaining = h /\ M.lease = L.lease
        /\ M.parent = L.parent /\ M.minted = L.minted
        /\ M.charged = L.charged /\ M.retired = e /\ M.ok = L.ok
    <2>1. e \in Int /\ h \in [Accounts -> Int]
      BY <1>5
    <2> QED BY <1>1, <1>4, <2>1 DEF LedgerRecord
  <1>8. Balanced(M)
    <2>1. Remaining(M) = 0 /\ Outstanding(M) = 0
      BY <1>2, <1>6, <1>7 DEF Remaining, Outstanding
    <2> QED BY <1>2, <1>5, <1>7, <2>1 DEF Balanced
  <1>9. Sound(M)
    BY <1>5, <1>7, <1>8 DEF Sound
  <1> QED BY <1>7, <1>9 DEF M
\* A new Task has its budget in the root.
LEMMA NewLedgerSound ==
    ASSUME NEW n \in 1..MaxInt
    PROVE  Sound(NewLedger(n)) /\ NewLedger(n).lease = NoLease
  <1> DEFINE M == NewLedger(n)
             h == [a \in Accounts |-> IF a = Root THEN n ELSE 0]
             q == [o \in Options |-> Root]
  <1>1. /\ M.remaining = h /\ M.parent = q /\ M.lease = NoLease
        /\ M.minted = n /\ M.charged = 0 /\ M.retired = 0 /\ M.ok = TRUE
    BY DEF NewLedger
  <1>2. h \in [Accounts -> 0..MaxInt] /\ h \in [Accounts -> Int]
    OBVIOUS
  <1>3. Descends(q)
    BY DEF Descends
  <1>4. NoLease \in [anchor: Accounts, amount: Int] /\ NoLease.amount = 0
    BY DEF NoLease
  <1>5. M \in LedgerRecord
    <2>1. q \in [Options -> Accounts]
      BY <1>3 DEF Descends
    <2>2. M = [remaining |-> h, parent |-> q, lease |-> NoLease,
               minted |-> n, charged |-> 0, retired |-> 0, ok |-> TRUE]
      BY DEF NewLedger
    <2> HIDE DEF M, h, q
    <2> QED BY <1>2, <1>4, <2>1, <2>2 DEF LedgerRecord
  <1>6. Sums(h)[MaxOptions] = n
    BY <1>2, SumsRoot
  <1> HIDE DEF M, h, q
  <1>7. Balanced(M)
    BY <1>1, <1>4, <1>6 DEF Balanced, Remaining, Outstanding
  <1> QED BY <1>1, <1>2, <1>3, <1>5, <1>7 DEF Sound, M
\* New Options hang below an older account.
LEMMA AdoptSound ==
    ASSUME NEW L, Sound(L), NEW new, NEW p \in Accounts,
           \A o \in Options : Contains(new, o) => p < o
    PROVE  /\ Sound(Adopt(L, new, p))
           /\ Adopt(L, new, p).remaining = L.remaining
           /\ Adopt(L, new, p).lease = L.lease
           /\ \A o \in Options : Adopt(L, new, p).parent[o] =
                 IF Contains(new, o) THEN p ELSE L.parent[o]
  <1> DEFINE M == Adopt(L, new, p)
             q == [o \in Options |-> IF Contains(new, o) THEN p
                                     ELSE L.parent[o]]
  <1>1. L \in LedgerRecord
    BY DEF Sound
  <1>2. M = [L EXCEPT !.parent = q]
    BY DEF Adopt
  <1>3. Descends(q)
    BY DEF Sound, Descends
  <1>4. \A o \in Options : q[o] = IF Contains(new, o) THEN p ELSE L.parent[o]
    OBVIOUS
  <1> HIDE DEF M, q
  <1>5. /\ M \in LedgerRecord /\ M.remaining = L.remaining
        /\ M.lease = L.lease /\ M.parent = q /\ M.minted = L.minted
        /\ M.charged = L.charged /\ M.retired = L.retired /\ M.ok = L.ok
    BY <1>1, <1>2, <1>3 DEF LedgerRecord, Descends
  <1>6. Sound(M)
    BY <1>3, <1>5 DEF Sound, Balanced, Remaining, Outstanding
  <1> QED BY <1>4, <1>5, <1>6 DEF M

-----------------------------------------------------------------------------
(* Transfers one after the other.                                          *)

\* The ledgers after each of the first n transfers.
MovesTo(L, from, to, amounts, n, g) ==
    g \in [0..n -> LedgerRecord] /\ \A k \in 0..n :
        g[k] = IF k = 0 THEN L ELSE Move(g[k - 1], from[k], to[k], amounts[k])
\* What is moved, from where and to where.
Transfers(from, to, amounts) ==
    /\ Len(amounts) \in Nat
    /\ \A i \in 1..Len(amounts) :
          from[i] \in Accounts /\ to[i] \in Accounts /\ amounts[i] \in Int
\* They exist.
LEMMA MovesExist ==
    ASSUME NEW L \in LedgerRecord, NEW from, NEW to, NEW amounts,
           Transfers(from, to, amounts), NEW n \in 0..Len(amounts)
    PROVE  \E g : MovesTo(L, from, to, amounts, n, g)
  <1> DEFINE N == Len(amounts)
             Bad == {k \in 0..N : ~ \E g : MovesTo(L, from, to, amounts, k, g)}
  <1>0. /\ N \in Nat
        /\ \A i \in 1..N : /\ from[i] \in Accounts /\ to[i] \in Accounts
                           /\ amounts[i] \in Int
    BY DEF Transfers
  <1> HIDE DEF N
  <1> SUFFICES ASSUME Bad # {} PROVE FALSE
    BY DEF N
  <1>1. PICK k \in Bad : \A y \in Bad : k <= y
    <2>1. Bad \in SUBSET Nat
      BY <1>0
    <2> HIDE DEF Bad
    <2> QED BY <2>1, Least
  <1>2. CASE k = 0
    <2>1. MovesTo(L, from, to, amounts, 0, [i \in 0..0 |-> L])
      <3> DEFINE g == [i \in 0..0 |-> L]
      <3>1. g \in [0..0 -> LedgerRecord] /\ \A i \in 0..0 : i = 0 /\ g[i] = L
        OBVIOUS
      <3> HIDE DEF g
      <3>2. MovesTo(L, from, to, amounts, 0, g)
        BY <3>1 DEF MovesTo
      <3> QED BY <3>2 DEF g
    <2> QED BY <1>1, <1>2, <2>1
  <1>3. CASE k # 0
    <2>1. k - 1 \in 0..N /\ k \in 1..N /\ k - 1 \notin Bad
      <3>1. k \in 0..N /\ \A y \in Bad : k <= y
        BY <1>1
      <3>2. k - 1 \in 0..N /\ k \in 1..N /\ ~ (k <= k - 1)
        BY <1>0, <1>3, <3>1
      <3> HIDE DEF Bad
      <3> QED BY <3>1, <3>2
    <2>2. PICK g : MovesTo(L, from, to, amounts, k - 1, g)
      BY <2>1
    <2> DEFINE e == Move(g[k - 1], from[k], to[k], amounts[k])
               h == [i \in 0..k |-> IF i < k THEN g[i] ELSE e]
    <2>3. \A i \in 0..(k - 1) : g[i] \in LedgerRecord
      BY <2>2 DEF MovesTo
    <2>4. e \in LedgerRecord
      <3>1. g[k - 1] \in LedgerRecord
        BY <1>0, <2>1, <2>3
      <3> QED BY <1>0, <2>1, <3>1, MoveWrites
    <2>5. h \in [0..k -> LedgerRecord]
      <3>1. ASSUME NEW i \in 0..k, i < k PROVE g[i] \in LedgerRecord
        BY <1>0, <2>1, <2>3, <3>1
      <3> HIDE DEF e
      <3> QED BY <2>4, <3>1
    <2>6. ASSUME NEW i \in 0..k
          PROVE  h[i] = IF i = 0 THEN L
                        ELSE Move(h[i - 1], from[i], to[i], amounts[i])
      <3>0. k \in Nat /\ i \in Nat
        BY <1>0, <2>1
      <3>1. CASE i = k
        <4>1. h[k - 1] = g[k - 1] /\ h[k] = e
          BY <1>0, <2>1
        <4> HIDE DEF h
        <4> QED BY <1>3, <3>1, <4>1
      <3>2. CASE i # k
        <4>1. i \in 0..(k - 1) /\ h[i] = g[i]
          BY <3>0, <3>2
        <4>2. i # 0 => h[i - 1] = g[i - 1]
          BY <3>0, <3>2
        <4>3. g[i] = IF i = 0 THEN L
                     ELSE Move(g[i - 1], from[i], to[i], amounts[i])
          BY <2>2, <4>1 DEF MovesTo
        <4> HIDE DEF h
        <4> QED BY <4>1, <4>2, <4>3
      <3> QED BY <3>1, <3>2
    <2> HIDE DEF h
    <2>7. MovesTo(L, from, to, amounts, k, h)
      BY <2>5, <2>6 DEF MovesTo
    <2> QED BY <1>1, <2>7
  <1> QED BY <1>2, <1>3
\* Several transfers are one, if none of them is refused.
LEMMA MoveEachTransfers ==
    ASSUME NEW L, Sound(L), NEW from, NEW to, NEW amounts,
           Transfers(from, to, amounts), MoveEach(L, from, to, amounts).ok
    PROVE  Transfer(L, MoveEach(L, from, to, amounts))
  <1> DEFINE N == Len(amounts)
             D(s) == [i \in 0..N |->
                        IF i = 0 THEN L
                        ELSE Move(s[i - 1], from[i], to[i], amounts[i])]
             moved == CHOOSE s : s = D(s)
  <1>0. /\ N \in Nat /\ L \in LedgerRecord /\ L.remaining[Root] \in Int
        /\ \A i \in 1..N : /\ from[i] \in Accounts /\ to[i] \in Accounts
                           /\ amounts[i] \in Int
    BY DEF Transfers, Sound
  <1>1. MoveEach(L, from, to, amounts) = moved[N]
    BY DEF MoveEach
  <1>2. PICK g : MovesTo(L, from, to, amounts, N, g)
    BY <1>0, MovesExist
  <1>3. g = D(g)
    BY <1>2 DEF MovesTo
  <1>4. moved = D(moved)
    BY <1>3
  <1> HIDE DEF moved, N
  <1> DEFINE Good(M) == M \in LedgerRecord /\ (M.ok => Transfer(L, M))
             Bad == {k \in 0..N : ~Good(moved[k])}
  <1>5. Bad = {}
    <2> SUFFICES ASSUME Bad # {} PROVE FALSE
      OBVIOUS
    <2>1. PICK k \in Bad : \A y \in Bad : k <= y
      <3>1. Bad \in SUBSET Nat
        BY <1>0
      <3> HIDE DEF Bad
      <3> QED BY <3>1, Least
    <2>2. CASE k = 0
      <3>1. moved[0] = L
        BY <1>0, <1>4
      <3>2. Transfer(L, L)
        BY TransferNothing
      <3> QED BY <1>0, <2>1, <2>2, <3>1, <3>2
    <2>3. CASE k # 0
      <3>1. k - 1 \in 0..N /\ k \in 0..N /\ k \in 1..N /\ k - 1 \notin Bad
        BY <1>0, <2>1, <2>3
      <3> DEFINE P == moved[k - 1]
                 M == Move(P, from[k], to[k], amounts[k])
      <3>2. moved[k] = M
        BY <1>4, <2>3, <3>1
      <3>3. Good(P)
        BY <3>1
      <3> HIDE DEF P
      <3>4. M \in LedgerRecord /\ (M.ok => P.ok)
        BY <1>0, <3>1, <3>3, MoveWrites DEF Moved
      <3>5. M.ok => Transfer(L, M)
        <4> SUFFICES ASSUME M.ok PROVE Transfer(L, M)
          OBVIOUS
        <4>1. Transfer(L, P)
          BY <3>3, <3>4
        <4>2. Sound(P)
          BY <4>1 DEF Transfer
        <4>3. Transfer(P, M)
          BY <1>0, <3>1, <4>2, MoveTransfers
        <4> HIDE DEF M
        <4> QED BY <1>0, <4>1, <4>3, TransfersCompose
      <3> HIDE DEF M
      <3>6. Good(moved[k])
        BY <3>2, <3>4, <3>5
      <3> QED BY <2>1, <3>6
    <2> QED BY <2>2, <2>3
  <1>6. N \in 0..N
    BY <1>0
  <1>7. Good(moved[N])
    BY <1>5, <1>6
  <1> QED BY <1>1, <1>7

-----------------------------------------------------------------------------
(* Allocation.                                                             *)

\* One step of Allocate, which has filled the deficit of older Options by g.
Filled(L, g, o, m) ==
    LET p == L.parent[o]
    IN  Move(IF L.remaining[p] < m /\ p # Root
             THEN g[p][m - L.remaining[p]] ELSE L, p, o, m)
\* What Allocate gives the Options up to n.
FillTo(L, n, g) ==
    g \in [1..n -> [0..MaxInt -> LedgerRecord]] /\
    \A o \in 1..n, m \in 0..MaxInt : g[o][m] = Filled(L, g, o, m)
\* A deficit is an amount.
LEMMA Deficit ==
    ASSUME NEW L, Sound(L), NEW o \in Options, NEW m \in 0..MaxInt
    PROVE  /\ L.parent[o] \in Accounts /\ L.parent[o] < o
           /\ L.remaining[L.parent[o]] < m =>
                 m - L.remaining[L.parent[o]] \in 0..MaxInt
           /\ L.parent[o] # Root => L.parent[o] \in 1..(o - 1)
  <1>1. L.parent[o] \in Accounts /\ L.parent[o] < o
    BY DEF Sound, Descends
  <1>2. L.remaining[L.parent[o]] \in 0..MaxInt
    BY <1>1 DEF Sound
  <1> QED BY <1>1, <1>2
\* They exist.
LEMMA FillExists ==
    ASSUME NEW L, Sound(L), NEW n \in Accounts
    PROVE  \E g : FillTo(L, n, g)
  <1> DEFINE Bad == {k \in Accounts : ~ \E g : FillTo(L, k, g)}
             A == 0..MaxInt
  <1>0. L \in LedgerRecord
    BY DEF Sound
  <1> SUFFICES ASSUME Bad # {} PROVE FALSE
    OBVIOUS
  <1>1. PICK k \in Bad : \A y \in Bad : k <= y
    <2>1. Bad \in SUBSET Nat
      OBVIOUS
    <2> HIDE DEF Bad
    <2> QED BY <2>1, Least
  <1>2. CASE k = 0
    <2> DEFINE h == [i \in 1..0 |-> [m \in A |-> L]]
    <2>1. 1..0 = {}
      OBVIOUS
    <2>2. FillTo(L, 0, h)
      BY <2>1 DEF FillTo
    <2> QED BY <1>1, <1>2, <2>2
  <1>3. CASE k # 0
    <2>1. k - 1 \in Accounts /\ k - 1 \notin Bad /\ k \in Options
      BY <1>1, <1>3
    <2>2. PICK g : FillTo(L, k - 1, g)
      BY <2>1
    <2> DEFINE e == [m \in A |-> Filled(L, g, k, m)]
               h == [i \in 1..k |-> IF i < k THEN g[i] ELSE e]
    <2>3. \A i \in 1..(k - 1) : g[i] \in [A -> LedgerRecord]
      BY <2>2 DEF FillTo
    <2>4. e \in [A -> LedgerRecord]
      <3> SUFFICES ASSUME NEW m \in A PROVE Filled(L, g, k, m) \in LedgerRecord
        OBVIOUS
      <3> DEFINE p == L.parent[k]
                 M == IF L.remaining[p] < m /\ p # Root
                      THEN g[p][m - L.remaining[p]] ELSE L
      <3>1. /\ p \in Accounts
            /\ L.remaining[p] < m => m - L.remaining[p] \in A
            /\ p # Root => p \in 1..(k - 1)
        BY <2>1, Deficit
      <3>2. M \in LedgerRecord
        BY <1>0, <2>3, <3>1
      <3>3. Filled(L, g, k, m) = Move(M, p, k, m)
        BY DEF Filled
      <3>4. k \in Accounts /\ m \in Int
        BY <2>1
      <3> HIDE DEF M, p
      <3> QED BY <3>1, <3>2, <3>3, <3>4, MoveWrites
    <2> HIDE DEF e
    <2>5. h \in [1..k -> [A -> LedgerRecord]]
      <3>1. ASSUME NEW i \in 1..k, i < k PROVE g[i] \in [A -> LedgerRecord]
        BY <2>1, <2>3, <3>1
      <3> QED BY <2>4, <3>1
    <2>6. ASSUME NEW i \in 1..(k - 1) PROVE h[i] = g[i]
      BY <2>1
    <2>7. h[k] = e
      BY <2>1
    <2> HIDE DEF h
    <2>8. ASSUME NEW i \in 1..k, NEW m \in A
          PROVE  /\ Filled(L, h, i, m) = Filled(L, g, i, m)
      <3>1. i \in Options /\ (L.parent[i] # Root => L.parent[i] \in 1..(i - 1))
        BY <2>1, Deficit
      <3>2. L.parent[i] # Root => L.parent[i] \in 1..(k - 1)
        BY <2>1, <3>1
      <3> QED BY <2>6, <3>2 DEF Filled
    <2>9. ASSUME NEW i \in 1..k, NEW m \in A
          PROVE  h[i][m] = Filled(L, h, i, m)
      <3>1. CASE i = k
        <4>1. e[m] = Filled(L, g, k, m)
          BY DEF e
        <4> QED BY <2>7, <2>8, <3>1, <4>1
      <3>2. CASE i # k
        <4>1. i \in 1..(k - 1)
          BY <2>1, <3>2
        <4>2. g[i][m] = Filled(L, g, i, m)
          BY <2>2, <4>1 DEF FillTo
        <4> QED BY <2>6, <2>8, <4>1, <4>2
      <3> QED BY <3>1, <3>2
    <2>10. FillTo(L, k, h)
      BY <2>5, <2>9 DEF FillTo
    <2> QED BY <1>1, <2>10
  <1> QED BY <1>2, <1>3
\* Allocate fills the deficit of the parent, then moves from the parent.
LEMMA AllocateDef ==
    ASSUME NEW L, Sound(L), NEW o \in Options, NEW m \in 0..MaxInt
    PROVE  LET p == L.parent[o] IN
           /\ Allocate(L, o, m) \in LedgerRecord
           /\ Allocate(L, o, m) =
                 Move(IF L.remaining[p] < m /\ p # Root
                      THEN Allocate(L, p, m - L.remaining[p]) ELSE L, p, o, m)
  <1> DEFINE A == 0..MaxInt
             D(s) == [q \in Options |-> [n \in A |->
                        LET p == L.parent[q]
                            filled == IF L.remaining[p] < n /\ p # Root
                                      THEN s[p][n - L.remaining[p]]
                                      ELSE L
                        IN  Move(filled, p, q, n)]]
             fill == CHOOSE s : s = D(s)
  <1>1. PICK g : FillTo(L, MaxOptions, g)
    BY FillExists
  <1>2. D(g) = [q \in Options |-> [n \in A |-> Filled(L, g, q, n)]]
    BY DEF Filled
  <1>3. g = D(g)
    <2>1. /\ g \in [Options -> [A -> LedgerRecord]]
          /\ \A q \in Options, n \in A : g[q][n] = Filled(L, g, q, n)
      BY <1>1 DEF FillTo
    <2>2. ASSUME NEW q \in Options
          PROVE  g[q] = [n \in A |-> Filled(L, g, q, n)]
      BY <2>1
    <2>3. g = [q \in Options |-> [n \in A |-> Filled(L, g, q, n)]]
      BY <2>1, <2>2
    <2> QED BY <1>2, <2>3
  <1>4. fill = D(fill)
    <2> HIDE DEF D
    <2> QED BY <1>3
  <1>5. \A q \in Options, n \in A : Allocate(L, q, n) = fill[q][n]
    BY DEF Allocate
  <1> HIDE DEF fill
  <1>6. ASSUME NEW q \in Options, NEW n \in A
        PROVE  fill[q][n] = Filled(L, fill, q, n)
    <2>1. D(fill)[q] = [r \in A |-> Filled(L, fill, q, r)]
      BY DEF Filled
    <2> HIDE DEF D
    <2> QED BY <1>4, <2>1
  <1> HIDE DEF D
  <1> DEFINE Bad == {k \in Options : ~ \A n \in A : fill[k][n] \in LedgerRecord}
  <1>7. Bad = {}
    <2> SUFFICES ASSUME Bad # {} PROVE FALSE
      OBVIOUS
    <2>1. PICK k \in Bad : \A y \in Bad : k <= y
      <3>1. Bad \in SUBSET Nat
        OBVIOUS
      <3> HIDE DEF Bad
      <3> QED BY <3>1, Least
    <2>2. k \in Options
      OBVIOUS
    <2>3. ASSUME NEW n \in A PROVE fill[k][n] \in LedgerRecord
      <3> DEFINE p == L.parent[k]
                 M == IF L.remaining[p] < n /\ p # Root
                      THEN fill[p][n - L.remaining[p]] ELSE L
      <3>1. /\ p \in Accounts /\ p < k
            /\ L.remaining[p] < n => n - L.remaining[p] \in A
        BY <2>2, Deficit
      <3>2. p # Root => p \in Options /\ p \notin Bad
        <4>1. ~ (k <= p)
          BY <2>2, <3>1
        <4>2. p \notin Bad
          BY <2>1, <4>1
        <4> QED BY <3>1, <4>2
      <3>3. M \in LedgerRecord
        <4>1. L \in LedgerRecord
          BY DEF Sound
        <4> QED BY <3>1, <3>2, <4>1
      <3>4. fill[k][n] = Move(M, p, k, n)
        BY <1>6, <2>2 DEF Filled
      <3>5. k \in Accounts /\ n \in Int
        BY <2>2
      <3> HIDE DEF M, p
      <3> QED BY <3>1, <3>3, <3>4, <3>5, MoveWrites
    <2> QED BY <2>1, <2>3
  <1>8. Allocate(L, o, m) \in LedgerRecord
    BY <1>5, <1>7
  <1> DEFINE p == L.parent[o]
  <1>9. /\ p \in Accounts
        /\ L.remaining[p] < m => m - L.remaining[p] \in A
    BY Deficit
  <1>10. L.remaining[p] < m /\ p # Root =>
            fill[p][m - L.remaining[p]] = Allocate(L, p, m - L.remaining[p])
    BY <1>5, <1>9
  <1>11. Allocate(L, o, m) = Filled(L, fill, o, m)
    BY <1>5, <1>6
  <1>12. Filled(L, fill, o, m) =
            Move(IF L.remaining[p] < m /\ p # Root
                 THEN Allocate(L, p, m - L.remaining[p]) ELSE L, p, o, m)
    BY <1>10 DEF Filled
  <1> QED BY <1>8, <1>11, <1>12
\* An allocation that is not refused is a transfer.
LEMMA AllocateTransfers ==
    ASSUME NEW L, Sound(L), NEW o \in Options, NEW m \in 0..MaxInt,
           Allocate(L, o, m).ok
    PROVE  Transfer(L, Allocate(L, o, m))
  <1> DEFINE A == 0..MaxInt
             Good(k) == \A n \in A : Allocate(L, k, n).ok =>
                                        Transfer(L, Allocate(L, k, n))
             Bad == {k \in Options : ~Good(k)}
  <1> SUFFICES ASSUME Bad # {} PROVE FALSE
    OBVIOUS
  <1>1. PICK k \in Bad : \A y \in Bad : k <= y
    <2>1. Bad \in SUBSET Nat
      OBVIOUS
    <2> HIDE DEF Bad
    <2> QED BY <2>1, Least
  <1>2. ASSUME NEW n \in A, Allocate(L, k, n).ok
        PROVE  Transfer(L, Allocate(L, k, n))
    <2> DEFINE p == L.parent[k]
               M == IF L.remaining[p] < n /\ p # Root
                    THEN Allocate(L, p, n - L.remaining[p]) ELSE L
               N == Move(M, p, k, n)
    <2>1. /\ k \in Options /\ p \in Accounts /\ p < k
          /\ L.remaining[p] < n => n - L.remaining[p] \in A
      BY Deficit
    <2>2. p # Root => p \in Options /\ Good(p)
      <3>1. ~ (k <= p)
        BY <2>1
      <3>2. p \notin Bad
        BY <1>1, <3>1
      <3> QED BY <2>1, <3>2
    <2>3. Allocate(L, k, n) = N
      BY <2>1, AllocateDef
    <2>4. M \in LedgerRecord /\ (M.ok => Transfer(L, M))
      <3>1. CASE L.remaining[p] < n /\ p # Root
        <4> DEFINE r == n - L.remaining[p]
        <4>1. r \in A /\ p \in Options /\ Good(p)
          BY <2>1, <2>2, <3>1
        <4>2. M = Allocate(L, p, r)
          BY <3>1
        <4> HIDE DEF r, p, M
        <4> QED BY <4>1, <4>2, AllocateDef
      <3>2. CASE ~ (L.remaining[p] < n /\ p # Root)
        <4>1. M = L /\ L \in LedgerRecord
          BY <3>2 DEF Sound
        <4> HIDE DEF M
        <4> QED BY <4>1, TransferNothing
      <3> QED BY <3>1, <3>2
    <2>5. k \in Accounts /\ n \in Int /\ L.remaining[Root] \in Int
      BY <2>1 DEF Sound
    <2>6. N.ok
      BY <1>2, <2>3
    <2> HIDE DEF p, M
    <2>7. M.ok
      BY <2>1, <2>4, <2>5, <2>6, MoveWrites DEF Moved
    <2>8. Transfer(L, M) /\ Sound(M)
      BY <2>4, <2>7 DEF Transfer
    <2>9. Transfer(M, N)
      BY <2>1, <2>5, <2>6, <2>8, MoveTransfers
    <2> HIDE DEF N
    <2>10. Transfer(L, N)
      BY <2>5, <2>8, <2>9, TransfersCompose
    <2> QED BY <2>3, <2>10
  <1> QED BY <1>1, <1>2

-----------------------------------------------------------------------------
(* Allocation draws on the nearest ancestors.                              *)

\* The greater of two numbers.
LEMMA MaxOfTwo ==
    ASSUME NEW a \in Int, NEW b \in Int
    PROVE  Max({a, b}) = IF a >= b THEN a ELSE b
  <1> DEFINE m == IF a >= b THEN a ELSE b
  <1>1. m \in {a, b} /\ \A y \in {a, b} : m >= y
    OBVIOUS
  <1>2. \A c \in {a, b} : (\A y \in {a, b} : c >= y) => c = m
    OBVIOUS
  <1> HIDE DEF m
  <1>3. Max({a, b}) = m
    BY <1>1, <1>2 DEF Max
  <1> QED BY <1>3 DEF m
\* What an account can give is an amount.
LEMMA AvailableDef ==
    ASSUME NEW L, Sound(L), NEW a \in Accounts
    PROVE  /\ Available(L, a) \in Nat
           /\ a # Root => Available(L, a) = L.remaining[a]
           /\ \A n \in Nat \ {0} :
                 Available(L, Root) >= n <=>
                    L.remaining[Root] - n >= MinRootAfterTransferMS
  <1> DEFINE r == L.remaining[Root] - MinRootAfterTransferMS
  <1>1. L.remaining[a] \in Nat /\ L.remaining[Root] \in Nat
    BY DEF Sound
  <1>2. r \in Int /\ MinRootAfterTransferMS \in Nat
    BY <1>1
  <1>3. Available(L, Root) = IF 0 >= r THEN 0 ELSE r
    <2> HIDE DEF r
    <2>1. Max({0, r}) = IF 0 >= r THEN 0 ELSE r
      BY <1>2, MaxOfTwo
    <2> QED BY <2>1 DEF Available, r
  <1>4. a # Root => Available(L, a) = L.remaining[a]
    BY DEF Available
  <1>5. Available(L, Root) \in Nat
    BY <1>2, <1>3
  <1>6. ASSUME NEW n \in Nat \ {0}
        PROVE  Available(L, Root) >= n <=>
                  L.remaining[Root] - n >= MinRootAfterTransferMS
    BY <1>1, <1>2, <1>3
  <1> QED BY <1>1, <1>4, <1>5, <1>6
\* Accounts give nothing, or one more gives what it has.
LEMMA GivenDef ==
    ASSUME NEW L, Sound(L), NEW S \in SUBSET Accounts
    PROVE  /\ Given(L, S) \in Nat /\ Given(L, {}) = 0
           /\ \A p \in Accounts : p \notin S =>
                 Given(L, S \cup {p}) = Given(L, S) + Available(L, p)
  <1> DEFINE F(T) == [a \in Accounts |-> IF a \in T THEN Available(L, a) ELSE 0]
  <1>1. \A T : F(T) \in [Accounts -> Nat] /\ F(T) \in [Accounts -> Int]
    BY AvailableDef
  <1>2. \A T : Given(L, T) = Sums(F(T))[MaxOptions]
    BY DEF Given
  <1>3. Given(L, S) \in Nat
    <2> DEFINE f == F(S)
    <2>1. f \in [Accounts -> Nat] /\ 0 \in Accounts
      BY <1>1
    <2> HIDE DEF f
    <2>2. Sums(f)[MaxOptions] \in Nat
      BY <2>1, SumsBound
    <2> QED BY <1>2, <2>2 DEF f
  <1>4. Given(L, {}) = 0
    <2> DEFINE f == F({})
    <2>1. f = [a \in Accounts |-> IF a = Root THEN 0 ELSE 0]
      OBVIOUS
    <2>2. f \in [Accounts -> Int]
      BY <1>1
    <2> HIDE DEF f
    <2>3. Sums(f)[MaxOptions] = 0
      BY <2>1, <2>2, SumsRoot
    <2> QED BY <1>2, <2>3 DEF f
  <1>5. ASSUME NEW p \in Accounts, p \notin S
        PROVE  Given(L, S \cup {p}) = Given(L, S) + Available(L, p)
    <2> DEFINE f == F(S)
               g == F(S \cup {p})
               d == Available(L, p)
    <2>1. f \in [Accounts -> Int] /\ g \in [Accounts -> Int] /\ d \in Int
      BY <1>1, AvailableDef
    <2>2. \A a \in Accounts : g[a] = IF a = p THEN f[a] + d ELSE f[a]
      BY <1>5, <2>1
    <2> HIDE DEF f, g, d
    <2>3. Differ(f, g, p, d)
      BY <2>1, <2>2 DEF Differ
    <2>4. Sums(g)[MaxOptions] = Sums(f)[MaxOptions] + d
      BY <2>1, <2>3, SumsChange
    <2> QED BY <1>2, <2>4 DEF f, g, d
  <1> QED BY <1>3, <1>4, <1>5
\* Above an account are its parent and what is above that.
LEMMA AboveDef ==
    ASSUME NEW L, Descends(L.parent)
    PROVE  /\ Above(L, Root) = {}
           /\ \A a \in Accounts : Above(L, a) \in SUBSET (0..(a - 1))
           /\ \A o \in Options :
                 Above(L, o) = Above(L, L.parent[o]) \cup {L.parent[o]}
  <1>1. ASSUME NEW a \in Accounts PROVE Above(L, a) \in SUBSET (0..(a - 1))
    <2>1. ASSUME NEW b \in Above(L, a) PROVE b \in 0..(a - 1)
      <3>1. b # a /\ Contains(Chain(L, a), b)
        BY <2>1 DEF Above
      <3>2. b \in 0..a
        BY <3>1, ChainRange
      <3> QED BY <3>1, <3>2
    <2> QED BY <2>1
  <1>2. Above(L, Root) = {}
    <2>1. \A b \in Accounts : Contains(Chain(L, 0), b) <=> b = 0
      BY ChainMembers
    <2> QED BY <2>1 DEF Above
  <1>3. ASSUME NEW o \in Options
        PROVE  Above(L, o) = Above(L, L.parent[o]) \cup {L.parent[o]}
    <2> DEFINE p == L.parent[o]
    <2>1. p \in Accounts /\ p < o
      BY DEF Descends
    <2>2. \A b \in Accounts : Contains(Chain(L, o), b) <=>
             b = o \/ Contains(Chain(L, p), b)
      BY ChainMembers
    <2> HIDE DEF p
    <2>3. Contains(Chain(L, p), p) /\ ~Contains(Chain(L, p), o)
      <3>1. \A c : Contains(Chain(L, p), c) => c \in 0..p
        BY <2>1, ChainRange
      <3>2. o \notin 0..p
        BY <2>1
      <3> QED BY <2>1, <3>1, <3>2, ChainRange
    <2>4. Above(L, o) = Above(L, p) \cup {p}
      BY <2>1, <2>2, <2>3 DEF Above
    <2> QED BY <2>4 DEF p
  <1> QED BY <1>1, <1>2, <1>3

\* The ancestors of to between it and a.
Nearer(L, to, a) == {b \in Above(L, to) : a \in Above(L, b)}
\* Nothing is nearer than the parent, which is nearer than the others.
LEMMA NearerDef ==
    ASSUME NEW L, Descends(L.parent), NEW o \in Options
    PROVE  LET p == L.parent[o] IN
           /\ Nearer(L, o, p) = {}
           /\ \A a \in Above(L, p) :
                 /\ Nearer(L, o, a) = Nearer(L, p, a) \cup {p}
                 /\ p \notin Nearer(L, p, a)
  <1> DEFINE p == L.parent[o]
  <1>1. p \in Accounts
    BY DEF Descends
  <1>2. Above(L, o) = Above(L, p) \cup {p}
    BY AboveDef
  <1> HIDE DEF p
  <1>3. ASSUME NEW a \in Accounts 
        PROVE  \A b \in Above(L, a) : b < a /\ b \in Accounts
    <2>1. Above(L, a) \in SUBSET (0..(a - 1))
      BY AboveDef
    <2> QED BY <2>1
  <1>4. \A b \in Above(L, p) : p \notin Above(L, b)
    <2>1. ASSUME NEW b \in Above(L, p), p \in Above(L, b) PROVE FALSE
      <3>1. b < p /\ b \in Accounts
        BY <1>1, <1>3
      <3>2. p < b
        BY <1>3, <2>1, <3>1
      <3> QED BY <1>1, <3>1, <3>2
    <2> QED BY <2>1
  <1>5. p \notin Above(L, p)
    <2>1. p \in Above(L, p) => p < p
      BY <1>1, <1>3
    <2> QED BY <1>1, <2>1
  <1>6. Nearer(L, o, p) = {}
    BY <1>2, <1>4, <1>5 DEF Nearer
  <1>7. ASSUME NEW a \in Above(L, p)
        PROVE  /\ Nearer(L, o, a) = Nearer(L, p, a) \cup {p}
               /\ p \notin Nearer(L, p, a)
    BY <1>2, <1>5, <1>7 DEF Nearer
  <1> QED BY <1>6, <1>7 DEF p
\* What is taken from each.
LEMMA TakenDef ==
    ASSUME NEW L, Sound(L), NEW to \in Accounts, NEW n \in Nat,
           NEW a \in Accounts
    PROVE  LET left == n - Given(L, Nearer(L, to, a)) IN
           Taken(L, to, n, a) =
              IF left <= 0 THEN 0
              ELSE IF Available(L, a) <= left THEN Available(L, a) ELSE left
  <1> DEFINE g == Given(L, Nearer(L, to, a))
             left == n - g
             m == IF 0 >= left THEN 0 ELSE left
  <1>1. g \in Nat
    <2>1. Nearer(L, to, a) \in SUBSET Accounts
      BY DEF Nearer, Above
    <2> QED BY <2>1, GivenDef
  <1>2. Available(L, a) \in Nat
    BY AvailableDef
  <1>3. Taken(L, to, n, a) = Min({Available(L, a), Max({0, left})})
    BY DEF Taken, Nearer
  <1> HIDE DEF g
  <1>4. left \in Int
    BY <1>1
  <1> HIDE DEF left
  <1>5. Max({0, left}) = m
    BY <1>4, MaxOfTwo
  <1>6. m \in Int
    BY <1>4
  <1>7. Min({Available(L, a), m}) =
           IF Available(L, a) <= m THEN Available(L, a) ELSE m
    <2> HIDE DEF m
    <2> QED BY <1>2, <1>6, MinOfTwo
  <1>8. Taken(L, to, n, a) =
           IF left <= 0 THEN 0
           ELSE IF Available(L, a) <= left THEN Available(L, a) ELSE left
    BY <1>2, <1>3, <1>4, <1>5, <1>7
  <1> QED BY <1>8 DEF left, g
\* A transfer that nothing forbids.
LEMMA MoveAllowed ==
    ASSUME NEW L \in LedgerRecord, L.ok, NEW from \in Accounts,
           NEW to \in Accounts, from # to, NEW n \in Nat,
           from = Root /\ n > 0 =>
              L.remaining[Root] - n >= MinRootAfterTransferMS,
           L.remaining[from] >= n, L.remaining[to] >= 0,
           L.remaining[to] + n <= MaxInt
    PROVE  /\ Move(L, from, to, n).ok
           /\ Move(L, from, to, n) =
                 [L EXCEPT !.remaining =
                     [a \in Accounts |-> IF a = from THEN L.remaining[a] - n
                                         ELSE IF a = to THEN L.remaining[a] + n
                                         ELSE L.remaining[a]]]
  <1> DEFINE g == [L.remaining EXCEPT ![from] = @ - n, ![to] = @ + n]
             h == [a \in Accounts |-> IF a = from THEN L.remaining[a] - n
                                      ELSE IF a = to THEN L.remaining[a] + n
                                      ELSE L.remaining[a]]
  <1>1. L.remaining \in [Accounts -> Int]
    BY LedgerFields
  <1>2. Addable(L.remaining[to], n)
    <2>1. L.remaining[to] \in Int
      BY <1>1
    <2>2. n <= MaxInt - L.remaining[to]
      BY <2>1
    <2> QED BY <2>2 DEF Addable
  <1>3. ~(from = Root /\ n > 0
            /\ L.remaining[Root] - n < MinRootAfterTransferMS)
    BY <1>1
  <1>4. Move(L, from, to, n) = [L EXCEPT !.remaining = g]
    BY <1>2, <1>3 DEF Move
  <1>5. g = h
    BY <1>1
  <1> HIDE DEF g, h
  <1>6. [L EXCEPT !.remaining = h].ok = L.ok
    BY DEF LedgerRecord
  <1> QED BY <1>4, <1>5, <1>6 DEF h
\* The balances after drawing on the nearest ancestors.
Drawn(L, to, n) ==
    [a \in Accounts |->
        IF a = to THEN L.remaining[a] + n
        ELSE IF a \in Above(L, to) THEN L.remaining[a] - Taken(L, to, n, a)
        ELSE L.remaining[a]]
\* What Allocate promises of one Option.
Nearest(L, o) ==
    \A n \in 1..MaxInt :
        /\ Given(L, Above(L, o)) < n => ~Allocate(L, o, n).ok
        /\ Given(L, Above(L, o)) >= n =>
              /\ Allocate(L, o, n).ok
              /\ Allocate(L, o, n) = [L EXCEPT !.remaining = Drawn(L, o, n)]
\* The parent can pay all of it.
LEMMA ParentPays ==
    ASSUME NEW L, Sound(L), NEW k \in Options, NEW m \in 1..MaxInt,
           Available(L, L.parent[k]) >= m
    PROVE  /\ Given(L, Above(L, k)) >= m
           /\ Move(L, L.parent[k], k, m).ok
           /\ Move(L, L.parent[k], k, m) =
                 [L EXCEPT !.remaining = Drawn(L, k, m)]
  <1> DEFINE p == L.parent[k]
             h == [a \in Accounts |-> IF a = p THEN L.remaining[a] - m
                                      ELSE IF a = k THEN L.remaining[a] + m
                                      ELSE L.remaining[a]]
  <1>1. /\ p \in Accounts /\ p # k /\ p < k /\ L.ok /\ L \in LedgerRecord
        /\ k \in Accounts /\ Descends(L.parent) /\ m \in Nat /\ m > 0
        /\ m <= MaxInt /\ m \in Nat \ {0}
    <2>1. L.ok /\ L \in LedgerRecord /\ Descends(L.parent)
      BY DEF Sound
    <2>2. L.parent[k] \in Accounts /\ L.parent[k] < k
      BY <2>1 DEF Descends
    <2>3. k \in Nat /\ m \in Nat /\ m > 0 /\ m <= MaxInt /\ MaxInt \in Nat
      OBVIOUS
    <2>4. p \in Accounts /\ p < k /\ p # k
      BY <2>2, <2>3
    <2> HIDE DEF p
    <2> QED BY <2>1, <2>3, <2>4
  <1>2. /\ Above(L, k) = Above(L, p) \cup {p} /\ p \notin Above(L, p)
        /\ Above(L, p) \in SUBSET Accounts /\ k \notin Above(L, k)
    <2>1. Above(L, k) = Above(L, p) \cup {p}
      BY <1>1, AboveDef
    <2>2. Above(L, p) \in SUBSET (0..(p - 1))
      BY <1>1, AboveDef
    <2> HIDE DEF p
    <2> QED BY <1>1, <2>1, <2>2
  <1>3. /\ Nearer(L, k, p) = {}
        /\ \A a \in Above(L, p) : /\ Nearer(L, k, a) = Nearer(L, p, a) \cup {p}
                                  /\ p \notin Nearer(L, p, a)
    BY <1>1, NearerDef
  <1>4. Available(L, p) >= m
    OBVIOUS
  <1> HIDE DEF p
  <1>5. /\ \A a \in Accounts : L.remaining[a] \in Nat
        /\ L.remaining[p] + L.remaining[k] <= MaxInt
    <2>1. /\ \A a \in Accounts : L.remaining[a] \in Nat
          /\ L.remaining[p] + L.remaining[k] <= Remaining(L)
      BY <1>1, Room
    <2>2. /\ Remaining(L) \in Nat /\ Outstanding(L) \in Nat
          /\ L.minted = Remaining(L) + Outstanding(L) + L.charged + L.retired
          /\ L.minted \in Nat /\ L.minted <= MaxInt
      BY Room
    <2>3. L.charged \in Nat /\ L.retired \in Nat
      BY DEF Sound
    <2>4. Remaining(L) <= MaxInt
      BY <2>2, <2>3
    <2>5. L.remaining[p] \in Nat /\ L.remaining[k] \in Nat
      BY <1>1, <2>1
    <2> QED BY <2>1, <2>2, <2>4, <2>5
  <1>6. Available(L, p) \in Nat /\ (p # Root => Available(L, p) = L.remaining[p])
    BY <1>1, AvailableDef
  <1>7. /\ p = Root /\ m > 0 => L.remaining[Root] - m >= MinRootAfterTransferMS
        /\ L.remaining[p] >= m
    <2>1. CASE p = Root
      <3>1. L.remaining[Root] - m >= MinRootAfterTransferMS
        BY <1>1, <1>4, <2>1, AvailableDef
      <3>2. L.remaining[Root] \in Nat
        BY <1>5
      <3> QED BY <1>1, <2>1, <3>1, <3>2
    <2>2. CASE p # Root
      BY <1>4, <1>6, <2>2
    <2> QED BY <2>1, <2>2
  <1>8. Move(L, p, k, m).ok /\ Move(L, p, k, m) = [L EXCEPT !.remaining = h]
    <2>1. L.remaining[k] >= 0 /\ L.remaining[k] + m <= MaxInt
      BY <1>1, <1>5, <1>7
    <2> HIDE DEF h
    <2> QED BY <1>1, <1>7, <2>1, MoveAllowed DEF h
  <1>9. Taken(L, k, m, p) = m
    <2>1. Given(L, Nearer(L, k, p)) = 0
      BY <1>3, GivenDef
    <2>2. Taken(L, k, m, p) =
             IF m - 0 <= 0 THEN 0
             ELSE IF Available(L, p) <= m - 0 THEN Available(L, p) ELSE m - 0
      BY <1>1, <2>1, TakenDef
    <2> QED BY <1>1, <1>4, <1>6, <2>2
  <1>10. ASSUME NEW a \in Above(L, p) PROVE Taken(L, k, m, a) = 0 /\ a # p
    <2> DEFINE N == Nearer(L, p, a)
    <2>1. N \in SUBSET Accounts /\ p \notin N /\ Nearer(L, k, a) = N \cup {p}
      BY <1>3 DEF Nearer, Above
    <2> HIDE DEF N
    <2>2. /\ Given(L, N) \in Nat
          /\ Given(L, Nearer(L, k, a)) = Given(L, N) + Available(L, p)
      BY <1>1, <2>1, GivenDef
    <2>3. m - Given(L, Nearer(L, k, a)) <= 0
      BY <1>1, <1>4, <1>6, <2>2
    <2>4. a \in Accounts
      BY <1>2
    <2> QED BY <1>1, <1>2, <2>3, <2>4, TakenDef
  <1>11. Drawn(L, k, m) = h
    <2>1. ASSUME NEW a \in Accounts PROVE Drawn(L, k, m)[a] = h[a]
      <3>1. CASE a = k
        BY <1>1, <3>1 DEF Drawn
      <3>2. CASE a = p
        BY <1>1, <1>2, <1>9, <3>2 DEF Drawn
      <3>3. CASE a \in Above(L, p)
        <4>1. L.remaining[a] - 0 = L.remaining[a]
          BY <1>5
        <4> QED BY <1>2, <1>10, <3>3, <4>1 DEF Drawn
      <3>4. CASE a # k /\ a # p /\ a \notin Above(L, p)
        BY <1>2, <3>4 DEF Drawn
      <3> QED BY <3>1, <3>2, <3>3, <3>4
    <2> QED BY <2>1 DEF Drawn
  <1>12. Given(L, Above(L, k)) >= m
    <2>1. /\ Given(L, Above(L, p)) \in Nat
          /\ Given(L, Above(L, k)) = Given(L, Above(L, p)) + Available(L, p)
      BY <1>1, <1>2, GivenDef
    <2> QED BY <1>1, <1>4, <1>6, <2>1
  <1> QED BY <1>8, <1>11, <1>12 DEF p
\* The parent, an Option, has to be given what it lacks first.
LEMMA ParentLacks ==
    ASSUME NEW L, Sound(L), NEW k \in Options, NEW m \in 1..MaxInt,
           L.parent[k] # Root, L.remaining[L.parent[k]] < m,
           Nearest(L, L.parent[k])
    PROVE  LET F == Allocate(L, L.parent[k], m - L.remaining[L.parent[k]])
               M == Move(F, L.parent[k], k, m)
           IN  /\ Given(L, Above(L, k)) < m => ~M.ok
               /\ Given(L, Above(L, k)) >= m =>
                     M.ok /\ M = [L EXCEPT !.remaining = Drawn(L, k, m)]
  <1> DEFINE p == L.parent[k]
             r == L.remaining[p]
             d == m - r
             F == Allocate(L, p, d)
             M == Move(F, p, k, m)
  <1>1. /\ p \in Accounts /\ p # k /\ p < k /\ L.ok /\ L \in LedgerRecord
        /\ k \in Accounts /\ Descends(L.parent) /\ p # Root /\ p \in Options
        /\ m \in Nat /\ m > 0
    <2>1. /\ L.ok /\ L \in LedgerRecord /\ Descends(L.parent)
          /\ p \in Accounts /\ p < k
      BY DEF Sound, Descends
    <2>2. p # Root
      OBVIOUS
    <2> HIDE DEF p
    <2> QED BY <2>1, <2>2
  <1>2. /\ Above(L, k) = Above(L, p) \cup {p} /\ p \notin Above(L, p)
        /\ Above(L, p) \in SUBSET Accounts /\ k \notin Above(L, k)
    <2>1. Above(L, k) = Above(L, p) \cup {p}
      BY <1>1, AboveDef
    <2>2. Above(L, p) \in SUBSET (0..(p - 1))
      BY <1>1, AboveDef
    <2> HIDE DEF p
    <2> QED BY <1>1, <2>1, <2>2
  <1>3. /\ Nearer(L, k, p) = {}
        /\ \A a \in Above(L, p) : /\ Nearer(L, k, a) = Nearer(L, p, a) \cup {p}
                                  /\ p \notin Nearer(L, p, a)
    BY <1>1, NearerDef
  <1>4. Nearest(L, p) /\ r < m
    OBVIOUS
  <1> HIDE DEF p
  <1>5. \A a \in Accounts : L.remaining[a] \in Nat
    BY Room
  <1>6. /\ r \in Nat /\ Available(L, p) = r /\ d \in 1..MaxInt
        /\ d \in Nat /\ d \in 0..MaxInt /\ d + r = m
    <2>1. r \in Nat
      BY <1>1, <1>5
    <2>2. Available(L, p) = r
      BY <1>1, AvailableDef
    <2> HIDE DEF r
    <2> QED BY <1>1, <1>4, <2>1, <2>2
  <1>7. /\ Given(L, Above(L, p)) \in Nat
        /\ Given(L, Above(L, k)) = Given(L, Above(L, p)) + r
    BY <1>1, <1>2, <1>6, GivenDef
  <1>8. F \in LedgerRecord
    BY <1>1, <1>6, AllocateDef
  <1> HIDE DEF r, d
  <1>9. CASE Given(L, Above(L, k)) < m
    <2>1. Given(L, Above(L, p)) < d
      BY <1>6, <1>7, <1>9
    <2>2. ~F.ok
      BY <1>4, <1>6, <2>1 DEF Nearest
    <2> HIDE DEF F
    <2>3. ~M.ok
      BY <1>1, <1>8, <2>2, MoveRefused
    <2>4. ~(Given(L, Above(L, k)) >= m)
      BY <1>1, <1>6, <1>7, <1>9
    <2> QED BY <2>3, <2>4 DEF F, r, d, p
  <1>10. CASE Given(L, Above(L, k)) >= m
    <2> DEFINE f == Drawn(L, p, d)
               h == [a \in Accounts |-> IF a = p THEN F.remaining[a] - m
                                        ELSE IF a = k THEN F.remaining[a] + m
                                        ELSE F.remaining[a]]
    <2>1. Given(L, Above(L, p)) >= d
      BY <1>6, <1>7, <1>10
    <2>2. F.ok /\ F = [L EXCEPT !.remaining = f]
      BY <1>4, <1>6, <2>1 DEF Nearest
    <2>3. Sound(F)
      BY <1>1, <1>6, <2>2, AllocateTransfers DEF Transfer
    <2> HIDE DEF F
    <2>4. F.remaining = f
      <3> HIDE DEF f
      <3> QED BY <1>1, <2>2 DEF LedgerRecord
    <2>5. F.remaining[p] = m /\ F.remaining[k] = L.remaining[k]
      <3>1. f[p] = L.remaining[p] + d
        BY <1>1 DEF Drawn
      <3>2. f[k] = L.remaining[k]
        BY <1>1, <1>2 DEF Drawn
      <3> HIDE DEF f
      <3>3. L.remaining[p] = r
        BY DEF r
      <3> QED BY <1>6, <2>4, <3>1, <3>2, <3>3
    <2>6. F.remaining[k] \in Nat /\ F.remaining[k] + m <= MaxInt
      <3>1. /\ \A a \in Accounts : F.remaining[a] \in Nat
            /\ F.remaining[p] + F.remaining[k] <= Remaining(F)
        BY <1>1, <2>3, Room
      <3>2. /\ Remaining(F) \in Nat /\ Outstanding(F) \in Nat
            /\ F.minted = Remaining(F) + Outstanding(F) + F.charged + F.retired
            /\ F.minted \in Nat /\ F.minted <= MaxInt
        BY <2>3, Room
      <3>3. F.charged \in Nat /\ F.retired \in Nat
        BY <2>3 DEF Sound
      <3>4. Remaining(F) <= MaxInt
        BY <3>2, <3>3
      <3>5. F.remaining[k] \in Nat
        BY <1>1, <3>1
      <3> QED BY <1>1, <2>5, <3>1, <3>2, <3>4, <3>5
    <2>7. M.ok /\ M = [F EXCEPT !.remaining = h]
      <3>1. F.remaining[p] >= m /\ F.remaining[k] >= 0
        BY <1>1, <2>5, <2>6
      <3>2. /\ Move(F, p, k, m).ok
            /\ Move(F, p, k, m) =
                  [F EXCEPT !.remaining =
                      [a \in Accounts |-> IF a = p THEN F.remaining[a] - m
                                          ELSE IF a = k THEN F.remaining[a] + m
                                          ELSE F.remaining[a]]]
        <4>1. F.ok /\ p # 0 /\ p # k /\ p \in Accounts /\ k \in Accounts
          BY <1>1, <2>2
        <4> QED BY <1>1, <1>8, <2>6, <3>1, <4>1, MoveAllowed
      <3> QED BY <3>2
    <2>8. Taken(L, k, m, p) = r
      <3>1. Given(L, Nearer(L, k, p)) = 0
        BY <1>3, GivenDef
      <3>2. Taken(L, k, m, p) =
               IF m - 0 <= 0 THEN 0
               ELSE IF Available(L, p) <= m - 0 THEN Available(L, p) ELSE m - 0
        BY <1>1, <3>1, TakenDef
      <3> QED BY <1>1, <1>4, <1>6, <3>2
    <2>9. ASSUME NEW a \in Above(L, p)
          PROVE  Taken(L, k, m, a) = Taken(L, p, d, a) /\ a # p
      <3> DEFINE N == Nearer(L, p, a)
      <3>1. N \in SUBSET Accounts /\ p \notin N /\ Nearer(L, k, a) = N \cup {p}
        BY <1>3 DEF Nearer, Above
      <3>2. a \in Accounts /\ a # p
        BY <1>2
      <3>3. Taken(L, p, d, a) =
               IF d - Given(L, N) <= 0 THEN 0
               ELSE IF Available(L, a) <= d - Given(L, N) THEN Available(L, a)
               ELSE d - Given(L, N)
        BY <1>1, <1>6, <3>2, TakenDef
      <3>4. Taken(L, k, m, a) =
               IF m - Given(L, Nearer(L, k, a)) <= 0 THEN 0
               ELSE IF Available(L, a) <= m - Given(L, Nearer(L, k, a))
               THEN Available(L, a) ELSE m - Given(L, Nearer(L, k, a))
        BY <1>1, <3>2, TakenDef
      <3> HIDE DEF N
      <3>5. /\ Given(L, N) \in Nat
            /\ Given(L, Nearer(L, k, a)) = Given(L, N) + r
        BY <1>1, <1>6, <3>1, GivenDef
      <3>6. m - Given(L, Nearer(L, k, a)) = d - Given(L, N)
        BY <1>1, <1>6, <3>5
      <3> QED BY <3>2, <3>3, <3>4, <3>6
    <2>10. Drawn(L, k, m) = h
      <3>1. ASSUME NEW a \in Accounts PROVE Drawn(L, k, m)[a] = h[a]
        <4>1. CASE a = k
          BY <1>1, <2>5, <4>1 DEF Drawn
        <4>2. CASE a = p
          <5>1. Drawn(L, k, m)[p] = L.remaining[p] - r
            BY <1>1, <1>2, <2>8 DEF Drawn
          <5>2. h[p] = m - m
            BY <1>1, <2>5
          <5> QED BY <1>1, <1>6, <4>2, <5>1, <5>2 DEF r
        <4>3. CASE a \in Above(L, p)
          <5>1. a # k /\ a # p
            BY <1>2, <2>9, <4>3
          <5>2. f[a] = L.remaining[a] - Taken(L, p, d, a)
            BY <2>9, <4>3 DEF Drawn
          <5>3. Drawn(L, k, m)[a] = L.remaining[a] - Taken(L, k, m, a)
            BY <1>2, <4>3, <5>1 DEF Drawn
          <5> HIDE DEF f
          <5> QED BY <2>4, <2>9, <4>3, <5>1, <5>2, <5>3
        <4>4. CASE a # k /\ a # p /\ a \notin Above(L, p)
          <5>1. f[a] = L.remaining[a]
            BY <4>4 DEF Drawn
          <5>2. Drawn(L, k, m)[a] = L.remaining[a]
            BY <1>2, <4>4 DEF Drawn
          <5> HIDE DEF f
          <5> QED BY <2>4, <4>4, <5>1, <5>2
        <4> QED BY <4>1, <4>2, <4>3, <4>4
      <3> QED BY <3>1 DEF Drawn
    <2>11. [F EXCEPT !.remaining = h] = [L EXCEPT !.remaining = h]
      <3> HIDE DEF f, h
      <3> QED BY <1>1, <2>2 DEF LedgerRecord
    <2>12. ~(Given(L, Above(L, k)) < m)
      BY <1>1, <1>6, <1>7, <1>10
    <2> HIDE DEF h, M
    <2>13. M.ok /\ M = [L EXCEPT !.remaining = Drawn(L, k, m)]
      BY <2>7, <2>10, <2>11
    <2> QED BY <2>12, <2>13 DEF M, F, r, d, p
  <1>11. Given(L, Above(L, k)) < m \/ Given(L, Above(L, k)) >= m
    BY <1>1, <1>6, <1>7
  <1> QED BY <1>9, <1>10, <1>11
\* Allocation draws on the nearest ancestors, and is refused exactly when they
\* cannot pay together.
LEMMA AllocateNearest ==
    ASSUME NEW L, Sound(L), NEW o \in Options
    PROVE  Nearest(L, o)
  <1> DEFINE Bad == {k \in Options : ~Nearest(L, k)}
  <1> SUFFICES ASSUME Bad # {} PROVE FALSE
    OBVIOUS
  <1>1. PICK k \in Bad : \A y \in Bad : k <= y
    <2>1. Bad \in SUBSET Nat
      OBVIOUS
    <2> HIDE DEF Bad
    <2> QED BY <2>1, Least
  <1> DEFINE p == L.parent[k]
  <1>2. k \in Options /\ p \in Accounts /\ p < k /\ Descends(L.parent)
    BY DEF Sound, Descends
  <1>3. p # Root => Nearest(L, p)
    <2>1. ~ (k <= p)
      BY <1>2
    <2>2. p \notin Bad
      BY <1>1, <2>1
    <2> QED BY <1>2, <2>2
  <1> HIDE DEF p
  <1>4. ASSUME NEW m \in 1..MaxInt
        PROVE  /\ Given(L, Above(L, k)) < m => ~Allocate(L, k, m).ok
               /\ Given(L, Above(L, k)) >= m =>
                     /\ Allocate(L, k, m).ok
                     /\ Allocate(L, k, m) =
                           [L EXCEPT !.remaining = Drawn(L, k, m)]
    <2>1. /\ m \in 0..MaxInt /\ m \in Nat \ {0} /\ L.remaining[p] \in Nat
          /\ Available(L, p) \in Nat /\ L \in LedgerRecord
          /\ p # Root => Available(L, p) = L.remaining[p]
      <3>1. L.remaining[p] \in Nat /\ L \in LedgerRecord
        BY <1>2 DEF Sound
      <3>2. /\ Available(L, p) \in Nat
            /\ p # Root => Available(L, p) = L.remaining[p]
        BY <1>2, AvailableDef
      <3> QED BY <3>1, <3>2
    <2>2. Allocate(L, k, m) =
             Move(IF L.remaining[p] < m /\ p # Root
                  THEN Allocate(L, p, m - L.remaining[p]) ELSE L, p, k, m)
      BY <1>2, <2>1, AllocateDef DEF p
    <2>3. Given(L, Above(L, k)) \in Nat
      BY <1>2, GivenDef DEF Above
    <2>4. CASE p # Root /\ L.remaining[p] < m
      <3> DEFINE F == Allocate(L, p, m - L.remaining[p])
                 M == Move(F, p, k, m)
      <3>1. Allocate(L, k, m) = M
        BY <2>2, <2>4
      <3>2. /\ Given(L, Above(L, k)) < m => ~M.ok
            /\ Given(L, Above(L, k)) >= m =>
                  M.ok /\ M = [L EXCEPT !.remaining = Drawn(L, k, m)]
        BY <1>2, <1>3, <2>4, ParentLacks DEF p
      <3> HIDE DEF M
      <3> QED BY <3>1, <3>2
    <2>5. CASE ~(p # Root /\ L.remaining[p] < m) /\ Available(L, p) >= m
      <3>1. Allocate(L, k, m) = Move(L, p, k, m)
        BY <2>2, <2>5
      <3>2. /\ Given(L, Above(L, k)) >= m
            /\ Move(L, p, k, m).ok
            /\ Move(L, p, k, m) = [L EXCEPT !.remaining = Drawn(L, k, m)]
        BY <1>2, <2>5, ParentPays DEF p
      <3>3. ~(Given(L, Above(L, k)) < m)
        BY <2>1, <2>3, <3>2
      <3> QED BY <3>1, <3>2, <3>3
    <2>6. CASE p = Root /\ ~(Available(L, p) >= m)
      <3>1. Allocate(L, k, m) = Move(L, 0, k, m)
        BY <2>2, <2>6
      <3>2. Above(L, k) = {} \cup {0}
        BY <1>2, <2>6, AboveDef DEF p
      <3>3. Given(L, Above(L, k)) = Available(L, 0)
        <4>1. Given(L, {} \cup {0}) = Given(L, {}) + Available(L, 0)
          BY GivenDef
        <4>2. Given(L, {}) = 0
          BY GivenDef
        <4> QED BY <2>1, <2>6, <3>2, <4>1, <4>2
      <3>4. ~(L.remaining[0] - m >= MinRootAfterTransferMS)
        BY <1>2, <2>1, <2>6, AvailableDef
      <3>5. ~Move(L, 0, k, m).ok
        <4>1. /\ 0 \in Accounts /\ k \in Accounts /\ m \in Int /\ m > 0
          BY <1>2, <2>1
        <4>2. ~Moved(L, Move(L, 0, k, m), 0, k, m)
          BY <3>4, <4>1 DEF Moved
        <4> QED BY <2>1, <4>1, <4>2, MoveWrites
      <3> QED BY <2>1, <2>6, <3>1, <3>3, <3>5
    <2>7. p # Root /\ ~(L.remaining[p] < m) => Available(L, p) >= m
      BY <2>1
    <2> QED BY <2>4, <2>5, <2>6, <2>7
  <1>5. Nearest(L, k)
    BY <1>4 DEF Nearest
  <1> QED BY <1>1, <1>5

-----------------------------------------------------------------------------
(* New Options.                                                            *)

\* Options exist in the order of their numbers.
Numbered(O) ==
    \E n \in Accounts : \A o \in Options : O[o] = "NONE" <=> o > n
\* The next numbers are given to the new Options.
Fresh(O, new) ==
    \E c \in Accounts, m \in Nat :
        /\ c + m <= MaxOptions /\ Len(new) = m /\ DOMAIN new = 1..m
        /\ \A o \in Options : O[o] = "NONE" <=> o > c
        /\ \A i \in 1..m : new[i] = c + i
        /\ \A o : Contains(new, o) <=> \E i \in 1..m : o = c + i

\* NewIds names them.
LEMMA NewIdsFresh ==
    ASSUME NEW O, Numbered(O), NEW k \in Nat
    PROVE  Fresh(O, NewIds(O, k))
  <1> DEFINE c == Created(O)
             m == Min({k, MaxOptions - c})
             new == [i \in 1..m |-> c + i]
  <1>1. c \in Accounts /\ \A o \in Options : O[o] = "NONE" <=> o > c
    BY DEF Created, Numbered
  <1> HIDE DEF c
  <1>2. m \in Nat /\ c + m <= MaxOptions
    <2>1. k \in Int /\ MaxOptions - c \in Int /\ MaxOptions - c >= 0
      BY <1>1
    <2>2. m = IF k <= MaxOptions - c THEN k ELSE MaxOptions - c
      BY <2>1, MinOfTwo
    <2> QED BY <1>1, <2>1, <2>2
  <1> HIDE DEF m
  <1>3. Len(new) = m /\ DOMAIN new = 1..m
    BY <1>2
  <1>4. \A i \in 1..m : new[i] = c + i
    OBVIOUS
  <1> HIDE DEF new
  <1>5. \A o : Contains(new, o) <=> \E i \in 1..m : o = c + i
    BY <1>3, <1>4 DEF Contains
  <1>6. Fresh(O, new)
    BY <1>1, <1>2, <1>3, <1>4, <1>5 DEF Fresh
  <1> QED BY <1>6 DEF NewIds, new, m, c
\* The empty sequence names no Option.
LEMMA NothingFresh ==
    ASSUME NEW O, Numbered(O)
    PROVE  Fresh(O, <<>>) /\ \A o : ~Contains(<<>>, o)
  <1>1. \A o : ~Contains(<<>>, o)
    BY DEF Contains
  <1>2. Len(<<>>) = 0 /\ DOMAIN <<>> = 1..0
    OBVIOUS
  <1>3. PICK n \in Accounts : \A o \in Options : O[o] = "NONE" <=> o > n
    BY DEF Numbered
  <1> QED BY <1>1, <1>2, <1>3 DEF Fresh
\* What is named did not exist, and is younger than what existed.
LEMMA FreshYounger ==
    ASSUME NEW O, NEW new, Fresh(O, new), NEW o \in Options, Contains(new, o)
    PROVE  /\ O[o] = "NONE"
           /\ \A a \in Accounts : a = Root \/ O[a] # "NONE" => a < o
  <1>1. PICK c \in Accounts, m \in Nat :
            /\ \A q \in Options : O[q] = "NONE" <=> q > c
            /\ \A q : Contains(new, q) <=> \E i \in 1..m : q = c + i
    BY DEF Fresh
  <1>2. c \in Int /\ o > c /\ O[o] = "NONE"
    BY <1>1
  <1>3. ASSUME NEW a \in Accounts, a = Root \/ O[a] # "NONE" PROVE a < o
    <2>1. CASE a = Root
      BY <2>1
    <2>2. CASE a \in Options
      <3>1. ~ (a > c)
        BY <1>1, <1>3, <2>2
      <3> QED BY <1>2, <2>2, <3>1
    <2> QED BY <2>1, <2>2
  <1> QED BY <1>2, <1>3
\* What is named is an Option.
LEMMA FreshOptions ==
    ASSUME NEW O, NEW new, Fresh(O, new)
    PROVE  /\ Len(new) \in Nat
           /\ \A i \in 1..Len(new) : new[i] \in Options
           /\ \A q : Contains(new, q) <=> \E i \in 1..Len(new) : q = new[i]
           /\ ToSet(new) = {o \in Options : Contains(new, o)}
  <1>1. PICK c \in Accounts, m \in Nat :
            /\ c + m <= MaxOptions /\ Len(new) = m /\ DOMAIN new = 1..m
            /\ \A i \in 1..m : new[i] = c + i
            /\ \A q : Contains(new, q) <=> \E i \in 1..m : q = c + i
    BY DEF Fresh
  <1>2. Len(new) \in Nat /\ \A i \in 1..Len(new) : new[i] = c + i
    BY <1>1
  <1>3. \A i \in 1..m : c + i \in Options
    BY <1>1
  <1>4. ASSUME NEW q
        PROVE  Contains(new, q) <=> \E i \in 1..Len(new) : q = new[i]
    BY <1>1
  <1>5. ToSet(new) = {o \in Options : Contains(new, o)}
    <2>1. DOMAIN new = 1..Len(new) /\ \A i \in 1..Len(new) : new[i] \in Options
      BY <1>1, <1>2, <1>3
    <2> QED BY <1>4, <2>1 DEF ToSet
  <1> QED BY <1>1, <1>2, <1>3, <1>4, <1>5
\* Creating them keeps the numbering.
LEMMA FreshNumbered ==
    ASSUME NEW O, NEW new, Fresh(O, new), NEW P,
           \A o \in Options :
               P[o] = "NONE" <=> O[o] = "NONE" /\ ~Contains(new, o)
    PROVE  Numbered(P)
  <1>1. PICK c \in Accounts, m \in Nat :
            /\ c + m <= MaxOptions
            /\ \A q \in Options : O[q] = "NONE" <=> q > c
            /\ \A q : Contains(new, q) <=> \E i \in 1..m : q = c + i
    BY DEF Fresh
  <1>2. c + m \in Accounts
    BY <1>1
  <1>3. ASSUME NEW o \in Options PROVE P[o] = "NONE" <=> o > c + m
    <2>1. Contains(new, o) <=> o > c /\ o <= c + m
      <3>1. o > c /\ o <= c + m => o - c \in 1..m /\ o = c + (o - c)
        OBVIOUS
      <3> QED BY <1>1, <3>1
    <2> QED BY <1>1, <1>2, <2>1
  <1> QED BY <1>2, <1>3 DEF Numbered

\* A set of Options as a sequence: each of them occurs, and nothing else.
LEMMA Listed ==
    ASSUME NEW S \in SUBSET Options, S # {}
    PROVE  /\ SetToSeq(S) \in Seq(Accounts) /\ 1 \in DOMAIN SetToSeq(S)
           /\ SetToSeq(S)[1] \in S
  <1>1. IsFiniteSet(S)
    <2>1. IsFiniteSet(1..MaxOptions)
      BY FS_Interval
    <2> QED BY <2>1, FS_Subset
  <1> DEFINE n == Cardinality(S)
  <1>2. n \in Nat /\ Bijection(1..n, S) # {}
    BY <1>1, FS_CardinalityType DEF ExistsBijection
  <1>3. n # 0
    BY <1>1, FS_EmptySet
  <1> HIDE DEF n
  <1>4. \E f \in [1..n -> S] : IsInjective(f)
    BY <1>2 DEF Bijection, Injection, IsInjective
  <1>5. SetToSeq(S) \in [1..n -> S]
    BY <1>4 DEF SetToSeq, n
  <1> DEFINE f == SetToSeq(S)
  <1>6. f \in [1..n -> S]
    BY <1>5
  <1> HIDE DEF f
  <1>7. f \in [1..n -> Accounts]
    <2> DEFINE A == Accounts
    <2>1. S \subseteq A
      OBVIOUS
    <2> HIDE DEF A
    <2>2. f \in [1..n -> A]
      BY <1>6, <2>1
    <2> QED BY <2>2 DEF A
  <1>8. f \in Seq(Accounts)
    <2> DEFINE A == Accounts
    <2>1. n \in Nat /\ f \in [1..n -> A]
      BY <1>2, <1>7
    <2> HIDE DEF A
    <2>2. f \in UNION {[1..m -> A] : m \in Nat}
      BY <2>1
    <2>3. f \in Seq(A)
      BY <2>2, SeqDef
    <2> QED BY <2>3 DEF A
  <1>9. 1 \in DOMAIN f /\ f[1] \in S
    BY <1>2, <1>3, <1>6
  <1> QED BY <1>8, <1>9 DEF f
\* The account above Options that lie under the Task is one of them or the
\* Task.
LEMMA LCAOfRoots ==
    ASSUME NEW L, Sound(L), NEW S \in SUBSET Options, S # {},
           \A o \in S : L.parent[o] = Root
    PROVE  LCA(L, SetToSeq(S)) \in S \cup {Root}
  <1> DEFINE ids == SetToSeq(S)
             c == LCA(L, ids)
  <1>1. ids \in Seq(Accounts) /\ 1 \in DOMAIN ids /\ ids[1] \in S
    BY Listed
  <1>2. Descends(L.parent)
    BY DEF Sound
  <1> HIDE DEF ids
  <1>3. Contains(Chain(L, ids[1]), c)
    BY <1>1, <1>2, LCADeepest
  <1> HIDE DEF c
  <1>4. c = ids[1] \/ Contains(Chain(L, 0), c)
    <2>1. ids[1] \in Options /\ L.parent[ids[1]] = 0
      BY <1>1
    <2>2. c = ids[1] \/ Contains(Chain(L, L.parent[ids[1]]), c)
      BY <1>2, <1>3, <2>1, ChainMembers
    <2> QED BY <2>1, <2>2
  <1>5. c = ids[1] \/ c = 0
    <2>1. Contains(Chain(L, 0), c) <=> c = 0
      BY <1>2, ChainMembers
    <2> QED BY <1>4, <2>1
  <1> QED BY <1>1, <1>5 DEF c, ids
\* The account above several is not younger than the first of them.
LEMMA LCAOlder ==
    ASSUME NEW L, Sound(L), NEW ids \in Seq(Accounts), 1 \in DOMAIN ids
    PROVE  LCA(L, ids) \in Accounts /\ LCA(L, ids) <= ids[1]
  <1> DEFINE c == LCA(L, ids)
  <1>1. Descends(L.parent) /\ ids[1] \in Accounts
    BY DEF Sound
  <1>2. Contains(Chain(L, ids[1]), c) /\ c \in Accounts
    BY <1>1, LCADeepest
  <1> HIDE DEF c
  <1>3. c \in 0..ids[1]
    BY <1>1, <1>2, ChainRange
  <1> QED BY <1>1, <1>2, <1>3 DEF c

-----------------------------------------------------------------------------
(* The inductive invariant.                                                *)

\* What an Option is, and the steps of the exploration.
Outcomes == {"NONE", "OPEN", "FULFILLED", "SUPERSEDED", "ABANDONED"}
Explorations == {"option_generation", "merge_judge", "merge_synth"}
\* What the scheduler may select, given the generated Options.
IsStep(p, batch) ==
    \/ p = NoStep
    \/ \E o \in Options : p = Develop(o)
    \/ \E op \in Explorations, ids \in SUBSET batch :
          /\ op # "option_generation" => ids # {}
          /\ p = Explore(op, ids)

\* Options have a status and are numbered in order.
OptionInv == option \in [Options -> Outcomes] /\ Numbered(option)
\* The marker of the exploration: groups of its batch, none of them empty.
Marker(m) ==
    /\ m \in [count: 0..ExplorationN, batch: SUBSET Options,
              judged: BOOLEAN, groups: SUBSET SUBSET Options, done: BOOLEAN]
    /\ m.groups \subseteq SUBSET m.batch /\ {} \notin m.groups
\* What was generated exists, directly below the Task.
MarkerInv ==
    /\ Marker(x)
    /\ \A o \in x.batch : option[o] # "NONE" /\ led.parent[o] = Root
\* A lease has the slot, and so has the step the scheduler works on; the
\* exploration counts no more Attempts than it may make.
StepInv ==
    /\ IsStep(job, x.batch) /\ IsStep(pending, x.batch)
    /\ busy \in BOOLEAN
    /\ job # NoStep \/ Leased => busy
    /\ \/ job.op = "option_generation"
       \/ busy /\ pending.op = "option_generation"
       => x.count < ExplorationN
\* The status of a Task and of its Changes.
Statuses == {"ACTIVE", "SUSPENDED", "CLOSED"}
Changes == [Options -> {"NONE", "QUEUED", "RUNNING", "HELD"}]
\* A command that names an Option closes it for a reason.
ControlInv ==
    /\ status \in Statuses /\ change \in Changes
    /\ cancelled \in BOOLEAN
    /\ ctl \in CommandRecord
    /\ ctl.target \in Options =>
          ctl.op \in {"FULFILLED", "SUPERSEDED", "ABANDONED"}
\* What every step keeps.
Inv ==
    Sound(led) /\ OptionInv /\ LeaseOnLive /\ MarkerInv /\ StepInv /\ ControlInv

-----------------------------------------------------------------------------
(* What a step does to the accounts and the Options.                       *)

\* The root keeps its reserve, unless time is leased or the Task closes.
Retained ==
    \/ led'.remaining[Root] >= led.remaining[Root]
    \/ led'.lease # led.lease
    \/ status' = "CLOSED"
    \/ led'.remaining[Root] >= MinRootAfterTransferMS
\* An Option that is closed stays so.
StaysClosed ==
    \A o \in Options : option[o] \notin {"NONE", "OPEN"} =>
        option'[o] = option[o]
\* Options that exist stay where they are.
StaysPut ==
    \A o \in Options : option[o] # "NONE" =>
        option'[o] # "NONE" /\ led'.parent[o] = led.parent[o]
\* What every step does to the ledger and the Options.
TreeStep ==
    /\ Sound(led)' /\ OptionInv' /\ LeaseOnLive'
    /\ StaysClosed /\ StaysPut /\ Retained
    /\ Leased' => busy'

\* The Options K close for reason s and new ones open.
Closed(K, s, new) ==
    [o \in Options |-> IF o \in K THEN s
                       ELSE IF Contains(new, o) THEN "OPEN" ELSE option[o]]
\* The lease is gone, or as it was and not on what is closed for good.
LeaseKept(K, s) ==
    \/ led'.lease = NoLease
    \/ /\ led'.lease = led.lease /\ busy' = busy
       /\ s = "SUPERSEDED" \/ \A k \in K : ~LeasedFrom(led, k)

\* A step that closes open Options and creates new ones.
LEMMA Reshapes ==
    ASSUME Inv, NEW new, Fresh(option, new), NEW K \in SUBSET Options,
           \A k \in K : option[k] = "OPEN",
           NEW s \in {"FULFILLED", "SUPERSEDED", "ABANDONED"},
           option' = Closed(K, s, new), Sound(led'),
           \A o \in Options : ~Contains(new, o) =>
               led'.parent[o] = led.parent[o],
           LeaseKept(K, s), Retained
    PROVE  TreeStep
  <1>1. option \in [Options -> Outcomes] /\ Numbered(option)
    BY DEF Inv, OptionInv
  <1>2. \A o \in Options : Contains(new, o) => option[o] = "NONE"
    BY FreshYounger
  <1>3. \A o \in Options : option'[o] =
            IF o \in K THEN s
            ELSE IF Contains(new, o) THEN "OPEN" ELSE option[o]
    BY DEF Closed
  <1>4. OptionInv'
    <2>1. option' \in [Options -> Outcomes]
      BY <1>1 DEF Closed, Outcomes
    <2>2. \A o \in Options :
              option'[o] = "NONE" <=> option[o] = "NONE" /\ ~Contains(new, o)
      BY <1>3
    <2>3. Numbered(option')
      BY <2>2, FreshNumbered
    <2> QED BY <2>1, <2>3 DEF OptionInv
  <1>5. StaysClosed
    BY <1>2, <1>3 DEF StaysClosed
  <1>6. StaysPut
    BY <1>2, <1>3 DEF StaysPut
  <1>7. LeaseOnLive' /\ (Leased' => busy')
    <2>1. CASE led'.lease = NoLease
      BY <2>1 DEF LeaseOnLive, Leased
    <2>2. CASE led'.lease # NoLease
      <3> DEFINE a == led.lease.anchor
      <3>1. /\ led'.lease = led.lease /\ busy' = busy
            /\ s = "SUPERSEDED" \/ \A k \in K : ~LeasedFrom(led, k)
        BY <2>2 DEF LeaseKept
      <3>2. Leased /\ busy /\ a \in Accounts
        <4>1. led.lease # NoLease
          BY <2>2, <3>1
        <4>2. led \in LedgerRecord
          BY DEF Inv, Sound
        <4> QED BY <4>1, <4>2, LedgerFields DEF Inv, StepInv, Leased
      <3>3. a = Root \/ option[a] \in {"OPEN", "SUPERSEDED"}
        BY <3>2 DEF Inv, LeaseOnLive
      <3>4. LeasedFrom(led, a)
        BY <3>2 DEF LeasedFrom, Leased
      <3> HIDE DEF a
      <3>5. a = Root \/ option'[a] \in {"OPEN", "SUPERSEDED"}
        <4> SUFFICES ASSUME a \in Options
                     PROVE  option'[a] \in {"OPEN", "SUPERSEDED"}
          BY <3>2
        <4>1. option[a] \in {"OPEN", "SUPERSEDED"}
          BY <3>3
        <4>2. CASE a \in K
          BY <1>3, <3>1, <3>4, <4>2
        <4>3. CASE a \notin K
          BY <1>3, <4>1, <4>3
        <4> QED BY <4>2, <4>3
      <3> QED BY <3>1, <3>2, <3>5 DEF LeaseOnLive, Leased, a
    <2> QED BY <2>1, <2>2
  <1> QED BY <1>4, <1>5, <1>6, <1>7 DEF TreeStep
\* A step that leaves the Options alone.
LEMMA Keeps ==
    ASSUME Inv, option' = option, Sound(led'), led'.parent = led.parent,
           \/ led'.lease = NoLease
           \/ led'.lease = led.lease /\ (busy => busy')
           \/ /\ busy' = TRUE
              /\ \/ led'.lease.anchor = Root
                 \/ option[led'.lease.anchor] \in {"OPEN", "SUPERSEDED"},
           Retained
    PROVE  TreeStep
  <1>1. OptionInv'
    BY DEF Inv, OptionInv
  <1>2. StaysClosed /\ StaysPut
    BY DEF StaysClosed, StaysPut
  <1>3. LeaseOnLive' /\ (Leased' => busy')
    <2>1. CASE led'.lease = NoLease
      BY <2>1 DEF LeaseOnLive, Leased
    <2>2. CASE led'.lease = led.lease /\ (busy => busy')
      BY <2>2 DEF LeaseOnLive, Leased, Inv, StepInv
    <2>3. CASE /\ busy' = TRUE
               /\ \/ led'.lease.anchor = Root
                  \/ option[led'.lease.anchor] \in {"OPEN", "SUPERSEDED"}
      BY <2>3 DEF LeaseOnLive, Leased
    <2> QED BY <2>1, <2>2, <2>3
  <1> QED BY <1>1, <1>2, <1>3 DEF TreeStep
\* A step that leaves the accounts alone too.
LEMMA KeepsBoth ==
    ASSUME Inv, option' = option, led' = led, (Leased /\ busy) => busy'
    PROVE  TreeStep
  <1>1. Sound(led') /\ led.remaining[Root] \in Int
    BY DEF Inv, Sound
  <1>2. Retained
    BY <1>1 DEF Retained
  <1>3. led'.lease = NoLease \/ (led'.lease = led.lease /\ (busy => busy'))
    BY DEF Leased
  <1> QED BY <1>1, <1>2, <1>3, Keeps

-----------------------------------------------------------------------------
(* Operators.                                                              *)

\* Amounts are those a client can write.
LEMMA AmountsBounded ==
    ASSUME NEW n \in Amounts PROVE n \in 0..MaxInt /\ n \in Int /\ n \in Nat
  BY FundingAssumption
\* Extending the budget adds to the root.
LEMMA ExtendTree ==
    ASSUME Inv, NEW n \in Amounts, Extend(n) PROVE TreeStep
  <1>1. /\ led' = Extended(led, n) /\ Extended(led, n).ok
        /\ option' = option /\ busy' = busy
    BY DEF Extend, execution
  <1>2. Sound(led) /\ n \in Int
    BY AmountsBounded DEF Inv
  <1>3. /\ Sound(led') /\ led'.lease = led.lease /\ led'.parent = led.parent
        /\ led'.remaining[Root] >= led.remaining[Root]
    BY <1>1, <1>2, ExtendedSound
  <1>4. Retained
    BY <1>3 DEF Retained
  <1> QED BY <1>1, <1>3, <1>4, Keeps
\* No step that only moves time draws on the root's reserve.
LEMMA TransferRetains ==
    ASSUME NEW L, L.remaining = led.remaining, Transfer(L, led')
    PROVE  Retained
  BY DEF Transfer, Retained
\* Nothing closes.
LEMMA NoneClosed ==
    ASSUME Inv, NEW new, NEW s
    PROVE  createOptions(option, new) = Closed({}, s, new)
  BY DEF createOptions, Closed
\* A proposed Option starts with nothing.
LEMMA ProposeTree ==
    ASSUME Inv, NEW p \in Accounts, Propose(p) PROVE TreeStep
  <1> DEFINE new == NewIds(option, 1)
  <1>1. /\ led' = Adopt(led, new, p) /\ option' = createOptions(option, new)
        /\ busy' = busy /\ (p # Root => option[p] = "OPEN")
    BY DEF Propose, execution, openOption
  <1>2. Sound(led) /\ Fresh(option, new)
    BY NewIdsFresh DEF Inv, OptionInv
  <1> HIDE DEF new
  <1>3. \A o \in Options : Contains(new, o) => p < o
    BY <1>1, <1>2, FreshYounger
  <1>4. /\ Sound(led') /\ led'.remaining = led.remaining
        /\ led'.lease = led.lease
        /\ \A o \in Options : ~Contains(new, o) =>
              led'.parent[o] = led.parent[o]
    BY <1>1, <1>2, <1>3, AdoptSound
  <1>5. Retained
    <2>1. led.remaining[Root] \in Int
      BY <1>2 DEF Sound
    <2> QED BY <1>4, <2>1 DEF Retained
  <1>6. option' = Closed({}, "SUPERSEDED", new)
    BY <1>1, NoneClosed
  <1>7. LeaseKept({}, "SUPERSEDED")
    BY <1>1, <1>4 DEF LeaseKept
  <1> QED BY <1>2, <1>4, <1>5, <1>6, <1>7, Reshapes
\* New Options below p are paid by those that share or are replaced.
LEMMA PaidTree ==
    ASSUME Inv, NEW new, Fresh(option, new), NEW p \in Accounts,
           \A o \in Options : Contains(new, o) => p < o,
           NEW K \in SUBSET Options, \A k \in K : option[k] = "OPEN",
           option' = Closed(K, "SUPERSEDED", new), busy' = busy,
           NEW from, NEW to, NEW amounts, Transfers(from, to, amounts),
           led' = MoveEach(Adopt(led, new, p), from, to, amounts), led'.ok
    PROVE  TreeStep
  <1> DEFINE A == Adopt(led, new, p)
  <1>1. /\ Sound(A) /\ A.remaining = led.remaining /\ A.lease = led.lease
        /\ \A o \in Options : A.parent[o] =
              IF Contains(new, o) THEN p ELSE led.parent[o]
    BY AdoptSound DEF Inv
  <1> HIDE DEF A
  <1>2. Transfer(A, led')
    BY <1>1, MoveEachTransfers DEF A
  <1>3. /\ Sound(led') /\ led'.lease = led.lease
        /\ \A o \in Options : ~Contains(new, o) =>
              led'.parent[o] = led.parent[o]
    BY <1>1, <1>2 DEF Transfer
  <1>4. Retained
    BY <1>1, <1>2, TransferRetains
  <1>5. LeaseKept(K, "SUPERSEDED")
    BY <1>3 DEF LeaseKept
  <1> QED BY <1>3, <1>4, <1>5, Reshapes
\* Split and refine: the children are paid by their parent.
LEMMA SplitTree ==
    ASSUME Inv, NEW o \in Options, NEW walls, Len(walls) \in Nat,
           DOMAIN walls = 1..Len(walls),
           \A i \in 1..Len(walls) : walls[i] \in Amounts,
           NEW refine \in BOOLEAN, Split(o, walls, refine)
    PROVE  TreeStep
  <1> DEFINE new == NewIds(option, Len(walls))
             from == [i \in DOMAIN walls |-> o]
             K == IF refine THEN {o} ELSE {}
  <1>1. /\ Len(new) = Len(walls) /\ option[o] = "OPEN" /\ busy' = busy
        /\ led' = MoveEach(Adopt(led, new, o), from, new, walls) /\ led'.ok
    BY DEF Split, openOption, execution
  <1>2. option' = Closed(K, "SUPERSEDED", new)
    <2>1. Fresh(option, new)
      BY NewIdsFresh DEF Inv, OptionInv
    <2>2. option' = IF refine
                    THEN [createOptions(option, new) EXCEPT ![o] = "SUPERSEDED"]
                    ELSE createOptions(option, new)
      BY DEF Split
    <2> HIDE DEF new
    <2> QED BY <2>2 DEF createOptions, Closed
  <1>3. Fresh(option, new)
    BY NewIdsFresh DEF Inv, OptionInv
  <1> HIDE DEF new
  <1>4. \A q \in Options : Contains(new, q) => o < q
    BY <1>1, <1>3, FreshYounger
  <1>5. Transfers(from, new, walls)
    <2>1. \A i \in 1..Len(walls) : new[i] \in Options
      BY <1>1, <1>3, FreshOptions
    <2>2. \A i \in 1..Len(walls) : from[i] = o /\ walls[i] \in Int
      BY AmountsBounded
    <2> HIDE DEF from
    <2> QED BY <2>1, <2>2 DEF Transfers
  <1>6. K \in SUBSET Options /\ \A k \in K : option[k] = "OPEN"
    BY <1>1
  <1> HIDE DEF from, K
  <1>7. o \in Accounts
    OBVIOUS
  <1> QED BY <1>1, <1>2, <1>3, <1>4, <1>5, <1>6, <1>7, PaidTree
\* Merge: the new Option is paid by those that it replaces.
LEMMA MergeTree ==
    ASSUME Inv, NEW o \in Options, NEW q \in Options, NEW n \in Amounts,
           NEW m \in Amounts, Merge(<<o, q>>, <<n, m>>)
    PROVE  TreeStep
  <1> DEFINE ids == <<o, q>>
             walls == <<n, m>>
             new == NewIds(option, 1)
             to == [i \in DOMAIN ids |-> new[1]]
             p == LCA(led, ids)
             K == {o, q}
  <1>1. /\ Len(new) = 1 /\ busy' = busy
        /\ \A i \in DOMAIN ids : option[ids[i]] = "OPEN"
        /\ led' = MoveEach(Adopt(led, new, p), ids, to, walls) /\ led'.ok
    BY DEF Merge, openOption, execution
  <1>2. option[o] = "OPEN" /\ option[q] = "OPEN"
    <2>1. 1 \in DOMAIN ids /\ 2 \in DOMAIN ids
      OBVIOUS
    <2>2. option[ids[1]] = "OPEN" /\ option[ids[2]] = "OPEN"
      BY <1>1, <2>1
    <2> QED BY <2>2
  <1>3. option' = [r \in Options |->
                     IF Contains(ids, r) THEN "SUPERSEDED"
                     ELSE createOptions(option, new)[r]]
    BY DEF Merge
  <1>4. Fresh(option, new)
    <2>1. 1 \in Nat /\ Numbered(option)
      BY DEF Inv, OptionInv
    <2> QED BY <2>1, NewIdsFresh
  <1> HIDE DEF new
  <1>5. option' = Closed(K, "SUPERSEDED", new)
    <2>1. \A r : Contains(ids, r) <=> r \in K
      BY DEF Contains
    <2> HIDE DEF ids, K
    <2>2. \A r \in Options : option'[r] = Closed(K, "SUPERSEDED", new)[r]
      BY <1>3, <2>1 DEF createOptions, Closed
    <2> QED BY <1>3, <2>2 DEF Closed
  <1>6. /\ ids \in Seq(Accounts) /\ 1 \in DOMAIN ids /\ ids[1] = o
        /\ Sound(led)
    BY DEF Inv
  <1>7. p \in Accounts /\ p <= o
    <2> HIDE DEF ids
    <2> QED BY <1>6, LCAOlder
  <1>8. \A r \in Options : Contains(new, r) => p < r
    <2>1. ASSUME NEW r \in Options, Contains(new, r) PROVE p < r
      <3>1. o \in Accounts /\ option[o] # "NONE"
        BY <1>2
      <3>2. o < r
        BY <1>4, <2>1, <3>1, FreshYounger
      <3> HIDE DEF p
      <3> QED BY <1>7, <3>2
    <2> QED BY <2>1
  <1>9. Transfers(ids, to, walls)
    <2>1. new[1] \in Options
      BY <1>1, <1>4, FreshOptions
    <2>2. /\ Len(walls) = 2 /\ DOMAIN ids = 1..2
          /\ \A i \in 1..2 : ids[i] \in Accounts /\ walls[i] \in Int
      BY AmountsBounded
    <2>3. \A i \in 1..2 : to[i] \in Accounts
      BY <2>1, <2>2
    <2> HIDE DEF ids, to, walls
    <2> QED BY <2>2, <2>3 DEF Transfers
  <1>10. K \in SUBSET Options /\ \A k \in K : option[k] = "OPEN"
    BY <1>2
  <1> HIDE DEF ids, to, walls, p, K
  <1> QED BY <1>1, <1>4, <1>5, <1>7, <1>8, <1>9, <1>10, PaidTree
\* Allocation transfers along the chain of ancestors.
LEMMA AllocateTree ==
    ASSUME Inv, NEW o \in Options, NEW n \in Amounts, AllocateOption(o, n)
    PROVE  TreeStep
  <1>1. /\ led' = Allocate(led, o, n) /\ Allocate(led, o, n).ok
        /\ option' = option /\ busy' = busy
    BY DEF AllocateOption, execution
  <1>2. Transfer(led, led')
    BY <1>1, AmountsBounded, AllocateTransfers DEF Inv
  <1>3. Retained
    BY <1>2, TransferRetains
  <1> QED BY <1>1, <1>2, <1>3, Keeps DEF Transfer

-----------------------------------------------------------------------------
(* The scheduler and the commands.                                         *)

\* The fields of a step, and what it says of the Options it names.
LEMMA StepFields ==
    ASSUME NEW batch \in SUBSET Options, NEW p, IsStep(p, batch)
    PROVE  /\ p \in StepRecord
           /\ p # NoStep <=> p.op # "none"
           /\ p.op = "develop" => p.option \in Options /\ p = Develop(p.option)
           /\ p.op \in Explorations =>
                 /\ p.option = Root /\ p.participants \in SUBSET batch
                 /\ p.op # "option_generation" => p.participants # {}
           /\ p.op \in {"none", "develop"} \cup Explorations
  <1>1. CASE p = NoStep
    BY <1>1 DEF NoStep, StepRecord, Explorations
  <1>2. CASE \E o \in Options : p = Develop(o)
    <2>1. PICK o \in Options : p = Develop(o)
      BY <1>2
    <2> QED BY <2>1 DEF NoStep, Develop, StepRecord, Explorations
  <1>3. CASE \E op \in Explorations, ids \in SUBSET batch :
                 /\ op # "option_generation" => ids # {}
                 /\ p = Explore(op, ids)
    <2>1. PICK op \in Explorations, ids \in SUBSET batch :
                 /\ op # "option_generation" => ids # {}
                 /\ p = Explore(op, ids)
      BY <1>3
    <2> QED BY <2>1 DEF NoStep, Explore, StepRecord, Explorations
  <1> QED BY <1>1, <1>2, <1>3 DEF IsStep
\* The account that pays for a step that is admitted is the Task's or that
\* of an Option which is not closed for good.
LEMMA AnchorLive ==
    ASSUME Inv, NEW p, IsStep(p, x.batch), p # NoStep, Admitted(p)
    PROVE  /\ Anchor(p) \in Accounts
           /\ Anchor(p) = Root \/ option[Anchor(p)] \in {"OPEN", "SUPERSEDED"}
  <1>1. x.batch \in SUBSET Options /\ Sound(led)
    BY DEF Inv, MarkerInv, Marker
  <1>2. p.op \in {"develop"} \cup Explorations
    BY <1>1, StepFields
  <1>3. CASE p.op = "develop"
    <2>1. Anchor(p) = p.option /\ p.option \in Options
      BY <1>1, <1>3, StepFields DEF Anchor
    <2>2. option[p.option] \in {"OPEN", "SUPERSEDED"}
      BY <1>3 DEF Admitted, runnable
    <2> QED BY <2>1, <2>2
  <1>4. CASE p.op = "option_generation"
    BY <1>4 DEF Anchor
  <1>5. CASE p.op \in {"merge_judge", "merge_synth"}
    <2> DEFINE S == p.participants
    <2>1. Anchor(p) = LCA(led, SetToSeq(S))
      BY <1>5 DEF Anchor
    <2>2. S \in SUBSET x.batch /\ S # {}
      BY <1>1, <1>5, StepFields DEF Explorations
    <2>3. \A o \in S : option[o] = "OPEN"
      BY DEF Admitted
    <2> HIDE DEF S
    <2>4. S \in SUBSET Options /\ \A o \in S : led.parent[o] = Root
      BY <1>1, <2>2 DEF Inv, MarkerInv, Marker
    <2> DEFINE a == Anchor(p)
    <2>5. a \in S \cup {Root}
      BY <1>1, <2>1, <2>2, <2>4, LCAOfRoots
    <2> HIDE DEF a
    <2>6. CASE a = Root
      BY <2>6 DEF a
    <2>7. CASE a \in S
      <3>1. a \in Options /\ option[a] = "OPEN"
        BY <2>3, <2>4, <2>7
      <3> QED BY <3>1 DEF a
    <2> QED BY <2>5, <2>6, <2>7
  <1> QED BY <1>2, <1>3, <1>4, <1>5 DEF Explorations
\* Preparing a step leases from a live account.
LEMMA PrepareTree ==
    ASSUME Inv, Prepare PROVE TreeStep
  <1> DEFINE a == Anchor(job)
             n == Min({led.remaining[a], LeaseLimit})
  <1>1. /\ job # NoStep /\ Admitted(job) /\ option' = option /\ busy' = busy
        /\ led' = Reserve(led, a, n) /\ Reserve(led, a, n).ok
    BY DEF Prepare, execution
  <1>2. IsStep(job, x.batch) /\ busy' = TRUE /\ Sound(led)
    BY <1>1 DEF Inv, StepInv
  <1>3. a \in Accounts /\ (a = Root \/ option[a] \in {"OPEN", "SUPERSEDED"})
    BY <1>1, <1>2, AnchorLive
  <1> HIDE DEF a
  <1>4. n \in Int
    <2>1. led.remaining[a] \in Int /\ LeaseLimit \in Int
      BY <1>2, <1>3, FundingAssumption DEF Sound
    <2> QED BY <2>1, MinOfTwo
  <1> HIDE DEF n
  <1>5. /\ Sound(led') /\ led.lease = NoLease /\ led'.lease # NoLease
        /\ led'.lease = [anchor |-> a, amount |-> n]
        /\ led'.parent = led.parent
    BY <1>1, <1>2, <1>3, <1>4, ReserveSound
  <1>6. Retained
    BY <1>5 DEF Retained
  <1>7. led'.lease.anchor = a
    BY <1>5
  <1> QED BY <1>1, <1>2, <1>3, <1>5, <1>6, <1>7, Keeps
\* The ledger after a settlement.
LEMMA Settles ==
    ASSUME Inv, Leased, NEW elapsed \in Nat, NEW whole \in BOOLEAN
    PROVE  /\ Sound(Settle(led, elapsed, whole))
           /\ Settle(led, elapsed, whole).lease = NoLease
           /\ Settle(led, elapsed, whole).parent = led.parent
  BY SettleSound DEF Inv, Leased
\* A settlement ends the lease.
LEMMA SettleTree ==
    ASSUME Inv, Leased, NEW elapsed \in Nat, NEW whole \in BOOLEAN,
           led' = Settle(led, elapsed, whole), option' = option
    PROVE  TreeStep
  <1>1. Sound(led') /\ led'.lease = NoLease /\ led'.parent = led.parent
    BY Settles
  <1>2. Retained
    BY <1>1 DEF Retained, Leased
  <1> QED BY <1>1, <1>2, Keeps
\* A step that was stopped or failed only settles.
LEMMA CompleteStoppedTree ==
    ASSUME Inv, NEW elapsed \in Amounts,
           CompleteStopped(elapsed) \/ CompleteTerminated(elapsed)
    PROVE  TreeStep
  <1>1. /\ Leased /\ led' = Settle(led, elapsed, FALSE) /\ option' = option
    BY DEF CompleteStopped, CompleteTerminated
  <1> QED BY <1>1, AmountsBounded, SettleTree
\* Recovery settles what it finds leased.
LEMMA RecoverTree ==
    ASSUME Inv, Recover PROVE TreeStep
  <1>1. CASE Leased
    <2>1. led' = Settle(led, 0, TRUE) /\ option' = option
      BY <1>1 DEF Recover
    <2> QED BY <1>1, <2>1, SettleTree
  <1>2. CASE ~Leased
    <2>1. led' = led /\ option' = option
      BY <1>2 DEF Recover
    <2> QED BY <1>2, <2>1, KeepsBoth
  <1> QED BY <1>1, <1>2
\* Closing an Option hands its balance to its parent, which has room for it.
LEMMA CloseSound ==
    ASSUME NEW L, Sound(L), NEW o \in Options
    PROVE  closeOption(L, o).ok /\ Transfer(L, closeOption(L, o))
  <1> DEFINE p == L.parent[o]
             n == L.remaining[o]
             h == [L.remaining EXCEPT ![o] = @ - n, ![p] = @ + n]
  <1>1. p \in Accounts /\ p # o /\ o # Root /\ L.ok /\ o \in Accounts
    BY DEF Sound, Descends
  <1>2. n \in Nat /\ L.remaining[p] \in Nat /\ n + L.remaining[p] <= MaxInt
    <2>1. n \in Nat /\ L.remaining[p] \in Nat
      BY <1>1, Room
    <2>2. n + L.remaining[p] <= Remaining(L)
      BY <1>1, Room
    <2>3. Remaining(L) <= MaxInt /\ Remaining(L) \in Nat
      <3>1. /\ Remaining(L) \in Nat /\ Outstanding(L) \in Nat
            /\ L.minted \in Nat /\ L.minted <= MaxInt
            /\ L.minted = Remaining(L) + Outstanding(L) + L.charged + L.retired
        BY Room
      <3>2. L.charged \in Nat /\ L.retired \in Nat
        BY DEF Sound
      <3> QED BY <3>1, <3>2
    <2> QED BY <2>1, <2>2, <2>3
  <1>3. closeOption(L, o) = Move(L, o, p, n)
    BY DEF closeOption
  <1> HIDE DEF p
  <1>4. Addable(L.remaining[p], n)
    BY <1>2 DEF Addable
  <1>5. Move(L, o, p, n) = [L EXCEPT !.remaining = h]
    BY <1>1, <1>2, <1>4 DEF Move
  <1> HIDE DEF h, n
  <1>6. [L EXCEPT !.remaining = h].ok = L.ok
    BY DEF Sound, LedgerRecord
  <1>7. Move(L, o, p, n).ok
    BY <1>1, <1>5, <1>6
  <1>8. n \in Int
    BY <1>2
  <1>9. Transfer(L, Move(L, o, p, n))
    BY <1>1, <1>7, <1>8, MoveTransfers
  <1> QED BY <1>3, <1>7, <1>9 DEF n
\* option close.
LEMMA FinishCloseTree ==
    ASSUME Inv, FinishClose PROVE TreeStep
  <1> DEFINE o == ctl.target
             s == ctl.op
  <1>1. /\ o \in Options /\ option[o] = "OPEN" /\ ~LeasedFrom(led, o)
        /\ led' = closeOption(led, o) /\ busy' = busy
        /\ option' = [option EXCEPT ![o] = s]
    BY DEF FinishClose, Closable, CanCloseOption
  <1>2. s \in {"FULFILLED", "SUPERSEDED", "ABANDONED"} /\ Sound(led)
    BY <1>1 DEF Inv, ControlInv
  <1>3. Fresh(option, <<>>) /\ \A q : ~Contains(<<>>, q)
    BY NothingFresh DEF Inv, OptionInv
  <1> HIDE DEF o, s
  <1>4. Transfer(led, led')
    BY <1>1, <1>2, CloseSound
  <1>5. Retained
    BY <1>4, TransferRetains
  <1>6. option' = Closed({o}, s, <<>>)
    <2>1. option \in [Options -> Outcomes]
      BY DEF Inv, OptionInv
    <2> QED BY <1>1, <1>3, <2>1 DEF Closed
  <1>7. /\ Sound(led') /\ LeaseKept({o}, s)
        /\ \A q \in Options : led'.parent[q] = led.parent[q]
    BY <1>1, <1>4 DEF Transfer, LeaseKept
  <1>8. {o} \in SUBSET Options /\ \A k \in {o} : option[k] = "OPEN"
    BY <1>1
  <1> QED BY <1>2, <1>3, <1>5, <1>6, <1>7, <1>8, Reshapes
\* task close.
LEMMA FinishCloseTaskTree ==
    ASSUME Inv, FinishCloseTask PROVE TreeStep
  <1>1. /\ led' = Retired(led) /\ option' = option /\ status' = "CLOSED"
        /\ led.lease = NoLease
    BY DEF FinishCloseTask, TaskQuiescent, Leased
  <1>2. /\ Sound(led') /\ led'.lease = NoLease /\ led'.parent = led.parent
    BY <1>1, RetiredSound DEF Inv
  <1>3. Retained
    BY <1>1 DEF Retained
  <1> QED BY <1>1, <1>2, <1>3, Keeps
\* A Change's step ends: its time is settled, a claim may close an Option or
\* the Task, and its proposals hang below its own Option while that is open.
LEMMA CompleteDevelopTree ==
    ASSUME Inv, NEW elapsed \in Amounts, NEW claim \in Accounts \cup {NoClaim},
           NEW k \in Nat, CompleteDevelop(elapsed, claim, k)
    PROVE  TreeStep
  <1> DEFINE o == job.option
             S == Settle(led, elapsed, FALSE)
             closes == /\ claim \in Options /\ GateFree
                       /\ CanCloseOption(S, claim)
             closesTask == claim = Root /\ GateFree
             C == IF closes THEN closeOption(S, claim)
                  ELSE IF closesTask THEN Retired(S) ELSE S
             opts == [q \in Options |->
                         IF closes /\ q = claim THEN "FULFILLED" ELSE option[q]]
             new == IF opts[o] = "OPEN" /\ ~closesTask THEN NewIds(opts, k)
                    ELSE <<>>
             K == IF closes THEN {claim} ELSE {}
  <1>1. /\ job.op = "develop" /\ Leased /\ C.ok
        /\ led' = Adopt(C, new, o) /\ option' = createOptions(opts, new)
    BY DEF CompleteDevelop
  <1>2. o \in Options
    <2>1. IsStep(job, x.batch) /\ x.batch \in SUBSET Options
      BY DEF Inv, StepInv, MarkerInv, Marker
    <2> QED BY <1>1, <2>1, StepFields
  <1>3. Sound(S) /\ S.lease = NoLease /\ S.parent = led.parent
    BY <1>1, AmountsBounded, Settles
  <1>4. closes => claim \in Options /\ option[claim] = "OPEN"
    BY DEF CanCloseOption
  <1> HIDE DEF o, S, closes, closesTask
  <1>5. Sound(C) /\ C.lease = NoLease /\ C.parent = led.parent
    <2>1. CASE closes
      <3>1. C = closeOption(S, claim)
        BY <2>1
      <3> QED BY <1>3, <1>4, <2>1, <3>1, CloseSound DEF Transfer
    <2>2. CASE ~closes /\ closesTask
      <3>1. C = Retired(S)
        BY <2>2
      <3> QED BY <1>3, <3>1, RetiredSound
    <2>3. CASE ~closes /\ ~closesTask
      BY <1>3, <2>3
    <2> QED BY <2>1, <2>2, <2>3
  <1> HIDE DEF C
  <1>6. \A q \in Options : opts[q] =
            IF q \in K THEN "FULFILLED" ELSE option[q]
    BY <1>4
  <1>7. K \in SUBSET Options /\ \A q \in K : option[q] = "OPEN"
    BY <1>4
  <1> HIDE DEF opts, K
  <1>8. \A q \in Options : opts[q] = "NONE" <=> option[q] = "NONE"
    BY <1>6, <1>7
  <1>9. Numbered(opts)
    BY <1>8 DEF Inv, OptionInv, Numbered
  <1>10. Fresh(opts, new) /\ \A q \in Options : Contains(new, q) => o < q
    <2>1. CASE opts[o] = "OPEN" /\ ~closesTask
      <3>1. new = NewIds(opts, k)
        BY <2>1
      <3> HIDE DEF new
      <3>2. Fresh(opts, new)
        BY <1>9, <3>1, NewIdsFresh
      <3>3. o \in Accounts /\ opts[o] # "NONE"
        BY <1>2, <2>1
      <3>4. ASSUME NEW q \in Options, Contains(new, q) PROVE o < q
        BY <3>2, <3>3, <3>4, FreshYounger
      <3> QED BY <3>2, <3>4
    <2>2. CASE ~(opts[o] = "OPEN" /\ ~closesTask)
      <3>1. new = <<>>
        BY <2>2
      <3> HIDE DEF new
      <3> QED BY <1>9, <3>1, NothingFresh
    <2> QED BY <2>1, <2>2
  <1> HIDE DEF new
  <1>11. Fresh(option, new)
    BY <1>8, <1>10 DEF Fresh
  <1>12. /\ Sound(led') /\ led'.lease = NoLease
         /\ \A q \in Options : ~Contains(new, q) =>
               led'.parent[q] = led.parent[q]
    <2>1. o \in Accounts
      BY <1>2
    <2> QED BY <1>1, <1>5, <1>10, <2>1, AdoptSound
  <1>13. option' = Closed(K, "FULFILLED", new)
    <2>1. \A q \in Options : Contains(new, q) => q \notin K
      BY <1>7, <1>11, FreshYounger
    <2> QED BY <1>1, <1>6, <2>1 DEF createOptions, Closed
  <1>14. Retained /\ LeaseKept(K, "FULFILLED")
    BY <1>1, <1>12 DEF Retained, LeaseKept, Leased
  <1> QED BY <1>7, <1>11, <1>12, <1>13, <1>14, Reshapes
\* A step of the exploration ends: generated Options lie under the Task, a
\* synthesised one below the account above those it replaces.
LEMMA CompleteExplorationTree ==
    ASSUME Inv, NEW elapsed \in Amounts, NEW valid \in BOOLEAN, NEW k \in Nat,
           NEW groups, CompleteExploration(elapsed, valid, k, groups)
    PROVE  TreeStep
  <1> DEFINE S == Settle(led, elapsed, FALSE)
             ids == job.participants
             merges == /\ job.op = "merge_synth" /\ valid
                       /\ \A o \in job.participants : option[o] = "OPEN"
             new == IF job.op = "option_generation" /\ valid
                    THEN NewIds(option, k)
                    ELSE IF merges THEN NewIds(option, 1) ELSE <<>>
             p == IF merges THEN LCA(S, SetToSeq(job.participants)) ELSE Root
             K == IF merges THEN ids ELSE {}
  <1>1. /\ Leased /\ led' = Adopt(S, new, p)
        /\ option' = [o \in Options |->
                        IF merges /\ o \in ids THEN "SUPERSEDED"
                        ELSE createOptions(option, new)[o]]
    BY DEF CompleteExploration
  <1>2. Sound(S) /\ S.lease = NoLease /\ S.parent = led.parent
    BY <1>1, AmountsBounded, Settles
  <1>3. merges => /\ ids \in SUBSET Options /\ ids # {}
                  /\ \A o \in ids : option[o] = "OPEN" /\ led.parent[o] = Root
    <2>1. IsStep(job, x.batch) /\ x.batch \in SUBSET Options
      BY DEF Inv, StepInv, MarkerInv, Marker
    <2>2. job.op = "merge_synth" => ids \in SUBSET x.batch /\ ids # {}
      BY <2>1, StepFields DEF Explorations
    <2> QED BY <2>1, <2>2 DEF Inv, MarkerInv, Marker
  <1>4. Fresh(option, new)
    <2>1. Numbered(option) /\ 1 \in Nat
      BY DEF Inv, OptionInv
    <2>2. /\ Fresh(option, NewIds(option, k)) /\ Fresh(option, <<>>)
          /\ Fresh(option, NewIds(option, 1))
      BY <2>1, NewIdsFresh, NothingFresh
    <2> QED BY <2>2
  <1> HIDE DEF S, new, merges, ids
  <1>5. p \in Accounts /\ \A q \in Options : Contains(new, q) => p < q
    <2>1. p = Root \/ (p \in Options /\ option[p] = "OPEN")
      <3>1. CASE merges
        <4> DEFINE c == LCA(S, SetToSeq(ids))
        <4>1. p = c
          BY <3>1 DEF ids
        <4>2. ids \in SUBSET Options /\ ids # {}
          BY <1>3, <3>1
        <4>3. \A o \in ids : S.parent[o] = Root /\ option[o] = "OPEN"
          BY <1>2, <1>3, <3>1
        <4>4. c \in ids \cup {Root}
          BY <1>2, <4>2, <4>3, LCAOfRoots
        <4> HIDE DEF c, p
        <4> QED BY <4>1, <4>2, <4>3, <4>4
      <3>2. CASE ~merges
        BY <3>2
      <3> QED BY <3>1, <3>2
    <2> HIDE DEF p
    <2>2. p \in Accounts /\ (p = Root \/ option[p] # "NONE")
      BY <2>1
    <2>3. ASSUME NEW q \in Options, Contains(new, q) PROVE p < q
      BY <1>4, <2>2, <2>3, FreshYounger
    <2> QED BY <2>2, <2>3
  <1> HIDE DEF p
  <1>6. /\ Sound(led') /\ led'.lease = NoLease
        /\ \A q \in Options : ~Contains(new, q) =>
              led'.parent[q] = led.parent[q]
    BY <1>1, <1>2, <1>5, AdoptSound
  <1>7. K \in SUBSET Options /\ \A q \in K : option[q] = "OPEN"
    BY <1>3
  <1>8. option' = Closed(K, "SUPERSEDED", new)
    <2>1. \A q : q \in K <=> merges /\ q \in ids
      OBVIOUS
    <2> HIDE DEF K
    <2> QED BY <1>1, <2>1 DEF createOptions, Closed
  <1> HIDE DEF K
  <1>9. Retained /\ LeaseKept(K, "SUPERSEDED")
    BY <1>1, <1>6 DEF Retained, LeaseKept, Leased
  <1> QED BY <1>4, <1>6, <1>7, <1>8, <1>9, Reshapes

\* Every step of Next is one of these.
LEMMA OtherTree ==
    ASSUME Inv,
           \/ \E o \in Options :
                 ReleaseOption(o) \/ PauseChange(o) \/ ResumeChange(o)
           \/ Selection \/ PrepareRefused \/ Crash
           \/ \E o \in Options, reason \in {"FULFILLED", "SUPERSEDED",
                                           "ABANDONED"} : BeginClose(o, reason)
           \/ \E o \in Options : BeginClaim(o)
           \/ \E op \in {"suspend", "closeTask"} : BeginTask(op)
           \/ ResumeTask \/ requestCancellation \/ Settled \/ GiveUp
           \/ FinishSuspend \/ FinishRefused
    PROVE  TreeStep
  <1>1. led' = led /\ option' = option /\ (Leased /\ busy => busy')
    BY DEF ReleaseOption, PauseChange, ResumeChange, Selection, NextChange,
           NextExploration, NextNothing, Select, PrepareRefused, Crash,
           BeginClose, BeginClaim, BeginTask, Begin, ResumeTask,
           requestCancellation, Settled, GiveUp, FinishSuspend, FinishRefused,
           tree, execution
  <1> QED BY <1>1, KeepsBoth
\* Every step of Next.
LEMMA NextTree ==
    ASSUME Inv, [Next]_vars PROVE TreeStep
  <1>1. CASE Operator
    <2>1. CASE \E n \in Amounts : Extend(n)
      BY <2>1, ExtendTree
    <2>2. CASE \E a \in Accounts : Propose(a)
      BY <2>2, ProposeTree
    <2>3. CASE \E o \in Options, n \in Amounts : Split(o, <<n>>, TRUE)
      <3>1. PICK o \in Options, n \in Amounts : Split(o, <<n>>, TRUE)
        BY <2>3
      <3>2. /\ Len(<<n>>) \in Nat /\ DOMAIN <<n>> = 1..Len(<<n>>)
            /\ \A i \in 1..Len(<<n>>) : <<n>>[i] \in Amounts
        OBVIOUS
      <3> QED BY <3>1, <3>2, SplitTree
    <2>4. CASE \E o \in Options, n, m \in Amounts : Split(o, <<n, m>>, FALSE)
      <3>1. PICK o \in Options, n \in Amounts, m \in Amounts :
                Split(o, <<n, m>>, FALSE)
        BY <2>4
      <3>2. /\ Len(<<n, m>>) \in Nat /\ DOMAIN <<n, m>> = 1..Len(<<n, m>>)
            /\ \A i \in 1..Len(<<n, m>>) : <<n, m>>[i] \in Amounts
        OBVIOUS
      <3> QED BY <3>1, <3>2, SplitTree
    <2>5. CASE \E o, q \in Options, n, m \in Amounts :
                   o # q /\ Merge(<<o, q>>, <<n, m>>)
      BY <2>5, MergeTree
    <2>6. CASE \E o \in Options, n \in Amounts : AllocateOption(o, n)
      BY <2>6, AllocateTree
    <2>7. CASE \E o \in Options :
                   ReleaseOption(o) \/ PauseChange(o) \/ ResumeChange(o)
      BY <2>7, OtherTree
    <2> QED BY <1>1, <2>1, <2>2, <2>3, <2>4, <2>5, <2>6, <2>7 DEF Operator
  <1>2. CASE Selection \/ PrepareRefused \/ Crash
    BY <1>2, OtherTree
  <1>3. CASE Prepare
    BY <1>3, PrepareTree
  <1>4. CASE Completion
    <2>1. PICK elapsed \in Amounts :
        \/ CompleteStopped(elapsed) \/ CompleteTerminated(elapsed)
        \/ \E claim \in Accounts \cup {NoClaim}, k \in 0..1 :
              CompleteDevelop(elapsed, claim, k)
        \/ \E valid \in BOOLEAN, k \in 0..2, groups \in Partitions(x.batch) :
              CompleteExploration(elapsed, valid, k, groups)
      BY <1>4 DEF Completion
    <2>2. CASE CompleteStopped(elapsed) \/ CompleteTerminated(elapsed)
      BY <2>2, CompleteStoppedTree
    <2>3. CASE \E claim \in Accounts \cup {NoClaim}, k \in 0..1 :
                   CompleteDevelop(elapsed, claim, k)
      <3>1. PICK claim \in Accounts \cup {NoClaim}, k \in 0..1 :
                   CompleteDevelop(elapsed, claim, k)
        BY <2>3
      <3>2. k \in Nat
        OBVIOUS
      <3> QED BY <3>1, <3>2, CompleteDevelopTree
    <2>4. CASE \E valid \in BOOLEAN, k \in 0..2,
                  groups \in Partitions(x.batch) :
                   CompleteExploration(elapsed, valid, k, groups)
      <3>1. PICK valid \in BOOLEAN, k \in 0..2, groups \in Partitions(x.batch) :
                   CompleteExploration(elapsed, valid, k, groups)
        BY <2>4
      <3>2. k \in Nat
        OBVIOUS
      <3> QED BY <3>1, <3>2, CompleteExplorationTree
    <2> QED BY <2>1, <2>2, <2>3, <2>4
  <1>5. CASE Recover
    BY <1>5, RecoverTree
  <1>6. CASE Control
    <2>1. CASE FinishClose
      BY <2>1, FinishCloseTree
    <2>2. CASE FinishCloseTask
      BY <2>2, FinishCloseTaskTree
    <2> QED BY <1>6, <2>1, <2>2, OtherTree DEF Control
  <1>7. CASE UNCHANGED vars
    BY <1>7, KeepsBoth DEF vars
  <1> QED BY <1>1, <1>2, <1>3, <1>4, <1>5, <1>6, <1>7 DEF Next

-----------------------------------------------------------------------------
(* What a step does to the exploration, the slot and the commands.         *)

\* A step that was possible is possible of a larger batch.
LEMMA IsStepMonotone ==
    ASSUME NEW B, NEW C, B \subseteq C, NEW p, IsStep(p, B)
    PROVE  IsStep(p, C)
  BY DEF IsStep
\* The next step of the exploration.
LEMMA ExplorationSteps ==
    ASSUME NEW m, Marker(m)
    PROVE  /\ IsStep(explorationStep(m), m.batch)
           /\ explorationStep(m).op = "option_generation" =>
                 m.count < ExplorationN
  <1> DEFINE s == explorationStep(m)
  <1>1. CASE m.count < ExplorationN
    <2>1. s = Explore("option_generation", {})
      BY <1>1 DEF explorationStep
    <2> HIDE DEF s
    <2>2. IsStep(s, m.batch)
      BY <2>1 DEF IsStep, Explorations
    <2> QED BY <1>1, <2>2 DEF s
  <1>2. CASE ~(m.count < ExplorationN) /\ Cardinality(m.batch) < 2
    <2>1. s = NoStep
      BY <1>2 DEF explorationStep
    <2> QED BY <2>1 DEF IsStep, NoStep
  <1>3. CASE /\ ~(m.count < ExplorationN) /\ ~(Cardinality(m.batch) < 2)
             /\ ~m.judged
    <2>1. s = Explore("merge_judge", m.batch)
      BY <1>3 DEF explorationStep
    <2>2. m.batch # {}
      <3>1. Cardinality({}) = 0
        BY FS_EmptySet
      <3> QED BY <1>3, <3>1
    <2> HIDE DEF s
    <2>3. IsStep(s, m.batch)
      BY <2>1, <2>2 DEF IsStep, Explorations
    <2>4. s.op # "option_generation"
      BY <2>1 DEF Explore
    <2> QED BY <2>3, <2>4 DEF s
  <1>4. CASE /\ ~(m.count < ExplorationN) /\ ~(Cardinality(m.batch) < 2)
             /\ m.judged /\ m.groups = {}
    <2>1. s = NoStep
      BY <1>4 DEF explorationStep
    <2> QED BY <2>1 DEF IsStep, NoStep
  <1>5. CASE /\ ~(m.count < ExplorationN) /\ ~(Cardinality(m.batch) < 2)
             /\ m.judged /\ m.groups # {}
    <2> DEFINE g == CHOOSE h \in m.groups : TRUE
    <2>1. s = Explore("merge_synth", g)
      BY <1>5 DEF explorationStep
    <2>2. g \in m.groups
      BY <1>5
    <2> HIDE DEF s, g
    <2>3. g \in SUBSET m.batch /\ g # {}
      BY <2>2 DEF Marker
    <2>4. IsStep(s, m.batch)
      BY <2>1, <2>3 DEF IsStep, Explorations
    <2>5. s.op # "option_generation"
      BY <2>1 DEF Explore
    <2> QED BY <2>4, <2>5 DEF s
  <1> QED BY <1>1, <1>2, <1>3, <1>4, <1>5
\* What was generated stays where it is.
LEMMA MarkerSame ==
    ASSUME Inv, TreeStep, Marker(x'), x'.batch = x.batch
    PROVE  MarkerInv'
  BY DEF Inv, MarkerInv, TreeStep, StaysPut, Marker
\* Whether the exploration is done is a flag of its own.
LEMMA MarkerDone ==
    ASSUME NEW m, Marker(m), NEW b \in BOOLEAN
    PROVE  /\ Marker([m EXCEPT !.done = b])
           /\ [m EXCEPT !.done = b].batch = m.batch
           /\ [m EXCEPT !.done = b].count = m.count
  BY DEF Marker
\* The marker after a step that selects nothing: the slot is kept or freed.
LEMMA StepsSame ==
    ASSUME Inv, TreeStep, x.batch \subseteq x'.batch, busy' \in BOOLEAN,
           busy' => busy /\ x'.count = x.count,
           job' = NoStep \/ (job' = job /\ busy' = busy /\ x'.count = x.count),
           pending' = NoStep \/ pending' = pending
    PROVE  StepInv'
  <1>1. IsStep(NoStep, x'.batch) /\ NoStep.op # "option_generation"
    BY DEF IsStep, NoStep
  <1>2. IsStep(job', x'.batch) /\ IsStep(pending', x'.batch)
    BY <1>1, IsStepMonotone DEF Inv, StepInv
  <1>3. job' # NoStep \/ Leased' => busy'
    BY DEF Inv, StepInv, TreeStep
  <1>4. \/ job'.op = "option_generation"
        \/ busy' /\ pending'.op = "option_generation"
        => x'.count < ExplorationN
    BY <1>1 DEF Inv, StepInv
  <1> QED BY <1>2, <1>3, <1>4 DEF StepInv
\* A step is selected.
LEMMA StepsSelect ==
    ASSUME Inv, NEW p, Select(p), x' = x, IsStep(p, x.batch),
           p.op = "option_generation" => x.count < ExplorationN
    PROVE  StepInv'
  BY DEF Select, StepInv
\* What the exploration marker becomes.
LEMMA ExploredMarker ==
    ASSUME Inv, NEW p, IsStep(p, x.batch), p.op # "develop",
           p.op = "option_generation" => x.count < ExplorationN,
           NEW new, Fresh(option, new), NEW G, G \in Partitions(x.batch)
    PROVE  /\ Marker(Explored(p, new, G))
           /\ Explored(p, new, G).batch =
                 IF p.op = "option_generation"
                 THEN x.batch \cup ToSet(new) ELSE x.batch
  <1> DEFINE m == CASE p.op = "option_generation" ->
                         [x EXCEPT !.count = @ + 1,
                                   !.batch = @ \cup ToSet(new)]
                    [] p.op = "merge_judge" ->
                         [x EXCEPT !.judged = TRUE, !.groups = G]
                    [] OTHER -> [x EXCEPT !.groups = @ \ {p.participants}]
             b == explorationStep(m) = NoStep
  <1>1. Marker(x)
    BY DEF Inv, MarkerInv
  <1>2. ToSet(new) \in SUBSET Options
    BY FreshOptions
  <1>3. CASE p.op = "option_generation"
    <2> DEFINE n == [x EXCEPT !.count = @ + 1, !.batch = @ \cup ToSet(new)]
    <2>1. m = n
      BY <1>3
    <2>2. x.count + 1 \in 0..ExplorationN /\ x.batch \in SUBSET Options
      BY <1>1, <1>3, FundingAssumption DEF Marker
    <2>3. Marker(n) /\ n.batch = x.batch \cup ToSet(new)
      BY <1>1, <1>2, <2>2 DEF Marker
    <2> HIDE DEF m, n
    <2>4. Marker(m) /\ m.batch = x.batch \cup ToSet(new)
      BY <2>1, <2>3
    <2>5. Explored(p, new, G) = [m EXCEPT !.done = b]
      BY DEF Explored, m
    <2> HIDE DEF b
    <2>6. b \in BOOLEAN
      BY DEF b
    <2> QED BY <1>3, <2>4, <2>5, <2>6, MarkerDone
  <1>4. CASE p.op = "merge_judge"
    <2> DEFINE n == [x EXCEPT !.judged = TRUE, !.groups = G]
    <2>1. m = n
      BY <1>4
    <2>2. G \subseteq SUBSET x.batch /\ {} \notin G
      <3>1. Cardinality({}) = 0
        BY FS_EmptySet
      <3> QED BY <3>1 DEF Partitions
    <2>3. Marker(n) /\ n.batch = x.batch
      BY <1>1, <2>2 DEF Marker
    <2> HIDE DEF m, n
    <2>4. Marker(m) /\ m.batch = x.batch
      BY <2>1, <2>3
    <2>5. Explored(p, new, G) = [m EXCEPT !.done = b]
      BY DEF Explored, m
    <2> HIDE DEF b
    <2>6. b \in BOOLEAN
      BY DEF b
    <2> QED BY <1>4, <2>4, <2>5, <2>6, MarkerDone
  <1>5. CASE p.op \notin {"option_generation", "merge_judge"}
    <2> DEFINE n == [x EXCEPT !.groups = @ \ {p.participants}]
    <2>1. m = n
      BY <1>5
    <2>2. Marker(n) /\ n.batch = x.batch
      BY <1>1 DEF Marker
    <2> HIDE DEF m, n
    <2>3. Marker(m) /\ m.batch = x.batch
      BY <2>1, <2>2
    <2>4. Explored(p, new, G) = [m EXCEPT !.done = b]
      BY DEF Explored, m
    <2> HIDE DEF b
    <2>5. b \in BOOLEAN
      BY DEF b
    <2> QED BY <1>5, <2>3, <2>4, <2>5, MarkerDone
  <1> QED BY <1>3, <1>4, <1>5
\* Holding and requeueing Changes.
LEMMA HoldTyped ==
    ASSUME Inv, NEW opts
    PROVE  /\ Hold(opts) \in Changes /\ Requeued(change) \in Changes
           /\ \A o \in Options, s \in {"NONE", "QUEUED", "RUNNING", "HELD"} :
                 /\ [Hold(opts) EXCEPT ![o] = s] \in Changes
                 /\ [change EXCEPT ![o] = s] \in Changes
  BY DEF Inv, ControlInv, Changes, Hold, Requeued
\* A command begins, goes on or ends.
LEMMA Commanded ==
    ASSUME Inv, status' \in Statuses, change' \in Changes,
           cancelled' \in BOOLEAN,
           \/ ctl' = ctl \/ ctl' = Idle
           \/ \E at \in {"wait", "finish"} : ctl' = [ctl EXCEPT !.at = at]
           \/ \E op \in {"suspend", "closeTask"} :
                 ctl' = [op |-> op, target |-> Root, at |-> "cancel"]
           \/ \E op \in {"FULFILLED", "SUPERSEDED", "ABANDONED"},
                 o \in Options, at \in {"cancel", "finish"} :
                 ctl' = [op |-> op, target |-> o, at |-> at]
    PROVE  ControlInv'
  <1>1. /\ ctl \in CommandRecord
        /\ ctl.target \in Options =>
              ctl.op \in {"FULFILLED", "SUPERSEDED", "ABANDONED"}
    BY DEF Inv, ControlInv
  <1>2. /\ ctl' \in CommandRecord
        /\ ctl'.target \in Options =>
              ctl'.op \in {"FULFILLED", "SUPERSEDED", "ABANDONED"}
    <2>1. CASE ctl' = ctl
      BY <1>1, <2>1
    <2>2. CASE ctl' = Idle
      BY <2>2 DEF Idle, CommandRecord
    <2>3. CASE \E at \in {"wait", "finish"} : ctl' = [ctl EXCEPT !.at = at]
      BY <1>1, <2>3 DEF CommandRecord
    <2>4. CASE \E op \in {"suspend", "closeTask"} :
                 ctl' = [op |-> op, target |-> Root, at |-> "cancel"]
      BY <2>4 DEF CommandRecord
    <2>5. CASE \E op \in {"FULFILLED", "SUPERSEDED", "ABANDONED"},
                  o \in Options, at \in {"cancel", "finish"} :
                 ctl' = [op |-> op, target |-> o, at |-> at]
      BY <2>5 DEF CommandRecord
    <2> QED BY <2>1, <2>2, <2>3, <2>4, <2>5
  <1> QED BY <1>2 DEF ControlInv

\* What every step does to the exploration, the slot and the commands.
ExecStep == MarkerInv' /\ StepInv' /\ ControlInv'
\* Most operations leave the exploration and the slot alone.
LEMMA ExecutionSame ==
    ASSUME Inv, TreeStep, UNCHANGED execution PROVE MarkerInv' /\ StepInv'
  <1>1. x' = x /\ busy' = busy /\ pending' = pending /\ job' = job
    BY DEF execution
  <1>2. Marker(x') /\ x'.batch = x.batch /\ busy' \in BOOLEAN
    BY <1>1 DEF Inv, MarkerInv, StepInv
  <1>3. MarkerInv'
    BY <1>2, MarkerSame
  <1>4. StepInv'
    BY <1>1, <1>2, StepsSame
  <1> QED BY <1>3, <1>4
\* The types of the variables that commands change.
LEMMA ControlTypes ==
    ASSUME Inv
    PROVE  /\ status \in Statuses /\ change \in Changes /\ cancelled \in BOOLEAN
           /\ busy \in BOOLEAN /\ Marker(x)
  BY DEF Inv, ControlInv, StepInv, MarkerInv
\* Operators and leases leave the exploration alone.
LEMMA OperatorExec ==
    ASSUME Inv, TreeStep, Operator \/ Prepare PROVE ExecStep
  <1>1. UNCHANGED <<status, execution, cancelled, ctl>>
    BY DEF Operator, Prepare, Extend, Propose, Split, Merge, AllocateOption,
           ReleaseOption, PauseChange, ResumeChange, tree
  <1>2. change' = change \/ \E o \in Options, s \in {"QUEUED", "HELD"} :
            change' = [change EXCEPT ![o] = s]
    BY DEF Operator, Prepare, Extend, Propose, Split, Merge, AllocateOption,
           ReleaseOption, PauseChange, ResumeChange
  <1>3. change' \in Changes
    BY <1>2, ControlTypes, HoldTyped
  <1>4. ControlInv'
    BY <1>1, <1>3, ControlTypes, Commanded
  <1>5. MarkerInv' /\ StepInv'
    BY <1>1, ExecutionSame
  <1> QED BY <1>4, <1>5 DEF ExecStep
\* The selected step is a possible one.
LEMMA SelectionExec ==
    ASSUME Inv, TreeStep, Selection PROVE ExecStep
  <1>1. UNCHANGED <<status, cancelled, ctl>>
    BY DEF Selection, NextChange, NextExploration, NextNothing, tree
  <1>2. change' \in Changes
    <2>1. \/ \E opts : change' = Hold(opts)
          \/ \E opts : \E o \in Options :
                change' = [Hold(opts) EXCEPT ![o] = "RUNNING"]
      <3>1. CASE \E o \in Options : NextChange(o)
        BY <3>1 DEF NextChange
      <3>2. CASE NextExploration \/ NextNothing
        BY <3>2 DEF NextExploration, NextNothing
      <3> QED BY <3>1, <3>2 DEF Selection
    <2> QED BY <2>1, HoldTyped
  <1>3. ControlInv'
    BY <1>1, <1>2, ControlTypes, Commanded
  <1>4. CASE \E o \in Options : NextChange(o)
    <2>1. PICK o \in Options : Select(Develop(o)) /\ x' = x
      BY <1>4 DEF NextChange
    <2>2. IsStep(Develop(o), x.batch) /\ Develop(o).op # "option_generation"
      BY DEF IsStep, Develop
    <2>3. StepInv'
      BY <2>1, <2>2, StepsSelect
    <2>4. MarkerInv'
      BY <2>1, ControlTypes, MarkerSame
    <2> QED BY <1>3, <2>3, <2>4 DEF ExecStep
  <1>5. CASE NextExploration
    <2>1. Select(explorationStep(x)) /\ x' = x
      BY <1>5 DEF NextExploration
    <2>2. StepInv'
      BY <2>1, ControlTypes, ExplorationSteps, StepsSelect
    <2>3. MarkerInv'
      BY <2>1, ControlTypes, MarkerSame
    <2> QED BY <1>3, <2>2, <2>3 DEF ExecStep
  <1>6. CASE NextNothing
    <2> DEFINE b == x.done \/ (ExplorationDue /\ explorationStep(x) = NoStep)
    <2>1. busy' = busy /\ job' = job /\ pending' = pending
      BY <1>6 DEF NextNothing
    <2>2. x' = [x EXCEPT !.done = b]
      BY <1>6 DEF NextNothing
    <2>3. b \in BOOLEAN
      OBVIOUS
    <2> HIDE DEF b
    <2>4. Marker(x') /\ x'.batch = x.batch /\ x'.count = x.count
      BY <2>2, <2>3, ControlTypes, MarkerDone
    <2>5. MarkerInv'
      BY <2>4, MarkerSame
    <2>6. StepInv'
      BY <2>1, <2>4, ControlTypes, StepsSame
    <2> QED BY <1>3, <2>5, <2>6 DEF ExecStep
  <1> QED BY <1>4, <1>5, <1>6 DEF Selection
\* The slot is freed and the step forgotten.
LEMMA Finished ==
    ASSUME Inv, TreeStep, Finish, x.batch \subseteq x'.batch PROVE StepInv'
  BY StepsSame DEF Finish
\* A step that is refused, stopped or failed frees the slot.
LEMMA FinishExec ==
    ASSUME Inv, TreeStep,
           \/ PrepareRefused
           \/ \E elapsed \in Amounts :
                 CompleteStopped(elapsed) \/ CompleteTerminated(elapsed)
    PROVE  ExecStep
  <1>1. Finish /\ x' = x /\ UNCHANGED <<status, cancelled, ctl>>
    BY DEF PrepareRefused, CompleteStopped, CompleteTerminated, tree
  <1>2. change' = change \/ change' = Requeued(change)
           \/ \E opts : change' = Hold(opts)
    BY DEF PrepareRefused, CompleteStopped, CompleteTerminated
  <1>3. change' \in Changes
    BY <1>2, ControlTypes, HoldTyped
  <1>4. ControlInv'
    BY <1>1, <1>3, ControlTypes, Commanded
  <1>5. StepInv' /\ MarkerInv'
    BY <1>1, ControlTypes, Finished, MarkerSame
  <1> QED BY <1>4, <1>5 DEF ExecStep
\* The end of a Change's step may close the Task.
LEMMA CompleteDevelopExec ==
    ASSUME Inv, TreeStep, NEW elapsed, NEW claim, NEW k,
           CompleteDevelop(elapsed, claim, k)
    PROVE  ExecStep
  <1>0. job.option \in Options
    <2>1. IsStep(job, x.batch) /\ x.batch \in SUBSET Options
      BY DEF Inv, StepInv, MarkerInv, Marker
    <2>2. job.op = "develop"
      BY DEF CompleteDevelop
    <2> QED BY <2>1, <2>2, StepFields
  <1>1. /\ Finish /\ UNCHANGED <<cancelled, ctl>>
        /\ \/ /\ status' = "CLOSED" /\ x' = [x EXCEPT !.done = TRUE]
              /\ \E opts : change' = Hold(opts)
           \/ /\ status' = status /\ x' = x
              /\ \E next \in {"QUEUED", "HELD"} :
                     change' = [change EXCEPT ![job.option] = next]
    <2>1. Finish /\ UNCHANGED <<cancelled, ctl>>
      BY DEF CompleteDevelop
    <2>2. \/ /\ status' = "CLOSED" /\ x' = [x EXCEPT !.done = TRUE]
             /\ \E opts : change' = Hold(opts)
          \/ /\ status' = status /\ x' = x
             /\ \E next \in {"QUEUED", "HELD"} :
                    change' = [change EXCEPT ![job.option] = next]
      BY Zenon DEF CompleteDevelop
    <2> QED BY <2>1, <2>2
  <1>2. change' \in Changes /\ status' \in Statuses
    <2>1. CASE status' = "CLOSED" /\ \E opts : change' = Hold(opts)
      BY <2>1, HoldTyped DEF Statuses
    <2>2. CASE /\ status' = status
               /\ \E next \in {"QUEUED", "HELD"} :
                     change' = [change EXCEPT ![job.option] = next]
      BY <1>0, <2>2, ControlTypes, HoldTyped
    <2> QED BY <1>1, <2>1, <2>2
  <1>3. ControlInv'
    BY <1>1, <1>2, ControlTypes, Commanded
  <1>4. Marker(x') /\ x'.batch = x.batch
    BY <1>1, ControlTypes, MarkerDone
  <1>5. StepInv' /\ MarkerInv'
    BY <1>1, <1>4, Finished, MarkerSame
  <1> QED BY <1>3, <1>5 DEF ExecStep
\* What is generated lies under the Task.
LEMMA CompleteExplorationExec ==
    ASSUME Inv, TreeStep, NEW elapsed \in Amounts, NEW valid \in BOOLEAN,
           NEW k \in Nat, NEW G, G \in Partitions(x.batch),
           CompleteExploration(elapsed, valid, k, G)
    PROVE  ExecStep
  <1> DEFINE S == Settle(led, elapsed, FALSE)
             merges == /\ job.op = "merge_synth" /\ valid
                       /\ \A o \in job.participants : option[o] = "OPEN"
             new == IF job.op = "option_generation" /\ valid
                    THEN NewIds(option, k)
                    ELSE IF merges THEN NewIds(option, 1) ELSE <<>>
             p == IF merges THEN LCA(S, SetToSeq(job.participants)) ELSE Root
  <1>1. /\ Finish /\ x' = Explored(job, new, G)
        /\ job.op \in {"option_generation", "merge_judge", "merge_synth"}
        /\ Leased /\ led' = Adopt(S, new, p)
        /\ UNCHANGED <<status, change, cancelled, ctl>>
        /\ option' = [o \in Options |->
                        IF merges /\ o \in job.participants THEN "SUPERSEDED"
                        ELSE createOptions(option, new)[o]]
    BY DEF CompleteExploration
  <1>2. ControlInv'
    BY <1>1, ControlTypes, Commanded
  <1>3. Fresh(option, new)
    <2>1. Numbered(option) /\ 1 \in Nat
      BY DEF Inv, OptionInv
    <2>2. /\ Fresh(option, NewIds(option, k)) /\ Fresh(option, <<>>)
          /\ Fresh(option, NewIds(option, 1))
      BY <2>1, NewIdsFresh, NothingFresh
    <2> QED BY <2>2
  <1>4. job.op = "option_generation" => p = Root /\ ~merges
    OBVIOUS
  <1> HIDE DEF S, new, p, merges
  <1>5. /\ IsStep(job, x.batch) /\ job.op # "develop"
        /\ job.op = "option_generation" => x.count < ExplorationN
    BY <1>1 DEF Inv, StepInv
  <1>6. /\ Marker(x')
        /\ x'.batch = IF job.op = "option_generation"
                      THEN x.batch \cup ToSet(new) ELSE x.batch
    BY <1>1, <1>3, <1>5, ExploredMarker
  <1>7. StepInv'
    BY <1>1, <1>6, Finished
  <1>8. MarkerInv'
    <2>1. CASE job.op # "option_generation"
      BY <1>6, <2>1, MarkerSame
    <2>2. CASE job.op = "option_generation"
      <3>1. ASSUME NEW o \in ToSet(new)
            PROVE  option'[o] # "NONE" /\ led'.parent[o] = Root
        <4>1. o \in Options /\ Contains(new, o)
          BY <1>3, <3>1, FreshOptions
        <4>2. option'[o] = "OPEN"
          BY <1>1, <1>4, <2>2, <4>1 DEF createOptions
        <4>3. led'.parent[o] = Root
          <5>1. led' = Adopt(S, new, 0)
            BY <1>1, <1>4, <2>2
          <5>2. Sound(S)
            BY <1>1, AmountsBounded, Settles DEF S
          <5>3. \A q \in Options : Contains(new, q) => 0 < q
            OBVIOUS
          <5>4. 0 \in Accounts
            OBVIOUS
          <5> QED BY <4>1, <5>1, <5>2, <5>3, <5>4, AdoptSound
        <4> QED BY <4>2, <4>3
      <3>2. ASSUME NEW o \in x.batch
            PROVE  option'[o] # "NONE" /\ led'.parent[o] = Root
        BY DEF Inv, MarkerInv, Marker, TreeStep, StaysPut
      <3>3. x'.batch = x.batch \cup ToSet(new)
        BY <1>6, <2>2
      <3> QED BY <1>6, <3>1, <3>2, <3>3 DEF MarkerInv
    <2> QED BY <2>1, <2>2
  <1> QED BY <1>2, <1>7, <1>8 DEF ExecStep
\* A crash forgets the step; recovery frees the slot and counts it.
LEMMA RecoverExec ==
    ASSUME Inv, TreeStep, Crash \/ Recover PROVE ExecStep
  <1>1. CASE Crash
    <2>1. /\ UNCHANGED <<status, change, x, busy, pending, cancelled, ctl>>
          /\ job' = NoStep
      BY <1>1 DEF Crash, tree
    <2>2. MarkerInv' /\ StepInv'
      BY <2>1, ControlTypes, MarkerSame, StepsSame
    <2>3. ControlInv'
      BY <2>1, ControlTypes, Commanded
    <2> QED BY <2>2, <2>3 DEF ExecStep
  <1>2. CASE Recover
    <2>1. /\ UNCHANGED <<status, ctl>> /\ cancelled' = FALSE
          /\ \E opts : change' = Hold(opts)
          /\ job = NoStep /\ job' = job /\ busy' = FALSE
          /\ pending' = NoStep \/ pending' = pending
      BY <1>2 DEF Recover
    <2>2. ControlInv'
      BY <2>1, ControlTypes, HoldTyped, Commanded
    <2>3. Marker(x') /\ x'.batch = x.batch
      <3>1. CASE Leased /\ pending.op # "develop"
        <4> DEFINE m == Explored(pending, <<>>, {})
        <4>1. x' = [m EXCEPT !.done = x.done]
          BY <1>2, <3>1 DEF Recover
        <4>2. /\ IsStep(pending, x.batch)
              /\ pending.op = "option_generation" => x.count < ExplorationN
          BY <3>1 DEF Inv, StepInv
        <4>3. Fresh(option, <<>>) /\ \A o : ~Contains(<<>>, o)
          BY NothingFresh DEF Inv, OptionInv
        <4>4. {} \in Partitions(x.batch)
          BY DEF Partitions
        <4>5. ToSet(<<>>) = {}
          BY <4>3, FreshOptions
        <4>6. Marker(m) /\ m.batch = x.batch
          BY <3>1, <4>2, <4>3, <4>4, <4>5, ExploredMarker
        <4>7. x.done \in BOOLEAN
          BY ControlTypes DEF Marker
        <4> HIDE DEF m
        <4> QED BY <4>1, <4>6, <4>7, MarkerDone
      <3>2. CASE ~(Leased /\ pending.op # "develop")
        <4>1. x' = x
          BY <1>2, <3>2 DEF Recover
        <4> QED BY <4>1, ControlTypes
      <3> QED BY <3>1, <3>2
    <2>4. MarkerInv' /\ StepInv'
      BY <2>1, <2>3, MarkerSame, StepsSame
    <2> QED BY <2>2, <2>4 DEF ExecStep
  <1> QED BY <1>1, <1>2
\* A command begins, cancels, waits, commits or gives up.
LEMMA ControlExec ==
    ASSUME Inv, TreeStep, Control PROVE ExecStep
  <1>1. CASE \/ \E o \in Options, reason \in {"FULFILLED", "SUPERSEDED",
                                             "ABANDONED"} : BeginClose(o, reason)
             \/ \E o \in Options : BeginClaim(o)
             \/ \E op \in {"suspend", "closeTask"} : BeginTask(op)
    <2>1. UNCHANGED <<status, change, execution, cancelled>>
      BY <1>1 DEF BeginClose, BeginClaim, BeginTask, Begin, tree
    <2>2. \/ \E op \in {"suspend", "closeTask"} :
                 ctl' = [op |-> op, target |-> Root, at |-> "cancel"]
          \/ \E op \in {"FULFILLED", "SUPERSEDED", "ABANDONED"},
                o \in Options, at \in {"cancel", "finish"} :
                 ctl' = [op |-> op, target |-> o, at |-> at]
      BY <1>1 DEF BeginClose, BeginClaim, BeginTask, Begin
    <2>3. ControlInv'
      BY <2>1, <2>2, ControlTypes, Commanded
    <2> QED BY <2>1, <2>3, ExecutionSame DEF ExecStep
  <1>2. CASE ResumeTask \/ Settled \/ GiveUp \/ FinishRefused
    <2>1. /\ UNCHANGED <<change, execution, cancelled>>
          /\ status' \in {status, "ACTIVE"}
          /\ ctl' = ctl \/ ctl' = Idle \/ ctl' = [ctl EXCEPT !.at = "finish"]
      BY <1>2 DEF ResumeTask, Settled, GiveUp, FinishRefused, tree
    <2>2. status' \in Statuses
      BY <2>1, ControlTypes DEF Statuses
    <2>3. ControlInv'
      BY <2>1, <2>2, ControlTypes, Commanded
    <2> QED BY <2>1, <2>3, ExecutionSame DEF ExecStep
  <1>3. CASE requestCancellation
    <2>1. /\ UNCHANGED <<status, x, busy, job>> /\ cancelled' = TRUE
          /\ \E opts : change' = Hold(opts)
          /\ ctl' = [ctl EXCEPT !.at = "wait"]
          /\ pending' = NoStep \/ pending' = pending
      BY <1>3 DEF requestCancellation, tree
    <2>2. ControlInv'
      BY <2>1, ControlTypes, HoldTyped, Commanded
    <2>3. MarkerInv' /\ StepInv'
      BY <2>1, ControlTypes, MarkerSame, StepsSame
    <2> QED BY <2>2, <2>3 DEF ExecStep
  <1>4. CASE FinishClose \/ FinishSuspend
    <2>1. /\ UNCHANGED <<change, x, busy, job>> /\ cancelled' = FALSE
          /\ status' \in {status, "SUSPENDED"} /\ ctl' = Idle
          /\ pending' = NoStep \/ pending' = pending
      BY <1>4 DEF FinishClose, FinishSuspend
    <2>2. ControlInv'
      BY <2>1, ControlTypes, Commanded DEF Statuses
    <2>3. MarkerInv' /\ StepInv'
      BY <2>1, ControlTypes, MarkerSame, StepsSame
    <2> QED BY <2>2, <2>3 DEF ExecStep
  <1>5. CASE FinishCloseTask
    <2>1. /\ UNCHANGED <<busy, job>> /\ cancelled' = FALSE
          /\ \E opts : change' = Hold(opts)
          /\ status' = "CLOSED" /\ ctl' = Idle /\ pending' = NoStep
          /\ x' = [x EXCEPT !.done = TRUE]
      BY <1>5 DEF FinishCloseTask
    <2>2. ControlInv'
      BY <2>1, ControlTypes, HoldTyped, Commanded DEF Statuses
    <2>3. Marker(x') /\ x'.batch = x.batch /\ x'.count = x.count
      BY <2>1, ControlTypes, MarkerDone
    <2>4. MarkerInv' /\ StepInv'
      BY <2>1, <2>3, ControlTypes, MarkerSame, StepsSame
    <2> QED BY <2>2, <2>4 DEF ExecStep
  <1> QED BY <1>1, <1>2, <1>3, <1>4, <1>5 DEF Control
\* Every step of Next.
LEMMA NextExec ==
    ASSUME Inv, TreeStep, [Next]_vars PROVE ExecStep
  <1>1. CASE Operator \/ Prepare
    BY <1>1, OperatorExec
  <1>2. CASE Selection
    BY <1>2, SelectionExec
  <1>3. CASE PrepareRefused
    BY <1>3, FinishExec
  <1>4. CASE Completion
    <2>1. PICK elapsed \in Amounts :
        \/ CompleteStopped(elapsed) \/ CompleteTerminated(elapsed)
        \/ \E claim \in Accounts \cup {NoClaim}, k \in 0..1 :
              CompleteDevelop(elapsed, claim, k)
        \/ \E valid \in BOOLEAN, k \in 0..2, groups \in Partitions(x.batch) :
              CompleteExploration(elapsed, valid, k, groups)
      BY <1>4 DEF Completion
    <2>2. CASE CompleteStopped(elapsed) \/ CompleteTerminated(elapsed)
      BY <2>2, FinishExec
    <2>3. CASE \E claim \in Accounts \cup {NoClaim}, k \in 0..1 :
                   CompleteDevelop(elapsed, claim, k)
      BY <2>3, CompleteDevelopExec
    <2>4. CASE \E valid \in BOOLEAN, k \in 0..2,
                  groups \in Partitions(x.batch) :
                   CompleteExploration(elapsed, valid, k, groups)
      <3>1. PICK valid \in BOOLEAN, k \in 0..2, groups \in Partitions(x.batch) :
                   CompleteExploration(elapsed, valid, k, groups)
        BY <2>4
      <3>2. k \in Nat
        OBVIOUS
      <3> QED BY <3>1, <3>2, CompleteExplorationExec
    <2> QED BY <2>1, <2>2, <2>3, <2>4
  <1>5. CASE Crash \/ Recover
    BY <1>5, RecoverExec
  <1>6. CASE Control
    BY <1>6, ControlExec
  <1>7. CASE UNCHANGED vars
    <2>1. UNCHANGED <<status, change, execution, cancelled, ctl>>
      BY <1>7 DEF vars, execution
    <2> QED BY <2>1, ControlTypes, Commanded, ExecutionSame DEF ExecStep
  <1> QED BY <1>1, <1>2, <1>3, <1>4, <1>5, <1>6, <1>7 DEF Next

-----------------------------------------------------------------------------
(* The theorems.                                                           *)

\* A new Task has its budget, no Option and nothing to do.
LEMMA InvInit ==
    ASSUME Init PROVE Inv
  <1>1. Sound(led) /\ led.lease = NoLease
    BY FundingAssumption, NewLedgerSound DEF Init
  <1>2. OptionInv
    <2>1. option = [o \in Options |-> "NONE"]
      BY DEF Init
    <2>2. 0 \in Accounts /\ \A o \in Options : option[o] = "NONE" <=> o > 0
      BY <2>1
    <2>3. Numbered(option)
      BY <2>2 DEF Numbered
    <2> QED BY <2>1, <2>3 DEF OptionInv, Outcomes
  <1>3. LeaseOnLive
    BY <1>1 DEF LeaseOnLive, Leased
  <1>4. MarkerInv
    <2>1. x = [count |-> 0, batch |-> {}, judged |-> FALSE, groups |-> {},
               done |-> FALSE]
      BY DEF Init
    <2>2. 0 \in 0..ExplorationN
      BY FundingAssumption
    <2> QED BY <2>1, <2>2 DEF MarkerInv, Marker
  <1>5. StepInv
    <2>1. busy = FALSE /\ pending = NoStep /\ job = NoStep
      BY DEF Init
    <2>2. IsStep(NoStep, x.batch) /\ NoStep.op # "option_generation"
      BY DEF IsStep, NoStep
    <2> QED BY <1>1, <2>1, <2>2 DEF StepInv, Leased
  <1>6. ControlInv
    <2>1. /\ status = "ACTIVE" /\ cancelled = FALSE /\ ctl = Idle
          /\ change = [o \in Options |-> "NONE"]
      BY DEF Init
    <2>2. Idle \in CommandRecord /\ Idle.target \notin Options
      BY DEF Idle, CommandRecord
    <2> QED BY <2>1, <2>2 DEF ControlInv, Statuses, Changes
  <1> QED BY <1>1, <1>2, <1>3, <1>4, <1>5, <1>6 DEF Inv
\* Every step keeps the invariant.
LEMMA InvNext ==
    ASSUME Inv, [Next]_vars PROVE Inv'
  <1>1. TreeStep
    BY NextTree
  <1>2. ExecStep
    BY <1>1, NextExec
  <1> QED BY <1>1, <1>2 DEF Inv, TreeStep, ExecStep
\* The invariant holds in every reachable state.
LEMMA Invariant == Spec => []Inv
  <1>1. Init => Inv
    BY InvInit
  <1>2. Inv /\ [Next]_vars => Inv'
    BY InvNext
  <1> QED BY <1>1, <1>2, PTL DEF Spec

\* Every variable has its type: balances fit into 64 bits, and the pending
\* step and the command are of a kind the code knows.
THEOREM TypeCorrect == Spec => []TypeOK
  <1>1. ASSUME Inv PROVE TypeOK
    <2>1. /\ led \in LedgerRecord /\ led.ok
          /\ \A a \in Accounts : led.remaining[a] \in 0..MaxInt
      BY <1>1 DEF Inv, Sound
    <2>2. option \in [Options -> {"NONE", "OPEN", "FULFILLED", "SUPERSEDED",
                                  "ABANDONED"}]
      BY <1>1 DEF Inv, OptionInv, Outcomes
    <2>3. /\ x.count \in 0..ExplorationN /\ x.batch \subseteq Options
          /\ x.groups \in SUBSET (SUBSET x.batch)
          /\ x.judged \in BOOLEAN /\ x.done \in BOOLEAN
      BY <1>1 DEF Inv, MarkerInv, Marker
    <2>4. busy \in BOOLEAN /\ cancelled \in BOOLEAN /\ ctl \in CommandRecord
      BY <1>1 DEF Inv, StepInv, ControlInv
    <2>5. pending \in StepRecord /\ job \in StepRecord
      BY <1>1, StepFields DEF Inv, StepInv, MarkerInv, Marker
    <2>6. /\ status \in {"ACTIVE", "SUSPENDED", "CLOSED"}
          /\ change \in [Options -> {"NONE", "QUEUED", "RUNNING", "HELD"}]
      BY <1>1 DEF Inv, ControlInv, Statuses, Changes
    <2> QED BY <2>1, <2>2, <2>3, <2>4, <2>5, <2>6 DEF TypeOK
  <1> QED BY <1>1, Invariant, PTL
\* What was minted is what remains, is leased, was charged or retired: no
\* transaction fails the equation Refresh would stop the harness on.
THEOREM Conservation == Spec => []Conserved
  <1>1. ASSUME Inv PROVE Conserved
    BY <1>1 DEF Inv, Sound, Conserved
  <1> QED BY <1>1, Invariant, PTL
\* No step runs on the time of an Option that was fulfilled or abandoned.
THEOREM LeasesAreLive == Spec => []LeaseOnLive
  <1>1. ASSUME Inv PROVE LeaseOnLive
    BY <1>1 DEF Inv
  <1> QED BY <1>1, Invariant, PTL
\* A merged Option hangs below the deepest account above all participants.
THEOREM MergesBelowDeepest == Spec => []MergesDeepest
  <1>1. ASSUME Inv PROVE MergesDeepest
    <2>1. Descends(led.parent)
      BY <1>1 DEF Inv, Sound
    <2>2. ASSUME NEW o \in Options, NEW q \in Options, NEW r \in Options
          PROVE  LCA(led, <<o, q, r>>) = DeepestCommon(led, <<o, q, r>>)
      <3> DEFINE ids == <<o, q, r>>
      <3>1. ids \in Seq(Accounts) /\ 1 \in DOMAIN ids
        OBVIOUS
      <3> HIDE DEF ids
      <3>2. LCA(led, ids) = DeepestCommon(led, ids)
        BY <2>1, <3>1, LCAReference
      <3> QED BY <3>2 DEF ids
    <2> QED BY <2>2 DEF MergesDeepest
  <1> QED BY <1>1, Invariant, PTL
\* An Option is closed once, for one reason.
THEOREM OptionsCloseOnce == Spec => ClosedOnce
  <1>1. ASSUME Inv, [Next]_vars
        PROVE  [\A o \in Options : option[o] \notin {"NONE", "OPEN"} =>
                   option'[o] = option[o]]_vars
    <2>1. StaysClosed
      BY <1>1, NextTree DEF TreeStep
    <2> QED BY <2>1 DEF StaysClosed
  <1> QED BY <1>1, Invariant, PTL DEF Spec, ClosedOnce
\* Transfers leave the root its reserve.
THEOREM ReserveKept == Spec => RootRetained
  <1>1. ASSUME Inv, [Next]_vars
        PROVE  [ \/ led'.remaining[Root] >= led.remaining[Root]
                 \/ led'.lease # led.lease
                 \/ status' = "CLOSED"
                 \/ led'.remaining[Root] >= MinRootAfterTransferMS ]_vars
    <2>1. Retained
      BY <1>1, NextTree DEF TreeStep
    <2> QED BY <2>1 DEF Retained
  <1> QED BY <1>1, Invariant, PTL DEF Spec, RootRetained
\* However the tree was shaped, Allocate takes from the nearest ancestor
\* first and succeeds exactly if the ancestors together can pay.
THEOREM AllocatesNearest == Spec => []AllocatesNearestFirst
  <1>1. ASSUME Inv PROVE AllocatesNearestFirst
    <2>1. ASSUME NEW o \in Options, NEW n \in 1..MaxInt
          PROVE  LET got == Allocate(led, o, n)
                     want == NearestFirst(led, o, n)
                 IN  got.ok = want.ok /\ (got.ok => got = want)
      <3> DEFINE got == Allocate(led, o, n)
                 want == NearestFirst(led, o, n)
                 given == Given(led, Above(led, o))
                 drawn == [led EXCEPT !.remaining = Drawn(led, o, n)]
      <3>1. Sound(led) /\ led \in LedgerRecord /\ led.ok = TRUE /\ n \in Nat
        BY <1>1 DEF Inv, Sound, LedgerRecord
      <3>2. /\ given < n => ~got.ok
            /\ given >= n => got.ok /\ got = drawn
        BY <3>1, AllocateNearest DEF Nearest
      <3>3. want = IF given < n THEN Refused(led) ELSE drawn
        BY DEF NearestFirst, Drawn
      <3>4. drawn.ok = TRUE /\ Refused(led).ok = FALSE
        <4> DEFINE f == Drawn(led, o, n)
        <4> HIDE DEF f
        <4>1. [led EXCEPT !.remaining = f].ok = TRUE
          BY <3>1 DEF LedgerRecord
        <4>2. Refused(led).ok = FALSE
          BY <3>1 DEF Refused, LedgerRecord
        <4> QED BY <4>1, <4>2 DEF f
      <3>5. got \in LedgerRecord
        <4>1. n \in 0..MaxInt
          OBVIOUS
        <4> QED BY <3>1, <4>1, AllocateDef
      <3>6. given \in Nat
        BY <3>1, GivenDef DEF Above
      <3> HIDE DEF got, want, given, drawn
      <3>7. got.ok \in BOOLEAN
        BY <3>5, LedgerFields
      <3>8. CASE given < n
        BY <3>2, <3>3, <3>4, <3>7, <3>8 DEF got, want
      <3>9. CASE ~(given < n)
        <4>1. got.ok /\ got = drawn /\ want = drawn
          BY <3>1, <3>2, <3>3, <3>6, <3>9
        <4> QED BY <3>4, <4>1 DEF got, want
      <3> QED BY <3>8, <3>9
    <2> QED BY <2>1 DEF AllocatesNearestFirst
  <1> QED BY <1>1, Invariant, PTL

=============================================================================
