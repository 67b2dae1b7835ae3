---------------------------- MODULE CoinsProofs ----------------------------
(***************************************************************************)
(* What the conservation proofs need to know about Total: it is a natural  *)
(* number, changes by the change of one entry, adds up over a split or a   *)
(* pointwise sum, and does not depend on how amounts are grouped.  Last,   *)
(* induction and recursion on numbers, in a form the provers can apply:    *)
(* for a property given as a set, and for a step given as a function.      *)
(***************************************************************************)
EXTENDS Coins, FiniteSetTheorems, WellFoundedInduction, TLAPS

(* A bijection between a finite set and another shows they count the same. *)
LEMMA CountByBijection ==
  ASSUME NEW S, NEW T, IsFiniteSet(S), NEW h \in [S -> T],
         \A x, y \in S : h[x] = h[y] => x = y,
         \A t \in T : \E x \in S : h[x] = t
  PROVE  IsFiniteSet(T) /\ Cardinality(T) = Cardinality(S)
<1>1. h \in Bijection(S, T)
  BY Zenon DEF Bijection, Injection, Surjection, IsInjective
<1>2. ExistsBijection(S, T)
  BY <1>1, Zenon DEF ExistsBijection
<1> QED
  BY <1>2, FS_Bijection, Zenon

(* What a coin is.                                                         *)
LEMMA CoinMembership ==
  ASSUME NEW f, NEW c
  PROVE  c \in Coins(f) <=> \E x \in DOMAIN f : \E i \in 1..f[x] : c = <<x, i>>
BY DEF Coins

(* The coins of finitely many holders are finitely many.                   *)
LEMMA CoinsFinite ==
  ASSUME NEW D, IsFiniteSet(D), NEW f \in [D -> Nat]
  PROVE  IsFiniteSet(Coins(f)) /\ Total(f) \in Nat
<1> DEFINE Purse(x) == {x} \X (1..f[x])
           Purses == {Purse(x) : x \in D}
           h == [x \in D |-> Purse(x)]
<1>1. h \in Surjection(D, Purses)
  BY DEF Surjection
<1>2. IsFiniteSet(Purses)
  <2> HIDE DEF h, Purses
  <2> QED BY <1>1, FS_Surjection
<1>3. \A T \in Purses : IsFiniteSet(T)
  <2>1. ASSUME NEW x \in D PROVE IsFiniteSet(Purse(x))
    <3>1. IsFiniteSet({x})
      BY FS_Singleton
    <3>2. f[x] \in Int
      OBVIOUS
    <3>3. IsFiniteSet(1..f[x])
      BY <3>2, FS_Interval
    <3> QED BY <3>1, <3>3, FS_Product
  <2> QED BY <2>1
<1>4. Coins(f) = UNION Purses
  BY DEF Coins
<1>5. IsFiniteSet(Coins(f))
  <2> HIDE DEF Purses
  <2> QED BY <1>2, <1>3, <1>4, FS_UNION
<1> QED
  BY <1>5, FS_CardinalityType DEF Total

(* Two holdings with disjoint coins that make up a third add up to it.     *)
LEMMA TotalSplit ==
  ASSUME NEW D, IsFiniteSet(D), NEW f \in [D -> Nat],
         NEW E, IsFiniteSet(E), NEW g \in [E -> Nat],
         NEW h, Coins(h) = Coins(f) \cup Coins(g), Coins(f) \cap Coins(g) = {}
  PROVE  Total(h) = Total(f) + Total(g)
<1>1. IsFiniteSet(Coins(f)) /\ Total(f) \in Nat
  BY CoinsFinite
<1>2. IsFiniteSet(Coins(g)) /\ Total(g) \in Nat
  BY CoinsFinite
<1>3. Cardinality(Coins(f) \cup Coins(g)) =
        Cardinality(Coins(f)) + Cardinality(Coins(g)) - Cardinality(Coins(f) \cap Coins(g))
  BY <1>1, <1>2, FS_Union
<1>4. Cardinality(Coins(f) \cap Coins(g)) = 0
  BY FS_EmptySet
<1> QED
  BY <1>1, <1>2, <1>3, <1>4 DEF Total

(* The total of a single entry.                                            *)
LEMMA TotalSingle ==
  ASSUME NEW x, NEW n \in Nat
  PROVE  Total([y \in {x} |-> n]) = n
<1> DEFINE f == [y \in {x} |-> n]
           h == [i \in 1..n |-> <<x, i>>]
<1>1. \A c : c \in Coins(f) <=> \E i \in 1..n : c = <<x, i>>
  BY DEF Coins
<1>2. IsFiniteSet(1..n) /\ Cardinality(1..n) = n
  BY FS_Interval
<1>3. h \in [1..n -> Coins(f)]
  BY <1>1
<1>4. \A i, j \in 1..n : h[i] = h[j] => i = j
  OBVIOUS
<1>5. \A c \in Coins(f) : \E i \in 1..n : h[i] = c
  BY <1>1
<1> HIDE DEF h, f
<1>6. Cardinality(Coins(f)) = Cardinality(1..n)
  BY <1>2, <1>3, <1>4, <1>5, CountByBijection
<1> QED
  BY <1>2, <1>6 DEF Total, f

(* Taking one holder out.                                                  *)
LEMMA TotalRemove ==
  ASSUME NEW D, IsFiniteSet(D), NEW f \in [D -> Nat], NEW x \in D
  PROVE  /\ Total([y \in D \ {x} |-> f[y]]) \in Nat
         /\ Total(f) = Total([y \in D \ {x} |-> f[y]]) + f[x]
<1> DEFINE g == [y \in D \ {x} |-> f[y]]
           s == [y \in {x} |-> f[x]]
<1>1. IsFiniteSet(D \ {x}) /\ IsFiniteSet({x})
  BY FS_RemoveElement, FS_Singleton
<1>2. g \in [D \ {x} -> Nat] /\ s \in [{x} -> Nat]
  OBVIOUS
<1>3. Coins(f) = Coins(g) \cup Coins(s)
  BY DEF Coins
<1>4. Coins(g) \cap Coins(s) = {}
  BY DEF Coins
<1>5. Total(s) = f[x]
  BY TotalSingle
<1> HIDE DEF g, s
<1>6. Total(f) = Total(g) + Total(s)
  BY <1>1, <1>2, <1>3, <1>4, TotalSplit
<1>7. Total(g) \in Nat
  BY <1>1, <1>2, CoinsFinite
<1> QED
  BY <1>5, <1>6, <1>7 DEF g

(* No holder has more than everybody together.                             *)
LEMMA TotalBound ==
  ASSUME NEW D, IsFiniteSet(D), NEW f \in [D -> Nat], NEW x \in D
  PROVE  f[x] <= Total(f)
<1> DEFINE rest == Total([y \in D \ {x} |-> f[y]])
<1>1. rest \in Nat /\ Total(f) = rest + f[x]
  BY TotalRemove
<1> HIDE DEF rest
<1> QED
  BY <1>1

(* Changing one entry changes the total by as much.                        *)
LEMMA TotalUpdate ==
  ASSUME NEW D, IsFiniteSet(D), NEW f \in [D -> Nat], NEW g \in [D -> Nat],
         NEW x \in D, \A y \in D \ {x} : g[y] = f[y]
  PROVE  Total(g) + f[x] = Total(f) + g[x]
<1>1. [y \in D \ {x} |-> f[y]] = [y \in D \ {x} |-> g[y]]
  OBVIOUS
<1> DEFINE rest == Total([y \in D \ {x} |-> f[y]])
<1>2. rest \in Nat /\ Total(f) = rest + f[x]
  BY TotalRemove
<1>3. Total(g) = rest + g[x]
  BY <1>1, TotalRemove
<1> HIDE DEF rest
<1> QED
  BY <1>2, <1>3

(* A new entry adds its amount.                                            *)
LEMMA TotalExtend ==
  ASSUME NEW D, IsFiniteSet(D), NEW f \in [D -> Nat], NEW x, x \notin D,
         NEW g \in [D \cup {x} -> Nat], \A y \in D : g[y] = f[y]
  PROVE  Total(g) = Total(f) + g[x]
<1>1. IsFiniteSet(D \cup {x})
  BY FS_AddElement
<1>2. [y \in (D \cup {x}) \ {x} |-> g[y]] = f
  OBVIOUS
<1> QED
  BY <1>1, <1>2, TotalRemove

(* Emptying some entries takes their amounts out of the total.             *)
LEMMA TotalRelease ==
  ASSUME NEW D, IsFiniteSet(D), NEW f \in [D -> Nat], NEW S \in SUBSET D
  PROVE  Total(f) = Total([x \in D |-> IF x \in S THEN 0 ELSE f[x]])
                    + Total([x \in S |-> f[x]])
<1> DEFINE g == [x \in D |-> IF x \in S THEN 0 ELSE f[x]]
           s == [x \in S |-> f[x]]
<1>1. IsFiniteSet(S)
  BY FS_Subset
<1>2. g \in [D -> Nat] /\ s \in [S -> Nat]
  OBVIOUS
<1>3. ASSUME NEW c PROVE c \in Coins(f) <=> c \in Coins(g) \/ c \in Coins(s)
  <2>1. c \in Coins(g) <=> \E x \in D : \E i \in 1..g[x] : c = <<x, i>>
    BY CoinMembership
  <2>2. c \in Coins(s) <=> \E x \in S : \E i \in 1..f[x] : c = <<x, i>>
    BY CoinMembership
  <2>3. c \in Coins(f) <=> \E x \in D : \E i \in 1..f[x] : c = <<x, i>>
    BY CoinMembership
  <2> QED BY <2>1, <2>2, <2>3
<1>4. ASSUME NEW c, c \in Coins(g), c \in Coins(s) PROVE FALSE
  <2>1. PICK x \in D : \E i \in 1..g[x] : c = <<x, i>>
    BY <1>4, CoinMembership
  <2>2. PICK y \in S : \E i \in 1..f[y] : c = <<y, i>>
    BY <1>4, CoinMembership
  <2> QED BY <2>1, <2>2
<1> HIDE DEF g, s
<1>5. Coins(f) = Coins(g) \cup Coins(s) /\ Coins(g) \cap Coins(s) = {}
  BY <1>3, <1>4
<1>6. Total(f) = Total(g) + Total(s)
  BY <1>1, <1>2, <1>5, TotalSplit
<1> QED
  BY <1>6 DEF g, s

(* The total of a pointwise sum is the sum of the totals.                  *)
LEMMA TotalPlus ==
  ASSUME NEW D, IsFiniteSet(D), NEW f \in [D -> Nat], NEW g \in [D -> Nat]
  PROVE  Total([x \in D |-> f[x] + g[x]]) = Total(f) + Total(g)
<1> DEFINE sum == [x \in D |-> f[x] + g[x]]
           Upper == {c \in Coins(sum) : c \notin Coins(f)}
           shift == [c \in Coins(g) |-> <<c[1], f[c[1]] + c[2]>>]
<1>1. sum \in [D -> Nat]
  OBVIOUS
<1>2. \A c : c \in Coins(sum) <=> \E x \in D : \E i \in 1..(f[x] + g[x]) : c = <<x, i>>
  BY CoinMembership
<1>3. \A c : c \in Coins(f) <=> \E x \in D : \E i \in 1..f[x] : c = <<x, i>>
  BY CoinMembership
<1>4. \A c : c \in Coins(g) <=> \E x \in D : \E i \in 1..g[x] : c = <<x, i>>
  BY CoinMembership
<1> HIDE DEF sum
<1>5. ASSUME NEW x \in D, NEW i \in 1..g[x]
      PROVE  <<x, f[x] + i>> \in Upper
  BY <1>2, <1>3
<1>6. shift \in [Coins(g) -> Upper]
  BY <1>4, <1>5
<1>7. \A c, e \in Coins(g) : shift[c] = shift[e] => c = e
  BY <1>4
<1>8. ASSUME NEW u \in Upper PROVE \E c \in Coins(g) : shift[c] = u
  <2>1a. PICK x \in D : \E i \in 1..(f[x] + g[x]) : u = <<x, i>>
    BY <1>2
  <2>1. PICK i \in 1..(f[x] + g[x]) : u = <<x, i>>
    BY <2>1a
  <2>2. i > f[x]
    BY <1>3, <2>1
  <2>3. i - f[x] \in 1..g[x]
    BY <2>1, <2>2
  <2>4. <<x, i - f[x]>> \in Coins(g)
    BY <1>4, <2>3
  <2>5. shift[<<x, i - f[x]>>] = u
    BY <2>1, <2>4
  <2> QED BY <2>4, <2>5
<1> HIDE DEF shift
<1>9. IsFiniteSet(Coins(f)) /\ IsFiniteSet(Coins(g)) /\ Total(f) \in Nat /\ Total(g) \in Nat
  BY CoinsFinite
<1>10. IsFiniteSet(Upper) /\ Cardinality(Upper) = Total(g)
  <2> HIDE DEF Upper
  <2> QED BY <1>6, <1>7, <1>8, <1>9, CountByBijection DEF Total
<1>11. \A c \in Coins(f) : c \in Coins(sum)
  <2> SUFFICES ASSUME NEW c \in Coins(f) PROVE c \in Coins(sum)
    OBVIOUS
  <2>1a. PICK x \in D : \E i \in 1..f[x] : c = <<x, i>>
    BY <1>3
  <2>1. PICK i \in 1..f[x] : c = <<x, i>>
    BY <2>1a
  <2>2. i \in 1..(f[x] + g[x])
    OBVIOUS
  <2> QED BY <1>2, <2>1, <2>2
<1>12. Coins(sum) = Coins(f) \cup Upper /\ Coins(f) \cap Upper = {}
  BY <1>11
<1> HIDE DEF Upper
<1>13. Cardinality(Coins(sum)) = Cardinality(Coins(f)) + Cardinality(Upper) - Cardinality({})
  BY <1>9, <1>10, <1>12, FS_Union
<1> QED
  BY <1>9, <1>10, <1>13, FS_EmptySet DEF Total, sum

(* The amounts f of the items in S, added up by the account they go to.    *)
Grouped(D, S, f, to) == [a \in D |-> Total([b \in {c \in S : to[c] = a} |-> f[b]])]

(* Amounts paid to accounts add up to the amounts paid, however they are   *)
(* grouped by account.                                                     *)
LEMMA TotalRegroup ==
  ASSUME NEW D, IsFiniteSet(D), NEW S, IsFiniteSet(S),
         NEW f \in [S -> Nat], NEW to \in [S -> D]
  PROVE  Grouped(D, S, f, to) \in [D -> Nat] /\ Total(Grouped(D, S, f, to)) = Total(f)
<1> DEFINE Group(a) == {c \in S : to[c] = a}
           part == [a \in D |-> Coins([b \in Group(a) |-> f[b]])]
           g == [a \in D |-> Total([b \in Group(a) |-> f[b]])]
<1>1. ASSUME NEW a \in D
      PROVE  /\ IsFiniteSet(part[a])
             /\ g[a] = Cardinality(part[a])
             /\ g[a] \in Nat
  <2>1. IsFiniteSet(Group(a))
    <3>1. Group(a) \in SUBSET S
      OBVIOUS
    <3> HIDE DEF Group
    <3> QED BY <3>1, FS_Subset
  <2>2. [b \in Group(a) |-> f[b]] \in [Group(a) -> Nat]
    OBVIOUS
  <2> HIDE DEF Group
  <2> QED BY <2>1, <2>2, CoinsFinite DEF Total
<1>2. ASSUME NEW a \in D, NEW c
      PROVE  c \in part[a] <=> \E b \in S : to[b] = a /\ \E i \in 1..f[b] : c = <<b, i>>
  BY CoinMembership
<1>3. \A c : c \in Coins(f) <=> \E b \in S : \E i \in 1..f[b] : c = <<b, i>>
  BY CoinMembership
<1>4. g \in [D -> Nat]
  <2> DEFINE G(a) == Total([b \in Group(a) |-> f[b]])
  <2>1. \A a \in D : G(a) \in Nat
    BY <1>1
  <2> HIDE DEF G
  <2>2. [a \in D |-> G(a)] \in [D -> Nat]
    BY <2>1
  <2> QED BY <2>2 DEF G
<1> HIDE DEF part, g
<1> DEFINE num == [a \in D |-> CHOOSE h : h \in Bijection(1..g[a], part[a])]
<1>5. ASSUME NEW a \in D PROVE num[a] \in Bijection(1..g[a], part[a])
  <2>1. ExistsBijection(1..g[a], part[a])
    BY <1>1, FS_CardinalityType
  <2>2. \E h : h \in Bijection(1..g[a], part[a])
    BY <2>1 DEF ExistsBijection
  <2> QED BY <2>2
<1> HIDE DEF num
<1>6. ASSUME NEW a \in D
      PROVE  /\ num[a] \in [1..g[a] -> part[a]]
             /\ \A i, j \in 1..g[a] : num[a][i] = num[a][j] => i = j
             /\ \A t \in part[a] : \E i \in 1..g[a] : num[a][i] = t
  BY <1>5, Zenon DEF Bijection, Injection, Surjection, IsInjective
<1>7. \A c : c \in Coins(g) <=> \E a \in D : \E i \in 1..g[a] : c = <<a, i>>
  <2>1. DOMAIN g = D
    BY <1>4
  <2> QED BY <2>1, CoinMembership
<1> DEFINE all == [c \in Coins(g) |-> num[c[1]][c[2]]]
<1>8. \A a \in D : \A i \in 1..g[a] : /\ <<a, i>> \in Coins(g)
                                     /\ all[<<a, i>>] = num[a][i]
                                     /\ num[a][i] \in part[a]
  BY <1>6, <1>7
<1>9. all \in [Coins(g) -> Coins(f)]
  <2>1. ASSUME NEW c \in Coins(g) PROVE all[c] \in Coins(f)
    <3>1a. PICK a \in D : \E i \in 1..g[a] : c = <<a, i>>
      BY <1>7
    <3>1. PICK i \in 1..g[a] : c = <<a, i>>
      BY <3>1a
    <3>2. all[c] \in part[a]
      BY <1>8, <3>1
    <3> HIDE DEF all
    <3> QED BY <1>2, <1>3, <3>2
  <2> QED BY <2>1
<1>10. ASSUME NEW c \in Coins(g), NEW e \in Coins(g), all[c] = all[e] PROVE c = e
  <2>1a. PICK a \in D : \E i \in 1..g[a] : c = <<a, i>>
    BY <1>7
  <2>1. PICK i \in 1..g[a] : c = <<a, i>>
    BY <2>1a
  <2>2a. PICK b \in D : \E j \in 1..g[b] : e = <<b, j>>
    BY <1>7
  <2>2. PICK j \in 1..g[b] : e = <<b, j>>
    BY <2>2a
  <2>3. all[c] = num[a][i] /\ all[c] \in part[a] /\ all[e] = num[b][j] /\ all[e] \in part[b]
    BY <1>8, <2>1, <2>2
  <2> HIDE DEF all
  <2>4. a = b
    <3>1. PICK x \in S : to[x] = a /\ \E k \in 1..f[x] : all[c] = <<x, k>>
      BY <1>2, <2>3
    <3>2. PICK y \in S : to[y] = b /\ \E k \in 1..f[y] : all[c] = <<y, k>>
      BY <1>2, <1>10, <2>3
    <3> QED BY <3>1, <3>2
  <2>5. i = j
    <3>1. num[a][i] = num[a][j] /\ j \in 1..g[a]
      BY <1>10, <2>3, <2>4
    <3>2. \A k, l \in 1..g[a] : num[a][k] = num[a][l] => k = l
      BY <1>6
    <3> HIDE DEF Group
    <3> QED BY <3>1, <3>2, Zenon
  <2> QED BY <2>1, <2>2, <2>4, <2>5
<1>11. ASSUME NEW t \in Coins(f) PROVE \E c \in Coins(g) : all[c] = t
  <2>1. PICK b \in S : \E i \in 1..f[b] : t = <<b, i>>
    BY <1>3
  <2>2. to[b] \in D /\ t \in part[to[b]]
    BY <1>2, <2>1
  <2>3. PICK i \in 1..g[to[b]] : num[to[b]][i] = t
    BY <1>6, <2>2
  <2>4. <<to[b], i>> \in Coins(g) /\ all[<<to[b], i>>] = t
    BY <1>8, <2>2, <2>3
  <2> QED BY <2>4
<1> HIDE DEF all
<1>12. IsFiniteSet(Coins(g))
  BY <1>4, CoinsFinite
<1>13. Cardinality(Coins(f)) = Cardinality(Coins(g))
  BY <1>9, <1>10, <1>11, <1>12, CountByBijection
<1>14. Grouped(D, S, f, to) = g
  BY DEF Grouped, g
<1> QED
  BY <1>4, <1>13, <1>14 DEF Total

(* A credit and a debit of one account.                                    *)
LEMMA TotalCredit ==
  ASSUME NEW D, IsFiniteSet(D), NEW f \in [D -> Nat], NEW g \in [D -> Nat],
         NEW a \in D, NEW n \in Nat, g[a] = f[a] + n, \A y \in D \ {a} : g[y] = f[y]
  PROVE  Total(g) = Total(f) + n
<1>1. Total(g) + f[a] = Total(f) + g[a]
  BY TotalUpdate
<1>2. Total(f) \in Nat /\ Total(g) \in Nat /\ f[a] \in Nat /\ g[a] \in Nat
  BY CoinsFinite
<1> QED
  BY <1>1, <1>2

LEMMA TotalDebit ==
  ASSUME NEW D, IsFiniteSet(D), NEW f \in [D -> Nat], NEW g \in [D -> Nat],
         NEW a \in D, NEW n \in Nat, g[a] = f[a] - n, \A y \in D \ {a} : g[y] = f[y]
  PROVE  Total(g) + n = Total(f)
<1>1. Total(g) + f[a] = Total(f) + g[a]
  BY TotalUpdate
<1>2. Total(f) \in Nat /\ Total(g) \in Nat /\ f[a] \in Nat /\ g[a] \in Nat
  BY CoinsFinite
<1> QED
  BY <1>1, <1>2

(* Renaming the holders, and leaving out some that have nothing.           *)
LEMMA TotalRename ==
  ASSUME NEW D, IsFiniteSet(D), NEW f \in [D -> Nat],
         NEW S \in SUBSET D, \A x \in D \ S : f[x] = 0,
         NEW N, NEW r \in [S -> N], \A x, y \in S : r[x] = r[y] => x = y,
         \A y \in N : \E x \in S : r[x] = y,
         NEW g \in [N -> Nat], \A x \in S : g[r[x]] = f[x]
  PROVE  IsFiniteSet(N) /\ Total(g) = Total(f)
<1> DEFINE h == [c \in Coins(f) |-> <<r[c[1]], c[2]>>]
<1>1. IsFiniteSet(N)
  <2>1. IsFiniteSet(S)
    BY FS_Subset
  <2> QED BY <2>1, CountByBijection
<1>2. ASSUME NEW c \in Coins(f)
      PROVE  \E x \in S : \E i \in 1..f[x] : c = <<x, i>>
  <2>1. PICK x \in D : \E i \in 1..f[x] : c = <<x, i>>
    BY CoinMembership
  <2>2. f[x] # 0
    BY <2>1
  <2> QED BY <2>1, <2>2
<1>3. \A c \in Coins(f) : h[c] \in Coins(g)
  <2> TAKE c \in Coins(f)
  <2>1. PICK x \in S : \E i \in 1..f[x] : c = <<x, i>>
    BY <1>2
  <2>2. PICK i \in 1..f[x] : c = <<x, i>>
    BY <2>1
  <2>3. h[c] = <<r[x], i>> /\ r[x] \in DOMAIN g /\ i \in 1..g[r[x]]
    BY <2>2
  <2> QED BY <2>3, CoinMembership
<1>4. \A c, d \in Coins(f) : h[c] = h[d] => c = d
  BY <1>2
<1>5. \A e \in Coins(g) : \E c \in Coins(f) : h[c] = e
  <2> TAKE e \in Coins(g)
  <2>1. PICK y \in N : \E i \in 1..g[y] : e = <<y, i>>
    BY CoinMembership
  <2>2. PICK x \in S : r[x] = y
    OBVIOUS
  <2>3. PICK i \in 1..f[x] : e = <<r[x], i>>
    BY <2>1, <2>2
  <2>4. <<x, i>> \in Coins(f)
    BY <2>3, CoinMembership
  <2>5. h[<<x, i>>] = e
    BY <2>3, <2>4
  <2> QED BY <2>4, <2>5
<1>6. IsFiniteSet(Coins(f))
  BY CoinsFinite
<1>7. h \in [Coins(f) -> Coins(g)]
  BY <1>3
<1> HIDE DEF h
<1>8. Cardinality(Coins(g)) = Cardinality(Coins(f))
  BY <1>4, <1>5, <1>6, <1>7, CountByBijection
<1> QED BY <1>1, <1>8 DEF Total

-----------------------------------------------------------------------------
(* Induction and recursion on numbers, by the least counterexample.        *)

LEMMA LeastNatural ==
  ASSUME NEW T \in SUBSET Nat, T # {}
  PROVE  \E x \in T : \A y \in T : x <= y
<1>1. PICK x \in T : \A y \in T : ~(<<y, x>> \in OpToRel(<, Nat))
  BY NatLessThanWellFounded, WFMin, Zenon
<1>2. ASSUME NEW y \in T PROVE ~(y < x)
  BY <1>1 DEF OpToRel
<1> QED
  BY <1>2

(* Induction, for a property given as the set of numbers that have it.     *)
LEMMA InductionUpTo ==
  ASSUME NEW N \in Nat, NEW S, 0 \in S,
         \A n \in Nat : n < N /\ n \in S => n + 1 \in S
  PROVE  \A n \in 0..N : n \in S
<1> DEFINE T == {n \in 0..N : n \notin S}
<1> SUFFICES ASSUME T # {} PROVE FALSE
  OBVIOUS
<1>1. PICK x \in T : \A y \in T : x <= y
  <2>1. T \in SUBSET Nat
    OBVIOUS
  <2> HIDE DEF T
  <2> QED BY <2>1, LeastNatural
<1>2. x # 0 /\ x \in Nat /\ x - 1 \in Nat /\ x - 1 < N
  BY <1>1
<1>3. x - 1 \in S
  BY <1>1, <1>2
<1>4. (x - 1) + 1 \in S
  BY <1>2, <1>3
<1> QED
  BY <1>1, <1>2, <1>4

LEMMA InductionOnNat ==
  ASSUME NEW S, 0 \in S, \A n \in Nat : n \in S => n + 1 \in S
  PROVE  \A n \in Nat : n \in S
<1> SUFFICES ASSUME NEW n \in Nat PROVE n \in S
  OBVIOUS
<1>1. \A m \in 0..n : m \in S
  BY InductionUpTo
<1> QED
  BY <1>1

(* A value and a step from each value to the next define a sequence.       *)
Steps(g, a, step) == g[0] = a /\ \A n \in Nat : g[n + 1] = step[<<n, g[n]>>]

LEMMA SequenceExists ==
  ASSUME NEW T, NEW a \in T, NEW step \in [Nat \X T -> T]
  PROVE  \E g \in [Nat -> T] : Steps(g, a, step)
<1> DEFINE Starts(n, h) == h[0] = a /\ \A i \in Nat : i < n => h[i + 1] = step[<<i, h[i]>>]
           Traces(n) == {h \in [0..n -> T] : Starts(n, h)}
           Some(n) == CHOOSE h : h \in Traces(n)
           g == [n \in Nat |-> Some(n)[n]]
<1>1. ASSUME NEW n \in Nat, NEW h \in Traces(n)
      PROVE  [i \in 0..(n + 1) |-> IF i = n + 1 THEN step[<<n, h[n]>>] ELSE h[i]]
               \in Traces(n + 1)
  <2> DEFINE k == [i \in 0..(n + 1) |-> IF i = n + 1 THEN step[<<n, h[n]>>] ELSE h[i]]
  <2>1. h \in [0..n -> T] /\ h[n] \in T /\ <<n, h[n]>> \in Nat \X T
    OBVIOUS
  <2>2. k \in [0..(n + 1) -> T]
    BY <2>1
  <2>3. k[0] = a
    OBVIOUS
  <2>4. ASSUME NEW i \in Nat, i < n + 1 PROVE k[i + 1] = step[<<i, k[i]>>]
    <3>1. i \in 0..n /\ k[i] = h[i]
      BY <2>4
    <3>2. CASE i = n
      <4>1. k[n + 1] = step[<<n, h[n]>>]
        OBVIOUS
      <4> QED BY <3>1, <3>2, <4>1
    <3>3. CASE i < n
      <4>1. k[i + 1] = h[i + 1]
        BY <3>3
      <4> QED BY <3>1, <3>3, <4>1
    <3> QED BY <2>4, <3>2, <3>3
  <2> QED BY <2>2, <2>3, <2>4
<1>2. \A n \in Nat : Traces(n) # {}
  <2> DEFINE S == {n \in Nat : Traces(n) # {}}
  <2>1. 0 \in S
    <3>1. [i \in 0..0 |-> a] \in Traces(0)
      OBVIOUS
    <3> QED BY <3>1
  <2>2. ASSUME NEW n \in Nat, n \in S PROVE n + 1 \in S
    <3>1. PICK h : h \in Traces(n)
      BY <2>2
    <3>2. Traces(n + 1) # {}
      BY <1>1, <3>1
    <3> QED BY <3>2
  <2>3. \A n \in Nat : n \in S
    <3> HIDE DEF S
    <3> QED BY <2>1, <2>2, InductionOnNat
  <2> QED BY <2>3
<1>3. ASSUME NEW n \in Nat PROVE Some(n) \in Traces(n)
  <2>1. \E h : h \in Traces(n)
    BY <1>2
  <2> HIDE DEF Traces
  <2> QED BY <2>1
<1>4. ASSUME NEW n \in Nat, NEW h \in Traces(n), NEW k \in Traces(n + 1)
      PROVE  h[n] = k[n]
  <2> DEFINE S == {i \in 0..n : h[i] = k[i]}
  <2>1. 0 \in S
    OBVIOUS
  <2>2. ASSUME NEW i \in Nat, i < n /\ i \in S PROVE i + 1 \in S
    <3>1. h[i + 1] = step[<<i, h[i]>>] /\ k[i + 1] = step[<<i, k[i]>>]
      BY <1>4, <2>2
    <3> QED BY <2>2, <3>1
  <2>3. \A i \in 0..n : i \in S
    <3> HIDE DEF S
    <3> QED BY <2>1, <2>2, InductionUpTo
  <2> QED BY <2>3
<1>5. g \in [Nat -> T]
  <2>1. ASSUME NEW n \in Nat PROVE Some(n)[n] \in T
    <3>1. Some(n) \in [0..n -> T]
      BY <1>3
    <3> HIDE DEF Some
    <3> QED BY <3>1
  <2> HIDE DEF Some
  <2> QED BY <2>1
<1>6. g[0] = a
  <2>1. Some(0)[0] = a
    BY <1>3
  <2> HIDE DEF Some
  <2> QED BY <2>1
<1>7. ASSUME NEW n \in Nat PROVE g[n + 1] = step[<<n, g[n]>>]
  <2>0. n + 1 \in Nat
    OBVIOUS
  <2> HIDE DEF Some, Traces
  <2>1. Some(n) \in Traces(n) /\ Some(n + 1) \in Traces(n + 1)
    BY <1>3, <2>0
  <2>2. Some(n)[n] = Some(n + 1)[n]
    BY <1>4, <2>1
  <2>3. Some(n + 1)[n + 1] = step[<<n, Some(n + 1)[n]>>]
    BY <2>1 DEF Traces
  <2> QED BY <2>0, <2>2, <2>3
<1>8. Steps(g, a, step)
  BY <1>6, <1>7 DEF Steps
<1> QED
  BY <1>5, <1>8, Zenon
=============================================================================
